----------------------------- MODULE App_proofs -----------------------------
(***************************************************************************)
(* Proofs about the app's parts that share no state, for any number of     *)
(* people, discs, tabs, pages, operations and runs: the accounts, the scan *)
(* wizard, the API keys and icons, AI identification, the schema           *)
(* migrations, the queries of the screens, and all of them together, with  *)
(* the catalog of Catalog_proofs.                                          *)
(***************************************************************************)
EXTENDS MCApp, Catalog_proofs, Collections_proofs
-----------------------------------------------------------------------------
(***************************************************************************)
(* Accounts, sessions, vaults and devices, for any people and browsers:    *)
(* the vault a session names is the vault of its user's row; a device and  *)
(* its session are of one user; a vault that is open is in the directory;  *)
(* and the cap of users is passed by no more than the sign-ups that are    *)
(* decided side by side.                                                   *)
(*                                                                         *)
(* Whatever names a user or a session names one that was given out, which  *)
(* is why a new one is not named anywhere yet: the sets below are the      *)
(* types of Accounts with that condition, as functions of the counters.    *)
(***************************************************************************)

Counters == [users: 0..MaxUsers, sessions: 0..MaxSessions, devices: 0..MaxDevices, ops: Nat]

UserOf(n) == {x \in User : x.id <= n.users /\ x.vault = x.id}
SessionOf(n) == {s \in Session : s.id <= n.sessions}
DeviceOf(n) == {d \in Device : d.session <= n.sessions}
CookieOf(n) ==
  {c \in Cookie : c.session <= n.sessions /\ c.user <= n.users /\ c.vault = c.user}
SigningOf(n) ==
  {s \in Signing : /\ s.user # None => s.user <= n.users
                   /\ s.step = "insert" => s.email \in Email}
RegisteringOf(n) == {r \in Registering : r.session <= n.sessions /\ r.vault = r.user}
BootOf(n) ==
  {x \in Boot : /\ x.step # "no" => x.user \in Id /\ x.vault \in Id /\ x.vault <= n.users
                /\ x.step = "provision" => x.vault = x.user}
OpenOf(n) == {v \in Id : v <= n.users}
EndingOf == {x \in Ending : x.step = "rows" => x.vault = x.user}

\* A vault has its owner's number, in the directory, in cookies and in procedures.
VaultOf(us) == {v \in Vault : v.id = v.owner /\ \E x \in us : x.id = v.owner}

\* A registration is awaited by the page that sent it, and by no page when the page gave up.
Awaited ==
  \A r \in registering : r.page # None =>
    boot[r.page].step = "upsert" /\ \A q \in registering : q.page = r.page => q = r

AccountsInv ==
  /\ count \in Counters
  /\ users \subseteq UserOf(count) /\ vaults \subseteq VaultOf(users)
  /\ sessions \subseteq SessionOf(count) /\ devices \subseteq DeviceOf(count)
  /\ config \in [mode: {"open", "invite", "closed"}, cap: Caps, invites: SUBSET Email]
  /\ cloud \in [Id -> SUBSET Id]
  /\ cookie \in [Browser -> CookieOf(count) \cup {None}]
  /\ files \in [Browser -> [Id -> File]]
  /\ open \in [Browser -> OpenOf(count) \cup {None}]
  /\ known \in [Browser -> SUBSET Id]
  /\ signing \in [Browser -> SigningOf(count)]
  /\ boot \in [Browser -> BootOf(count)]
  /\ ending \in [Browser -> EndingOf]
  /\ registering \subseteq RegisteringOf(count) /\ Awaited
----------------------------------------------------------------------------
(* What is so far given out stays so when more is. *)
LEMMA MoreGiven ==
  ASSUME NEW n \in Counters, NEW m \in Counters,
         n.users <= m.users, n.sessions <= m.sessions
  PROVE  /\ UserOf(n) \subseteq UserOf(m) /\ SessionOf(n) \subseteq SessionOf(m)
         /\ DeviceOf(n) \subseteq DeviceOf(m) /\ CookieOf(n) \subseteq CookieOf(m)
         /\ SigningOf(n) \subseteq SigningOf(m) /\ BootOf(n) \subseteq BootOf(m)
         /\ OpenOf(n) \subseteq OpenOf(m) /\ RegisteringOf(n) \subseteq RegisteringOf(m)
<1>. n.users \in Nat /\ m.users \in Nat /\ n.sessions \in Nat /\ m.sessions \in Nat
  BY AccountsAssumption DEF Counters
<1>1. \A i \in Nat : (i <= n.users => i <= m.users) /\ (i <= n.sessions => i <= m.sessions)
  OBVIOUS
<1>2. Id \subseteq Nat /\ 1..MaxSessions \subseteq Nat
  BY AccountsAssumption DEF Id
<1>3. UserOf(n) \subseteq UserOf(m)
  BY <1>1, <1>2 DEF UserOf, User
<1>4. SessionOf(n) \subseteq SessionOf(m)
  BY <1>1, <1>2 DEF SessionOf, Session
<1>5. DeviceOf(n) \subseteq DeviceOf(m)
  BY <1>1, <1>2 DEF DeviceOf, Device
<1>6. CookieOf(n) \subseteq CookieOf(m)
  BY <1>1, <1>2 DEF CookieOf, Cookie
<1>7. SigningOf(n) \subseteq SigningOf(m)
  BY <1>1, <1>2 DEF SigningOf, Signing
<1>8. BootOf(n) \subseteq BootOf(m)
  BY <1>1, <1>2 DEF BootOf, Boot
<1>9. OpenOf(n) \subseteq OpenOf(m)
  BY <1>1, <1>2 DEF OpenOf
<1>10. RegisteringOf(n) \subseteq RegisteringOf(m)
  BY <1>1, <1>2 DEF RegisteringOf, Registering
<1>. QED
  BY <1>3, <1>4, <1>5, <1>6, <1>7, <1>8, <1>9, <1>10

(* Nothing is given out, and nothing is named, at the start. *)
LEMMA InvInit == AccountsInit => AccountsInv
<1>. SUFFICES ASSUME AccountsInit PROVE AccountsInv
  OBVIOUS
<1>1. count \in Counters
  BY AccountsAssumption DEF AccountsInit, Counters
<1>2. NotSigning \in SigningOf(count) /\ Idle \in BootOf(count) /\ Idle \in EndingOf
  BY DEF SigningOf, BootOf, EndingOf, NotSigning, Idle, Signing, Boot, Ending
<1>3. NoFile \in File
  BY AccountsAssumption DEF NoFile, File
<1>. QED
  BY <1>1, <1>2, <1>3 DEF AccountsInit, AccountsInv, Awaited
----------------------------------------------------------------------------
(***************************************************************************)
(* The steps of the OAuth callback (databaseHooks of better-auth.ts).      *)
(***************************************************************************)
LEMMA CallbackKeeps ==
  ASSUME AccountsInv, NEW b \in Browser, NEW e \in Email, Callback(b, e)
  PROVE  AccountsInv'
<1>1. UNCHANGED <<users, vaults, sessions, devices, config, registering, peak, cloud, cookie,
                  files, open, known, boot, ending, count>>
  BY DEF Callback, d1Vars, opVars, webVars
<1>2. /\ signing' = [c \in Browser |-> signing'[c]]
      /\ \A c \in Browser :
           \/ signing'[c] = signing[c]
           \/ signing'[c] = [signing[c] EXCEPT !.alone = FALSE]
           \/ \E x \in users : signing'[c] = [step |-> "session", email |-> e, user |-> x.id,
                                              alone |-> TRUE]
           \/ \E a \in BOOLEAN : signing'[c] = [step |-> "insert", email |-> e, user |-> None,
                                                alone |-> a]
  <2>1. CASE \E x \in users : x.email = e
    BY <2>1 DEF Callback, AccountsInv
  <2>2. CASE ~ \E x \in users : x.email = e
    BY <2>2 DEF Callback, AccountsInv
  <2>. QED
    BY <2>1, <2>2
<1>3. ASSUME NEW c \in Browser PROVE signing'[c] \in SigningOf(count)
  <2>1. signing[c] \in SigningOf(count) /\ users \subseteq UserOf(count)
    BY DEF AccountsInv
  <2>2. CASE signing'[c] = [signing[c] EXCEPT !.alone = FALSE]
    BY <2>1, <2>2 DEF SigningOf, Signing
  <2>3. ASSUME NEW x \in users,
               signing'[c] = [step |-> "session", email |-> e, user |-> x.id, alone |-> TRUE]
        PROVE  signing'[c] \in SigningOf(count)
    BY <2>1, <2>3 DEF SigningOf, Signing, UserOf, User
  <2>4. ASSUME NEW a \in BOOLEAN,
               signing'[c] = [step |-> "insert", email |-> e, user |-> None, alone |-> a]
        PROVE  signing'[c] \in SigningOf(count)
    BY <2>4 DEF SigningOf, Signing
  <2>. QED
    BY <1>2, <2>1, <2>2, <2>3, <2>4
<1>4. signing' \in [Browser -> SigningOf(count)]
  BY <1>2, <1>3
<1>. QED
  BY <1>1, <1>4 DEF AccountsInv, Awaited

(* A sign-up goes on after its insert, for the user it has by then. *)
LEMMA SignupGoesOn ==
  ASSUME NEW n, NEW s \in SigningOf(n), NEW step \in {"provision", "session"}
  PROVE  /\ [s EXCEPT !.step = step] \in SigningOf(n)
         /\ \A u \in Id : u <= n.users =>
              [s EXCEPT !.step = step, !.user = u, !.alone = TRUE] \in SigningOf(n)
<1>1. s \in Signing /\ (s.user # None => s.user <= n.users)
  BY DEF SigningOf
<1>2. [s EXCEPT !.step = step] \in Signing
      /\ \A u \in Id : [s EXCEPT !.step = step, !.user = u, !.alone = TRUE] \in Signing
  BY <1>1 DEF Signing
<1>3. /\ [s EXCEPT !.step = step].user = s.user /\ [s EXCEPT !.step = step].step = step
      /\ \A u \in Id : /\ [s EXCEPT !.step = step, !.user = u, !.alone = TRUE].user = u
                        /\ [s EXCEPT !.step = step, !.user = u, !.alone = TRUE].step = step
  BY <1>1 DEF Signing
<1>4. step # "insert"
  OBVIOUS
<1>. QED
  BY <1>1, <1>2, <1>3, <1>4 DEF SigningOf

(* The user row is inserted, with the next number, or its email is taken. *)
LEMMA InsertKeeps ==
  ASSUME AccountsInv, NEW b \in Browser, InsertUser(b)
  PROVE  AccountsInv'
<1>1. UNCHANGED <<vaults, sessions, devices, config, registering, cloud, cookie, files, open,
                  known, boot, ending>>
  BY DEF InsertUser, opVars, webVars
<1>. DEFINE n == count.users + 1
<1>2. CASE \E x \in users : x.email = signing[b].email
  <2>1. users' = users /\ count' = count /\ signing' = [signing EXCEPT ![b] = NotSigning]
    BY <1>2 DEF InsertUser
  <2>2. NotSigning \in SigningOf(count)
    BY DEF SigningOf, Signing, NotSigning
  <2>. QED
    BY <1>1, <2>1, <2>2 DEF AccountsInv, Awaited
<1>3. CASE \A x \in users : x.email # signing[b].email
  <2>1. /\ n <= MaxUsers
        /\ users' = users \cup {[id |-> n, email |-> signing[b].email, vault |-> n]}
        /\ count' = [count EXCEPT !.users = n]
        /\ signing' = [signing EXCEPT ![b] =
              [signing[b] EXCEPT !.step = "provision", !.user = n, !.alone = TRUE]]
        /\ signing[b].step = "insert"
    BY <1>3 DEF InsertUser
  <2>2. count \in Counters /\ count' \in Counters /\ n \in Id /\ count.users <= count'.users
        /\ count.sessions <= count'.sessions /\ count'.users = n
    <3>1. count \in Counters
      BY DEF AccountsInv
    <3>2. count.users \in Nat /\ n \in 1..MaxUsers /\ count.sessions \in Nat
      BY <2>1, <3>1, AccountsAssumption DEF Counters
    <3>3. count' \in Counters /\ count'.users = n /\ count'.sessions = count.sessions
      BY <2>1, <3>1, <3>2, AccountsAssumption DEF Counters
    <3>. QED
      BY <3>1, <3>2, <3>3 DEF Id
  <2>. HIDE DEF n
  <2>3. [id |-> n, email |-> signing[b].email, vault |-> n] \in UserOf(count')
    <3>1. signing[b].email \in Email
      BY <2>1 DEF AccountsInv, SigningOf, Signing
    <3>. QED
      BY <2>2, <3>1 DEF UserOf, User, Id
  <2>4. [signing[b] EXCEPT !.step = "provision", !.user = n, !.alone = TRUE]
          \in SigningOf(count')
    <3>1. n <= n
      BY <2>2, AccountsAssumption DEF Id
    <3>2. signing[b] \in SigningOf(count')
      BY <2>2, MoreGiven DEF AccountsInv
    <3>. QED
      BY <2>2, <3>1, <3>2, SignupGoesOn
  <2>5. VaultOf(users) \subseteq VaultOf(users')
    BY <2>1 DEF VaultOf
  <2>. QED
    BY <1>1, <2>1, <2>2, <2>3, <2>4, <2>5, MoreGiven DEF AccountsInv, Awaited
<1>. QED
  BY <1>2, <1>3

\* A vault row is added for a user that exists, and has the user's number.
LEMMA ProvisionKeeps ==
  ASSUME AccountsInv, NEW u, NEW v, UserExists(u), v = u, Provision(u, v)
  PROVE  /\ vaults' \subseteq VaultOf(users)
         /\ [id |-> v, owner |-> u] \in vaults'
         /\ vaults \subseteq vaults' /\ vaults' \subseteq vaults \cup {[id |-> v, owner |-> u]}
<1>1. u \in Id
  BY DEF UserExists, AccountsInv, UserOf, User
<1>2. [id |-> v, owner |-> u] \in VaultOf(users)
  BY <1>1 DEF VaultOf, Vault, UserExists
<1>3. ASSUME NEW x \in vaults, x.id = v \/ x.owner = u
      PROVE  x = [id |-> v, owner |-> u]
  BY <1>3 DEF AccountsInv, VaultOf, Vault
<1>. QED
  BY <1>2, <1>3 DEF AccountsInv, Provision

(* user.create.after: the vault row, or a user left without one. *)
LEMMA ProvisionNewKeeps ==
  ASSUME AccountsInv, NEW b \in Browser, ProvisionNew(b)
  PROVE  AccountsInv'
<1>1. UNCHANGED <<users, sessions, devices, config, registering, cloud, cookie, files, open,
                  known, boot, ending, count>>
  BY DEF ProvisionNew, opVars, webVars
<1>2. signing' \in [Browser -> SigningOf(count)]
  <2>1. NotSigning \in SigningOf(count)
    BY DEF SigningOf, Signing, NotSigning
  <2>3. [signing[b] EXCEPT !.step = "session"] \in SigningOf(count)
    BY SignupGoesOn DEF AccountsInv
  <2>2. \/ signing' = [signing EXCEPT ![b].step = "session"]
        \/ signing' = [signing EXCEPT ![b] = NotSigning]
    BY DEF ProvisionNew
  <2>. QED
    BY <2>1, <2>2, <2>3 DEF AccountsInv
<1>3. vaults' \subseteq VaultOf(users)
  <2>1. CASE vaults' = vaults
    BY <2>1 DEF AccountsInv
  <2>2. CASE vaults' # vaults
    <3>. DEFINE x == CHOOSE y \in users : y.id = signing[b].user
    <3>1. UserExists(signing[b].user) /\ Provision(signing[b].user, x.vault)
      BY <2>2 DEF ProvisionNew
    <3>2. x \in users /\ x.id = signing[b].user
      BY <3>1 DEF UserExists
    <3>3. x.vault = signing[b].user
      BY <3>2 DEF AccountsInv, UserOf
    <3>. QED
      BY <3>1, <3>3, ProvisionKeeps
  <2>. QED
    BY <2>1, <2>2
<1>. QED
  BY <1>1, <1>2, <1>3 DEF AccountsInv, Awaited

\* A session that begins has a number nobody has, and its cookie names the user's vault.
LEMMA SessionIs ==
  ASSUME AccountsInv, NEW b \in Browser, CreateSession(b)
  PROVE  /\ UNCHANGED <<users, vaults, devices, config, registering, peak, cloud, files, open,
                        known, boot, ending>>
         /\ signing' = [signing EXCEPT ![b] = NotSigning]
         /\ \/ UNCHANGED <<sessions, cookie, count>>
            \/ \E n \in 1..MaxSessions, u \in Id :
                 /\ n = count.sessions + 1 /\ u <= count.users
                 /\ count' = [count EXCEPT !.sessions = n]
                 /\ sessions' = sessions \cup {[id |-> n, user |-> u]}
                 /\ cookie' = [cookie EXCEPT ![b] = [session |-> n, user |-> u, vault |-> u,
                                                     fresh |-> TRUE]]
<1>1. CASE ~UserExists(signing[b].user)
  BY <1>1 DEF CreateSession, opVars
<1>2. CASE UserExists(signing[b].user)
  <2>. DEFINE x == CHOOSE y \in users : y.id = signing[b].user
              n == count.sessions + 1
              u == signing[b].user
  <2>1. x \in users /\ x.id = u
    BY <1>2 DEF UserExists
  <2>2. x.vault = u /\ u \in Id /\ u <= count.users
    BY <2>1 DEF AccountsInv, UserOf, User
  <2>3. n \in 1..MaxSessions
    BY <1>2, AccountsAssumption DEF CreateSession, AccountsInv, Counters
  <2>4. /\ count' = [count EXCEPT !.sessions = n]
        /\ sessions' = sessions \cup {[id |-> n, user |-> u]}
        /\ cookie' = [cookie EXCEPT ![b] = [session |-> n, user |-> u, vault |-> x.vault,
                                            fresh |-> TRUE]]
        /\ signing' = [signing EXCEPT ![b] = NotSigning]
        /\ UNCHANGED <<users, vaults, devices, config, registering, peak, cloud, files, open,
                       known, boot, ending>>
    BY <1>2 DEF CreateSession, opVars
  <2>. HIDE DEF x, n, u
  <2>5. n = count.sessions + 1
    BY DEF n
  <2>. QED
    BY <2>2, <2>3, <2>4, <2>5
<1>. QED
  BY <1>1, <1>2

(* The session row and its cookie name a user that exists. *)
LEMMA CreateSessionKeeps ==
  ASSUME AccountsInv, NEW b \in Browser, CreateSession(b)
  PROVE  AccountsInv'
<1>1. signing' = [signing EXCEPT ![b] = NotSigning]
      /\ UNCHANGED <<users, vaults, devices, config, registering, cloud, files, open, known, boot,
                     ending>>
  BY SessionIs
<1>2. NotSigning \in SigningOf(count)
  BY DEF SigningOf, Signing, NotSigning
<1>3. CASE UNCHANGED <<sessions, cookie, count>>
  BY <1>1, <1>2, <1>3 DEF AccountsInv, Awaited
<1>4. ASSUME NEW n \in 1..MaxSessions, NEW u \in Id,
             n = count.sessions + 1, u <= count.users,
             count' = [count EXCEPT !.sessions = n],
             sessions' = sessions \cup {[id |-> n, user |-> u]},
             cookie' = [cookie EXCEPT ![b] = [session |-> n, user |-> u, vault |-> u,
                                              fresh |-> TRUE]]
      PROVE  AccountsInv'
  <2>1. count \in Counters /\ count' \in Counters /\ count.users <= count'.users
        /\ count.sessions <= count'.sessions /\ count'.sessions = n /\ u <= count'.users
    <3>1. count \in Counters
      BY DEF AccountsInv
    <3>2. count.users \in Nat /\ count.sessions \in Nat
      BY <3>1, AccountsAssumption DEF Counters
    <3>3. count' \in Counters /\ count'.users = count.users /\ count'.sessions = n
      BY <1>4, <3>1, <3>2, AccountsAssumption DEF Counters
    <3>. QED
      BY <1>4, <3>1, <3>2, <3>3

  <2>2. [id |-> n, user |-> u] \in SessionOf(count')
    BY <2>1, <1>4 DEF SessionOf, Session
  <2>3. [session |-> n, user |-> u, vault |-> u, fresh |-> TRUE] \in CookieOf(count')
    BY <2>1, <1>4 DEF CookieOf, Cookie
  <2>4. NotSigning \in SigningOf(count')
    BY DEF SigningOf, Signing, NotSigning
  <2>. QED
    BY <1>1, <1>4, <2>1, <2>2, <2>3, <2>4, MoreGiven DEF AccountsInv, Awaited
<1>. QED
  BY <1>3, <1>4, SessionIs
----------------------------------------------------------------------------
(***************************************************************************)
(* The other steps.                                                        *)
(***************************************************************************)
\* A cookie names a session and a user that were given out, and the vault of the user.
LEMMA CookieIs ==
  ASSUME AccountsInv, NEW b \in Browser, cookie[b] # None
  PROVE  /\ cookie[b].user \in Id /\ cookie[b].user <= count.users
         /\ cookie[b].vault = cookie[b].user
         /\ cookie[b].session \in 1..MaxSessions /\ cookie[b].session <= count.sessions
         /\ [cookie EXCEPT ![b].fresh = TRUE] \in [Browser -> CookieOf(count) \cup {None}]
         /\ [cookie EXCEPT ![b].fresh = FALSE] \in [Browser -> CookieOf(count) \cup {None}]
<1>1. cookie[b] \in CookieOf(count) /\ cookie \in [Browser -> CookieOf(count) \cup {None}]
  BY DEF AccountsInv
<1>2. [cookie[b] EXCEPT !.fresh = TRUE] \in CookieOf(count)
  BY <1>1 DEF CookieOf, Cookie
<1>3. [cookie[b] EXCEPT !.fresh = FALSE] \in CookieOf(count)
  BY <1>1 DEF CookieOf, Cookie
<1>. QED
  BY <1>1, <1>2, <1>3 DEF CookieOf, Cookie

\* A request that had its scope: the cookie is fresh again, and nothing more.
LEMMA ScopeIs ==
  ASSUME AccountsInv, NEW b \in Browser, HasScope(b)
  PROVE  /\ cookie[b] # None /\ Refreshed(b) \in [Browser -> CookieOf(count) \cup {None}]
         /\ cookie[b].user \in Id /\ cookie[b].user <= count.users
         /\ cookie[b].vault = cookie[b].user
         /\ cookie[b].session \in 1..MaxSessions /\ cookie[b].session <= count.sessions
<1>1. cookie[b] # None
  BY DEF HasScope
<1>. QED
  BY <1>1, CookieIs DEF Refreshed

\* What bootstrapAccount keeps between its steps.
LEMMA BootIs ==
  ASSUME AccountsInv, NEW b \in Browser
  PROVE  /\ boot[b].step # "no" => /\ boot[b].user \in Id /\ boot[b].vault \in Id
                                   /\ boot[b].vault <= count.users
         /\ boot[b].step = "provision" => boot[b].vault = boot[b].user
         /\ Idle \in BootOf(count)
         /\ \A step \in {"open", "register", "upsert"} : boot[b].step # "no" =>
              [boot[b] EXCEPT !.step = step] \in BootOf(count)
<1>1. boot[b] \in BootOf(count)
  BY DEF AccountsInv
<1>2. Idle \in BootOf(count)
  BY DEF BootOf, Boot, Idle
<1>. QED
  BY <1>1, <1>2 DEF BootOf, Boot

(* Requests at the server are awaited as before while a page that sent none goes on. *)
LEMMA StillAwaited ==
  ASSUME AccountsInv, NEW b \in Browser, NEW x, registering' = registering,
         boot[b].step # "upsert", boot' = [boot EXCEPT ![b] = x]
  PROVE  Awaited'
BY DEF AccountsInv, Awaited, RegisteringOf, Registering

(* GET /account, the provisioning it repeats, open, and the end of a cookie cache. *)
LEMMA BootKeeps ==
  ASSUME AccountsInv, NEW b \in Browser,
         GetAccount(b) \/ GetAccountProvision(b) \/ OpenVault(b) \/ CacheExpires(b)
  PROVE  AccountsInv'
<1>1. ASSUME GetAccount(b) PROVE AccountsInv'
  <2>1. HasScope(b) /\ cookie' = Refreshed(b)
        /\ UNCHANGED <<users, vaults, sessions, devices, config, registering, cloud, files, open,
                       known, signing, ending, count>>
    BY <1>1 DEF GetAccount, d1Vars, opVars
  <2>. DEFINE u == cookie[b].user
  <2>2. u \in Id /\ u <= count.users /\ cookie[b].vault = u
    BY <2>1, ScopeIs
  <2>3. ASSUME NEW v \in vaults, v.owner = u
        PROVE  [step |-> "open", user |-> u, vault |-> v.id] \in BootOf(count)
    <3>1. v.id = u
      BY <2>3 DEF AccountsInv, VaultOf
    <3>. QED
      BY <2>2, <3>1 DEF BootOf, Boot
  <2>4. [step |-> "provision", user |-> u, vault |-> cookie[b].vault] \in BootOf(count)
    BY <2>2 DEF BootOf, Boot
  <2>5. boot' \in [Browser -> BootOf(count)]
    BY <1>1, <2>3, <2>4 DEF GetAccount, AccountsInv
  <2>6. Awaited'
    <3>1. boot[b].step # "upsert" /\ \E x : boot' = [boot EXCEPT ![b] = x]
      BY <1>1 DEF GetAccount, Booting
    <3>. QED
      BY <2>1, <3>1, StillAwaited
  <2>. QED
    BY <2>1, <2>5, <2>6, ScopeIs DEF AccountsInv
<1>2. ASSUME GetAccountProvision(b) PROVE AccountsInv'
  <2>1. UNCHANGED <<users, sessions, devices, config, registering, cloud, cookie, files, open,
                    known, signing, ending, count>>
    BY <1>2 DEF GetAccountProvision, opVars, webVars
  <2>2. boot[b].step = "provision"
    BY <1>2 DEF GetAccountProvision, Booting
  <2>3. /\ boot' = [boot EXCEPT ![b].step = "open"] \/ boot' = [boot EXCEPT ![b] = Idle]
        /\ \/ vaults' = vaults
           \/ UserExists(boot[b].user) /\ Provision(boot[b].user, boot[b].vault)
    BY <1>2 DEF GetAccountProvision, Provisioned, BootEnds
  <2>4. vaults' \subseteq VaultOf(users)
    BY <2>2, <2>3, BootIs, ProvisionKeeps DEF AccountsInv
  <2>5. boot' \in [Browser -> BootOf(count)]
    <3>1. boot \in [Browser -> BootOf(count)] /\ Idle \in BootOf(count)
      BY BootIs DEF AccountsInv
    <3>2. [boot[b] EXCEPT !.step = "open"] \in BootOf(count)
      BY <2>2, BootIs
    <3>3. \/ boot' = [boot EXCEPT ![b] = [boot[b] EXCEPT !.step = "open"]]
          \/ boot' = [boot EXCEPT ![b] = Idle]
      BY <2>3
    <3>. QED
      BY <3>1, <3>2, <3>3
  <2>6. Awaited'
    <3>1. \E x : boot' = [boot EXCEPT ![b] = x]
      BY <2>3
    <3>. QED
      BY <2>1, <2>2, <3>1, StillAwaited
  <2>. QED
    BY <2>1, <2>4, <2>5, <2>6 DEF AccountsInv
<1>3. ASSUME OpenVault(b) PROVE AccountsInv'
  <2>1. /\ UNCHANGED <<users, vaults, sessions, devices, config, registering, cloud, cookie,
                       files, known, signing, ending, count>>
        /\ boot[b].step = "open"
        /\ \/ open' = [open EXCEPT ![b] = boot[b].vault]
              /\ boot' = [boot EXCEPT ![b].step = "register"]
           \/ open' = open /\ boot' = [boot EXCEPT ![b] = Idle]
    BY <1>3 DEF OpenVault, d1Vars, opVars, BootEnds, Booting
  <2>2. boot[b].vault \in OpenOf(count)
    BY <2>1, BootIs DEF OpenOf
  <2>3. boot' \in [Browser -> BootOf(count)] /\ open' \in [Browser -> OpenOf(count) \cup {None}]
    <3>1. /\ boot \in [Browser -> BootOf(count)] /\ Idle \in BootOf(count)
          /\ open \in [Browser -> OpenOf(count) \cup {None}]
      BY BootIs DEF AccountsInv
    <3>2. [boot[b] EXCEPT !.step = "register"] \in BootOf(count)
      BY <2>1, BootIs
    <3>3. /\ \/ boot' = [boot EXCEPT ![b] = [boot[b] EXCEPT !.step = "register"]]
             \/ boot' = [boot EXCEPT ![b] = Idle]
          /\ open' = [open EXCEPT ![b] = boot[b].vault] \/ open' = open
      BY <2>1
    <3>4. boot' \in [Browser -> BootOf(count)]
      BY <3>1, <3>2, <3>3
    <3>5. open' \in [Browser -> OpenOf(count) \cup {None}]
      BY <2>2, <3>1, <3>3
    <3>. QED
      BY <3>4, <3>5
  <2>4. Awaited'
    <3>1. boot[b].step # "upsert" /\ \E x : boot' = [boot EXCEPT ![b] = x]
      BY <2>1
    <3>. QED
      BY <2>1, <3>1, StillAwaited
  <2>. QED
    BY <2>1, <2>3, <2>4 DEF AccountsInv
<1>4. ASSUME CacheExpires(b) PROVE AccountsInv'
  <2>1. UNCHANGED <<users, vaults, sessions, devices, config, registering, cloud, files, open,
                    known, signing, boot, ending, count>>
    BY <1>4 DEF CacheExpires, d1Vars, opVars
  <2>2. cookie' \in [Browser -> CookieOf(count) \cup {None}]
    BY <1>4, CookieIs DEF CacheExpires
  <2>. QED
    BY <2>1, <2>2 DEF AccountsInv, Awaited
<1>. QED
  BY <1>1, <1>2, <1>3, <1>4

\* What POST /devices leaves at the server, and what becomes of the requests it overlaps.
Request(b, d) ==
  [page |-> b, device |-> d, user |-> cookie[b].user, vault |-> cookie[b].vault,
   session |-> cookie[b].session,
   alone |-> {r \in registering : r.device = d /\ r.user # cookie[b].user} = {}]
Met(b, d, r) == [r EXCEPT !.alone = @ /\ ~(r.device = d /\ r.user # cookie[b].user)]

(* POST /devices up to the upsert, in terms of what it does to file, cookie and requests. *)
LEMMA RegisterIs ==
  ASSUME AccountsInv, NEW b \in Browser, Register(b)
  PROVE  /\ UNCHANGED <<users, vaults, sessions, devices, config, peak, cloud, open, known,
                        signing, ending>>
         /\ boot[b].step = "register"
         /\ \E d \in 1..MaxDevices :
              /\ files' = [files EXCEPT ![b][boot[b].vault].device = d]
              /\ count' = [count EXCEPT !.devices = IF d > @ THEN d ELSE @]
              /\ \/ /\ HasScope(b) /\ OwnsDevice(d, cookie[b].user)
                    /\ registering' = {Met(b, d, r) : r \in registering}
                                        \cup {Request(b, d)}
                    /\ cookie' = Refreshed(b)
                    /\ boot' = [boot EXCEPT ![b].step = "upsert"]
                 \/ /\ cookie' = cookie \/ (HasScope(b) /\ cookie' = Refreshed(b))
                    /\ boot' = [boot EXCEPT ![b] = Idle] /\ registering' = registering
<1>. DEFINE v == boot[b].vault
            d == DeviceId(b, v)
            others == {r \in registering : r.device = d /\ r.user # cookie[b].user}
<1>1. /\ UNCHANGED <<users, vaults, sessions, devices, config, peak, cloud, open, known,
                     signing, ending>>
      /\ boot[b].step = "register" /\ d <= MaxDevices
      /\ files' = [files EXCEPT ![b][v].device = d]
      /\ count' = [count EXCEPT !.devices = IF d > @ THEN d ELSE @]
  BY DEF Register, Booting, d1Vars, opVars
<1>2. \/ /\ HasScope(b) /\ OwnsDevice(d, cookie[b].user)
         /\ registering' = {[r EXCEPT !.alone = @ /\ r \notin others] : r \in registering}
                              \cup {Request(b, d)}
         /\ cookie' = Refreshed(b)
         /\ boot' = [boot EXCEPT ![b].step = "upsert"]
      \/ /\ cookie' = cookie \/ (HasScope(b) /\ cookie' = Refreshed(b))
         /\ boot' = [boot EXCEPT ![b] = Idle] /\ registering' = registering
  BY DEF Register, BootEnds, Request
<1>3. v \in Id
  BY <1>1, BootIs
<1>4. d \in 1..MaxDevices
  <2>1. files[b][v].device \in 0..MaxDevices
    BY <1>3 DEF AccountsInv, File
  <2>2. count.devices \in Nat
    BY AccountsAssumption DEF AccountsInv, Counters
  <2>. QED
    BY <1>1, <2>1, <2>2, AccountsAssumption DEF DeviceId
<1>. DEFINE met(r) == [r EXCEPT !.alone = @ /\ r \notin others]
<1>5. \A r \in registering : met(r) = Met(b, d, r)
  BY DEF Met
<1>. HIDE DEF met
<1>6. {met(r) : r \in registering} = {Met(b, d, r) : r \in registering}
  BY <1>5
<1>. USE DEF met
<1>. HIDE DEF d, others
<1>. QED
  BY <1>1, <1>2, <1>4, <1>6 DEF v

\* The parts of a request that a step leaves as they are.
FromOne(x, rs) ==
  \E r \in rs : /\ x.device = r.device /\ x.user = r.user /\ x.vault = r.vault
                /\ x.session = r.session /\ (x.alone => r.alone)

(* What a registration is after another: as it was, or no longer alone. *)
LEMMA MetIs ==
  ASSUME AccountsInv, NEW b, NEW d, NEW r \in registering
  PROVE  /\ Met(b, d, r) \in RegisteringOf(count) /\ Met(b, d, r).page = r.page
         /\ FromOne(Met(b, d, r), registering)
         /\ Met(b, d, r).alone => ~(r.device = d /\ r.user # cookie[b].user)
<1>1. r \in Registering /\ r \in RegisteringOf(count)
  BY DEF AccountsInv, RegisteringOf
<1>2. PICK a \in BOOLEAN : /\ Met(b, d, r) = [r EXCEPT !.alone = a]
                           /\ a => r.alone /\ ~(r.device = d /\ r.user # cookie[b].user)
  BY <1>1 DEF Met, Registering
<1>3. [r EXCEPT !.alone = a] \in RegisteringOf(count)
  BY <1>1 DEF RegisteringOf, Registering
<1>. QED
  BY <1>1, <1>2, <1>3 DEF FromOne, Registering

(* What POST /devices leaves at the server is as a session of its user has it. *)
LEMMA RequestIs ==
  ASSUME AccountsInv, NEW b \in Browser, NEW d \in 1..MaxDevices, HasScope(b)
  PROVE  Request(b, d) \in RegisteringOf(count) /\ Request(b, d).page = b
<1>1. (registering = registering) \in BOOLEAN
      /\ ({r \in registering : r.device = d /\ r.user # cookie[b].user} = {}) \in BOOLEAN
  OBVIOUS
<1>. QED
  BY <1>1, ScopeIs DEF Request, RegisteringOf, Registering

(* What nobody waits for any more goes on as it was. *)
LEMMA AbandonedIs ==
  ASSUME AccountsInv, NEW b \in Browser
  PROVE  /\ Abandoned(b) \subseteq RegisteringOf(count)
         /\ \A x \in Abandoned(b) : FromOne(x, registering)
         /\ \A x \in Abandoned(b) : x.page # None => x.page # b /\ x \in registering
<1>. SUFFICES ASSUME NEW x \in Abandoned(b)
              PROVE  /\ x \in RegisteringOf(count) /\ FromOne(x, registering)
                     /\ x.page # None => x.page # b /\ x \in registering
  OBVIOUS
<1>1. PICK r \in registering : x = [r EXCEPT !.page = IF @ = b THEN None ELSE @]
  BY DEF Abandoned
<1>2. r \in Registering /\ r \in RegisteringOf(count)
  BY DEF AccountsInv, RegisteringOf
<1>3. CASE r.page = b
  <2>1. x = [r EXCEPT !.page = None]
    BY <1>1, <1>3
  <2>. QED
    BY <1>2, <2>1 DEF RegisteringOf, Registering, FromOne
<1>4. CASE r.page # b
  <2>1. x = r
    BY <1>1, <1>2, <1>4 DEF Registering
  <2>. QED
    BY <1>2, <1>4, <2>1 DEF FromOne
<1>. QED
  BY <1>3, <1>4

(* POST /devices up to the upsert, and a page that no longer waits for it. *)
LEMMA RegisterKeeps ==
  ASSUME AccountsInv, NEW b \in Browser, Register(b)
  PROVE  AccountsInv'
<1>1. PICK d \in 1..MaxDevices :
        /\ files' = [files EXCEPT ![b][boot[b].vault].device = d]
        /\ count' = [count EXCEPT !.devices = IF d > @ THEN d ELSE @]
        /\ \/ /\ HasScope(b)
              /\ registering' = {Met(b, d, r) : r \in registering} \cup {Request(b, d)}
              /\ cookie' = Refreshed(b)
              /\ boot' = [boot EXCEPT ![b].step = "upsert"]
           \/ /\ cookie' = cookie \/ (HasScope(b) /\ cookie' = Refreshed(b))
              /\ boot' = [boot EXCEPT ![b] = Idle] /\ registering' = registering
  BY RegisterIs
<1>2. /\ UNCHANGED <<users, vaults, sessions, devices, config, peak, cloud, open, known,
                     signing, ending>>
      /\ boot[b].step = "register"
  BY RegisterIs
<1>3. boot[b].vault \in Id /\ boot' \in [Browser -> BootOf(count)]
  <2>1. [boot[b] EXCEPT !.step = "upsert"] \in BootOf(count) /\ Idle \in BootOf(count)
        /\ boot[b].vault \in Id /\ boot \in [Browser -> BootOf(count)]
    BY <1>2, BootIs DEF AccountsInv
  <2>2. \/ boot' = [boot EXCEPT ![b] = [boot[b] EXCEPT !.step = "upsert"]]
        \/ boot' = [boot EXCEPT ![b] = Idle]
    BY <1>1
  <2>. QED
    BY <2>1, <2>2
<1>4. files' \in [Browser -> [Id -> File]]
  <2>1. files[b][boot[b].vault] \in File /\ d \in 0..MaxDevices
    BY <1>3, AccountsAssumption DEF AccountsInv
  <2>2. [files[b][boot[b].vault] EXCEPT !.device = d] \in File
    BY <2>1 DEF File
  <2>. QED
    BY <1>1, <1>3, <2>2 DEF AccountsInv
<1>5. count' \in Counters /\ count'.users = count.users /\ count'.sessions = count.sessions
  <2>1. count \in Counters
    BY DEF AccountsInv
  <2>2. PICK n \in 0..MaxDevices : count' = [count EXCEPT !.devices = n]
    <3>1. count.devices \in 0..MaxDevices /\ d \in 0..MaxDevices
      BY <2>1, AccountsAssumption DEF Counters
    <3>. QED
      BY <1>1, <3>1
  <2>. QED
    BY <2>1, <2>2 DEF Counters
<1>6. count.users <= count'.users /\ count.sessions <= count'.sessions
  BY <1>5, AccountsAssumption DEF AccountsInv, Counters
<1>7. cookie' \in [Browser -> CookieOf(count) \cup {None}]
  <2>1. CASE cookie' = cookie
    BY <2>1 DEF AccountsInv
  <2>2. CASE HasScope(b) /\ cookie' = Refreshed(b)
    BY <2>2, ScopeIs
  <2>. QED
    BY <1>1, <2>1, <2>2
<1>8. registering' \subseteq RegisteringOf(count) /\ Awaited'
  <2>1. CASE registering' = registering /\ boot' = [boot EXCEPT ![b] = Idle]
    BY <1>2, <2>1, StillAwaited DEF AccountsInv
  <2>2. CASE /\ HasScope(b)
             /\ registering' = {Met(b, d, r) : r \in registering} \cup {Request(b, d)}
             /\ boot' = [boot EXCEPT ![b].step = "upsert"]
    <3>1. registering' \subseteq RegisteringOf(count)
      BY <2>2, MetIs, RequestIs
    <3>2. /\ boot'[b].step = "upsert"
          /\ \A c \in Browser : boot[c].step = "upsert" => c # b /\ boot'[c] = boot[c]
      <4>1. boot \in [Browser -> BootOf(count)] /\ boot[b] \in Boot
        BY DEF AccountsInv, BootOf
      <4>2. [boot[b] EXCEPT !.step = "upsert"].step = "upsert"
            /\ boot' = [boot EXCEPT ![b] = [boot[b] EXCEPT !.step = "upsert"]]
        BY <2>2, <4>1 DEF Boot
      <4>. QED
        BY <1>2, <4>1, <4>2
    <3>3. \A r \in registering : r.page # None =>
            r.page # b /\ boot'[r.page].step = "upsert"
      BY <3>2 DEF AccountsInv, Awaited, RegisteringOf, Registering
    <3>4. \A x \in registering' : \/ x = Request(b, d) /\ x.page = b
                                  \/ \E r \in registering : x = Met(b, d, r) /\ x.page = r.page
      BY <2>2, MetIs, RequestIs
    <3>5. ASSUME NEW x \in registering', x.page # None
          PROVE  boot'[x.page].step = "upsert" /\ \A y \in registering' : y.page = x.page => y = x
      <4>1. boot'[x.page].step = "upsert"
        BY <3>2, <3>3, <3>4, <3>5
      <4>2. ASSUME NEW y \in registering', y.page = x.page PROVE y = x
        <5>1. CASE x.page = b
          BY <3>3, <3>4, <3>5, <4>2, <5>1
        <5>2. CASE x.page # b
          <6>1. PICK r \in registering, q \in registering :
                  x = Met(b, d, r) /\ x.page = r.page /\ y = Met(b, d, q) /\ y.page = q.page
            BY <3>4, <4>2, <5>2
          <6>2. q = r
            BY <3>5, <4>2, <6>1 DEF AccountsInv, Awaited
          <6>. QED
            BY <6>1, <6>2
        <5>. QED
          BY <5>1, <5>2
      <4>. QED
        BY <4>1, <4>2
    <3>6. Awaited'
      BY <3>5 DEF Awaited
    <3>. QED
      BY <3>1, <3>6
  <2>. QED
    BY <1>1, <2>1, <2>2
<1>9. /\ DeviceOf(count) \subseteq DeviceOf(count') /\ UserOf(count) \subseteq UserOf(count')
      /\ SessionOf(count) \subseteq SessionOf(count') /\ CookieOf(count) \subseteq CookieOf(count')
      /\ SigningOf(count) \subseteq SigningOf(count') /\ BootOf(count) \subseteq BootOf(count')
      /\ OpenOf(count) \subseteq OpenOf(count')
      /\ RegisteringOf(count) \subseteq RegisteringOf(count')
  <2>1. count \in Counters
    BY DEF AccountsInv
  <2>. QED
    BY <1>5, <1>6, <2>1, MoreGiven
<1>. QED
  BY <1>2, <1>3, <1>4, <1>5, <1>7, <1>8, <1>9 DEF AccountsInv

\* The row of a device that registers: of the user, and, if there was one, of the same vault.
DeviceRow(r, row) ==
  /\ row.id = r.device /\ row.session = r.session /\ row.alone = r.alone
  /\ \/ /\ \A x \in devices : x.id # r.device
        /\ row.user = r.user /\ row.vault = r.vault /\ \E x \in vaults : x.id = r.vault
     \/ \E x \in devices : x.id = r.device /\ row.user = x.user /\ row.vault = x.vault

(* The upsert, in terms of what it does to devices, requests and pages. *)
LEMMA UpsertIs ==
  ASSUME AccountsInv, NEW r \in registering, Upsert(r)
  PROVE  /\ UNCHANGED <<users, vaults, sessions, config, peak, cloud, cookie, files, open,
                        signing, ending, count>>
         /\ registering' = registering \ {r}
         /\ boot' = [b \in Browser |-> IF b = r.page THEN Idle ELSE boot[b]]
         /\ \/ known' = known
            \/ known' = [b \in Browser |->
                           IF b = r.page THEN known[b] \cup {boot[b].user} ELSE known[b]]
         /\ \/ devices' = devices
            \/ \E row \in Device : /\ DeviceRow(r, row)
                                   /\ devices' = {x \in devices : x.id # r.device} \cup {row}
<1>. DEFINE old == {x \in devices : x.id = r.device}
            fresh == [id |-> r.device, user |-> r.user, vault |-> r.vault,
                      session |-> r.session, revoked |-> FALSE, alone |-> r.alone]
            x == CHOOSE y \in old : TRUE
<1>1. r \in Registering
  BY DEF AccountsInv, RegisteringOf
<1>2. ASSUME RegisterDevice(r)
      PROVE  \E row \in Device : /\ DeviceRow(r, row)
                                 /\ devices' = {y \in devices : y.id # r.device} \cup {row}
  <2>1. CASE old = {}
    <3>1. /\ devices' = {y \in devices : y.id # r.device} \cup {fresh}
          /\ \E y \in vaults : y.id = r.vault
      BY <1>2, <2>1 DEF RegisterDevice
    <3>2. fresh \in Device
      BY <1>1 DEF Device, Registering
    <3>3. DeviceRow(r, fresh)
      BY <2>1, <3>1 DEF DeviceRow
    <3>. QED
      BY <3>1, <3>2, <3>3
  <2>2. CASE old # {}
    <3>. DEFINE row == [x EXCEPT !.session = r.session, !.revoked = FALSE, !.alone = r.alone]
    <3>1. devices' = {y \in devices : y.id # r.device} \cup {row}
      BY <1>2, <2>2 DEF RegisterDevice
    <3>2. x \in devices /\ x.id = r.device
      BY <2>2
    <3>3. x \in Device
      BY <3>2 DEF AccountsInv, DeviceOf
    <3>. HIDE DEF x
    <3>4. row \in Device /\ row.id = x.id /\ row.user = x.user /\ row.vault = x.vault
          /\ row.session = r.session /\ row.alone = r.alone
      BY <1>1, <3>3 DEF Device, Registering
    <3>5. DeviceRow(r, row)
      BY <3>2, <3>4 DEF DeviceRow
    <3>. QED
      BY <3>1, <3>4, <3>5
  <2>. QED
    BY <2>1, <2>2
<1>. QED
  BY <1>2 DEF Upsert, opVars

(* The upsert, its timeout at the page, and the closing of the tabs. *)
LEMMA UpsertKeeps ==
  ASSUME AccountsInv, NEW r \in registering, Upsert(r)
  PROVE  AccountsInv'
<1>1. /\ UNCHANGED <<users, vaults, sessions, config, peak, cloud, cookie, files, open,
                     signing, ending, count>>
      /\ registering' = registering \ {r}
      /\ boot' = [b \in Browser |-> IF b = r.page THEN Idle ELSE boot[b]]
  BY UpsertIs
<1>2. r \in RegisteringOf(count) /\ r.page \in Browser \cup {None}
  BY DEF AccountsInv, RegisteringOf, Registering
<1>3. boot' \in [Browser -> BootOf(count)]
  BY <1>1, BootIs DEF AccountsInv
<1>4. known' \in [Browser -> SUBSET Id]
  <2>1. ASSUME NEW b \in Browser, b = r.page PROVE boot[b].user \in Id
    <3>1. r.page # None
      BY <2>1, AccountsAssumption
    <3>. QED
      BY <2>1, <3>1, BootIs DEF AccountsInv, Awaited
  <2>2. known \in [Browser -> SUBSET Id]
    BY DEF AccountsInv
  <2>3. CASE known' = [b \in Browser |->
                        IF b = r.page THEN known[b] \cup {boot[b].user} ELSE known[b]]
    <3>1. ASSUME NEW b \in Browser
          PROVE  (IF b = r.page THEN known[b] \cup {boot[b].user} ELSE known[b]) \in SUBSET Id
      BY <2>1, <2>2
    <3>. QED
      BY <2>3, <3>1
  <2>. QED
    BY <2>2, <2>3, UpsertIs
<1>5. devices' \subseteq DeviceOf(count)
  <2>1. ASSUME NEW row \in Device, DeviceRow(r, row),
               devices' = {x \in devices : x.id # r.device} \cup {row}
        PROVE  devices' \subseteq DeviceOf(count)
    <3>1. row \in DeviceOf(count)
      BY <1>2, <2>1 DEF DeviceRow, DeviceOf, RegisteringOf
    <3>. QED
      BY <2>1, <3>1 DEF AccountsInv
  <2>. QED
    BY <2>1, UpsertIs DEF AccountsInv
<1>6. Awaited'
  <2>1. ASSUME NEW q \in registering', q.page # None
        PROVE  boot'[q.page].step = "upsert"
    <3>1. q \in registering /\ q # r /\ q.page \in Browser
      BY <1>1, <2>1 DEF AccountsInv, RegisteringOf, Registering
    <3>2. boot[q.page].step = "upsert" /\ q.page # r.page
      BY <2>1, <3>1 DEF AccountsInv, Awaited
    <3>. QED
      BY <1>1, <3>1, <3>2
  <2>. QED
    BY <1>1, <2>1 DEF AccountsInv, Awaited
<1>. QED
  BY <1>1, <1>3, <1>4, <1>5, <1>6 DEF AccountsInv

(* A page that stops waiting. *)
LEMMA StopKeeps ==
  ASSUME AccountsInv, NEW b \in Browser, registering' = Abandoned(b),
         boot' = [boot EXCEPT ![b] = Idle], count' = count
  PROVE  /\ registering' \subseteq RegisteringOf(count) /\ Awaited'
         /\ boot' \in [Browser -> BootOf(count)]
<1>1. ASSUME NEW x \in registering', x.page # None
      PROVE  boot'[x.page].step = "upsert" /\ \A y \in registering' : y.page = x.page => y = x
  <2>1. /\ x \in registering /\ x.page # b /\ x.page \in Browser
        /\ \A y \in registering' : y.page = x.page => y \in registering
    BY <1>1, AbandonedIs DEF AccountsInv, RegisteringOf, Registering
  <2>. QED
    BY <1>1, <2>1 DEF AccountsInv, Awaited
<1>. QED
  BY <1>1, AbandonedIs, BootIs DEF Awaited, AccountsInv

(* Closing the tabs, a sync, and the revocation of a device. *)
LEMMA WorkKeeps ==
  ASSUME AccountsInv, NEW b \in Browser,
         RegisterTimesOut(b) \/ CloseTabs(b) \/ Sync(b) \/ Revoke(b)
  PROVE  AccountsInv'
<1>0. ASSUME RegisterTimesOut(b) PROVE AccountsInv'
  <2>1. /\ UNCHANGED <<users, vaults, sessions, devices, config, cloud, cookie, files, open,
                       known, signing, ending, count>>
        /\ registering' = Abandoned(b) /\ boot' = [boot EXCEPT ![b] = Idle]
    BY <1>0 DEF RegisterTimesOut, BootEnds, d1Vars, opVars, webVars
  <2>. QED
    BY <2>1, StopKeeps DEF AccountsInv
<1>1. ASSUME CloseTabs(b) PROVE AccountsInv'
  <2>1. /\ UNCHANGED <<users, vaults, sessions, devices, config, cloud, cookie, files, known,
                       signing, count>>
        /\ registering' = Abandoned(b) /\ boot' = [boot EXCEPT ![b] = Idle]
    BY <1>1 DEF CloseTabs, d1Vars, opVars
  <2>2. Idle \in EndingOf
    BY DEF EndingOf, Ending, Idle
  <2>3. /\ ending' \in [Browser -> EndingOf]
        /\ open' \in [Browser -> OpenOf(count) \cup {None}]
    BY <1>1, <2>2 DEF CloseTabs, AccountsInv
  <2>. QED
    BY <2>1, <2>3, StopKeeps DEF AccountsInv
<1>2. ASSUME Sync(b) PROVE AccountsInv'
  <2>. DEFINE v == open[b]
              w == cookie[b].vault
  <2>1. /\ UNCHANGED <<users, vaults, sessions, devices, config, registering, open, known,
                       signing, boot, ending, count>>
        /\ v # None /\ HasScope(b) /\ cookie' = Refreshed(b)
    BY <1>2 DEF Sync, d1Vars, opVars
  <2>2. v \in Id /\ w \in Id
    BY <2>1, ScopeIs DEF AccountsInv, OpenOf
  <2>3. PICK sent \in SUBSET {v} :
          /\ cloud' = [cloud EXCEPT ![w] = @ \cup (sent \ {w})]
          /\ files' = [files EXCEPT ![b][v].rows = @ \cup ((cloud[w] \cup {w}) \ {v})]
    BY <1>2 DEF Sync
  <2>4. cloud' \in [Id -> SUBSET Id]
    BY <2>2, <2>3 DEF AccountsInv
  <2>5. files' \in [Browser -> [Id -> File]]
    <3>. DEFINE rows == files[b][v].rows \cup ((cloud[w] \cup {w}) \ {v})
    <3>1. files[b][v] \in File /\ cloud[w] \in SUBSET Id
      BY <2>2 DEF AccountsInv
    <3>2. rows \in SUBSET Id
      BY <2>2, <3>1 DEF File
    <3>3. files' = [files EXCEPT ![b] = [files[b] EXCEPT ![v] = [files[b][v] EXCEPT !.rows = rows]]]
      BY <2>3
    <3>. HIDE DEF rows
    <3>4. [files[b][v] EXCEPT !.rows = rows] \in File
      BY <3>1, <3>2 DEF File
    <3>. QED
      BY <2>2, <3>3, <3>4 DEF AccountsInv
  <2>. QED
    BY <2>1, <2>4, <2>5, ScopeIs DEF AccountsInv, Awaited
<1>3. ASSUME Revoke(b) PROVE AccountsInv'
  <2>1. /\ UNCHANGED <<users, vaults, config, registering, cloud, files, open, known, signing,
                       boot, ending, count>>
        /\ HasScope(b) /\ cookie' = Refreshed(b) /\ sessions' \subseteq sessions
    BY <1>3 DEF Revoke, opVars
  <2>2. PICK x \in devices : devices' = (devices \ {x}) \cup {[x EXCEPT !.revoked = TRUE]}
    BY <1>3 DEF Revoke
  <2>3. x \in DeviceOf(count)
    BY DEF AccountsInv
  <2>4. [x EXCEPT !.revoked = TRUE] \in DeviceOf(count)
    BY <2>3 DEF DeviceOf, Device
  <2>. QED
    BY <2>1, <2>2, <2>4, ScopeIs DEF AccountsInv, Awaited
<1>. QED
  BY <1>0, <1>1, <1>2, <1>3

\* What is left of the directory once the rows of user u, whose vault is v = u, are deleted.
LEMMA DeletedKeeps ==
  ASSUME AccountsInv, NEW u, DeletedRows(u, u)
  PROVE  /\ users' \subseteq UserOf(count) /\ vaults' \subseteq VaultOf(users')
         /\ sessions' \subseteq SessionOf(count) /\ devices' \subseteq DeviceOf(count)
         /\ users' \subseteq users /\ sessions' \subseteq sessions /\ devices' \subseteq devices
<1>1. users' = {x \in users : x.id # u} /\ vaults' = {x \in vaults : x.id # u /\ x.owner # u}
      /\ sessions' \subseteq sessions /\ devices' \subseteq devices
  BY DEF DeletedRows
<1>2. vaults' \subseteq VaultOf(users')
  BY <1>1 DEF AccountsInv, VaultOf
<1>. QED
  BY <1>1, <1>2 DEF AccountsInv

(* Sign-out, account deletion and signOutAndWipe, step by step. *)
LEMMA EndsKeep ==
  ASSUME AccountsInv, NEW b \in Browser,
         \/ SignOut(b) \/ DeleteAccount(b) \/ DeleteRows(b)
         \/ StartWipe(b) \/ WipeSignsOut(b) \/ WipeFile(b) \/ ForgetAccount(b) \/ EndingFails(b)
  PROVE  AccountsInv'
<1>0. Idle \in EndingOf /\ ending[b] \in EndingOf /\ ending \in [Browser -> EndingOf]
  BY DEF EndingOf, Ending, Idle, AccountsInv
<1>1. \A step \in {"signout", "wipe", "forget"} : [ending[b] EXCEPT !.step = step] \in EndingOf
  BY <1>0 DEF EndingOf, Ending
<1>2. ASSUME SignedOut(b)
      PROVE  /\ cookie' \in [Browser -> CookieOf(count) \cup {None}]
             /\ sessions' \subseteq SessionOf(count)
  BY <1>2 DEF SignedOut, AccountsInv
<1>3. ASSUME SignOut(b) PROVE AccountsInv'
  BY <1>2, <1>3 DEF SignOut, opVars, AccountsInv, Awaited
<1>4. ASSUME DeleteAccount(b) PROVE AccountsInv'
  <2>. DEFINE c == cookie[b]
              e == [step |-> "rows", user |-> c.user, vault |-> c.vault]
  <2>1. /\ UNCHANGED <<users, vaults, sessions, devices, config, registering, files, open, known,
                       signing, boot, count>>
        /\ HasScope(b) /\ cookie' = Refreshed(b)
        /\ cloud' = [cloud EXCEPT ![c.vault] = {}]
        /\ ending' = [ending EXCEPT ![b] = e]
    BY <1>4 DEF DeleteAccount, d1Vars, opVars
  <2>2. e \in EndingOf
    BY <2>1, ScopeIs DEF EndingOf, Ending
  <2>3. cloud' \in [Id -> SUBSET Id]
    BY <2>1 DEF AccountsInv
  <2>. HIDE DEF e
  <2>. QED
    BY <1>0, <2>1, <2>2, <2>3, ScopeIs DEF AccountsInv, Awaited
<1>5. ASSUME DeleteRows(b) PROVE AccountsInv'
  <2>1. UNCHANGED <<config, registering, cloud, cookie, files, open, known, signing, boot, count>>
        /\ DeletedRows(ending[b].user, ending[b].vault) /\ ending[b].step = "rows"
    BY <1>5 DEF DeleteRows, opVars, webVars
  <2>2. ending[b].vault = ending[b].user
    BY <1>0, <2>1 DEF EndingOf
  <2>3. ending' \in [Browser -> EndingOf]
    BY <1>0, <1>1, <1>5 DEF DeleteRows
  <2>. QED
    BY <2>1, <2>2, <2>3, DeletedKeeps DEF AccountsInv, Awaited
<1>6. ASSUME StartWipe(b) PROVE AccountsInv'
  <2>1. UNCHANGED <<users, vaults, sessions, devices, config, registering, cloud, cookie, files,
                    open, known, signing, boot, count>>
    BY <1>6 DEF StartWipe, d1Vars, opVars, webVars
  <2>2. PICK u \in known[b] :
          ending' = [ending EXCEPT ![b] = [step |-> "signout", user |-> u, vault |-> open[b]]]
    BY <1>6 DEF StartWipe
  <2>3. u \in Id /\ open[b] \in Id \cup {None}
    BY DEF AccountsInv, OpenOf
  <2>4. [step |-> "signout", user |-> u, vault |-> open[b]] \in EndingOf
    BY <2>3 DEF EndingOf, Ending
  <2>. QED
    BY <1>0, <2>1, <2>2, <2>4 DEF AccountsInv, Awaited
<1>7. ASSUME WipeSignsOut(b) PROVE AccountsInv'
  <2>1. ending' \in [Browser -> EndingOf]
    BY <1>0, <1>1, <1>7 DEF WipeSignsOut
  <2>. QED
    BY <1>2, <1>7, <2>1 DEF WipeSignsOut, opVars, AccountsInv, Awaited
<1>8. ASSUME WipeFile(b) PROVE AccountsInv'
  <2>1. ending' \in [Browser -> EndingOf]
    BY <1>0, <1>1, <1>8 DEF WipeFile
  <2>2. NoFile \in File
    BY AccountsAssumption DEF NoFile, File
  <2>3. files' \in [Browser -> [Id -> File]] /\ open' \in [Browser -> OpenOf(count) \cup {None}]
    BY <1>8, <2>2 DEF WipeFile, AccountsInv
  <2>. QED
    BY <1>8, <2>1, <2>3 DEF WipeFile, d1Vars, opVars, AccountsInv, Awaited
<1>9. ASSUME ForgetAccount(b) PROVE AccountsInv'
  BY <1>0, <1>9 DEF ForgetAccount, d1Vars, opVars, AccountsInv, Awaited
<1>10. ASSUME EndingFails(b) PROVE AccountsInv'
  BY <1>0, <1>10 DEF EndingFails, d1Vars, opVars, webVars, AccountsInv, Awaited
<1>. QED
  BY <1>3, <1>4, <1>5, <1>6, <1>7, <1>8, <1>9, <1>10

(* An operator request changes the configuration, and the peak of its caps. *)
LEMMA ConfigureIs ==
  ASSUME AccountsInv, Configure
  PROVE  /\ AccountsInv'
         /\ UNCHANGED <<users, vaults, sessions, devices, cloud, cookie, files, open, known,
                        signing, boot, registering, ending>>
         /\ config'.cap \in {config.cap} \cup Caps
         /\ peak' = IF config'.cap > peak THEN config'.cap ELSE peak
<1>1. /\ UNCHANGED <<users, vaults, sessions, devices, cloud, cookie, files, open, known,
                     signing, boot, registering, ending>>
      /\ count' = [count EXCEPT !.ops = @ + 1]
      /\ peak' = IF config'.cap > peak THEN config'.cap ELSE peak
  BY DEF Configure, d1Vars, webVars
<1>2. config' \in [mode: {"open", "invite", "closed"}, cap: Caps, invites: SUBSET Email]
      /\ config'.cap \in {config.cap} \cup Caps
  <2>1. config \in [mode: {"open", "invite", "closed"}, cap: Caps, invites: SUBSET Email]
    BY DEF AccountsInv
  <2>2. \/ \E m \in {"open", "invite", "closed"} : config' = [config EXCEPT !.mode = m]
        \/ \E c \in Caps : config' = [config EXCEPT !.cap = c]
        \/ \E i \in SUBSET Email : config' = [config EXCEPT !.invites = i]
    <3>1. config.invites \in SUBSET Email
      BY <2>1
    <3>. QED
      BY <3>1 DEF Configure
  <2>. QED
    BY <2>1, <2>2
<1>3. count' \in Counters /\ count'.users = count.users /\ count'.sessions = count.sessions
  BY <1>1, AccountsAssumption, SMTT(30) DEF AccountsInv, Counters
<1>4. count \in Counters /\ count.users <= count'.users /\ count.sessions <= count'.sessions
  BY <1>3, AccountsAssumption DEF AccountsInv, Counters
<1>5. AccountsInv'
  <2>1. /\ DeviceOf(count) \subseteq DeviceOf(count') /\ UserOf(count) \subseteq UserOf(count')
        /\ SessionOf(count) \subseteq SessionOf(count')
        /\ CookieOf(count) \subseteq CookieOf(count')
        /\ SigningOf(count) \subseteq SigningOf(count') /\ BootOf(count) \subseteq BootOf(count')
        /\ OpenOf(count) \subseteq OpenOf(count')
        /\ RegisteringOf(count) \subseteq RegisteringOf(count')
    BY <1>3, <1>4, MoreGiven
  <2>. QED
    BY <1>1, <1>2, <1>3, <2>1 DEF AccountsInv, Awaited
<1>. QED
  BY <1>1, <1>2, <1>5

(* Every step of a browser or of the operator keeps the invariant. *)
LEMMA InvStep ==
  ASSUME AccountsInv, [AccountsNext]_accountVars
  PROVE  AccountsInv'
<1>1. CASE UNCHANGED accountVars
  BY <1>1 DEF accountVars, d1Vars, opVars, webVars, AccountsInv, Awaited
<1>2. CASE Configure
  BY <1>2, ConfigureIs
<1>3. ASSUME NEW b \in Browser, BrowserStep(b) PROVE AccountsInv'
  BY <1>3, CallbackKeeps, InsertKeeps, ProvisionNewKeeps, CreateSessionKeeps, BootKeeps,
     RegisterKeeps, WorkKeeps, EndsKeep DEF BrowserStep
<1>. QED
  BY <1>1, <1>2, <1>3, UpsertKeeps DEF AccountsNext

(* The invariant that every theorem below rests on. *)
LEMMA InvAlways == AccountsSpec => []AccountsInv
<1>1. AccountsInv /\ [AccountsNext]_accountVars => AccountsInv'
  BY InvStep
<1>. QED
  BY InvInit, <1>1, PTL DEF AccountsSpec

(* The tables, cookies and procedures keep their types, for any people, browsers, caps and *)
(* bounds (the handlers of app.ts and better-auth.ts, bootstrapAccount, signOutAndWipe).   *)
THEOREM AccountsTyped == AccountsSpec => []AccountsTypeOK
<1>1. AccountsInv => AccountsTypeOK
  <2>1. /\ UserOf(count) \subseteq User /\ VaultOf(users) \subseteq Vault
        /\ SessionOf(count) \subseteq Session /\ DeviceOf(count) \subseteq Device
        /\ CookieOf(count) \subseteq Cookie /\ SigningOf(count) \subseteq Signing
        /\ BootOf(count) \subseteq Boot /\ OpenOf(count) \subseteq Id /\ EndingOf \subseteq Ending
        /\ RegisteringOf(count) \subseteq Registering
    BY DEF UserOf, VaultOf, SessionOf, DeviceOf, CookieOf, SigningOf, BootOf, OpenOf, EndingOf,
           RegisteringOf
  <2>. QED
    BY <2>1 DEF AccountsInv, AccountsTypeOK
<1>. QED
  BY <1>1, InvAlways, PTL

(* For any people and browsers, the vault a session names is the one of its user's row, so *)
(* that GET /account and every other route mean the same vault.                            *)
THEOREM OneVaultPerUser == AccountsSpec => []VaultAgrees
<1>1. AccountsInv => VaultAgrees
  <2>. SUFFICES ASSUME AccountsInv, NEW v \in vaults
                PROVE  /\ \E u \in users : u.id = v.owner /\ u.vault = v.id
                       /\ \A b \in Browser : cookie[b] # None /\ cookie[b].user = v.owner
                                               => cookie[b].vault = v.id
    BY DEF VaultAgrees
  <2>1. v.id = v.owner /\ \E x \in users : x.id = v.owner
    BY DEF AccountsInv, VaultOf
  <2>2. \A x \in users : x.vault = x.id
    BY DEF AccountsInv, UserOf
  <2>. QED
    BY <2>1, <2>2, CookieIs
<1>. QED
  BY <1>1, InvAlways, PTL
----------------------------------------------------------------------------
(***************************************************************************)
(* Devices and their sessions.                                             *)
(***************************************************************************)
\* The cookie of a session is of the session's user.
SessionsOwned ==
  \A b \in Browser : \A s \in sessions :
    cookie[b] # None /\ s.id = cookie[b].session => s.user = cookie[b].user

\* So is what is registered with it; one that overlapped none is of a device of its user's.
RequestsOwned ==
  \A r \in registering :
    /\ \A s \in sessions : s.id = r.session => s.user = r.user
    /\ r.alone => /\ OwnsDevice(r.device, r.user)
                  /\ \A q \in registering : q.device = r.device => q.user = r.user

OwnedInv == DevicesOwned /\ SessionsOwned /\ RequestsOwned

\* No session begins, and no device gets another owner or session.
NoneBegins ==
  /\ sessions' \subseteq sessions
  /\ \A c \in Browser : cookie'[c] # None =>
       /\ cookie[c] # None
       /\ cookie'[c].session = cookie[c].session /\ cookie'[c].user = cookie[c].user

Owned(d, ds) ==
  \E x \in ds : /\ x.id = d.id /\ x.user = d.user /\ x.vault = d.vault
                /\ x.session = d.session /\ (d.alone => x.alone)

Settled ==
  /\ NoneBegins /\ vaults \subseteq vaults'
  /\ \A d \in devices' : Owned(d, devices)
  /\ \A x \in registering' : FromOne(x, registering)

(* As long as no session begins and no device changes hands, all stays owned. *)
LEMMA OwnedKept ==
  ASSUME OwnedInv, NoneBegins,
         \A d \in devices' : Owned(d, devices) /\ [id |-> d.vault, owner |-> d.user] \in vaults',
         \A x \in registering' : FromOne(x, registering)
  PROVE  OwnedInv'
<1>1. DevicesOwned'
  <2>1. ASSUME NEW d \in devices', d.alone, NEW s \in sessions', s.id = d.session
        PROVE  s.user = d.user
    <3>1. PICK x \in devices : x.user = d.user /\ x.session = d.session /\ x.alone
      BY <2>1 DEF Owned
    <3>2. s \in sessions
      BY DEF NoneBegins
    <3>. QED
      BY <2>1, <3>1, <3>2 DEF OwnedInv, DevicesOwned
  <2>. QED
    BY <2>1 DEF DevicesOwned
<1>2. SessionsOwned'
  BY DEF OwnedInv, SessionsOwned, NoneBegins
<1>3. RequestsOwned'
  <2>. SUFFICES ASSUME NEW x \in registering'
                PROVE  /\ \A s \in sessions' : s.id = x.session => s.user = x.user
                       /\ x.alone =>
                            /\ \A d \in devices' : d.id = x.device => d.user = x.user
                            /\ \A y \in registering' : y.device = x.device => y.user = x.user
    BY DEF RequestsOwned, OwnsDevice
  <2>1. PICK r \in registering : /\ x.device = r.device /\ x.user = r.user
                                /\ x.session = r.session /\ (x.alone => r.alone)
    BY DEF FromOne
  <2>2. \A s \in sessions' : s.id = x.session => s.user = x.user
    BY <2>1 DEF OwnedInv, RequestsOwned, NoneBegins
  <2>3. ASSUME x.alone, NEW d \in devices', d.id = x.device PROVE d.user = x.user
    <3>1. PICK y \in devices : y.id = d.id /\ y.user = d.user
      BY DEF Owned
    <3>2. OwnsDevice(r.device, r.user)
      BY <2>1, <2>3 DEF OwnedInv, RequestsOwned
    <3>. QED
      BY <2>1, <2>3, <3>1, <3>2 DEF OwnsDevice
  <2>4. ASSUME x.alone, NEW y \in registering', y.device = x.device PROVE y.user = x.user
    <3>1. PICK q \in registering : y.device = q.device /\ y.user = q.user
      BY DEF FromOne
    <3>. QED
      BY <2>1, <2>4, <3>1 DEF OwnedInv, RequestsOwned
  <2>. QED
    BY <2>2, <2>3, <2>4
<1>. QED
  BY <1>1, <1>2, <1>3 DEF OwnedInv

(* Refreshing, ageing or dropping a cookie is no new session. *)
LEMMA RefreshBeginsNone ==
  ASSUME AccountsInv, NEW b \in Browser, sessions' \subseteq sessions,
         \/ cookie' = cookie
         \/ cookie' = [cookie EXCEPT ![b] = None]
         \/ HasScope(b) /\ cookie' = Refreshed(b)
         \/ cookie[b] # None /\ cookie' = [cookie EXCEPT ![b].fresh = FALSE]
  PROVE  NoneBegins
<1>1. cookie \in [Browser -> CookieOf(count) \cup {None}]
  BY DEF AccountsInv
<1>2. HasScope(b) => cookie[b] # None
  BY DEF HasScope
<1>3. CASE cookie' = cookie
  BY <1>3 DEF NoneBegins
<1>4. CASE cookie' = [cookie EXCEPT ![b] = None]
  BY <1>1, <1>4 DEF NoneBegins
<1>5. ASSUME cookie[b] # None, NEW f \in BOOLEAN, cookie' = [cookie EXCEPT ![b].fresh = f]
      PROVE  NoneBegins
  <2>1. cookie[b] \in Cookie
    BY <1>1, <1>5 DEF CookieOf
  <2>2. [cookie[b] EXCEPT !.fresh = f].session = cookie[b].session
        /\ [cookie[b] EXCEPT !.fresh = f].user = cookie[b].user
    BY <2>1 DEF Cookie
  <2>3. \A c \in Browser : cookie'[c] = IF c = b THEN [cookie[b] EXCEPT !.fresh = f] ELSE cookie[c]
    BY <1>1, <1>5
  <2>. QED
    BY <1>5, <2>2, <2>3 DEF NoneBegins
<1>. QED
  BY <1>2, <1>3, <1>4, <1>5 DEF Refreshed

(* All steps but the creation of a session, the two of a registration and a deletion of rows. *)
LEMMA MostSettle ==
  ASSUME AccountsInv, NEW b \in Browser,
         \/ \E e \in Email : Callback(b, e)
         \/ InsertUser(b) \/ ProvisionNew(b)
         \/ CacheExpires(b) \/ GetAccount(b) \/ GetAccountProvision(b) \/ OpenVault(b)
         \/ RegisterTimesOut(b) \/ CloseTabs(b) \/ Sync(b) \/ Revoke(b)
         \/ SignOut(b) \/ DeleteAccount(b)
         \/ StartWipe(b) \/ WipeSignsOut(b) \/ WipeFile(b) \/ ForgetAccount(b) \/ EndingFails(b)
  PROVE  Settled
<1>. DEFINE Same == /\ sessions' \subseteq sessions /\ devices' = devices
                    /\ vaults \subseteq vaults' /\ registering' = registering
<1>0. (\A d \in devices : Owned(d, devices)) /\ \A x \in registering : FromOne(x, registering)
  BY DEF Owned, FromOne
<1>1. ASSUME \/ \E e \in Email : Callback(b, e)
             \/ InsertUser(b) \/ ProvisionNew(b) \/ GetAccountProvision(b) \/ OpenVault(b)
             \/ StartWipe(b) \/ WipeFile(b) \/ ForgetAccount(b) \/ EndingFails(b)
      PROVE  Same /\ cookie' = cookie
  BY <1>1 DEF Callback, InsertUser, ProvisionNew, GetAccountProvision, OpenVault,
              StartWipe, WipeFile, ForgetAccount, EndingFails, d1Vars, webVars, Provision,
              Provisioned
<1>2. ASSUME GetAccount(b) \/ Sync(b) \/ DeleteAccount(b)
      PROVE  Same /\ HasScope(b) /\ cookie' = Refreshed(b)
  BY <1>2 DEF GetAccount, Sync, DeleteAccount, d1Vars
<1>3. ASSUME SignOut(b) \/ WipeSignsOut(b)
      PROVE  Same /\ cookie' = [cookie EXCEPT ![b] = None]
  BY <1>3 DEF SignOut, WipeSignsOut, SignedOut
<1>4. ASSUME CacheExpires(b)
      PROVE  Same /\ cookie[b] # None /\ cookie' = [cookie EXCEPT ![b].fresh = FALSE]
  BY <1>4 DEF CacheExpires, d1Vars
<1>5. ASSUME Revoke(b)
      PROVE  Settled
  <2>1. /\ sessions' \subseteq sessions /\ vaults' = vaults /\ registering' = registering
        /\ HasScope(b) /\ cookie' = Refreshed(b)
    BY <1>5 DEF Revoke
  <2>2. PICK x \in devices : devices' = (devices \ {x}) \cup {[x EXCEPT !.revoked = TRUE]}
    BY <1>5 DEF Revoke
  <2>3. x \in Device
    BY DEF AccountsInv, DeviceOf
  <2>4. Owned([x EXCEPT !.revoked = TRUE], devices)
    BY <2>3 DEF Owned, Device
  <2>. QED
    BY <1>0, <2>1, <2>2, <2>4, RefreshBeginsNone DEF Settled
<1>6. ASSUME Same, NoneBegins
      PROVE  Settled
  BY <1>0, <1>6 DEF Settled
<1>7. ASSUME RegisterTimesOut(b) \/ CloseTabs(b)
      PROVE  Settled
  <2>1. /\ sessions' = sessions /\ devices' = devices /\ vaults' = vaults /\ cookie' = cookie
        /\ registering' = Abandoned(b)
    BY <1>7 DEF RegisterTimesOut, CloseTabs, d1Vars, webVars
  <2>. QED
    BY <1>0, <2>1, AbandonedIs, RefreshBeginsNone DEF Settled
<1>. QED
  BY <1>1, <1>2, <1>3, <1>4, <1>5, <1>6, <1>7, RefreshBeginsNone

(* Every step keeps devices and cookies with the user of their session. *)
LEMMA OwnedStep ==
  ASSUME AccountsInv, OwnedInv, [AccountsNext]_accountVars
  PROVE  OwnedInv'
<1>1. ASSUME Settled PROVE OwnedInv'
  <2>1. \A d \in devices' : [id |-> d.vault, owner |-> d.user] \in vaults'
    BY <1>1 DEF Settled, Owned, OwnedInv, DevicesOwned
  <2>. QED
    BY <1>1, <2>1, OwnedKept DEF Settled
<1>2. CASE UNCHANGED accountVars
  BY <1>1, <1>2 DEF accountVars, d1Vars, webVars, Settled, NoneBegins, Owned, FromOne
<1>3. CASE Configure
  BY <1>1, <1>3 DEF Configure, d1Vars, webVars, Settled, NoneBegins, Owned, FromOne
<1>4. ASSUME NEW b \in Browser, CreateSession(b) PROVE OwnedInv'
  <2>1. CASE UNCHANGED <<sessions, cookie>>
    BY <1>4, <1>1, <2>1, SessionIs DEF Settled, NoneBegins, Owned, FromOne
  <2>2. CASE ~UNCHANGED <<sessions, cookie>>
    <3>1. PICK n \in 1..MaxSessions, u \in Id :
            /\ n = count.sessions + 1
            /\ sessions' = sessions \cup {[id |-> n, user |-> u]}
            /\ cookie' = [cookie EXCEPT ![b] = [session |-> n, user |-> u, vault |-> u,
                                                fresh |-> TRUE]]
      BY <1>4, <2>2, SessionIs
    <3>2. devices' = devices /\ vaults' = vaults /\ registering' = registering
      BY <1>4, SessionIs
    <3>3. \A i \in 1..MaxSessions : i <= count.sessions => i # n
      BY <3>1, AccountsAssumption DEF AccountsInv, Counters
    <3>4. /\ \A d \in devices : d.session # n
          /\ \A s \in sessions : s.id # n
          /\ \A c \in Browser : cookie[c] # None => cookie[c].session # n
          /\ \A r \in registering : r.session # n
      <4>3. \A r \in registering : r.session # n
        BY <3>3 DEF AccountsInv, RegisteringOf, Registering
      <4>1. \A d \in devices : d.session # n
        BY <3>3 DEF AccountsInv, DeviceOf, Device
      <4>2. \A s \in sessions : s.id # n
        BY <3>3 DEF AccountsInv, SessionOf, Session
      <4>. QED
        BY <3>3, <4>1, <4>2, <4>3, CookieIs
    <3>5. DevicesOwned'
      <4>1. ASSUME NEW d \in devices', d.alone, NEW s \in sessions', s.id = d.session
            PROVE  s.user = d.user
        <5>1. d \in devices /\ (s \in sessions \/ s.id = n)
          BY <3>1, <3>2
        <5>. QED
          BY <3>4, <4>1, <5>1 DEF OwnedInv, DevicesOwned
      <4>2. \A d \in devices' : [id |-> d.vault, owner |-> d.user] \in vaults'
        BY <3>2 DEF OwnedInv, DevicesOwned
      <4>. QED
        BY <4>1, <4>2 DEF DevicesOwned

    <3>6. ASSUME NEW c \in Browser, NEW s \in sessions', cookie'[c] # None,
                 s.id = cookie'[c].session
          PROVE  s.user = cookie'[c].user
      <4>1. cookie'[c] = IF c = b THEN [session |-> n, user |-> u, vault |-> u, fresh |-> TRUE]
                         ELSE cookie[c]
        BY <3>1 DEF AccountsInv
      <4>2. s \in sessions \/ s = [id |-> n, user |-> u]
        BY <3>1
      <4>. QED
        BY <3>4, <3>6, <4>1, <4>2 DEF OwnedInv, SessionsOwned
    <3>7. RequestsOwned'
      <4>1. ASSUME NEW r \in registering, NEW s \in sessions', s.id = r.session
            PROVE  s.user = r.user
        <5>1. s \in sessions \/ s.id = n
          BY <3>1
        <5>. QED
          BY <3>4, <4>1, <5>1 DEF OwnedInv, RequestsOwned
      <4>. QED
        BY <3>2, <4>1 DEF OwnedInv, RequestsOwned, OwnsDevice
    <3>. QED
      BY <3>5, <3>6, <3>7 DEF OwnedInv, SessionsOwned
  <2>. QED
    BY <2>1, <2>2
<1>5. ASSUME NEW b \in Browser, Register(b) PROVE OwnedInv'
  <2>1. sessions' = sessions /\ vaults' = vaults /\ devices' = devices
    BY <1>5, RegisterIs
  <2>2. NoneBegins
    BY <1>5, <2>1, RegisterIs, RefreshBeginsNone
  <2>3. CASE registering' = registering
    BY <1>1, <2>1, <2>2, <2>3 DEF Settled, Owned, FromOne
  <2>4. CASE registering' # registering
    <3>1. PICK d \in 1..MaxDevices :
            /\ HasScope(b) /\ OwnsDevice(d, cookie[b].user)
            /\ registering' = {Met(b, d, r) : r \in registering} \cup {Request(b, d)}
      BY <1>5, <2>4, RegisterIs
    <3>. DEFINE new == Request(b, d)
    <3>2. /\ new.device = d /\ new.user = cookie[b].user /\ new.session = cookie[b].session
          /\ new.alone => \A r \in registering : r.device = d => r.user = cookie[b].user
      BY DEF Request
    <3>3. \A s \in sessions : s.id = new.session => s.user = new.user
      BY <3>1, <3>2, ScopeIs DEF OwnedInv, SessionsOwned
    <3>. HIDE DEF new
    <3>4. \A x \in registering' : x = new \/ \E r \in registering :
            /\ x.device = r.device /\ x.user = r.user /\ x.session = r.session
            /\ x.alone => r.alone /\ ~(r.device = d /\ r.user # cookie[b].user)
      <4>1. ASSUME NEW r \in registering
            PROVE  LET x == Met(b, d, r)
                   IN  /\ x.device = r.device /\ x.user = r.user /\ x.session = r.session
                       /\ x.alone => r.alone /\ ~(r.device = d /\ r.user # cookie[b].user)
        <5>1. r \in Registering
          BY DEF AccountsInv, RegisteringOf
        <5>2. PICK a \in BOOLEAN :
                /\ Met(b, d, r) = [r EXCEPT !.alone = a]
                /\ a => r.alone /\ ~(r.device = d /\ r.user # cookie[b].user)
          BY <5>1 DEF Met, Registering
        <5>. QED
          BY <5>1, <5>2 DEF Registering
      <4>. QED
        BY <3>1, <4>1 DEF new
    <3>5. ASSUME NEW x \in registering'
          PROVE  /\ \A s \in sessions : s.id = x.session => s.user = x.user
                 /\ x.alone => /\ OwnsDevice(x.device, x.user)
                               /\ \A y \in registering' : y.device = x.device => y.user = x.user
      <4>1. CASE x = new
        BY <3>1, <3>2, <3>3, <3>4, <4>1
      <4>2. ASSUME NEW r \in registering,
                   x.device = r.device, x.user = r.user, x.session = r.session,
                   x.alone => r.alone /\ ~(r.device = d /\ r.user # cookie[b].user)
            PROVE  /\ \A s \in sessions : s.id = x.session => s.user = x.user
                   /\ x.alone => /\ OwnsDevice(x.device, x.user)
                                 /\ \A y \in registering' : y.device = x.device => y.user = x.user
        <5>1. ASSUME x.alone, NEW y \in registering', y.device = x.device PROVE y.user = x.user
          BY <3>2, <3>4, <4>2, <5>1 DEF OwnedInv, RequestsOwned
        <5>. QED
          BY <4>2, <5>1 DEF OwnedInv, RequestsOwned
      <4>. QED
        BY <3>4, <4>1, <4>2
    <3>6. RequestsOwned'
      BY <2>1, <3>5 DEF RequestsOwned, OwnsDevice
    <3>7. DevicesOwned' /\ SessionsOwned'
      BY <2>1, <2>2 DEF OwnedInv, DevicesOwned, SessionsOwned, NoneBegins
    <3>. QED
      BY <3>6, <3>7 DEF OwnedInv
  <2>. QED
    BY <2>3, <2>4
<1>8. ASSUME NEW r \in registering, Upsert(r) PROVE OwnedInv'
  <2>1. /\ sessions' = sessions /\ vaults' = vaults /\ cookie' = cookie
        /\ registering' \subseteq registering
    BY <1>8, UpsertIs
  <2>2. SessionsOwned'
    BY <2>1 DEF OwnedInv, SessionsOwned
  <2>3. CASE devices' = devices
    BY <2>1, <2>2, <2>3 DEF OwnedInv, DevicesOwned, RequestsOwned, OwnsDevice
  <2>4. CASE devices' # devices
    <3>1. PICK row \in Device : /\ DeviceRow(r, row)
                                /\ devices' = {x \in devices : x.id # r.device} \cup {row}
      BY <1>8, <2>4, UpsertIs
    <3>2. row.id = r.device /\ row.session = r.session /\ row.alone = r.alone
      BY <3>1 DEF DeviceRow
    <3>3. row.user = r.user \/ \E x \in devices : x.id = r.device /\ x.user = row.user
      BY <3>1 DEF DeviceRow
    <3>4. [id |-> row.vault, owner |-> row.user] \in vaults
      <4>1. CASE row.user = r.user /\ row.vault = r.vault /\ \E x \in vaults : x.id = r.vault
        <5>1. PICK x \in vaults : x.id = r.vault
          BY <4>1
        <5>2. x.owner = x.id /\ x = [id |-> x.id, owner |-> x.owner]
          BY DEF AccountsInv, VaultOf, Vault
        <5>3. r.vault = r.user
          BY DEF AccountsInv, RegisteringOf
        <5>. QED
          BY <4>1, <5>1, <5>2, <5>3
      <4>2. CASE \E x \in devices : x.id = r.device /\ row.user = x.user /\ row.vault = x.vault
        BY <4>2 DEF OwnedInv, DevicesOwned
      <4>. QED
        BY <3>1, <4>1, <4>2 DEF DeviceRow
    <3>5. row.alone => row.user = r.user
      BY <3>2, <3>3 DEF OwnedInv, RequestsOwned, OwnsDevice
    <3>6. DevicesOwned'
      <4>1. \A d \in devices' : d = row \/ d \in devices
        BY <3>1
      <4>2. row.alone => \A s \in sessions : s.id = row.session => s.user = row.user
        BY <3>2, <3>5 DEF OwnedInv, RequestsOwned
      <4>3. \A d \in devices : /\ [id |-> d.vault, owner |-> d.user] \in vaults
                               /\ d.alone => \A s \in sessions : s.id = d.session => s.user = d.user
        BY DEF OwnedInv, DevicesOwned
      <4>4. /\ \A d \in devices' : [id |-> d.vault, owner |-> d.user] \in vaults'
            /\ \A d \in devices' : d.alone =>
                 \A s \in sessions' : s.id = d.session => s.user = d.user
        BY <2>1, <3>4, <4>1, <4>2, <4>3
      <4>. QED
        BY <4>4 DEF DevicesOwned
    <3>7. ASSUME NEW q \in registering', q.alone, NEW x \in devices', x.id = q.device
          PROVE  x.user = q.user
      <4>1. q \in registering /\ OwnsDevice(q.device, q.user)
            /\ (r.device = q.device => r.user = q.user)
        BY <2>1, <3>7 DEF OwnedInv, RequestsOwned
      <4>2. CASE x = row
        BY <3>2, <3>3, <3>7, <4>1, <4>2 DEF OwnsDevice
      <4>. QED
        BY <3>1, <3>7, <4>1, <4>2 DEF OwnsDevice
    <3>8. RequestsOwned'
      BY <2>1, <3>7 DEF OwnedInv, RequestsOwned, OwnsDevice
    <3>. QED
      BY <2>2, <3>6, <3>8 DEF OwnedInv
  <2>. QED
    BY <2>3, <2>4
<1>6. ASSUME NEW b \in Browser, DeleteRows(b) PROVE OwnedInv'
  <2>1. /\ DeletedRows(ending[b].user, ending[b].vault) /\ cookie' = cookie
        /\ ending[b].vault = ending[b].user
    BY <1>6 DEF DeleteRows, webVars, AccountsInv, EndingOf
  <2>2. NoneBegins
    BY <2>1 DEF DeletedRows, NoneBegins
  <2>3. \A d \in devices' : d \in devices /\ [id |-> d.vault, owner |-> d.user] \in vaults'
    BY <2>1 DEF DeletedRows, OwnedInv, DevicesOwned
  <2>4. registering' = registering
    BY <1>6 DEF DeleteRows
  <2>. QED
    BY <2>2, <2>3, <2>4, OwnedKept DEF Owned, FromOne
<1>7. ASSUME NEW b \in Browser, BrowserStep(b) PROVE OwnedInv'
  BY <1>1, <1>4, <1>5, <1>6, <1>7, MostSettle DEF BrowserStep
<1>. QED
  BY <1>2, <1>3, <1>7, <1>8 DEF AccountsNext

(* For any people, browsers and devices, with registrations left at the server: the row of  *)
(* a device is of the owner of its vault, and a session it names is that user's unless its  *)
(* last registration overlapped one of another account (registerDevice's SELECT and upsert). *)
THEOREM DevicesStayOwned == AccountsSpec => []DevicesOwned
<1>1. AccountsInit => OwnedInv
  BY DEF AccountsInit, OwnedInv, DevicesOwned, SessionsOwned, RequestsOwned
<1>2. AccountsInv /\ OwnedInv /\ [AccountsNext]_accountVars => OwnedInv'
  BY OwnedStep
<1>3. OwnedInv => DevicesOwned
  BY DEF OwnedInv
<1>. QED
  BY <1>1, <1>2, <1>3, InvAlways, PTL DEF AccountsSpec
----------------------------------------------------------------------------
(***************************************************************************)
(* Vaults that are open.                                                   *)
(***************************************************************************)
InDirectory(v, us, vs) == \A x \in us : x.vault = v => [id |-> v, owner |-> x.id] \in vs

\* A vault that is open, or about to be opened, is in the directory as long as its user is.
Proceeds(x) == x.step \in {"open", "register"}
OpenInv ==
  \A b \in Browser : /\ open[b] # None => InDirectory(open[b], users, vaults)
                     /\ Proceeds(boot[b]) => InDirectory(boot[b].vault, users, vaults)

\* Users are new ones or old ones that keep their vault, and what is open or about to be was
\* so before, or is found in the directory.
Follows ==
  /\ \A x \in users' : /\ x \in users \/ x.vault = count.users + 1
                       /\ x \in users /\ [id |-> x.vault, owner |-> x.id] \in vaults
                            => [id |-> x.vault, owner |-> x.id] \in vaults'
  /\ \A c \in Browser :
       /\ \/ open'[c] = None \/ open'[c] = open[c]
          \/ Proceeds(boot[c]) /\ open'[c] = boot[c].vault
       /\ Proceeds(boot'[c]) => \/ Proceeds(boot[c]) /\ boot'[c].vault = boot[c].vault
                             \/ InDirectory(boot'[c].vault, users', vaults')

(* What was in the directory is there after the step, and no new user has its number. *)
LEMMA OpenKept ==
  ASSUME AccountsInv, OpenInv, Follows
  PROVE  OpenInv'
<1>1. ASSUME NEW v \in Id, v <= count.users, InDirectory(v, users, vaults)
      PROVE  InDirectory(v, users', vaults')
  <2>1. v # count.users + 1
    BY <1>1, AccountsAssumption DEF AccountsInv, Counters, Id
  <2>. QED
    BY <1>1, <2>1 DEF InDirectory, Follows
<1>2. \A c \in Browser : open[c] # None => open[c] \in Id /\ open[c] <= count.users
  BY DEF AccountsInv, OpenOf
<1>3. \A c \in Browser : Proceeds(boot[c]) => boot[c].vault \in Id /\ boot[c].vault <= count.users
  BY BootIs DEF Proceeds
<1>4. ASSUME NEW c \in Browser, open'[c] # None
      PROVE  InDirectory(open'[c], users', vaults')
  BY <1>1, <1>2, <1>3, <1>4 DEF Follows, OpenInv
<1>5. ASSUME NEW c \in Browser, Proceeds(boot'[c])
      PROVE  InDirectory(boot'[c].vault, users', vaults')
  BY <1>1, <1>3, <1>5 DEF Follows, OpenInv
<1>. QED
  BY <1>4, <1>5 DEF OpenInv

\* The steps that neither boot nor open anything.
LEMMA DirectoryFollows ==
  ASSUME AccountsInv, open' = open, boot' = boot,
         \/ users' = users /\ vaults \subseteq vaults'
         \/ \E u : DeletedRows(u, u)
         \/ /\ vaults' = vaults
            /\ \E x : x.vault = count.users + 1 /\ users' = users \cup {x}
  PROVE  Follows
<1>1. \A x \in users : x.vault = x.id
  BY DEF AccountsInv, UserOf
<1>2. ASSUME NEW u, DeletedRows(u, u)
      PROVE  /\ users' \subseteq users
             /\ \A x \in users' : [id |-> x.vault, owner |-> x.id] \in vaults
                                    => [id |-> x.vault, owner |-> x.id] \in vaults'
  BY <1>1, <1>2 DEF DeletedRows
<1>. QED
  BY <1>2 DEF Follows

(* Every step keeps what is open in the directory. *)
LEMMA OpenStep ==
  ASSUME AccountsInv, OpenInv, [AccountsNext]_accountVars
  PROVE  OpenInv'
<1>1. ASSUME open' = open, boot' = boot, users' = users, vaults \subseteq vaults'
      PROVE  OpenInv'
  BY <1>1, DirectoryFollows, OpenKept
<1>2. CASE UNCHANGED accountVars
  BY <1>1, <1>2 DEF accountVars, d1Vars, webVars
<1>3. CASE Configure
  BY <1>1, <1>3 DEF Configure, d1Vars, webVars
<1>4. ASSUME NEW b \in Browser,
             \/ \E e \in Email : Callback(b, e)
             \/ ProvisionNew(b) \/ CreateSession(b) \/ CacheExpires(b) \/ Sync(b) \/ Revoke(b)
             \/ SignOut(b) \/ DeleteAccount(b)
             \/ StartWipe(b) \/ WipeSignsOut(b) \/ ForgetAccount(b) \/ EndingFails(b)
             \/ Register(b) \/ RegisterTimesOut(b) \/ WipeFile(b) \/ CloseTabs(b)
      PROVE  users' = users /\ vaults \subseteq vaults'
  BY <1>4 DEF Callback, ProvisionNew, CreateSession, CacheExpires, Sync, Revoke, SignOut,
              DeleteAccount, StartWipe, WipeSignsOut, ForgetAccount, EndingFails, Register,
              RegisterTimesOut, WipeFile, CloseTabs, d1Vars, Provision
<1>5. ASSUME NEW b \in Browser,
             \/ \E e \in Email : Callback(b, e)
             \/ ProvisionNew(b) \/ CreateSession(b) \/ CacheExpires(b) \/ Sync(b) \/ Revoke(b)
             \/ SignOut(b) \/ DeleteAccount(b)
             \/ StartWipe(b) \/ WipeSignsOut(b) \/ ForgetAccount(b) \/ EndingFails(b)
      PROVE  OpenInv'
  <2>1. open' = open /\ boot' = boot
    BY <1>5 DEF Callback, ProvisionNew, CreateSession, CacheExpires, Sync, Revoke, SignOut,
                DeleteAccount, StartWipe, WipeSignsOut, ForgetAccount, EndingFails, webVars
  <2>. QED
    BY <1>1, <1>4, <1>5, <2>1
<1>6. ASSUME NEW b \in Browser, InsertUser(b) PROVE OpenInv'
  <2>1. open' = open /\ boot' = boot /\ vaults' = vaults
    BY <1>6 DEF InsertUser, webVars
  <2>2. \/ users' = users
        \/ \E x : x.vault = count.users + 1 /\ users' = users \cup {x}
    BY <1>6 DEF InsertUser
  <2>. QED
    BY <2>1, <2>2, DirectoryFollows, OpenKept
<1>7. ASSUME NEW b \in Browser, DeleteRows(b) PROVE OpenInv'
  <2>1. /\ open' = open /\ boot' = boot
        /\ DeletedRows(ending[b].user, ending[b].vault) /\ ending[b].vault = ending[b].user
    BY <1>7 DEF DeleteRows, webVars, AccountsInv, EndingOf
  <2>. QED
    BY <2>1, DirectoryFollows, OpenKept
<1>8. ASSUME users' = users, vaults \subseteq vaults',
             \A c \in Browser : /\ open'[c] = None \/ open'[c] = open[c]
                                /\ boot'[c] = boot[c] \/ ~Proceeds(boot'[c])
      PROVE  OpenInv'
  <2>1. Follows
    BY <1>8 DEF Follows
  <2>. QED
    BY <2>1, OpenKept
<1>13. ASSUME NEW b \in Browser,
              Register(b) \/ RegisterTimesOut(b) \/ WipeFile(b) \/ CloseTabs(b)
       PROVE  OpenInv'
  <2>1. users' = users /\ vaults \subseteq vaults'
    BY <1>4, <1>13
  <2>2. [boot[b] EXCEPT !.step = "upsert"].step = "upsert" /\ Idle.step = "no"
    BY DEF AccountsInv, BootOf, Boot, Idle
  <2>3. \/ boot' = boot
        \/ boot' = [boot EXCEPT ![b] = Idle]
        \/ boot' = [boot EXCEPT ![b] = [boot[b] EXCEPT !.step = "upsert"]]
    BY <1>13 DEF Register, RegisterTimesOut, WipeFile, CloseTabs, BootEnds
  <2>4. open' = open \/ open' = [open EXCEPT ![b] = None]
    BY <1>13 DEF Register, RegisterTimesOut, WipeFile, CloseTabs, AccountsInv, webVars
  <2>5. \A c \in Browser : /\ open'[c] = None \/ open'[c] = open[c]
                           /\ boot'[c] = boot[c] \/ ~Proceeds(boot'[c])
    BY <2>2, <2>3, <2>4 DEF AccountsInv, Proceeds
  <2>. QED
    BY <1>8, <2>1, <2>5
<1>14. ASSUME NEW r \in registering, Upsert(r) PROVE OpenInv'
  <2>1. users' = users /\ vaults' = vaults /\ open' = open
        /\ boot' = [b \in Browser |-> IF b = r.page THEN Idle ELSE boot[b]]
    BY <1>14, UpsertIs
  <2>2. ~Proceeds(Idle)
    BY DEF Proceeds, Idle
  <2>. QED
    BY <1>8, <2>1, <2>2
<1>9. ASSUME NEW b \in Browser, GetAccount(b) PROVE OpenInv'
  <2>1. users' = users /\ vaults' = vaults /\ open' = open
    BY <1>9 DEF GetAccount, d1Vars
  <2>2. ASSUME NEW v \in vaults PROVE InDirectory(v.id, users, vaults)
    <3>1. v.id = v.owner /\ v = [id |-> v.id, owner |-> v.owner]
      BY DEF AccountsInv, VaultOf, Vault
    <3>2. \A x \in users : x.vault = x.id
      BY DEF AccountsInv, UserOf
    <3>. QED
      BY <3>1, <3>2 DEF InDirectory
  <2>3. \A c \in Browser : \/ boot'[c] = boot[c]
                           \/ ~Proceeds(boot'[c])
                           \/ \E v \in vaults : boot'[c].vault = v.id
    <3>1. \/ \E v \in vaults : boot' = [boot EXCEPT ![b] = [step |-> "open",
                                          user |-> cookie[b].user, vault |-> v.id]]
          \/ boot' = [boot EXCEPT ![b] = [step |-> "provision", user |-> cookie[b].user,
                                          vault |-> cookie[b].vault]]
      BY <1>9 DEF GetAccount
    <3>. QED
      BY <3>1 DEF AccountsInv, Proceeds
  <2>4. Follows
    BY <2>1, <2>2, <2>3 DEF Follows
  <2>. QED
    BY <2>4, OpenKept
<1>10. ASSUME NEW b \in Browser, GetAccountProvision(b) PROVE OpenInv'
  <2>1. users' = users /\ open' = open /\ boot[b].step = "provision"
    BY <1>10 DEF GetAccountProvision, webVars, Booting
  <2>2. boot[b].vault = boot[b].user
    BY <2>1, BootIs
  <2>3. CASE vaults' = vaults /\ boot' = [boot EXCEPT ![b] = Idle]
    <3>1. \A c \in Browser : boot'[c] = boot[c] \/ ~Proceeds(boot'[c])
      BY <2>3 DEF AccountsInv, Proceeds, Idle
    <3>2. Follows
      BY <2>1, <2>3, <3>1 DEF Follows
    <3>. QED
      BY <3>2, OpenKept
  <2>4. CASE /\ UserExists(boot[b].user) /\ Provision(boot[b].user, boot[b].vault)
             /\ boot' = [boot EXCEPT ![b].step = "open"]
    <3>1. [id |-> boot[b].vault, owner |-> boot[b].user] \in vaults' /\ vaults \subseteq vaults'
      BY <2>2, <2>4, ProvisionKeeps
    <3>2. \A x \in users : x.vault = x.id
      BY DEF AccountsInv, UserOf
    <3>3. InDirectory(boot[b].vault, users, vaults')
      BY <2>2, <3>1, <3>2 DEF InDirectory
    <3>4. \A c \in Browser : boot'[c] = boot[c] \/ boot'[c].vault = boot[b].vault
      <4>1. [boot[b] EXCEPT !.step = "open"].vault = boot[b].vault
        BY DEF AccountsInv, BootOf, Boot
      <4>2. boot' = [boot EXCEPT ![b] = [boot[b] EXCEPT !.step = "open"]]
        BY <2>4
      <4>. QED
        BY <4>1, <4>2 DEF AccountsInv
    <3>5. Follows
      BY <2>1, <3>1, <3>3, <3>4 DEF Follows
    <3>. QED
      BY <3>5, OpenKept
  <2>. QED
    BY <1>10, <2>3, <2>4 DEF GetAccountProvision, Provisioned, BootEnds
<1>11. ASSUME NEW b \in Browser, OpenVault(b) PROVE OpenInv'
  <2>1. users' = users /\ vaults' = vaults /\ boot[b].step = "open"
    BY <1>11 DEF OpenVault, d1Vars, Booting
  <2>2. CASE open' = open /\ boot' = [boot EXCEPT ![b] = Idle]
    <3>1. \A c \in Browser : boot'[c] = boot[c] \/ ~Proceeds(boot'[c])
      BY <2>2 DEF AccountsInv, Proceeds, Idle
    <3>2. Follows
      BY <2>1, <2>2, <3>1 DEF Follows
    <3>. QED
      BY <3>2, OpenKept
  <2>3. CASE /\ open' = [open EXCEPT ![b] = boot[b].vault]
             /\ boot' = [boot EXCEPT ![b].step = "register"]
    <3>1. \A c \in Browser : boot'[c] = boot[c] \/ (c = b /\ boot'[c].vault = boot[c].vault)
      <4>1. [boot[b] EXCEPT !.step = "register"].vault = boot[b].vault
        BY DEF AccountsInv, BootOf, Boot
      <4>2. boot' = [boot EXCEPT ![b] = [boot[b] EXCEPT !.step = "register"]]
        BY <2>3
      <4>. QED
        BY <4>1, <4>2 DEF AccountsInv
    <3>2. \A c \in Browser : open'[c] = open[c] \/ (c = b /\ open'[c] = boot[c].vault)
      BY <2>3 DEF AccountsInv
    <3>3. Follows
      BY <2>1, <3>1, <3>2 DEF Follows, Proceeds
    <3>. QED
      BY <3>3, OpenKept
  <2>. QED
    BY <1>11, <2>2, <2>3 DEF OpenVault, BootEnds
<1>12. ASSUME NEW b \in Browser, BrowserStep(b) PROVE OpenInv'
  BY <1>5, <1>6, <1>7, <1>9, <1>10, <1>11, <1>12, <1>13 DEF BrowserStep
<1>. QED
  BY <1>2, <1>3, <1>12, <1>14 DEF AccountsNext

(* For any people and browsers, a vault that is open is in the directory as long as its     *)
(* user is, after every sign-up that failed half way (GET /account provisions again).       *)
THEOREM OpenVaultsProvisioned == AccountsSpec => []OpenProvisioned
<1>1. AccountsInit => OpenInv
  BY DEF AccountsInit, OpenInv, Proceeds, Idle
<1>2. AccountsInv /\ OpenInv /\ [AccountsNext]_accountVars => OpenInv'
  BY OpenStep
<1>3. AccountsInv /\ OpenInv => OpenProvisioned
  <2>. SUFFICES ASSUME AccountsInv, OpenInv, NEW b \in Browser, NEW u \in users,
                       open[b] = u.vault
                PROVE  [id |-> u.vault, owner |-> u.id] \in vaults
    BY DEF OpenProvisioned
  <2>1. u.vault # None
    BY AccountsAssumption DEF AccountsInv, UserOf, User, Id
  <2>. QED
    BY <2>1 DEF OpenInv, InDirectory
<1>. QED
  BY <1>1, <1>2, <1>3, InvAlways, PTL DEF AccountsSpec
----------------------------------------------------------------------------
(***************************************************************************)
(* The cap of users.                                                       *)
(***************************************************************************)
\* The sign-ups between decision and insert.
Deciding == {b \in Browser : signing[b].step = "insert"}

\* Sign-ups on their way to the insert count as users; one that is alone has seen them all.
CapInv ==
  /\ config.cap <= peak /\ peak \in Caps /\ IsFiniteSet(users)
  /\ Cardinality(users) + Cardinality(Deciding) <= peak - 1 + Cardinality(Browser)
  /\ \A b \in Deciding : signing[b].alone => Deciding = {b} /\ Cardinality(users) < peak

(* No more sign-ups can be under way than there are browsers. *)
LEMMA DecidingSize ==
  /\ IsFiniteSet(Deciding) /\ Cardinality(Deciding) \in Nat
  /\ Cardinality(Browser) \in Nat /\ Cardinality(Deciding) <= Cardinality(Browser)
<1>1. IsFiniteSet(Browser)
  BY AccountsAssumption
<1>2. Deciding \subseteq Browser
  BY DEF Deciding
<1>. QED
  BY <1>1, <1>2, FS_Subset, FS_CardinalityType

(* Steps that add neither users nor decisions. *)
LEMMA CapKept ==
  ASSUME CapInv, users' \subseteq users, config'.cap <= peak', peak' \in Caps, peak <= peak',
         \A c \in Browser : signing'[c].step = "insert" =>
            signing[c].step = "insert" /\ signing'[c].alone = signing[c].alone
  PROVE  CapInv'
<1>. DEFINE D == Deciding'
<1>1. D \subseteq Deciding
  BY DEF Deciding
<1>2. /\ IsFiniteSet(D) /\ Cardinality(D) \in Nat /\ Cardinality(D) <= Cardinality(Deciding)
      /\ Cardinality(Deciding) \in Nat /\ Cardinality(Browser) \in Nat
  BY <1>1, DecidingSize, FS_Subset, FS_CardinalityType
<1>3. /\ IsFiniteSet(users') /\ Cardinality(users') \in Nat /\ Cardinality(users) \in Nat
      /\ Cardinality(users') <= Cardinality(users)
  BY FS_Subset, FS_CardinalityType DEF CapInv
<1>4. peak \in Nat /\ peak' \in Nat
  BY AccountsAssumption DEF CapInv
<1>5. Cardinality(users') + Cardinality(D) <= peak' - 1 + Cardinality(Browser)
  <2>. DEFINE x == Cardinality(users)
              y == Cardinality(users')
              z == Cardinality(Deciding)
              w == Cardinality(D)
              m == Cardinality(Browser)
  <2>1. x + z <= peak - 1 + m
    BY DEF CapInv
  <2>2. x \in Nat /\ y \in Nat /\ z \in Nat /\ w \in Nat /\ m \in Nat /\ y <= x /\ w <= z
    BY <1>2, <1>3
  <2>3. PICK p \in Nat : p = peak' /\ peak <= p
    BY <1>4
  <2>. HIDE DEF x, y, z, w, m
  <2>4. y + w <= p - 1 + m
    <3>1. peak <= p /\ p \in Nat
      BY <2>3
    <3>. QED
      BY <1>4, <2>1, <2>2, <3>1
  <2>. QED
    BY <2>3, <2>4 DEF y, w, m
<1>6. ASSUME NEW b \in D, signing'[b].alone
      PROVE  D = {b} /\ Cardinality(users') < peak'
  <2>1. b \in Deciding /\ signing[b].alone
    BY <1>6 DEF Deciding
  <2>2. Deciding = {b} /\ Cardinality(users) < peak
    BY <2>1 DEF CapInv
  <2>3. D = {b}
    BY <1>1, <1>6, <2>2
  <2>. QED
    BY <1>3, <1>4, <2>2, <2>3
<1>. QED
  BY <1>3, <1>5, <1>6 DEF CapInv

(* A decision is made below the cap, and takes the others' being alone. *)
LEMMA CapDecide ==
  ASSUME AccountsInv, CapInv, NEW b \in Browser, NEW e \in Email, Callback(b, e)
  PROVE  CapInv'
<1>. DEFINE others == {x \in Browser : signing[x].step = "insert"}
<1>1. users' = users /\ config' = config /\ peak' = peak
      /\ signing[b].step = "no" /\ signing \in [Browser -> SigningOf(count)]
  BY DEF Callback, d1Vars, opVars, AccountsInv
<1>2. others = Deciding
  BY DEF Deciding
<1>3. CASE \E x \in users : x.email = e
  <2>1. \A c \in Browser : signing'[c] = signing[c] \/ signing'[c].step = "session"
    BY <1>1, <1>3 DEF Callback
  <2>2. peak \in Nat
    BY AccountsAssumption DEF CapInv
  <2>. QED
    BY <1>1, <2>1, <2>2, CapKept DEF CapInv
<1>4. CASE ~ \E x \in users : x.email = e
  <2>1. /\ Cardinality(users) < config.cap
        /\ signing' = [x \in Browser |->
             IF x = b THEN [step |-> "insert", email |-> e, user |-> None, alone |-> others = {}]
             ELSE IF x \in others THEN [signing[x] EXCEPT !.alone = FALSE]
             ELSE signing[x]]
    BY <1>4 DEF Callback, DecideSignup
  <2>2. \A x \in others : /\ [signing[x] EXCEPT !.alone = FALSE].step = "insert"
                          /\ ~[signing[x] EXCEPT !.alone = FALSE].alone
    BY <1>1 DEF SigningOf, Signing
  <2>3. \A c \in Browser : /\ c # b => (signing'[c].step = "insert" <=> c \in others)
                           /\ c # b /\ c \in others => ~signing'[c].alone
    BY <2>1, <2>2
  <2>4. signing'[b].step = "insert" /\ (signing'[b].alone => others = {})
    BY <2>1
  <2>5. Deciding' = Deciding \cup {b}
    BY <1>2, <2>3, <2>4 DEF Deciding
  <2>6. Cardinality(users) < peak
    BY <2>1, AccountsAssumption, FS_CardinalityType DEF CapInv, AccountsInv
  <2>7. Cardinality(users') + Cardinality(Deciding') <= peak' - 1 + Cardinality(Browser)
    <3>. DEFINE x == Cardinality(users)
                m == Cardinality(Browser)
                w == Cardinality(Deciding \cup {b})
    <3>1. Deciding \cup {b} \subseteq Browser
      BY DEF Deciding
    <3>2. x \in Nat /\ m \in Nat /\ w \in Nat /\ w <= m /\ peak \in Nat
      BY <3>1, AccountsAssumption, FS_Subset, FS_CardinalityType DEF CapInv
    <3>3. x < peak
      BY <2>6
    <3>. HIDE DEF x, m, w
    <3>4. x + w <= peak - 1 + m
      BY <3>2, <3>3
    <3>. QED
      BY <1>1, <2>5, <3>4 DEF x, m, w
  <2>8. ASSUME NEW c \in Deciding', signing'[c].alone
        PROVE  Deciding' = {c} /\ Cardinality(users') < peak'
    <3>1. c = b
      BY <1>2, <2>3, <2>5, <2>8 DEF Deciding
    <3>2. Deciding = {}
      BY <1>2, <2>4, <2>8, <3>1
    <3>. QED
      BY <1>1, <2>5, <2>6, <3>1, <3>2
  <2>. QED
    BY <1>1, <2>7, <2>8 DEF CapInv
<1>. QED
  BY <1>3, <1>4

(* An insert turns a decided sign-up into a user. *)
LEMMA CapInsert ==
  ASSUME AccountsInv, CapInv, NEW b \in Browser, InsertUser(b)
  PROVE  CapInv'
<1>1. config' = config /\ peak' = peak /\ b \in Deciding
      /\ signing \in [Browser -> SigningOf(count)] /\ peak \in Nat
  BY AccountsAssumption DEF InsertUser, opVars, AccountsInv, CapInv, Deciding
<1>2. \A c \in Browser : IF c = b THEN signing'[c].step # "insert" ELSE signing'[c] = signing[c]
  <2>1. /\ [signing[b] EXCEPT !.step = "provision", !.user = count.users + 1,
                              !.alone = TRUE].step = "provision"
        /\ NotSigning.step = "no"
    BY <1>1 DEF SigningOf, Signing, NotSigning
  <2>. QED
    BY <1>1, <2>1 DEF InsertUser
<1>3. CASE users' = users
  BY <1>1, <1>2, <1>3, CapKept DEF CapInv
<1>4. CASE users' # users
  <2>1. PICK x : users' = users \cup {x}
    BY <1>4 DEF InsertUser
  <2>2. Deciding' = Deciding \ {b}
    BY <1>2 DEF Deciding
  <2>3. Cardinality(users') + Cardinality(Deciding') <= peak' - 1 + Cardinality(Browser)
    <3>. DEFINE n == Cardinality(users)
                n2 == Cardinality(users \cup {x})
                k == Cardinality(Deciding)
                k2 == Cardinality(Deciding \ {b})
                m == Cardinality(Browser)
    <3>1. n + k <= peak - 1 + m
      BY DEF CapInv
    <3>2. n \in Nat /\ n2 \in Nat /\ n2 <= n + 1
      <4>1. IsFiniteSet(users)
        BY DEF CapInv
      <4>2. n \in Nat
        BY <4>1, FS_CardinalityType
      <4>3. n2 = n \/ n2 = n + 1
        BY <4>1, FS_AddElement
      <4>. HIDE DEF n, n2
      <4>. QED
        BY <4>2, <4>3
    <3>3. k \in Nat /\ k2 = k - 1 /\ m \in Nat
      BY <1>1, DecidingSize, FS_RemoveElement
    <3>. HIDE DEF n, n2, k, k2, m
    <3>4. n2 + k2 <= peak - 1 + m
      BY <1>1, <3>1, <3>2, <3>3
    <3>. QED
      BY <1>1, <2>1, <2>2, <3>4 DEF n2, k2, m
  <2>4. ASSUME NEW c \in Deciding', signing'[c].alone
        PROVE  FALSE
    <3>1. c \in Deciding /\ c # b /\ signing[c].alone
      BY <1>2, <2>2, <2>4 DEF Deciding
    <3>. QED
      BY <1>1, <3>1 DEF CapInv
  <2>5. IsFiniteSet(users')
    BY <2>1, FS_AddElement DEF CapInv
  <2>. QED
    BY <1>1, <2>3, <2>4, <2>5 DEF CapInv
<1>. QED
  BY <1>3, <1>4

(* Every step keeps users and decided sign-ups within the bound. *)
LEMMA CapStep ==
  ASSUME AccountsInv, CapInv, [AccountsNext]_accountVars
  PROVE  CapInv'
<1>. peak \in Nat /\ Caps \subseteq Nat
  BY AccountsAssumption DEF CapInv
<1>1. ASSUME users' \subseteq users, config' = config, peak' = peak,
             \A c \in Browser : signing'[c] = signing[c] \/ signing'[c].step # "insert"
      PROVE  CapInv'
  BY <1>1, CapKept DEF CapInv
<1>2. CASE UNCHANGED accountVars
  BY <1>1, <1>2 DEF accountVars, d1Vars, opVars
<1>3. CASE Configure
  <2>1. /\ users' = users /\ signing' = signing /\ config'.cap \in {config.cap} \cup Caps
        /\ peak' = IF config'.cap > peak THEN config'.cap ELSE peak
    BY <1>3, ConfigureIs
  <2>2. config.cap \in Caps /\ config.cap <= peak /\ peak \in Caps
    BY DEF AccountsInv, CapInv
  <2>3. PICK n \in Caps : n = config'.cap
    BY <2>1, <2>2
  <2>4. \E p \in Caps : p = peak' /\ n <= p /\ peak <= p
    <3>1. n \in Nat /\ peak \in Nat
      BY <2>2, <2>3
    <3>2. CASE n > peak
      <4>1. n = peak' /\ n <= n /\ peak <= n
        BY <2>1, <2>3, <3>1, <3>2
      <4>. QED
        BY <2>3, <4>1
    <3>3. CASE ~(n > peak)
      <4>1. peak = peak' /\ n <= peak /\ peak <= peak
        BY <2>1, <2>3, <3>1, <3>3
      <4>. QED
        BY <2>2, <4>1
    <3>. QED
      BY <3>2, <3>3

  <2>. QED
    BY <2>1, <2>3, <2>4, CapKept
<1>4. ASSUME NEW b \in Browser, ProvisionNew(b) \/ CreateSession(b)
      PROVE  CapInv'
  <2>1. users' = users /\ config' = config /\ peak' = peak
    BY <1>4 DEF ProvisionNew, CreateSession, opVars
  <2>2. \/ signing' = [signing EXCEPT ![b] = NotSigning]
        \/ signing' = [signing EXCEPT ![b] = [signing[b] EXCEPT !.step = "session"]]
    BY <1>4 DEF ProvisionNew, CreateSession
  <2>3. /\ [signing[b] EXCEPT !.step = "session"].step # "insert"
        /\ NotSigning.step # "insert" /\ signing \in [Browser -> SigningOf(count)]
    BY DEF AccountsInv, SigningOf, Signing, NotSigning
  <2>4. \A c \in Browser : signing'[c] = signing[c] \/ signing'[c].step # "insert"
    BY <2>2, <2>3
  <2>. QED
    BY <1>1, <2>1, <2>4
<1>5. ASSUME NEW b \in Browser,
             \/ CacheExpires(b) \/ GetAccount(b) \/ GetAccountProvision(b) \/ OpenVault(b)
             \/ Register(b) \/ RegisterTimesOut(b) \/ CloseTabs(b) \/ Sync(b) \/ Revoke(b)
             \/ SignOut(b) \/ DeleteAccount(b) \/ DeleteRows(b)
             \/ StartWipe(b) \/ WipeSignsOut(b) \/ WipeFile(b) \/ ForgetAccount(b)
             \/ EndingFails(b)
      PROVE  CapInv'
  <2>1. users' \subseteq users /\ UNCHANGED <<config, peak, signing>>
    BY <1>5 DEF CacheExpires, GetAccount, GetAccountProvision, OpenVault, Register,
                RegisterTimesOut, CloseTabs, Sync, Revoke, SignOut, DeleteAccount, DeleteRows,
                StartWipe, WipeSignsOut,
                WipeFile, ForgetAccount, EndingFails, DeletedRows, d1Vars, opVars
  <2>. QED
    BY <1>1, <2>1
<1>6. ASSUME NEW b \in Browser, BrowserStep(b) PROVE CapInv'
  BY <1>4, <1>5, <1>6, CapDecide, CapInsert DEF BrowserStep
<1>7. ASSUME NEW r \in registering, Upsert(r) PROVE CapInv'
  BY <1>1, <1>7 DEF Upsert, opVars
<1>. QED
  BY <1>2, <1>3, <1>6, <1>7 DEF AccountsNext

(* For any people, browsers and caps: the cap is passed only by sign-ups decided while      *)
(* another is on its way to its insert, by no more than the browsers that can be at it      *)
(* together (decideSignup, databaseHooks.user.create).                                      *)
THEOREM SignupsBounded == AccountsSpec => []SignupBounded
<1>1. AccountsInit => CapInv
  <2>. SUFFICES ASSUME AccountsInit PROVE CapInv
    OBVIOUS
  <2>1. users = {} /\ peak \in Caps /\ config.cap = peak
    BY DEF AccountsInit
  <2>2. Deciding = {}
    BY DEF AccountsInit, Deciding, NotSigning
  <2>3. peak \in Nat \ {0} /\ Cardinality(Browser) \in Nat
    BY <2>1, DecidingSize, AccountsAssumption
  <2>. QED
    BY <2>1, <2>2, <2>3, FS_EmptySet DEF CapInv
<1>2. AccountsInv /\ CapInv /\ [AccountsNext]_accountVars => CapInv'
  BY CapStep
<1>3. CapInv => SignupBounded
  <2>. SUFFICES ASSUME CapInv PROVE SignupBounded
    OBVIOUS
  <2>1. Cardinality(users) <= peak - 1 + Cardinality(Browser)
    <3>. DEFINE n == Cardinality(users)
                k == Cardinality(Deciding)
                m == Cardinality(Browser)
    <3>1. n + k <= peak - 1 + m /\ n \in Nat /\ k \in Nat /\ m \in Nat /\ peak \in Nat
      BY DecidingSize, FS_CardinalityType, AccountsAssumption DEF CapInv
    <3>. HIDE DEF n, k, m
    <3>2. n <= peak - 1 + m
      BY <3>1
    <3>. QED
      BY <3>2 DEF n, m
  <2>2. \A b \in Browser : signing[b].step = "insert" /\ signing[b].alone
                             => Cardinality(users) < peak
    BY DEF CapInv, Deciding
  <2>. QED
    BY <2>1, <2>2 DEF SignupBounded
<1>. QED
  BY <1>1, <1>2, <1>3, InvAlways, PTL DEF AccountsSpec

-----------------------------------------------------------------------------
(***************************************************************************)
(* The scan wizard.  The scans and saves of each page are counted by its   *)
(* flags, and those of pages that were left never come back; a step is     *)
(* shown only with what it shows.                                          *)
(***************************************************************************)
Flagged ==
  /\ \A s \in scans : s.page <= page /\ (s.page = page => form.scanning)
  /\ \A s \in saves : s.page <= page /\ (s.page = page => form.saving)

ScanInv == ScanTypeOK /\ Flagged /\ ScanSaved

\* The effect of re-scan mode fills in a title only.
LEMMA FilledIs ==
  ASSUME NEW f \in Form, NEW nos \in SUBSET DiscNo
  PROVE  /\ Filled(f, nos) \in Form
         /\ \E t \in Number : Filled(f, nos) = [f EXCEPT !.title = t]
<1>1. f.no \in Number /\ f.title \in Number
  BY DEF Form
<1>2. f = [f EXCEPT !.title = f.title]
  BY DEF Form
<1>3. \A t \in Number : [f EXCEPT !.title = t] \in Form
  BY DEF Form
<1>. QED
  BY <1>1, <1>2, <1>3 DEF Filled

\* A page that is opened shows its first step, and has nothing under way.
LEMMA MountedIs ==
  ASSUME NEW n \in Number, NEW nos \in SUBSET DiscNo
  PROVE  /\ Mounted(n, nos) \in Form
         /\ Mounted(n, nos).step = 1
         /\ Mounted(n, nos).scanning = FALSE /\ Mounted(n, nos).saving = FALSE
<1>1. NextFree(nos) \in Number
  <2>1. CASE DiscNo \subseteq nos
    BY <2>1 DEF NextFree, Number
  <2>2. CASE ~(DiscNo \subseteq nos)
    <3>. DEFINE T == DiscNo \ nos
    <3>1. T \subseteq Nat /\ T # {}
      BY <2>2, ScanWizardAssumption DEF DiscNo
    <3>. HIDE DEF T
    <3>2. \E k \in T : \A m \in T : k <= m
      BY <3>1, LeastNat
    <3>3. \E k \in DiscNo \ nos : \A m \in DiscNo \ nos : k <= m
      BY <3>2 DEF T
    <3>. QED
      BY <2>2, <3>3 DEF NextFree, Number
  <2>. QED
    BY <2>1, <2>2
<1>2. ASSUME NEW mode \in {"new", "rescan"}, NEW m \in Number
      PROVE  Fresh(mode, m) \in Form
  BY <1>2 DEF Fresh, Form, Number, Picked, NoDisc
<1>. DEFINE f == IF n = NoDisc THEN Fresh("new", NextFree(nos)) ELSE Fresh("rescan", n)
<1>3. f \in Form /\ f.step = 1 /\ f.scanning = FALSE /\ f.saving = FALSE
  BY <1>1, <1>2 DEF Fresh
<1>4. Mounted(n, nos) = Filled(f, nos)
  BY DEF Mounted
<1>. HIDE DEF f
<1>5. PICK t \in Number : Filled(f, nos) = [f EXCEPT !.title = t]
  BY <1>3, FilledIs
<1>. QED
  BY <1>3, <1>4, <1>5, FilledIs DEF Form

\* The invariant holds when a page is opened for the first time.
LEMMA ScanInvInit == ScanInit => ScanInv
<1>. SUFFICES ASSUME ScanInit PROVE ScanInv
  OBVIOUS
<1>1. PICK n \in catalog \cup {NoDisc} : preset = (n # NoDisc) /\ form = Mounted(n, catalog)
  BY DEF ScanInit
<1>2. catalog \in SUBSET DiscNo /\ n \in Number
  BY DEF ScanInit, Number
<1>3. /\ form \in Form /\ form.step = 1
      /\ form.scanning = FALSE /\ form.saving = FALSE
  BY <1>1, <1>2, MountedIs
<1>4. ScanTypeOK
  BY <1>1, <1>2, <1>3, ScanWizardAssumption DEF ScanInit, ScanTypeOK
<1>. QED
  BY <1>3, <1>4 DEF ScanInit, ScanInv, Flagged, ScanSaved

\* What a step leaves alone, and what it must leave true, when no scan or save begins or ends.
LEMMA FormSteps ==
  ASSUME ScanInv, UNCHANGED <<page, scans, saves>>,
         catalog' \subseteq DiscNo, listed' \subseteq DiscNo, preset' \in BOOLEAN,
         NEW f \in Form, form' = f,
         f.scanning = form.scanning, f.saving = form.saving,
         f.step = 3 => f.result # NoFolder, f.step = 4 => f.saved # NoDisc
  PROVE  ScanInv'
<1>1. ScanTypeOK'
  BY DEF ScanInv, ScanTypeOK
<1>2. Flagged'
  BY DEF ScanInv, Flagged
<1>3. ScanSaved'
  BY DEF ScanInv, ScanSaved, PreviewShown, SavedShown
<1>. QED
  BY <1>1, <1>2, <1>3 DEF ScanInv

\* The steps of the user on the page, and the queries that run again.
LEMMA PageSteps ==
  ASSUME ScanInv,
         \/ \E mode \in {"new", "rescan"} : SetMode(mode)
         \/ \E n \in Number : EnterNumber(n)
         \/ \E folder \in Folder : Choose(folder)
         \/ EnterTitle \/ Back \/ Next1 \/ Refetch
         \/ \E n \in DiscNo : CatalogChanges(n)
  PROVE  ScanInv'
<1>0. /\ form \in Form /\ catalog \in SUBSET DiscNo /\ listed \in SUBSET DiscNo
      /\ preset \in BOOLEAN
      /\ form.step = 3 => form.result # NoFolder
      /\ form.step = 4 => form.saved # NoDisc
  BY DEF ScanInv, ScanTypeOK, ScanSaved, PreviewShown, SavedShown
<1>1. ASSUME NEW g \in Form, NEW nos \in SUBSET DiscNo, form' = Filled(g, nos),
             g.scanning = form.scanning, g.saving = form.saving, g.step = form.step,
             g.result = form.result, g.saved = form.saved,
             UNCHANGED <<page, scans, saves>>,
             catalog' \subseteq DiscNo, listed' \subseteq DiscNo, preset' \in BOOLEAN
      PROVE  ScanInv'
  <2>1. PICK t \in Number : Filled(g, nos) = [g EXCEPT !.title = t]
    BY <1>1, FilledIs
  <2>2. PICK f \in Form : f = [g EXCEPT !.title = t]
    BY <1>1, <2>1, FilledIs
  <2>3. /\ f.scanning = form.scanning /\ f.saving = form.saving /\ f.step = form.step
        /\ f.result = form.result /\ f.saved = form.saved
    BY <1>1, <2>2 DEF Form
  <2>4. form' = f
    BY <1>1, <2>1, <2>2
  <2>. QED
    BY <1>0, <1>1, <2>3, <2>4, FormSteps
<1>2. ASSUME NEW mode \in {"new", "rescan"}, SetMode(mode) PROVE ScanInv'
  <2>1. PICK g \in Form : g = [form EXCEPT !.mode = mode]
    BY <1>0 DEF Form
  <2>2. /\ g.scanning = form.scanning /\ g.saving = form.saving /\ g.step = form.step
        /\ g.result = form.result /\ g.saved = form.saved
    BY <1>0, <2>1 DEF Form
  <2>. QED
    BY <1>0, <1>1, <1>2, <2>1, <2>2 DEF SetMode
<1>3. ASSUME NEW n \in Number, EnterNumber(n) PROVE ScanInv'
  <2>1. PICK g \in Form : g = [form EXCEPT !.no = n]
    BY <1>0 DEF Form
  <2>2. /\ g.scanning = form.scanning /\ g.saving = form.saving /\ g.step = form.step
        /\ g.result = form.result /\ g.saved = form.saved
    BY <1>0, <2>1 DEF Form
  <2>. QED
    BY <1>0, <1>1, <1>3, <2>1, <2>2 DEF EnterNumber
<1>4. ASSUME NEW folder \in Folder, Choose(folder) PROVE ScanInv'
  <2>1. PICK f \in Form : f = [form EXCEPT !.folder = folder]
    BY <1>0 DEF Form, Picked
  <2>2. /\ f.scanning = form.scanning /\ f.saving = form.saving /\ f.step = form.step
        /\ f.result = form.result /\ f.saved = form.saved
    BY <1>0, <2>1 DEF Form
  <2>. QED
    BY <1>0, <1>4, <2>1, <2>2, FormSteps DEF Choose
<1>5. CASE EnterTitle
  <2>1. PICK f \in Form : f = [form EXCEPT !.title = NoDisc]
    BY <1>0 DEF Form, Number
  <2>2. /\ f.scanning = form.scanning /\ f.saving = form.saving /\ f.step = form.step
        /\ f.result = form.result /\ f.saved = form.saved
    BY <1>0, <2>1 DEF Form
  <2>. QED
    BY <1>0, <1>5, <2>1, <2>2, FormSteps DEF EnterTitle
<1>6. CASE Back
  <2>0. PICK n \in 1..4 : n = form.step - 1 /\ n # 3 /\ n # 4
    BY <1>6 DEF Back
  <2>1. PICK f \in Form : f = [form EXCEPT !.step = n]
    BY <1>0 DEF Form
  <2>2. /\ f.scanning = form.scanning /\ f.saving = form.saving /\ f.step # 3 /\ f.step # 4
    BY <1>0, <2>0, <2>1 DEF Form
  <2>3. form' = f
    BY <1>6, <2>0, <2>1 DEF Back
  <2>. QED
    BY <1>0, <1>6, <2>2, <2>3, FormSteps DEF Back
<1>7. CASE Next1
  <2>0. PICK n \in 1..4 : n = 2 /\ n # 3 /\ n # 4
    OBVIOUS
  <2>1. PICK f \in Form : f = [form EXCEPT !.step = n]
    BY <1>0 DEF Form
  <2>2. /\ f.scanning = form.scanning /\ f.saving = form.saving /\ f.step # 3 /\ f.step # 4
    BY <1>0, <2>0, <2>1 DEF Form
  <2>3. form' = f
    BY <1>7, <2>0, <2>1 DEF Next1
  <2>. QED
    BY <1>0, <1>7, <2>2, <2>3, FormSteps DEF Next1
<1>8. CASE Refetch
  BY <1>0, <1>1, <1>8 DEF Refetch
<1>9. ASSUME NEW n \in DiscNo, CatalogChanges(n) PROVE ScanInv'
  <2>1. catalog' \subseteq DiscNo
    BY <1>0, <1>9 DEF CatalogChanges
  <2>. QED
    BY <1>0, <1>9, <2>1, FormSteps DEF CatalogChanges
<1>. QED
  BY <1>2, <1>3, <1>4, <1>5, <1>6, <1>7, <1>8, <1>9

\* A scan begins when the page has none under way.
LEMMA RunScanStep == ScanInv /\ RunScan => ScanInv'
<1>. SUFFICES ASSUME ScanInv, RunScan PROVE ScanInv'
  OBVIOUS
<1>1. /\ form \in Form /\ page \in 1..MaxPages /\ form.folder \in Folder
      /\ scans \subseteq Scanning /\ saves \subseteq Saving
  BY DEF ScanInv, ScanTypeOK, RunScan, Form, Picked
<1>2. PICK f \in Form : f = [form EXCEPT !.scanning = TRUE]
  BY <1>1 DEF Form
<1>3. /\ f.scanning = TRUE /\ f.saving = form.saving /\ f.step = form.step
      /\ f.result = form.result /\ f.saved = form.saved
  BY <1>1, <1>2 DEF Form
<1>. DEFINE s == [page |-> page, folder |-> form.folder]
<1>4. s \in Scanning /\ s.page = page
  BY <1>1 DEF Scanning
<1>5. form' = f /\ scans' = scans \cup {s} /\ UNCHANGED <<catalog, listed, page, preset, saves>>
  BY <1>2 DEF RunScan
<1>6. \A q \in scans : q.page # page
  BY DEF ScanInv, Flagged, RunScan
<1>. HIDE DEF s
<1>7. ScanTypeOK'
  BY <1>4, <1>5 DEF ScanInv, ScanTypeOK
<1>8. Flagged'
  BY <1>1, <1>3, <1>4, <1>5 DEF ScanInv, Flagged
<1>9. ScanSaved'
  BY <1>3, <1>4, <1>5, <1>6 DEF ScanInv, ScanSaved, PreviewShown, SavedShown
<1>. QED
  BY <1>7, <1>8, <1>9 DEF ScanInv

\* A scan that ends was the only one of its page.
LEMMA ScanEndsStep ==
  ASSUME ScanInv, NEW s \in scans, ScanEnds(s)
  PROVE  ScanInv'
<1>1. /\ form \in Form /\ s \in Scanning /\ scans \subseteq Scanning /\ s.folder \in Folder
      /\ page \in Nat
  BY ScanWizardAssumption DEF ScanInv, ScanTypeOK, Scanning
<1>2. scans' = scans \ {s} /\ UNCHANGED <<catalog, listed, page, preset, saves>>
  BY DEF ScanEnds
<1>3. \A q \in scans' : q \in scans /\ q.page # s.page
  BY <1>2 DEF ScanInv, ScanSaved
<1>4. CASE s.page # page /\ form' = form
  <2>1. ScanTypeOK' /\ Flagged'
    BY <1>2, <1>4 DEF ScanInv, ScanTypeOK, Flagged
  <2>2. ScanSaved'
    BY <1>2, <1>4 DEF ScanInv, ScanSaved, PreviewShown, SavedShown
  <2>. QED
    BY <2>1, <2>2 DEF ScanInv
<1>5. ASSUME NEW f \in Form, form' = f, s.page = page, f.saving = form.saving,
             f.step = 3 => f.result # NoFolder, f.step = 4 => f.saved # NoDisc
      PROVE  ScanInv'
  <2>1. ScanTypeOK'
    BY <1>2, <1>5 DEF ScanInv, ScanTypeOK
  <2>2. Flagged'
    BY <1>2, <1>3, <1>5 DEF ScanInv, Flagged
  <2>3. ScanSaved'
    BY <1>2, <1>5 DEF ScanInv, ScanSaved, PreviewShown, SavedShown
  <2>. QED
    BY <2>1, <2>2, <2>3 DEF ScanInv
<1>6. CASE s.page = page
  <2>1. PICK e \in Form : e = [form EXCEPT !.scanning = FALSE]
    BY <1>1 DEF Form
  <2>2. /\ e.saving = form.saving /\ e.step = form.step
        /\ e.result = form.result /\ e.saved = form.saved
    BY <1>1, <2>1 DEF Form
  <2>3. PICK g \in Form : g = [e EXCEPT !.result = s.folder, !.step = 3]
    <3>1. s.folder \in Picked /\ 3 \in 1..4
      BY <1>1 DEF Picked
    <3>2. [e EXCEPT !.result = s.folder] \in Form
      BY <3>1 DEF Form
    <3>3. \A r \in Form : [r EXCEPT !.step = 3] \in Form
      BY <3>1 DEF Form
    <3>. QED
      BY <3>2, <3>3
  <2>4. g.saving = form.saving /\ g.step = 3 /\ g.result = s.folder
    BY <2>2, <2>3 DEF Form
  <2>5. form' = e \/ form' = g
    BY <1>6, <2>1, <2>3 DEF ScanEnds
  <2>6. /\ form.step = 3 => form.result # NoFolder
        /\ form.step = 4 => form.saved # NoDisc
    BY DEF ScanInv, ScanSaved, PreviewShown, SavedShown
  <2>7. s.folder # NoFolder
    BY <1>1, ScanWizardAssumption
  <2>. QED
    BY <1>5, <1>6, <2>2, <2>4, <2>5, <2>6, <2>7
<1>. QED
  BY <1>4, <1>6 DEF ScanEnds

\* A save begins when the page has none under way, and with a number and a result.
LEMMA SaveStep == ScanInv /\ Save => ScanInv'
<1>. SUFFICES ASSUME ScanInv, Save PROVE ScanInv'
  OBVIOUS
<1>1. /\ form \in Form /\ page \in 1..MaxPages /\ form.no \in DiscNo /\ form.result \in Folder
      /\ scans \subseteq Scanning /\ saves \subseteq Saving
  BY DEF ScanInv, ScanTypeOK, Save, CanSave, Form, Picked
<1>2. PICK f \in Form : f = [form EXCEPT !.saving = TRUE]
  BY <1>1 DEF Form
<1>3. /\ f.saving = TRUE /\ f.scanning = form.scanning /\ f.step = form.step
      /\ f.result = form.result /\ f.saved = form.saved
  BY <1>1, <1>2 DEF Form
<1>. DEFINE s == [page |-> page, no |-> form.no, result |-> form.result]
<1>4. s \in Saving /\ s.page = page /\ s.no \in DiscNo /\ s.result \in Folder
  BY <1>1 DEF Saving, Number, Picked
<1>5. form' = f /\ saves' = saves \cup {s} /\ UNCHANGED <<catalog, listed, page, preset, scans>>
  BY <1>2 DEF Save
<1>6. \A q \in saves : q.page # page
  BY DEF ScanInv, Flagged, Save, CanSave
<1>. HIDE DEF s
<1>7. ScanTypeOK'
  BY <1>4, <1>5 DEF ScanInv, ScanTypeOK
<1>8. Flagged'
  BY <1>1, <1>3, <1>4, <1>5 DEF ScanInv, Flagged
<1>9. ScanSaved'
  BY <1>3, <1>4, <1>5, <1>6 DEF ScanInv, ScanSaved, PreviewShown, SavedShown
<1>. QED
  BY <1>7, <1>8, <1>9 DEF ScanInv

\* A save that ends was the only one of its page; the page names its number, whatever the
\* fields have by now.
LEMMA SaveEndsStep ==
  ASSUME ScanInv, NEW s \in saves, SaveEnds(s)
  PROVE  ScanInv'
<1>1. /\ form \in Form /\ saves \subseteq Saving /\ s.no \in DiscNo
      /\ catalog \subseteq DiscNo /\ listed \subseteq DiscNo
      /\ form.step = 3 => form.result # NoFolder
      /\ form.step = 4 => form.saved # NoDisc
  BY DEF ScanInv, ScanTypeOK, ScanSaved, PreviewShown, SavedShown
<1>2. saves' = saves \ {s} /\ UNCHANGED <<page, preset, scans>>
  BY DEF SaveEnds
<1>3. \A q \in saves' : q \in saves /\ q.page # s.page
  BY <1>2 DEF ScanInv, ScanSaved
<1>4. catalog' \subseteq DiscNo /\ listed' \subseteq DiscNo
  BY <1>1 DEF SaveEnds
<1>5. ASSUME NEW f \in Form, form' = f, f.scanning = form.scanning,
             f.saving = form.saving \/ s.page = page,
             f.step = 3 => f.result # NoFolder, f.step = 4 => f.saved # NoDisc
      PROVE  ScanInv'
  <2>1. ScanTypeOK'
    BY <1>2, <1>4, <1>5 DEF ScanInv, ScanTypeOK
  <2>2. Flagged'
    BY <1>2, <1>3, <1>5 DEF ScanInv, Flagged
  <2>3. ScanSaved'
    BY <1>2, <1>5 DEF ScanInv, ScanSaved, PreviewShown, SavedShown
  <2>. QED
    BY <2>1, <2>2, <2>3 DEF ScanInv
<1>6. ASSUME NEW g \in Form, NEW nos \in SUBSET DiscNo, form' = Filled(g, nos),
             g.scanning = form.scanning, g.saving = form.saving \/ s.page = page,
             g.step = 3 => g.result # NoFolder, g.step = 4 => g.saved # NoDisc
      PROVE  ScanInv'
  <2>1. PICK t \in Number : Filled(g, nos) = [g EXCEPT !.title = t]
    BY <1>6, FilledIs
  <2>2. PICK f \in Form : f = [g EXCEPT !.title = t]
    BY <1>6, <2>1, FilledIs
  <2>3. /\ f.scanning = g.scanning /\ f.saving = g.saving /\ f.step = g.step
        /\ f.result = g.result /\ f.saved = g.saved
    BY <1>6, <2>2 DEF Form
  <2>. QED
    BY <1>5, <1>6, <2>1, <2>2, <2>3
<1>7. PICK e \in Form : e = [form EXCEPT !.saving = FALSE]
  BY <1>1 DEF Form
<1>8. /\ e.scanning = form.scanning /\ e.step = form.step
      /\ e.result = form.result /\ e.saved = form.saved
  BY <1>1, <1>7 DEF Form
<1>9. PICK g \in Form : g = [e EXCEPT !.saved = s.no, !.step = 4]
  <2>1. s.no \in Number /\ 4 \in 1..4
    BY <1>1 DEF Number
  <2>2. [e EXCEPT !.saved = s.no] \in Form
    BY <2>1 DEF Form
  <2>3. \A r \in Form : [r EXCEPT !.step = 4] \in Form
    BY <2>1 DEF Form
  <2>. QED
    BY <2>2, <2>3
<1>10. g.scanning = form.scanning /\ g.step = 4 /\ g.saved = s.no
  BY <1>8, <1>9 DEF Form
<1>11. s.no # NoDisc
  BY <1>1, ScanWizardAssumption DEF DiscNo, NoDisc
<1>12. PICK nos \in SUBSET DiscNo : nos = catalog'
  BY <1>4
<1>13. \/ form' = Filled(form, nos) /\ s.page # page
       \/ form' = Filled(g, nos) /\ s.page = page
       \/ form' = form /\ s.page # page
       \/ form' = e /\ s.page = page
  BY <1>7, <1>9, <1>12 DEF SaveEnds
<1>. QED
  BY <1>1, <1>5, <1>6, <1>8, <1>10, <1>11, <1>13

\* A page that is opened again starts with nothing under way.
LEMMA ReopenStep ==
  ASSUME ScanInv, NEW n \in Number, Reopen(n)
  PROVE  ScanInv'
<1>1. /\ catalog \in SUBSET DiscNo /\ page \in 1..MaxPages
      /\ scans \subseteq Scanning /\ saves \subseteq Saving
  BY DEF ScanInv, ScanTypeOK
<1>2. PICK f \in Form : f = Mounted(n, catalog) /\ f.step = 1
  BY <1>1, MountedIs
<1>3. PICK p \in 1..MaxPages : p = page + 1 /\ page' = p
  BY <1>1, ScanWizardAssumption DEF Reopen
<1>4. /\ form' = f /\ listed' = catalog /\ preset' = (n # NoDisc)
      /\ UNCHANGED <<catalog, scans, saves>>
  BY <1>2 DEF Reopen
<1>5. ScanTypeOK'
  BY <1>1, <1>3, <1>4 DEF ScanInv, ScanTypeOK
<1>6. Flagged'
  <2>1. ASSUME NEW s \in scans \cup saves PROVE s.page \in Nat /\ s.page <= page
    BY <1>1 DEF ScanInv, Flagged, Scanning, Saving
  <2>2. ASSUME NEW s \in scans \cup saves PROVE s.page <= p /\ s.page # p
    BY <1>1, <1>3, <2>1
  <2>. QED
    BY <1>3, <1>4, <2>2 DEF Flagged
<1>7. ScanSaved'
  BY <1>2, <1>4 DEF ScanInv, ScanSaved
<1>. QED
  BY <1>5, <1>6, <1>7 DEF ScanInv

\* Every step keeps the invariant.
LEMMA ScanInvStep == ScanInv /\ [ScanNext]_scanVars => ScanInv'
<1>1. CASE UNCHANGED scanVars
  BY <1>1 DEF scanVars, ScanInv, ScanTypeOK, Flagged, ScanSaved, PreviewShown, SavedShown
<1>. QED
  BY <1>1, PageSteps, RunScanStep, ScanEndsStep, SaveStep, SaveEndsStep, ReopenStep
     DEF ScanNext

\* The component state keeps its types, however scans and saves overlap with what is entered.
THEOREM ScanTyped == ScanSpec => []ScanTypeOK
<1>1. ScanInv => ScanTypeOK
  BY DEF ScanInv
<1>. QED
  BY <1>1, ScanInvInit, ScanInvStep, PTL DEF ScanSpec

\* Nothing is saved under a number that is none, no page has two scans or two saves under way,
\* and no step is shown without what it shows (Scan.tsx 84-118), for any number of discs,
\* folders and visits of the page.
THEOREM SavesAreSound == ScanSpec => []ScanSaved
<1>1. ScanInv => ScanSaved
  BY DEF ScanInv
<1>. QED
  BY <1>1, ScanInvInit, ScanInvStep, PTL DEF ScanSpec

-----------------------------------------------------------------------------
(***************************************************************************)
(* The API keys and the generated icons.  A tab that has not failed asks   *)
(* for what is in its queue, and nothing it asked for before is there: it  *)
(* is in the cache, or rejected, or the call under way.                    *)
(***************************************************************************)
Distinct(s) == \A i, j \in DOMAIN s : s[i] = s[j] => i = j

KeyStores == {s \in Store(KeyIds) : Distinct(s.keys)}

Queueing(s) ==
  /\ Distinct(s.queue)
  /\ \A i \in DOMAIN s.queue : s.queue[i] \in s.inflight
  /\ s.inflight \cap (s.cache \cup s.rejected) = {}
  /\ s.calling => s.queue # <<>> /\ ~s.halted

Spared(s, a) ==
  /\ Distinct(a)
  /\ ~s.halted => \A i \in DOMAIN a : \/ a[i] \in s.cache \cup s.rejected
                                      \/ s.calling /\ a[i] = s.queue[1]
  /\ ~s.loaded => s.queue = <<>> /\ s.inflight = {} /\ a = <<>>

IconsInv ==
  /\ stores \in [Provider -> KeyStores] /\ saved \subseteq IconName
  /\ icons \in [IconTab -> IconState] /\ asked \in [IconTab -> Seq(IconName)]
  /\ \A t \in IconTab : Queueing(icons[t]) /\ Spared(icons[t], asked[t])

\* A store whose list is replaced by one of different keys, or whose active key changes, is one.
LEMMA WritesKeep ==
  ASSUME NEW s \in KeyStores
  PROVE  /\ \A keys \in Seq(KeyIds) : Distinct(keys) => WriteKeys(s, keys) \subseteq KeyStores
         /\ \A id \in KeyIds \cup {NoKey} : WriteActive(s, id) \subseteq KeyStores
<1>1. s \in Store(KeyIds) /\ Distinct(s.keys)
  BY DEF KeyStores
<1>2. ASSUME NEW keys \in Seq(KeyIds), Distinct(keys)
      PROVE  [s EXCEPT !.keys = keys, !.present = TRUE] \in KeyStores
  <2>1. PICK w \in Store(KeyIds) : w = [s EXCEPT !.keys = keys, !.present = TRUE]
    BY <1>1 DEF Store
  <2>2. w.keys = keys
    BY <1>1, <2>1 DEF Store
  <2>. QED
    BY <1>2, <2>1, <2>2 DEF KeyStores
<1>3. ASSUME NEW id \in KeyIds \cup {NoKey}
      PROVE  [s EXCEPT !.active = id] \in KeyStores
  <2>1. PICK w \in Store(KeyIds) : w = [s EXCEPT !.active = id]
    BY <1>1 DEF Store
  <2>2. w.keys = s.keys
    BY <1>1, <2>1 DEF Store
  <2>. QED
    BY <1>1, <2>1, <2>2 DEF KeyStores
<1>. QED
  BY <1>2, <1>3 DEF WriteKeys, WriteActive

\* A read returns a store and a list of its keys, or no keys.
LEMMA ReadsKeep ==
  ASSUME NEW s \in KeyStores, NEW r \in ReadKeys(s)
  PROVE  /\ r.store \in KeyStores /\ r.keys \in Seq(KeyIds) /\ Distinct(r.keys)
         /\ \A i \in DOMAIN r.keys :
              r.keys[i] = LegacyKey \/ \E j \in DOMAIN s.keys : s.keys[j] = r.keys[i]
<1>1. s \in Store(KeyIds) /\ Distinct(s.keys) /\ s.keys \in Seq(KeyIds)
  BY DEF KeyStores, Store
<1>. DEFINE named == [s EXCEPT !.keys = <<LegacyKey>>, !.present = TRUE]
            done == [named EXCEPT !.active = LegacyKey, !.legacy = FALSE]
<1>2. /\ <<LegacyKey>> \in Seq(KeyIds) /\ Distinct(<<LegacyKey>>)
      /\ <<>> \in Seq(KeyIds) /\ Distinct(<<>>)
      /\ \A i \in DOMAIN <<LegacyKey>> : <<LegacyKey>>[i] = LegacyKey
  BY IconsAssumption DEF Distinct
<1>3. named \in KeyStores
  BY <1>2, WritesKeep DEF WriteKeys
<1>4. done \in KeyStores /\ done.keys = <<LegacyKey>>
  <2>1. PICK l \in KeyStores : l = named
    BY <1>3
  <2>2. l \in Store(KeyIds) /\ Distinct(l.keys) /\ l.keys = <<LegacyKey>>
    BY <1>1, <2>1 DEF KeyStores, Store
  <2>3. PICK d \in Store(KeyIds) : d = [l EXCEPT !.active = LegacyKey, !.legacy = FALSE]
    BY <2>2, IconsAssumption DEF Store
  <2>4. d.keys = <<LegacyKey>>
    BY <2>2, <2>3 DEF Store
  <2>5. done = d
    BY <2>1, <2>3
  <2>. HIDE DEF done
  <2>. QED
    BY <1>2, <2>4, <2>5 DEF KeyStores
<1>5. \/ r = [store |-> s, keys |-> s.keys]
      \/ r = [store |-> s, keys |-> <<>>]
      \/ r = [store |-> named, keys |-> <<>>]
      \/ r = [store |-> done, keys |-> done.keys]
  BY DEF ReadKeys
<1>. HIDE DEF named, done
<1>6. CASE r = [store |-> s, keys |-> s.keys]
  BY <1>1, <1>6
<1>7. CASE r = [store |-> s, keys |-> <<>>]
  BY <1>2, <1>7
<1>8. CASE r = [store |-> named, keys |-> <<>>]
  BY <1>2, <1>3, <1>8
<1>9. CASE r = [store |-> done, keys |-> done.keys]
  BY <1>2, <1>4, <1>9
<1>. QED
  BY <1>5, <1>6, <1>7, <1>8, <1>9

\* A list without some of its keys has different keys.
LEMMA WithoutDistinct ==
  ASSUME NEW T, NEW s \in Seq(T), Distinct(s), NEW A
  PROVE  Without(s, A) \in Seq(T) /\ Distinct(Without(s, A))
<1>. DEFINE I == {i \in DOMAIN s : s[i] \notin A}
<1>1. I \subseteq DOMAIN s /\ Without(s, A) = Kept(s, I)
  BY DEF Without
<1>. HIDE DEF I
<1>2. PICK pos \in [1..Cardinality(I) -> I] :
         /\ \A k, l \in 1..Cardinality(I) : k < l => pos[k] < pos[l]
         /\ Kept(s, I) = [k \in 1..Cardinality(I) |-> s[pos[k]]]
         /\ Kept(s, I) \in Seq(T)
  BY <1>1, KeptOf
<1>3. Cardinality(I) \in Nat
  BY <1>1, KeptOf
<1>4. ASSUME NEW k \in 1..Cardinality(I), NEW l \in 1..Cardinality(I), s[pos[k]] = s[pos[l]]
      PROVE  k = l
  <2>1. pos[k] \in DOMAIN s /\ pos[l] \in DOMAIN s
    BY <1>1, <1>2
  <2>2. pos[k] = pos[l] /\ pos[k] \in Nat
    BY <1>4, <2>1 DEF Distinct
  <2>3. ~(k < l) /\ ~(l < k)
    BY <1>2, <2>2
  <2>. QED
    BY <1>3, <2>3
<1>. QED
  BY <1>1, <1>2, <1>4 DEF Distinct

\* What the user does with a provider's keys leaves a list of different keys.
LEMMA UsesKeep ==
  ASSUME NEW s \in KeyStores, NEW u \in UsedKeys(s, KeyIds)
  PROVE  u \in KeyStores
<1>1. s \in Store(KeyIds) /\ s.keys \in Seq(KeyIds)
  BY DEF KeyStores, Store
<1>2. ASSUME NEW id \in KeyIds, id # LegacyKey, \A i \in DOMAIN s.keys : s.keys[i] # id,
             u \in AddKey(s, id)
      PROVE  u \in KeyStores
  <2>1. PICK r \in ReadKeys(s) :
          u \in UNION {IF w.active = NoKey THEN WriteActive(w, id) ELSE {w} :
                         w \in WriteKeys(r.store, Append(r.keys, id))}
    BY <1>2 DEF AddKey
  <2>2. /\ r.store \in KeyStores /\ r.keys \in Seq(KeyIds) /\ Distinct(r.keys)
        /\ \A i \in DOMAIN r.keys : r.keys[i] # id
    BY <1>2, ReadsKeep
  <2>3. Append(r.keys, id) \in Seq(KeyIds) /\ Distinct(Append(r.keys, id))
    BY <2>2 DEF Distinct
  <2>4. PICK w \in WriteKeys(r.store, Append(r.keys, id)) : u \in WriteActive(w, id) \cup {w}
    BY <2>1
  <2>5. w \in KeyStores
    BY <2>2, <2>3, <2>4, WritesKeep
  <2>. QED
    BY <2>4, <2>5, WritesKeep
<1>3. ASSUME NEW id \in KeyIds, u \in RemoveKey(s, id) PROVE u \in KeyStores
  <2>1. PICK r \in ReadKeys(s) :
          u \in LET rest == Without(r.keys, {id})
                    next == IF rest = <<>> THEN NoKey ELSE Head(rest)
                IN UNION {IF w.active = id THEN WriteActive(w, next) ELSE {w} :
                            w \in WriteKeys(r.store, rest)}
    BY <1>3 DEF RemoveKey
  <2>. DEFINE rest == Without(r.keys, {id})
              next == IF rest = <<>> THEN NoKey ELSE Head(rest)
  <2>2. r.store \in KeyStores /\ r.keys \in Seq(KeyIds) /\ Distinct(r.keys)
    BY ReadsKeep
  <2>3. rest \in Seq(KeyIds) /\ Distinct(rest)
    BY <2>2, WithoutDistinct
  <2>4. next \in KeyIds \cup {NoKey}
    <3>. HIDE DEF rest
    <3>. QED
      BY <2>3
  <2>5. PICK w \in WriteKeys(r.store, rest) : u \in WriteActive(w, next) \cup {w}
    <3>. HIDE DEF rest, next
    <3>1. u \in UNION {IF w.active = id THEN WriteActive(w, next) ELSE {w} :
                         w \in WriteKeys(r.store, rest)}
      BY <2>1 DEF rest, next
    <3>. QED
      BY <3>1
  <2>. HIDE DEF rest, next
  <2>6. w \in KeyStores
    BY <2>2, <2>3, <2>5, WritesKeep
  <2>. QED
    BY <2>4, <2>5, <2>6, WritesKeep
<1>4. ASSUME NEW id \in KeyIds, u \in ActivateKey(s, id) PROVE u \in KeyStores
  BY <1>4, WritesKeep DEF ActivateKey
<1>5. \A i \in DOMAIN s.keys : s.keys[i] \in KeyIds
  BY <1>1
<1>6. \/ \E id \in KeyIds : /\ id # LegacyKey /\ \A i \in DOMAIN s.keys : s.keys[i] # id
                            /\ u \in AddKey(s, id)
      \/ \E i \in DOMAIN s.keys : u \in RemoveKey(s, s.keys[i]) \cup ActivateKey(s, s.keys[i])
  <2>. DEFINE New == {k \in KeyIds \ {LegacyKey} : \A i \in DOMAIN s.keys : s.keys[i] # k}
              Added == UNION {AddKey(s, id) : id \in New}
              Listed == UNION {RemoveKey(s, s.keys[i]) \cup ActivateKey(s, s.keys[i]) :
                                 i \in DOMAIN s.keys}
  <2>1. u \in Added \/ u \in Listed
    BY DEF UsedKeys
  <2>2. CASE u \in Added
    <3>1. PICK id \in New : u \in AddKey(s, id)
      BY <2>2
    <3>. QED
      BY <3>1
  <2>3. CASE u \in Listed
    BY <2>3
  <2>. QED
    BY <2>1, <2>2, <2>3
<1>. QED
  BY <1>2, <1>3, <1>4, <1>5, <1>6

\* The queue without its head, and the request without its answer.
LEMMA DroppedIs ==
  ASSUME NEW s \in IconState, Queueing(s), s.queue # <<>>
  PROVE  LET d == Dropped(s)
         IN /\ d \in IconState /\ Queueing(d)
            /\ d.loaded = s.loaded /\ d.cache = s.cache /\ d.rejected = s.rejected
            /\ d.halted = s.halted /\ d.calling = FALSE
            /\ d.inflight = s.inflight \ {s.queue[1]}
            /\ Head(s.queue) = s.queue[1] /\ s.queue[1] \in IconName
            /\ s.queue[1] \in s.inflight
            /\ s.queue[1] \notin d.inflight
<1>1. /\ s.queue \in Seq(IconName) /\ s.inflight \in SUBSET IconName
      /\ Head(s.queue) = s.queue[1] /\ s.queue[1] \in IconName
  BY DEF IconState
<1>2. /\ Tail(s.queue) \in Seq(IconName)
      /\ Len(Tail(s.queue)) = Len(s.queue) - 1
      /\ \A i \in 1..(Len(s.queue) - 1) : Tail(s.queue)[i] = s.queue[i + 1]
  BY <1>1
<1>3. PICK q \in Seq(IconName) : q = Tail(s.queue)
  BY <1>2
<1>4. PICK f \in SUBSET IconName : f = s.inflight \ {s.queue[1]}
  BY <1>1
<1>5. PICK d \in IconState : d = [s EXCEPT !.queue = q, !.inflight = f, !.calling = FALSE]
  BY DEF IconState
<1>6. /\ d.loaded = s.loaded /\ d.cache = s.cache /\ d.rejected = s.rejected
      /\ d.halted = s.halted /\ d.calling = FALSE /\ d.queue = q /\ d.inflight = f
  BY <1>5 DEF IconState
<1>7. Dropped(s) = d
  BY <1>1, <1>3, <1>4, <1>5 DEF Dropped
<1>8. Distinct(q) /\ \A i \in DOMAIN q : q[i] \in f
  <2>1. DOMAIN q = 1..(Len(s.queue) - 1) /\ DOMAIN s.queue = 1..Len(s.queue)
        /\ Len(s.queue) \in Nat
    BY <1>1, <1>2, <1>3
  <2>2. \A i \in DOMAIN q : i + 1 \in DOMAIN s.queue /\ q[i] = s.queue[i + 1] /\ i + 1 # 1
                            /\ 1 \in DOMAIN s.queue
    BY <1>2, <1>3, <2>1
  <2>3. \A i, j \in DOMAIN s.queue : s.queue[i] = s.queue[j] => i = j
    BY DEF Queueing, Distinct
  <2>4. \A i \in DOMAIN q : q[i] \in f
    BY <1>4, <2>2, <2>3 DEF Queueing
  <2>5. ASSUME NEW i \in DOMAIN q, NEW j \in DOMAIN q, q[i] = q[j] PROVE i = j
    <3>1. i + 1 = j + 1
      BY <2>2, <2>3, <2>5
    <3>. QED
      BY <2>1, <3>1
  <2>. QED
    BY <2>4, <2>5 DEF Distinct
<1>9. s.queue[1] \in s.inflight
  BY <1>1 DEF Queueing
<1>10. Queueing(d)
  BY <1>4, <1>6, <1>8 DEF Queueing
<1>. QED
  BY <1>1, <1>4, <1>6, <1>7, <1>9, <1>10

\* A step of one tab that leaves it sound.
LEMMA TabKeeps ==
  ASSUME IconsInv, NEW t \in IconTab, NEW s \in IconState, NEW a \in Seq(IconName),
         icons' = [icons EXCEPT ![t] = s], asked' = [asked EXCEPT ![t] = a],
         stores' \in [Provider -> KeyStores], saved' \subseteq IconName,
         Queueing(s), Spared(s, a)
  PROVE  IconsInv'
<1>1. icons' \in [IconTab -> IconState] /\ asked' \in [IconTab -> Seq(IconName)]
  BY DEF IconsInv
<1>2. ASSUME NEW u \in IconTab PROVE Queueing(icons'[u]) /\ Spared(icons'[u], asked'[u])
  BY DEF IconsInv
<1>. QED
  BY <1>1, <1>2 DEF IconsInv

\* The store of a provider after a read.
LEMMA StoresKeep ==
  ASSUME IconsInv, NEW p \in Provider, NEW r \in ReadKeys(stores[p]),
         stores' = [stores EXCEPT ![p] = r.store]
  PROVE  stores' \in [Provider -> KeyStores]
<1>1. stores[p] \in KeyStores
  BY DEF IconsInv
<1>2. r.store \in KeyStores
  BY <1>1, ReadsKeep
<1>. QED
  BY <1>2 DEF IconsInv

\* A request joins the queue of a tab that does not have the icon, and waits for no answer.
LEMMA RequestIconStep ==
  ASSUME IconsInv, NEW t \in IconTab, NEW name \in IconName, RequestIcon(t, name)
  PROVE  IconsInv'
<1>. DEFINE s == icons[t]
<1>1. /\ s \in IconState /\ Queueing(s) /\ Spared(s, asked[t])
      /\ saved \subseteq IconName /\ asked[t] \in Seq(IconName)
      /\ asked = [asked EXCEPT ![t] = asked[t]]
  BY DEF IconsInv
<1>2. PICK c \in SUBSET IconName : c = Cached(t)
  BY <1>1 DEF Cached, IconState
<1>3. PICK seen \in IconState : seen = [s EXCEPT !.loaded = TRUE, !.cache = c]
  BY <1>1, <1>2 DEF IconState
<1>4. PICK r \in ReadKeys(stores["gemini"]) :
         /\ stores' = [stores EXCEPT !["gemini"] = r.store]
         /\ \/ icons' = [icons EXCEPT ![t] = seen]
            \/ icons' = [icons EXCEPT ![t] =
                  [seen EXCEPT !.inflight = @ \cup {name}, !.queue = Append(@, name)]]
  BY <1>2, <1>3 DEF RequestIcon
<1>5. /\ name \notin c /\ ~s.halted /\ name \notin s.inflight /\ name \notin s.rejected
      /\ UNCHANGED <<saved, asked>>
  BY <1>2 DEF RequestIcon
<1>6. stores' \in [Provider -> KeyStores]
  BY <1>4, StoresKeep DEF Provider
<1>. HIDE DEF s
<1>7. /\ seen.loaded = TRUE /\ seen.cache = c /\ seen.inflight = s.inflight
      /\ seen.queue = s.queue /\ seen.calling = s.calling /\ seen.rejected = s.rejected
      /\ seen.halted = s.halted
  BY <1>1, <1>3 DEF IconState
<1>8. Queueing(seen) /\ Spared(seen, asked[t])
  <2>1. CASE s.loaded
    <3>1. c = s.cache
      BY <1>2, <2>1 DEF Cached, s
    <3>. QED
      BY <1>1, <1>7, <2>1, <3>1 DEF Queueing, Spared
  <2>2. CASE ~s.loaded
    BY <1>1, <1>7, <2>2 DEF Queueing, Spared
  <2>. QED
    BY <2>1, <2>2
<1>9. CASE icons' = [icons EXCEPT ![t] = seen]
  BY <1>1, <1>5, <1>6, <1>8, <1>9, TabKeeps
<1>10. CASE icons' = [icons EXCEPT ![t] =
                  [seen EXCEPT !.inflight = @ \cup {name}, !.queue = Append(@, name)]]
  <2>1. PICK q \in Seq(IconName) : q = Append(seen.queue, name)
    <3>1. seen.queue \in Seq(IconName)
      BY DEF IconState
    <3>2. Append(seen.queue, name) \in Seq(IconName)
      BY <3>1
    <3>. QED
      BY <3>2
  <2>2. PICK f \in SUBSET IconName : f = seen.inflight \cup {name}
    BY DEF IconState
  <2>3. PICK n \in IconState : n = [seen EXCEPT !.inflight = f, !.queue = q]
    BY DEF IconState
  <2>4. /\ n.loaded = TRUE /\ n.cache = c /\ n.inflight = s.inflight \cup {name}
        /\ n.queue = Append(s.queue, name) /\ n.calling = s.calling /\ n.rejected = s.rejected
        /\ n.halted = s.halted
    BY <1>7, <2>1, <2>2, <2>3 DEF IconState
  <2>5. s.queue \in Seq(IconName)
    BY <1>1 DEF IconState
  <2>6. /\ DOMAIN n.queue = 1..(Len(s.queue) + 1)
        /\ \A i \in DOMAIN s.queue : n.queue[i] = s.queue[i] /\ s.queue[i] # name
        /\ n.queue[Len(s.queue) + 1] = name
    BY <1>1, <1>5, <2>4, <2>5 DEF Queueing
  <2>7. Distinct(n.queue) /\ \A i \in DOMAIN n.queue : n.queue[i] \in n.inflight
    <3>1. Distinct(s.queue) /\ \A i \in DOMAIN s.queue : s.queue[i] \in s.inflight
      BY <1>1 DEF Queueing
    <3>2. DOMAIN n.queue = DOMAIN s.queue \cup {Len(s.queue) + 1}
          /\ Len(s.queue) + 1 \notin DOMAIN s.queue
      BY <2>5, <2>6
    <3>. QED
      BY <2>4, <2>6, <3>1, <3>2 DEF Distinct
  <2>8. Queueing(n)
    <3>1. n.queue # <<>>
      BY <2>4, <2>5
    <3>2. n.inflight \cap (n.cache \cup n.rejected) = {}
      BY <1>5, <1>7, <1>8, <2>4 DEF Queueing
    <3>3. n.calling => ~n.halted
      BY <1>5, <2>4
    <3>. QED
      BY <2>7, <3>1, <3>2, <3>3 DEF Queueing
  <2>9. Spared(n, asked[t])
    <3>1. s.calling => n.queue[1] = s.queue[1]
      BY <1>1, <2>4, <2>5 DEF Queueing
    <3>. QED
      BY <1>7, <1>8, <2>4, <3>1 DEF Spared
  <2>10. icons' = [icons EXCEPT ![t] = n]
    BY <1>10, <2>1, <2>2, <2>3
  <2>. QED
    BY <1>1, <1>5, <1>6, <2>8, <2>9, <2>10, TabKeeps
<1>. QED
  BY <1>4, <1>9, <1>10

\* The head of the queue was not asked for before.
LEMMA AskIconStep ==
  ASSUME IconsInv, NEW t \in IconTab, AskIcon(t)
  PROVE  IconsInv'
<1>. DEFINE s == icons[t]
<1>1. /\ s \in IconState /\ Queueing(s) /\ Spared(s, asked[t])
      /\ saved \subseteq IconName /\ asked[t] \in Seq(IconName)
      /\ asked = [asked EXCEPT ![t] = asked[t]]
  BY DEF IconsInv
<1>2. PICK r \in ReadKeys(stores["gemini"]) :
         /\ stores' = [stores EXCEPT !["gemini"] = r.store]
         /\ \/ /\ ~s.halted
               /\ icons' = [icons EXCEPT ![t].calling = TRUE]
               /\ asked' = [asked EXCEPT ![t] = Append(@, Head(s.queue))]
            \/ icons' = [icons EXCEPT ![t] = Dropped(s)] /\ UNCHANGED asked
  BY DEF AskIcon, GoesOn
<1>3. s.queue # <<>> /\ ~s.calling /\ UNCHANGED saved
  BY DEF AskIcon
<1>4. stores' \in [Provider -> KeyStores]
  BY <1>2, StoresKeep DEF Provider
<1>5. CASE icons' = [icons EXCEPT ![t] = Dropped(s)] /\ UNCHANGED asked
  <2>. DEFINE d == Dropped(s)
  <2>. HIDE DEF s
  <2>1. /\ d \in IconState /\ Queueing(d)
        /\ d.loaded = s.loaded /\ d.cache = s.cache /\ d.rejected = s.rejected
        /\ d.halted = s.halted /\ d.calling = FALSE
    BY <1>1, <1>3, DroppedIs
  <2>2. s.loaded
    BY <1>1, <1>3 DEF Spared
  <2>. HIDE DEF d
  <2>3. Spared(d, asked[t])
    BY <1>1, <1>3, <2>1, <2>2 DEF Spared
  <2>. QED
    BY <1>1, <1>3, <1>4, <1>5, <2>1, <2>3, TabKeeps DEF d
<1>6. CASE /\ ~s.halted
           /\ icons' = [icons EXCEPT ![t].calling = TRUE]
           /\ asked' = [asked EXCEPT ![t] = Append(@, Head(s.queue))]
  <2>1. PICK n \in IconState : n = [s EXCEPT !.calling = TRUE]
    BY <1>1 DEF IconState
  <2>2. icons' = [icons EXCEPT ![t] = n]
    BY <1>6, <2>1
  <2>. HIDE DEF s
  <2>3. /\ n.loaded = s.loaded /\ n.cache = s.cache /\ n.rejected = s.rejected
        /\ n.halted = s.halted /\ n.calling = TRUE /\ n.queue = s.queue
        /\ n.inflight = s.inflight
    BY <1>1, <2>1 DEF IconState
  <2>4. Queueing(n)
    BY <1>1, <1>3, <1>6, <2>3 DEF Queueing
  <2>5. /\ Head(s.queue) = s.queue[1] /\ s.queue[1] \in IconName
        /\ s.queue[1] \in s.inflight
    BY <1>1, <1>3, DroppedIs
  <2>6. PICK a \in Seq(IconName) : a = Append(asked[t], s.queue[1])
    <3>1. Append(asked[t], s.queue[1]) \in Seq(IconName)
      BY <1>1, <2>5
    <3>. QED
      BY <3>1
  <2>7. /\ DOMAIN a = DOMAIN asked[t] \cup {Len(asked[t]) + 1}
        /\ \A i \in DOMAIN asked[t] : a[i] = asked[t][i]
        /\ a[Len(asked[t]) + 1] = s.queue[1]
    BY <1>1, <2>5, <2>6
  <2>8. \A i \in DOMAIN asked[t] : asked[t][i] \in s.cache \cup s.rejected
    BY <1>1, <1>3, <1>6 DEF Spared
  <2>9. s.queue[1] \notin s.cache \cup s.rejected
    BY <1>1, <2>5 DEF Queueing
  <2>10. s.loaded /\ Distinct(asked[t])
    BY <1>1, <1>3 DEF Spared
  <2>11. Spared(n, a)
    <3>1. Distinct(a)
      BY <2>7, <2>8, <2>9, <2>10 DEF Distinct
    <3>2. \A i \in DOMAIN a : \/ a[i] \in n.cache \cup n.rejected
                              \/ n.calling /\ a[i] = n.queue[1]

      BY <2>3, <2>7, <2>8
    <3>. QED
      BY <2>3, <2>10, <3>1, <3>2 DEF Spared
  <2>12. asked' = [asked EXCEPT ![t] = a]
    BY <1>6, <2>5, <2>6 DEF s
  <2>. QED
    BY <1>1, <1>3, <1>4, <2>2, <2>4, <2>11, <2>12, TabKeeps
<1>. QED
  BY <1>2, <1>5, <1>6

\* What was asked for is cached or rejected, or the tab asks for no more.
LEMMA IconAnsweredStep ==
  ASSUME IconsInv, NEW t \in IconTab, IconAnswered(t)
  PROVE  IconsInv'
<1>. DEFINE s == icons[t]
            d == Dropped(s)
            x == s.queue[1]
<1>1. /\ s \in IconState /\ Queueing(s) /\ Spared(s, asked[t])
      /\ saved \subseteq IconName /\ asked[t] \in Seq(IconName)
      /\ asked = [asked EXCEPT ![t] = asked[t]]
      /\ stores \in [Provider -> KeyStores]
  BY DEF IconsInv
<1>2. s.calling /\ UNCHANGED <<stores, asked>>
  BY DEF IconAnswered
<1>3. /\ \/ icons' = [icons EXCEPT ![t] = [d EXCEPT !.cache = s.cache \cup {Head(s.queue)}]]
         \/ icons' = [icons EXCEPT ![t] = [d EXCEPT !.rejected = @ \cup {Head(s.queue)}]]
         \/ icons' = [icons EXCEPT ![t] = [d EXCEPT !.halted = TRUE]]
      /\ saved' \in {saved, s.cache \cup {Head(s.queue)}}
  BY DEF IconAnswered
<1>. HIDE DEF s
<1>4. s.queue # <<>> /\ ~s.halted
  BY <1>1, <1>2 DEF Queueing
<1>5. /\ d \in IconState /\ Queueing(d)
      /\ d.loaded = s.loaded /\ d.cache = s.cache /\ d.rejected = s.rejected
      /\ d.halted = s.halted /\ d.calling = FALSE
      /\ d.inflight = s.inflight \ {x}
      /\ Head(s.queue) = x /\ x \in IconName /\ x \in s.inflight /\ x \notin d.inflight
  BY <1>1, <1>4, DroppedIs
<1>6. /\ s.loaded /\ Distinct(asked[t])
      /\ \A i \in DOMAIN asked[t] : asked[t][i] \in s.cache \cup s.rejected \cup {x}
  BY <1>1, <1>4 DEF Spared
<1>7. saved' \subseteq IconName
  BY <1>1, <1>3, <1>5 DEF IconState
<1>. HIDE DEF d, x
<1>8. ASSUME NEW n \in IconState, icons' = [icons EXCEPT ![t] = n],
             n.loaded = d.loaded, n.queue = d.queue, n.inflight = d.inflight,
             n.calling = d.calling,
             \/ n.cache \cup n.rejected = d.cache \cup d.rejected \cup {x} /\ n.halted = d.halted
             \/ n.cache \cup n.rejected = d.cache \cup d.rejected /\ n.halted
      PROVE  IconsInv'
  <2>1. Queueing(n)
    <3>1. n.inflight \cap (n.cache \cup n.rejected) = {}
      BY <1>5, <1>8 DEF Queueing
    <3>. QED
      BY <1>5, <1>8, <3>1 DEF Queueing
  <2>2. Spared(n, asked[t])
    BY <1>5, <1>6, <1>8 DEF Spared
  <2>. QED
    BY <1>1, <1>2, <1>7, <1>8, <2>1, <2>2, TabKeeps
<1>9. CASE icons' = [icons EXCEPT ![t] = [d EXCEPT !.cache = s.cache \cup {Head(s.queue)}]]
  <2>1. PICK c \in SUBSET IconName : c = s.cache \cup {x}
    BY <1>1, <1>5 DEF IconState
  <2>2. PICK n \in IconState : n = [d EXCEPT !.cache = c]
    BY <1>5 DEF IconState
  <2>3. /\ n.loaded = d.loaded /\ n.queue = d.queue /\ n.inflight = d.inflight
        /\ n.calling = d.calling /\ n.rejected = d.rejected /\ n.halted = d.halted
        /\ n.cache = c
    BY <1>5, <2>2 DEF IconState
  <2>4. n.cache \cup n.rejected = d.cache \cup d.rejected \cup {x}
    BY <1>5, <2>1, <2>3
  <2>5. icons' = [icons EXCEPT ![t] = n]
    BY <1>5, <1>9, <2>1, <2>2
  <2>. QED
    BY <1>8, <2>3, <2>4, <2>5
<1>10. CASE icons' = [icons EXCEPT ![t] = [d EXCEPT !.rejected = @ \cup {Head(s.queue)}]]
  <2>1. PICK c \in SUBSET IconName : c = d.rejected \cup {x}
    BY <1>5 DEF IconState
  <2>2. PICK n \in IconState : n = [d EXCEPT !.rejected = c]
    BY <1>5 DEF IconState
  <2>3. /\ n.loaded = d.loaded /\ n.queue = d.queue /\ n.inflight = d.inflight
        /\ n.calling = d.calling /\ n.cache = d.cache /\ n.halted = d.halted
        /\ n.rejected = c
    BY <1>5, <2>2 DEF IconState
  <2>4. n.cache \cup n.rejected = d.cache \cup d.rejected \cup {x}
    BY <2>1, <2>3
  <2>5. icons' = [icons EXCEPT ![t] = n]
    BY <1>5, <1>10, <2>1, <2>2
  <2>. QED
    BY <1>8, <2>3, <2>4, <2>5
<1>11. CASE icons' = [icons EXCEPT ![t] = [d EXCEPT !.halted = TRUE]]
  <2>1. PICK n \in IconState : n = [d EXCEPT !.halted = TRUE]
    BY <1>5 DEF IconState
  <2>2. /\ n.loaded = d.loaded /\ n.queue = d.queue /\ n.inflight = d.inflight
        /\ n.calling = d.calling /\ n.cache = d.cache /\ n.halted = TRUE
        /\ n.rejected = d.rejected
    BY <1>5, <2>1 DEF IconState
  <2>3. icons' = [icons EXCEPT ![t] = n]
    BY <1>11, <2>1
  <2>. QED
    BY <1>8, <2>2, <2>3
<1>. QED
  BY <1>3, <1>9, <1>10, <1>11

\* Every tab starts without requests, and every provider without keys but an older version's.
LEMMA IconsInvInit == IconsInit => IconsInv
<1>. SUFFICES ASSUME IconsInit PROVE IconsInv
  OBVIOUS
<1>1. FreshTab \in IconState
  BY DEF FreshTab, IconState
<1>2. Queueing(FreshTab) /\ Spared(FreshTab, <<>>)
  BY DEF FreshTab, Queueing, Spared, Distinct
<1>3. ASSUME NEW b \in BOOLEAN PROVE EmptyStore(b) \in KeyStores
  BY DEF EmptyStore, KeyStores, Store, Distinct
<1>4. stores \in [Provider -> KeyStores]
  <2>1. PICK legacy \in BOOLEAN :
          stores = [p \in Provider |-> EmptyStore(p = "gemini" /\ legacy)]
    BY DEF IconsInit
  <2>2. \A p \in Provider : (p = "gemini" /\ legacy) \in BOOLEAN
    OBVIOUS
  <2>. QED
    BY <1>3, <2>1, <2>2
<1>. QED
  BY <1>1, <1>2, <1>4 DEF IconsInit, IconsInv

\* Every step keeps the invariant.
LEMMA IconsInvStep == IconsInv /\ [IconsNext]_iconVars => IconsInv'
<1>. SUFFICES ASSUME IconsInv, [IconsNext]_iconVars PROVE IconsInv'
  OBVIOUS
<1>1. ASSUME NEW p \in Provider, UseKeys(p) PROVE IconsInv'
  <2>1. stores[p] \in KeyStores
    BY DEF IconsInv
  <2>2. PICK s \in UsedKeys(stores[p], KeyIds) : stores' = [stores EXCEPT ![p] = s]
    BY <1>1 DEF UseKeys
  <2>3. s \in KeyStores
    BY <2>1, <2>2, UsesKeep
  <2>. QED
    BY <1>1, <2>2, <2>3 DEF UseKeys, IconsInv
<1>2. CASE UNCHANGED iconVars
  BY <1>2 DEF iconVars, IconsInv
<1>. QED
  BY <1>1, <1>2, RequestIconStep, AskIconStep, IconAnsweredStep DEF IconsNext

\* The key in use is one of the ids, or none.
LEMMA KeyOfTyped ==
  ASSUME NEW keys \in Seq(KeyIds), NEW active
  PROVE  KeyOf(keys, active) \in KeyIds \cup {NoKey}
<1>1. CASE keys = <<>>
  BY <1>1 DEF KeyOf
<1>2. CASE keys # <<>> /\ \E i \in DOMAIN keys : keys[i] = active
  BY <1>2 DEF KeyOf
<1>3. CASE keys # <<>> /\ ~\E i \in DOMAIN keys : keys[i] = active
  BY <1>3 DEF KeyOf
<1>. QED
  BY <1>1, <1>2, <1>3

\* The stores of keys and the module variables of genre-icon.tsx keep their types: no list has a
\* key twice, and a search has a key of its provider or none.
THEOREM IconsTyped == IconsSpec => []IconsTypeOK
<1>1. IconsInv => IconsTypeOK
  <2>. SUFFICES ASSUME IconsInv PROVE IconsTypeOK
    OBVIOUS
  <2>1. ASSUME NEW p \in Provider
        PROVE  /\ stores[p] \in Store(KeyIds) /\ IsInjective(stores[p].keys)
               /\ stores[p].keys \in Seq(KeyIds)
    BY DEF IconsInv, KeyStores, Store, Distinct, IsInjective
  <2>2. ASSUME NEW k \in {"movie", "game"} PROVE LookupKey(k) \in KeyIds \cup {NoKey}
    BY <2>1, KeyOfTyped DEF LookupKey, Provider
  <2>. QED
    BY <2>1, <2>2 DEF IconsInv, IconsTypeOK
<1>. QED
  BY <1>1, IconsInvInit, IconsInvStep, PTL DEF IconsSpec

\* An icon costs a tab one call at most, and a call that failed is the tab's last
\* (genre-icon.tsx 145), for any number of tabs, icons and keys.
THEOREM IconCallsSpared == IconsSpec => []IconsSpared
<1>1. IconsInv => IconsSpared
  BY DEF IconsInv, IconsSpared, Queueing, Spared, Distinct
<1>. QED
  BY <1>1, IconsInvInit, IconsInvStep, PTL DEF IconsSpec

-----------------------------------------------------------------------------
(***************************************************************************)
(* AI identification.  At most the last queue has not ended, and then the  *)
(* module variable says so; a run of a queue is the one the queue waits    *)
(* for.  A run stores its item once, so that an item of a run that has not *)
(* come that far does not exist.                                           *)
(***************************************************************************)
Early == {"summary", "ask", "raw", "items"}

RunsTyped ==
  /\ runs \in Seq(RunState \cup {Over}) /\ Len(runs) <= MaxRuns
  /\ loops \in Seq(LoopState) /\ Len(loops) <= MaxLoops
  /\ bulk \in [progress: BOOLEAN, cancel: BOOLEAN]

QueuesSound ==
  /\ \A l \in DOMAIN loops : loops[l].step # "ended" => l = Len(loops) /\ bulk.progress
  /\ \A l \in DOMAIN loops : loops[l].step = "wait" => loops[l].todo # <<>>
  /\ \A r \in DOMAIN runs : runs[r] # Over /\ runs[r].loop # 0 =>
       /\ runs[r].loop \in DOMAIN loops /\ loops[runs[r].loop].step = "run"
       /\ runs[r].step # "list"
  /\ OneBulkRun

ItemsSound ==
  /\ DOMAIN items \subseteq DOMAIN runs
  /\ \A i \in DOMAIN items : items[i] \in Item /\ runs[i].step \notin Early
  /\ items = [i \in DOMAIN items |-> items[i]]
  /\ blobs \subseteq DOMAIN items /\ revived \subseteq DOMAIN items
  /\ searches \subseteq Search /\ \A s \in searches : s.item \in DOMAIN items
  /\ ItemsOfLastRun

AnalysisInv ==
  /\ discs \in [Disc -> DiscRow]
  /\ RunsTyped /\ QueuesSound /\ ItemsSound

\* A run is over, or has the fields of one.
LEMMA RunIs ==
  ASSUME RunsTyped, NEW r \in DOMAIN runs, runs[r].step # "over"
  PROVE  /\ runs[r] \in RunState /\ runs[r] # Over
         /\ runs[r].target \in Target /\ DiscOf(r) \in Disc
         /\ runs[r].loop \in 0..MaxLoops /\ runs[r].models \in 0..MaxModels
<1>1. runs[r] \in RunState \cup {Over}
  BY DEF RunsTyped
<1>2. runs[r] \in RunState /\ runs[r] # Over
  BY <1>1 DEF Over
<1>. QED
  BY <1>2 DEF RunState, Target, DiscOf

\* What holds of items when the run of an item does not come back to its first steps.
LEMMA ItemsKeep ==
  ASSUME ItemsSound, UNCHANGED <<items, blobs, searches, revived>>,
         DOMAIN runs \subseteq DOMAIN runs',
         \A i \in DOMAIN items : runs'[i].step \notin Early
  PROVE  ItemsSound'
  BY DEF ItemsSound, ItemsOfLastRun

\* A run goes on to another step.
LEMMA RunGoesOn ==
  ASSUME RunsTyped, QueuesSound, NEW r \in DOMAIN runs, runs[r].step # "over",
         NEW R \in RunState, runs' = [runs EXCEPT ![r] = R],
         R.loop = runs[r].loop, R.step = "list" => R.loop = 0, UNCHANGED <<loops, bulk>>
  PROVE  /\ RunsTyped' /\ QueuesSound'
         /\ DOMAIN runs' = DOMAIN runs /\ runs'[r] = R
         /\ \A q \in DOMAIN runs : q # r => runs'[q] = runs[q]
<1>1. runs[r] # Over /\ R # Over
  BY DEF Over, RunState
<1>2. /\ DOMAIN runs' = DOMAIN runs /\ Len(runs') = Len(runs) /\ runs'[r] = R
      /\ \A q \in DOMAIN runs : q # r => runs'[q] = runs[q]
      /\ runs' \in Seq(RunState \cup {Over})
  BY DEF RunsTyped
<1>3. RunsTyped'
  BY <1>2 DEF RunsTyped
<1>4. OneBulkRun'
  BY <1>1, <1>2 DEF QueuesSound, OneBulkRun
<1>5. QueuesSound'
  BY <1>1, <1>2, <1>4 DEF QueuesSound
<1>. QED
  BY <1>2, <1>3, <1>5

\* A run ends; its queue, if there is one, goes on to another step.
LEMMA RunEnds ==
  ASSUME RunsTyped, QueuesSound, NEW r \in DOMAIN runs, runs[r].step # "over",
         runs' = [runs EXCEPT ![r] = Over],
         \/ runs[r].loop = 0 /\ UNCHANGED <<loops, bulk>>
         \/ /\ runs[r].loop # 0
            /\ loops' = [loops EXCEPT ![runs[r].loop].step = "next"]
            /\ UNCHANGED bulk
         \/ /\ runs[r].loop # 0
            /\ loops' = [loops EXCEPT ![runs[r].loop].step = "ended"]
            /\ bulk' = [bulk EXCEPT !.progress = FALSE]
  PROVE  /\ RunsTyped' /\ QueuesSound'
         /\ DOMAIN runs' = DOMAIN runs /\ runs'[r] = Over
         /\ \A q \in DOMAIN runs : q # r => runs'[q] = runs[q]
<1>1. runs[r] # Over
  BY DEF Over
<1>2. /\ DOMAIN runs' = DOMAIN runs /\ Len(runs') = Len(runs) /\ runs'[r] = Over
      /\ \A q \in DOMAIN runs : q # r => runs'[q] = runs[q]
      /\ runs' \in Seq(RunState \cup {Over})
  BY DEF RunsTyped
<1>3. OneBulkRun'
  BY <1>2 DEF QueuesSound, OneBulkRun
<1>4. CASE runs[r].loop = 0 /\ UNCHANGED <<loops, bulk>>
  <2>1. RunsTyped'
    BY <1>2, <1>4 DEF RunsTyped
  <2>2. QueuesSound'
    BY <1>2, <1>3, <1>4 DEF QueuesSound
  <2>. QED
    BY <1>2, <2>1, <2>2
<1>5. ASSUME NEW L \in LoopState, NEW l, l = runs[r].loop, l # 0,
             loops' = [loops EXCEPT ![l] = L], L.step # "wait",
             \/ L.step # "ended" /\ UNCHANGED bulk
             \/ L.step = "ended" /\ bulk' = [bulk EXCEPT !.progress = FALSE]
      PROVE  RunsTyped' /\ QueuesSound'
  <2>1. /\ l \in DOMAIN loops /\ loops[l].step = "run" /\ l = Len(loops) /\ bulk.progress
    BY <1>1, <1>5 DEF QueuesSound
  <2>2. /\ DOMAIN loops' = DOMAIN loops /\ Len(loops') = Len(loops) /\ loops'[l] = L
        /\ \A k \in DOMAIN loops : k # l => loops'[k] = loops[k]
        /\ loops' \in Seq(LoopState)
    BY <1>5, <2>1 DEF RunsTyped
  <2>3. bulk' \in [progress: BOOLEAN, cancel: BOOLEAN]
    BY <1>5 DEF RunsTyped
  <2>4. RunsTyped'
    BY <1>2, <2>2, <2>3 DEF RunsTyped
  <2>5. ASSUME NEW k \in DOMAIN loops'
        PROVE  /\ loops'[k].step # "ended" => k = Len(loops') /\ bulk'.progress
               /\ loops'[k].step = "wait" => loops'[k].todo # <<>>
    <3>1. CASE k = l
      BY <1>5, <2>1, <2>2, <3>1 DEF RunsTyped
    <3>2. CASE k # l
      BY <2>1, <2>2, <3>2 DEF QueuesSound
    <3>. QED
      BY <3>1, <3>2
  <2>6. ASSUME NEW q \in DOMAIN runs', runs'[q] # Over, runs'[q].loop # 0
        PROVE  /\ runs'[q].loop \in DOMAIN loops' /\ loops'[runs'[q].loop].step = "run"
               /\ runs'[q].step # "list"
    <3>1. q # r /\ runs'[q] = runs[q] /\ q \in DOMAIN runs
      BY <1>2, <2>6
    <3>2. q = r
      BY <1>1, <1>5, <2>6, <3>1 DEF QueuesSound, OneBulkRun
    <3>. QED
      BY <3>1, <3>2
  <2>. QED
    BY <1>3, <2>4, <2>5, <2>6 DEF QueuesSound
<1>6. CASE /\ runs[r].loop # 0
           /\ loops' = [loops EXCEPT ![runs[r].loop].step = "next"]
           /\ UNCHANGED bulk
  <2>1. runs[r].loop \in DOMAIN loops
    BY <1>1, <1>6 DEF QueuesSound
  <2>2. PICK L \in LoopState : L = [loops[runs[r].loop] EXCEPT !.step = "next"]
    <3>1. loops[runs[r].loop] \in LoopState
      BY <2>1 DEF RunsTyped
    <3>. QED
      BY <3>1 DEF LoopState
  <2>3. L.step = "next"
    BY <2>1, <2>2 DEF RunsTyped, LoopState
  <2>4. loops' = [loops EXCEPT ![runs[r].loop] = L]
    BY <1>6, <2>2
  <2>. QED
    BY <1>2, <1>5, <1>6, <2>3, <2>4
<1>7. CASE /\ runs[r].loop # 0
           /\ loops' = [loops EXCEPT ![runs[r].loop].step = "ended"]
           /\ bulk' = [bulk EXCEPT !.progress = FALSE]
  <2>1. runs[r].loop \in DOMAIN loops
    BY <1>1, <1>7 DEF QueuesSound
  <2>2. PICK L \in LoopState : L = [loops[runs[r].loop] EXCEPT !.step = "ended"]
    <3>1. loops[runs[r].loop] \in LoopState
      BY <2>1 DEF RunsTyped
    <3>. QED
      BY <3>1 DEF LoopState
  <2>3. L.step = "ended"
    BY <2>1, <2>2 DEF RunsTyped, LoopState
  <2>4. loops' = [loops EXCEPT ![runs[r].loop] = L]
    BY <1>7, <2>2
  <2>. QED
    BY <1>2, <1>5, <1>7, <2>3, <2>4
<1>. QED
  BY <1>4, <1>6, <1>7

\* A run starts in its first step: of the explorer, or of the queue that waits for it and has
\* no other run under way.
LEMMA RunStarts ==
  ASSUME RunsTyped, NEW target \in Target, NEW loop \in 0..MaxLoops, NEW chain \in 1..MaxModels,
         StartRun(target, loop, chain)
  PROVE  \E R \in RunState :
           /\ R.loop = loop /\ R.step = "summary"
           /\ runs' = Append(runs, R)
           /\ runs' \in Seq(RunState \cup {Over}) /\ Len(runs') <= MaxRuns
           /\ DOMAIN runs' = DOMAIN runs \cup {Len(runs) + 1}
           /\ Len(runs) + 1 \notin DOMAIN runs
           /\ \A r \in DOMAIN runs : runs'[r] = runs[r]
           /\ runs'[Len(runs) + 1] = R
<1>. DEFINE R == [step |-> "summary", target |-> target, loop |-> loop,
                  models |-> chain, found |-> FALSE, named |-> FALSE]
<1>1. runs' = Append(runs, R) /\ Len(runs) < MaxRuns
  BY DEF StartRun
<1>2. chain \in 0..MaxModels
  BY AnalysisAssumption
<1>3. R \in RunState
  BY <1>2 DEF RunState
<1>4. R.loop = loop /\ R.step = "summary"
  OBVIOUS
<1>. HIDE DEF R
<1>. QED
  BY <1>1, <1>3, <1>4, AnalysisAssumption DEF RunsTyped

\* The models to try are one or all of the list.
LEMMA ChainIs == Chain \subseteq 1..MaxModels
  BY AnalysisAssumption DEF Chain

\* A step that leaves the runs, or appends one in its first step, leaves the items sound.
LEMMA ItemsAppend ==
  ASSUME ItemsSound, UNCHANGED <<items, blobs, searches, revived>>,
         DOMAIN runs \subseteq DOMAIN runs', \A r \in DOMAIN runs : runs'[r] = runs[r]
  PROVE  ItemsSound'
<1>1. \A i \in DOMAIN items : runs'[i].step \notin Early
  BY DEF ItemsSound
<1>. QED
  BY <1>1, ItemsKeep

\* The explorer starts a run of no queue.
LEMMA ExploreStep ==
  ASSUME AnalysisInv, NEW d \in Disc, Explore(d)
  PROVE  AnalysisInv'
<1>1. RunsTyped /\ QueuesSound /\ ItemsSound /\ discs \in [Disc -> DiscRow]
  BY DEF AnalysisInv
<1>2. TargetOf(d) \in Target
  BY <1>1 DEF TargetOf, Target, DiscRow
<1>3. PICK chain \in 1..MaxModels : StartRun(TargetOf(d), 0, chain)
  BY ChainIs DEF Explore
<1>4. 0 \in 0..MaxLoops
  BY AnalysisAssumption
<1>5. PICK R \in RunState :
           /\ R.loop = 0 /\ R.step = "summary"
           /\ runs' \in Seq(RunState \cup {Over}) /\ Len(runs') <= MaxRuns
           /\ DOMAIN runs' = DOMAIN runs \cup {Len(runs) + 1}
           /\ Len(runs) + 1 \notin DOMAIN runs
           /\ \A r \in DOMAIN runs : runs'[r] = runs[r]
           /\ runs'[Len(runs) + 1] = R
  BY <1>1, <1>2, <1>3, <1>4, RunStarts
<1>6. UNCHANGED <<discs, items, blobs, searches, loops, bulk, revived>>
  BY DEF Explore
<1>7. RunsTyped'
  BY <1>1, <1>5, <1>6 DEF RunsTyped
<1>8. OneBulkRun'
  BY <1>1, <1>5 DEF QueuesSound, OneBulkRun
<1>9. QueuesSound'
  BY <1>1, <1>5, <1>6, <1>8 DEF QueuesSound
<1>10. ItemsSound'
  BY <1>1, <1>5, <1>6, ItemsAppend
<1>. QED
  BY <1>1, <1>6, <1>7, <1>9, <1>10 DEF AnalysisInv

\* The list of a queue: the targets of some discs, as far as the batch goes.
LEMMA BatchIs ==
  ASSUME discs \in [Disc -> DiscRow], NEW fresh \in SUBSET Disc, fresh # {}
  PROVE  LET all == Kept([d \in Disc |-> d], fresh)
             batch == [i \in 1..(IF Len(all) < MaxBatch THEN Len(all) ELSE MaxBatch)
                         |-> TargetOf(all[i])]
         IN Head(batch) \in Target /\ Tail(batch) \in Seq(Target)
<1>. DEFINE line == [d \in Disc |-> d]
            all == Kept(line, fresh)
            n == IF Len(all) < MaxBatch THEN Len(all) ELSE MaxBatch
            batch == [i \in 1..n |-> TargetOf(all[i])]
<1>1. Cardinality(Disc) \in Nat /\ Disc = 1..Cardinality(Disc)
  BY AnalysisAssumption, FS_CardinalityType
<1>2. line \in Seq(Disc) /\ fresh \subseteq DOMAIN line
  BY <1>1
<1>. HIDE DEF line
<1>3. all \in Seq(Disc) /\ Len(all) = Cardinality(fresh) /\ Cardinality(fresh) \in Nat
  BY <1>2, KeptOf
<1>4. Cardinality(fresh) # 0
  BY AnalysisAssumption, FS_Subset, FS_EmptySet
<1>. HIDE DEF all
<1>5. n \in Nat /\ n > 0 /\ n <= Len(all)
  BY <1>3, <1>4, AnalysisAssumption
<1>. HIDE DEF n
<1>6. ASSUME NEW i \in 1..n PROVE TargetOf(all[i]) \in Target
  <2>1. all[i] \in Disc
    BY <1>3, <1>5
  <2>. QED
    BY <2>1 DEF TargetOf, Target, DiscRow
<1>7. batch \in Seq(Target) /\ batch # <<>>
  BY <1>5, <1>6
<1>. HIDE DEF batch
<1>8. Head(batch) \in Target /\ Tail(batch) \in Seq(Target)
  BY <1>7
<1>. QED
  BY <1>8 DEF batch, n, all, line

\* A queue starts when none is under way.
LEMMA StartBulkStep == AnalysisInv /\ StartBulkAnalyze => AnalysisInv'
<1>. SUFFICES ASSUME AnalysisInv, StartBulkAnalyze PROVE AnalysisInv'
  OBVIOUS
<1>1. RunsTyped /\ QueuesSound /\ ItemsSound /\ discs \in [Disc -> DiscRow]
  BY DEF AnalysisInv
<1>2. ~bulk.progress /\ Len(loops) < MaxLoops /\ bulk' = [progress |-> TRUE, cancel |-> FALSE]
      /\ UNCHANGED <<discs, items, blobs, searches, revived>>
  BY DEF StartBulkAnalyze
<1>3. \E fresh \in SUBSET Disc : \E chain \in Chain :
        LET all == Kept([d \in Disc |-> d], fresh)
            batch == [i \in 1..(IF Len(all) < MaxBatch THEN Len(all) ELSE MaxBatch)
                        |-> TargetOf(all[i])]
        IN /\ fresh # {}
           /\ StartRun(Head(batch), Len(loops) + 1, chain)
           /\ loops' = Append(loops, [step |-> "run", todo |-> Tail(batch), models |-> chain])
  BY DEF StartBulkAnalyze
<1>4. \E chain \in Chain : \E first \in Target : \E rest \in Seq(Target) :
        /\ StartRun(first, Len(loops) + 1, chain)
        /\ loops' = Append(loops, [step |-> "run", todo |-> rest, models |-> chain])
  <2>1. PICK fresh \in SUBSET Disc : \E chain \in Chain :
        LET all == Kept([d \in Disc |-> d], fresh)
            batch == [i \in 1..(IF Len(all) < MaxBatch THEN Len(all) ELSE MaxBatch)
                        |-> TargetOf(all[i])]
        IN /\ fresh # {}
           /\ StartRun(Head(batch), Len(loops) + 1, chain)
           /\ loops' = Append(loops, [step |-> "run", todo |-> Tail(batch), models |-> chain])
    BY <1>3
  <2>. DEFINE all == Kept([d \in Disc |-> d], fresh)
              batch == [i \in 1..(IF Len(all) < MaxBatch THEN Len(all) ELSE MaxBatch)
                          |-> TargetOf(all[i])]
  <2>2. fresh # {}
    BY <2>1
  <2>3. Head(batch) \in Target /\ Tail(batch) \in Seq(Target)
    BY <1>1, <2>2, BatchIs
  <2>4. PICK chain \in Chain :
           /\ StartRun(Head(batch), Len(loops) + 1, chain)
           /\ loops' = Append(loops, [step |-> "run", todo |-> Tail(batch), models |-> chain])
    BY <2>1
  <2>. HIDE DEF batch
  <2>. QED
    BY <2>3, <2>4
<1>5. PICK chain \in 1..MaxModels, first \in Target, rest \in Seq(Target) :
        /\ StartRun(first, Len(loops) + 1, chain)
        /\ loops' = Append(loops, [step |-> "run", todo |-> rest, models |-> chain])
  BY <1>4, ChainIs
<1>. DEFINE l == Len(loops) + 1
<1>6. l \in 0..MaxLoops /\ l # 0 /\ l \notin DOMAIN loops
  BY <1>1, <1>2, AnalysisAssumption DEF RunsTyped
<1>7. PICK R \in RunState :
           /\ R.loop = l /\ R.step = "summary"
           /\ runs' \in Seq(RunState \cup {Over}) /\ Len(runs') <= MaxRuns
           /\ DOMAIN runs' = DOMAIN runs \cup {Len(runs) + 1}
           /\ Len(runs) + 1 \notin DOMAIN runs
           /\ \A r \in DOMAIN runs : runs'[r] = runs[r]
           /\ runs'[Len(runs) + 1] = R
  BY <1>1, <1>5, <1>6, RunStarts
<1>8. PICK L \in LoopState : L.step = "run" /\ loops' = Append(loops, L)
  BY <1>5 DEF LoopState
<1>9. /\ loops' \in Seq(LoopState) /\ Len(loops') = l
      /\ DOMAIN loops' = DOMAIN loops \cup {l}
      /\ \A k \in DOMAIN loops : loops'[k] = loops[k]
      /\ loops'[l] = L
  BY <1>1, <1>8 DEF RunsTyped
<1>. HIDE DEF l
<1>10. RunsTyped'
  <2>1. l <= MaxLoops
    BY <1>6, AnalysisAssumption
  <2>. QED
    BY <1>2, <1>7, <1>9, <2>1 DEF RunsTyped
<1>11. \A r \in DOMAIN runs : runs[r] = Over \/ runs[r].loop = 0
  BY <1>1, <1>2 DEF QueuesSound
<1>12. OneBulkRun'
  BY <1>7, <1>11 DEF OneBulkRun
<1>13. \A k \in DOMAIN loops : loops[k].step = "ended"
  BY <1>1, <1>2 DEF QueuesSound
<1>14. QueuesSound'
  <2>1. ASSUME NEW k \in DOMAIN loops'
        PROVE  /\ loops'[k].step # "ended" => k = Len(loops') /\ bulk'.progress
               /\ loops'[k].step = "wait" => loops'[k].todo # <<>>
    BY <1>2, <1>8, <1>9, <1>13
  <2>2. ASSUME NEW q \in DOMAIN runs', runs'[q] # Over, runs'[q].loop # 0
        PROVE  /\ runs'[q].loop \in DOMAIN loops' /\ loops'[runs'[q].loop].step = "run"
               /\ runs'[q].step # "list"
    BY <1>7, <1>8, <1>9, <1>11, <2>2
  <2>. QED
    BY <1>12, <2>1, <2>2 DEF QueuesSound
<1>15. ItemsSound'
  BY <1>1, <1>2, <1>7, ItemsAppend
<1>. QED
  BY <1>1, <1>2, <1>10, <1>14, <1>15 DEF AnalysisInv

\* A queue that waits, or comes from a run, has no run under way.
LEMMA QueueGoesOn ==
  ASSUME RunsTyped, QueuesSound, NEW l \in DOMAIN loops, loops[l].step \in {"next", "wait"},
         NEW L \in LoopState, loops' = [loops EXCEPT ![l] = L], UNCHANGED runs,
         \/ L.step = "ended" /\ bulk' = [bulk EXCEPT !.progress = FALSE]
         \/ L.step = "wait" /\ L.todo # <<>> /\ UNCHANGED bulk
  PROVE  RunsTyped' /\ QueuesSound'
<1>1. /\ DOMAIN loops' = DOMAIN loops /\ Len(loops') = Len(loops) /\ loops'[l] = L
      /\ \A k \in DOMAIN loops : k # l => loops'[k] = loops[k]
      /\ loops' \in Seq(LoopState)
  BY DEF RunsTyped
<1>2. bulk' \in [progress: BOOLEAN, cancel: BOOLEAN]
  BY DEF RunsTyped
<1>3. RunsTyped'
  BY <1>1, <1>2 DEF RunsTyped
<1>4. l = Len(loops) /\ bulk.progress
  BY DEF QueuesSound
<1>5. \A k \in DOMAIN loops : k # l => loops[k].step = "ended"
  BY <1>4 DEF QueuesSound
<1>6. ASSUME NEW k \in DOMAIN loops'
      PROVE  /\ loops'[k].step # "ended" => k = Len(loops') /\ bulk'.progress
             /\ loops'[k].step = "wait" => loops'[k].todo # <<>>
  BY <1>1, <1>4, <1>5
<1>7. ASSUME NEW q \in DOMAIN runs', runs'[q] # Over, runs'[q].loop # 0
      PROVE  /\ runs'[q].loop \in DOMAIN loops' /\ loops'[runs'[q].loop].step = "run"
             /\ runs'[q].step # "list"
  BY <1>1, <1>7 DEF QueuesSound
<1>8. OneBulkRun'
  BY DEF QueuesSound, OneBulkRun
<1>. QED
  BY <1>3, <1>6, <1>7, <1>8 DEF QueuesSound

\* The steps of a queue between two runs.
LEMMA QueueSteps ==
  ASSUME AnalysisInv, NEW l \in DOMAIN loops, LoopNext(l) \/ LoopWakes(l)
  PROVE  AnalysisInv'
<1>1. /\ RunsTyped /\ QueuesSound /\ ItemsSound /\ discs \in [Disc -> DiscRow]
      /\ UNCHANGED <<discs, items, blobs, searches, revived>>
  BY DEF AnalysisInv, LoopNext, LoopWakes
<1>2. loops[l] \in LoopState /\ loops[l].todo \in Seq(Target) /\ loops[l].models \in 1..MaxModels
  <2>1. loops[l] \in LoopState
    BY <1>1 DEF RunsTyped
  <2>. QED
    BY <2>1 DEF LoopState
<1>3. CASE loops[l].step \in {"next", "wait"} /\ EndLoop(l) /\ UNCHANGED runs
  <2>1. PICK L \in LoopState : L = [loops[l] EXCEPT !.step = "ended"]
    BY <1>2 DEF LoopState
  <2>2. L.step = "ended"
    BY <1>2, <2>1 DEF LoopState
  <2>3. loops' = [loops EXCEPT ![l] = L] /\ bulk' = [bulk EXCEPT !.progress = FALSE]
    BY <1>3, <2>1 DEF EndLoop
  <2>4. RunsTyped' /\ QueuesSound'
    BY <1>1, <1>3, <2>2, <2>3, QueueGoesOn
  <2>5. ItemsSound'
    BY <1>1, <1>3, ItemsAppend
  <2>. QED
    BY <1>1, <2>4, <2>5 DEF AnalysisInv
<1>4. CASE /\ loops[l].step = "next" /\ loops[l].todo # <<>>
           /\ loops' = [loops EXCEPT ![l].step = "wait"] /\ UNCHANGED <<runs, bulk>>
  <2>1. PICK L \in LoopState : L = [loops[l] EXCEPT !.step = "wait"]
    BY <1>2 DEF LoopState
  <2>2. L.step = "wait" /\ L.todo # <<>>
    BY <1>2, <1>4, <2>1 DEF LoopState
  <2>3. loops' = [loops EXCEPT ![l] = L]
    BY <1>4, <2>1
  <2>4. RunsTyped' /\ QueuesSound'
    BY <1>1, <1>4, <2>2, <2>3, QueueGoesOn
  <2>5. ItemsSound'
    BY <1>1, <1>4, ItemsAppend
  <2>. QED
    BY <1>1, <2>4, <2>5 DEF AnalysisInv
<1>5. CASE /\ loops[l].step = "wait"
           /\ StartRun(Head(loops[l].todo), l, loops[l].models)
           /\ loops' = [loops EXCEPT ![l].step = "run", ![l].todo = Tail(@)]
           /\ UNCHANGED bulk
  <2>1. /\ l = Len(loops) /\ bulk.progress /\ loops[l].todo # <<>>
        /\ \A k \in DOMAIN loops : k # l => loops[k].step = "ended"
    BY <1>1, <1>5 DEF QueuesSound
  <2>2. Head(loops[l].todo) \in Target /\ Tail(loops[l].todo) \in Seq(Target)
    BY <1>2, <2>1
  <2>3. l \in 0..MaxLoops /\ l # 0
    BY <1>1, AnalysisAssumption DEF RunsTyped
  <2>4. PICK R \in RunState :
           /\ R.loop = l /\ R.step = "summary"
           /\ runs' \in Seq(RunState \cup {Over}) /\ Len(runs') <= MaxRuns
           /\ DOMAIN runs' = DOMAIN runs \cup {Len(runs) + 1}
           /\ Len(runs) + 1 \notin DOMAIN runs
           /\ \A r \in DOMAIN runs : runs'[r] = runs[r]
           /\ runs'[Len(runs) + 1] = R
    BY <1>1, <1>2, <1>5, <2>2, <2>3, RunStarts
  <2>5. PICK todo \in Seq(Target) : todo = Tail(loops[l].todo)
    BY <2>2
  <2>6. PICK L \in LoopState : L = [loops[l] EXCEPT !.step = "run", !.todo = todo]
    BY <1>2 DEF LoopState
  <2>7. L.step = "run"
    BY <1>2, <2>6 DEF LoopState
  <2>8. loops' = [loops EXCEPT ![l] = L]
    BY <1>5, <2>5, <2>6
  <2>9. /\ DOMAIN loops' = DOMAIN loops /\ Len(loops') = Len(loops) /\ loops'[l] = L
        /\ \A k \in DOMAIN loops : k # l => loops'[k] = loops[k]
        /\ loops' \in Seq(LoopState)
    BY <1>1, <2>8 DEF RunsTyped
  <2>10. RunsTyped'
    BY <1>1, <1>5, <2>4, <2>9 DEF RunsTyped
  <2>11. \A r \in DOMAIN runs : runs[r] = Over \/ runs[r].loop = 0
    BY <1>1, <1>5, <2>1 DEF QueuesSound
  <2>12. OneBulkRun'
    BY <2>4, <2>11 DEF OneBulkRun
  <2>13. ASSUME NEW k \in DOMAIN loops'
         PROVE  /\ loops'[k].step # "ended" => k = Len(loops') /\ bulk'.progress
                /\ loops'[k].step = "wait" => loops'[k].todo # <<>>
    BY <1>5, <2>1, <2>7, <2>9
  <2>14. ASSUME NEW q \in DOMAIN runs', runs'[q] # Over, runs'[q].loop # 0
         PROVE  /\ runs'[q].loop \in DOMAIN loops' /\ loops'[runs'[q].loop].step = "run"
                /\ runs'[q].step # "list"
    BY <2>4, <2>7, <2>9, <2>11, <2>14
  <2>15. QueuesSound'
    BY <2>12, <2>13, <2>14 DEF QueuesSound
  <2>16. ItemsSound'
    BY <1>1, <2>4, ItemsAppend
  <2>. QED
    BY <1>1, <2>10, <2>15, <2>16 DEF AnalysisInv
<1>. QED
  BY <1>3, <1>4, <1>5 DEF LoopNext, LoopWakes

\* The user cancels.
LEMMA CancelStep == AnalysisInv /\ CancelBulkAnalyze => AnalysisInv'
<1>. SUFFICES ASSUME AnalysisInv, CancelBulkAnalyze PROVE AnalysisInv'
  OBVIOUS
<1>1. /\ RunsTyped /\ QueuesSound /\ ItemsSound /\ discs \in [Disc -> DiscRow]
      /\ UNCHANGED <<discs, items, blobs, runs, searches, loops, revived>>
      /\ bulk' = [bulk EXCEPT !.cancel = TRUE]
  BY DEF AnalysisInv, CancelBulkAnalyze, Cancelled
<1>2. bulk' \in [progress: BOOLEAN, cancel: BOOLEAN] /\ bulk'.progress = bulk.progress
  BY <1>1 DEF RunsTyped
<1>3. RunsTyped' /\ QueuesSound'
  BY <1>1, <1>2 DEF RunsTyped, QueuesSound, OneBulkRun
<1>4. ItemsSound'
  BY <1>1, ItemsAppend
<1>. QED
  BY <1>1, <1>3, <1>4 DEF AnalysisInv

\* The end of an analysis, or of the run that fails.
LEMMA RunFinishes ==
  ASSUME RunsTyped, QueuesSound, NEW r \in DOMAIN runs, runs[r].step # "over",
         (Finish(r) /\ UNCHANGED bulk) \/ Fail(r)
  PROVE  /\ RunsTyped' /\ QueuesSound'
         /\ DOMAIN runs' = DOMAIN runs /\ runs'[r].step \notin Early
         /\ \A q \in DOMAIN runs : q # r => runs'[q] = runs[q]
<1>1. runs[r] \in RunState
  BY RunIs
<1>2. CASE runs[r].loop = 0 /\ Goto(r, "list") /\ UNCHANGED <<loops, bulk>>
  <2>1. PICK R \in RunState : R = [runs[r] EXCEPT !.step = "list"]
    BY <1>1 DEF RunState
  <2>2. R.step = "list" /\ R.loop = runs[r].loop
    BY <1>1, <2>1 DEF RunState
  <2>3. runs' = [runs EXCEPT ![r] = R]
    BY <1>2, <2>1 DEF Goto
  <2>4. /\ RunsTyped' /\ QueuesSound'
        /\ DOMAIN runs' = DOMAIN runs /\ runs'[r] = R
        /\ \A q \in DOMAIN runs : q # r => runs'[q] = runs[q]
    BY <1>2, <2>2, <2>3, RunGoesOn
  <2>. QED
    BY <2>2, <2>4 DEF Early
<1>3. CASE /\ runs' = [runs EXCEPT ![r] = Over]
           /\ \/ runs[r].loop = 0 /\ UNCHANGED <<loops, bulk>>
              \/ /\ runs[r].loop # 0
                 /\ loops' = [loops EXCEPT ![runs[r].loop].step = "next"]
                 /\ UNCHANGED bulk
              \/ /\ runs[r].loop # 0
                 /\ loops' = [loops EXCEPT ![runs[r].loop].step = "ended"]
                 /\ bulk' = [bulk EXCEPT !.progress = FALSE]
  <2>1. /\ RunsTyped' /\ QueuesSound'
        /\ DOMAIN runs' = DOMAIN runs /\ runs'[r] = Over
        /\ \A q \in DOMAIN runs : q # r => runs'[q] = runs[q]
    BY <1>3, RunEnds
  <2>. QED
    BY <2>1 DEF Over, Early
<1>. QED
  BY <1>2, <1>3 DEF Finish, Fail, End, EndLoop

\* The steps of a run that leave the items and what is looked up for them.
LEMMA PlainRunSteps ==
  ASSUME AnalysisInv, NEW r \in DOMAIN runs,
         \/ Summarise(r) \/ ModelFails(r) \/ ModelAnswers(r)
         \/ SaveDiscAiRaw(r) \/ SetDiscTitle(r) \/ RunFails(r)
  PROVE  AnalysisInv'
<1>1. /\ RunsTyped /\ QueuesSound /\ ItemsSound /\ discs \in [Disc -> DiscRow]
      /\ UNCHANGED <<items, blobs, searches, revived>>
  BY DEF AnalysisInv, Summarise, ModelFails, ModelAnswers, SaveDiscAiRaw, SetDiscTitle, RunFails
<1>2. runs[r].step # "over"
  BY DEF Summarise, ModelFails, ModelAnswers, SaveDiscAiRaw, SetDiscTitle, RunFails, At
<1>3. /\ runs[r] \in RunState /\ DiscOf(r) \in Disc
      /\ runs[r].loop \in 0..MaxLoops /\ runs[r].models \in 0..MaxModels
  BY <1>1, <1>2, RunIs
<1>4. discs' \in [Disc -> DiscRow]
  <2>1. CASE UNCHANGED discs
    BY <1>1, <2>1
  <2>2. CASE discs' = [discs EXCEPT ![DiscOf(r)].live = TRUE]
    BY <1>1, <1>3, <2>2 DEF DiscRow
  <2>3. CASE discs' = [discs EXCEPT ![DiscOf(r)] = [live |-> TRUE, titled |-> TRUE]]
    BY <1>1, <1>3, <2>3 DEF DiscRow
  <2>. QED
    BY <2>1, <2>2, <2>3
    DEF Summarise, ModelFails, ModelAnswers, SaveDiscAiRaw, SetDiscTitle, RunFails
<1>5. ASSUME DOMAIN runs' = DOMAIN runs,
             runs'[r].step \notin Early \/ runs[r].step \in Early,
             \A q \in DOMAIN runs : q # r => runs'[q] = runs[q]
      PROVE  ItemsSound'
  <2>1. \A i \in DOMAIN items : runs'[i].step \notin Early
    BY <1>1, <1>5 DEF ItemsSound
  <2>. QED
    BY <1>1, <1>5, <2>1, ItemsKeep
<1>6. CASE (Finish(r) /\ UNCHANGED bulk) \/ Fail(r)
  <2>1. /\ RunsTyped' /\ QueuesSound'
        /\ DOMAIN runs' = DOMAIN runs /\ runs'[r].step \notin Early
        /\ \A q \in DOMAIN runs : q # r => runs'[q] = runs[q]
    BY <1>1, <1>2, <1>6, RunFinishes
  <2>. QED
    BY <1>4, <1>5, <2>1 DEF AnalysisInv
<1>7. ASSUME NEW R \in RunState, R.loop = runs[r].loop, R.step # "list",
             runs' = [runs EXCEPT ![r] = R], UNCHANGED <<loops, bulk>>,
             runs[r].step \in Early
      PROVE  AnalysisInv'
  <2>1. /\ RunsTyped' /\ QueuesSound'
        /\ DOMAIN runs' = DOMAIN runs
        /\ \A q \in DOMAIN runs : q # r => runs'[q] = runs[q]
    BY <1>1, <1>2, <1>7, RunGoesOn
  <2>. QED
    BY <1>4, <1>5, <1>7, <2>1 DEF AnalysisInv
<1>8. ASSUME NEW step \in {"ask", "items"}, Goto(r, step), UNCHANGED <<loops, bulk>>,
             runs[r].step \in Early
      PROVE  AnalysisInv'
  <2>1. PICK R \in RunState : R = [runs[r] EXCEPT !.step = step]
    BY <1>3 DEF RunState
  <2>2. R.step = step /\ R.loop = runs[r].loop
    BY <1>3, <2>1 DEF RunState
  <2>3. runs' = [runs EXCEPT ![r] = R]
    BY <1>8, <2>1 DEF Goto
  <2>. QED
    BY <1>7, <1>8, <2>2, <2>3
<1>9. CASE At(r, "ask") /\ runs[r].models > 1 /\ runs' = [runs EXCEPT ![r].models = @ - 1]
           /\ UNCHANGED <<loops, bulk>>
  <2>1. runs[r].models - 1 \in 0..MaxModels
    BY <1>3, <1>9, AnalysisAssumption
  <2>2. PICK m \in 0..MaxModels : m = runs[r].models - 1
    BY <2>1
  <2>3. PICK R \in RunState : R = [runs[r] EXCEPT !.models = m]
    BY <1>3 DEF RunState
  <2>4. R.step = "ask" /\ R.loop = runs[r].loop
    BY <1>3, <1>9, <2>3 DEF RunState, At
  <2>5. runs' = [runs EXCEPT ![r] = R]
    BY <1>9, <2>2, <2>3
  <2>. QED
    BY <1>7, <1>9, <2>4, <2>5 DEF At, Early
<1>10. CASE ModelAnswers(r)
  <2>1. PICK found \in BOOLEAN, named \in BOOLEAN :
          runs' = [runs EXCEPT ![r].step = "raw", ![r].models = 0,
                               ![r].found = found, ![r].named = named]
    BY <1>10 DEF ModelAnswers
  <2>2. PICK R \in RunState :
          R = [runs[r] EXCEPT !.step = "raw", !.models = 0, !.found = found, !.named = named]
    <3>1. 0 \in 0..MaxModels
      BY AnalysisAssumption
    <3>. QED
      BY <1>3, <3>1 DEF RunState
  <2>3. R.step = "raw" /\ R.loop = runs[r].loop
    BY <1>3, <2>2 DEF RunState
  <2>4. runs' = [runs EXCEPT ![r] = R]
    BY <2>1, <2>2
  <2>. QED
    BY <1>7, <1>10, <2>3, <2>4 DEF ModelAnswers, At, Early
<1>11. CASE Summarise(r)
  BY <1>6, <1>8, <1>11 DEF Summarise, At, Early
<1>12. CASE ModelFails(r)
  BY <1>6, <1>9, <1>12 DEF ModelFails
<1>13. CASE SaveDiscAiRaw(r)
  BY <1>8, <1>13 DEF SaveDiscAiRaw, At, Early
<1>14. CASE SetDiscTitle(r) \/ RunFails(r)
  BY <1>6, <1>14 DEF SetDiscTitle, RunFails
<1>. QED
  BY <1>10, <1>11, <1>12, <1>13, <1>14

\* What removing items does: the rows stay, and no other comes to life.
LEMMA RemovedIs ==
  ASSUME ItemsSound, NEW set
  PROVE  /\ DOMAIN Removed(set) = DOMAIN items
         /\ Removed(set) = [i \in DOMAIN Removed(set) |-> Removed(set)[i]]
         /\ \A i \in DOMAIN items :
              /\ Removed(set)[i] \in Item /\ Removed(set)[i].disc = items[i].disc
              /\ Removed(set)[i].live <=> items[i].live /\ i \notin set
<1>1. DOMAIN Removed(set) = DOMAIN items
      /\ Removed(set) = [i \in DOMAIN Removed(set) |-> Removed(set)[i]]
  BY DEF Removed
<1>2. ASSUME NEW i \in DOMAIN items
      PROVE  /\ Removed(set)[i] \in Item /\ Removed(set)[i].disc = items[i].disc
             /\ Removed(set)[i].live <=> items[i].live /\ i \notin set
  <2>1. items[i] \in Item
    BY DEF ItemsSound
  <2>2. CASE i \in set
    BY <2>1, <2>2 DEF Removed, Item
  <2>3. CASE i \notin set
    BY <2>1, <2>3 DEF Removed, Item
  <2>. QED
    BY <2>2, <2>3
<1>. QED
  BY <1>1, <1>2

\* Removing items, with their pictures, leaves the items sound.
LEMMA RemovalKeeps ==
  ASSUME ItemsSound, NEW set, items' = Removed(set), UNCHANGED <<runs, searches, revived>>,
         blobs' \subseteq blobs
  PROVE  ItemsSound'
<1>1. /\ DOMAIN items' = DOMAIN items
      /\ items' = [i \in DOMAIN items' |-> items'[i]]
      /\ \A i \in DOMAIN items :
           /\ items'[i] \in Item /\ items'[i].disc = items[i].disc
           /\ items'[i].live => items[i].live
  BY RemovedIs
<1>2. ItemsOfLastRun'
  BY <1>1 DEF ItemsSound, ItemsOfLastRun
<1>. QED
  BY <1>1, <1>2 DEF ItemsSound

\* The answer's item replaces those of the disc: the run has stored none before.
LEMMA ApplyStep ==
  ASSUME AnalysisInv, NEW r \in DOMAIN runs, ApplyDiscItems(r)
  PROVE  AnalysisInv'
<1>. DEFINE d == DiscOf(r)
            rest == ItemsReplaced(d)
<1>1. /\ RunsTyped /\ QueuesSound /\ ItemsSound /\ discs \in [Disc -> DiscRow]
      /\ runs[r].step = "items"
      /\ items' = IF runs[r].found THEN WithItem(rest, r, d) ELSE rest
      /\ blobs' = blobs \ LiveItems(d)
      /\ UNCHANGED <<discs, searches, bulk, revived>>
  BY DEF AnalysisInv, ApplyDiscItems, At
<1>2. runs[r] \in RunState /\ d \in Disc
  BY <1>1, RunIs
<1>3. /\ RunsTyped' /\ QueuesSound'
      /\ DOMAIN runs' = DOMAIN runs /\ runs'[r].step \notin Early
      /\ \A q \in DOMAIN runs : q # r => runs'[q] = runs[q]
  <2>1. CASE Goto(r, "title") /\ UNCHANGED loops
    <3>1. PICK R \in RunState : R = [runs[r] EXCEPT !.step = "title"]
      BY <1>2 DEF RunState
    <3>2. R.step = "title" /\ R.loop = runs[r].loop
      BY <1>2, <3>1 DEF RunState
    <3>3. runs' = [runs EXCEPT ![r] = R]
      BY <2>1, <3>1 DEF Goto
    <3>4. /\ RunsTyped' /\ QueuesSound'
          /\ DOMAIN runs' = DOMAIN runs /\ runs'[r] = R
          /\ \A q \in DOMAIN runs : q # r => runs'[q] = runs[q]
      BY <1>1, <2>1, <3>2, <3>3, RunGoesOn
    <3>. QED
      BY <3>2, <3>4 DEF Early
  <2>2. CASE Finish(r)
    BY <1>1, <2>2, RunFinishes
  <2>. QED
    BY <2>1, <2>2 DEF ApplyDiscItems
<1>4. r \notin DOMAIN items
  BY <1>1 DEF ItemsSound, Early
<1>5. /\ DOMAIN rest = DOMAIN items
      /\ rest = [i \in DOMAIN rest |-> rest[i]]
      /\ \A i \in DOMAIN items :
           /\ rest[i] \in Item /\ rest[i].disc = items[i].disc
           /\ rest[i].live <=> items[i].live /\ i \notin LiveItems(d)
  BY <1>1, RemovedIs DEF ItemsReplaced
<1>6. \A i \in DOMAIN items : rest[i].live => rest[i].disc # d /\ items[i].live
  BY <1>5 DEF LiveItems
<1>. HIDE DEF rest, d
<1>7. /\ DOMAIN items' \subseteq DOMAIN items \cup {r} /\ DOMAIN items \subseteq DOMAIN items'
      /\ items' = [i \in DOMAIN items' |-> items'[i]]
      /\ \A i \in DOMAIN items : items'[i] = rest[i]
      /\ r \in DOMAIN items' => items'[r] = [disc |-> d, live |-> TRUE]
  <2>1. CASE runs[r].found
    BY <1>1, <1>4, <1>5, <2>1 DEF WithItem
  <2>2. CASE ~runs[r].found
    BY <1>1, <1>4, <1>5, <2>2
  <2>. QED
    BY <2>1, <2>2
<1>8. ASSUME NEW i \in DOMAIN items' PROVE items'[i] \in Item /\ runs'[i].step \notin Early
  <2>1. CASE i = r
    <3>1. items'[i] = [disc |-> d, live |-> TRUE] /\ runs'[i].step \notin Early
      BY <1>3, <1>7, <2>1
    <3>. QED
      BY <1>2, <3>1 DEF Item
  <2>2. CASE i # r
    BY <1>1, <1>3, <1>5, <1>7, <2>2 DEF ItemsSound
  <2>. QED
    BY <2>1, <2>2
<1>9. ItemsOfLastRun'
  <2>. SUFFICES ASSUME NEW i \in DOMAIN items', NEW j \in DOMAIN items', i # j,
                       items'[i].disc = items'[j].disc, items'[i].live, items'[j].live
                PROVE  i \in revived \/ j \in revived
    BY <1>1 DEF ItemsOfLastRun
  <2>1. i # r /\ j # r
    BY <1>6, <1>7
  <2>. QED
    BY <1>1, <1>5, <1>6, <1>7, <2>1 DEF ItemsSound, ItemsOfLastRun
<1>10. ItemsSound'
  BY <1>1, <1>3, <1>7, <1>8, <1>9 DEF ItemsSound
<1>. QED
  BY <1>1, <1>3, <1>10 DEF AnalysisInv

\* The explorer looks for the pictures of the disc's live items.
LEMMA FetchStep ==
  ASSUME AnalysisInv, NEW r \in DOMAIN runs, FetchPreviewImages(r)
  PROVE  AnalysisInv'
<1>. DEFINE added == {[item |-> i, run |-> r, caching |-> FALSE] : i \in LiveItems(DiscOf(r))}
<1>1. /\ RunsTyped /\ QueuesSound /\ ItemsSound /\ discs \in [Disc -> DiscRow]
      /\ runs[r].step = "list" /\ searches' = searches \cup added
      /\ runs' = [runs EXCEPT ![r] = Over]
      /\ UNCHANGED <<discs, items, blobs, loops, bulk, revived>>
  BY DEF AnalysisInv, FetchPreviewImages, At, End
<1>2. runs[r].loop = 0
  BY <1>1, RunIs DEF QueuesSound
<1>3. /\ RunsTyped' /\ QueuesSound'
      /\ DOMAIN runs' = DOMAIN runs /\ runs'[r] = Over
      /\ \A q \in DOMAIN runs : q # r => runs'[q] = runs[q]
  BY <1>1, <1>2, RunEnds
<1>4. DOMAIN runs \subseteq Run
  BY <1>1, AnalysisAssumption DEF RunsTyped, Run
<1>5. ASSUME NEW s \in added PROVE s \in Search /\ s.item \in DOMAIN items
  <2>1. PICK i \in LiveItems(DiscOf(r)) : s = [item |-> i, run |-> r, caching |-> FALSE]
    OBVIOUS
  <2>2. i \in DOMAIN items /\ i \in Run /\ r \in Run
    BY <1>1, <1>4 DEF LiveItems, ItemsSound
  <2>. QED
    BY <2>1, <2>2 DEF Search
<1>. HIDE DEF added
<1>6. \A i \in DOMAIN items : runs'[i].step \notin Early
  BY <1>1, <1>3 DEF ItemsSound, Over, Early
<1>7. ItemsSound'
  BY <1>1, <1>3, <1>5, <1>6 DEF ItemsSound, ItemsOfLastRun
<1>. QED
  BY <1>1, <1>3, <1>7 DEF AnalysisInv

\* A picture's address or content is stored with an item that exists.
LEMMA PictureSteps ==
  ASSUME AnalysisInv, NEW s \in searches, StoreImageUrl(s) \/ CacheImage(s)
  PROVE  AnalysisInv'
<1>1. /\ RunsTyped /\ QueuesSound /\ ItemsSound /\ discs \in [Disc -> DiscRow]
      /\ UNCHANGED <<discs, runs, loops, bulk>>
  BY DEF AnalysisInv, StoreImageUrl, CacheImage
<1>2. RunsTyped' /\ QueuesSound'
  BY <1>1 DEF RunsTyped, QueuesSound, OneBulkRun
<1>3. s \in Search /\ s.item \in DOMAIN items
  BY <1>1 DEF ItemsSound
<1>4. CASE StoreImageUrl(s)
  <2>1. /\ items' = [items EXCEPT ![s.item].live = TRUE]
        /\ revived' = IF items[s.item].live THEN revived ELSE revived \cup {s.item}
        /\ UNCHANGED blobs
    BY <1>4 DEF StoreImageUrl
  <2>2. /\ searches' \subseteq Search /\ \A t \in searches' : t.item \in DOMAIN items
    <3>1. [s EXCEPT !.caching = TRUE] \in Search /\ [s EXCEPT !.caching = TRUE].item = s.item
      BY <1>3 DEF Search
    <3>2. searches' \subseteq searches \cup {[s EXCEPT !.caching = TRUE]}
      BY <1>4 DEF StoreImageUrl
    <3>. QED
      BY <1>1, <1>3, <3>1, <3>2 DEF ItemsSound
  <2>3. /\ DOMAIN items' = DOMAIN items
        /\ items' = [i \in DOMAIN items' |-> items'[i]]
        /\ \A i \in DOMAIN items : i # s.item => items'[i] = items[i]
    BY <1>1, <2>1 DEF ItemsSound
  <2>4. items'[s.item] \in Item /\ items'[s.item].disc = items[s.item].disc
    <3>1. items[s.item] \in Item
      BY <1>1, <1>3 DEF ItemsSound
    <3>2. items'[s.item] = [items[s.item] EXCEPT !.live = TRUE]
      BY <1>1, <1>3, <2>1 DEF ItemsSound
    <3>. QED
      BY <3>1, <3>2 DEF Item
  <2>5. /\ revived' \subseteq DOMAIN items /\ revived \subseteq revived'
        /\ ~items[s.item].live => s.item \in revived'
    BY <1>1, <1>3, <2>1 DEF ItemsSound
  <2>6. ItemsOfLastRun'
    <3>. SUFFICES ASSUME NEW i \in DOMAIN items, NEW j \in DOMAIN items, i # j,
                         items'[i].disc = items'[j].disc, items'[i].live, items'[j].live
                  PROVE  i \in revived' \/ j \in revived'
      BY <2>3 DEF ItemsOfLastRun
    <3>1. items[i].disc = items[j].disc
      BY <2>3, <2>4
    <3>2. CASE items[i].live /\ items[j].live
      BY <1>1, <2>5, <3>1, <3>2 DEF ItemsSound, ItemsOfLastRun
    <3>3. CASE ~items[i].live \/ ~items[j].live
      BY <2>3, <2>5, <3>3
    <3>. QED
      BY <3>2, <3>3
  <2>7. \A i \in DOMAIN items : items'[i] \in Item
    BY <1>1, <2>3, <2>4 DEF ItemsSound
  <2>8. ItemsSound'
    BY <1>1, <2>1, <2>2, <2>3, <2>5, <2>6, <2>7 DEF ItemsSound
  <2>. QED
    BY <1>1, <1>2, <2>8 DEF AnalysisInv
<1>5. CASE CacheImage(s)
  <2>1. /\ searches' \subseteq searches /\ blobs' \subseteq blobs \cup {s.item}
        /\ UNCHANGED <<items, revived>>
    BY <1>5 DEF CacheImage
  <2>2. ItemsSound'
    BY <1>1, <1>3, <2>1 DEF ItemsSound, ItemsOfLastRun
  <2>. QED
    BY <1>1, <1>2, <2>2 DEF AnalysisInv
<1>. QED
  BY <1>4, <1>5

\* The user removes an item, deletes a disc or edits it.
LEMMA UserSteps ==
  ASSUME AnalysisInv,
         \/ \E i \in DOMAIN items : RemoveItem(i)
         \/ \E d \in Disc : DeleteDisc(d) \/ EditDisc(d)
  PROVE  AnalysisInv'
<1>1. /\ RunsTyped /\ QueuesSound /\ ItemsSound /\ discs \in [Disc -> DiscRow]
      /\ UNCHANGED <<runs, searches, loops, bulk, revived>>
  BY DEF AnalysisInv, RemoveItem, DeleteDisc, EditDisc
<1>2. RunsTyped' /\ QueuesSound'
  BY <1>1 DEF RunsTyped, QueuesSound, OneBulkRun
<1>3. CASE \E i \in DOMAIN items : RemoveItem(i)
  <2>1. PICK i \in DOMAIN items : RemoveItem(i)
    BY <1>3
  <2>2. items' = Removed({i}) /\ blobs' \subseteq blobs /\ UNCHANGED discs
    BY <2>1 DEF RemoveItem
  <2>3. ItemsSound'
    BY <1>1, <2>2, RemovalKeeps
  <2>. QED
    BY <1>1, <1>2, <2>2, <2>3 DEF AnalysisInv
<1>4. CASE \E d \in Disc : DeleteDisc(d)
  <2>1. PICK d \in Disc : DeleteDisc(d)
    BY <1>4
  <2>2. /\ items' = Removed(LiveItems(d)) /\ blobs' \subseteq blobs
        /\ discs' = [discs EXCEPT ![d].live = FALSE]
    BY <2>1 DEF DeleteDisc
  <2>3. ItemsSound'
    BY <1>1, <2>2, RemovalKeeps
  <2>4. discs' \in [Disc -> DiscRow]
    BY <1>1, <2>2 DEF DiscRow
  <2>. QED
    BY <1>2, <2>3, <2>4 DEF AnalysisInv
<1>5. CASE \E d \in Disc : EditDisc(d)
  <2>1. PICK d \in Disc : EditDisc(d)
    BY <1>5
  <2>2. PICK titled \in {discs[d].titled, TRUE} :
          discs' = [discs EXCEPT ![d] = [live |-> TRUE, titled |-> titled]]
    BY <2>1 DEF EditDisc
  <2>3. titled \in BOOLEAN
    BY <1>1, <2>2 DEF DiscRow
  <2>4. discs' \in [Disc -> DiscRow]
    BY <1>1, <2>2, <2>3 DEF DiscRow
  <2>5. ItemsSound'
    BY <1>1, <2>1 DEF EditDisc, ItemsSound, ItemsOfLastRun
  <2>. QED
    BY <1>2, <2>4, <2>5 DEF AnalysisInv
<1>. QED
  BY <1>3, <1>4, <1>5

\* Nothing has run yet.
LEMMA AnalysisStarts == AnalysisInit => AnalysisInv
<1>. SUFFICES ASSUME AnalysisInit PROVE AnalysisInv
  OBVIOUS
<1>1. PICK titled \in BOOLEAN : discs = [d \in Disc |-> [live |-> TRUE, titled |-> titled]]
  BY DEF AnalysisInit
<1>2. discs \in [Disc -> DiscRow]
  BY <1>1 DEF DiscRow
<1>3. runs = <<>> /\ loops = <<>> /\ bulk = [progress |-> FALSE, cancel |-> FALSE]
  BY DEF AnalysisInit
<1>4. RunsTyped
  BY <1>3, AnalysisAssumption DEF RunsTyped
<1>5. QueuesSound
  BY <1>3 DEF QueuesSound, OneBulkRun
<1>6. DOMAIN items = {} /\ items = [i \in DOMAIN items |-> items[i]] /\ blobs = {}
      /\ revived = {} /\ searches = {}
  BY DEF AnalysisInit
<1>7. ItemsSound
  BY <1>6 DEF ItemsSound, ItemsOfLastRun
<1>. QED
  BY <1>2, <1>4, <1>5, <1>7 DEF AnalysisInv

\* Every step keeps the invariant.
LEMMA AnalysisSteps == AnalysisInv /\ [AnalysisNext]_analysisVars => AnalysisInv'
<1>. SUFFICES ASSUME AnalysisInv, [AnalysisNext]_analysisVars PROVE AnalysisInv'
  OBVIOUS
<1>1. CASE UNCHANGED analysisVars
  BY <1>1 DEF analysisVars, AnalysisInv, RunsTyped, QueuesSound, ItemsSound,
              OneBulkRun, ItemsOfLastRun
<1>2. CASE \E d \in Disc : Explore(d)
  BY <1>2, ExploreStep
<1>3. CASE StartBulkAnalyze
  BY <1>3, StartBulkStep
<1>4. CASE CancelBulkAnalyze
  BY <1>4, CancelStep
<1>5. CASE \E l \in DOMAIN loops : LoopNext(l) \/ LoopWakes(l)
  BY <1>5, QueueSteps
<1>6. CASE \E r \in DOMAIN runs : RunStep(r)
  <2>1. PICK r \in DOMAIN runs : RunStep(r)
    BY <1>6
  <2>. QED
    BY <2>1, PlainRunSteps, ApplyStep, FetchStep DEF RunStep
<1>7. CASE \E s \in searches : StoreImageUrl(s) \/ CacheImage(s)
  BY <1>7, PictureSteps
<1>8. CASE \/ \E i \in DOMAIN items : RemoveItem(i)
           \/ \E d \in Disc : DeleteDisc(d) \/ EditDisc(d)
  BY <1>8, UserSteps
<1>. QED
  BY <1>1, <1>2, <1>3, <1>4, <1>5, <1>6, <1>7, <1>8 DEF AnalysisNext

\* Rows, runs, queues and pictures always hold what the code keeps in them.
THEOREM AnalysisTyped == AnalysisSpec => []AnalysisTypeOK
<1>1. AnalysisInv => AnalysisTypeOK
  <2>. SUFFICES ASSUME AnalysisInv PROVE AnalysisTypeOK
    OBVIOUS
  <2>1. DOMAIN runs \subseteq Run
    BY AnalysisAssumption DEF AnalysisInv, RunsTyped, Run
  <2>. QED
    BY <2>1 DEF AnalysisInv, RunsTyped, ItemsSound, AnalysisTypeOK
<1>. QED
  BY <1>1, AnalysisStarts, AnalysisSteps, PTL DEF AnalysisSpec

\* A second analysis of a disc replaces the items of the first, whatever other runs, edits and
\* deletions come between: only a search that stores a picture's address brings one back.
THEOREM ReplacesItems == AnalysisSpec => []ItemsOfLastRun
<1>1. AnalysisInv => ItemsOfLastRun
  BY DEF AnalysisInv, ItemsSound
<1>. QED
  BY <1>1, AnalysisStarts, AnalysisSteps, PTL DEF AnalysisSpec

\* The bulk queues never have two analyses under way, also when one is cancelled and the next
\* started while the first still waits for its answer.
THEOREM BulkRunsAlone == AnalysisSpec => []OneBulkRun
<1>1. AnalysisInv => OneBulkRun
  BY DEF AnalysisInv, QueuesSound
<1>. QED
  BY <1>1, AnalysisStarts, AnalysisSteps, PTL DEF AnalysisSpec

-----------------------------------------------------------------------------
(***************************************************************************)
(* Migrations.  Between two migrations a database has one of a few         *)
(* schemas, which depend on its version and on the latest release that has *)
(* opened it; within one it has what the statements executed so far made   *)
(* of the schema on disk.                                                  *)
(***************************************************************************)
Base(k) == Synced \cup Own(k)

\* What a first migration, or the third, has made of disc_item.
Grown(r) == {{}} \cup (IF r >= 3 THEN {{Items}} ELSE {})
              \cup (IF r >= 4 THEN {{Items, ImageUrl}} ELSE {})

Schemas(k, r, v) ==
  CASE v = 0 -> {{}}
    [] v = 1 -> {Base(k) \cup Stubs(k)}
                  \cup (IF r >= 2 THEN {Base(k) \cup X : X \in Grown(r)} ELSE {})
    [] v = 2 -> {Base(k) \cup X : X \in Grown(r)}
    [] v = 3 -> {Base(k) \cup X : X \in Grown(r) \ {{}}}
    [] v = 4 -> {NewSchema(k, 4)}

Dropping(stmt) == stmt.op \in {"drop", "dropColumn"}
Columns(stmt) == IF "columns" \in DOMAIN stmt THEN stmt.columns ELSE {}

\* The schema after the first i statements.
After(stmts, i, schema) ==
  ((schema \ {stmts[j].object : j \in {n \in 1..i : Dropping(stmts[n])}})
    \cup {stmts[j].object : j \in {n \in 1..i : ~Dropping(stmts[n])}})
    \cup UNION {Columns(stmts[j]) :
                  j \in {n \in 1..i : ~Dropping(stmts[n]) /\ stmts[n].object \notin schema}}

Migrating(stmts) ==
  \E i \in 0..(Len(stmts) - 1) :
    /\ run.todo = SubSeq(stmts, i + 1, Len(stmts))
    /\ run.schema = After(stmts, i, stored.schema)

MigrationsInv ==
  /\ kind \in {"client", "vault"} /\ release \in 1..Latest
  /\ stored = [schema |-> stored.schema, version |-> stored.version]
  /\ stored.version \in 0..release
  /\ stored.schema \in Schemas(kind, release, stored.version)
  /\ \/ run = Stopped
     \/ run = [Stopped EXCEPT !.step = "ready"] /\ stored.version = release
     \/ /\ run = [step |-> "migrate", version |-> stored.version,
                  todo |-> run.todo, schema |-> run.schema]
        /\ \/ run.todo = <<>>
           \/ /\ stored.version < release
              /\ Migrating(Statements(kind, release, stored.version + 1))

Op == {"ensure", "create", "column", "columnIfMissing", "drop", "dropColumn"}
Object == {"disc", "file", "change_log", "location", "disc.location_id", "disc_location_idx",
           "stats_cache", Items, ImageUrl, Images}
Statement == [op: Op, object: Object] \cup [op: Op, object: Object, columns: SUBSET {ImageUrl}]

\* A migration touches each object once, and creates no column both alone and with its table.
WellFormed(stmts) ==
  /\ stmts \in Seq(Statement) /\ stmts # <<>>
  /\ \A i, j \in DOMAIN stmts : stmts[i].object = stmts[j].object => i = j
  /\ \A i, j \in DOMAIN stmts : stmts[i].object \notin Columns(stmts[j])

\* A statement without columns.
LEMMA PlainStatement ==
  ASSUME NEW op \in Op, NEW object \in Object
  PROVE  /\ Stmt(op, object) \in Statement /\ Columns(Stmt(op, object)) = {}
         /\ Stmt(op, object).op = op /\ Stmt(op, object).object = object
         /\ Dropping(Stmt(op, object)) <=> op \in {"drop", "dropColumn"}
BY DEF Stmt, Statement, Columns, Dropping

ItemsStmt(r) == [op |-> "ensure", object |-> Items, columns |-> IF r < 4 THEN {} ELSE {ImageUrl}]

\* The statement that creates the items' table.
LEMMA ItemsStatement ==
  ASSUME NEW r
  PROVE  /\ ItemsStmt(r) \in Statement
         /\ Columns(ItemsStmt(r)) = IF r < 4 THEN {} ELSE {ImageUrl}
         /\ ItemsStmt(r).op = "ensure" /\ ItemsStmt(r).object = Items
         /\ ~Dropping(ItemsStmt(r))
<1>1. ItemsStmt(r) = [op |-> "ensure", object |-> Items,
                       columns |-> IF r < 4 THEN {} ELSE {ImageUrl}]
  BY DEF ItemsStmt
<1>2. PICK columns \in SUBSET {ImageUrl} : columns = IF r < 4 THEN {} ELSE {ImageUrl}
  <2>1. CASE r < 4
    BY <2>1
  <2>2. CASE ~(r < 4)
    BY <2>2
  <2>. QED
    BY <2>1, <2>2
<1>7. Items \in Object /\ "ensure" \in Op
  BY DEF Object, Op
<1>3. ItemsStmt(r).op = "ensure" /\ ItemsStmt(r).object = Items
  BY <1>1
<1>4. ItemsStmt(r) \in Statement
  BY <1>1, <1>2, <1>7 DEF Statement
<1>5. Columns(ItemsStmt(r)) = IF r < 4 THEN {} ELSE {ImageUrl}
  BY <1>1 DEF Columns
<1>. QED
  BY <1>3, <1>4, <1>5 DEF Dropping

\* Concatenations of short tuples.
LEMMA JoinedNone ==
  ASSUME NEW a, NEW b, NEW c
  PROVE  /\ <<a>> \o <<>> = <<a>> /\ <<>> \o <<a>> = <<a>>
         /\ <<a, b>> \o <<>> = <<a, b>> /\ <<a, b, c>> \o <<>> = <<a, b, c>>
<1>. DEFINE T == {a, b, c}
<1>1. <<a>> \in Seq(T) /\ <<a, b>> \in Seq(T) /\ <<a, b, c>> \in Seq(T)
  OBVIOUS
<1>2. \A s \in Seq(T) : s \o <<>> = s /\ <<>> \o s = s
  OBVIOUS
<1>. QED
  BY <1>1, <1>2

\* And of two that are not empty.
LEMMA Joined11 ==
  ASSUME NEW a, NEW b
  PROVE  <<a>> \o <<b>> = <<a, b>>
<1>. DEFINE s == <<a>> \o <<b>>
            T == {a, b}
<1>1. a \in T /\ b \in T
  OBVIOUS
<1>. HIDE DEF T
<1>2. s \in Seq(T) /\ Len(s) = 2
  BY <1>1
<1>3. s[1] = a /\ s[2] = b
  BY <1>1
<1>. HIDE DEF s
<1>4. s = <<a, b>>
  BY <1>1, <1>2, <1>3
<1>. QED
  BY <1>4 DEF s

\* And of two that are not empty.
LEMMA Joined21 ==
  ASSUME NEW a, NEW b, NEW c
  PROVE  <<a, b>> \o <<c>> = <<a, b, c>>
<1>. DEFINE s == <<a, b>> \o <<c>>
            T == {a, b, c}
<1>1. a \in T /\ b \in T /\ c \in T
  OBVIOUS
<1>. HIDE DEF T
<1>2. s \in Seq(T) /\ Len(s) = 3
  BY <1>1
<1>3. s[1] = a /\ s[2] = b /\ s[3] = c
  BY <1>1
<1>. HIDE DEF s
<1>4. s = <<a, b, c>>
  BY <1>1, <1>2, <1>3
<1>. QED
  BY <1>4 DEF s

\* And of two that are not empty.
LEMMA Joined31 ==
  ASSUME NEW a, NEW b, NEW c, NEW d
  PROVE  <<a, b, c>> \o <<d>> = <<a, b, c, d>>
<1>. DEFINE s == <<a, b, c>> \o <<d>>
            T == {a, b, c, d}
<1>1. a \in T /\ b \in T /\ c \in T /\ d \in T
  OBVIOUS
<1>. HIDE DEF T
<1>2. s \in Seq(T) /\ Len(s) = 4
  BY <1>1
<1>3. s[1] = a /\ s[2] = b /\ s[3] = c /\ s[4] = d
  BY <1>1
<1>. HIDE DEF s
<1>4. s = <<a, b, c, d>>
  BY <1>1, <1>2, <1>3
<1>. QED
  BY <1>4 DEF s

\* And of two that are not empty.
LEMMA Joined23 ==
  ASSUME NEW a, NEW b, NEW c, NEW d, NEW e
  PROVE  <<a, b>> \o <<c, d, e>> = <<a, b, c, d, e>>
<1>. DEFINE s == <<a, b>> \o <<c, d, e>>
            T == {a, b, c, d, e}
<1>1. a \in T /\ b \in T /\ c \in T /\ d \in T /\ e \in T
  OBVIOUS
<1>. HIDE DEF T
<1>2. s \in Seq(T) /\ Len(s) = 5
  BY <1>1
<1>3. s[1] = a /\ s[2] = b /\ s[3] = c /\ s[4] = d /\ s[5] = e
  BY <1>1
<1>. HIDE DEF s
<1>4. s = <<a, b, c, d, e>>
  BY <1>1, <1>2, <1>3
<1>. QED
  BY <1>4 DEF s

\* And of two that are not empty.
LEMMA Joined24 ==
  ASSUME NEW a, NEW b, NEW c, NEW d, NEW e, NEW f
  PROVE  <<a, b>> \o <<c, d, e, f>> = <<a, b, c, d, e, f>>
<1>. DEFINE s == <<a, b>> \o <<c, d, e, f>>
            T == {a, b, c, d, e, f}
<1>1. a \in T /\ b \in T /\ c \in T /\ d \in T /\ e \in T /\ f \in T
  OBVIOUS
<1>. HIDE DEF T
<1>2. s \in Seq(T) /\ Len(s) = 6
  BY <1>1
<1>3. s[1] = a /\ s[2] = b /\ s[3] = c /\ s[4] = d /\ s[5] = e /\ s[6] = f
  BY <1>1
<1>. HIDE DEF s
<1>4. s = <<a, b, c, d, e, f>>
  BY <1>1, <1>2, <1>3
<1>. QED
  BY <1>4 DEF s

\* The statements of each migration in each release, one after the other.
LEMMA FirstMigration ==
  ASSUME NEW k \in {"client", "vault"}, NEW r \in 1..4
  PROVE  LET own == Stmt("create", IF k = "client" THEN "file" ELSE "change_log")
         IN Statements(k, r, 1) =
              IF r = 1 THEN
                IF k = "client" THEN
                  <<Stmt("ensure", "disc"), own, Stmt("create", "location"),
                    Stmt("column", "disc.location_id"), Stmt("create", "disc_location_idx"),
                    Stmt("create", "stats_cache")>>
                ELSE
                  <<Stmt("ensure", "disc"), own, Stmt("create", "location"),
                    Stmt("column", "disc.location_id"), Stmt("create", "disc_location_idx")>>
              ELSE IF r = 2 THEN <<Stmt("ensure", "disc"), own>>
              ELSE <<Stmt("ensure", "disc"), ItemsStmt(r), own>>
<1>. DEFINE own == Stmt("create", IF k = "client" THEN "file" ELSE "change_log")
            disc == Stmt("ensure", "disc")
            location == Stmt("create", "location")
            column == Stmt("column", "disc.location_id")
            idx == Stmt("create", "disc_location_idx")
            cache == Stmt("create", "stats_cache")
<1>1. Statements(k, r, 1) = Initial(k, r)
  BY DEF Statements
<1>2. Initial(k, r) =
        (<<disc>> \o IF r < 3 THEN <<>> ELSE <<ItemsStmt(r)>>) \o <<own>>
          \o (IF r > 1 THEN <<>> ELSE
                <<location, column, idx>> \o IF k = "client" THEN <<cache>> ELSE <<>>)
  BY DEF Initial, SyncedDDL, ItemsStmt
<1>. HIDE DEF own, disc, location, column, idx, cache
<1>3. CASE r = 1 /\ k = "client"
  <2>1. Initial(k, r) = (<<disc>> \o <<>>) \o <<own>> \o (<<location, column, idx>> \o <<cache>>)
    BY <1>2, <1>3
  <2>2. <<disc>> \o <<>> = <<disc>>
    BY JoinedNone
  <2>3. <<disc>> \o <<own>> = <<disc, own>>
    BY Joined11
  <2>4. <<location, column, idx>> \o <<cache>> = <<location, column, idx, cache>>
    BY Joined31
  <2>5. <<disc, own>> \o <<location, column, idx, cache>>
          = <<disc, own, location, column, idx, cache>>
    BY Joined24
  <2>6. Initial(k, r) = <<disc, own, location, column, idx, cache>>
    BY <2>1, <2>2, <2>3, <2>4, <2>5
  <2>. QED
    BY <1>1, <1>3, <2>6 DEF own, disc, location, column, idx, cache
<1>4. CASE r = 1 /\ k = "vault"
  <2>1. Initial(k, r) = (<<disc>> \o <<>>) \o <<own>> \o (<<location, column, idx>> \o <<>>)
    BY <1>2, <1>4
  <2>2. <<disc>> \o <<>> = <<disc>>
    BY JoinedNone
  <2>3. <<disc>> \o <<own>> = <<disc, own>>
    BY Joined11
  <2>4. <<location, column, idx>> \o <<>> = <<location, column, idx>>
    BY JoinedNone
  <2>5. <<disc, own>> \o <<location, column, idx>> = <<disc, own, location, column, idx>>
    BY Joined23
  <2>6. Initial(k, r) = <<disc, own, location, column, idx>>
    BY <2>1, <2>2, <2>3, <2>4, <2>5
  <2>. QED
    BY <1>1, <1>4, <2>6 DEF own, disc, location, column, idx
<1>5. CASE r = 2
  <2>1. Initial(k, r) = (<<disc>> \o <<>>) \o <<own>> \o <<>>
    BY <1>2, <1>5
  <2>2. <<disc>> \o <<>> = <<disc>>
    BY JoinedNone
  <2>3. <<disc>> \o <<own>> = <<disc, own>>
    BY Joined11
  <2>4. <<disc, own>> \o <<>> = <<disc, own>>
    BY JoinedNone
  <2>. QED
    BY <1>1, <1>5, <2>1, <2>2, <2>3, <2>4 DEF own, disc
<1>6. CASE r \in {3, 4}
  <2>1. Initial(k, r) = (<<disc>> \o <<ItemsStmt(r)>>) \o <<own>> \o <<>>
    BY <1>2, <1>6
  <2>2. <<disc>> \o <<ItemsStmt(r)>> = <<disc, ItemsStmt(r)>>
    BY Joined11
  <2>3. <<disc, ItemsStmt(r)>> \o <<own>> = <<disc, ItemsStmt(r), own>>
    BY Joined21
  <2>4. <<disc, ItemsStmt(r), own>> \o <<>> = <<disc, ItemsStmt(r), own>>
    BY JoinedNone
  <2>. QED
    BY <1>1, <1>6, <2>1, <2>2, <2>3, <2>4 DEF own, disc
<1>. QED
  BY <1>3, <1>4, <1>5, <1>6

\* The statements of the later migrations.
LEMMA LaterMigrations ==
  ASSUME NEW k \in {"client", "vault"}, NEW r \in 1..4
  PROVE  /\ Statements(k, r, 2) =
              IF k = "client" THEN
                <<Stmt("drop", "disc_location_idx"), Stmt("drop", "location"),
                  Stmt("drop", "stats_cache"), Stmt("dropColumn", "disc.location_id")>>
              ELSE
                <<Stmt("drop", "disc_location_idx"), Stmt("drop", "location"),
                  Stmt("dropColumn", "disc.location_id")>>
         /\ r >= 3 => Statements(k, r, 3) = <<Stmt("ensure", "disc"), ItemsStmt(r)>>
         /\ Statements(k, r, 4) =
              IF k = "client" THEN <<Stmt("ensure", Images), Stmt("columnIfMissing", ImageUrl)>>
              ELSE <<Stmt("columnIfMissing", ImageUrl)>>
<1>. DEFINE idx == Stmt("drop", "disc_location_idx")
            location == Stmt("drop", "location")
            cache == Stmt("drop", "stats_cache")
            column == Stmt("dropColumn", "disc.location_id")
            images == Stmt("ensure", Images)
            url == Stmt("columnIfMissing", ImageUrl)
<1>1. Statements(k, r, 2) = (<<idx, location>> \o (IF k = "client" THEN <<cache>> ELSE <<>>))
                              \o <<column>>
  BY DEF Statements, DropStubs
<1>2. r >= 3 => Statements(k, r, 3) = <<Stmt("ensure", "disc")>> \o <<ItemsStmt(r)>>
  BY DEF Statements, SyncedDDL, ItemsStmt
<1>3. Statements(k, r, 4) = (IF k = "client" THEN <<images>> ELSE <<>>) \o <<url>>
  BY DEF Statements, AddImageUrl
<1>. HIDE DEF idx, location, cache, column, images, url
<1>4. <<idx, location>> \o <<cache>> = <<idx, location, cache>>
  BY Joined21
<1>5. <<idx, location, cache>> \o <<column>> = <<idx, location, cache, column>>
  BY Joined31
<1>6. <<idx, location>> \o <<>> = <<idx, location>>
  BY JoinedNone
<1>7. <<idx, location>> \o <<column>> = <<idx, location, column>>
  BY Joined21
<1>8. <<Stmt("ensure", "disc")>> \o <<ItemsStmt(r)>> = <<Stmt("ensure", "disc"), ItemsStmt(r)>>
  BY Joined11
<1>9. <<images>> \o <<url>> = <<images, url>>
  BY Joined11
<1>10. <<>> \o <<url>> = <<url>>
  BY JoinedNone
<1>. QED
  BY <1>1, <1>2, <1>3, <1>4, <1>5, <1>6, <1>7, <1>8, <1>9, <1>10
  DEF idx, location, cache, column, images, url

\* What is in the schema after the first i statements.
LEMMA AfterMember ==
  ASSUME NEW stmts, NEW i \in Nat, NEW schema, NEW x
  PROVE  x \in After(stmts, i, schema) <=>
           \/ x \in schema /\ \A j \in 1..i : Dropping(stmts[j]) => stmts[j].object # x
           \/ \E j \in 1..i : /\ ~Dropping(stmts[j])
                              /\ \/ stmts[j].object = x
                                 \/ x \in Columns(stmts[j]) /\ stmts[j].object \notin schema
BY DEF After

\* Nothing is executed yet.
LEMMA AfterNone ==
  ASSUME NEW stmts, NEW schema
  PROVE  After(stmts, 0, schema) = schema
<1>1. \A x : x \in After(stmts, 0, schema) <=> x \in schema
  <2>1. 0 \in Nat /\ \A j : j \notin 1..0
    OBVIOUS
  <2>. QED
    BY <2>1, AfterMember
<1>. QED
  BY <1>1

\* One statement more.
LEMMA AfterStep ==
  ASSUME NEW stmts, WellFormed(stmts), NEW i \in 0..(Len(stmts) - 1), NEW schema
  PROVE  Executed(stmts[i + 1], After(stmts, i, schema)) = After(stmts, i + 1, schema)
<1>. DEFINE stmt == stmts[i + 1]
            S == After(stmts, i, schema)
<1>1. stmts \in Seq(Statement)
  BY DEF WellFormed
<1>2. i \in Nat /\ i + 1 \in Nat /\ 1..(i + 1) = 1..i \cup {i + 1} /\ i + 1 \in DOMAIN stmts
      /\ 1..i \subseteq DOMAIN stmts /\ i + 1 \notin 1..i
  BY <1>1
<1>3. \A j \in 1..i : stmts[j].object # stmt.object /\ stmt.object \notin Columns(stmts[j])
  BY <1>2 DEF WellFormed
<1>4. \A x : x \in S <=>
           \/ x \in schema /\ \A j \in 1..i : Dropping(stmts[j]) => stmts[j].object # x
           \/ \E j \in 1..i : /\ ~Dropping(stmts[j])
                              /\ \/ stmts[j].object = x
                                 \/ x \in Columns(stmts[j]) /\ stmts[j].object \notin schema
  BY <1>2, AfterMember
<1>5. \A x : x \in After(stmts, i + 1, schema) <=>
           \/ /\ x \in schema /\ \A j \in 1..i : Dropping(stmts[j]) => stmts[j].object # x
              /\ Dropping(stmt) => stmt.object # x
           \/ \E j \in 1..i : /\ ~Dropping(stmts[j])
                              /\ \/ stmts[j].object = x
                                 \/ x \in Columns(stmts[j]) /\ stmts[j].object \notin schema
           \/ /\ ~Dropping(stmt)
              /\ stmt.object = x \/ (x \in Columns(stmt) /\ stmt.object \notin schema)
  BY <1>2, AfterMember
<1>6. stmt.object \in S <=> stmt.object \in schema
  BY <1>3, <1>4
<1>7. Executed(stmt, S) = IF Dropping(stmt) THEN S \ {stmt.object}
                          ELSE IF stmt.object \in S THEN S
                          ELSE (S \cup {stmt.object}) \cup Columns(stmt)
  BY DEF Executed, Dropping, Columns
<1>. HIDE DEF S, stmt
<1>8. CASE Dropping(stmt)
  <2>1. \A x : x \in After(stmts, i + 1, schema) <=> x \in S /\ x # stmt.object
    BY <1>3, <1>4, <1>5, <1>8
  <2>. QED
    BY <1>7, <1>8, <2>1 DEF S, stmt
<1>9. CASE ~Dropping(stmt) /\ stmt.object \in S
  <2>1. \A x : x \in After(stmts, i + 1, schema) <=> x \in S
    BY <1>4, <1>5, <1>6, <1>9
  <2>. QED
    BY <1>7, <1>9, <2>1 DEF S, stmt
<1>10. CASE ~Dropping(stmt) /\ stmt.object \notin S
  <2>1. \A x : x \in After(stmts, i + 1, schema)
                 <=> x \in S \/ x = stmt.object \/ x \in Columns(stmt)
    BY <1>4, <1>5, <1>6, <1>10
  <2>. QED
    BY <1>7, <1>10, <2>1 DEF S, stmt
<1>. QED
  BY <1>8, <1>9, <1>10

\* From every schema of the one set the statements lead to the other, and none is refused.
Leads(stmts, from, to) ==
  /\ WellFormed(stmts)
  /\ \A schema \in from :
       /\ \A i \in 0..(Len(stmts) - 1) : ~Refused(stmts[i + 1], After(stmts, i, schema))
       /\ After(stmts, Len(stmts), schema) \in to

\* Statements that create what a new database has.
LEMMA Creates ==
  ASSUME NEW stmts, WellFormed(stmts), NEW to,
         \A j \in DOMAIN stmts : /\ stmts[j].op \in {"ensure", "create", "column"}
                                 /\ stmts[j].object # ImageUrl,
         \E schema \in to :
           \A x : x \in schema <=> \E j \in DOMAIN stmts : \/ x = stmts[j].object
                                                           \/ x \in Columns(stmts[j])
  PROVE  Leads(stmts, {{}}, to)
<1>1. stmts \in Seq(Statement) /\ Len(stmts) \in Nat /\ DOMAIN stmts = 1..Len(stmts)
  BY DEF WellFormed
<1>2. \A j \in DOMAIN stmts : ~Dropping(stmts[j])
  BY DEF Dropping
<1>3. ASSUME NEW i \in 0..(Len(stmts) - 1) PROVE ~Refused(stmts[i + 1], After(stmts, i, {}))
  <2>1. i \in Nat /\ i + 1 \in DOMAIN stmts /\ 1..i \subseteq DOMAIN stmts /\ i + 1 \notin 1..i
    BY <1>1
  <2>2. \A x \in After(stmts, i, {}) :
          \E j \in 1..i : x = stmts[j].object \/ x \in Columns(stmts[j])
    BY <2>1, AfterMember
  <2>3. stmts[i + 1].object \notin After(stmts, i, {})
    BY <2>1, <2>2 DEF WellFormed
  <2>. QED
    BY <2>1, <2>3 DEF Refused
<1>4. PICK schema \in to :
        \A x : x \in schema <=> \E j \in DOMAIN stmts : \/ x = stmts[j].object
                                                        \/ x \in Columns(stmts[j])
  OBVIOUS
<1>5. ASSUME NEW x
      PROVE  x \in After(stmts, Len(stmts), {})
               <=> \E j \in DOMAIN stmts : x = stmts[j].object \/ x \in Columns(stmts[j])
  <2>1. PICK n \in Nat : n = Len(stmts)
    BY <1>1
  <2>2. x \in After(stmts, n, {}) <=>
          \/ x \in {} /\ \A j \in 1..n : Dropping(stmts[j]) => stmts[j].object # x
          \/ \E j \in 1..n : /\ ~Dropping(stmts[j])
                             /\ \/ stmts[j].object = x
                                \/ x \in Columns(stmts[j]) /\ stmts[j].object \notin {}
    BY AfterMember
  <2>3. x \in After(stmts, n, {}) <=>
          \E j \in DOMAIN stmts : x = stmts[j].object \/ x \in Columns(stmts[j])
    BY <1>1, <1>2, <2>1, <2>2
  <2>. QED
    BY <2>1, <2>3

<1>6. After(stmts, Len(stmts), {}) = schema
  BY <1>4, <1>5
<1>. QED
  BY <1>3, <1>4, <1>6 DEF Leads

\* The first migration.
LEMMA FirstLeads ==
  ASSUME NEW k \in {"client", "vault"}, NEW r \in 1..4
  PROVE  Leads(Statements(k, r, 1), Schemas(k, r, 0), Schemas(k, r, 1))
<1>. DEFINE S == Statements(k, r, 1)
            own == IF k = "client" THEN "file" ELSE "change_log"
<1>1. own \in {"file", "change_log"} /\ Own(k) = {own}
  BY DEF Own
<1>2. Schemas(k, r, 0) = {{}}
  BY DEF Schemas
<1>3. Schemas(k, r, 1) = {Base(k) \cup Stubs(k)}
                  \cup (IF r >= 2 THEN {Base(k) \cup X : X \in Grown(r)} ELSE {})
  BY DEF Schemas
<1>. HIDE DEF own
<1>4. /\ Stmt("ensure", "disc") \in Statement /\ Stmt("create", own) \in Statement
      /\ Stmt("create", "location") \in Statement
      /\ Stmt("column", "disc.location_id") \in Statement
      /\ Stmt("create", "disc_location_idx") \in Statement
      /\ Stmt("create", "stats_cache") \in Statement /\ ItemsStmt(r) \in Statement
  <2>1. own \in Object
    BY <1>1 DEF Object
  <2>. QED
    BY <2>1, PlainStatement, ItemsStatement DEF Op, Object
<1>5. CASE r = 1 /\ k = "client"
  <2>1. S = <<Stmt("ensure", "disc"), Stmt("create", own), Stmt("create", "location"),
              Stmt("column", "disc.location_id"), Stmt("create", "disc_location_idx"),
              Stmt("create", "stats_cache")>>
    BY <1>5, FirstMigration DEF own
  <2>. HIDE DEF S
  <2>2. S \in Seq(Statement) /\ DOMAIN S = 1..6 /\ S # <<>>
    BY <1>4, <2>1
  <2>3. /\ S[1].object = "disc" /\ S[2].object = own /\ S[3].object = "location"
        /\ S[4].object = "disc.location_id" /\ S[5].object = "disc_location_idx"
        /\ S[6].object = "stats_cache"
        /\ S[1].op = "ensure" /\ S[2].op = "create" /\ S[3].op = "create"
        /\ S[4].op = "column" /\ S[5].op = "create" /\ S[6].op = "create"
    BY <2>1 DEF Stmt
  <2>4. \A j \in 1..6 : Columns(S[j]) = {}
    BY <2>1 DEF Stmt, Columns
  <2>5. WellFormed(S)
    BY <1>1, <2>2, <2>3, <2>4 DEF WellFormed
  <2>6. \A x : x \in Base(k) \cup Stubs(k) <=> \E j \in DOMAIN S : \/ x = S[j].object
                                                                   \/ x \in Columns(S[j])
    BY <1>1, <1>5, <2>2, <2>3, <2>4 DEF Base, Synced, Stubs
  <2>. QED
    <3>1. \A j \in DOMAIN S : /\ S[j].op \in {"ensure", "create", "column"}
                              /\ S[j].object # ImageUrl
      BY <1>1, <2>2, <2>3 DEF ImageUrl
    <3>2. Leads(S, {{}}, {Base(k) \cup Stubs(k)})
      BY <2>5, <2>6, <3>1, Creates
    <3>. QED
      BY <1>2, <1>3, <3>2 DEF S, Leads
<1>6. CASE r = 1 /\ k = "vault"
  <2>1. S = <<Stmt("ensure", "disc"), Stmt("create", own), Stmt("create", "location"),
              Stmt("column", "disc.location_id"), Stmt("create", "disc_location_idx")>>
    BY <1>6, FirstMigration DEF own
  <2>. HIDE DEF S
  <2>2. S \in Seq(Statement) /\ DOMAIN S = 1..5 /\ S # <<>>
    BY <1>4, <2>1
  <2>3. /\ S[1].object = "disc" /\ S[2].object = own /\ S[3].object = "location"
        /\ S[4].object = "disc.location_id" /\ S[5].object = "disc_location_idx"
        /\ S[1].op = "ensure" /\ S[2].op = "create" /\ S[3].op = "create"
        /\ S[4].op = "column" /\ S[5].op = "create"
    BY <2>1 DEF Stmt
  <2>4. \A j \in 1..5 : Columns(S[j]) = {}
    BY <2>1 DEF Stmt, Columns
  <2>5. WellFormed(S)
    BY <1>1, <2>2, <2>3, <2>4 DEF WellFormed
  <2>6. \A x : x \in Base(k) \cup Stubs(k) <=> \E j \in DOMAIN S : \/ x = S[j].object
                                                                   \/ x \in Columns(S[j])
    BY <1>1, <1>6, <2>2, <2>3, <2>4 DEF Base, Synced, Stubs
  <2>7. \A j \in DOMAIN S : /\ S[j].op \in {"ensure", "create", "column"}
                            /\ S[j].object # ImageUrl
    BY <1>1, <2>2, <2>3 DEF ImageUrl
  <2>8. Leads(S, {{}}, {Base(k) \cup Stubs(k)})
    BY <2>5, <2>6, <2>7, Creates
  <2>. QED
    BY <1>2, <1>3, <2>8 DEF S, Leads
<1>7. CASE r = 2
  <2>1. S = <<Stmt("ensure", "disc"), Stmt("create", own)>>
    BY <1>7, FirstMigration DEF own
  <2>. HIDE DEF S
  <2>2. S \in Seq(Statement) /\ DOMAIN S = 1..2 /\ S # <<>>
    BY <1>4, <2>1
  <2>3. /\ S[1].object = "disc" /\ S[2].object = own
        /\ S[1].op = "ensure" /\ S[2].op = "create"
    BY <2>1 DEF Stmt
  <2>4. \A j \in 1..2 : Columns(S[j]) = {}
    BY <2>1 DEF Stmt, Columns
  <2>5. WellFormed(S)
    BY <1>1, <2>2, <2>3, <2>4 DEF WellFormed
  <2>6. \A x : x \in Base(k) \cup {} <=> \E j \in DOMAIN S : x = S[j].object \/ x \in Columns(S[j])
    BY <1>1, <2>2, <2>3, <2>4 DEF Base, Synced
  <2>7. \A j \in DOMAIN S : /\ S[j].op \in {"ensure", "create", "column"}
                            /\ S[j].object # ImageUrl
    BY <1>1, <2>2, <2>3 DEF ImageUrl
  <2>8. Leads(S, {{}}, {Base(k) \cup {}})
    BY <2>5, <2>6, <2>7, Creates
  <2>9. Base(k) \cup {} \in Schemas(k, r, 1)
    BY <1>3, <1>7 DEF Grown
  <2>. QED
    BY <1>2, <2>8, <2>9 DEF S, Leads
<1>8. CASE r \in {3, 4}
  <2>. DEFINE X == {Items} \cup Columns(ItemsStmt(r))
  <2>1. S = <<Stmt("ensure", "disc"), ItemsStmt(r), Stmt("create", own)>>
    BY <1>8, FirstMigration DEF own
  <2>. HIDE DEF S
  <2>2. S \in Seq(Statement) /\ DOMAIN S = 1..3 /\ S # <<>>
    BY <1>4, <2>1
  <2>3. /\ S[1].object = "disc" /\ S[2].object = Items /\ S[3].object = own
        /\ S[1].op = "ensure" /\ S[2].op = "ensure" /\ S[3].op = "create"
    BY <2>1, ItemsStatement DEF Stmt
  <2>4. Columns(S[1]) = {} /\ Columns(S[2]) = Columns(ItemsStmt(r)) /\ Columns(S[3]) = {}
    BY <2>1 DEF Stmt, Columns
  <2>5. Columns(ItemsStmt(r)) = IF r < 4 THEN {} ELSE {ImageUrl}
    BY ItemsStatement
  <2>6. WellFormed(S)
    BY <1>1, <2>2, <2>3, <2>4, <2>5 DEF WellFormed, Items, ImageUrl
  <2>7. \A x : x \in Base(k) \cup X <=> \E j \in DOMAIN S : x = S[j].object \/ x \in Columns(S[j])
    BY <1>1, <2>2, <2>3, <2>4 DEF Base, Synced
  <2>8. \A j \in DOMAIN S : /\ S[j].op \in {"ensure", "create", "column"}
                            /\ S[j].object # ImageUrl
    BY <1>1, <2>2, <2>3 DEF ImageUrl, Items
  <2>9. Leads(S, {{}}, {Base(k) \cup X})
    BY <2>6, <2>7, <2>8, Creates
  <2>10. X \in Grown(r)
    BY <1>8, <2>5 DEF Grown
  <2>11. Base(k) \cup X \in Schemas(k, r, 1)
    BY <1>3, <1>8, <2>10
  <2>. QED
    BY <1>2, <2>9, <2>11 DEF S, Leads
<1>. QED
  BY <1>5, <1>6, <1>7, <1>8

\* What a migration that drops leaves.
LEMMA DropsLead ==
  ASSUME NEW k \in {"client", "vault"}, NEW r \in 2..4
  PROVE  Leads(Statements(k, r, 2), Schemas(k, r, 1), Schemas(k, r, 2))
<1>. DEFINE S == Statements(k, r, 2)
            n == IF k = "client" THEN 4 ELSE 3
<1>1. /\ Stmt("drop", "disc_location_idx") \in Statement /\ Stmt("drop", "location") \in Statement
      /\ Stmt("drop", "stats_cache") \in Statement
      /\ Stmt("dropColumn", "disc.location_id") \in Statement
  BY PlainStatement DEF Op, Object
<1>2. /\ S \in Seq(Statement) /\ DOMAIN S = 1..n /\ Len(S) = n
      /\ S[1] = Stmt("drop", "disc_location_idx") /\ S[2] = Stmt("drop", "location")
      /\ k = "client" => S[3] = Stmt("drop", "stats_cache")
      /\ S[n] = Stmt("dropColumn", "disc.location_id")
  <2>1. CASE k = "client"
    <3>1. S = <<Stmt("drop", "disc_location_idx"), Stmt("drop", "location"),
                Stmt("drop", "stats_cache"), Stmt("dropColumn", "disc.location_id")>>
      BY <2>1, LaterMigrations
    <3>. HIDE DEF S
    <3>. QED
      BY <1>1, <2>1, <3>1
  <2>2. CASE k = "vault"
    <3>1. S = <<Stmt("drop", "disc_location_idx"), Stmt("drop", "location"),
                Stmt("dropColumn", "disc.location_id")>>
      BY <2>2, LaterMigrations
    <3>. HIDE DEF S
    <3>. QED
      BY <1>1, <2>2, <3>1
  <2>. QED
    BY <2>1, <2>2
<1>. HIDE DEF S
<1>3. /\ S[1].object = "disc_location_idx" /\ S[2].object = "location"
      /\ k = "client" => S[3].object = "stats_cache"
      /\ S[n].object = "disc.location_id" /\ S[n].op = "dropColumn"
      /\ \A j \in 1..(n - 1) : S[j].op = "drop"
      /\ \A j \in 1..n : Columns(S[j]) = {}
  BY <1>2 DEF Stmt, Columns
<1>4. WellFormed(S)
  <2>1. S # <<>>
    BY <1>2
  <2>2. \A i, j \in 1..n : S[i].object = S[j].object => i = j
    <3>1. CASE k = "client"
      BY <1>3, <3>1
    <3>2. CASE k = "vault"
      BY <1>3, <3>2
    <3>. QED
      BY <3>1, <3>2
  <2>3. \A i, j \in 1..n : S[i].object \notin Columns(S[j])
    BY <1>3
  <2>. QED
    BY <1>2, <2>1, <2>2, <2>3 DEF WellFormed
<1>5. \A j \in 1..n : Dropping(S[j])

  BY <1>3 DEF Dropping
<1>6. ASSUME NEW schema, NEW i \in 0..(n - 1) PROVE ~Refused(S[i + 1], After(S, i, schema))
  <2>1. CASE i + 1 = n
    <3>1. 1 \in 1..i /\ i \in Nat /\ Dropping(S[1])
      BY <1>5, <2>1
    <3>2. \A j \in 1..i : Dropping(S[j])
      BY <1>5, <2>1
    <3>3. "disc_location_idx" \notin After(S, i, schema)
      BY <1>3, <3>1, <3>2, AfterMember
    <3>. QED
      BY <1>3, <2>1, <3>3 DEF Refused
  <2>2. CASE i + 1 # n
    <3>1. S[i + 1].op = "drop"
      BY <1>3, <2>2
    <3>. QED
      BY <3>1 DEF Refused
  <2>. QED
    BY <2>1, <2>2
<1>7. ASSUME NEW X \in Grown(r), NEW schema \in {Base(k) \cup Stubs(k), Base(k) \cup X},
             schema = Base(k) \cup Stubs(k) => X = {}
      PROVE  After(S, n, schema) = Base(k) \cup X
  <2>1. \A x : x \in After(S, n, schema) <=> x \in schema /\ \A j \in 1..n : S[j].object # x
    BY <1>5, AfterMember, n \in Nat
  <2>2. \A x : x \in Stubs(k) <=> \E j \in 1..n : S[j].object = x
    BY <1>2, <1>3 DEF Stubs
  <2>3. Stubs(k) \cap (Base(k) \cup X) = {}
    BY DEF Stubs, Base, Synced, Own, Grown, Items, ImageUrl
  <2>. QED
    BY <1>7, <2>1, <2>2, <2>3
<1>8. {} \in Grown(r)
  BY DEF Grown
<1>9. ASSUME NEW schema \in Schemas(k, r, 1) PROVE After(S, n, schema) \in Schemas(k, r, 2)
  <2>1. PICK X \in Grown(r) : /\ schema \in {Base(k) \cup Stubs(k), Base(k) \cup X}
                              /\ schema = Base(k) \cup Stubs(k) => X = {}
    <3>1. CASE schema = Base(k) \cup Stubs(k)
      BY <1>8, <3>1
    <3>2. CASE schema # Base(k) \cup Stubs(k)
      BY <1>9, <3>2 DEF Schemas
    <3>. QED
      BY <3>1, <3>2
  <2>2. After(S, n, schema) = Base(k) \cup X
    BY <1>7, <2>1
  <2>. QED
    BY <2>2 DEF Schemas
<1>. QED
  BY <1>2, <1>4, <1>6, <1>9 DEF Leads, S

\* The third migration creates the items' table if the first one has not.
LEMMA ItemsLead ==
  ASSUME NEW k \in {"client", "vault"}, NEW r \in 3..4
  PROVE  Leads(Statements(k, r, 3), Schemas(k, r, 2), Schemas(k, r, 3))
<1>. DEFINE S == Statements(k, r, 3)
<1>1. S = <<Stmt("ensure", "disc"), ItemsStmt(r)>>
  BY LaterMigrations
<1>. HIDE DEF S
<1>2. Stmt("ensure", "disc") \in Statement /\ ItemsStmt(r) \in Statement
  BY PlainStatement, ItemsStatement DEF Op, Object
<1>3. S \in Seq(Statement) /\ DOMAIN S = 1..2 /\ Len(S) = 2 /\ S # <<>>
  BY <1>1, <1>2
<1>4. /\ S[1].object = "disc" /\ S[2].object = Items
      /\ S[1].op = "ensure" /\ S[2].op = "ensure"
  BY <1>1, ItemsStatement DEF Stmt
<1>5. Columns(S[1]) = {} /\ Columns(S[2]) = IF r < 4 THEN {} ELSE {ImageUrl}
  <2>1. Columns(S[1]) = {}
    BY <1>1 DEF Stmt, Columns
  <2>. QED
    BY <1>1, <2>1, ItemsStatement
<1>6. WellFormed(S)
  BY <1>3, <1>4, <1>5 DEF WellFormed, Items, ImageUrl
<1>7. \A j \in 1..2 : ~Dropping(S[j])
  BY <1>4 DEF Dropping
<1>8. ASSUME NEW schema, NEW i \in 0..(2 - 1) PROVE ~Refused(S[i + 1], After(S, i, schema))
  <2>1. S[i + 1].op = "ensure"
    BY <1>4
  <2>. QED
    BY <2>1 DEF Refused
<1>9. ASSUME NEW schema \in Schemas(k, r, 2) PROVE After(S, 2, schema) \in Schemas(k, r, 3)
  <2>1. PICK X \in Grown(r) : schema = Base(k) \cup X
    BY DEF Schemas
  <2>2. \A x : x \in After(S, 2, schema) <=>
                 x \in schema \/ x = "disc" \/ x = Items
                   \/ (Items \notin schema /\ r = 4 /\ x = ImageUrl)
    <3>1. 1..2 = {1, 2} /\ 2 \in Nat
      OBVIOUS
    <3>2. \A x : x \in After(S, 2, schema) <=>
           \/ x \in schema
           \/ S[1].object = x \/ S[2].object = x
           \/ x \in Columns(S[1]) /\ S[1].object \notin schema
           \/ x \in Columns(S[2]) /\ S[2].object \notin schema
      BY <1>7, <3>1, AfterMember
    <3>. QED
      BY <1>4, <1>5, <3>2
  <2>3. "disc" \in Base(k) /\ Items \notin Base(k)
    BY DEF Base, Synced, Own, Items
  <2>4. PICK Y \in Grown(r) \ {{}} : \A x : x \in After(S, 2, schema) <=> x \in Base(k) \/ x \in Y
    <3>1. CASE X = {}
      <4>1. \A x : x \in After(S, 2, schema) <=>
                     x \in Base(k) \/ x = Items \/ (r = 4 /\ x = ImageUrl)
        BY <2>1, <2>2, <2>3, <3>1
      <4>2. CASE r = 3
        <5>1. \A x : x \in After(S, 2, schema) <=> x \in Base(k) \/ x \in {Items}
          BY <4>1, <4>2
        <5>2. {Items} \in Grown(r) \ {{}}
          BY <4>2 DEF Grown
        <5>. QED
          BY <5>1, <5>2
      <4>3. CASE r = 4
        <5>1. \A x : x \in After(S, 2, schema) <=> x \in Base(k) \/ x \in {Items, ImageUrl}
          BY <4>1, <4>3
        <5>2. {Items, ImageUrl} \in Grown(r) \ {{}}
          BY <4>3 DEF Grown
        <5>. QED
          BY <5>1, <5>2
      <4>. QED
        BY <4>2, <4>3
    <3>2. CASE X # {}
      <4>1. Items \in X /\ X \in Grown(r) \ {{}}
        BY <2>1, <3>2 DEF Grown
      <4>2. \A x : x \in After(S, 2, schema) <=> x \in Base(k) \/ x \in X
        BY <2>1, <2>2, <2>3, <4>1
      <4>. QED
        BY <4>1, <4>2
    <3>. QED
      BY <3>1, <3>2
  <2>5. After(S, 2, schema) = Base(k) \cup Y
    BY <2>4
  <2>. QED
    BY <2>4, <2>5 DEF Schemas
<1>. QED
  BY <1>3, <1>6, <1>8, <1>9 DEF Leads, S

\* The fourth adds the column to a table that lacks it, and on a device the pictures' table.
LEMMA UrlLeads ==
  ASSUME NEW k \in {"client", "vault"}
  PROVE  Leads(Statements(k, 4, 4), Schemas(k, 4, 3), Schemas(k, 4, 4))
<1>. DEFINE S == Statements(k, 4, 4)
            n == IF k = "client" THEN 2 ELSE 1
<1>1. Stmt("ensure", Images) \in Statement /\ Stmt("columnIfMissing", ImageUrl) \in Statement
  BY PlainStatement DEF Op, Object
<1>2. /\ S \in Seq(Statement) /\ DOMAIN S = 1..n /\ Len(S) = n /\ S # <<>>
      /\ k = "client" => S[1] = Stmt("ensure", Images)
      /\ S[n] = Stmt("columnIfMissing", ImageUrl)
  <2>1. CASE k = "client"
    <3>1. S = <<Stmt("ensure", Images), Stmt("columnIfMissing", ImageUrl)>>
      BY <2>1, LaterMigrations
    <3>. HIDE DEF S
    <3>. QED
      BY <1>1, <2>1, <3>1
  <2>2. CASE k = "vault"
    <3>1. S = <<Stmt("columnIfMissing", ImageUrl)>>
      BY <2>2, LaterMigrations
    <3>. HIDE DEF S
    <3>. QED
      BY <1>1, <2>2, <3>1
  <2>. QED
    BY <2>1, <2>2
<1>. HIDE DEF S
<1>3. /\ k = "client" => S[1].object = Images /\ S[1].op = "ensure"
      /\ S[n].object = ImageUrl /\ S[n].op = "columnIfMissing"
      /\ \A j \in 1..n : Columns(S[j]) = {} /\ ~Dropping(S[j])
  <2>1. /\ k = "client" => S[1].object = Images /\ S[1].op = "ensure"
        /\ S[n].object = ImageUrl /\ S[n].op = "columnIfMissing"
        /\ \A j \in 1..n : Columns(S[j]) = {}
    BY <1>2 DEF Stmt, Columns
  <2>2. \A j \in 1..n : S[j].op \in {"ensure", "columnIfMissing"}
    BY <2>1
  <2>. QED
    BY <2>1, <2>2 DEF Dropping
<1>4. WellFormed(S)
  <2>1. \A i, j \in 1..n : S[i].object = S[j].object => i = j
    <3>1. CASE k = "client"
      BY <1>3, <3>1 DEF Images, ImageUrl
    <3>2. CASE k = "vault"
      BY <3>2
    <3>. QED
      BY <3>1, <3>2
  <2>2. \A i, j \in 1..n : S[i].object \notin Columns(S[j])
    BY <1>3
  <2>. QED
    BY <1>2, <2>1, <2>2 DEF WellFormed
<1>5. ASSUME NEW schema \in Schemas(k, 4, 3)
      PROVE  schema \in {Base(k) \cup {Items}, Base(k) \cup {Items, ImageUrl}}
  BY <1>5 DEF Schemas, Grown
<1>6. ASSUME NEW schema \in Schemas(k, 4, 3), NEW i \in 0..(n - 1)
      PROVE  ~Refused(S[i + 1], After(S, i, schema))
  <2>1. S[i + 1].op \in {"ensure", "columnIfMissing"}
    BY <1>3
  <2>2. Items \in schema
    BY <1>5
  <2>3. i \in Nat /\ \A j \in 1..i : ~Dropping(S[j])
    BY <1>3
  <2>4. Items \in After(S, i, schema)
    BY <2>2, <2>3, AfterMember
  <2>. QED
    BY <2>1, <2>4 DEF Refused
<1>7. ASSUME NEW schema \in Schemas(k, 4, 3)
      PROVE  After(S, n, schema) = NewSchema(k, 4)
  <2>1. \A x : x \in After(S, n, schema) <=>
                 x \in schema \/ \E j \in 1..n : S[j].object = x
    BY <1>3, AfterMember, n \in Nat
  <2>2. \A x : (\E j \in 1..n : S[j].object = x) <=> x = ImageUrl \/ (k = "client" /\ x = Images)
    BY <1>3
  <2>3. \A x : x \in After(S, n, schema) <=>
                 x \in Base(k) \/ x = Items \/ x = ImageUrl \/ (k = "client" /\ x = Images)
    BY <1>5, <2>1, <2>2
  <2>4. \A x : x \in NewSchema(k, 4) <=>
                 x \in Base(k) \/ x = Items \/ x = ImageUrl \/ (k = "client" /\ x = Images)
    BY DEF NewSchema, Base
  <2>. QED
    BY <2>3, <2>4
<1>8. NewSchema(k, 4) \in Schemas(k, 4, 4)
  BY DEF Schemas
<1>. QED
  BY <1>2, <1>4, <1>6, <1>7, <1>8 DEF Leads, S

\* Every migration leads from the schemas of one version to those of the next.
LEMMA EveryLeads ==
  ASSUME NEW k \in {"client", "vault"}, NEW r \in 1..Latest, NEW v \in 0..(r - 1)
  PROVE  Leads(Statements(k, r, v + 1), Schemas(k, r, v), Schemas(k, r, v + 1))
<1>1. r \in 1..4
  BY DEF Latest
<1>2. CASE v = 0
  BY <1>1, <1>2, FirstLeads
<1>3. CASE v = 1
  <2>1. r \in 2..4
    BY <1>1, <1>3
  <2>. QED
    BY <1>3, <2>1, DropsLead
<1>4. CASE v = 2
  <2>1. r \in 3..4
    BY <1>1, <1>4
  <2>. QED
    BY <1>4, <2>1, ItemsLead
<1>5. CASE v = 3
  <2>1. r = 4
    BY <1>1, <1>5
  <2>. QED
    BY <1>5, <2>1, UrlLeads
<1>. QED
  BY <1>1, <1>2, <1>3, <1>4, <1>5

\* A later release knows the schemas of an earlier one, and its own is that of its version.
LEMMA SchemasGrow ==
  ASSUME NEW k \in {"client", "vault"}, NEW r \in 1..Latest
  PROVE  /\ \A q \in r..Latest : \A v \in 0..r : Schemas(k, r, v) \subseteq Schemas(k, q, v)
         /\ Schemas(k, r, r) = {NewSchema(k, r)}
         /\ \A v \in 0..r : \A schema \in Schemas(k, r, v) :
              schema \subseteq NewSchema(k, 1) \cup NewSchema(k, Latest)
<1>1. r \in 1..4 /\ Latest = 4
  BY DEF Latest
<1>2. \A q \in r..4 : Grown(r) \subseteq Grown(q)
  BY <1>1 DEF Grown
<1>3. ASSUME NEW q \in r..4, NEW v \in 0..r PROVE Schemas(k, r, v) \subseteq Schemas(k, q, v)
  <2>1. v \in {0, 1, 2, 3, 4}
    BY <1>1
  <2>2. Grown(r) \subseteq Grown(q) /\ (r >= 2 => q >= 2)
    BY <1>1, <1>2
  <2>3. CASE v = 0
    BY <2>3 DEF Schemas
  <2>4. CASE v = 1
    BY <2>2, <2>4 DEF Schemas
  <2>5. CASE v = 2
    BY <2>2, <2>5 DEF Schemas
  <2>6. CASE v = 3
    BY <2>2, <2>6 DEF Schemas
  <2>7. CASE v = 4
    BY <2>7 DEF Schemas
  <2>. QED
    BY <2>1, <2>3, <2>4, <2>5, <2>6, <2>7
<1>4. Schemas(k, r, r) = {NewSchema(k, r)}
  <2>1. CASE r = 1
    <3>1. NewSchema(k, 1) = Base(k) \cup Stubs(k)
      BY DEF NewSchema, Base
    <3>2. Schemas(k, 1, 1) = {Base(k) \cup Stubs(k)}
      BY DEF Schemas
    <3>. QED
      BY <2>1, <3>1, <3>2
  <2>2. CASE r = 2
    <3>1. NewSchema(k, 2) = Base(k) \cup {}
      BY DEF NewSchema, Base
    <3>2. Grown(2) = {{}}
      BY DEF Grown
    <3>3. Schemas(k, 2, 2) = {Base(k) \cup {}}
      <4>1. Schemas(k, 2, 2) = {Base(k) \cup X : X \in Grown(2)}
        BY DEF Schemas
      <4>. QED
        BY <3>2, <4>1
    <3>. QED
      BY <2>2, <3>1, <3>3
  <2>3. CASE r = 3
    <3>1. NewSchema(k, 3) = Base(k) \cup {Items}
      BY DEF NewSchema, Base
    <3>2. Grown(3) \ {{}} = {{Items}}
      BY DEF Grown
    <3>3. Schemas(k, 3, 3) = {Base(k) \cup {Items}}
      <4>1. Schemas(k, 3, 3) = {Base(k) \cup X : X \in Grown(3) \ {{}}}
        BY DEF Schemas
      <4>. QED
        BY <3>2, <4>1
    <3>. QED
      BY <2>3, <3>1, <3>3
  <2>4. CASE r = 4
    BY <2>4 DEF Schemas
  <2>. QED
    BY <1>1, <2>1, <2>2, <2>3, <2>4
<1>5. ASSUME NEW v \in 0..r, NEW schema \in Schemas(k, r, v)
      PROVE  schema \subseteq NewSchema(k, 1) \cup NewSchema(k, 4)
  <2>1. v \in {0, 1, 2, 3, 4}
    BY <1>1
  <2>2. Base(k) \cup Stubs(k) \subseteq NewSchema(k, 1)
    BY DEF NewSchema, Base
  <2>3. \A X \in Grown(r) : Base(k) \cup X \subseteq NewSchema(k, 4)
    <3>1. \A X \in Grown(r) : X \subseteq {Items, ImageUrl}
      BY DEF Grown
    <3>2. Base(k) \cup {Items, ImageUrl} \subseteq NewSchema(k, 4)
      BY DEF NewSchema, Base
    <3>. QED
      BY <3>1, <3>2
  <2>4. CASE v = 0
    BY <1>5, <2>4 DEF Schemas
  <2>5. CASE v = 1
    <3>1. schema = Base(k) \cup Stubs(k) \/ \E X \in Grown(r) : schema = Base(k) \cup X
      BY <1>5, <2>5 DEF Schemas
    <3>. QED
      BY <2>2, <2>3, <3>1
  <2>6. CASE v \in {2, 3}
    <3>1. \E X \in Grown(r) : schema = Base(k) \cup X
      BY <1>5, <2>6 DEF Schemas
    <3>. QED
      BY <2>3, <3>1
  <2>7. CASE v = 4
    BY <1>5, <2>7 DEF Schemas
  <2>. QED
    BY <2>1, <2>4, <2>5, <2>6, <2>7
<1>. QED
  BY <1>1, <1>3, <1>4, <1>5

\* A new database is empty.
LEMMA MigrationsStart == MigrationsInit => MigrationsInv
<1>. SUFFICES ASSUME MigrationsInit PROVE MigrationsInv
  OBVIOUS
<1>1. /\ kind \in {"client", "vault"} /\ release \in 1..Latest /\ run = Stopped
      /\ stored = [schema |-> {}, version |-> 0]
  BY DEF MigrationsInit
<1>2. stored = [schema |-> stored.schema, version |-> stored.version]
      /\ stored.version = 0 /\ stored.schema = {}
  BY <1>1
<1>3. {} \in Schemas(kind, release, 0)
  BY DEF Schemas
<1>4. 0 \in 0..release
  BY <1>1 DEF Latest
<1>. QED
  BY <1>1, <1>2, <1>3, <1>4 DEF MigrationsInv

\* The transaction of the next migration begins.
LEMMA BeginStep == MigrationsInv /\ Begin => MigrationsInv'
<1>. SUFFICES ASSUME MigrationsInv, Begin PROVE MigrationsInv'
  OBVIOUS
<1>1. /\ run.step = "migrate" /\ run.version < release
      /\ run' = [run EXCEPT !.todo = Statements(kind, release, run.version + 1),
                            !.schema = stored.schema]
      /\ UNCHANGED <<kind, stored, release>>
  BY DEF Begin
<1>2. run = [step |-> "migrate", version |-> stored.version,
             todo |-> run.todo, schema |-> run.schema]
  BY <1>1 DEF MigrationsInv, Stopped
<1>3. PICK v : v = stored.version /\ v \in 0..(release - 1)
  BY <1>1, <1>2 DEF MigrationsInv, Latest
<1>. DEFINE S == Statements(kind, release, v + 1)
<1>4. run' = [step |-> "migrate", version |-> v, todo |-> S, schema |-> stored.schema]
  <2>1. PICK todo, schema :
          run = [step |-> "migrate", version |-> v, todo |-> todo, schema |-> schema]
    BY <1>2, <1>3
  <2>2. run.version = v
    BY <2>1
  <2>. HIDE DEF S
  <2>3. run' = [run EXCEPT !.todo = S, !.schema = stored.schema]
    BY <1>1, <2>2 DEF S
  <2>. QED
    BY <2>1, <2>3
<1>5. WellFormed(S)
  BY <1>3, EveryLeads DEF MigrationsInv, Leads
<1>. HIDE DEF S
<1>6. S \in Seq(Statement) /\ Len(S) \in Nat /\ Len(S) > 0 /\ SubSeq(S, 0 + 1, Len(S)) = S
  BY <1>5 DEF WellFormed
<1>7. stored.schema = After(S, 0, stored.schema)
  BY AfterNone
<1>8. /\ 0 \in 0..(Len(S) - 1) /\ run'.todo = SubSeq(S, 0 + 1, Len(S))
      /\ run'.schema = After(S, 0, stored'.schema)
  <2>1. stored'.schema = stored.schema
    BY <1>1
  <2>2. run'.todo = S /\ run'.schema = stored.schema
    BY <1>4
  <2>. QED
    BY <1>6, <1>7, <2>1, <2>2
<1>9. Migrating(Statements(kind, release, stored.version + 1))'
  BY <1>1, <1>3, <1>8 DEF Migrating, S
<1>10. /\ run' = [step |-> "migrate", version |-> stored'.version,
                  todo |-> run'.todo, schema |-> run'.schema]
       /\ stored'.version < release'
  <2>1. stored'.version = v /\ release' = release /\ v < release
    BY <1>1, <1>3 DEF MigrationsInv, Latest
  <2>2. run'.todo = S /\ run'.schema = stored.schema
    BY <1>4
  <2>. QED
    BY <1>4, <2>1, <2>2
<1>. QED
  BY <1>1, <1>9, <1>10 DEF MigrationsInv

\* A statement is executed, and the last one followed by the commit.
LEMMA ExecuteStep == MigrationsInv /\ Execute => MigrationsInv'
<1>. SUFFICES ASSUME MigrationsInv, Execute PROVE MigrationsInv'
  OBVIOUS
<1>1. run.todo # <<>> /\ UNCHANGED <<kind, release>>
  BY DEF Execute
<1>2. /\ run = [step |-> "migrate", version |-> stored.version,
                todo |-> run.todo, schema |-> run.schema]
      /\ stored.version < release
      /\ Migrating(Statements(kind, release, stored.version + 1))
  BY <1>1 DEF MigrationsInv, Stopped
<1>3. PICK v : v = stored.version /\ v \in 0..(release - 1)
  BY <1>2 DEF MigrationsInv, Latest
<1>. DEFINE S == Statements(kind, release, v + 1)
<1>4. Leads(S, Schemas(kind, release, v), Schemas(kind, release, v + 1))
  BY <1>3, EveryLeads DEF MigrationsInv
<1>5. PICK i \in 0..(Len(S) - 1) : /\ run.todo = SubSeq(S, i + 1, Len(S))
                                   /\ run.schema = After(S, i, stored.schema)
  BY <1>2, <1>3 DEF Migrating
<1>6. stored.schema \in Schemas(kind, release, v)
  BY <1>3 DEF MigrationsInv
<1>. HIDE DEF S
<1>7. S \in Seq(Statement) /\ Len(S) \in Nat /\ i \in Nat /\ i < Len(S)
  BY <1>4 DEF Leads, WellFormed
<1>8. /\ Head(run.todo) = S[i + 1] /\ Len(run.todo) = Len(S) - i
      /\ Tail(run.todo) = SubSeq(S, i + 2, Len(S))
  BY <1>5, <1>7
<1>9. ~Refused(Head(run.todo), run.schema)
  BY <1>4, <1>5, <1>6, <1>8 DEF Leads
<1>10. Executed(Head(run.todo), run.schema) = After(S, i + 1, stored.schema)
  BY <1>4, <1>5, <1>8, AfterStep DEF Leads
<1>11. CASE Len(run.todo) > 1
  <2>1. /\ run' = [run EXCEPT !.todo = Tail(@), !.schema = After(S, i + 1, stored.schema)]
        /\ UNCHANGED stored
    BY <1>9, <1>10, <1>11 DEF Execute
  <2>2. run' = [step |-> "migrate", version |-> v, todo |-> SubSeq(S, i + 2, Len(S)),
                schema |-> After(S, i + 1, stored.schema)]
    <3>1. PICK todo, schema :
            run = [step |-> "migrate", version |-> v, todo |-> todo, schema |-> schema]
      BY <1>2, <1>3
    <3>2. run' = [run EXCEPT !.todo = SubSeq(S, i + 2, Len(S)),
                             !.schema = After(S, i + 1, stored.schema)]
      BY <1>8, <2>1
    <3>. QED
      BY <3>1, <3>2
  <2>3. /\ i + 1 \in 0..(Len(S) - 1)
        /\ run'.todo = SubSeq(S, (i + 1) + 1, Len(S))
        /\ run'.schema = After(S, i + 1, stored'.schema)
    <3>1. i + 1 \in 0..(Len(S) - 1) /\ (i + 1) + 1 = i + 2
      BY <1>7, <1>8, <1>11
    <3>2. stored'.schema = stored.schema
      BY <2>1
    <3>3. /\ run'.todo = SubSeq(S, i + 2, Len(S))
          /\ run'.schema = After(S, i + 1, stored.schema)
      BY <2>2
    <3>. QED
      BY <3>1, <3>2, <3>3
  <2>4. Migrating(Statements(kind, release, stored.version + 1))'
    BY <1>1, <1>3, <2>1, <2>3 DEF Migrating, S
  <2>5. /\ run' = [step |-> "migrate", version |-> stored'.version,
                   todo |-> run'.todo, schema |-> run'.schema]
        /\ stored'.version < release'
    <3>1. stored'.version = v /\ release' = release /\ v < release
      BY <1>1, <1>3, <2>1 DEF MigrationsInv, Latest
    <3>2. PICK todo, schema :
            run' = [step |-> "migrate", version |-> v, todo |-> todo, schema |-> schema]
      BY <2>2
    <3>3. run'.todo = todo /\ run'.schema = schema
      BY <3>2
    <3>. QED
      BY <3>1, <3>2, <3>3
  <2>. QED
    BY <1>1, <2>1, <2>4, <2>5 DEF MigrationsInv
<1>12. CASE ~(Len(run.todo) > 1)
  <2>1. i + 1 = Len(S)
    BY <1>7, <1>8, <1>12
  <2>2. /\ run' = [run EXCEPT !.todo = <<>>, !.version = @ + 1]
        /\ stored' = [schema |-> After(S, i + 1, stored.schema), version |-> run.version + 1]
    BY <1>9, <1>10, <1>12 DEF Execute
  <2>3. /\ run' = [step |-> "migrate", version |-> v + 1, todo |-> <<>>, schema |-> run.schema]
        /\ stored' = [schema |-> After(S, Len(S), stored.schema), version |-> v + 1]
    <3>1. PICK todo, schema :
            run = [step |-> "migrate", version |-> v, todo |-> todo, schema |-> schema]
      BY <1>2, <1>3
    <3>2. run.version = v /\ run.schema = schema
      BY <3>1
    <3>3. run' = [run EXCEPT !.todo = <<>>, !.version = v + 1]
      BY <2>2, <3>2
    <3>. QED
      BY <2>1, <2>2, <3>1, <3>2, <3>3
  <2>4. After(S, Len(S), stored.schema) \in Schemas(kind, release, v + 1)
    BY <1>4, <1>6 DEF Leads
  <2>5. v + 1 \in 0..release
    BY <1>3 DEF MigrationsInv, Latest
  <2>6. /\ run' = [step |-> "migrate", version |-> stored'.version,
                   todo |-> run'.todo, schema |-> run'.schema]
        /\ run'.todo = <<>>
        /\ stored' = [schema |-> stored'.schema, version |-> stored'.version]
        /\ stored'.version \in 0..release'
        /\ stored'.schema \in Schemas(kind', release', stored'.version)
    BY <1>1, <2>3, <2>4, <2>5
  <2>. QED
    BY <1>1, <2>6 DEF MigrationsInv
<1>. QED
  BY <1>11, <1>12

\* Opening, finishing and restarting; a later release finds a schema it knows.
LEMMA OpenSteps == MigrationsInv /\ (Open \/ Ready \/ Restart) => MigrationsInv'
<1>. SUFFICES ASSUME MigrationsInv, Open \/ Ready \/ Restart PROVE MigrationsInv'
  OBVIOUS
<1>1. CASE Open
  <2>1. /\ run' = [step |-> "migrate", version |-> stored.version, todo |-> <<>>, schema |-> {}]
        /\ UNCHANGED <<kind, stored, release>>
    BY <1>1 DEF Open
  <2>2. /\ run' = [step |-> "migrate", version |-> stored'.version,
                   todo |-> run'.todo, schema |-> run'.schema]
        /\ run'.todo = <<>>
    BY <2>1
  <2>. QED
    BY <2>1, <2>2 DEF MigrationsInv
<1>2. CASE Ready
  <2>1. /\ run.step = "migrate" /\ run.version >= release
        /\ run' = [Stopped EXCEPT !.step = "ready"] /\ UNCHANGED <<kind, stored, release>>
    BY <1>2 DEF Ready
  <2>2. run.version = stored.version
    BY <2>1 DEF MigrationsInv, Stopped
  <2>3. stored.version = release
    BY <2>1, <2>2 DEF MigrationsInv, Latest
  <2>. QED
    BY <2>1, <2>3 DEF MigrationsInv, Stopped
<1>3. CASE Restart
  <2>1. run' = Stopped /\ release' \in release..Latest /\ UNCHANGED <<kind, stored>>
    BY <1>3 DEF Restart
  <2>2. PICK q \in release..Latest : q = release'
    BY <2>1
  <2>3. q \in 1..Latest /\ stored.version \in 0..q
    BY DEF MigrationsInv, Latest
  <2>4. stored.schema \in Schemas(kind, q, stored.version)
    BY SchemasGrow DEF MigrationsInv
  <2>. QED
    BY <2>1, <2>2, <2>3, <2>4 DEF MigrationsInv
<1>. QED
  BY <1>1, <1>2, <1>3

\* Every step keeps the invariant.
LEMMA MigrationsStep == MigrationsInv /\ [MigrationsNext]_migrationVars => MigrationsInv'
<1>1. MigrationsInv /\ UNCHANGED migrationVars => MigrationsInv'
  BY DEF migrationVars, MigrationsInv, Migrating
<1>. QED
  BY <1>1, BeginStep, ExecuteStep, OpenSteps DEF MigrationsNext

\* A database has a version that the releases know, and only objects some release creates.
THEOREM MigrationsTyped == MigrationsSpec => []MigrationsTypeOK
<1>1. MigrationsInv => MigrationsTypeOK
  <2>. SUFFICES ASSUME MigrationsInv PROVE MigrationsTypeOK
    OBVIOUS
  <2>1. stored.version \in 0..Latest
    BY DEF MigrationsInv, Latest
  <2>2. stored.schema \subseteq NewSchema(kind, 1) \cup NewSchema(kind, Latest)
    BY SchemasGrow DEF MigrationsInv
  <2>3. run.step \in {"no", "migrate", "ready", "failed"} /\ run.version \in 0..Latest
    <3>1. CASE run = Stopped
      BY <3>1 DEF Stopped, Latest
    <3>2. CASE run = [Stopped EXCEPT !.step = "ready"]
      BY <3>2 DEF Stopped, Latest
    <3>3. CASE run = [step |-> "migrate", version |-> stored.version,
                      todo |-> run.todo, schema |-> run.schema]
      BY <2>1, <3>3
    <3>. QED
      BY <3>1, <3>2, <3>3 DEF MigrationsInv
  <2>. QED
    BY <2>1, <2>2, <2>3 DEF MigrationsInv, MigrationsTypeOK
<1>. QED
  BY <1>1, MigrationsStart, MigrationsStep, PTL DEF MigrationsSpec

\* Whatever releases have opened a database and wherever their migrations were cut off, migrate
\* never fails and leaves the schema that the release creates in a new database.
THEOREM AlwaysUpgraded == MigrationsSpec => []Upgraded
<1>1. MigrationsInv => Upgraded
  <2>. SUFFICES ASSUME MigrationsInv PROVE Upgraded
    OBVIOUS
  <2>1. run.step # "failed"
    BY DEF MigrationsInv, Stopped
  <2>2. ASSUME run.step = "ready"
        PROVE  stored = [schema |-> NewSchema(kind, release), version |-> release]
    <3>1. stored.version = release
      BY <2>2 DEF MigrationsInv, Stopped
    <3>2. stored.schema = NewSchema(kind, release)
      BY <3>1, SchemasGrow DEF MigrationsInv
    <3>. QED
      BY <3>1, <3>2 DEF MigrationsInv
  <2>. QED
    BY <2>1, <2>2 DEF Upgraded
<1>. QED
  BY <1>1, MigrationsStart, MigrationsStep, PTL DEF MigrationsSpec

-----------------------------------------------------------------------------
(***************************************************************************)
(* Screens.  An operation that has been dealt with shows in what is on     *)
(* screen.  The answers come in the order of the requests, so that a query *)
(* that lacks an operation is answered before the operation is, and a      *)
(* query that neither may miss the operation nor is invalidated is asked   *)
(* after it.  What is on screen, is not being asked and lacks an operation *)
(* whose answer has come is thus still to be invalidated, or may miss it.  *)
(***************************************************************************)
QueryName == {"missing-discs", "category-breakdown", "media-type-breakdown", "discs-recent",
         "recent-searches", "disc-nos-with-ai-items", "disc", "disc-folder", "disc-files",
         "disc-items", "ext-category-map", "disc-item-type-counts", "disc-item-genre-counts",
         "disc-items-by", "ext-counts", "outbox", "conflicts", "search-files", "search-folders"}

Asking == [key: Key, lacks: SUBSET Nat]
Outcome == {"done", "failed"}
Answering == [task: Nat, outcome: Outcome, misses: SUBSET QueryName, todo: Seq(SUBSET QueryName)]
Handler == [task: Nat, outcome: Outcome, misses: SUBSET QueryName, todo: Seq(SUBSET QueryName),
            waits: SUBSET QueryName]

Past == DOMAIN tasks \ running
Deleted == "delete disc" \in Range(tasks)

\* The operation's changes that a query on screen does not show.
Stale(i, key) ==
  key \in Shown(view) /\ key \notin InFlight /\ key \in DOMAIN cached /\ i \in cached[key]

Excused(i, key) ==
  \/ key = "disc" /\ Deleted
  \/ tasks[i] = "delete disc" /\ view \in {"browse", "overview"}

\* What is to show the operation and is not invalidated any more.
Left(a) == QueryName \ (a.misses \cup UNION Range(a.todo))

InOrder(a, b) ==
  /\ ~IsQuery(a) /\ IsQuery(b) => a.task \notin b.lacks
  /\ IsQuery(a) /\ ~IsQuery(b) => a.key \notin Left(b)

AllInOrder(list) == \A m, n \in DOMAIN list : m < n => InOrder(list[m], list[n])

Known(a) ==
  IF IsQuery(a) THEN /\ a.lacks \subseteq Past
                     /\ \A i \in a.lacks : Touches(tasks[i], a.key)
  ELSE a.task \in Past

\* The operation has been answered.
Dealt(i) == (\E h \in handlers : h.task = i) \/ (\E d \in dealt : d.task = i)

\* What is still to follow: code that invalidates, and answers on their way.
Waiting == handlers \cup {a \in Range(answers) : ~IsQuery(a)}

ScreensTyped ==
  /\ view \in View /\ tasks \in Seq(Kind) /\ Len(tasks) <= MaxTasks
  /\ moves \in 0..MaxMoves /\ running \subseteq DOMAIN tasks
  /\ \A i \in running : tasks[i] \in Later
  /\ cached = [key \in DOMAIN cached |-> cached[key]] /\ DOMAIN cached \subseteq Key
  /\ \A key \in DOMAIN cached :
       /\ cached[key] \subseteq Past
       /\ \A i \in cached[key] : Touches(tasks[i], key)
  /\ answers \in Seq(Asking \cup Answering) /\ \A a \in Range(answers) : Known(a)
  /\ handlers \subseteq Handler /\ \A h \in handlers : h.task \in Past
  /\ \A d \in dealt : d.task \in Past

ScreensAsked ==
  /\ Shown(view) \subseteq DOMAIN cached \cup InFlight \cup {"disc"}
  /\ \A h \in handlers : h.waits \subseteq InFlight

ScreensOwed ==
  /\ AllInOrder(answers)
  /\ \A a \in Range(answers) : IsQuery(a) => \A i \in a.lacks : ~Dealt(i)
  /\ \A a \in Waiting : \A key \in Left(a) : Stale(a.task, key) => Excused(a.task, key)
  /\ \A d \in dealt : \A key \in QueryName \ d.misses :
       Stale(d.task, key) => key = "disc" /\ Deleted

ScreensInv == ScreensTyped /\ ScreensAsked /\ ScreensOwed

\* The queries of every screen, and what the operations invalidate, have these names.
LEMMA QueriesNamed ==
  ASSUME NEW v \in View
  PROVE  Queries(v) \in Seq(QueryName)
<1>1. v \in {"browse", "overview", "new disc", "rescan", "search", "search files", "search both",
             "dashboard", "discs", "titles", "group", "categories", "import", "sync"}
  BY DEF View, Components, Searches
<1>2. /\ DashboardQueries \in Seq(QueryName) /\ DiscsQueries \in Seq(QueryName)
      /\ BrowseQueries \in Seq(QueryName) /\ ScanQueries \in Seq(QueryName)
      /\ TitlesQueries \in Seq(QueryName) /\ GroupQueries \in Seq(QueryName)
      /\ CategoriesQueries \in Seq(QueryName) /\ SyncQueries \in Seq(QueryName)
  BY DEF DashboardQueries, DiscsQueries, BrowseQueries, ScanQueries, TitlesQueries, GroupQueries,
         CategoriesQueries, SyncQueries, QueryName
<1>3. OverviewQueries \in Seq(QueryName) /\ Append(ScanQueries, "disc") \in Seq(QueryName)
  <2>1. <<"disc-files", "disc-items">> \in Seq(QueryName) /\ "disc" \in QueryName
    BY DEF QueryName
  <2>. QED
    BY <1>2, <2>1 DEF OverviewQueries
<1>4. ASSUME NEW hits \in {<<>>, <<"search-files">>, <<"search-files", "search-folders">>}
      PROVE  SearchQueries(hits) \in Seq(QueryName)
  <2>1. hits \in Seq(QueryName) /\ <<"ext-category-map">> \in Seq(QueryName)
    <3>1. /\ <<"search-files">> \in Seq(QueryName)
          /\ <<"search-files", "search-folders">> \in Seq(QueryName)
          /\ <<"ext-category-map">> \in Seq(QueryName)
      BY DEF QueryName
    <3>2. CASE hits = <<>>
      BY <3>1, <3>2
    <3>3. CASE hits = <<"search-files">>
      BY <3>1, <3>3
    <3>4. CASE hits = <<"search-files", "search-folders">>
      BY <3>1, <3>4
    <3>. QED
      BY <3>2, <3>3, <3>4
  <2>. QED
    BY <2>1 DEF SearchQueries
<1>5. <<>> \in Seq(QueryName)
  OBVIOUS
<1>. QED
  BY <1>1, <1>2, <1>3, <1>4, <1>5 DEF Queries

\* Screens show queries of the project.
LEMMA KeysNamed ==
  /\ Key \subseteq QueryName
  /\ \A v \in View : Shown(v) \subseteq Key /\ Queries(v) \in Seq(Key)
<1>1. \A v \in View : Shown(v) \subseteq QueryName /\ Shown(v) \subseteq Key
  BY QueriesNamed, RangeOf DEF Shown, Key
<1>2. ASSUME NEW v \in View PROVE Queries(v) \in Seq(Key)
  <2>1. Queries(v) \in Seq(QueryName)
    BY QueriesNamed
  <2>2. \A n \in DOMAIN Queries(v) : Queries(v)[n] \in Key
    BY <1>1, <2>1 DEF Shown, Range
  <2>. QED
    BY <2>1, <2>2
<1>. QED
  BY <1>1, <1>2 DEF Key

\* What is invalidated is a list of sets of names.
LEMMA InvalidatesNamed ==
  ASSUME NEW act \in Kind
  PROVE  Invalidates(act) \in Seq(SUBSET QueryName)
<1>1. /\ Key \in SUBSET QueryName /\ <<Key>> \in Seq(SUBSET QueryName)
      /\ <<>> \in Seq(SUBSET QueryName)
  BY KeysNamed
<1>2. /\ {"missing-discs"} \in SUBSET QueryName /\ {"discs-recent"} \in SUBSET QueryName
      /\ {"disc-nos-with-ai-items"} \in SUBSET QueryName /\ {"disc"} \in SUBSET QueryName
      /\ {"disc-items"} \in SUBSET QueryName /\ {"disc-items", "disc"} \in SUBSET QueryName
      /\ {"ext-category-map"} \in SUBSET QueryName /\ {"outbox"} \in SUBSET QueryName
      /\ {"conflicts"} \in SUBSET QueryName
  BY DEF QueryName
<1>. HIDE DEF QueryName
<1>3. <<{"missing-discs"}, {"discs-recent"}>> \in Seq(SUBSET QueryName)
  BY <1>2
<1>4. <<{"disc-nos-with-ai-items"}, {"discs-recent"}>> \in Seq(SUBSET QueryName)
  BY <1>2
<1>5. /\ <<{"disc"}>> \in Seq(SUBSET QueryName) /\ <<{"disc-items"}>> \in Seq(SUBSET QueryName)
      /\ <<{"disc-items", "disc"}>> \in Seq(SUBSET QueryName)
      /\ <<{"ext-category-map"}>> \in Seq(SUBSET QueryName)
      /\ <<{"outbox"}>> \in Seq(SUBSET QueryName)
      /\ <<{"conflicts"}>> \in Seq(SUBSET QueryName)
  BY <1>2
<1>6. act \in {"retire", "save notes", "remove item", "delete disc", "set category", "discard",
                "dismiss", "record search", "analyze", "pictures", "bulk", "save scan", "import",
                "sync"}
  BY DEF Kind, AtOnce, Later
<1>. QED
  BY <1>1, <1>3, <1>4, <1>5, <1>6 DEF Invalidates, Analyzed

\* The tables that some queries read.
LEMMA SomeReads ==
  /\ Reads("disc") = {"disc"} /\ Reads("disc-folder") = {"file"} /\ Reads("disc-files") = {"file"}
  /\ Reads("disc-items") = {"disc_item"} /\ Reads("disc-nos-with-ai-items") = {"disc_item"}
  /\ Reads("ext-category-map") = {"category_override"} /\ Reads("ext-counts") = {"file"}
  /\ Reads("outbox") = {"outbox"} /\ Reads("conflicts") = {"conflict"}
  /\ Reads("search-files") = {"file", "disc"} /\ Reads("search-folders") = {"file", "disc"}
BY DEF Reads, OfDiscs, OfFiles, OfHits, OfDiscItems, OfItems

\* What one invalidation of a list invalidates.
LEMMA OneOfTwo ==
  ASSUME NEW a, NEW b
  PROVE  UNION Range(<<a>>) = a /\ UNION Range(<<a, b>>) = a \cup b
<1>1. Range(<<a>>) = {a} /\ Range(<<a, b>>) = {a, b}
  BY DEF Range
<1>. QED
  BY <1>1

\* The queries of a disc's overview.
LEMMA OverviewShows ==
  /\ Shown("overview") = Range(OverviewQueries)
  /\ Range(OverviewQueries) = {"disc", "disc-folder", "disc-files", "disc-items"}
<1>1. BrowseQueries \in Seq(QueryName) /\ <<"disc-files", "disc-items">> \in Seq(QueryName)
  BY DEF BrowseQueries, QueryName
<1>2. \A t \in Seq(QueryName) : Range(BrowseQueries \o t) = Range(BrowseQueries) \cup Range(t)
  BY <1>1, RangeOf
<1>3. Range(OverviewQueries)
        = Range(BrowseQueries) \cup Range(<<"disc-files", "disc-items">>)
  BY <1>1, <1>2 DEF OverviewQueries
<1>4. Queries("overview") = OverviewQueries
  BY DEF Queries
<1>. QED
  BY <1>3, <1>4 DEF Range, BrowseQueries, Shown

\* Where an operation that is served at once is offered, every query on screen that shows what it
\* writes is invalidated afterwards; a deleted disc is left for another screen instead.
LEMMA ScreenInvalidated ==
  ASSUME NEW act \in AtOnce, NEW v \in OfferedOn(act), NEW key \in Shown(v), Touches(act, key)
  PROVE  \/ key \in UNION Range(Invalidates(act))
         \/ act = "delete disc" /\ v \in {"browse", "overview"}
<1>1. act \in {"retire", "save notes", "remove item", "delete disc", "set category", "discard",
                "dismiss", "record search"}
  BY DEF AtOnce
<1>2. CASE act = "delete disc"
  BY <1>2 DEF OfferedOn
<1>4. CASE act = "retire"
  <2>1. v = "discs"
    BY <1>4 DEF OfferedOn
  <2>2. key \in {"discs-recent", "missing-discs", "disc-nos-with-ai-items"}
    BY <2>1 DEF Shown, Queries, DiscsQueries, Range
  <2>3. key # "disc-nos-with-ai-items"
    <3>1. Writes(act) = {"disc", "outbox"}
      BY <1>4 DEF Writes
    <3>. QED
      BY <3>1, SomeReads DEF Touches
  <2>4. Invalidates(act) = <<{"missing-discs"}, {"discs-recent"}>>
    BY <1>4 DEF Invalidates
  <2>5. UNION Range(<<{"missing-discs"}, {"discs-recent"}>>)
          = {"missing-discs"} \cup {"discs-recent"}
    BY OneOfTwo
  <2>. QED
    BY <2>2, <2>3, <2>4, <2>5
<1>5. CASE act = "save notes" \/ act = "remove item"
  <2>1. v = "overview"
    BY <1>5 DEF OfferedOn
  <2>2. key \in {"disc", "disc-folder", "disc-files", "disc-items"}
    BY <2>1, OverviewShows
  <2>3. key = IF act = "save notes" THEN "disc" ELSE "disc-items"
    <3>1. Writes(act) = IF act = "save notes" THEN {"disc", "outbox"} ELSE {"disc_item", "outbox"}
      BY <1>5 DEF Writes
    <3>. QED
      BY <1>5, <2>2, <3>1, SomeReads DEF Touches
  <2>4. Invalidates(act) = IF act = "save notes" THEN <<{"disc"}>> ELSE <<{"disc-items"}>>
    BY <1>5 DEF Invalidates
  <2>5. UNION Range(<<{"disc"}>>) = {"disc"} /\ UNION Range(<<{"disc-items"}>>) = {"disc-items"}
    BY OneOfTwo
  <2>. QED
    BY <1>5, <2>3, <2>4, <2>5
<1>6. CASE act = "set category"
  <2>1. v = "categories"
    BY <1>6 DEF OfferedOn
  <2>2. key \in {"ext-category-map", "ext-counts"}
    BY <2>1 DEF Shown, Queries, CategoriesQueries, Range
  <2>3. key = "ext-category-map"
    <3>1. Writes(act) = {"category_override", "outbox"}
      BY <1>6 DEF Writes
    <3>. QED
      BY <2>2, <3>1, SomeReads DEF Touches
  <2>4. Invalidates(act) = <<{"ext-category-map"}>>
    BY <1>6 DEF Invalidates
  <2>5. UNION Range(<<{"ext-category-map"}>>) = {"ext-category-map"}
    BY OneOfTwo
  <2>. QED
    BY <2>3, <2>4, <2>5
<1>7. CASE act = "discard" \/ act = "dismiss"
  <2>1. v = "sync"
    BY <1>7 DEF OfferedOn
  <2>2. key \in {"outbox", "conflicts"}
    BY <2>1 DEF Shown, Queries, SyncQueries, Range
  <2>3. key = IF act = "discard" THEN "outbox" ELSE "conflicts"
    <3>1. Writes(act) = IF act = "discard" THEN {"outbox"} ELSE {"conflict"}
      BY <1>7 DEF Writes
    <3>. QED
      BY <1>7, <2>2, <3>1, SomeReads DEF Touches
  <2>4. Invalidates(act) = IF act = "discard" THEN <<{"outbox"}>> ELSE <<{"conflicts"}>>
    BY <1>7 DEF Invalidates
  <2>5. UNION Range(<<{"outbox"}>>) = {"outbox"} /\ UNION Range(<<{"conflicts"}>>) = {"conflicts"}
    BY OneOfTwo
  <2>. QED
    BY <1>7, <2>3, <2>4, <2>5
<1>8. CASE act = "record search"
  <2>1. v \in {"search files", "search both"}
    BY <1>8 DEF OfferedOn
  <2>2. key \in {"search-files", "search-folders", "ext-category-map"}
    <3>1. PICK hits \in {<<"search-files">>, <<"search-files", "search-folders">>} :
            Queries(v) = hits \o <<"ext-category-map">>
      BY <2>1 DEF Queries, SearchQueries
    <3>2. hits \in Seq(QueryName) /\ <<"ext-category-map">> \in Seq(QueryName)
      <4>1. /\ <<"search-files">> \in Seq(QueryName) /\ <<"ext-category-map">> \in Seq(QueryName)
            /\ <<"search-files", "search-folders">> \in Seq(QueryName)
        BY DEF QueryName
      <4>. QED
        BY <4>1
    <3>3. Shown(v) = Range(hits) \cup Range(<<"ext-category-map">>)
      BY <3>1, <3>2, RangeOf DEF Shown
    <3>4. /\ Range(<<"ext-category-map">>) = {"ext-category-map"}
          /\ Range(<<"search-files">>) = {"search-files"}
          /\ Range(<<"search-files", "search-folders">>) = {"search-files", "search-folders"}
      BY DEF Range
    <3>. QED
      BY <3>3, <3>4
  <2>3. ~Touches(act, key)
    <3>1. Writes(act) = {"search_history"}
      BY <1>8 DEF Writes
    <3>. QED
      BY <2>2, <3>1, SomeReads DEF Touches
  <2>. QED
    BY <2>3
<1>. QED
  BY <1>1, <1>2, <1>4, <1>5, <1>6, <1>7, <1>8

\* A reply is that of a query or that of an operation.
LEMMA ReplyIs ==
  /\ \A a \in Asking : IsQuery(a)
  /\ \A a \in Answering : ~IsQuery(a)
<1>1. ASSUME NEW a \in Asking PROVE IsQuery(a)
  <2>1. DOMAIN a = {"key", "lacks"}
    BY DEF Asking
  <2>. QED
    BY <2>1 DEF IsQuery
<1>2. ASSUME NEW a \in Answering PROVE ~IsQuery(a)
  <2>1. DOMAIN a = {"task", "outcome", "misses", "todo"}
    BY DEF Answering
  <2>. QED
    BY <2>1 DEF IsQuery
<1>. QED
  BY <1>1, <1>2

KeysOf(list) == {a.key : a \in {b \in Range(list) : IsQuery(b)}}

\* Queries that are asked come behind what was asked before, and lack nothing yet.
LEMMA AskedIs ==
  ASSUME NEW v \in View, NEW keys, NEW list \in Seq(Asking \cup Answering), AllInOrder(list)
  PROVE  /\ Asked(list, v, keys) \in Seq(Asking \cup Answering)
         /\ AllInOrder(Asked(list, v, keys))
         /\ Range(list) \subseteq Range(Asked(list, v, keys))
         /\ \A a \in Range(Asked(list, v, keys)) :
              a \in Range(list) \/ (a \in Asking /\ a.lacks = {})
         /\ KeysOf(Asked(list, v, keys)) = KeysOf(list) \cup (Shown(v) \cap keys)
<1>. DEFINE asks == Without(Queries(v), Shown(v) \ keys)
            new == [i \in DOMAIN asks |-> Query(asks[i])]
            all == Asked(list, v, keys)
<1>1. asks \in Seq(Key) /\ Range(asks) = Range(Queries(v)) \ (Shown(v) \ keys)
  BY KeysNamed, RangeWithout
<1>2. Range(asks) = Shown(v) \cap keys
  BY <1>1 DEF Shown
<1>. HIDE DEF asks
<1>3. new \in Seq(Asking) /\ DOMAIN new = DOMAIN asks
  <2>1. \A i \in DOMAIN asks : Query(asks[i]) \in Asking
    BY <1>1 DEF Query, Asking
  <2>. QED
    BY <1>1, <2>1
<1>4. \A i \in DOMAIN new : new[i].lacks = {} /\ new[i].key = asks[i] /\ new[i] \in Asking
  <2>1. ASSUME NEW i \in DOMAIN new
        PROVE  new[i] = Query(asks[i]) /\ new[i] \in Asking
    BY <1>3
  <2>. HIDE DEF new
  <2>. QED
    BY <2>1 DEF Query
<1>5. {a.key : a \in Range(new)} = Shown(v) \cap keys
  BY <1>2, <1>3, <1>4 DEF Range
<1>6. \A a \in Range(new) : a.lacks = {} /\ a \in Asking /\ IsQuery(a)
  BY <1>4, ReplyIs DEF Range
<1>7. all = list \o new
  BY DEF Asked, asks
<1>. HIDE DEF new, all
<1>8. new \in Seq(Asking \cup Answering)
  BY <1>3
<1>9. Range(all) = Range(list) \cup Range(new) /\ all \in Seq(Asking \cup Answering)
  BY <1>7, <1>8, RangeOf
<1>10. AllInOrder(all)
  <2>. SUFFICES ASSUME NEW m \in DOMAIN all, NEW n \in DOMAIN all, m < n
                PROVE  InOrder(all[m], all[n])
    BY DEF AllInOrder
  <2>1. CASE n \in DOMAIN list
    <3>1. m \in DOMAIN list /\ all[m] = list[m] /\ all[n] = list[n]
      BY <1>7, <1>8, <1>9, <2>1
    <3>. QED
      BY <2>1, <3>1 DEF AllInOrder
  <2>2. CASE n \notin DOMAIN list
    <3>1. all[n] \in Range(new)
      <4>1. n - Len(list) \in DOMAIN new /\ all[n] = new[n - Len(list)]
        BY <1>7, <1>8, <1>9, <2>2
      <4>. QED
        BY <4>1 DEF Range
    <3>. QED
      BY <1>6, <3>1 DEF InOrder
  <2>. QED
    BY <2>1, <2>2
<1>11. KeysOf(all) = KeysOf(list) \cup (Shown(v) \cap keys)
  BY <1>5, <1>6, <1>9 DEF KeysOf
<1>. QED
  BY <1>6, <1>9, <1>10, <1>11 DEF all

\* What the user goes to is asked, unless it is on screen already.
LEMMA Shows ==
  ASSUME ScreensInv, NEW v \in View, Show(v), UNCHANGED cached
  PROVE  /\ answers' \in Seq(Asking \cup Answering) /\ AllInOrder(answers')
         /\ view' \in View /\ InFlight \subseteq InFlight'
         /\ Range(answers) \subseteq Range(answers')
         /\ \A a \in Range(answers') : a \in Range(answers) \/ (a \in Asking /\ a.lacks = {})
         /\ Shown(view') \subseteq DOMAIN cached' \cup InFlight' \cup {"disc"}
         /\ \A i, key : Stale(i, key)' =>
              Stale(i, key) /\ \E c \in Components : {view, v} \subseteq c
<1>. DEFINE keys == Mounting(view, v) \ InFlight
<1>1. /\ view' = v /\ answers' = Asked(answers, v, keys)
      /\ answers \in Seq(Asking \cup Answering) /\ AllInOrder(answers) /\ view \in View
      /\ Shown(view) \subseteq DOMAIN cached \cup InFlight \cup {"disc"}
  BY DEF Show, ScreensInv, ScreensTyped, ScreensAsked, ScreensOwed
<1>2. InFlight = KeysOf(answers) /\ InFlight' = KeysOf(answers')
  BY DEF InFlight, KeysOf
<1>. HIDE DEF keys
<1>3. /\ answers' \in Seq(Asking \cup Answering) /\ AllInOrder(answers')
      /\ Range(answers) \subseteq Range(answers')
      /\ \A a \in Range(answers') : a \in Range(answers) \/ (a \in Asking /\ a.lacks = {})
      /\ InFlight' = InFlight \cup (Shown(v) \cap keys)
  BY <1>1, <1>2, AskedIs
<1>4. \A key \in Shown(v) :
        key \in InFlight' \/ (key \in Shown(view) /\ \E c \in Components : {view, v} \subseteq c)
  BY <1>3 DEF keys, Mounting
<1>5. Shown(view') \subseteq DOMAIN cached' \cup InFlight' \cup {"disc"}
  BY <1>1, <1>3, <1>4
<1>6. ASSUME NEW i, NEW key, Stale(i, key)'
      PROVE  Stale(i, key) /\ \E c \in Components : {view, v} \subseteq c
  BY <1>1, <1>3, <1>4, <1>6 DEF Stale
<1>. QED
  BY <1>1, <1>3, <1>5, <1>6

\* The user goes to another screen.
LEMMA MoveStep ==
  ASSUME ScreensInv, NEW v \in View, Move(v)
  PROVE  ScreensInv'
<1>1. /\ ScreensTyped /\ ScreensAsked /\ ScreensOwed
      /\ Show(v) /\ moves < MaxMoves /\ moves' = moves + 1
      /\ UNCHANGED <<cached, tasks, running, handlers, dealt>>
  BY DEF ScreensInv, Move
<1>2. /\ answers' \in Seq(Asking \cup Answering) /\ AllInOrder(answers')
      /\ view' \in View /\ InFlight \subseteq InFlight'
      /\ \A a \in Range(answers') : a \in Range(answers) \/ (a \in Asking /\ a.lacks = {})
      /\ Shown(view') \subseteq DOMAIN cached' \cup InFlight' \cup {"disc"}
      /\ \A i, key : Stale(i, key)' =>
           Stale(i, key) /\ \E c \in Components : {view, v} \subseteq c
  BY <1>1, Shows
<1>3. moves' \in 0..MaxMoves
  BY <1>1, ScreensAssumption DEF ScreensTyped
<1>4. \A a \in Range(answers') : Known(a)'
  <2>. SUFFICES ASSUME NEW a \in Range(answers') PROVE Known(a)'
    OBVIOUS
  <2>1. CASE a \in Range(answers)
    BY <1>1, <2>1 DEF ScreensTyped, Known, Past
  <2>2. CASE a \in Asking /\ a.lacks = {}
    BY <2>2, ReplyIs DEF Known
  <2>. QED
    BY <1>2, <2>1, <2>2
<1>5. ScreensTyped'
  BY <1>1, <1>2, <1>3, <1>4 DEF ScreensTyped, Past
<1>6. ScreensAsked'
  BY <1>1, <1>2 DEF ScreensAsked
<1>7. \A a \in Range(answers') : IsQuery(a) => \A i \in a.lacks : ~Dealt(i)'
  BY <1>1, <1>2 DEF ScreensOwed, Dealt
<1>8. ASSUME NEW i, NEW key, Stale(i, key)', Excused(i, key) PROVE Excused(i, key)'
  <2>1. PICK c \in Components : {view, v} \subseteq c
    BY <1>2, <1>8
  <2>2. view \in {"browse", "overview"} => v \in {"browse", "overview"}
    BY <2>1 DEF Components, Searches
  <2>. QED
    BY <1>1, <1>8, <2>2 DEF Excused, Deleted, Show
<1>9. Waiting' \subseteq Waiting
  BY <1>1, <1>2, ReplyIs DEF Waiting
<1>10. \A a \in Waiting' : \A key \in Left(a) : Stale(a.task, key)' => Excused(a.task, key)'
  <2>. SUFFICES ASSUME NEW a \in Waiting', NEW key \in Left(a), Stale(a.task, key)'
                PROVE  Excused(a.task, key)'
    OBVIOUS
  <2>1. Stale(a.task, key)
    BY <1>2
  <2>2. Excused(a.task, key)
    BY <1>1, <1>9, <2>1 DEF ScreensOwed
  <2>. QED
    BY <1>8, <2>2
<1>11. \A d \in dealt' : \A key \in QueryName \ d.misses :
         Stale(d.task, key)' => key = "disc" /\ Deleted'
  BY <1>1, <1>2 DEF ScreensOwed, Deleted
<1>12. ScreensOwed'
  BY <1>2, <1>7, <1>10, <1>11 DEF ScreensOwed
<1>. QED
  BY <1>5, <1>6, <1>12 DEF ScreensInv

\* An operation takes effect and is answered behind what was asked before: the queries on their
\* way lack it, and what is to show it without being invalidated is not on its way.
LEMMA Took ==
  ASSUME ScreensInv, NEW i, i \notin Past, NEW act, NEW a \in Answering, a.task = i,
         Takes(i, act, <<a>>), UNCHANGED <<view, handlers, dealt, moves>>,
         tasks' \in Seq(Kind), Len(tasks') <= MaxTasks,
         \A j \in DOMAIN tasks : j \in DOMAIN tasks' /\ tasks'[j] = tasks[j],
         i \in Nat, tasks'[i] = act, running' \subseteq DOMAIN tasks', Past' = Past \cup {i},
         \A j \in running' : tasks'[j] \in Later,
         \A key \in Left(a) : /\ key \notin InFlight
                              /\ key \in Shown(view) /\ Touches(act, key) => Excused(i, key)'
  PROVE  ScreensInv'
<1>. DEFINE Aged(r) == IF IsQuery(r) /\ Touches(act, r.key)
                          THEN [r EXCEPT !.lacks = @ \cup {i}] ELSE r
            list == [n \in DOMAIN answers |-> Aged(answers[n])]
<1>1. /\ ScreensTyped /\ ScreensAsked /\ ScreensOwed
      /\ answers \in Seq(Asking \cup Answering)
      /\ answers' = list \o <<a>>
      /\ cached' = [key \in DOMAIN cached |->
                      IF Touches(act, key) THEN cached[key] \cup {i} ELSE cached[key]]
  BY DEF ScreensInv, ScreensTyped, Takes
<1>2. Past \subseteq DOMAIN tasks
  BY DEF Past
<1>3. ASSUME NEW r \in Range(answers)
      PROVE  /\ Aged(r) \in Asking \cup Answering
             /\ IsQuery(Aged(r)) <=> IsQuery(r)
             /\ IsQuery(r) => /\ Aged(r).key = r.key
                              /\ Aged(r).lacks = IF Touches(act, r.key) THEN r.lacks \cup {i}
                                                  ELSE r.lacks
             /\ ~IsQuery(r) => Aged(r) = r
  <2>1. r \in Asking \cup Answering
    BY <1>1 DEF Range
  <2>2. CASE r \in Asking
    <3>1. [r EXCEPT !.lacks = @ \cup {i}] \in Asking
      BY <2>2 DEF Asking
    <3>2. Aged(r) \in Asking
      BY <2>2, <3>1
    <3>. QED
      BY <2>2, <3>2, ReplyIs DEF Asking
  <2>3. CASE r \in Answering
    BY <2>3, ReplyIs
  <2>. QED
    BY <2>1, <2>2, <2>3
<1>4. \A n \in DOMAIN answers : answers[n] \in Range(answers) /\ list[n] = Aged(answers[n])
  BY DEF Range
<1>5. list \in Seq(Asking \cup Answering) /\ DOMAIN list = DOMAIN answers
  <2>. HIDE DEF Aged, list
  <2>1. DOMAIN answers = 1..Len(answers) /\ Len(answers) \in Nat
    BY <1>1
  <2>2. \A n \in DOMAIN answers : Aged(answers[n]) \in Asking \cup Answering
    BY <1>3, <1>4
  <2>3. list = [n \in 1..Len(answers) |-> Aged(answers[n])]
    BY <2>1 DEF list
  <2>. QED
    BY <2>1, <2>2, <2>3
<1>6. Range(list) = {Aged(r) : r \in Range(answers)}
  BY DEF Range
<1>. HIDE DEF Aged, list
<1>7. /\ Range(answers') = Range(list) \cup {a} /\ answers' \in Seq(Asking \cup Answering)
      /\ DOMAIN answers' = DOMAIN list \cup {Len(list) + 1} /\ answers'[Len(list) + 1] = a
      /\ \A n \in DOMAIN list : answers'[n] = list[n] /\ n < Len(list) + 1
  <2>1. answers' = Append(list, a)
    BY <1>1, <1>5
  <2>2. a \in Asking \cup Answering
    OBVIOUS
  <2>3. \A x \in Asking \cup Answering : Range(Append(list, x)) = Range(list) \cup {x}
    BY <1>5, RangeOf
  <2>4. Range(answers') = Range(list) \cup {a}
    BY <2>1, <2>2, <2>3
  <2>. QED
    BY <1>5, <2>1, <2>2, <2>4
<1>8. ~IsQuery(a)
  BY ReplyIs
<1>9. InFlight' = InFlight
  <2>1. ASSUME NEW k \in InFlight' PROVE k \in InFlight
    <3>1. PICK r \in Range(answers') : IsQuery(r) /\ r.key = k
      BY DEF InFlight
    <3>2. PICK q \in Range(answers) : r = Aged(q)
      BY <1>6, <1>7, <1>8, <3>1
    <3>3. IsQuery(q) /\ q.key = k
      BY <1>3, <3>1, <3>2
    <3>. QED
      BY <3>3 DEF InFlight
  <2>2. ASSUME NEW k \in InFlight PROVE k \in InFlight'
    <3>1. PICK q \in Range(answers) : IsQuery(q) /\ q.key = k
      BY DEF InFlight
    <3>2. IsQuery(Aged(q)) /\ Aged(q).key = k /\ Aged(q) \in Range(answers')
      BY <1>3, <1>6, <1>7, <3>1
    <3>. QED
      BY <3>2 DEF InFlight
  <2>. QED
    BY <2>1, <2>2
<1>10. /\ DOMAIN cached' = DOMAIN cached
       /\ \A key \in DOMAIN cached :
            cached'[key] = IF Touches(act, key) THEN cached[key] \cup {i} ELSE cached[key]
       /\ cached' = [key \in DOMAIN cached' |-> cached'[key]]
  BY <1>1
<1>11. ASSUME NEW r \in Range(answers') PROVE Known(r)'
  <2>1. CASE r = a
    BY <1>8, <2>1 DEF Known
  <2>2. CASE r # a
    <3>1. PICK q \in Range(answers) : r = Aged(q)
      BY <1>6, <1>7, <2>2
    <3>2. Known(q)
      BY <1>1 DEF ScreensTyped
    <3>3. CASE IsQuery(q)
      <4>1. /\ q.lacks \subseteq Past /\ \A j \in q.lacks : Touches(tasks[j], q.key)
            /\ IsQuery(r) /\ r.key = q.key
            /\ r.lacks = IF Touches(act, q.key) THEN q.lacks \cup {i} ELSE q.lacks
        BY <1>3, <3>1, <3>2, <3>3 DEF Known
      <4>2. r.lacks \subseteq Past' /\ \A j \in r.lacks : Touches(tasks'[j], r.key)
        BY <1>2, <4>1
      <4>. QED
        BY <4>1, <4>2 DEF Known
    <3>4. CASE ~IsQuery(q)
      BY <1>3, <3>1, <3>2, <3>4 DEF Known
    <3>. QED
      BY <3>3, <3>4
  <2>. QED
    BY <2>1, <2>2
<1>12. ScreensTyped'
  <2>1. \A key \in DOMAIN cached' :
          /\ cached'[key] \subseteq Past'
          /\ \A j \in cached'[key] : Touches(tasks'[j], key)
    BY <1>1, <1>2, <1>10 DEF ScreensTyped
  <2>2. (\A d \in dealt' : d.task \in Past') /\ \A h \in handlers' : h.task \in Past'
    BY <1>1 DEF ScreensTyped
  <2>. QED
    BY <1>1, <1>7, <1>10, <1>11, <2>1, <2>2 DEF ScreensTyped
<1>13. ScreensAsked'
  BY <1>1, <1>9, <1>10 DEF ScreensAsked
<1>14. AllInOrder(answers')
  <2>. SUFFICES ASSUME NEW m \in DOMAIN answers', NEW n \in DOMAIN answers', m < n
                PROVE  InOrder(answers'[m], answers'[n])
    BY DEF AllInOrder
  <2>1. m \in DOMAIN list
    BY <1>5, <1>7
  <2>2. /\ m \in DOMAIN answers /\ answers[m] \in Range(answers)
        /\ answers'[m] = Aged(answers[m])
    BY <1>4, <1>5, <1>7, <2>1
  <2>3. CASE n \in DOMAIN list
    <3>1. /\ n \in DOMAIN answers /\ answers[n] \in Range(answers)
          /\ answers'[n] = Aged(answers[n])
      BY <1>4, <1>5, <1>7, <2>3
    <3>2. InOrder(answers[m], answers[n])
      BY <1>1, <2>2, <3>1 DEF ScreensOwed, AllInOrder
    <3>3. ~IsQuery(answers[m]) => answers[m].task # i
      BY <1>1, <2>2 DEF ScreensTyped, Known
    <3>4. PICK x, y : x = answers[m] /\ y = answers[n]
      OBVIOUS
    <3>5. x \in Range(answers) /\ y \in Range(answers)
      BY <2>2, <3>1, <3>4
    <3>6. /\ IsQuery(Aged(x)) <=> IsQuery(x)
          /\ IsQuery(Aged(y)) <=> IsQuery(y)
          /\ IsQuery(x) => Aged(x).key = x.key
          /\ IsQuery(y) => Aged(y).lacks \subseteq y.lacks \cup {i}
          /\ ~IsQuery(x) => Aged(x) = x
          /\ ~IsQuery(y) => Aged(y) = y
      BY <1>3, <3>5
    <3>7. InOrder(x, y) /\ (~IsQuery(x) => x.task # i)
      BY <3>2, <3>3, <3>4
    <3>8. InOrder(Aged(x), Aged(y))
      BY <3>6, <3>7 DEF InOrder
    <3>. QED
      BY <2>2, <3>1, <3>4, <3>8
  <2>4. CASE n \notin DOMAIN list
    <3>1. answers'[n] = a
      BY <1>7, <2>4
    <3>2. IsQuery(answers[m]) => answers[m].key \in InFlight
      BY <2>2 DEF InFlight
    <3>. QED
      BY <1>3, <1>8, <2>2, <3>1, <3>2 DEF InOrder
  <2>. QED
    BY <2>3, <2>4
<1>15. ~Dealt(i) /\ \A j : Dealt(j)' <=> Dealt(j)
  BY <1>1 DEF Dealt, ScreensTyped
<1>16. ASSUME NEW r \in Range(answers'), IsQuery(r), NEW j \in r.lacks PROVE ~Dealt(j)'
  <2>1. r # a
    BY <1>8, <1>16
  <2>2. PICK q \in Range(answers) : r = Aged(q)
    BY <1>6, <1>7, <2>1
  <2>3. IsQuery(q) /\ (j \in q.lacks \/ j = i)
    BY <1>3, <1>16, <2>2
  <2>. QED
    BY <1>1, <1>15, <2>3 DEF ScreensOwed
<1>17. ASSUME NEW j \in Past, NEW key, Stale(j, key)' PROVE Stale(j, key)
  BY <1>9, <1>10, <1>17 DEF Stale
<1>18. Deleted => Deleted'
  BY DEF Deleted, Range
<1>19. ASSUME NEW j \in Past, NEW key, Excused(j, key) PROVE Excused(j, key)'
  BY <1>2, <1>18, <1>19 DEF Excused
<1>20. ASSUME NEW w \in Waiting', NEW key \in Left(w), Stale(w.task, key)'
       PROVE  Excused(w.task, key)'
  <2>1. CASE w = a
    <3>1. Stale(i, key)'
      BY <1>20, <2>1
    <3>2. key \in Shown(view) /\ key \in DOMAIN cached /\ i \in cached'[key]
      BY <1>10, <3>1 DEF Stale
    <3>3. Touches(act, key)
      BY <1>1, <1>10, <3>2 DEF ScreensTyped
    <3>4. Excused(i, key)'
      BY <2>1, <3>2, <3>3
    <3>. QED
      BY <2>1, <3>4
  <2>2. CASE w # a
    <3>1. w \in Waiting
      <4>1. CASE w \in handlers
        BY <4>1 DEF Waiting
      <4>2. CASE w \notin handlers
        <5>1. w \in Range(answers') /\ ~IsQuery(w)
          BY <4>2 DEF Waiting
        <5>2. PICK q \in Range(answers) : w = Aged(q)
          BY <1>6, <1>7, <2>2, <5>1
        <5>. QED
          BY <1>3, <5>1, <5>2 DEF Waiting
      <4>. QED
        BY <4>1, <4>2
    <3>2. w.task \in Past
      BY <1>1, <3>1 DEF Waiting, ScreensTyped, Known
    <3>3. Excused(w.task, key)
      BY <1>1, <1>17, <1>20, <3>1, <3>2 DEF ScreensOwed
    <3>. QED
      BY <1>19, <3>2, <3>3
  <2>. QED
    BY <2>1, <2>2
<1>21. ASSUME NEW d \in dealt', NEW key \in QueryName \ d.misses, Stale(d.task, key)'
       PROVE  key = "disc" /\ Deleted'
  <2>1. d \in dealt /\ d.task \in Past
    BY <1>1, <1>21 DEF ScreensTyped
  <2>. QED
    BY <1>1, <1>17, <1>18, <1>21, <2>1 DEF ScreensOwed
<1>22. ScreensOwed'
  BY <1>14, <1>16, <1>20, <1>21 DEF ScreensOwed
<1>. QED
  BY <1>12, <1>13, <1>22 DEF ScreensInv

\* An operation is added to those there are.
LEMMA OneMore ==
  ASSUME ScreensTyped, NEW act \in Kind, Len(tasks) < MaxTasks, tasks' = Append(tasks, act)
  PROVE  /\ tasks' \in Seq(Kind) /\ Len(tasks') <= MaxTasks
         /\ Len(tasks') = Len(tasks) + 1 /\ Len(tasks') \in Nat /\ Len(tasks') \notin DOMAIN tasks
         /\ DOMAIN tasks' = DOMAIN tasks \cup {Len(tasks')} /\ tasks'[Len(tasks')] = act
         /\ \A j \in DOMAIN tasks : tasks'[j] = tasks[j]
         /\ Deleted => Deleted'
<1>1. tasks \in Seq(Kind) /\ Len(tasks) \in Nat /\ MaxTasks \in Nat
  BY ScreensAssumption DEF ScreensTyped
<1>2. PICK t : t = tasks'
  OBVIOUS
<1>3. /\ t \in Seq(Kind) /\ Len(t) <= MaxTasks /\ Len(t) = Len(tasks) + 1 /\ Len(t) \in Nat
      /\ DOMAIN t = DOMAIN tasks \cup {Len(t)} /\ t[Len(t)] = act
      /\ Len(t) \notin DOMAIN tasks
      /\ \A j \in DOMAIN tasks : t[j] = tasks[j]
  BY <1>1, <1>2
<1>4. Deleted => Deleted'
  BY <1>2, <1>3 DEF Deleted, Range
<1>. QED
  BY <1>2, <1>3, <1>4

\* What an answer holds, whose code invalidates the queries of a list.
LEMMA AnswerIs ==
  ASSUME ScreensTyped, NEW n \in Nat, NEW concerned, NEW todo \in Seq(SUBSET QueryName), NEW a,
         a = Answer(n, "failed", concerned, todo) \/ a = Answer(n, "done", concerned, todo)
  PROVE  a \in Answering /\ a.task = n /\ a.todo = todo /\ a.misses = Misses(concerned, todo)
<1>1. InFlight \subseteq QueryName
  <2>1. \A b \in Range(answers) : b \in Asking \cup Answering
    BY DEF ScreensTyped, Range
  <2>2. \A b \in Range(answers) : IsQuery(b) => b.key \in Key
    BY <2>1, ReplyIs DEF Asking
  <2>. QED
    BY <2>2, KeysNamed DEF InFlight
<1>2. Shown(view) \subseteq QueryName
  BY KeysNamed DEF ScreensTyped
<1>3. Misses(concerned, todo) \subseteq QueryName
  BY <1>1, <1>2 DEF Misses
<1>. QED
  BY <1>3 DEF Answer, Answering, Outcome

\* A write is served at once.
LEMMA WriteStep ==
  ASSUME ScreensInv, NEW act \in AtOnce, Write(act)
  PROVE  ScreensInv'
<1>. DEFINE i == Len(tasks')
            todo == Invalidates(act)
            a == Answer(i, "done", Concerns(act), todo)
<1>1. /\ ScreensTyped /\ Len(tasks) < MaxTasks /\ view \in OfferedOn(act)
      /\ tasks' = Append(tasks, act) /\ Takes(i, act, <<a>>)
      /\ UNCHANGED <<view, running, handlers, dealt, moves>>
  BY DEF ScreensInv, Write
<1>2. act \in Kind
  BY DEF Kind
<1>3. PICK n \in Nat : n = i
  BY <1>1, <1>2, OneMore
<1>4. /\ tasks' \in Seq(Kind) /\ Len(tasks') <= MaxTasks /\ n \notin DOMAIN tasks
      /\ DOMAIN tasks' = DOMAIN tasks \cup {n} /\ tasks'[n] = act
      /\ \A j \in DOMAIN tasks : j \in DOMAIN tasks' /\ tasks'[j] = tasks[j]
  BY <1>1, <1>2, <1>3, OneMore
<1>5. todo \in Seq(SUBSET QueryName)
  BY <1>2, InvalidatesNamed
<1>. HIDE DEF todo
<1>6. /\ Concerns(act) = Key /\ view \in View /\ Shown(view) \subseteq Key
      /\ Misses(Key, todo) = InFlight \ UNION Range(todo)
  <2>1. act \notin {"analyze", "pictures", "bulk"}
    BY DEF AtOnce
  <2>2. Concerns(act) = Key
    BY <2>1 DEF Concerns
  <2>3. view \in View /\ Shown(view) \subseteq Key
    BY <1>1 DEF ScreensTyped, Key
  <2>. QED
    BY <2>2, <2>3 DEF Misses
<1>. DEFINE r == Answer(n, "done", Concerns(act), todo)
<1>7. r \in Answering /\ r.task = n /\ r.todo = todo
      /\ r.misses = InFlight \ UNION Range(todo)
  <2>1. PICK b : b = r
    OBVIOUS
  <2>2. b \in Answering /\ b.task = n /\ b.todo = todo /\ b.misses = Misses(Key, todo)
    BY <1>1, <1>5, <1>6, <2>1, AnswerIs
  <2>. QED
    BY <1>6, <2>1, <2>2
<1>8. Takes(n, act, <<r>>)
  BY <1>1, <1>3
<1>9. /\ Past' = Past \cup {n} /\ n \notin Past /\ running' \subseteq DOMAIN tasks'
      /\ \A j \in running' : tasks'[j] \in Later
  BY <1>1, <1>4 DEF Past, ScreensTyped
<1>. HIDE DEF r
<1>10. ASSUME NEW key \in Left(r)
       PROVE  /\ key \notin InFlight
              /\ key \in Shown(view) /\ Touches(act, key) => Excused(n, key)'
  <2>1. key \notin InFlight /\ key \notin UNION Range(todo)
    BY <1>7, <1>10 DEF Left
  <2>2. ASSUME key \in Shown(view), Touches(act, key) PROVE Excused(n, key)'
    <3>1. act = "delete disc" /\ view \in {"browse", "overview"}
      BY <1>1, <2>1, <2>2, ScreenInvalidated DEF todo
    <3>. QED
      BY <1>1, <1>4, <3>1 DEF Excused
  <2>. QED
    BY <2>1, <2>2
<1>. QED
  BY <1>1, <1>4, <1>7, <1>8, <1>9, <1>10, Took

\* Operations that only begin leave what is shown and what is to follow as it was.
LEMMA MoreTasks ==
  ASSUME ScreensInv, UNCHANGED <<view, cached, answers, handlers, dealt, moves>>, Past' = Past,
         tasks' \in Seq(Kind), Len(tasks') <= MaxTasks, running' \subseteq DOMAIN tasks',
         \A j \in running' : tasks'[j] \in Later,
         \A j \in DOMAIN tasks : tasks'[j] = tasks[j], Deleted => Deleted'
  PROVE  ScreensInv'
<1>1. /\ ScreensTyped /\ ScreensAsked /\ ScreensOwed /\ Past \subseteq DOMAIN tasks
  BY DEF ScreensInv, Past
<1>2. ASSUME NEW a \in Range(answers') PROVE Known(a)'
  <2>1. Known(a) /\ a \in Range(answers)
    BY <1>1, <1>2 DEF ScreensTyped
  <2>. QED
    BY <1>1, <2>1 DEF Known
<1>3. ScreensTyped'
  <2>1. \A key \in DOMAIN cached' :
          /\ cached'[key] \subseteq Past'
          /\ \A i \in cached'[key] : Touches(tasks'[i], key)
    BY <1>1 DEF ScreensTyped
  <2>. QED
    BY <1>1, <1>2, <2>1 DEF ScreensTyped
<1>4. ScreensAsked'
  BY <1>1 DEF ScreensAsked, InFlight
<1>5. \A i, key : Stale(i, key)' <=> Stale(i, key)
  BY DEF Stale, InFlight
<1>6. \A i \in Past : \A key : Excused(i, key) => Excused(i, key)'
  BY <1>1 DEF Excused
<1>7. \A a \in Waiting : a.task \in Past
  BY <1>1 DEF Waiting, ScreensTyped, Known
<1>8. Waiting' = Waiting /\ \A i : Dealt(i)' <=> Dealt(i)
  BY DEF Waiting, Dealt
<1>9. ScreensOwed'
  <2>1. \A a \in Waiting' : \A key \in Left(a) : Stale(a.task, key)' => Excused(a.task, key)'
    BY <1>1, <1>5, <1>6, <1>7, <1>8 DEF ScreensOwed
  <2>. QED
    BY <1>1, <1>5, <1>8, <2>1 DEF ScreensOwed
<1>. QED
  BY <1>3, <1>4, <1>9 DEF ScreensInv

\* An operation begins that takes its effect later.
LEMMA StartStep ==
  ASSUME ScreensInv, NEW act \in Later, Start(act)
  PROVE  ScreensInv'
<1>1. /\ ScreensTyped /\ ScreensAsked /\ ScreensOwed /\ Len(tasks) < MaxTasks
      /\ tasks' = Append(tasks, act) /\ running' = running \cup {Len(tasks')}
      /\ UNCHANGED <<view, cached, answers, handlers, dealt, recorded, moves>>
  BY DEF ScreensInv, Start
<1>2. act \in Kind
  BY DEF Kind
<1>3. PICK n \in Nat : n = Len(tasks')
  BY <1>1, <1>2, OneMore
<1>4. /\ tasks' \in Seq(Kind) /\ Len(tasks') <= MaxTasks /\ n \notin DOMAIN tasks
      /\ DOMAIN tasks' = DOMAIN tasks \cup {n} /\ (Deleted => Deleted')
      /\ tasks'[n] = act
      /\ \A j \in DOMAIN tasks : tasks'[j] = tasks[j]
  BY <1>1, <1>2, <1>3, OneMore
<1>5. /\ Past' = Past /\ running' \subseteq DOMAIN tasks'
      /\ \A j \in running' : tasks'[j] \in Later
  BY <1>1, <1>3, <1>4 DEF Past, ScreensTyped
<1>. QED
  BY <1>1, <1>4, <1>5, MoreTasks

\* What concerns an operation that takes its effect later, and is touched by it, is invalidated.
LEMMA ConcernsAsked ==
  ASSUME NEW act \in Later, NEW key \in Concerns(act), Touches(act, key)
  PROVE  key \in UNION Range(Invalidates(act))
<1>1. CASE act \in {"analyze", "pictures"}
  <2>1. key \in {"disc", "disc-folder", "disc-files", "disc-items"}
    BY <1>1, OverviewShows DEF Concerns
  <2>2. key \in {"disc-folder", "disc-files"} => Reads(key) = {"file"}
    BY SomeReads
  <2>3. key = "disc" => Reads(key) = {"disc"}
    BY SomeReads
  <2>4. CASE act = "analyze"
    <3>1. UNION Range(Invalidates(act)) = {"disc-items", "disc"}
      BY <2>4, OneOfTwo DEF Invalidates, Analyzed
    <3>2. Writes(act) = {"disc", "disc_item", "outbox"}
      BY <2>4 DEF Writes
    <3>. QED
      BY <2>1, <2>2, <3>1, <3>2 DEF Touches
  <2>5. CASE act = "pictures"
    <3>1. UNION Range(Invalidates(act)) = {"disc-items"}
      BY <2>5, OneOfTwo DEF Invalidates
    <3>2. Writes(act) = {"disc_item", "outbox"}
      BY <2>5 DEF Writes
    <3>. QED
      BY <2>1, <2>2, <2>3, <3>1, <3>2 DEF Touches
  <2>. QED
    BY <1>1, <2>4, <2>5
<1>2. CASE act = "bulk"
  <2>1. Concerns(act) = {"disc-nos-with-ai-items", "discs-recent"}
    BY <1>2 DEF Concerns
  <2>2. Invalidates(act) = <<{"disc-nos-with-ai-items"}, {"discs-recent"}>>
    BY <1>2 DEF Invalidates
  <2>3. UNION Range(<<{"disc-nos-with-ai-items"}, {"discs-recent"}>>)
          = {"disc-nos-with-ai-items"} \cup {"discs-recent"}
    BY OneOfTwo
  <2>. QED
    BY <2>1, <2>2, <2>3
<1>3. CASE act \in {"save scan", "import", "sync"}
  <2>1. Concerns(act) = Key /\ Invalidates(act) = <<Key>>
    BY <1>3 DEF Concerns, Invalidates
  <2>. QED
    BY <2>1, OneOfTwo
<1>. QED
  BY <1>1, <1>2, <1>3 DEF Later

\* An operation takes its effect, succeeds or fails.
LEMMA EndsStep ==
  ASSUME ScreensInv, NEW i \in running, Ends(i)
  PROVE  ScreensInv'
<1>. DEFINE act == tasks[i]
            all == Invalidates(act)
<1>1. /\ ScreensTyped /\ running' = running \ {i}
      /\ \/ Takes(i, act, <<Answer(i, "done", Concerns(act), all)>>)
         \/ act = "bulk" /\ Takes(i, act, <<Answer(i, "failed", {}, Tail(all))>>)
         \/ Takes(i, act, <<Answer(i, "failed", {}, <<>>)>>)
      /\ UNCHANGED <<view, tasks, handlers, dealt, moves>>
  BY DEF ScreensInv, Ends
<1>2. /\ tasks \in Seq(Kind) /\ Len(tasks) <= MaxTasks /\ i \in DOMAIN tasks /\ i \in Nat
      /\ act \in Kind /\ running \subseteq DOMAIN tasks
  BY <1>1 DEF ScreensTyped
<1>3. /\ act \in Later /\ all \in Seq(SUBSET QueryName)
      /\ <<>> \in Seq(SUBSET QueryName)
      /\ act = "bulk" => Tail(all) \in Seq(SUBSET QueryName)
  <2>1. act \in Later
    BY <1>1 DEF ScreensTyped
  <2>2. all \in Seq(SUBSET QueryName)
    BY <1>2, InvalidatesNamed
  <2>3. act = "bulk" => all # <<>>
    BY DEF Invalidates
  <2>. HIDE DEF all
  <2>. QED
    BY <2>1, <2>2, <2>3
<1>4. \A key \in Concerns(act) : Touches(act, key) => key \in UNION Range(all)
  BY <1>3, ConcernsAsked
<1>. HIDE DEF all
<1>5. PICK a, concerned :
        /\ a \in Answering /\ a.task = i /\ a.misses = Misses(concerned, a.todo)
        /\ Takes(i, act, <<a>>)
        /\ \A key \in concerned : Touches(act, key) => key \in UNION Range(a.todo)
  <2>1. CASE Takes(i, act, <<Answer(i, "done", Concerns(act), all)>>)
    <3>1. PICK a : a = Answer(i, "done", Concerns(act), all) /\ Takes(i, act, <<a>>)
      BY <2>1
    <3>2. a \in Answering /\ a.task = i /\ a.todo = all /\ a.misses = Misses(Concerns(act), all)
      BY <1>1, <1>2, <1>3, <3>1, AnswerIs
    <3>. QED
      BY <1>4, <2>1, <3>1, <3>2
  <2>2. PICK none : none = {}
    OBVIOUS
  <2>3. ASSUME NEW rest \in Seq(SUBSET QueryName), NEW a, a = Answer(i, "failed", none, rest),
               Takes(i, act, <<a>>)
        PROVE  /\ a \in Answering /\ Takes(i, act, <<a>>) /\ a.task = i
               /\ a.misses = Misses(none, a.todo)
               /\ \A key \in none : Touches(act, key) => key \in UNION Range(a.todo)
    <3>1. ScreensTyped /\ i \in Nat
      BY <1>1, <1>2
    <3>2. a \in Answering /\ a.task = i /\ a.todo = rest /\ a.misses = Misses(none, rest)
      BY ONLY <2>3, <3>1, AnswerIs
    <3>. QED
      BY <2>2, <2>3, <3>2
  <2>4. CASE act = "bulk" /\ Takes(i, act, <<Answer(i, "failed", {}, Tail(all))>>)
    <3>1. PICK rest \in Seq(SUBSET QueryName) : rest = Tail(all)
      BY <1>3, <2>4
    <3>2. PICK a : a = Answer(i, "failed", none, rest) /\ Takes(i, act, <<a>>)
      BY <2>2, <2>4, <3>1
    <3>. QED
      BY <2>3, <3>2
  <2>5. CASE Takes(i, act, <<Answer(i, "failed", {}, <<>>)>>)
    <3>1. PICK rest \in Seq(SUBSET QueryName) : rest = <<>>
      BY <1>3
    <3>2. PICK a : a = Answer(i, "failed", none, rest) /\ Takes(i, act, <<a>>)
      BY <2>2, <2>5, <3>1
    <3>. QED
      BY <2>3, <3>2
  <2>. QED
    BY <1>1, <2>1, <2>4, <2>5
<1>6. Past' = Past \cup {i} /\ i \notin Past /\ running' \subseteq DOMAIN tasks'
  BY <1>1, <1>2 DEF Past
<1>7. ASSUME NEW key \in Left(a)
      PROVE  key \notin InFlight /\ (key \in Shown(view) /\ Touches(act, key) => FALSE)
  <2>1. key \notin UNION Range(a.todo) /\ key \notin Misses(concerned, a.todo)
    BY <1>5, <1>7 DEF Left
  <2>. QED
    BY <1>5, <2>1 DEF Misses
<1>8. \A j \in running' : tasks'[j] \in Later
  BY <1>1 DEF ScreensTyped
<1>. QED
  BY <1>1, <1>2, <1>5, <1>6, <1>7, <1>8, Took

\* A list that is not empty is its first element and the rest.
LEMMA HeadAndTail ==
  ASSUME NEW T, NEW s \in Seq(T), s # <<>>
  PROVE  /\ Head(s) \in T /\ Head(s) = s[1] /\ Tail(s) \in Seq(T) /\ 1 \in DOMAIN s
         /\ \A n \in DOMAIN Tail(s) : n + 1 \in DOMAIN s /\ Tail(s)[n] = s[n + 1] /\ 1 < n + 1
         /\ \A n \in DOMAIN s : n = 1 \/ (n - 1 \in DOMAIN Tail(s) /\ Tail(s)[n - 1] = s[n])
         /\ Range(s) = {Head(s)} \cup Range(Tail(s))
<1>1. /\ Head(s) \in T /\ Head(s) = s[1] /\ Tail(s) \in Seq(T) /\ 1 \in DOMAIN s
  OBVIOUS
<1>2. \A n \in DOMAIN Tail(s) : n + 1 \in DOMAIN s /\ Tail(s)[n] = s[n + 1] /\ 1 < n + 1
  OBVIOUS
<1>3. \A n \in DOMAIN s : n = 1 \/ (n - 1 \in DOMAIN Tail(s) /\ Tail(s)[n - 1] = s[n])
  OBVIOUS
<1>4. ASSUME NEW x \in Range(s) PROVE x \in {Head(s)} \cup Range(Tail(s))
  <2>1. PICK n \in DOMAIN s : x = s[n]
    BY DEF Range
  <2>2. CASE n = 1
    BY <1>1, <2>1, <2>2
  <2>3. CASE n # 1
    <3>1. n - 1 \in DOMAIN Tail(s) /\ Tail(s)[n - 1] = x
      BY <1>3, <2>1, <2>3
    <3>. QED
      BY <3>1 DEF Range
  <2>. QED
    BY <2>2, <2>3
<1>5. ASSUME NEW x \in {Head(s)} \cup Range(Tail(s)) PROVE x \in Range(s)
  <2>1. CASE x = Head(s)
    BY <1>1, <2>1 DEF Range
  <2>2. CASE x \in Range(Tail(s))
    <3>1. PICK n \in DOMAIN Tail(s) : x = Tail(s)[n]
      BY <2>2 DEF Range
    <3>2. n + 1 \in DOMAIN s /\ s[n + 1] = x
      BY <1>2, <3>1
    <3>. QED
      BY <3>2 DEF Range
  <2>. QED
    BY <1>5, <2>1, <2>2
<1>6. Range(s) = {Head(s)} \cup Range(Tail(s))
  BY <1>4, <1>5
<1>. QED
  BY <1>1, <1>2, <1>3, <1>6

\* Answers that are not ignored keep their order.
LEMMA KeptInOrder ==
  ASSUME NEW list \in Seq(Asking \cup Answering), AllInOrder(list), NEW I, I \subseteq DOMAIN list
  PROVE  /\ Kept(list, I) \in Seq(Asking \cup Answering) /\ AllInOrder(Kept(list, I))
         /\ Range(Kept(list, I)) = {list[n] : n \in I}
<1>. DEFINE c == Cardinality(I)
            kept == Kept(list, I)
<1>0. \E pos \in [1..Cardinality(I) -> I] :
        /\ \A i \in I : \E k \in 1..Cardinality(I) : pos[k] = i
        /\ \A k, l \in 1..Cardinality(I) : k < l => pos[k] < pos[l]
        /\ Kept(list, I) = [k \in 1..Cardinality(I) |-> list[pos[k]]]
        /\ Kept(list, I) \in Seq(Asking \cup Answering)
        /\ Len(Kept(list, I)) = Cardinality(I)
  BY KeptOf, Zenon
<1>1. PICK pos \in [1..c -> I] :
        /\ \A i \in I : \E k \in 1..c : pos[k] = i
        /\ \A k, l \in 1..c : k < l => pos[k] < pos[l]
        /\ kept = [k \in 1..c |-> list[pos[k]]]
        /\ kept \in Seq(Asking \cup Answering)
  BY <1>0
<1>. HIDE DEF kept, c
<1>2. DOMAIN kept = 1..c /\ \A k \in 1..c : kept[k] = list[pos[k]] /\ pos[k] \in I
  BY <1>1
<1>3. AllInOrder(kept)
  <2>. SUFFICES ASSUME NEW m \in DOMAIN kept, NEW n \in DOMAIN kept, m < n
                PROVE  InOrder(kept[m], kept[n])
    BY DEF AllInOrder
  <2>1. pos[m] < pos[n] /\ pos[m] \in DOMAIN list /\ pos[n] \in DOMAIN list
    BY <1>1, <1>2
  <2>. QED
    BY <1>2, <2>1 DEF AllInOrder
<1>4. Range(kept) = {list[n] : n \in I}
  <2>1. ASSUME NEW n \in I PROVE list[n] \in Range(kept)
    <3>1. PICK k \in 1..c : pos[k] = n
      BY <1>1
    <3>2. k \in DOMAIN kept /\ kept[k] = list[n]
      BY <1>2, <3>1
    <3>. QED
      BY <3>2 DEF Range
  <2>2. ASSUME NEW x \in Range(kept) PROVE \E n \in I : x = list[n]
    <3>1. PICK k \in DOMAIN kept : x = kept[k]
      BY <2>2 DEF Range
    <3>. QED
      BY <1>2, <3>1
  <2>. QED
    BY <2>1, <2>2
<1>. QED
  BY <1>1, <1>3, <1>4 DEF kept

\* Queries are invalidated: what of them is on screen is asked again.
LEMMA InvalidateStep ==
  ASSUME ScreensInv, NEW h \in handlers, Invalidate(h)
  PROVE  ScreensInv'
<1>. DEFINE active == Head(h.todo) \cap Shown(view)
            again == active \ (InFlight \ DOMAIN cached)
            left == {n \in DOMAIN answers : ~(IsQuery(answers[n]) /\ answers[n].key \in again)}
            kept == Kept(answers, left)
            next == [h EXCEPT !.todo = Tail(@), !.waits = active]
            other(g) == [g EXCEPT !.waits = @ \ again]
<1>1. /\ ScreensTyped /\ ScreensAsked /\ ScreensOwed
      /\ h.waits = {} /\ h.todo # <<>>
      /\ answers' = Asked(kept, view, again)
      /\ handlers' = {other(g) : g \in handlers \ {h}} \cup {next}
      /\ UNCHANGED <<view, cached, tasks, running, dealt, recorded, moves>>
  BY DEF ScreensInv, Invalidate
<1>2. /\ answers \in Seq(Asking \cup Answering) /\ view \in View /\ AllInOrder(answers)
      /\ handlers \subseteq Handler /\ h \in Handler
  BY <1>1 DEF ScreensTyped, ScreensOwed
<1>3. /\ kept \in Seq(Asking \cup Answering) /\ AllInOrder(kept)
      /\ Range(kept) = {answers[n] : n \in left}
  <2>1. left \subseteq DOMAIN answers
    OBVIOUS
  <2>. HIDE DEF left
  <2>. QED
    BY <1>2, <2>1, KeptInOrder
<1>. HIDE DEF kept
<1>4. Range(kept) \subseteq Range(answers)
  BY <1>3 DEF Range
<1>5. KeysOf(kept) = InFlight \ again
  <2>1. ASSUME NEW k \in KeysOf(kept) PROVE k \in InFlight \ again
    <3>1. PICK a \in Range(kept) : IsQuery(a) /\ a.key = k
      BY DEF KeysOf
    <3>2. PICK n \in left : a = answers[n]
      BY <1>3, <3>1
    <3>3. k \notin again
      BY <3>1, <3>2
    <3>. QED
      BY <1>4, <3>1, <3>3 DEF InFlight
  <2>2. ASSUME NEW k \in InFlight \ again PROVE k \in KeysOf(kept)
    <3>1. PICK a \in Range(answers) : IsQuery(a) /\ a.key = k
      BY DEF InFlight
    <3>2. PICK n \in DOMAIN answers : a = answers[n]
      BY <3>1 DEF Range
    <3>3. n \in left
      BY <2>2, <3>1, <3>2
    <3>4. a \in Range(kept)
      BY <1>3, <3>2, <3>3
    <3>. QED
      BY <3>1, <3>4 DEF KeysOf
  <2>. QED
    BY <2>1, <2>2
<1>. HIDE DEF left
<1>6. /\ answers' \in Seq(Asking \cup Answering) /\ AllInOrder(answers')
      /\ \A a \in Range(answers') : a \in Range(kept) \/ (a \in Asking /\ a.lacks = {})
      /\ KeysOf(answers') = KeysOf(kept) \cup (Shown(view) \cap again)
  BY <1>1, <1>2, <1>3, AskedIs
<1>7. InFlight' = InFlight \cup again
  BY <1>5, <1>6 DEF InFlight, KeysOf
<1>8. active \subseteq InFlight' /\ active \subseteq QueryName
  <2>1. Shown(view) \subseteq QueryName
    BY <1>2, KeysNamed
  <2>. QED
    BY <1>7, <2>1
<1>9. ASSUME NEW a \in Range(answers') PROVE Known(a)'
  <2>1. CASE a \in Range(answers)
    BY <1>1, <2>1 DEF ScreensTyped, Known, Past
  <2>2. CASE a \in Asking /\ a.lacks = {}
    BY <2>2, ReplyIs DEF Known
  <2>. QED
    BY <1>4, <1>6, <2>1, <2>2
<1>10. /\ next \in Handler /\ next.task = h.task /\ next.misses = h.misses /\ next.waits = active
       /\ next.todo = Tail(h.todo)
  <2>1. Tail(h.todo) \in Seq(SUBSET QueryName)
    BY <1>1, <1>2 DEF Handler
  <2>. HIDE DEF active
  <2>. QED
    BY <1>2, <1>8, <2>1 DEF Handler
<1>. HIDE DEF next
<1>11. \A g \in handlers : /\ other(g) \in Handler /\ other(g).task = g.task
                           /\ Left(other(g)) = Left(g) /\ other(g).waits \subseteq g.waits
  <2>1. ASSUME NEW g \in Handler
        PROVE  /\ other(g) \in Handler /\ other(g).task = g.task /\ other(g).misses = g.misses
               /\ other(g).todo = g.todo /\ other(g).waits \subseteq g.waits
    <3>. HIDE DEF again
    <3>. QED
      BY DEF Handler
  <2>. QED
    BY <1>2, <2>1 DEF Left
<1>. HIDE DEF other
<1>12. ScreensTyped'
  <2>1. handlers' \subseteq Handler /\ \A g \in handlers' : g.task \in Past'
    BY <1>1, <1>10, <1>11 DEF ScreensTyped, Past
  <2>2. /\ view' \in View /\ tasks' \in Seq(Kind) /\ Len(tasks') <= MaxTasks
        /\ moves' \in 0..MaxMoves /\ running' \subseteq DOMAIN tasks' /\ Past' = Past
        /\ \A i \in running' : tasks'[i] \in Later
        /\ cached' = [key \in DOMAIN cached' |-> cached'[key]] /\ DOMAIN cached' \subseteq Key
        /\ \A d \in dealt' : d.task \in Past'
    BY <1>1 DEF ScreensTyped, Past
  <2>3. \A key \in DOMAIN cached' :
          /\ cached'[key] \subseteq Past'
          /\ \A i \in cached'[key] : Touches(tasks'[i], key)
    BY <1>1, <2>2 DEF ScreensTyped
  <2>. QED
    BY <1>6, <1>9, <2>1, <2>2, <2>3 DEF ScreensTyped
<1>13. ScreensAsked'
  <2>1. \A g \in handlers' : g.waits \subseteq InFlight'
    BY <1>1, <1>7, <1>8, <1>10, <1>11 DEF ScreensAsked
  <2>. QED
    BY <1>1, <1>7, <2>1 DEF ScreensAsked
<1>14. \A i : Dealt(i)' <=> Dealt(i)
  <2>1. {g.task : g \in handlers'} = {g.task : g \in handlers}
    <3>1. \A g \in handlers' : \E f \in handlers : f.task = g.task
      BY <1>1, <1>10, <1>11
    <3>2. \A f \in handlers : \E g \in handlers' : f.task = g.task
      BY <1>1, <1>10, <1>11
    <3>. QED
      BY <3>1, <3>2
  <2>2. /\ \A i : Dealt(i) <=> i \in {g.task : g \in handlers}
                                 \/ \E d \in dealt : d.task = i
        /\ \A i : Dealt(i)' <=> i \in {g.task : g \in handlers'}
                                  \/ \E d \in dealt' : d.task = i
    BY DEF Dealt
  <2>. QED
    BY <1>1, <2>1, <2>2
<1>15. \A i, key : Stale(i, key)' => Stale(i, key)
  BY <1>1, <1>7 DEF Stale
<1>16. \A i, key : Excused(i, key)' <=> Excused(i, key)
  BY <1>1 DEF Excused, Deleted
<1>17. \A a \in Range(answers') : IsQuery(a) => \A i \in a.lacks : ~Dealt(i)'
  BY <1>1, <1>4, <1>6, <1>14 DEF ScreensOwed
<1>18. ASSUME NEW w \in Waiting', NEW key \in Left(w), Stale(w.task, key)'
       PROVE  Excused(w.task, key)'
  <2>1. CASE w = next
    <3>1. key \notin active
      BY <1>8, <1>18 DEF Stale
    <3>2. key \notin Head(h.todo)
      BY <1>1, <1>18, <3>1 DEF Stale
    <3>3. Range(h.todo) \subseteq {Head(h.todo)} \cup Range(Tail(h.todo))
      <4>1. h.todo \in Seq(SUBSET QueryName)
        BY <1>2 DEF Handler
      <4>. QED
        BY <1>1, <4>1, HeadAndTail
    <3>4. key \in Left(h)
      BY <1>10, <1>18, <2>1, <3>2, <3>3 DEF Left
    <3>5. h \in Waiting /\ Stale(h.task, key)
      BY <1>10, <1>15, <1>18, <2>1 DEF Waiting
    <3>. QED
      BY <1>1, <1>10, <1>16, <2>1, <3>4, <3>5 DEF ScreensOwed
  <2>2. CASE w # next
    <3>1. PICK g \in Waiting : w.task = g.task /\ Left(w) = Left(g)
      <4>1. CASE w \in handlers'
        <5>1. PICK g \in handlers \ {h} : w = other(g)
          BY <1>1, <2>2, <4>1
        <5>. QED
          BY <1>11, <5>1 DEF Waiting
      <4>2. CASE w \notin handlers'
        <5>1. w \in Range(answers') /\ ~IsQuery(w)
          BY <4>2 DEF Waiting
        <5>2. w \in Range(answers)
          BY <1>4, <1>6, <5>1, ReplyIs
        <5>. QED
          BY <5>1, <5>2 DEF Waiting
      <4>. QED
        BY <4>1, <4>2
    <3>. QED
      BY <1>1, <1>15, <1>16, <1>18, <3>1 DEF ScreensOwed
  <2>. QED
    BY <2>1, <2>2
<1>19. \A d \in dealt' : \A key \in QueryName \ d.misses :
         Stale(d.task, key)' => key = "disc" /\ Deleted'
  BY <1>1, <1>15 DEF ScreensOwed, Deleted
<1>20. ScreensOwed'
  BY <1>6, <1>17, <1>18, <1>19 DEF ScreensOwed
<1>. QED
  BY <1>12, <1>13, <1>20 DEF ScreensInv

\* What follows an operation is over: it has been dealt with from now on.  A deleted disc is left.
LEMMA DoneStep ==
  ASSUME ScreensInv, NEW h \in handlers, Done(h)
  PROVE  ScreensInv'
<1>. DEFINE d == [task |-> h.task, misses |-> h.misses]
<1>1. /\ ScreensTyped /\ ScreensAsked /\ ScreensOwed
      /\ h.todo = <<>> /\ handlers' = handlers \ {h}
      /\ dealt' = dealt \cup {d}
      /\ IF tasks[h.task] = "delete disc" /\ view # "discs" THEN Show("discs")
         ELSE UNCHANGED <<view, answers, recorded>>
      /\ \/ tasks' = Append(tasks, "pictures") /\ Len(tasks) < MaxTasks
            /\ running' = running \cup {Len(tasks')}
         \/ UNCHANGED <<tasks, running>>
      /\ UNCHANGED <<cached, moves>>
  BY DEF ScreensInv, Done
<1>2. /\ h \in Handler /\ h.task \in Past /\ Left(h) = QueryName \ h.misses
      /\ d.task = h.task /\ d.misses = h.misses
  <2>1. h \in Handler /\ h.task \in Past
    BY <1>1 DEF ScreensTyped
  <2>2. Range(<<>>) = {}
    BY DEF Range
  <2>. QED
    BY <1>1, <2>1, <2>2 DEF Left
<1>3. /\ tasks' \in Seq(Kind) /\ Len(tasks') <= MaxTasks /\ running' \subseteq DOMAIN tasks'
      /\ Past' = Past /\ (\A j \in DOMAIN tasks : tasks'[j] = tasks[j]) /\ (Deleted => Deleted')
      /\ \A i \in running' : tasks'[i] \in Later
  <2>1. CASE UNCHANGED <<tasks, running>>
    BY <1>1, <2>1 DEF ScreensTyped, Past, Deleted
  <2>2. CASE tasks' = Append(tasks, "pictures") /\ Len(tasks) < MaxTasks
             /\ running' = running \cup {Len(tasks')}
    <3>1. "pictures" \in Kind /\ "pictures" \in Later
      BY DEF Kind, Later
    <3>2. PICK n \in Nat : n = Len(tasks')
      BY <1>1, <2>2, <3>1, OneMore
    <3>3. /\ tasks' \in Seq(Kind) /\ Len(tasks') <= MaxTasks /\ n \notin DOMAIN tasks
          /\ DOMAIN tasks' = DOMAIN tasks \cup {n} /\ (Deleted => Deleted')
          /\ tasks'[n] = "pictures"
          /\ \A j \in DOMAIN tasks : tasks'[j] = tasks[j]
      BY <1>1, <2>2, <3>1, <3>2, OneMore
    <3>4. running \subseteq DOMAIN tasks /\ running' = running \cup {n}
      BY <1>1, <2>2, <3>2 DEF ScreensTyped
    <3>5. ASSUME NEW i \in running' PROVE tasks'[i] \in Later
      <4>1. i = n \/ (i \in running /\ i \in DOMAIN tasks /\ tasks[i] \in Later)
        BY <1>1, <3>4, <3>5 DEF ScreensTyped
      <4>. QED
        BY <3>1, <3>3, <4>1
    <3>6. Past' = Past /\ running' \subseteq DOMAIN tasks'
      BY <3>3, <3>4 DEF Past
    <3>. QED
      BY <3>3, <3>5, <3>6
  <2>. QED
    BY <1>1, <2>1, <2>2
<1>4. /\ answers' \in Seq(Asking \cup Answering) /\ AllInOrder(answers')
      /\ view' \in View /\ InFlight \subseteq InFlight'
      /\ \A a \in Range(answers') : a \in Range(answers) \/ (a \in Asking /\ a.lacks = {})
      /\ Shown(view') \subseteq DOMAIN cached' \cup InFlight' \cup {"disc"}
      /\ \A i, key : Stale(i, key)' =>
           /\ Stale(i, key) /\ view' = view
           /\ ~(tasks[h.task] = "delete disc" /\ view # "discs")
  <2>1. CASE tasks[h.task] = "delete disc" /\ view # "discs"
    <3>1. Show("discs") /\ "discs" \in View
      BY <1>1, <2>1 DEF View
    <3>2. ~ \E c \in Components : {view, "discs"} \subseteq c
      BY DEF Components, Searches
    <3>3. /\ answers' \in Seq(Asking \cup Answering) /\ AllInOrder(answers')
          /\ view' \in View /\ InFlight \subseteq InFlight'
          /\ \A a \in Range(answers') : a \in Range(answers) \/ (a \in Asking /\ a.lacks = {})
          /\ Shown(view') \subseteq DOMAIN cached' \cup InFlight' \cup {"disc"}
          /\ \A i, key : Stale(i, key)' =>
               Stale(i, key) /\ \E c \in Components : {view, "discs"} \subseteq c
      BY <1>1, <3>1, Shows
    <3>. QED
      BY <3>2, <3>3
  <2>2. CASE ~(tasks[h.task] = "delete disc" /\ view # "discs")
    <3>1. UNCHANGED <<view, answers, cached>>
      BY <1>1, <2>2
    <3>2. InFlight' = InFlight
      BY <3>1 DEF InFlight
    <3>. QED
      BY <1>1, <2>2, <3>1, <3>2 DEF ScreensTyped, ScreensOwed, ScreensAsked, Stale
  <2>. QED
    BY <2>1, <2>2
<1>5. Past \subseteq DOMAIN tasks
  BY DEF Past
<1>6. ASSUME NEW a \in Range(answers') PROVE Known(a)'
  <2>1. CASE a \in Range(answers)
    <3>1. Known(a)
      BY <1>1, <2>1 DEF ScreensTyped
    <3>. QED
      BY <1>3, <1>5, <3>1 DEF Known
  <2>2. CASE a \in Asking /\ a.lacks = {}
    BY <2>2, ReplyIs DEF Known
  <2>. QED
    BY <1>4, <1>6, <2>1, <2>2
<1>7. ScreensTyped'
  <2>1. \A key \in DOMAIN cached' :
          /\ cached'[key] \subseteq Past'
          /\ \A i \in cached'[key] : Touches(tasks'[i], key)
    BY <1>1, <1>3, <1>5 DEF ScreensTyped
  <2>2. \A e \in dealt' : e.task \in Past'
    BY <1>1, <1>2, <1>3 DEF ScreensTyped
  <2>3. /\ handlers' \subseteq Handler /\ \A g \in handlers' : g.task \in Past'
        /\ cached' = [key \in DOMAIN cached' |-> cached'[key]] /\ DOMAIN cached' \subseteq Key
        /\ moves' \in 0..MaxMoves
    BY <1>1, <1>3 DEF ScreensTyped
  <2>. QED
    BY <1>3, <1>4, <1>6, <2>1, <2>2, <2>3 DEF ScreensTyped
<1>8. ScreensAsked'
  BY <1>1, <1>4 DEF ScreensAsked
<1>9. \A i : Dealt(i)' => Dealt(i)
  BY <1>1, <1>2 DEF Dealt
<1>10. \A a \in Range(answers') : IsQuery(a) => \A i \in a.lacks : ~Dealt(i)'
  BY <1>1, <1>4, <1>9 DEF ScreensOwed
<1>11. ASSUME NEW i \in Past, NEW key, Excused(i, key), view' = view PROVE Excused(i, key)'
  BY <1>3, <1>5, <1>11 DEF Excused
<1>12. Waiting' \subseteq Waiting
  BY <1>1, <1>4, ReplyIs DEF Waiting
<1>13. \A a \in Waiting : a.task \in Past
  BY <1>1 DEF Waiting, ScreensTyped, Known
<1>14. ASSUME NEW a \in Waiting', NEW key \in Left(a), Stale(a.task, key)'
       PROVE  Excused(a.task, key)'
  <2>1. Stale(a.task, key) /\ view' = view
    BY <1>4, <1>14
  <2>2. Excused(a.task, key) /\ a.task \in Past
    BY <1>1, <1>12, <1>13, <1>14, <2>1 DEF ScreensOwed
  <2>. QED
    BY <1>11, <2>1, <2>2
<1>15. ASSUME NEW e \in dealt', NEW key \in QueryName \ e.misses, Stale(e.task, key)'
       PROVE  key = "disc" /\ Deleted'
  <2>1. Stale(e.task, key) /\ ~(tasks[h.task] = "delete disc" /\ view # "discs")
    BY <1>4, <1>15
  <2>2. CASE e \in dealt
    BY <1>1, <1>3, <1>15, <2>1, <2>2 DEF ScreensOwed
  <2>3. CASE e \notin dealt
    <3>1. e.task = h.task /\ key \in Left(h)
      BY <1>1, <1>2, <1>15, <2>3
    <3>2. Excused(e.task, key)
      BY <1>1, <2>1, <3>1 DEF ScreensOwed, Waiting
    <3>. QED
      BY <1>3, <2>1, <3>1, <3>2 DEF Excused
  <2>. QED
    BY <2>2, <2>3
<1>16. ScreensOwed'
  BY <1>4, <1>10, <1>14, <1>15 DEF ScreensOwed
<1>. QED
  BY <1>7, <1>8, <1>16 DEF ScreensInv

\* The oldest answer leaves the others in their order.
LEMMA OldestLeaves ==
  ASSUME ScreensInv, answers # <<>>, answers' = Tail(answers)
  PROVE  /\ Head(answers) \in Asking \cup Answering /\ Known(Head(answers))
         /\ Range(answers) = {Head(answers)} \cup Range(answers')
         /\ answers' \in Seq(Asking \cup Answering) /\ AllInOrder(answers')
         /\ \A b \in Range(answers') : InOrder(Head(answers), b)
<1>1. /\ answers \in Seq(Asking \cup Answering) /\ AllInOrder(answers)
      /\ \A a \in Range(answers) : Known(a)
  BY DEF ScreensInv, ScreensTyped, ScreensOwed
<1>2. PICK rest : rest = answers'
  OBVIOUS
<1>3. /\ Head(answers) \in Asking \cup Answering /\ Head(answers) = answers[1]
      /\ rest \in Seq(Asking \cup Answering) /\ 1 \in DOMAIN answers
      /\ \A n \in DOMAIN rest :
           n + 1 \in DOMAIN answers /\ rest[n] = answers[n + 1] /\ 1 < n + 1
      /\ Range(answers) = {Head(answers)} \cup Range(rest)
  BY <1>1, <1>2, HeadAndTail
<1>4. ASSUME NEW m \in DOMAIN rest, NEW n \in DOMAIN rest, m < n
      PROVE  InOrder(rest[m], rest[n])
  <2>1. m + 1 < n + 1
    BY <1>3, <1>4
  <2>. QED
    BY <1>1, <1>3, <2>1 DEF AllInOrder
<1>5. \A b \in Range(rest) : InOrder(Head(answers), b)
  BY <1>1, <1>3 DEF AllInOrder, Range
<1>6. AllInOrder(rest)
  BY <1>4 DEF AllInOrder
<1>. QED
  BY <1>1, <1>2, <1>3, <1>5, <1>6

\* The oldest answer is that of a query, which has its value.
LEMMA QueryArrives ==
  ASSUME ScreensInv, Arrives, IsQuery(Head(answers))
  PROVE  ScreensInv'
<1>. DEFINE a == Head(answers)
            other(g) == [g EXCEPT !.waits = @ \ {a.key}]
<1>1. /\ ScreensTyped /\ ScreensAsked /\ ScreensOwed
      /\ answers # <<>> /\ answers' = Tail(answers)
      /\ cached' = IF Fails(a) THEN cached
                   ELSE [key \in DOMAIN cached \cup {a.key} |->
                           IF key = a.key THEN a.lacks ELSE cached[key]]
      /\ handlers' = {other(g) : g \in handlers}
      /\ UNCHANGED <<view, tasks, running, dealt, recorded, moves>>
  BY DEF ScreensInv, Arrives
<1>2. /\ a \in Asking \cup Answering /\ Known(a)
      /\ Range(answers) = {a} \cup Range(answers')
      /\ answers' \in Seq(Asking \cup Answering) /\ AllInOrder(answers')
      /\ \A b \in Range(answers') : InOrder(a, b)
  BY <1>1, OldestLeaves
<1>3. IsQuery(a)
  OBVIOUS
<1>. HIDE DEF a
<1>4. /\ a \in Asking /\ a.key \in Key /\ a.lacks \subseteq Past
      /\ \A i \in a.lacks : Touches(tasks[i], a.key)
  <2>1. a \in Asking
    BY <1>2, <1>3, ReplyIs
  <2>. QED
    BY <1>2, <1>3, <2>1 DEF Asking, Known
<1>5. \A g \in handlers : /\ other(g) \in Handler /\ other(g).task = g.task
                          /\ Left(other(g)) = Left(g) /\ other(g).waits = g.waits \ {a.key}
  <2>1. ASSUME NEW g \in Handler
        PROVE  /\ other(g) \in Handler /\ other(g).task = g.task /\ other(g).misses = g.misses
               /\ other(g).todo = g.todo /\ other(g).waits = g.waits \ {a.key}
    BY DEF Handler
  <2>. QED
    BY <1>1, <2>1 DEF Left, ScreensTyped
<1>. HIDE DEF other
<1>6. InFlight' \subseteq InFlight /\ InFlight \subseteq InFlight' \cup {a.key}
  <2>1. \A k \in InFlight : k \in InFlight' \cup {a.key}
    BY <1>2 DEF InFlight
  <2>2. \A k \in InFlight' : k \in InFlight
    BY <1>2 DEF InFlight
  <2>. QED
    BY <2>1, <2>2
<1>7. /\ DOMAIN cached \subseteq DOMAIN cached'
      /\ DOMAIN cached' \subseteq DOMAIN cached \cup {a.key}
      /\ Fails(a) \/ a.key \in DOMAIN cached'
      /\ cached' = [key \in DOMAIN cached' |-> cached'[key]]
      /\ \A key \in DOMAIN cached' :
           \/ key \in DOMAIN cached /\ cached'[key] = cached[key] /\ (key = a.key => Fails(a))
           \/ key = a.key /\ cached'[key] = a.lacks
  <2>1. CASE Fails(a)
    BY <1>1, <2>1 DEF ScreensTyped
  <2>2. CASE ~Fails(a)
    BY <1>1, <2>2
  <2>. QED
    BY <2>1, <2>2
<1>8. Fails(a) => a.key = "disc" /\ Deleted
  BY DEF Fails, Deleted, Range
<1>9. ASSUME NEW r \in Range(answers') PROVE Known(r)'
  <2>1. Known(r)
    BY <1>1, <1>2 DEF ScreensTyped
  <2>. QED
    BY <1>1, <2>1 DEF Known, Past
<1>10. ScreensTyped'
  <2>1. Past' = Past
    BY <1>1 DEF Past
  <2>2. ASSUME NEW key \in DOMAIN cached'
        PROVE  cached'[key] \subseteq Past' /\ \A i \in cached'[key] : Touches(tasks'[i], key)
    BY <1>1, <1>4, <1>7, <2>1 DEF ScreensTyped
  <2>3. handlers' \subseteq Handler /\ \A g \in handlers' : g.task \in Past'
    BY <1>1, <1>5, <2>1 DEF ScreensTyped
  <2>4. DOMAIN cached' \subseteq Key
    BY <1>1, <1>4, <1>7 DEF ScreensTyped
  <2>5. /\ view' \in View /\ tasks' \in Seq(Kind) /\ Len(tasks') <= MaxTasks
        /\ moves' \in 0..MaxMoves /\ running' \subseteq DOMAIN tasks'
        /\ \A i \in running' : tasks'[i] \in Later
        /\ \A d \in dealt' : d.task \in Past'
    BY <1>1, <2>1 DEF ScreensTyped
  <2>. QED
    BY <1>2, <1>7, <1>9, <2>2, <2>3, <2>4, <2>5 DEF ScreensTyped
<1>11. ScreensAsked'
  <2>1. \A g \in handlers' : g.waits \subseteq InFlight'
    BY <1>1, <1>5, <1>6 DEF ScreensAsked
  <2>2. Shown(view') \subseteq DOMAIN cached' \cup InFlight' \cup {"disc"}
    BY <1>1, <1>6, <1>7, <1>8 DEF ScreensAsked
  <2>. QED
    BY <2>1, <2>2 DEF ScreensAsked
<1>12. \A i : Dealt(i)' <=> Dealt(i)
  <2>1. {g.task : g \in handlers'} = {g.task : g \in handlers}
    <3>1. \A g \in handlers' : \E f \in handlers : f.task = g.task
      BY <1>1, <1>5
    <3>2. \A f \in handlers : \E g \in handlers' : f.task = g.task
      BY <1>1, <1>5
    <3>. QED
      BY <3>1, <3>2
  <2>2. /\ \A i : Dealt(i) <=> i \in {g.task : g \in handlers}
                                 \/ \E d \in dealt : d.task = i
        /\ \A i : Dealt(i)' <=> i \in {g.task : g \in handlers'}
                                  \/ \E d \in dealt' : d.task = i
    BY DEF Dealt
  <2>. QED
    BY <1>1, <2>1, <2>2
<1>13. ASSUME NEW i, NEW key, Stale(i, key)'
       PROVE  \/ Stale(i, key)
              \/ key = a.key /\ i \in a.lacks
              \/ key = "disc" /\ Deleted
  <2>1. /\ key \in Shown(view) /\ key \notin InFlight' /\ key \in DOMAIN cached'
        /\ i \in cached'[key]
    BY <1>1, <1>13 DEF Stale
  <2>2. CASE key = a.key
    BY <1>7, <1>8, <2>1, <2>2
  <2>3. CASE key # a.key
    BY <1>6, <1>7, <2>1, <2>3 DEF Stale
  <2>. QED
    BY <2>2, <2>3
<1>14. \A i, key : Excused(i, key)' <=> Excused(i, key)
  BY <1>1 DEF Excused, Deleted
<1>15. \A i \in a.lacks : ~Dealt(i)
  BY <1>1, <1>2, <1>3 DEF ScreensOwed
<1>16. \A r \in Range(answers') : IsQuery(r) => \A i \in r.lacks : ~Dealt(i)'
  BY <1>1, <1>2, <1>12 DEF ScreensOwed
<1>17. ASSUME NEW w \in Waiting', NEW key \in Left(w), Stale(w.task, key)'
       PROVE  Excused(w.task, key)'
  <2>1. CASE w \in handlers'
    <3>1. PICK g \in handlers : w = other(g)
      BY <1>1, <2>1
    <3>2. w.task = g.task /\ key \in Left(g) /\ g \in Waiting
      BY <1>5, <1>17, <3>1 DEF Waiting
    <3>3. Dealt(w.task)
      BY <3>2 DEF Dealt
    <3>4. Stale(w.task, key) \/ (key = "disc" /\ Deleted)
      BY <1>13, <1>15, <1>17, <3>3
    <3>5. Excused(w.task, key)
      <4>1. CASE Stale(w.task, key)
        BY <1>1, <3>2, <4>1 DEF ScreensOwed
      <4>2. CASE key = "disc" /\ Deleted
        BY <4>2 DEF Excused
      <4>. QED
        BY <3>4, <4>1, <4>2
    <3>. QED
      BY <1>14, <3>5
  <2>2. CASE w \notin handlers'
    <3>1. w \in Range(answers') /\ ~IsQuery(w)
      BY <1>17, <2>2 DEF Waiting
    <3>2. w \in Waiting /\ key # a.key
      BY <1>2, <1>3, <1>17, <3>1 DEF Waiting, InOrder
    <3>3. Stale(w.task, key) \/ (key = "disc" /\ Deleted)
      BY <1>13, <1>17, <3>2
    <3>4. Excused(w.task, key)
      <4>1. CASE Stale(w.task, key)
        BY <1>1, <1>17, <3>2, <4>1 DEF ScreensOwed
      <4>2. CASE key = "disc" /\ Deleted
        BY <4>2 DEF Excused
      <4>. QED
        BY <3>3, <4>1, <4>2
    <3>. QED
      BY <1>14, <3>4
  <2>. QED
    BY <2>1, <2>2
<1>18. ASSUME NEW d \in dealt', NEW key \in QueryName \ d.misses, Stale(d.task, key)'
       PROVE  key = "disc" /\ Deleted'
  <2>1. Dealt(d.task) /\ d \in dealt
    BY <1>1, <1>18 DEF Dealt
  <2>2. Stale(d.task, key) \/ (key = "disc" /\ Deleted)
    BY <1>13, <1>15, <1>18, <2>1
  <2>3. key = "disc" /\ Deleted
    <3>1. CASE Stale(d.task, key)
      BY <1>1, <1>18, <2>1, <3>1 DEF ScreensOwed
    <3>. QED
      BY <2>2, <3>1
  <2>. QED
    BY <1>1, <2>3 DEF Deleted
<1>19. ScreensOwed'
  BY <1>2, <1>16, <1>17, <1>18 DEF ScreensOwed
<1>. QED
  BY <1>10, <1>11, <1>19 DEF ScreensInv

\* The oldest answer is that of an operation, after which its code invalidates queries.
LEMMA AnswerArrives ==
  ASSUME ScreensInv, Arrives, ~IsQuery(Head(answers))
  PROVE  ScreensInv'
<1>. DEFINE a == Head(answers)
            h == [task |-> a.task, outcome |-> a.outcome, misses |-> a.misses, todo |-> a.todo,
                  waits |-> {}]
<1>1. /\ ScreensTyped /\ ScreensAsked /\ ScreensOwed
      /\ answers # <<>> /\ answers' = Tail(answers)
      /\ handlers' = handlers \cup {h}
      /\ UNCHANGED <<view, cached, tasks, running, dealt, recorded, moves>>
  BY DEF ScreensInv, Arrives
<1>2. /\ a \in Asking \cup Answering /\ Known(a)
      /\ Range(answers) = {a} \cup Range(answers')
      /\ answers' \in Seq(Asking \cup Answering) /\ AllInOrder(answers')
      /\ \A b \in Range(answers') : InOrder(a, b)
  BY <1>1, OldestLeaves
<1>3. ~IsQuery(a)
  OBVIOUS
<1>. HIDE DEF a
<1>4. a \in Answering /\ a.task \in Past /\ a \in Waiting
  BY <1>2, <1>3, ReplyIs DEF Known, Waiting
<1>5. /\ h \in Handler /\ h.task = a.task /\ Left(h) = Left(a) /\ h.waits = {}
  <2>1. h \in Handler
    BY <1>4 DEF Answering, Handler
  <2>. QED
    BY <2>1 DEF Left
<1>. HIDE DEF h
<1>6. InFlight' = InFlight
  BY <1>2, <1>3 DEF InFlight
<1>7. ASSUME NEW r \in Range(answers') PROVE Known(r)'
  <2>1. Known(r)
    BY <1>1, <1>2 DEF ScreensTyped
  <2>. QED
    BY <1>1, <2>1 DEF Known, Past
<1>8. ScreensTyped'
  <2>1. Past' = Past
    BY <1>1 DEF Past
  <2>2. \A key \in DOMAIN cached' :
          cached'[key] \subseteq Past' /\ \A i \in cached'[key] : Touches(tasks'[i], key)
    BY <1>1, <2>1 DEF ScreensTyped
  <2>3. handlers' \subseteq Handler /\ \A g \in handlers' : g.task \in Past'
    BY <1>1, <1>4, <1>5, <2>1 DEF ScreensTyped
  <2>. QED
    BY <1>1, <1>2, <1>7, <2>1, <2>2, <2>3 DEF ScreensTyped
<1>9. ScreensAsked'
  BY <1>1, <1>5, <1>6 DEF ScreensAsked
<1>10. \A i : Dealt(i)' => Dealt(i) \/ i = a.task
  BY <1>1, <1>5 DEF Dealt
<1>11. \A r \in Range(answers') : IsQuery(r) => \A i \in r.lacks : ~Dealt(i)'
  BY <1>1, <1>2, <1>3, <1>10 DEF ScreensOwed, InOrder
<1>12. \A i, key : Stale(i, key)' <=> Stale(i, key)
  BY <1>1, <1>6 DEF Stale
<1>13. \A i, key : Excused(i, key)' <=> Excused(i, key)
  BY <1>1 DEF Excused, Deleted
<1>14. ASSUME NEW w \in Waiting', NEW key \in Left(w), Stale(w.task, key)'
       PROVE  Excused(w.task, key)'
  <2>1. PICK g \in Waiting : g.task = w.task /\ Left(g) = Left(w)
    BY <1>1, <1>2, <1>4, <1>5, <1>14 DEF Waiting
  <2>. QED
    BY <1>1, <1>12, <1>13, <1>14, <2>1 DEF ScreensOwed
<1>15. \A d \in dealt' : \A key \in QueryName \ d.misses :
         Stale(d.task, key)' => key = "disc" /\ Deleted'
  BY <1>1, <1>12 DEF ScreensOwed, Deleted
<1>16. ScreensOwed'
  BY <1>2, <1>11, <1>14, <1>15 DEF ScreensOwed
<1>. QED
  BY <1>8, <1>9, <1>16 DEF ScreensInv

\* The dashboard is shown, and asks its queries.
LEMMA ScreensStart == ScreensInit => ScreensInv
<1>. SUFFICES ASSUME ScreensInit PROVE ScreensInv
  OBVIOUS
<1>1. /\ view = "dashboard" /\ cached = << >> /\ answers = Asked(<<>>, view, Shown(view))
      /\ tasks = <<>> /\ running = {} /\ handlers = {} /\ dealt = {} /\ moves = 0
  BY DEF ScreensInit
<1>2. view \in View
  BY <1>1 DEF View
<1>3. <<>> \in Seq(Asking \cup Answering) /\ AllInOrder(<<>>)
  BY DEF AllInOrder
<1>4. /\ answers \in Seq(Asking \cup Answering) /\ AllInOrder(answers)
      /\ \A a \in Range(answers) : a \in Asking /\ a.lacks = {}
      /\ Shown(view) \subseteq InFlight
  <2>1. /\ answers \in Seq(Asking \cup Answering) /\ AllInOrder(answers)
        /\ \A a \in Range(answers) : a \in Range(<<>>) \/ (a \in Asking /\ a.lacks = {})
        /\ KeysOf(answers) = KeysOf(<<>>) \cup (Shown(view) \cap Shown(view))
    BY <1>1, <1>2, <1>3, AskedIs
  <2>2. Range(<<>>) = {}
    BY DEF Range
  <2>. QED
    BY <2>1, <2>2 DEF KeysOf, InFlight
<1>5. \A a \in Range(answers) : IsQuery(a) /\ a.lacks = {}
  BY <1>4, ReplyIs
<1>6. ScreensTyped
  <2>1. cached = [key \in DOMAIN cached |-> cached[key]] /\ DOMAIN cached = {}
    BY <1>1
  <2>2. tasks \in Seq(Kind) /\ Len(tasks) <= MaxTasks /\ moves \in 0..MaxMoves
    BY <1>1, ScreensAssumption
  <2>3. \A a \in Range(answers) : Known(a)
    BY <1>5 DEF Known
  <2>. QED
    BY <1>1, <1>2, <1>4, <2>1, <2>2, <2>3 DEF ScreensTyped
<1>7. ScreensAsked
  BY <1>1, <1>4 DEF ScreensAsked
<1>8. ScreensOwed
  <2>1. Waiting = {}
    BY <1>1, <1>5 DEF Waiting
  <2>. QED
    BY <1>1, <1>4, <1>5, <2>1 DEF ScreensOwed
<1>. QED
  BY <1>6, <1>7, <1>8 DEF ScreensInv

\* Every step of the screens keeps the invariant.
LEMMA ScreensSteps == ScreensInv /\ [ScreensNext]_screenVars => ScreensInv'
<1>. SUFFICES ASSUME ScreensInv, [ScreensNext]_screenVars PROVE ScreensInv'
  OBVIOUS
<1>1. CASE \E v \in View : Move(v)
  BY <1>1, MoveStep
<1>2. CASE \E act \in AtOnce : Write(act)
  BY <1>2, WriteStep
<1>3. CASE \E act \in Later : Start(act)
  BY <1>3, StartStep
<1>4. CASE \E i \in running : Ends(i)
  BY <1>4, EndsStep
<1>5. CASE \E h \in handlers : Invalidate(h) \/ Done(h)
  BY <1>5, InvalidateStep, DoneStep
<1>6. CASE Arrives
  BY <1>6, QueryArrives, AnswerArrives
<1>7. CASE UNCHANGED screenVars
  <2>1. UNCHANGED <<view, cached, answers, tasks, running, handlers, dealt, moves>>
    BY <1>7 DEF screenVars
  <2>2. /\ ScreensTyped /\ Past' = Past /\ (Deleted => Deleted')
        /\ \A j \in DOMAIN tasks : tasks'[j] = tasks[j]
    BY <2>1 DEF Past, Deleted, ScreensInv
  <2>3. /\ tasks' \in Seq(Kind) /\ Len(tasks') <= MaxTasks /\ running' \subseteq DOMAIN tasks'
        /\ \A j \in running' : tasks'[j] \in Later
    BY <2>1, <2>2 DEF ScreensTyped
  <2>. QED
    BY <2>1, <2>2, <2>3, MoreTasks
<1>. QED
  BY <1>1, <1>2, <1>3, <1>4, <1>5, <1>6, <1>7 DEF ScreensNext

\* The screens' state has its type: what is cached lacks operations that wrote its tables, and
\* what is on screen has been read or is being asked.
THEOREM ScreensTypeCorrect == ScreensSpec => []ScreensTypeOK
<1>1. ScreensInv => ScreensTypeOK
  BY DEF ScreensInv, ScreensTyped, ScreensAsked, ScreensTypeOK
<1>. QED
  BY <1>1, ScreensStart, ScreensSteps, PTL DEF ScreensSpec

\* No query on screen shows the vault without an operation that has been dealt with, whatever
\* the user opened meanwhile and whatever else was under way, for any number of moves and of
\* operations, but for the queries that the code leaves out: those that were being asked when the
\* operation took effect, and those that were on screen then when it failed or did not concern
\* them (Discs.tsx 144-148, DiscExplorer.tsx 105-170, bulk-analyze.ts 98-107).
THEOREM NeverStale == ScreensSpec => []ScreensFresh
<1>1. ScreensInv => ScreensFresh
  <2>. SUFFICES ASSUME ScreensInv, NEW key \in (Shown(view) \ InFlight) \cap DOMAIN cached,
                       NEW d \in dealt, d.task \in cached[key]
                PROVE  key \in d.misses \/ (key = "disc" /\ "delete disc" \in Range(tasks))
    BY DEF ScreensFresh
  <2>1. Stale(d.task, key)
    BY DEF Stale
  <2>2. key \in QueryName
    BY KeysNamed DEF ScreensInv, ScreensTyped
  <2>. QED
    BY <2>1, <2>2 DEF ScreensInv, ScreensOwed, Deleted
<1>. QED
  BY <1>1, ScreensStart, ScreensSteps, PTL DEF ScreensSpec

-----------------------------------------------------------------------------
(***************************************************************************)
(* The app's parts together.                                               *)
(***************************************************************************)

\* Every part begins in one of its initial states.
LEMMA AppStarts ==
  AppInit => /\ AccountsInit /\ AnalysisInit /\ IconsInit /\ ScanInit
             /\ MigrationsInit /\ CatalogInit /\ ScreensInit
BY DEF AppInit

\* A step of the app is a step of each part or none.
LEMMA AppStep ==
  [AppNext]_appVars =>
    /\ [AccountsNext]_accountVars /\ [AnalysisNext]_analysisVars /\ [IconsNext]_iconVars
    /\ [ScanNext]_scanVars /\ [MigrationsNext]_migrationVars /\ [CatalogNext]_catalogVars
    /\ [ScreensNext]_screenVars
<1>1. CASE OfAccounts(AccountsNext)
  BY <1>1 DEF OfAccounts
<1>2. CASE OfAnalysis(AnalysisNext)
  BY <1>2 DEF OfAnalysis
<1>3. CASE OfIcons(IconsNext)
  BY <1>3 DEF OfIcons
<1>4. CASE OfScan(ScanNext)
  BY <1>4 DEF OfScan
<1>5. CASE OfMigrations(MigrationsNext)
  BY <1>5 DEF OfMigrations
<1>6. CASE OfCatalog(CatalogNext)
  BY <1>6 DEF OfCatalog
<1>7. CASE OfScreens(ScreensNext)
  BY <1>7 DEF OfScreens
<1>8. CASE UNCHANGED appVars
  BY <1>8 DEF appVars
<1>. QED
  BY <1>1, <1>2, <1>3, <1>4, <1>5, <1>6, <1>7, <1>8 DEF AppNext

\* The app implements its parts: what holds of each alone holds of them together.
THEOREM AppRefines ==
  AppSpec => /\ AccountsSpec /\ AnalysisSpec /\ IconsSpec /\ ScanSpec
             /\ MigrationsSpec /\ CatalogSpec /\ ScreensSpec
BY AppStarts, AppStep, PTL
   DEF AppSpec, AccountsSpec, AnalysisSpec, IconsSpec, ScanSpec, MigrationsSpec, CatalogSpec,
       ScreensSpec

\* The app calls Gemini no more than the code promises: one bulk run at a time, one call per
\* icon and none after a failure (bulk-analyze.ts 72, genre-icon.tsx 145).
THEOREM GeminiSpared == AppSpec => []CallsSpared
<1>1. OneBulkRun /\ IconsSpared <=> CallsSpared
  BY DEF CallsSpared
<1>. QED
  BY <1>1, AppRefines, BulkRunsAlone, IconCallsSpared, PTL

\* The state of every part keeps its type.
THEOREM AppTyped == AppSpec => []AppTypeOK
<1>1. /\ AccountsTypeOK /\ AnalysisTypeOK /\ IconsTypeOK
      /\ ScanTypeOK /\ MigrationsTypeOK /\ CatalogTypeOK /\ ScreensTypeOK
      => AppTypeOK
  BY DEF AppTypeOK
<1>. QED
  BY <1>1, AppRefines, AccountsTyped, AnalysisTyped, IconsTyped, ScanTyped, MigrationsTyped,
     CatalogTyped, ScreensTypeCorrect, PTL

\* Whatever else the app does, a vault is its user's, sign-ups stay within their cap, a page
\* shows a provisioned vault, a save stores what its scan found, an item is of the disc's last
\* run, an open database has every migration, a disc keeps its tree from scan to export and
\* a screen shows what has been dealt with, as far as the code asks again: DevicesOwned says what
\* two accounts that register one device at a time may do, ScreensFresh what the code leaves out.
THEOREM AppSafe ==
  AppSpec => [](/\ VaultAgrees /\ SignupBounded /\ DevicesOwned /\ OpenProvisioned
                /\ ItemsOfLastRun /\ ScanSaved /\ Upgraded /\ TreeKept /\ ScreensFresh)
BY AppRefines, OneVaultPerUser, SignupsBounded, DevicesStayOwned, OpenVaultsProvisioned,
   ReplacesItems, SavesAreSound, AlwaysUpgraded, TreesKept, NeverStale, PTL

=============================================================================
