------------------------------- MODULE Icons -------------------------------
(***************************************************************************)
(* The API keys of the AI and picture providers, which every tab of the    *)
(* browser shares, and what each tab does with the Gemini key: the store   *)
(* of generated icons (apps/web/src/ui/genre-icon.tsx), with its cache in  *)
(* localStorage, its queue of requests and its refusal to go on after a    *)
(* failure.                                                                *)
(***************************************************************************)
EXTENDS KeyStore

CONSTANTS
  IconTab,     \* page loads
  IconName,    \* titles and genres that have no hand-picked icon
  KeyIds,      \* ids of API keys
  MaxKeyUses   \* bound: what the user does with keys

ASSUME IconsAssumption ==
  /\ KeyIds \subseteq Nat \ {NoKey} /\ LegacyKey \in KeyIds
  /\ MaxKeyUses \in Nat

VARIABLES
  stores,    \* localStorage: the keys of each provider
  saved,      \* localStorage: discvault:generated-icons
  icons,     \* of each tab: the module variables of genre-icon.tsx
  asked,     \* history: of each tab, the names Gemini was asked for
  uses       \* what the user did with keys

iconVars == <<stores, saved, icons, asked, uses>>

Provider == {"gemini", "tmdb", "rawg"}
IconState == [loaded: BOOLEAN, cache: SUBSET IconName, inflight: SUBSET IconName,
              queue: Seq(IconName), calling: BOOLEAN, rejected: SUBSET IconName,
              halted: BOOLEAN]

FreshTab == [loaded |-> FALSE, cache |-> {}, inflight |-> {}, queue |-> <<>>,
             calling |-> FALSE, rejected |-> {}, halted |-> FALSE]

IconsInit ==
  /\ \E legacy \in BOOLEAN : stores = [p \in Provider |-> EmptyStore(p = "gemini" /\ legacy)]
  /\ saved = {}
  /\ icons = [t \in IconTab |-> FreshTab]
  /\ asked = [t \in IconTab |-> <<>>]
  /\ uses = 0

\* readCache: what the tab has in memory, from localStorage the first time.
Cached(t) == IF icons[t].loaded THEN icons[t].cache ELSE saved

\* requestGeneratedIcon, of an icon on screen.
RequestIcon(t, name) ==
  LET s == icons[t]
  IN /\ name \notin Cached(t) /\ ~s.halted
     /\ name \notin s.inflight /\ name \notin s.rejected
     /\ \E r \in ReadKeys(stores["gemini"]) :
          LET seen == [s EXCEPT !.loaded = TRUE, !.cache = Cached(t)]
          IN /\ stores' = [stores EXCEPT !["gemini"] = r.store]
             /\ icons' = [icons EXCEPT ![t] =
                  IF KeyOf(r.keys, r.store.active) = NoKey THEN seen
                  ELSE [seen EXCEPT !.inflight = @ \cup {name}, !.queue = Append(@, name)]]
     /\ UNCHANGED <<saved, asked, uses>>

\* The request leaves the queue without an answer that can be used.
Dropped(s) == [s EXCEPT !.queue = Tail(@), !.inflight = @ \ {Head(s.queue)}, !.calling = FALSE]

\* Mutant: what was queued before a failure is still asked.
GoesOnAfterFailure(s) == TRUE

GoesOn(s) == ~s.halted

\* The head of the queue: the key and the failure of another request are looked at again.
AskIcon(t) ==
  LET s == icons[t]
  IN /\ s.queue # <<>> /\ ~s.calling
     /\ \E r \in ReadKeys(stores["gemini"]) :
          /\ stores' = [stores EXCEPT !["gemini"] = r.store]
          /\ IF GoesOn(s) /\ KeyOf(r.keys, r.store.active) # NoKey
               THEN /\ icons' = [icons EXCEPT ![t].calling = TRUE]
                    /\ asked' = [asked EXCEPT ![t] = Append(@, Head(s.queue))]
               ELSE icons' = [icons EXCEPT ![t] = Dropped(s)] /\ UNCHANGED asked
     /\ UNCHANGED <<saved, uses>>

\* A path that is valid is cached, by a write of the tab's whole cache, which may fail; one
\* that is not is not asked for again; an error ends the requests of the tab.
IconAnswered(t) ==
  LET s == icons[t]
      rest == Dropped(s)
      cache == s.cache \cup {Head(s.queue)}
  IN /\ s.calling
     /\ \/ icons' = [icons EXCEPT ![t] = [rest EXCEPT !.cache = cache]] /\ saved' \in {saved, cache}
        \/ /\ icons' = [icons EXCEPT ![t] = [rest EXCEPT !.rejected = @ \cup {Head(s.queue)}]]
           /\ UNCHANGED saved
        \/ icons' = [icons EXCEPT ![t] = [rest EXCEPT !.halted = TRUE]] /\ UNCHANGED saved
     /\ UNCHANGED <<stores, asked, uses>>

UseKeys(p) ==
  /\ uses < MaxKeyUses /\ uses' = uses + 1
  /\ \E s \in UsedKeys(stores[p], KeyIds) : stores' = [stores EXCEPT ![p] = s]
  /\ UNCHANGED <<saved, icons, asked>>

\* lookupPreviewImage: the key a search uses, if its provider wants one; reading it changes
\* nothing, and a search without one finds nothing.
LookupKey(kind) ==
  CASE kind = "movie" -> KeyOf(stores["tmdb"].keys, stores["tmdb"].active)
    [] kind = "game" -> KeyOf(stores["rawg"].keys, stores["rawg"].active)
    [] OTHER -> NoKey

IconsNext ==
  \/ \E t \in IconTab : \/ \E name \in IconName : RequestIcon(t, name)
                        \/ AskIcon(t) \/ IconAnswered(t)
  \/ \E p \in Provider : UseKeys(p)

IconsSpec == IconsInit /\ [][IconsNext]_iconVars
----------------------------------------------------------------------------
\* The stores and the module variables hold what the code keeps in them.
IconsTypeOK ==
  /\ \A p \in Provider : stores[p] \in Store(KeyIds) /\ IsInjective(stores[p].keys)
  /\ saved \subseteq IconName
  /\ icons \in [IconTab -> IconState]
  /\ \A kind \in {"movie", "game"} : LookupKey(kind) \in KeyIds \cup {NoKey}

\* An icon costs a tab one call at most, and a call that failed is the tab's last, whatever was
\* queued behind it (genre-icon.tsx 145).
IconsSpared ==
  \A t \in IconTab :
    /\ \A i, j \in DOMAIN asked[t] : asked[t][i] = asked[t][j] => i = j
    /\ icons[t].halted => ~icons[t].calling
=============================================================================
