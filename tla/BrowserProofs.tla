----------------------------- MODULE BrowserProofs -----------------------------
(* Theorems about Browser, for any scenes and any number of changes at the server. *)
EXTENDS Browser, TLAPS

Version == Nat \cup {None}
Entry == [data : Version, invalidated : BOOLEAN, expired : BOOLEAN, missed : BOOLEAN,
          failed : BOOLEAN]
Fetch == [on : BOOLEAN, read : Version, missed : BOOLEAN]

\* The hook of the write names the key of the query in every scene.
KeysAreNamed == \A s \in Scenes : KeyIsNamed(Cast(s))

TypeInv ==
  /\ entry \in Entry /\ fetch \in Fetch
  /\ world \in Nat /\ told \in 0..world
  /\ write.at = "committed" => write.ver \in 0..world

\* What is older than the last answered write is marked, but for the one excuse.
MarkedInv ==
  entry.data # None /\ entry.data < told /\ ~entry.missed => entry.invalidated

\* A load that was answered at the server before the last write is known for one.
MissedInv ==
  fetch.read # None /\ fetch.read < told => fetch.missed

\* What is marked and on the screen is being loaded, unless loading failed.
LoadingInv ==
  ShownAt(page) /\ entry.data # None /\ entry.invalidated /\ ~entry.failed => fetch.on

Inv == TypeInv /\ KeyIsNamed(scene) /\ MarkedInv /\ MissedInv /\ LoadingInv

-----------------------------------------------------------------------------
LEMMA Constructors ==
  /\ NotCached \in Entry /\ NotCached.data = None
  /\ NoFetch \in Fetch /\ NoFetch.read = None
  /\ Asked \in Fetch /\ Asked.read = None /\ Asked.on
BY DEF NotCached, Entry, NoFetch, Asked, Fetch, Version

\* A screen that appears starts a load or leaves the one there is.
LEMMA MountIs ==
  ASSUME NEW p, NEW e, NEW f \in Fetch
  PROVE  /\ Mount(p, e, f) \in {Asked, f}
         /\ ShownAt(p) /\ e.data # None /\ e.invalidated => Mount(p, e, f).on
<1>1. CASE ShownAt(p) /\ isStale(e) /\ ~f.on
  BY <1>1, Constructors DEF Mount
<1>2. CASE ~(ShownAt(p) /\ isStale(e) /\ ~f.on)
  BY <1>2 DEF Mount, isStale
<1> QED BY <1>1, <1>2

\* What an invalidation makes of a load: it starts anew, or a load that had been
\* answered at the server before is known for one.
LEMMA ReloadedIs ==
  ASSUME NEW e, NEW f \in Fetch
  PROVE  /\ Reloaded(e, f) \in Fetch
         /\ Reloaded(e, f).read # None => Reloaded(e, f).missed
         /\ ShownAt(page) /\ e.data # None => Reloaded(e, f).on
<1> DEFINE g == [f EXCEPT !.missed = f.read # None]
<1>1. g \in Fetch /\ g.read = f.read /\ g.missed = (f.read # None)
  BY DEF Fetch
<1>2. Reloaded(e, f) = IF ShownAt(page) /\ (e.data # None \/ ~f.on) THEN Asked ELSE g
  BY DEF Reloaded
<1> HIDE DEF g
<1> QED BY <1>1, <1>2, Constructors

LEMMA InitInv == ASSUME KeysAreNamed PROVE Init => Inv
<1> SUFFICES ASSUME Init PROVE Inv
  OBVIOUS
<1>1. KeyIsNamed(scene)
  BY DEF Init, KeysAreNamed
<1>2. write.at # "committed"
  BY DEF Init, NoWrite
<1> QED BY <1>1, <1>2, Constructors DEF Init, Inv, TypeInv, MarkedInv, MissedInv, LoadingInv

-----------------------------------------------------------------------------
(* The steps that leave marks and loads as they are, or only start a load.  *)

LEMMA GoKeeps == ASSUME Inv, NEW to, Go(to) PROVE Inv'
<1> DEFINE p == Destination(to)
<1>1. page' = p /\ fetch' = Mount(p, entry, fetch)
      /\ UNCHANGED <<scene, entry, world, told>>
  BY DEF Go
<1>2. fetch' \in {Asked, fetch}
      /\ (ShownAt(page') /\ entry.data # None /\ entry.invalidated => fetch'.on)
  <2> HIDE DEF p
  <2> QED BY <1>1, MountIs DEF Inv, TypeInv, ShownAt
<1>3. write'.at = "committed" => write.at = "committed" /\ write'.ver = write.ver
  BY DEF Go
<1> HIDE DEF p
<1> QED
  BY <1>1, <1>2, <1>3, Constructors
  DEF Inv, TypeInv, MarkedInv, MissedInv, LoadingInv, ShownAt

\* A step of the write, or of somebody else: the cache and its loads stay.
LEMMA WritesKeep ==
  ASSUME Inv, UNCHANGED <<scene, page, entry, fetch, told>>, world' \in Nat, world' >= world,
         write'.at = "committed" => write'.ver \in 0..world'
  PROVE  Inv'
BY DEF Inv, TypeInv, MarkedInv, MissedInv, LoadingInv, ShownAt

\* A step of the load that ends or starts none, with the entry as it was.
LEMMA FetchKeeps ==
  ASSUME Inv, UNCHANGED <<scene, page, entry, write, world, told>>, fetch' \in Fetch, fetch'.on,
         fetch'.read = None \/ fetch'.read = world
  PROVE  Inv'
BY DEF Inv, TypeInv, MarkedInv, MissedInv, LoadingInv, ShownAt

LEMMA ArrivesKeeps == ASSUME Inv, FetchArrives PROVE Inv'
<1>1. fetch \in Fetch /\ fetch.read \in Version /\ fetch.missed \in BOOLEAN
  BY DEF Inv, TypeInv, Fetch
<1>2. /\ entry' \in Entry /\ entry'.data = fetch.read /\ ~entry'.invalidated
      /\ entry'.missed = fetch.missed
  BY <1>1 DEF FetchArrives, Entry
<1>3. fetch' = NoFetch /\ UNCHANGED <<scene, page, write, world, told>>
  BY DEF FetchArrives
<1> QED
  BY <1>2, <1>3, Constructors
  DEF Inv, TypeInv, MarkedInv, MissedInv, LoadingInv, ShownAt

\* The entry is as it was, but past its time, or failed to load.
LEMMA EntryKeeps ==
  ASSUME Inv, UNCHANGED <<scene, page, write, world, told>>, entry' \in Entry,
         entry'.data = entry.data, entry'.invalidated = entry.invalidated,
         entry'.missed = entry.missed,
         \/ fetch' = fetch /\ entry'.failed = entry.failed
         \/ fetch' = NoFetch /\ entry'.failed
  PROVE  Inv'
BY Constructors DEF Inv, TypeInv, MarkedInv, MissedInv, LoadingInv, ShownAt

LEMMA CollectKeeps == ASSUME Inv, Collect PROVE Inv'
BY Constructors DEF Collect, Inv, TypeInv, MarkedInv, MissedInv, LoadingInv, ShownAt

-----------------------------------------------------------------------------
(* The answer of a write.                                                  *)

LEMMA AnswerKeeps == ASSUME Inv, Answered, write' = NoWrite, UNCHANGED <<scene, world>> PROVE Inv'
<1> DEFINE touched == scene.covered /\ (entry.data # None \/ fetch.on)
           e == IF scene.removed THEN NotCached
                ELSE IF touched THEN Invalidated(entry) ELSE entry
           f == IF scene.removed THEN NoFetch
                ELSE IF touched THEN Reloaded(entry, fetch)
                ELSE [fetch EXCEPT !.missed = fetch.read # None]
           leaves == write.then # "" /\ (write.always \/ write.here)
<1>1. /\ told' = write.ver /\ entry' = e
      /\ page' = IF leaves THEN Destination(write.then) ELSE page
      /\ fetch' = IF leaves THEN Mount(page', e, f) ELSE f
      /\ write.at = "committed"
  BY DEF Answered
<1>2. entry \in Entry /\ fetch \in Fetch /\ write.ver \in 0..world /\ world \in Nat
  BY <1>1 DEF Inv, TypeInv
\* What is cached after is marked, and every load answered at the server before is known.
<1>3. e \in Entry /\ (e.data # None => e.invalidated)
  <2>1. CASE scene.removed
    BY <2>1, Constructors
  <2>2. CASE ~scene.removed /\ touched
    BY <1>2, <2>2 DEF Invalidated, Entry
  <2>3. CASE ~scene.removed /\ ~touched
    BY <1>2, <2>3 DEF Inv, KeyIsNamed
  <2> QED BY <2>1, <2>2, <2>3
<1>4. f \in Fetch /\ (f.read # None => f.missed)
  <2>1. CASE scene.removed
    BY <2>1, Constructors
  <2>2. CASE ~scene.removed /\ touched
    BY <1>2, <2>2, ReloadedIs
  <2>3. CASE ~scene.removed /\ ~touched
    BY <1>2, <2>3 DEF Fetch
  <2> QED BY <2>1, <2>2, <2>3
<1>5. ShownAt(page) /\ e.data # None => f.on
  <2>1. CASE scene.removed
    BY <2>1, Constructors
  <2>2. CASE ~scene.removed /\ touched
    <3>1. e.data = entry.data
      BY <1>2, <2>2 DEF Invalidated, Entry
    <3> QED BY <1>2, <2>2, <3>1, ReloadedIs
  <2>3. CASE ~scene.removed /\ ~touched
    BY <1>2, <2>3 DEF Inv, KeyIsNamed
  <2> QED BY <2>1, <2>2, <2>3
<1> HIDE DEF touched, e, f
<1>6. /\ fetch' \in Fetch /\ (fetch'.read # None => fetch'.missed)
      /\ ShownAt(page') /\ e.data # None => fetch'.on
  <2>1. CASE leaves
    <3>1. fetch' \in {Asked, f} /\ (ShownAt(page') /\ e.data # None /\ e.invalidated => fetch'.on)
      BY <1>1, <1>4, <2>1, MountIs
    <3> QED BY <1>3, <1>4, <3>1, Constructors
  <2>2. CASE ~leaves
    BY <1>1, <1>4, <1>5, <2>2
  <2> QED BY <2>1, <2>2
<1>7. write'.at # "committed" /\ scene' = scene /\ world' = world
  BY DEF NoWrite
<1> QED
  BY <1>1, <1>2, <1>3, <1>6, <1>7
  DEF Inv, TypeInv, MarkedInv, MissedInv, LoadingInv, ShownAt

LEMMA StepInv == Inv /\ [Next]_vars => Inv'
<1> SUFFICES ASSUME Inv, [Next]_vars PROVE Inv'
  OBVIOUS
<1>1. ASSUME NEW to, Go(to) PROVE Inv'
  BY <1>1, GoKeeps
<1>2. CASE Focus
  BY <1>2, FetchKeeps, Constructors DEF Focus
<1>3. ASSUME NEW offer, Submit(offer) PROVE Inv'
  BY <1>3, WritesKeep DEF Submit, Inv, TypeInv
<1>4. CASE Commit
  <2>1. world' = world + 1 /\ world \in Nat /\ UNCHANGED <<scene, page, entry, fetch, told>>
    BY <1>4 DEF Commit, Inv, TypeInv
  <2>2. write'.at = "committed" => write'.ver \in 0..world'
    BY <1>4, <2>1 DEF Commit
  <2> QED BY <2>1, <2>2, WritesKeep
<1>5. CASE Refuse
  BY <1>5, WritesKeep DEF Refuse, Inv, TypeInv
<1>6. CASE WriteFails
  <2>1. write'.at # "committed"
    BY <1>6 DEF WriteFails, NoWrite
  <2> QED BY <1>6, <2>1, WritesKeep DEF WriteFails, Inv, TypeInv
<1>7. CASE Answered /\ write' = NoWrite /\ UNCHANGED <<scene, world>>
  BY <1>7, AnswerKeeps
<1>8. CASE Elsewhere
  BY <1>8, WritesKeep DEF Elsewhere, Inv, TypeInv
<1>9. CASE ServerReads
  <2>1. fetch' = [on |-> TRUE, read |-> world, missed |-> FALSE] /\ world \in Nat
    BY <1>9 DEF ServerReads, Asked, Inv, TypeInv
  <2>2. fetch' \in Fetch /\ fetch'.on /\ fetch'.read = world
    BY <2>1 DEF Fetch, Version
  <2> QED BY <1>9, <2>2, FetchKeeps DEF ServerReads
<1>10. CASE FetchArrives
  BY <1>10, ArrivesKeeps
<1>11. CASE FetchFails
  <2>1. entry' = [entry EXCEPT !.failed = TRUE] /\ entry \in Entry
    BY <1>11 DEF FetchFails, Inv, TypeInv
  <2>2. /\ entry' \in Entry /\ entry'.data = entry.data /\ entry'.failed
        /\ entry'.invalidated = entry.invalidated /\ entry'.missed = entry.missed
    BY <2>1 DEF Entry
  <2> QED BY <1>11, <2>2, EntryKeeps DEF FetchFails
<1>12. CASE Expire
  <2>1. entry' = [entry EXCEPT !.expired = TRUE] /\ entry \in Entry
    BY <1>12 DEF Expire, Inv, TypeInv
  <2>2. /\ entry' \in Entry /\ entry'.data = entry.data /\ entry'.failed = entry.failed
        /\ entry'.invalidated = entry.invalidated /\ entry'.missed = entry.missed
    BY <2>1 DEF Entry
  <2> QED BY <1>12, <2>2, EntryKeeps DEF Expire
<1>13. CASE Collect
  BY <1>13, CollectKeeps
<1>14. CASE UNCHANGED vars
  BY <1>14 DEF vars, Inv, TypeInv, MarkedInv, MissedInv, LoadingInv, ShownAt
<1> QED
  BY <1>1, <1>2, <1>3, <1>4, <1>5, <1>6, <1>7, <1>8, <1>9, <1>10, <1>11, <1>12, <1>13, <1>14
  DEF Next

-----------------------------------------------------------------------------
\* Where the hook of a write invalidates or removes the key of a query, no screen goes on
\* showing what the query gave before the write, whatever the user, the network and other
\* users do and however many writes there are: naming the key is all a hook has to do
\* (onSuccess of the use-... hooks, queryClient in main.tsx).
THEOREM NamedKeysAreRefreshed ==
  ASSUME KeysAreNamed
  PROVE  Spec => []RefreshesAfterOwnWrite
<1>1. Inv => RefreshesAfterOwnWrite
  <2> SUFFICES ASSUME Inv, ShowsOutdated PROVE FALSE
    BY DEF RefreshesAfterOwnWrite
  <2>1. entry.invalidated
    BY DEF Inv, MarkedInv, ShowsOutdated
  <2>2. fetch.on
    BY <2>1 DEF Inv, LoadingInv, ShowsOutdated
  <2>3. fetch.read # None /\ ~(fetch.read >= told) /\ ~fetch.missed
    BY <2>2 DEF ShowsOutdated
  <2>4. fetch.read \in Nat /\ told \in Nat
    BY <2>3 DEF Inv, TypeInv, Fetch, Version
  <2> QED BY <2>3, <2>4 DEF Inv, MissedInv
<1> QED BY <1>1, InitInv, StepInv, PTL DEF Spec

=============================================================================
