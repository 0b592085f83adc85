------------------------------ MODULE Browser ------------------------------
(***************************************************************************)
(* One user at the pages of Screens, over the query cache of the browser   *)
(* (TanStack Query with the settings of main.tsx) and a network that       *)
(* delays, fails and loses.  Entries of the cache do not influence each    *)
(* other, so a behaviour follows one entry: a scene is a query, a write    *)
(* that changes facts the query depends on, and the role of the user.      *)
(* Versions count the times these facts changed at the server.             *)
(***************************************************************************)
EXTENDS Screens, Integers

CONSTANTS Scenes,    \* the scenes, a set of [role, do, query]
          MaxWrites  \* bound on the changes at the server, the user's and others'
ASSUME BrowserAssumption == MaxWrites \in Nat

VARIABLES
  scene,  \* the one that is played
  page,   \* the route the user is at
  entry,  \* of the cache: the version it holds (-1: none), whether it was invalidated, is past
          \* staleTime, came from a load that missed the last answered write (history), or last
          \* failed to load
  fetch,  \* the request for it under way: not yet read at the server, or the version read
  write,  \* the user's write under way: how far it is, its offer, and whether the user is still
          \* where it was made
  world,  \* the version at the server
  told    \* the version the user has been told was written

vars == <<scene, page, entry, fetch, write, world, told>>

None == -1
NotCached == [data |-> None, invalidated |-> FALSE, expired |-> FALSE, missed |-> FALSE,
              failed |-> FALSE]
NoFetch == [on |-> FALSE, read |-> None, missed |-> FALSE]
Asked == [on |-> TRUE, read |-> None, missed |-> FALSE]
NoWrite == [at |-> "none", then |-> "", always |-> FALSE, here |-> FALSE, ver |-> None]

Routes == DOMAIN App("Admin")
\* What each role finds at each route.
Pages == [role \in Roles |-> App(role)]
Shells == [role \in Roles |-> AppShell(role)]
Destination(to) == IF to \in Routes THEN to ELSE "/"

\* What a scene comes down to: where the query is shown, where the write is offered, and
\* what the answer of the write does to the query.
Cast(s) ==
  [role |-> s.role, do |-> s.do.hook, query |-> s.query.hook,
   shownAt |-> {p \in Routes : \E q \in Pages[s.role][p].shows : q.hook = s.query.hook},
   offers |-> UNION {{[from |-> p, then |-> o.then, always |-> o.always] :
                        o \in {x \in Pages[s.role][p].offers : x.do = s.do}} : p \in Routes},
   accepted |-> s.role \in s.do.by,
   removed |-> Covers(s.do.removes, s.query),
   covered |-> Covers(s.do.invalidates, s.query)]
ShownAt(p) == p \in scene.shownAt

Init ==
  /\ \E s \in Scenes : scene = Cast(s)
  /\ page = "/"
  /\ entry = NotCached /\ fetch = NoFetch /\ write = NoWrite
  /\ world = 0 /\ told = 0

-----------------------------------------------------------------------------
(* The cache (external: TanStack Query).                                   *)

isStale(e) == e.data = None \/ e.invalidated \/ e.expired

\* A screen that appears loads what is missing or stale, unless it is already being loaded.
Mount(p, e, f) == IF ShownAt(p) /\ isStale(e) /\ ~f.on THEN Asked ELSE f

\* invalidateQueries marks the entry; if it is on the screen it is loaded again, and a
\* load under way is cancelled for that, unless it is the first one.  A load that is not
\* cancelled clears the mark when it arrives: it misses the write if the server had
\* answered it before.
Invalidated(e) ==
  [e EXCEPT !.invalidated = TRUE, !.missed = FALSE]
Reloaded(e, f) ==
  IF ShownAt(page) /\ (e.data # None \/ ~f.on) THEN Asked
  ELSE [f EXCEPT !.missed = f.read # None]

-----------------------------------------------------------------------------
(* The user.                                                               *)

Go(to) ==
  /\ page' = Destination(to)
  /\ fetch' = Mount(Destination(to), entry, fetch)
  /\ write' = [write EXCEPT !.here = FALSE]
  /\ UNCHANGED <<scene, entry, world, told>>

Focus ==
  /\ ShownAt(page) /\ isStale(entry) /\ ~fetch.on
  /\ fetch' = Asked
  /\ UNCHANGED <<scene, page, entry, write, world, told>>

Submit(offer) ==
  /\ offer.from = page /\ write.at = "none" /\ world < MaxWrites
  /\ write' = [at |-> "sent", then |-> offer.then, always |-> offer.always, here |-> TRUE,
               ver |-> None]
  /\ UNCHANGED <<scene, page, entry, fetch, world, told>>

-----------------------------------------------------------------------------
(* The server and the network.  A write whose answer is lost has been made *)
(* or not; the browser does not try it again.                              *)

Commit ==
  /\ write.at = "sent" /\ world < MaxWrites
  /\ scene.accepted
  /\ world' = world + 1
  /\ write' = [write EXCEPT !.at = "committed", !.ver = world + 1]
  /\ UNCHANGED <<scene, page, entry, fetch, told>>

Refuse ==
  /\ write.at = "sent"
  /\ write' = [write EXCEPT !.at = "refused"]
  /\ UNCHANGED <<scene, page, entry, fetch, world, told>>

WriteFails ==
  /\ write.at \in {"committed", "refused"}
  /\ write' = NoWrite
  /\ UNCHANGED <<scene, page, entry, fetch, world, told>>

\* The answer of a write: onSuccess of the hook first, then where the offer leads.
Answered ==
  LET e == IF scene.removed THEN NotCached
           ELSE IF scene.covered /\ (entry.data # None \/ fetch.on) THEN Invalidated(entry)
           ELSE entry
      f == IF scene.removed THEN NoFetch
           ELSE IF scene.covered /\ (entry.data # None \/ fetch.on) THEN Reloaded(entry, fetch)
           ELSE [fetch EXCEPT !.missed = fetch.read # None]
      leaves == write.then # "" /\ (write.always \/ write.here)
  IN  /\ write.at = "committed"
      /\ told' = write.ver
      /\ entry' = e
      /\ page' = IF leaves THEN Destination(write.then) ELSE page
      /\ fetch' = IF leaves THEN Mount(page', e, f) ELSE f

\* Someone else's write: nothing tells this browser.
Elsewhere ==
  /\ world < MaxWrites
  /\ world' = world + 1
  /\ UNCHANGED <<scene, page, entry, fetch, write, told>>

ServerReads ==
  /\ fetch = Asked
  /\ fetch' = [fetch EXCEPT !.read = world]
  /\ UNCHANGED <<scene, page, entry, write, world, told>>

FetchArrives ==
  /\ fetch.read # None
  /\ entry' = [data |-> fetch.read, invalidated |-> FALSE, expired |-> FALSE,
               missed |-> fetch.missed, failed |-> FALSE]
  /\ fetch' = NoFetch
  /\ UNCHANGED <<scene, page, write, world, told>>

\* Both tries failed: what was there stays, marked as it was.
FetchFails ==
  /\ fetch.on
  /\ fetch' = NoFetch
  /\ entry' = [entry EXCEPT !.failed = TRUE]
  /\ UNCHANGED <<scene, page, write, world, told>>

\* staleTime, thirty seconds, has passed since the entry was loaded.
Expire ==
  /\ entry.data # None /\ ~entry.expired
  /\ entry' = [entry EXCEPT !.expired = TRUE]
  /\ UNCHANGED <<scene, page, fetch, write, world, told>>

\* An entry nothing shows is dropped after five minutes.
Collect ==
  /\ ~ShownAt(page) /\ ~fetch.on /\ entry # NotCached
  /\ entry' = NotCached
  /\ UNCHANGED <<scene, page, fetch, write, world, told>>

Next ==
  \/ \E to \in Pages[scene.role][page].leads : Go(to)
  \/ \E to \in Shells[scene.role].leads : Go(to)
  \/ Focus
  \/ \E offer \in scene.offers : Submit(offer)
  \/ Commit
  \/ Refuse
  \/ WriteFails
  \/ Answered /\ write' = NoWrite /\ UNCHANGED <<scene, world>>
  \/ Elsewhere
  \/ ServerReads
  \/ FetchArrives
  \/ FetchFails
  \/ Expire
  \/ Collect

Spec == Init /\ [][Next]_vars

-----------------------------------------------------------------------------
\* The screen shows what was there before a write the user has been told of, is not loading
\* anything newer and does not say that loading failed.  The one excuse the cache has is a
\* load that the server had answered before the browser heard of the write, and that was
\* not cancelled then.
ShowsOutdated ==
  /\ ShownAt(page) /\ entry.data # None /\ entry.data < told
  /\ ~entry.missed /\ ~fetch.missed /\ ~entry.failed
  /\ ~(fetch.on /\ (fetch.read = None \/ fetch.read >= told))

\* The hook of the write names the key of the query.
KeyIsNamed(s) == s.covered \/ s.removed

(* Once the user has been told that a write was made, no screen goes on    *)
(* showing a query the write touched as it was before: what the hook of    *)
(* the write invalidates is enough for the pages where the write is made   *)
(* and where it leads.                                                     *)
RefreshesAfterOwnWrite == ~ShowsOutdated

(* A requisition that becomes Fulfilled credits the stock: every view of   *)
(* the inventory and of the materials that reads stock or critical status  *)
(* needs a fresh read too (use-purchase-requisitions.ts:82-85).            *)
CreditReachesMaterials == scene.do = "useUpdatePrStatus" => ~ShowsOutdated

(* What a page a user can get to offers is a write the server accepts from *)
(* the user's role.  Rechecking all orders is the one offer made to every  *)
(* role that the server takes from two of them only.                       *)
OffersAreAccepted ==
  \A offer \in Pages[scene.role][page].offers :
    offer.do = useRecheckAllCtb \/ scene.role \in offer.do.by

(* Every page a user can get to links, and leads after a write, to pages   *)
(* that exist, never to the catch-all that silently opens the dashboard.   *)
LinksResolve ==
  /\ Pages[scene.role][page].leads \cup Shells[scene.role].leads \subseteq Routes
  /\ \A offer \in Pages[scene.role][page].offers : offer.then \in Routes \cup {""}
=============================================================================
