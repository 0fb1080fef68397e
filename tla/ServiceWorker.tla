---------------------------- MODULE ServiceWorker ----------------------------
(***************************************************************************)
(* The installable application: sw.js, its registration in every window    *)
(* and the browser that runs both.  A deployment publishes a build (an     *)
(* index.html and the bundles it names); sw.js is a file of its own, which *)
(* a deployment changes or not.  Worker revisions and cache names are      *)
(* numbers, in the order in which they were published; 0 is none.          *)
(***************************************************************************)
EXTENDS Integers, FiniteSetsExt

CONSTANTS Windows,
          MaxBuilds,      \* bound: deployments
          MaxFailures     \* bound: changes of the network

(* What the constants must be. *)
WorkerAssumption == MaxBuilds \in Nat \ {0}

Nets == {"online", "failing", "offline"}     \* failing: the proxy answers 502
Broken == -1                                 \* the proxy's error page

VARIABLES served,      \* [build, rev, name]: published now
          net, failures,
          active,      \* [rev, name, build]: the worker in control
          waiting,     \* the worker being installed, with "installed"
          cache,       \* cache name -> the build of its /index.html
          bundles,     \* builds whose bundles this browser has kept
          win,         \* the windows
          reloads, claims,     \* history: automatic reloads and take-overs
          checked              \* history: the build published at the last check

vars == <<served, net, failures, active, waiting, cache, bundles, win, reloads, claims, checked>>

NoWorker == [rev |-> 0, name |-> 0, build |-> 0, installed |-> FALSE]
Names == 1..MaxBuilds
Closed == [phase |-> "closed", build |-> 0, events |-> 0, refreshing |-> FALSE,
           missed |-> FALSE, kept |-> FALSE]

Init == /\ served = [build |-> 1, rev |-> 1, name |-> 1]
        /\ net = "online" /\ failures = 0
        /\ active = NoWorker /\ waiting = NoWorker
        /\ cache = [n \in Names |-> 0]
        /\ bundles = {}
        /\ win = [w \in Windows |-> Closed]
        /\ reloads = [w \in Windows |-> 0] /\ claims = 0 /\ checked = 0

worker == <<active, waiting, claims, checked>>

-----------------------------------------------------------------------------
(* The server and the network.  STATIC_CACHE is a name written by hand: a  *)
(* deployment may change sw.js and keep the name.                          *)
Deploy(changesWorker, renames) ==
    /\ served.build < MaxBuilds
    /\ renames => changesWorker
    /\ served' = [build |-> served.build + 1,
                  rev   |-> IF changesWorker THEN served.rev + 1 ELSE served.rev,
                  name  |-> IF renames THEN served.name + 1 ELSE served.name]
    /\ UNCHANGED <<net, failures, worker, cache, bundles, win, reloads>>

Connection(n) ==
    /\ failures < MaxFailures /\ n # net
    /\ net' = n /\ failures' = failures + 1
    /\ UNCHANGED <<served, worker, cache, bundles, win, reloads>>

-----------------------------------------------------------------------------
(* A navigation.  caches.match looks through the caches in the order of    *)
(* their creation.  Without a worker the browser goes to the network.      *)
Cached == LET with == {n \in Names : cache[n] # 0}
          IN  IF with = {} THEN 0 ELSE cache[Min(with)]

(* CORE_ASSETS holds /offline.html: wherever there is a cache, it is there. *)
Offline(w) ==
    [Closed EXCEPT !.phase = IF active.rev = 0 \/ Cached = 0 THEN "unreachable"
                             ELSE IF Cached = Broken THEN "refused" ELSE "loading",
                   !.build = IF active.rev = 0 THEN 0 ELSE Cached,
                   !.kept = active.rev # 0]

(* networkFirstNavigation keeps a good answer under /index.html. *)
PutIndex ==
    cache' = IF active.rev # 0 /\ net = "online"
             THEN [cache EXCEPT ![active.name] = served.build] ELSE cache

Navigate(w) ==
    /\ PutIndex
    /\ win' = [win EXCEPT ![w] =
                  IF net = "online" THEN [Closed EXCEPT !.phase = "loading", !.build = served.build]
                  ELSE IF net = "failing" THEN [Closed EXCEPT !.phase = "refused"]
                  ELSE Offline(w)]
    /\ UNCHANGED <<served, net, failures, worker, bundles>>

Visit(w) == Navigate(w) /\ UNCHANGED reloads

Close(w) ==
    /\ win[w].phase # "closed"
    /\ win' = [win EXCEPT ![w] = Closed]
    /\ UNCHANGED <<served, net, failures, worker, cache, bundles, reloads>>

(* cacheFirstAsset: a bundle that was kept, else one the server still has: *)
(* the published files are those of one build.  With its bundle the page   *)
(* runs registerServiceWorker and listens from then on.                    *)
LoadBundle(w) ==
    /\ win[w].phase = "loading"
    /\ LET found == \/ win[w].build \in bundles
                    \/ net = "online" /\ served.build = win[w].build
       IN  /\ win' = [win EXCEPT ![w].phase = IF found THEN "open" ELSE "blank"]
           /\ bundles' = IF found THEN bundles \union {win[w].build} ELSE bundles
    /\ UNCHANGED <<served, net, failures, worker, cache, reloads>>

-----------------------------------------------------------------------------
(* registration.update, when a window has loaded and every hour.           *)
Check(w) ==
    /\ win[w].phase = "open" /\ net = "online"
    /\ checked' = served.build
    /\ waiting' = IF waiting.rev = 0 /\ served.rev # active.rev
                  THEN [rev |-> served.rev, name |-> served.name,
                        build |-> served.build, installed |-> FALSE]
                  ELSE waiting
    /\ UNCHANGED <<served, net, failures, active, cache, bundles, win, reloads, claims>>

(* install: all the core files or none, then skipWaiting. *)
Install ==
    /\ waiting.rev # 0 /\ ~waiting.installed /\ net = "online"
    /\ cache' = [cache EXCEPT ![waiting.name] = served.build]
    /\ waiting' = [waiting EXCEPT !.installed = TRUE]
    /\ UNCHANGED <<served, net, failures, active, bundles, win, reloads, claims, checked>>

InstallFails ==
    /\ waiting.rev # 0 /\ ~waiting.installed /\ net # "online"
    /\ waiting' = NoWorker
    /\ UNCHANGED <<served, net, failures, active, cache, bundles, win, reloads, claims, checked>>

(* activate: the caches of the prefix under any other name go. *)
DeleteOthers == cache' = [n \in Names |-> IF n = waiting.name THEN cache[n] ELSE 0]

(* clients.claim: every window changes controller; the ones that listen    *)
(* get the event, a page that is still loading does not.                   *)
Activate ==
    /\ waiting.installed
    /\ DeleteOthers
    /\ active' = waiting /\ waiting' = NoWorker
    /\ claims' = claims + 1
    /\ win' = [w \in Windows |->
                  CASE win[w].phase = "open"    -> [win[w] EXCEPT !.events = @ + 1]
                    [] win[w].phase = "loading" -> [win[w] EXCEPT !.missed = TRUE]
                    [] OTHER                    -> win[w]]
    /\ UNCHANGED <<served, net, failures, bundles, reloads, checked>>

-----------------------------------------------------------------------------
\* Mutant of ControllerChange: nobody listens to the take-over.
IgnoreChange(w) ==
    /\ win[w].events > 0
    /\ win' = [win EXCEPT ![w].events = @ - 1]
    /\ UNCHANGED <<served, net, failures, worker, cache, bundles, reloads>>

(* controllerchange: the first one asks for a reload. *)
ControllerChange(w) ==
    /\ win[w].events > 0
    /\ win' = [win EXCEPT ![w].events = @ - 1, ![w].refreshing = TRUE]
    /\ reloads' = [reloads EXCEPT ![w] = IF win[w].refreshing THEN @ ELSE @ + 1]
    /\ UNCHANGED <<served, net, failures, worker, cache, bundles>>

(* The reload it asked for. *)
Reload(w) ==
    /\ win[w].refreshing
    /\ Navigate(w) /\ UNCHANGED reloads

Next == \/ \E c, r \in BOOLEAN : Deploy(c, r)
        \/ \E n \in Nets : Connection(n)
        \/ \E w \in Windows : \/ Visit(w) \/ Close(w) \/ LoadBundle(w) \/ Check(w)
                              \/ ControllerChange(w) \/ Reload(w)
        \/ Install \/ InstallFails \/ Activate

Spec == Init /\ [][Next]_vars

-----------------------------------------------------------------------------
(* Type invariant of the application. *)
WorkerTypeOK ==
    /\ served \in [build : 1..MaxBuilds, rev : 1..MaxBuilds, name : Names]
    /\ net \in Nets /\ failures \in 0..MaxFailures
    /\ {active, waiting} \subseteq [rev : 0..MaxBuilds, name : 0..MaxBuilds,
                                    build : 0..MaxBuilds, installed : BOOLEAN]
    /\ cache \in [Names -> 0..MaxBuilds] /\ bundles \subseteq 1..MaxBuilds
    /\ win \in [Windows -> [phase : {"closed", "loading", "open", "blank", "refused", "unreachable"},
                            build : 0..MaxBuilds, events : Nat, refreshing : BOOLEAN,
                            missed : BOOLEAN, kept : BOOLEAN]]
    /\ reloads \in [Windows -> Nat] /\ claims \in 0..MaxBuilds /\ checked \in 0..MaxBuilds

(* With a worker in control, a navigation without network always finds a   *)
(* shell that some build published: neither the browser's error page nor a *)
(* kept error of the proxy, whatever was deployed, renamed or half done.   *)
OfflineAnswered == active.rev # 0 => Cached > 0

(* Once its events are handled, a window that was listening when the       *)
(* worker took over shows a build no older than that worker, though the    *)
(* reload may have found no network.                                       *)
Settled(w) == win[w].phase = "open" /\ win[w].events = 0 /\ ~win[w].refreshing
WindowFollowsWorker ==
    \A w \in Windows : Settled(w) /\ ~win[w].missed => win[w].build >= active.build

(* A take-over reloads a window at most once. *)
OneReloadPerTakeOver == \A w \in Windows : reloads[w] <= claims

(* What the release notes of version 0.0.20 say of a window that was open  *)
(* through the update check: the application is reloaded when the frontend *)
(* changes.  "missed" sets aside the windows that were still loading.      *)
ReloadedWhenFrontendChanges ==
    waiting.rev = 0 =>
        \A w \in Windows : Settled(w) /\ ~win[w].missed => win[w].build >= checked

(* What PWA.md says of a navigation without network: the shell, or offline.html when    *)
(* the shell is not available, never a page without its bundle.            *)
ShellOrOfflinePage == \A w \in Windows : win[w].phase = "blank" => ~win[w].kept
=============================================================================
