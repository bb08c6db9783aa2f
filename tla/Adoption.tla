------------------------------- MODULE Adoption -------------------------------
(***************************************************************************)
(* How a configuration change reaches the audio worker and how its caller  *)
(* learns of it: the revision protocol of DspEngine (mark_graph_dirty,     *)
(* process_audio, wait_for_revision, start, stop), the control transaction *)
(* that WebServer wraps around every mutating HTTP request, and            *)
(* ClientManager::remove_session, which runs on a WebSocket thread without *)
(* the control mutex.                                                      *)
(*                                                                         *)
(* The configuration is three version counters: the published route list,  *)
(* the set of active devices and the set of usable sessions.  The audio    *)
(* worker's graph, the block it plays and the settings file are described  *)
(* by the versions that they were made from.                               *)
(***************************************************************************)
EXTENDS Integers, Sequences

CONSTANTS Clients,      \* HTTP worker threads
          Sockets,      \* WebSocket connections, each with its thread
          Nobody,       \* a mutex is free
          MaxRequests,  \* bound: HTTP requests in a behaviour
          MaxStarts     \* bound: calls of DspEngine::start

ASSUME AdoptionAssumption ==
  /\ Nobody \notin Clients \cup Sockets
  /\ Clients \cap Sockets = {}
  /\ MaxRequests \in Nat /\ MaxStarts \in Nat

Parts == {"routes", "devices", "sessions"}
Kinds == {"routes", "devices", "save"}

VARIABLES
  config,     \* versions published by control and WebSocket threads
  requested, adopted, dirty, running,   \* the engine's atomics
  built, target, graph,                 \* owned by the audio worker
  apc, snap,                            \* its step, its snapshots of config
  web,        \* WebServer::m_running
  owner,      \* the thread that starts and stops engine and server
  starts,
  control,    \* holder of ClientManager::m_control_lock
  mlock,      \* holder of ClientManager::m_lock, as far as it matters here
  hpc, kind, htarget, answer, requests, \* HTTP threads
  spc,        \* WebSocket threads
  file,       \* versions in the settings file
  persistedRevision,
  issued,     \* history: issued[r] = the versions that revision r vouches for
  played,     \* history: the versions the last completed block was made from
  change      \* history: the version each HTTP thread published last

engine == <<requested, adopted, dirty, running, built, target, graph, apc, snap, played>>
http   == <<hpc, kind, htarget, answer, requests, change>>
disk   == <<file, persistedRevision>>
life   == <<web, owner, starts>>
vars == <<config, engine, life, control, mlock, http, spc, disk, issued>>

Nothing == [p \in Parts |-> 0]
AtMost(a, b) == \A p \in Parts : a[p] <= b[p]

Init ==
  /\ config = Nothing
  /\ requested = 1 /\ adopted = 0 /\ dirty = TRUE /\ running = FALSE
  /\ built = 0 /\ target = 0 /\ graph = Nothing
  /\ apc = "none" /\ snap = Nothing
  /\ web = FALSE /\ owner = "down" /\ starts = 0
  /\ control = Nobody /\ mlock = Nobody
  /\ hpc = [c \in Clients |-> "idle"]
  /\ kind = [c \in Clients |-> "save"]
  /\ htarget = [c \in Clients |-> 0]
  /\ answer = [c \in Clients |-> "none"]
  /\ requests = 0
  /\ spc = [s \in Sockets |-> "new"]
  /\ file = Nothing /\ persistedRevision = 0
  /\ issued = <<Nothing>>
  /\ played = Nothing
  /\ change = [c \in Clients |-> Nothing]

-------------------------------------------------------------------------------
(* DspEngine::mark_graph_dirty (and request_adoption): two atomic stores,  *)
(* so two steps.  v is what the caller has published, or holds m_lock for. *)

SetDirty == /\ dirty' = TRUE
            /\ UNCHANGED <<requested, adopted, running, built, target, graph, apc, snap, played>>

BumpRevision(v) ==
  /\ requested' = requested + 1
  /\ issued' = Append(issued, v)
  /\ UNCHANGED <<adopted, dirty, running, built, target, graph, apc, snap, played>>

-------------------------------------------------------------------------------
(* The audio worker: DspEngine::processing_loop and process_audio.         *)

AudioStep(from, to) == apc = from /\ apc' = to
NotEngine == UNCHANGED <<config, life, control, mlock, http, spc, disk, issued>>

(* `while (m_running)`                                                     *)
LoopTest ==
  /\ AudioStep("top", IF running THEN "load" ELSE "done")
  /\ UNCHANGED <<requested, adopted, dirty, running, built, target, graph, snap, played>>
  /\ NotEngine

LoadTarget ==
  /\ AudioStep("load", "exchange")
  /\ target' = requested
  /\ UNCHANGED <<requested, adopted, dirty, running, built, graph, snap, played>>
  /\ NotEngine

(* Mutant: rebuild only when both signs of a change are seen.              *)
ExchangeDirtyBoth ==
  /\ AudioStep("exchange", IF dirty /\ built # target THEN "snapRoutes" ELSE "process")
  /\ dirty' = FALSE
  /\ UNCHANGED <<requested, adopted, running, built, target, graph, snap, played>>
  /\ NotEngine

ExchangeDirty ==
  /\ AudioStep("exchange", IF dirty \/ built # target THEN "snapRoutes" ELSE "process")
  /\ dirty' = FALSE
  /\ UNCHANGED <<requested, adopted, running, built, target, graph, snap, played>>
  /\ NotEngine

(* rebuild_graph takes its three snapshots one after the other; the one of *)
(* the sessions needs m_lock.                                              *)
Snapshot(part, from, to) ==
  /\ AudioStep(from, to)
  /\ part = "sessions" => mlock = Nobody
  /\ snap' = [snap EXCEPT ![part] = config[part]]
  /\ UNCHANGED <<requested, adopted, dirty, running, built, target, graph, played>>
  /\ NotEngine

Commit ==
  /\ AudioStep("commit", "process")
  /\ graph' = snap
  /\ built' = target
  /\ snap' = Nothing                             \* a local of rebuild_graph
  /\ UNCHANGED <<requested, adopted, dirty, running, target, played>>
  /\ NotEngine

Process ==
  /\ AudioStep("process", "adopt")
  /\ played' = graph
  /\ UNCHANGED <<requested, adopted, dirty, running, built, target, graph, snap>>
  /\ NotEngine

(* Mutant: the newest revision is acknowledged instead of the captured one.*)
AdoptLatest ==
  /\ AudioStep("adopt", "top")
  /\ adopted' = requested
  /\ target' = 0                                 \* a local of process_audio
  /\ UNCHANGED <<requested, dirty, running, built, graph, snap, played>>
  /\ NotEngine

Adopt ==
  /\ AudioStep("adopt", "top")
  /\ adopted' = target
  /\ target' = 0                                 \* a local of process_audio
  /\ UNCHANGED <<requested, dirty, running, built, graph, snap, played>>
  /\ NotEngine

AudioWorker ==
  \/ LoopTest \/ LoadTarget \/ ExchangeDirty
  \/ Snapshot("routes", "snapRoutes", "snapDevices")
  \/ Snapshot("devices", "snapDevices", "snapSessions")
  \/ Snapshot("sessions", "snapSessions", "commit")
  \/ Commit \/ Process \/ Adopt

-------------------------------------------------------------------------------
(* An HTTP thread: the `post` wrapper, the DELETE handler and              *)
(* /api/settings/save.  Kind "routes" is add, update or remove; "devices"  *)
(* is activate or deactivate, which also saves.                            *)

HttpStep(c, from, to) == hpc[c] = from /\ hpc' = [hpc EXCEPT ![c] = to]
NotHttp == UNCHANGED <<life, mlock, spc>>

(* The listener hands a request to a thread; it waits for the mutex.       *)
Arrive(c) ==
  /\ owner = "up" /\ requests < MaxRequests
  /\ HttpStep(c, "idle", "lock")
  /\ \E k \in Kinds : kind' = [kind EXCEPT ![c] = k]
  /\ requests' = requests + 1
  /\ answer' = [answer EXCEPT ![c] = "none"]
  /\ UNCHANGED <<htarget, change, config, engine, control, disk, issued>>
  /\ NotHttp

(* Every return of a handler answers and releases the control mutex.       *)
Answer(c, a) ==
  /\ answer' = [answer EXCEPT ![c] = a]
  /\ control' = Nobody

(* Mutant: the control mutex is released as soon as the request is let in. *)
LockControlBriefly(c) ==
  /\ control = Nobody
  /\ \/ web /\ HttpStep(c, "lock", "handle") /\ UNCHANGED <<answer, control>>
     \/ ~web /\ HttpStep(c, "lock", "idle") /\ Answer(c, "stopping")
  /\ UNCHANGED <<kind, htarget, requests, change, config, engine, disk, issued>>
  /\ NotHttp

LockControl(c) ==
  /\ control = Nobody
  /\ \/ /\ web
        /\ HttpStep(c, "lock", "handle")
        /\ control' = c
        /\ UNCHANGED answer
     \/ /\ ~web                                  \* 503 server is stopping
        /\ HttpStep(c, "lock", "idle")
        /\ Answer(c, "stopping")
  /\ UNCHANGED <<kind, htarget, requests, change, config, engine, disk, issued>>
  /\ NotHttp

(* The request fails validation: nothing has been published.               *)
Reject(c) ==
  /\ kind[c] # "save"
  /\ HttpStep(c, "handle", "idle")
  /\ Answer(c, "rejected")
  /\ UNCHANGED <<kind, htarget, requests, change, config, engine, disk, issued>>
  /\ NotHttp

Publish(c) ==
  /\ IF kind[c] = "save"
       THEN HttpStep(c, "handle", "reqDirty") /\ UNCHANGED config
       ELSE HttpStep(c, "handle", "markDirty") /\ config' = [config EXCEPT ![kind[c]] = @ + 1]
  /\ change' = [change EXCEPT ![c] = config']
  /\ UNCHANGED <<kind, htarget, answer, requests, control, engine, disk, issued>>
  /\ NotHttp

(* The mutation marks the graph, and the wrapper requests adoption.        *)
HttpDirty(c) ==
  /\ HttpStep(c, "markDirty", "markBump") \/ HttpStep(c, "reqDirty", "reqBump")
  /\ SetDirty
  /\ UNCHANGED <<kind, htarget, answer, requests, change, config, control, disk, issued>>
  /\ NotHttp

HttpBump(c) ==
  /\ \/ HttpStep(c, "markBump", "reqDirty") /\ UNCHANGED htarget
     \/ HttpStep(c, "reqBump", "wait") /\ htarget' = [htarget EXCEPT ![c] = requested + 1]
  /\ BumpRevision(config)
  /\ UNCHANGED <<kind, answer, requests, change, config, control, disk>>
  /\ NotHttp

(* wait_for_revision: adopted is tested before the engine's running flag   *)
(* and the deadline; the deadline may have passed at any test.             *)
WaitAdopted(c) ==
  /\ adopted >= htarget[c]
  /\ \/ /\ kind[c] = "routes"
        /\ HttpStep(c, "wait", "idle")
        /\ Answer(c, "ok")
     \/ /\ kind[c] # "routes"
        /\ HttpStep(c, "wait", "save")
        /\ UNCHANGED <<answer, control>>
  /\ UNCHANGED <<kind, htarget, requests, change, config, engine, disk, issued>>
  /\ NotHttp

WaitGivesUp(c) ==
  /\ adopted < htarget[c]
  /\ HttpStep(c, "wait", "idle")
  /\ Answer(c, "pending")
  /\ UNCHANGED <<kind, htarget, requests, change, config, engine, disk, issued>>
  /\ NotHttp

(* save_settings succeeds, or leaves the previous file.                    *)
Save(c) ==
  /\ HttpStep(c, "save", "idle")
  /\ \/ /\ file' = config
        /\ persistedRevision' = htarget[c]
        /\ Answer(c, "saved")
     \/ /\ UNCHANGED disk
        /\ Answer(c, "unsaved")
  /\ UNCHANGED <<kind, htarget, requests, change, config, engine, issued>>
  /\ NotHttp

HttpHandler(c) == \/ LockControl(c) \/ Reject(c) \/ Publish(c) \/ HttpDirty(c)
                  \/ HttpBump(c) \/ WaitAdopted(c) \/ WaitGivesUp(c) \/ Save(c)

-------------------------------------------------------------------------------
(* A WebSocket connection: a hello that is accepted, and its close.        *)

SocketStep(s, from, to) == spc[s] = from /\ spc' = [spc EXCEPT ![s] = to]
NotSocket == UNCHANGED <<life, http, disk>>

(* hello: under the control mutex, media_ready is stored, then marked.     *)
HelloLock(s) ==
  /\ control = Nobody /\ control' = s
  /\ SocketStep(s, "new", "hello")
  /\ UNCHANGED <<config, engine, mlock, issued>> /\ NotSocket

HelloReady(s) ==
  /\ SocketStep(s, "hello", "helloDirty")
  /\ config' = [config EXCEPT !["sessions"] = @ + 1]
  /\ UNCHANGED <<engine, control, mlock, issued>> /\ NotSocket

HelloDirty(s) ==
  /\ SocketStep(s, "helloDirty", "helloBump")
  /\ SetDirty
  /\ UNCHANGED <<config, control, mlock, issued>> /\ NotSocket

(* Mutant: the hello handler returns without unlocking.                    *)
HelloBumpKeepsLock(s) ==
  /\ SocketStep(s, "helloBump", "ready")
  /\ BumpRevision(config)
  /\ UNCHANGED <<control, config, mlock>> /\ NotSocket

HelloBump(s) ==
  /\ SocketStep(s, "helloBump", "ready")
  /\ BumpRevision(config)
  /\ control' = Nobody
  /\ UNCHANGED <<config, mlock>> /\ NotSocket

(* remove_session: m_lock is held from here to the erase; the graph is     *)
(* marked twice (two endpoints) BEFORE the session is erased.              *)
CloseLock(s) ==
  /\ mlock = Nobody /\ mlock' = s
  /\ SocketStep(s, "new", "close1Dirty") \/ SocketStep(s, "ready", "close1Dirty")
  /\ UNCHANGED <<config, engine, control, issued>> /\ NotSocket

CloseDirty(s) ==
  /\ SocketStep(s, "close1Dirty", "close1Bump") \/ SocketStep(s, "close2Dirty", "close2Bump")
  /\ SetDirty
  /\ UNCHANGED <<config, control, mlock, issued>> /\ NotSocket

(* Mutant: the lock is dropped before the erase.                           *)
CloseBumpUnlocks(s) ==
  /\ \/ SocketStep(s, "close1Bump", "close2Dirty") /\ UNCHANGED mlock
     \/ SocketStep(s, "close2Bump", "erase") /\ mlock' = Nobody
  /\ BumpRevision([config EXCEPT !["sessions"] = @ + 1])
  /\ UNCHANGED <<config, control>> /\ NotSocket

CloseBump(s) ==
  /\ SocketStep(s, "close1Bump", "close2Dirty") \/ SocketStep(s, "close2Bump", "erase")
  /\ BumpRevision([config EXCEPT !["sessions"] = @ + 1])
  /\ UNCHANGED <<config, control, mlock>> /\ NotSocket

(* Mutant: m_lock stays locked.                                            *)
CloseEraseKeepsLock(s) ==
  /\ SocketStep(s, "erase", "gone")
  /\ config' = [config EXCEPT !["sessions"] = @ + 1]
  /\ UNCHANGED <<mlock, engine, control, issued>> /\ NotSocket

CloseErase(s) ==
  /\ SocketStep(s, "erase", "gone")
  /\ config' = [config EXCEPT !["sessions"] = @ + 1]
  /\ mlock' = Nobody
  /\ UNCHANGED <<engine, control, issued>> /\ NotSocket

SocketHandler(s) == \/ HelloReady(s) \/ HelloDirty(s) \/ HelloBump(s)
                    \/ CloseDirty(s) \/ CloseBump(s) \/ CloseErase(s)

-------------------------------------------------------------------------------
(* The owner of engine and server: DspEngine::start, WebServer::stop.      *)

NotOwner == UNCHANGED <<config, control, mlock, http, spc, disk, issued>>

(* The engine's thread is spawned (or the attempt throws), then the web    *)
(* server accepts requests.                                                *)
Start ==
  /\ owner = "down" /\ starts < MaxStarts
  /\ starts' = starts + 1
  /\ dirty' = TRUE
  /\ \/ running' = TRUE /\ apc' = "top" /\ owner' = "up" /\ web' = TRUE
     \/ UNCHANGED <<running, apc, owner, web>>
  /\ UNCHANGED <<requested, adopted, built, target, graph, snap, played>>
  /\ NotOwner

BeginStop ==
  /\ owner = "up" /\ owner' = "drain" /\ web' = FALSE
  /\ UNCHANGED <<engine, starts>> /\ NotOwner

(* Mutant: the worker is joined without being told to end.                 *)
StopEngineUntold ==
  /\ owner = "drain" /\ \A c \in Clients : hpc[c] = "idle"
  /\ owner' = "join"
  /\ UNCHANGED <<web, starts, engine>>
  /\ NotOwner

(* Joining the HTTP thread waits for every handler; then stop() begins.    *)
StopEngine ==
  /\ owner = "drain" /\ \A c \in Clients : hpc[c] = "idle"
  /\ owner' = "join" /\ running' = FALSE
  /\ UNCHANGED <<web, starts, requested, adopted, dirty, built, target, graph, apc, snap, played>>
  /\ NotOwner

(* After the join the graph is discarded; the adopted revision is kept.    *)
JoinWorker ==
  /\ owner = "join" /\ apc = "done"
  /\ owner' = "down" /\ apc' = "none"
  /\ graph' = Nothing /\ built' = 0 /\ dirty' = TRUE
  /\ UNCHANGED <<web, starts, requested, adopted, running, target, snap, played>>
  /\ NotOwner

-------------------------------------------------------------------------------
Next == \/ AudioWorker
        \/ \E c \in Clients : Arrive(c) \/ HttpHandler(c)
        \/ \E s \in Sockets : HelloLock(s) \/ CloseLock(s) \/ SocketHandler(s)
        \/ Start \/ BeginStop \/ StopEngine \/ JoinWorker

(* Threads that have work do it; peers, users and the operator may not.    *)
Fairness == /\ WF_vars(AudioWorker)
            /\ \A c \in Clients : WF_vars(HttpHandler(c))
            /\ \A s \in Sockets : WF_vars(SocketHandler(s))
            /\ WF_vars(StopEngine) /\ WF_vars(JoinWorker)

Spec == Init /\ [][Next]_vars /\ Fairness

-------------------------------------------------------------------------------
Versions == [Parts -> Nat]

HttpSteps == {"idle", "lock", "handle", "markDirty", "markBump", "reqDirty",
              "reqBump", "wait", "save"}
SocketSteps == {"new", "hello", "helloDirty", "helloBump", "ready", "close1Dirty",
                "close1Bump", "close2Dirty", "close2Bump", "erase", "gone"}
AudioSteps == {"none", "top", "load", "exchange", "snapRoutes", "snapDevices",
               "snapSessions", "commit", "process", "adopt", "done"}
Answers == {"none", "stopping", "rejected", "ok", "pending", "saved", "unsaved"}

TypeVersions ==
  /\ config \in Versions /\ graph \in Versions /\ snap \in Versions
  /\ played \in Versions /\ file \in Versions
  /\ change \in [Clients -> Versions]
  /\ issued \in Seq(Versions)

TypeRevisions ==
  /\ requested \in Nat \ {0}
  /\ Len(issued) = requested
  /\ adopted \in 0..requested /\ built \in 0..requested /\ target \in 0..requested
  /\ htarget \in [Clients -> 0..requested]
  /\ persistedRevision \in 0..requested
  /\ starts \in Nat /\ requests \in Nat

TypeFlags == dirty \in BOOLEAN /\ running \in BOOLEAN /\ web \in BOOLEAN

TypeSteps ==
  /\ apc \in AudioSteps
  /\ owner \in {"down", "up", "drain", "join"}
  /\ control \in Clients \cup Sockets \cup {Nobody}
  /\ mlock \in Sockets \cup {Nobody}
  /\ hpc \in [Clients -> HttpSteps]
  /\ kind \in [Clients -> Kinds]
  /\ answer \in [Clients -> Answers]
  /\ spc \in [Sockets -> SocketSteps]

(* Types; no revision is built, adopted or awaited that was not requested. *)
TypeOK == TypeVersions /\ TypeRevisions /\ TypeFlags /\ TypeSteps

(* "A revision is acknowledged only after a complete audio block has       *)
(* finished using the adopted state": whatever was published before an     *)
(* adopted revision was issued, or is being erased under m_lock by its     *)
(* issuer, was part of a completed block.                                  *)
AdoptedWasPlayed == \A r \in 1..adopted : AtMost(issued[r], played)

(* "No old block is in flight": once a revision is adopted, also across a  *)
(* restart of the engine, no block runs on a graph that predates it.       *)
NoStaleBlock ==
  apc \in {"process", "adopt"} => \A r \in 1..adopted : AtMost(issued[r], graph)

(* A caller that is told that its change was applied can rely on it: the   *)
(* change has been heard.                                                  *)
ConfirmedIsHeard ==
  \A c \in Clients : answer[c] \in {"ok", "saved", "unsaved"} => AtMost(change[c], played)

(* The settings file holds exactly the routes and devices of the persisted *)
(* revision, and that revision was adopted: a change that was only         *)
(* accepted (503 pending), or that another request makes meanwhile, is not *)
(* saved under it.                                                         *)
PersistedIsAdopted ==
  persistedRevision # 0 =>
    /\ persistedRevision <= adopted
    /\ \A p \in {"routes", "devices"} : file[p] = issued[persistedRevision][p]

(* Every HTTP request is answered, whether or not the engine adopts: each  *)
(* thread is idle again and again.                                         *)
RequestsAnswered == \A c \in Clients : []<>(hpc[c] = "idle")

(* While the engine runs it catches up with the requested revisions again  *)
(* and again: no published change stays unadopted for good.                *)
RevisionsAdopted == []<>(adopted = requested \/ ~running)

(* WebServer::stop and DspEngine::stop, with their joins, terminate: the   *)
(* owner, which leaves "drain" and "join" only for "down", never stays.    *)
StopCompletes == []<>(owner \in {"down", "up"})
===============================================================================
