---------------------------- MODULE AdoptionProofs ----------------------------
(***************************************************************************)
(* Proofs about Adoption, for any number of HTTP threads, WebSocket        *)
(* connections, requests and engine restarts.                              *)
(***************************************************************************)
EXTENDS Adoption, SequenceTheorems, TLAPS

LEMMA NothingIsVersions == Nothing \in Versions
  BY DEF Nothing, Versions

(* One more publication of a part.                                         *)
LEMMA NewVersion ==
  ASSUME NEW v \in Versions, NEW p \in Parts
  PROVE  /\ [v EXCEPT ![p] = @ + 1] \in Versions
         /\ AtMost(v, [v EXCEPT ![p] = @ + 1])
  BY DEF Versions, AtMost

LEMMA TypeInit == Init => TypeOK
<1> SUFFICES ASSUME Init PROVE TypeOK
  OBVIOUS
<1> USE NothingIsVersions DEF Init
<1>1. TypeVersions
  BY DEF TypeVersions
<1>2. TypeRevisions
  BY DEF TypeRevisions
<1>3. TypeFlags
  BY DEF TypeFlags
<1>4. TypeSteps
  BY DEF TypeSteps, AudioSteps, HttpSteps, SocketSteps, Answers, Kinds
<1> QED
  BY <1>1, <1>2, <1>3, <1>4 DEF TypeOK

(* The versions stay versions.                                             *)
LEMMA VersionsNext == TypeOK /\ [Next]_vars => TypeVersions'
<1> SUFFICES ASSUME TypeOK, [Next]_vars PROVE TypeVersions'
  OBVIOUS
<1> USE DEF TypeOK, TypeVersions, engine, http, disk, life, NotEngine, NotHttp,
        NotSocket, NotOwner, SetDirty, BumpRevision
<1>1. [config EXCEPT !["sessions"] = @ + 1] \in Versions
  BY NewVersion DEF Parts
<1>2. ASSUME NEW p \in Parts, NEW f, NEW t, Snapshot(p, f, t) PROVE TypeVersions'
  <2>1. [snap EXCEPT ![p] = config[p]] \in Versions
    BY DEF Versions
  <2> QED BY <1>2, <2>1 DEF Snapshot
<1>3. CASE LoopTest \/ LoadTarget \/ ExchangeDirty \/ Commit \/ Process \/ Adopt
  BY <1>3, NothingIsVersions DEF LoopTest, LoadTarget, ExchangeDirty, Commit, Process, Adopt
<1>4. ASSUME NEW c \in Clients, Publish(c) PROVE TypeVersions'
  <2>1. kind[c] \in Parts \/ kind[c] = "save"
    BY DEF TypeSteps, Kinds, Parts
  <2>2. config' \in Versions
    BY <1>4, <2>1, NewVersion DEF Publish
  <2> QED BY <1>4, <2>2 DEF Publish
<1>5. ASSUME NEW c \in Clients,
             \/ Arrive(c) \/ LockControl(c) \/ Reject(c) \/ HttpDirty(c) \/ HttpBump(c)
             \/ WaitAdopted(c) \/ WaitGivesUp(c) \/ Save(c)
      PROVE  TypeVersions'
  BY <1>5 DEF Arrive, LockControl, Reject, HttpDirty, HttpBump, WaitAdopted, WaitGivesUp, Save
<1>6. ASSUME NEW s \in Sockets,
             HelloLock(s) \/ HelloDirty(s) \/ HelloBump(s) \/ CloseLock(s) \/ CloseDirty(s)
      PROVE  TypeVersions'
  BY <1>6 DEF HelloLock, HelloDirty, HelloBump, CloseLock, CloseDirty
<1>9. ASSUME NEW s \in Sockets, HelloReady(s) \/ CloseBump(s) \/ CloseErase(s)
      PROVE  TypeVersions'
  <2>1. CASE HelloReady(s)
    BY <1>1, <2>1 DEF HelloReady
  <2>2. CASE CloseBump(s)
    BY <1>1, <2>2 DEF CloseBump
  <2>3. CASE CloseErase(s)
    BY <1>1, <2>3 DEF CloseErase
  <2> QED BY <1>9, <2>1, <2>2, <2>3
<1>7. CASE Start \/ BeginStop \/ StopEngine \/ JoinWorker
  BY <1>7, NothingIsVersions DEF Start, BeginStop, StopEngine, JoinWorker
<1>8. CASE UNCHANGED vars
  BY <1>8 DEF vars
<1> QED
  BY <1>2, <1>3, <1>4, <1>5, <1>6, <1>7, <1>8, <1>9
  DEF Next, AudioWorker, HttpHandler, SocketHandler, Parts

(* The revisions stay within the requested ones.                           *)
LEMMA RevisionsNext == TypeOK /\ [Next]_vars => TypeRevisions'
<1> SUFFICES ASSUME TypeOK, [Next]_vars PROVE TypeRevisions'
  OBVIOUS
<1> USE DEF TypeOK, TypeRevisions, engine, http, disk, life, NotEngine, NotHttp,
        NotSocket, NotOwner, SetDirty
<1>1. ASSUME NEW v, BumpRevision(v)
      PROVE  /\ requested' = requested + 1
             /\ Len(issued') = requested'
             /\ UNCHANGED <<adopted, built, target>>
  BY <1>1 DEF BumpRevision, TypeVersions
<1>2. ASSUME NEW p, NEW f, NEW t, Snapshot(p, f, t) PROVE TypeRevisions'
  BY <1>2 DEF Snapshot
<1>3. CASE LoopTest \/ LoadTarget \/ ExchangeDirty \/ Commit \/ Process \/ Adopt
  BY <1>3 DEF LoopTest, LoadTarget, ExchangeDirty, Commit, Process, Adopt
<1>4. ASSUME NEW c \in Clients, HttpBump(c) PROVE TypeRevisions'
  <2>1. htarget' \in [Clients -> 0..requested']
    BY <1>1, <1>4 DEF HttpBump
  <2> QED BY <1>1, <1>4, <2>1 DEF HttpBump
<1>5. ASSUME NEW c \in Clients,
             \/ Arrive(c) \/ LockControl(c) \/ Reject(c) \/ Publish(c) \/ HttpDirty(c)
             \/ WaitAdopted(c) \/ WaitGivesUp(c) \/ Save(c)
      PROVE  TypeRevisions'
  <2>1. CASE Arrive(c)
    BY <2>1 DEF Arrive
  <2>2. CASE LockControl(c)
    BY <2>2 DEF LockControl
  <2>3. CASE Reject(c)
    BY <2>3 DEF Reject
  <2>4. CASE Publish(c)
    BY <2>4 DEF Publish
  <2>5. CASE HttpDirty(c)
    BY <2>5 DEF HttpDirty
  <2>6. CASE WaitAdopted(c)
    BY <2>6 DEF WaitAdopted
  <2>7. CASE WaitGivesUp(c)
    BY <2>7 DEF WaitGivesUp
  <2>8. CASE Save(c)
    BY <2>8 DEF Save
  <2> QED BY <1>5, <2>1, <2>2, <2>3, <2>4, <2>5, <2>6, <2>7, <2>8
<1>6. ASSUME NEW s \in Sockets,
             \/ HelloLock(s) \/ HelloReady(s) \/ HelloDirty(s)
             \/ CloseLock(s) \/ CloseDirty(s) \/ CloseErase(s)
      PROVE  TypeRevisions'
  BY <1>6 DEF HelloLock, HelloReady, HelloDirty, CloseLock, CloseDirty, CloseErase
<1>7. ASSUME NEW s \in Sockets, HelloBump(s) \/ CloseBump(s) PROVE TypeRevisions'
  BY <1>1, <1>7 DEF HelloBump, CloseBump
<1>8. CASE Start \/ BeginStop \/ StopEngine \/ JoinWorker
  BY <1>8 DEF Start, BeginStop, StopEngine, JoinWorker
<1>9. CASE UNCHANGED vars
  BY <1>9 DEF vars
<1> QED
  BY <1>2, <1>3, <1>4, <1>5, <1>6, <1>7, <1>8, <1>9
  DEF Next, AudioWorker, HttpHandler, SocketHandler

LEMMA FlagsNext == TypeOK /\ [Next]_vars => TypeFlags'
<1> SUFFICES ASSUME TypeOK, [Next]_vars PROVE TypeFlags'
  OBVIOUS
<1> USE DEF TypeOK, TypeFlags, engine, http, disk, life, NotEngine, NotHttp,
        NotSocket, NotOwner, SetDirty, BumpRevision
<1>1. CASE AudioWorker
  BY <1>1 DEF AudioWorker, LoopTest, LoadTarget, ExchangeDirty, Snapshot, Commit, Process, Adopt
<1>2. ASSUME NEW c \in Clients, Arrive(c) \/ HttpHandler(c) PROVE TypeFlags'
  BY <1>2 DEF Arrive, HttpHandler, LockControl, Reject, Publish, HttpDirty, HttpBump,
              WaitAdopted, WaitGivesUp, Save
<1>3. ASSUME NEW s \in Sockets, HelloLock(s) \/ CloseLock(s) \/ SocketHandler(s)
      PROVE  TypeFlags'
  BY <1>3 DEF SocketHandler, HelloLock, HelloReady, HelloDirty, HelloBump, CloseLock,
              CloseDirty, CloseBump, CloseErase
<1>4. CASE Start \/ BeginStop \/ StopEngine \/ JoinWorker
  BY <1>4 DEF Start, BeginStop, StopEngine, JoinWorker
<1>5. CASE UNCHANGED vars
  BY <1>5 DEF vars
<1> QED BY <1>1, <1>2, <1>3, <1>4, <1>5 DEF Next

LEMMA StepsNext == TypeOK /\ [Next]_vars => TypeSteps'
<1> SUFFICES ASSUME TypeOK, [Next]_vars PROVE TypeSteps'
  OBVIOUS
<1> USE DEF TypeOK, TypeSteps, engine, http, disk, life, NotEngine, NotHttp, NotSocket,
        NotOwner, SetDirty, BumpRevision, AudioStep, HttpStep, SocketStep, Answer,
        AudioSteps, HttpSteps, SocketSteps, Answers
<1>1. CASE AudioWorker
  BY <1>1 DEF AudioWorker, LoopTest, LoadTarget, ExchangeDirty, Snapshot, Commit, Process, Adopt
<1>2. ASSUME NEW c \in Clients, Arrive(c) \/ LockControl(c) \/ Reject(c) PROVE TypeSteps'
  BY <1>2 DEF Arrive, LockControl, Reject
<1>3. ASSUME NEW c \in Clients, Publish(c) \/ HttpDirty(c) \/ HttpBump(c) PROVE TypeSteps'
  BY <1>3 DEF Publish, HttpDirty, HttpBump
<1>4. ASSUME NEW c \in Clients, WaitAdopted(c) \/ WaitGivesUp(c) \/ Save(c) PROVE TypeSteps'
  BY <1>4 DEF WaitAdopted, WaitGivesUp, Save
<1>5. ASSUME NEW s \in Sockets, HelloLock(s) \/ CloseLock(s) \/ SocketHandler(s)
      PROVE  TypeSteps'
  BY <1>5 DEF SocketHandler, HelloLock, HelloReady, HelloDirty, HelloBump, CloseLock,
              CloseDirty, CloseBump, CloseErase
<1>6. CASE Start \/ BeginStop \/ StopEngine \/ JoinWorker
  BY <1>6 DEF Start, BeginStop, StopEngine, JoinWorker
<1>7. CASE UNCHANGED vars
  BY <1>7 DEF vars
<1> QED BY <1>1, <1>2, <1>3, <1>4, <1>5, <1>6, <1>7 DEF Next, HttpHandler

(* Every variable keeps its type, and no revision is built, adopted,       *)
(* awaited or persisted that mark_graph_dirty has not returned.            *)
THEOREM TypeCorrect == Spec => []TypeOK
<1>1. TypeOK /\ [Next]_vars => TypeOK'
  BY VersionsNext, RevisionsNext, FlagsNext, StepsNext DEF TypeOK
<1> QED BY TypeInit, <1>1, PTL DEF Spec

-------------------------------------------------------------------------------
(* The inductive invariant of the engine's side.                           *)

Closing == {"close1Dirty", "close1Bump", "close2Dirty", "close2Bump", "erase"}

(* The versions w cover everything that revisions 1..r vouch for.          *)
Covers(w, r) == \A q \in 1..r : AtMost(issued[q], w)
CoversPart(p, r) == \A q \in 1..r : issued[q][p] <= snap[p]

(* remove_session holds m_lock from its first mark to its erase.           *)
CloseHoldsLock == \A s \in Sockets : spc[s] \in Closing => mlock = s

(* A revision vouches for what is published, except that a session which   *)
(* is being removed under m_lock is still to be erased.                    *)
IssuedIsPublished ==
  \A r \in 1..requested : \A p \in Parts :
    \/ issued[r][p] <= config[p]
    \/ p = "sessions" /\ mlock # Nobody /\ issued[r][p] <= config[p] + 1

(* The graph covers the built revision; the snapshots taken so far cover   *)
(* the target; a block that is being played runs on the target's graph.    *)
BuiltIsCovered == Covers(graph, built)

SnapshotsCoverTarget ==
  /\ apc \in {"snapDevices", "snapSessions", "commit"} => CoversPart("routes", target)
  /\ apc \in {"snapSessions", "commit"} => CoversPart("devices", target)
  /\ apc = "commit" => CoversPart("sessions", target)

InBlock == {"exchange", "snapRoutes", "snapDevices", "snapSessions", "commit", "process", "adopt"}

BlockRunsTarget ==
  /\ apc \in InBlock => adopted <= target
  /\ apc \in {"process", "adopt"} => built = target
  /\ apc = "adopt" => played = graph

EngineInv == /\ TypeOK /\ CloseHoldsLock /\ IssuedIsPublished /\ BuiltIsCovered
             /\ SnapshotsCoverTarget /\ BlockRunsTarget /\ AdoptedWasPlayed

LEMMA EngineInit == Init => EngineInv
<1> SUFFICES ASSUME Init PROVE EngineInv
  OBVIOUS
<1>1. TypeOK
  BY TypeInit
<1>2. issued[1] = Nothing /\ requested = 1
  BY DEF Init
<1>3. IssuedIsPublished
  BY <1>2 DEF Init, IssuedIsPublished, Nothing
<1>4. CloseHoldsLock /\ SnapshotsCoverTarget /\ BlockRunsTarget
  BY DEF Init, CloseHoldsLock, Closing, SnapshotsCoverTarget, BlockRunsTarget, InBlock
<1>5. BuiltIsCovered /\ AdoptedWasPlayed
  BY DEF Init, BuiltIsCovered, Covers, AdoptedWasPlayed
<1> QED BY <1>1, <1>3, <1>4, <1>5 DEF EngineInv

(* A new revision extends the history without changing it.                 *)
LEMMA BumpExtends ==
  ASSUME TypeOK, NEW v \in Versions, BumpRevision(v)
  PROVE  /\ requested' = requested + 1
         /\ issued'[requested + 1] = v
         /\ \A q \in 1..requested : issued'[q] = issued[q]
  BY DEF TypeOK, TypeVersions, TypeRevisions, BumpRevision

(* Steps that neither mark the graph nor run on the audio worker, and do   *)
(* not take a publication back.                                            *)
LEMMA EngineFrame ==
  ASSUME EngineInv, TypeOK', CloseHoldsLock',
         UNCHANGED <<requested, adopted, built, target, graph, apc, snap, played, issued>>,
         AtMost(config, config'),
         mlock' = mlock \/ mlock = Nobody
            \/ (\A r \in 1..requested : AtMost(issued[r], config'))
  PROVE  EngineInv'
<1> USE DEF EngineInv
<1>1. IssuedIsPublished'
  <2> SUFFICES ASSUME NEW r \in 1..requested, NEW p \in Parts
               PROVE  \/ issued[r][p] <= config'[p]
                      \/ p = "sessions" /\ mlock' # Nobody /\ issued[r][p] <= config'[p] + 1
    BY DEF IssuedIsPublished
  <2>1. issued[r] \in Versions /\ config \in Versions /\ config' \in Versions
    BY DEF TypeOK, TypeVersions, TypeRevisions
  <2>2. issued[r][p] \in Nat /\ config[p] \in Nat /\ config'[p] \in Nat
    BY <2>1 DEF Versions
  <2>3. config[p] <= config'[p]
    BY DEF AtMost
  <2>4. \/ issued[r][p] <= config[p]
        \/ p = "sessions" /\ mlock # Nobody /\ issued[r][p] <= config[p] + 1
    BY DEF IssuedIsPublished
  <2>5. (\A q \in 1..requested : AtMost(issued[q], config')) => issued[r][p] <= config'[p]
    BY DEF AtMost
  <2> QED BY <2>2, <2>3, <2>4, <2>5
<1>2. (BuiltIsCovered /\ SnapshotsCoverTarget /\ BlockRunsTarget /\ AdoptedWasPlayed)'
  BY DEF BuiltIsCovered, SnapshotsCoverTarget, BlockRunsTarget, AdoptedWasPlayed, Covers, CoversPart
<1> QED BY <1>1, <1>2

(* mark_graph_dirty's second store: v is published, or its erase is due    *)
(* under m_lock.                                                           *)
LEMMA EngineBump ==
  ASSUME EngineInv, TypeOK', CloseHoldsLock', NEW v \in Versions, BumpRevision(v),
         UNCHANGED <<config, mlock>>,
         \A p \in Parts : \/ v[p] <= config[p]
                          \/ p = "sessions" /\ mlock # Nobody /\ v[p] <= config[p] + 1
  PROVE  EngineInv'
<1> USE DEF EngineInv
<1>1. /\ requested' = requested + 1
      /\ issued'[requested + 1] = v
      /\ \A q \in 1..requested : issued'[q] = issued[q]
  BY BumpExtends
<1>2. requested \in Nat /\ adopted <= requested /\ built <= requested /\ target <= requested
  BY DEF TypeOK, TypeRevisions
<1>3. UNCHANGED <<adopted, built, target, graph, apc, snap, played>>
  BY DEF BumpRevision
<1>4. IssuedIsPublished'
  <2> SUFFICES ASSUME NEW r \in 1..requested', NEW p \in Parts
               PROVE  \/ issued'[r][p] <= config[p]
                      \/ p = "sessions" /\ mlock # Nobody /\ issued'[r][p] <= config[p] + 1
    BY DEF IssuedIsPublished
  <2>1. CASE r \in 1..requested
    BY <1>1, <2>1 DEF IssuedIsPublished
  <2>2. CASE r = requested + 1
    BY <1>1, <2>2
  <2> QED BY <1>1, <1>2, <2>1, <2>2
<1>5. \A n \in 0..requested : \A q \in 1..n : issued'[q] = issued[q]
  BY <1>1, <1>2
<1>6. adopted \in 0..requested /\ built \in 0..requested /\ target \in 0..requested
  BY DEF TypeOK, TypeRevisions
<1>7. BuiltIsCovered' /\ AdoptedWasPlayed'
  BY <1>3, <1>5, <1>6 DEF BuiltIsCovered, AdoptedWasPlayed, Covers
<1>8. SnapshotsCoverTarget'
  BY <1>3, <1>5, <1>6 DEF SnapshotsCoverTarget, CoversPart
<1>9. BlockRunsTarget'
  BY <1>3 DEF BlockRunsTarget
<1> QED BY <1>4, <1>7, <1>8, <1>9

(* process_audio and rebuild_graph keep the invariant.                     *)
LEMMA EngineAudio == EngineInv /\ AudioWorker /\ TypeOK' => EngineInv'
<1> SUFFICES ASSUME EngineInv, AudioWorker, TypeOK' PROVE EngineInv'
  OBVIOUS
<1> USE DEF EngineInv
<1>1. UNCHANGED <<config, mlock, spc, issued>> /\ UNCHANGED requested
  BY DEF AudioWorker, NotEngine, LoopTest, LoadTarget, ExchangeDirty, Snapshot, Commit,
         Process, Adopt
<1>2. CloseHoldsLock' /\ IssuedIsPublished'
  BY <1>1 DEF CloseHoldsLock, IssuedIsPublished
<1>3. requested \in Nat /\ adopted \in Nat /\ built \in Nat /\ target \in Nat
      /\ adopted <= requested /\ target <= requested
  BY DEF TypeOK, TypeRevisions
<1> USE <1>1, <1>2, <1>3
    DEF AudioStep, BuiltIsCovered, SnapshotsCoverTarget, BlockRunsTarget, InBlock,
        AdoptedWasPlayed, Covers, CoversPart
<1>13. ASSUME NEW p \in Parts, NEW f, NEW t, Snapshot(p, f, t)
       PROVE  CoversPart(p, target)' /\ \A o \in Parts \ {p} : snap'[o] = snap[o]
  <2>1. \A q \in 1..requested : issued[q][p] <= config[p]
    BY <1>13 DEF IssuedIsPublished, Snapshot
  <2>2. snap' = [snap EXCEPT ![p] = config[p]] /\ snap \in [Parts -> Nat] /\ UNCHANGED target
    BY <1>13 DEF Snapshot, TypeOK, TypeVersions, Versions
  <2>3. snap'[p] = config[p] /\ \A o \in Parts \ {p} : snap'[o] = snap[o]
    BY <2>2
  <2> QED BY <2>1, <2>2, <2>3
<1>4. CASE LoopTest
  BY <1>4 DEF LoopTest
<1>5. CASE LoadTarget
  BY <1>5 DEF LoadTarget
<1>6. CASE ExchangeDirty
  BY <1>6 DEF ExchangeDirty
<1>7. CASE Snapshot("routes", "snapRoutes", "snapDevices")
  <2>1. CoversPart("routes", target)' /\ \A p \in Parts \ {"routes"} : snap'[p] = snap[p]
    <3>1. "routes" \in Parts
      BY DEF Parts
    <3> QED BY <1>7, <1>13, <3>1
  <2> QED BY <1>7, <2>1 DEF Snapshot, Parts
<1>8. CASE Snapshot("devices", "snapDevices", "snapSessions")
  <2>1. CoversPart("devices", target)' /\ \A p \in Parts \ {"devices"} : snap'[p] = snap[p]
    <3>1. "devices" \in Parts
      BY DEF Parts
    <3> QED BY <1>8, <1>13, <3>1
  <2> QED BY <1>8, <2>1 DEF Snapshot, Parts
<1>9. CASE Snapshot("sessions", "snapSessions", "commit")
  <2>1. CoversPart("sessions", target)' /\ \A p \in Parts \ {"sessions"} : snap'[p] = snap[p]
    <3>1. "sessions" \in Parts
      BY DEF Parts
    <3> QED BY <1>9, <1>13, <3>1
  <2> QED BY <1>9, <2>1 DEF Snapshot, Parts
<1>10. CASE Commit
  BY <1>10 DEF Commit, Parts, AtMost
<1>11. CASE Process
  BY <1>11 DEF Process
<1>12. CASE Adopt
  BY <1>12 DEF Adopt
<1> QED BY <1>4, <1>5, <1>6, <1>7, <1>8, <1>9, <1>10, <1>11, <1>12 DEF AudioWorker

(* Every step keeps the engine's invariant.                                *)
LEMMA EngineNext == EngineInv /\ [Next]_vars => EngineInv'
<1> SUFFICES ASSUME EngineInv, [Next]_vars PROVE EngineInv'
  OBVIOUS
<1>1. TypeOK /\ TypeOK'
  BY VersionsNext, RevisionsNext, FlagsNext, StepsNext DEF TypeOK, EngineInv
<1>2. config \in Versions /\ AtMost(config, config)
  BY <1>1 DEF TypeOK, TypeVersions, Versions, AtMost
<1>3. /\ [config EXCEPT !["sessions"] = @ + 1] \in Versions
      /\ AtMost(config, [config EXCEPT !["sessions"] = @ + 1])
  BY <1>2, NewVersion DEF Parts
<1> USE DEF engine, http, disk, life, NotHttp, NotSocket, NotOwner, SetDirty
<1>4. CASE AudioWorker
  BY <1>1, <1>4, EngineAudio
<1>5. ASSUME NEW c \in Clients,
             \/ Arrive(c) \/ LockControl(c) \/ Reject(c) \/ HttpDirty(c)
             \/ WaitAdopted(c) \/ WaitGivesUp(c) \/ Save(c)
      PROVE  EngineInv'
  <2>1. /\ UNCHANGED <<requested, adopted, built, target, graph, apc, snap, played, issued>>
        /\ UNCHANGED <<config, mlock, spc>>
    BY <1>5 DEF Arrive, LockControl, Reject, HttpDirty, WaitAdopted, WaitGivesUp, Save
  <2>2. CloseHoldsLock'
    BY <2>1 DEF EngineInv, CloseHoldsLock
  <2> QED BY <1>1, <1>2, <2>1, <2>2, EngineFrame
<1>6. ASSUME NEW c \in Clients, Publish(c) PROVE EngineInv'
  <2>1. kind[c] \in Parts \/ kind[c] = "save"
    BY <1>1 DEF TypeOK, TypeSteps, Kinds, Parts
  <2>2. AtMost(config, config')
    BY <1>2, <1>6, <2>1, NewVersion DEF Publish
  <2>3. /\ UNCHANGED <<requested, adopted, built, target, graph, apc, snap, played, issued>>
        /\ UNCHANGED <<mlock, spc>>
    BY <1>6 DEF Publish
  <2>4. CloseHoldsLock'
    BY <2>3 DEF EngineInv, CloseHoldsLock
  <2> QED BY <1>1, <2>2, <2>3, <2>4, EngineFrame
<1>7. ASSUME NEW c \in Clients, HttpBump(c) PROVE EngineInv'
  <2>1. BumpRevision(config) /\ UNCHANGED <<config, mlock, spc>>
    BY <1>7 DEF HttpBump
  <2>2. CloseHoldsLock'
    BY <2>1 DEF EngineInv, CloseHoldsLock
  <2> QED BY <1>1, <1>2, <2>1, <2>2, EngineBump DEF AtMost
<1>8. ASSUME NEW s \in Sockets, HelloLock(s) \/ HelloReady(s) \/ HelloDirty(s)
      PROVE  EngineInv'
  <2>1. /\ UNCHANGED <<requested, adopted, built, target, graph, apc, snap, played, issued, mlock>>
        /\ AtMost(config, config')
    BY <1>2, <1>3, <1>8 DEF HelloLock, HelloReady, HelloDirty
  <2>2. CloseHoldsLock'
    BY <1>1, <1>8 DEF HelloLock, HelloReady, HelloDirty, SocketStep, EngineInv,
                      CloseHoldsLock, Closing, TypeOK, TypeSteps
  <2> QED BY <1>1, <2>1, <2>2, EngineFrame
<1>9. ASSUME NEW s \in Sockets, HelloBump(s) PROVE EngineInv'
  <2>1. BumpRevision(config) /\ UNCHANGED <<config, mlock>>
    BY <1>9 DEF HelloBump
  <2>2. CloseHoldsLock'
    BY <1>1, <1>9 DEF HelloBump, SocketStep, EngineInv, CloseHoldsLock, Closing, TypeOK, TypeSteps
  <2> QED BY <1>1, <1>2, <2>1, <2>2, EngineBump DEF AtMost
<1>10. ASSUME NEW s \in Sockets, CloseLock(s) \/ CloseDirty(s) PROVE EngineInv'
  <2>1. /\ UNCHANGED <<requested, adopted, built, target, graph, apc, snap, played, issued, config>>
        /\ mlock' = mlock \/ mlock = Nobody
    BY <1>10 DEF CloseLock, CloseDirty
  <2>2. CloseHoldsLock'
    BY <1>1, <1>10, AdoptionAssumption DEF CloseLock, CloseDirty, SocketStep, EngineInv,
                       CloseHoldsLock, Closing, TypeOK, TypeSteps
  <2> QED BY <1>1, <1>2, <2>1, <2>2, EngineFrame
<1>11. ASSUME NEW s \in Sockets, CloseBump(s) PROVE EngineInv'
  <2> DEFINE v == [config EXCEPT !["sessions"] = @ + 1]
  <2>1. BumpRevision(v) /\ UNCHANGED <<config, mlock>> /\ mlock = s /\ mlock # Nobody
    BY <1>11, AdoptionAssumption DEF CloseBump, SocketStep, EngineInv, CloseHoldsLock, Closing
  <2>2. CloseHoldsLock'
    BY <1>1, <1>11 DEF CloseBump, SocketStep, EngineInv, CloseHoldsLock, Closing, TypeOK, TypeSteps
  <2>3. \A p \in Parts : v[p] <= config[p] \/ (p = "sessions" /\ v[p] <= config[p] + 1)
    BY <1>2 DEF Versions
  <2>4. v \in Versions
    BY <1>3
  <2> HIDE DEF v
  <2> QED BY <1>1, <2>1, <2>2, <2>3, <2>4, EngineBump
<1>12. ASSUME NEW s \in Sockets, CloseErase(s) PROVE EngineInv'
  <2>1. /\ UNCHANGED <<requested, adopted, built, target, graph, apc, snap, played, issued>>
        /\ config' = [config EXCEPT !["sessions"] = @ + 1] /\ mlock = s /\ mlock' = Nobody
    BY <1>12 DEF CloseErase, SocketStep, EngineInv, CloseHoldsLock, Closing
  <2>2. CloseHoldsLock'
    BY <1>1, <1>12, <2>1, AdoptionAssumption DEF CloseErase, SocketStep, EngineInv, CloseHoldsLock,
                      Closing, TypeOK, TypeSteps
  <2>3. \A r \in 1..requested : AtMost(issued[r], config')
    <3> SUFFICES ASSUME NEW r \in 1..requested, NEW p \in Parts PROVE issued[r][p] <= config'[p]
      BY DEF AtMost
    <3>1. issued[r] \in Versions
      <4>1. issued \in Seq(Versions)
        BY <1>1 DEF TypeOK, TypeVersions
      <4>2. Len(issued) = requested
        BY <1>1 DEF TypeOK, TypeRevisions
      <4> QED BY <4>1, <4>2
    <3>2. issued[r][p] \in Nat /\ config[p] \in Nat
      BY <1>2, <3>1 DEF Versions
    <3>3. config'[p] = IF p = "sessions" THEN config[p] + 1 ELSE config[p]
      BY <1>2, <2>1 DEF Versions
    <3> QED BY <3>2, <3>3 DEF EngineInv, IssuedIsPublished
  <2>4. AtMost(config, config')
    BY <1>3, <2>1
  <2> QED BY <1>1, <2>1, <2>2, <2>3, <2>4, EngineFrame
<1>13. CASE Start \/ BeginStop \/ StopEngine \/ JoinWorker
  <2>1. UNCHANGED <<config, mlock, spc, issued, requested, adopted, target, snap, played>>
    BY <1>13 DEF Start, BeginStop, StopEngine, JoinWorker
  <2>2. CloseHoldsLock' /\ IssuedIsPublished' /\ AdoptedWasPlayed'
    BY <2>1 DEF EngineInv, CloseHoldsLock, IssuedIsPublished, AdoptedWasPlayed
  <2>3. \/ apc' = apc /\ UNCHANGED <<graph, built>>
        \/ apc' = "top" /\ UNCHANGED <<graph, built>>
        \/ apc' = "none" /\ built' = 0
    BY <1>13 DEF Start, BeginStop, StopEngine, JoinWorker
  <2>4. BuiltIsCovered' /\ SnapshotsCoverTarget' /\ BlockRunsTarget'
    BY <2>1, <2>3 DEF EngineInv, BuiltIsCovered, SnapshotsCoverTarget, BlockRunsTarget, InBlock,
                      Covers, CoversPart
  <2> QED BY <1>1, <2>2, <2>4 DEF EngineInv
<1>14. CASE UNCHANGED vars
  <2>1. /\ UNCHANGED <<requested, adopted, built, target, graph, apc, snap, played, issued>>
        /\ UNCHANGED <<config, mlock, spc>>
    BY <1>14 DEF vars
  <2>2. CloseHoldsLock'
    BY <2>1 DEF EngineInv, CloseHoldsLock
  <2> QED BY <1>1, <1>2, <2>1, <2>2, EngineFrame
<1> QED
  BY <1>4, <1>5, <1>6, <1>7, <1>8, <1>9, <1>10, <1>11, <1>12, <1>13, <1>14
  DEF Next, HttpHandler, SocketHandler

(* An adopted revision has been played: wait_for_revision never returns    *)
(* true for a change that no completed block used.                         *)
THEOREM AdoptionIsHonest == Spec => []AdoptedWasPlayed
<1>1. EngineInv => AdoptedWasPlayed
  BY DEF EngineInv
<1> QED BY EngineInit, EngineNext, <1>1, PTL DEF Spec

(* No block runs on a graph older than an adopted revision, restarts of    *)
(* the engine included.                                                    *)
THEOREM NoOldBlockInFlight == Spec => []NoStaleBlock
<1>1. EngineInv => NoStaleBlock
  BY DEF EngineInv, NoStaleBlock, BuiltIsCovered, BlockRunsTarget, InBlock, Covers, TypeOK,
         TypeRevisions
<1> QED BY EngineInit, EngineNext, <1>1, PTL DEF Spec

-------------------------------------------------------------------------------
(* The inductive invariant of the requests: what a thread that serves a    *)
(* request, or has answered one, can rely on.                              *)

Serving    == HttpSteps \ {"idle", "lock"}
Published  == {"markDirty", "markBump", "reqDirty", "reqBump"}
Awaiting   == {"wait", "save"}
Confirmed  == {"ok", "saved", "unsaved"}
Controlled == {"routes", "devices"}

RequestInv(c) ==
  /\ hpc[c] \in Serving => control = c
  /\ hpc[c] # "idle" => answer[c] = "none"
  /\ hpc[c] \in Published => AtMost(change[c], config)
  /\ hpc[c] \in Awaiting \/ answer[c] \in Confirmed =>
       htarget[c] # 0 /\ AtMost(change[c], issued[htarget[c]])
  /\ hpc[c] = "save" \/ answer[c] \in Confirmed => htarget[c] <= adopted
  /\ hpc[c] \in Awaiting => \A p \in Controlled : issued[htarget[c]][p] = config[p]

(* A hello holds the control mutex from its test to its second mark.       *)
HelloHoldsControl ==
  \A s \in Sockets : spc[s] \in {"hello", "helloDirty", "helloBump"} => control = s

ControlInv == /\ EngineInv /\ HelloHoldsControl /\ PersistedIsAdopted
              /\ \A c \in Clients : RequestInv(c)

LEMMA ControlInit == Init => ControlInv
<1> SUFFICES ASSUME Init PROVE ControlInv
  OBVIOUS
<1>1. EngineInv
  BY EngineInit
<1>2. HelloHoldsControl /\ PersistedIsAdopted
  BY DEF Init, HelloHoldsControl, PersistedIsAdopted
<1>3. ASSUME NEW c \in Clients PROVE RequestInv(c)
  BY DEF Init, RequestInv, Serving, Published, Awaiting, Confirmed
<1> QED BY <1>1, <1>2, <1>3 DEF ControlInv

LEMMA AtMostTransitive ==
  ASSUME NEW a \in Versions, NEW b \in Versions, NEW d \in Versions, AtMost(a, b), AtMost(b, d)
  PROVE  AtMost(a, d)
  BY DEF Versions, AtMost

(* What every step does to what all threads share: versions only grow, a   *)
(* revision keeps what it vouches for, and none is disowned.               *)
LEMMA SharedGrows ==
  EngineInv /\ TypeOK' /\ [Next]_vars =>
    /\ AtMost(config, config') /\ adopted <= adopted'
    /\ requested <= requested' /\ \A q \in 1..requested : issued'[q] = issued[q]
<1> SUFFICES ASSUME EngineInv, TypeOK', [Next]_vars
             PROVE  /\ AtMost(config, config') /\ adopted <= adopted'
                    /\ requested <= requested' /\ \A q \in 1..requested : issued'[q] = issued[q]
  OBVIOUS
<1>1. TypeOK /\ config \in Versions /\ AtMost(config, config)
  BY DEF EngineInv, TypeOK, TypeVersions, Versions, AtMost
<1>2. AtMost(config, [config EXCEPT !["sessions"] = @ + 1])
  BY <1>1, NewVersion DEF Parts
<1>3. requested \in Nat /\ adopted \in Nat
  BY <1>1 DEF TypeOK, TypeRevisions
<1>4. [config EXCEPT !["sessions"] = @ + 1] \in Versions
  BY <1>1, NewVersion DEF Parts
<1> USE <1>1, <1>3 DEF engine, http, disk, life, NotEngine, NotHttp, NotSocket, NotOwner, SetDirty
<1>5. CASE AudioWorker
  <2>1. UNCHANGED <<config, requested, issued>>
    BY <1>5 DEF AudioWorker, LoopTest, LoadTarget, ExchangeDirty, Snapshot, Commit, Process, Adopt
  <2>2. adopted' = adopted \/ (apc = "adopt" /\ adopted' = target)
    BY <1>5 DEF AudioWorker, AudioStep, LoopTest, LoadTarget, ExchangeDirty, Snapshot, Commit,
                Process, Adopt
  <2> QED BY <2>1, <2>2 DEF EngineInv, BlockRunsTarget, InBlock
<1>6. ASSUME NEW c \in Clients,
             \/ Arrive(c) \/ LockControl(c) \/ Reject(c) \/ HttpDirty(c)
             \/ WaitAdopted(c) \/ WaitGivesUp(c) \/ Save(c)
      PROVE  UNCHANGED <<config, adopted, requested, issued>>
  BY <1>6 DEF Arrive, LockControl, Reject, HttpDirty, WaitAdopted, WaitGivesUp, Save
<1>7. ASSUME NEW c \in Clients, Publish(c)
      PROVE  AtMost(config, config') /\ UNCHANGED <<adopted, requested, issued>>
  <2>1. kind[c] \in Parts \/ kind[c] = "save"
    BY DEF TypeOK, TypeSteps, Kinds, Parts
  <2> QED BY <1>7, <2>1, NewVersion DEF Publish
<1>8. ASSUME NEW v \in Versions, BumpRevision(v), UNCHANGED config
      PROVE  /\ AtMost(config, config') /\ adopted <= adopted'
             /\ requested <= requested' /\ \A q \in 1..requested : issued'[q] = issued[q]
  <2>1. adopted' = adopted
    BY <1>8 DEF BumpRevision
  <2> QED BY <1>8, <2>1, BumpExtends
<1>9. ASSUME NEW c \in Clients, HttpBump(c) PROVE BumpRevision(config) /\ UNCHANGED config
  BY <1>9 DEF HttpBump
<1>10. ASSUME NEW s \in Sockets, HelloLock(s) \/ HelloDirty(s) \/ CloseLock(s) \/ CloseDirty(s)
       PROVE  UNCHANGED <<config, adopted, requested, issued>>
  BY <1>10 DEF HelloLock, HelloDirty, CloseLock, CloseDirty
<1>11. ASSUME NEW s \in Sockets, HelloReady(s) \/ CloseErase(s)
       PROVE  AtMost(config, config') /\ UNCHANGED <<adopted, requested, issued>>
  BY <1>2, <1>11 DEF HelloReady, CloseErase
<1>12. ASSUME NEW s \in Sockets, HelloBump(s) \/ CloseBump(s)
       PROVE  UNCHANGED config /\ \E v \in Versions : BumpRevision(v)
  BY <1>4, <1>12 DEF HelloBump, CloseBump
<1>13. CASE Start \/ BeginStop \/ StopEngine \/ JoinWorker
  BY <1>13 DEF Start, BeginStop, StopEngine, JoinWorker
<1>14. CASE UNCHANGED vars
  BY <1>14 DEF vars
<1> QED
  BY <1>5, <1>6, <1>7, <1>8, <1>9, <1>10, <1>11, <1>12, <1>13, <1>14
  DEF Next, HttpHandler, SocketHandler

(* A step that is not thread c's leaves its request as it is, if it lets   *)
(* go of no mutex that c holds, and changes no route or device while c     *)
(* serves.                                                                 *)
LEMMA RequestFrame ==
  ASSUME NEW c \in Clients, EngineInv, TypeOK', [Next]_vars, RequestInv(c),
         hpc'[c] = hpc[c], answer'[c] = answer[c], change'[c] = change[c], htarget'[c] = htarget[c],
         hpc[c] \in Serving => control' = control /\ \A p \in Controlled : config'[p] = config[p]
  PROVE  RequestInv(c)'
<1>1. /\ AtMost(config, config') /\ adopted <= adopted'
      /\ requested <= requested' /\ \A q \in 1..requested : issued'[q] = issued[q]
  BY SharedGrows
<1>2. /\ change[c] \in Versions /\ config \in Versions /\ config' \in Versions
      /\ htarget[c] \in 0..requested /\ requested \in Nat /\ adopted \in Nat /\ adopted' \in Nat
  BY DEF EngineInv, TypeOK, TypeVersions, TypeRevisions
<1>3. htarget[c] # 0 => issued'[htarget[c]] = issued[htarget[c]]
  BY <1>1, <1>2
<1>4. AtMost(change[c], config) => AtMost(change[c], config')
  BY <1>1, <1>2, AtMostTransitive
<1>5. Awaiting \subseteq Serving
  BY DEF Awaiting, Serving, HttpSteps
<1> QED
  BY <1>1, <1>2, <1>3, <1>4, <1>5 DEF RequestInv

(* The other threads' requests, when a thread that may serve takes a step. *)
LEMMA OthersKeepTheirs ==
  ASSUME NEW c \in Clients, ControlInv, TypeOK', [Next]_vars,
         \A d \in Clients \ {c} : /\ hpc'[d] = hpc[d] /\ answer'[d] = answer[d]
                                  /\ change'[d] = change[d] /\ htarget'[d] = htarget[d],
         \/ control' = control /\ \A p \in Controlled : config'[p] = config[p]
         \/ control \in {c, Nobody}
  PROVE  \A d \in Clients \ {c} : RequestInv(d)'
<1> SUFFICES ASSUME NEW d \in Clients \ {c} PROVE RequestInv(d)'
  OBVIOUS
<1>1. hpc[d] \in Serving => control = d /\ d \notin {c, Nobody}
  BY AdoptionAssumption DEF ControlInv, RequestInv
<1> QED
  BY <1>1, RequestFrame DEF ControlInv

(* What an HTTP thread's step does to its own request.                     *)
LEMMA OwnRequest ==
  ASSUME NEW c \in Clients, ControlInv, TypeOK', EngineInv', [Next]_vars, Arrive(c) \/ HttpHandler(c)
  PROVE  RequestInv(c)'
<1> USE DEF ControlInv, HttpStep, Answer, Serving, Published, Awaiting, Confirmed, HttpSteps
<1>1. /\ AtMost(config, config') /\ adopted <= adopted'
      /\ requested <= requested' /\ \A q \in 1..requested : issued'[q] = issued[q]
  BY SharedGrows
<1>2. TypeOK /\ change[c] \in Versions /\ config \in Versions /\ config' \in Versions
  BY DEF EngineInv, TypeOK, TypeVersions
<1>3. /\ hpc \in [Clients -> HttpSteps] /\ answer \in [Clients -> Answers]
      /\ change \in [Clients -> Versions] /\ htarget \in [Clients -> 0..requested]
      /\ htarget[c] \in 0..requested /\ requested \in Nat /\ adopted \in Nat /\ adopted' \in Nat
  <2>1. hpc \in [Clients -> HttpSteps] /\ answer \in [Clients -> Answers]
    BY <1>2 DEF TypeOK, TypeSteps
  <2>2. change \in [Clients -> Versions]
    BY <1>2 DEF TypeOK, TypeVersions
  <2>3. /\ htarget \in [Clients -> 0..requested] /\ requested \in Nat /\ adopted \in Nat
        /\ htarget[c] \in 0..requested
    BY <1>2 DEF TypeOK, TypeRevisions
  <2>4. adopted' \in Nat
    BY DEF TypeOK, TypeRevisions
  <2> QED BY <2>1, <2>2, <2>3, <2>4
<1> USE <1>1, <1>3
<1>4. CASE Arrive(c) \/ LockControl(c) \/ Reject(c) \/ WaitGivesUp(c)
  <2>1. CASE Arrive(c)
    BY <2>1 DEF Arrive, RequestInv
  <2>2. CASE LockControl(c)
    BY <2>2 DEF LockControl, RequestInv
  <2>3. CASE Reject(c)
    BY <2>3 DEF Reject, RequestInv
  <2>4. CASE WaitGivesUp(c)
    BY <2>4 DEF WaitGivesUp, RequestInv
  <2> QED BY <1>4, <2>1, <2>2, <2>3, <2>4
<1>5. CASE Publish(c)
  <2>1. change'[c] = config' /\ AtMost(config', config')
    BY <1>2, <1>5 DEF Publish, Versions, AtMost
  <2> QED BY <1>5, <2>1 DEF Publish, RequestInv
<1>6. CASE HttpDirty(c)
  BY <1>6 DEF HttpDirty, RequestInv
<1>7. CASE HttpBump(c)
  <2>1. /\ requested' = requested + 1 /\ issued'[requested + 1] = config
        /\ UNCHANGED <<config, control, change, answer>>
    BY <1>2, <1>7, BumpExtends DEF HttpBump
  <2> QED BY <1>7, <2>1 DEF HttpBump, RequestInv
<1>8. CASE WaitAdopted(c)
  BY <1>8 DEF WaitAdopted, RequestInv, engine
<1>9. CASE Save(c)
  BY <1>9 DEF Save, RequestInv, engine
<1> QED BY <1>4, <1>5, <1>6, <1>7, <1>8, <1>9 DEF HttpHandler

(* The file: written by a thread whose revision is adopted and still       *)
(* describes the routes and devices.                                       *)
LEMMA FileKept ==
  ASSUME EngineInv, TypeOK', [Next]_vars, PersistedIsAdopted, UNCHANGED disk
  PROVE  PersistedIsAdopted'
<1>1. /\ adopted <= adopted' /\ requested <= requested'
      /\ \A q \in 1..requested : issued'[q] = issued[q]
  BY SharedGrows
<1>2. persistedRevision \in 0..requested /\ adopted \in Nat /\ adopted' \in Nat /\ requested \in Nat
  BY DEF EngineInv, TypeOK, TypeRevisions
<1> QED BY <1>1, <1>2 DEF PersistedIsAdopted, disk

LEMMA SaveKeepsFile ==
  ASSUME NEW c \in Clients, ControlInv, TypeOK', [Next]_vars, Save(c)
  PROVE  PersistedIsAdopted'
<1>1. CASE UNCHANGED disk
  BY <1>1, FileKept DEF ControlInv
<1>2. CASE file' = config /\ persistedRevision' = htarget[c]
  <2>1. /\ htarget[c] <= adopted
        /\ \A p \in Controlled : issued[htarget[c]][p] = config[p]
    BY DEF Save, HttpStep, ControlInv, RequestInv, Awaiting
  <2>2. UNCHANGED <<adopted, issued>>
    BY DEF Save, engine
  <2> QED BY <1>2, <2>1, <2>2 DEF PersistedIsAdopted, Controlled
<1> QED BY <1>1, <1>2 DEF Save

(* Every step keeps the invariant.                                         *)
LEMMA ControlNext == ControlInv /\ [Next]_vars => ControlInv'
<1> SUFFICES ASSUME ControlInv, [Next]_vars PROVE ControlInv'
  OBVIOUS
<1>1. EngineInv /\ EngineInv' /\ TypeOK /\ TypeOK'
  BY EngineNext DEF ControlInv, EngineInv
<1>2. ASSUME UNCHANGED <<control, hpc, answer, change, htarget, disk>>,
             \A p \in Controlled : config'[p] = config[p], HelloHoldsControl'
      PROVE  ControlInv'
  BY <1>1, <1>2, RequestFrame, FileKept DEF ControlInv
<1> USE DEF engine, http, disk, life, NotEngine, NotHttp, NotSocket, NotOwner
<1>3. CASE AudioWorker
  <2>1. UNCHANGED <<control, hpc, answer, change, htarget, disk, config, spc>>
    BY <1>3 DEF AudioWorker, LoopTest, LoadTarget, ExchangeDirty, Snapshot, Commit, Process, Adopt
  <2> QED BY <1>2, <2>1 DEF ControlInv, HelloHoldsControl
<1>4. CASE Start \/ BeginStop \/ StopEngine \/ JoinWorker
  <2>1. UNCHANGED <<control, hpc, answer, change, htarget, disk, config, spc>>
    BY <1>4 DEF Start, BeginStop, StopEngine, JoinWorker
  <2> QED BY <1>2, <2>1 DEF ControlInv, HelloHoldsControl
<1>5. CASE UNCHANGED vars
  <2>1. UNCHANGED <<control, hpc, answer, change, htarget, disk, config, spc>>
    BY <1>5 DEF vars
  <2> QED BY <1>2, <2>1 DEF ControlInv, HelloHoldsControl
<1>6. ASSUME NEW c \in Clients, Arrive(c) \/ HttpHandler(c) PROVE ControlInv'
  <2>1. RequestInv(c)'
    BY <1>1, <1>6, OwnRequest
  <2>2. \A d \in Clients \ {c} : /\ hpc'[d] = hpc[d] /\ answer'[d] = answer[d]
                                 /\ change'[d] = change[d] /\ htarget'[d] = htarget[d]
    BY <1>1, <1>6 DEF HttpHandler, Arrive, LockControl, Reject, Publish, HttpDirty, HttpBump,
       WaitAdopted, WaitGivesUp, Save, HttpStep, Answer, TypeOK, TypeSteps, TypeVersions, TypeRevisions
  <2>3. \/ control' = control /\ UNCHANGED config
        \/ control \in {c, Nobody}
    <3>1. hpc[c] \in Serving => control = c
      BY DEF ControlInv, RequestInv
    <3> QED BY <1>6, <3>1 DEF HttpHandler, Arrive, LockControl, Reject, Publish, HttpDirty, HttpBump,
          WaitAdopted, WaitGivesUp, Save, HttpStep, Serving, HttpSteps
  <2>4. \A d \in Clients \ {c} : RequestInv(d)'
    BY <1>1, <2>2, <2>3, OthersKeepTheirs
  <2>5. HelloHoldsControl'
    <3>1. spc' = spc
      BY <1>6 DEF HttpHandler, Arrive, LockControl, Reject, Publish, HttpDirty, HttpBump,
         WaitAdopted, WaitGivesUp, Save
    <3>2. control' = control \/ control \in {c, Nobody}
      BY <2>3
    <3> QED BY <3>1, <3>2, AdoptionAssumption DEF ControlInv, HelloHoldsControl
  <2>6. PersistedIsAdopted'
    <3>1. CASE Save(c)
      BY <1>1, <3>1, SaveKeepsFile
    <3>2. CASE ~Save(c)
      <4>1. UNCHANGED disk
        BY <1>6, <3>2 DEF HttpHandler, Arrive, LockControl, Reject, Publish, HttpDirty, HttpBump,
           WaitAdopted, WaitGivesUp
      <4> QED BY <1>1, <4>1, FileKept DEF ControlInv
    <3> QED BY <3>1, <3>2
  <2> QED BY <1>1, <2>1, <2>4, <2>5, <2>6 DEF ControlInv
<1>7. ASSUME NEW s \in Sockets, HelloLock(s) \/ CloseLock(s) \/ SocketHandler(s) PROVE ControlInv'
  <2>1. UNCHANGED <<hpc, answer, change, htarget, disk>>
    BY <1>7 DEF SocketHandler, HelloLock, HelloReady, HelloDirty, HelloBump, CloseLock, CloseDirty,
       CloseBump, CloseErase
  <2>2. \A p \in Controlled : config'[p] = config[p]
    BY <1>1, <1>7 DEF SocketHandler, HelloLock, HelloReady, HelloDirty, HelloBump, CloseLock,
       CloseDirty, CloseBump, CloseErase, Controlled, TypeOK, TypeVersions, Versions, Parts
  <2>3. \/ control' = control
        \/ control = Nobody /\ control' = s
        \/ control = s /\ control' = Nobody
    BY <1>7 DEF SocketHandler, HelloLock, HelloReady, HelloDirty, HelloBump, CloseLock, CloseDirty,
       CloseBump, CloseErase, SocketStep, ControlInv, HelloHoldsControl
  <2>4. HelloHoldsControl'
    BY <1>1, <1>7, <2>3, AdoptionAssumption DEF SocketHandler, HelloLock, HelloReady, HelloDirty,
       HelloBump, CloseLock, CloseDirty, CloseBump, CloseErase, SocketStep, ControlInv,
       HelloHoldsControl, TypeOK, TypeSteps
  <2>5. ASSUME NEW c \in Clients PROVE RequestInv(c)'
    <3>1. hpc[c] \in Serving => control = c /\ c # s /\ c # Nobody
      BY AdoptionAssumption DEF ControlInv, RequestInv
    <3>2. hpc[c] \in Serving => control' = control
      BY <2>3, <3>1
    <3> QED BY <1>1, <2>1, <2>2, <3>2, RequestFrame DEF ControlInv
  <2>6. PersistedIsAdopted'
    BY <1>1, <2>1, FileKept DEF ControlInv
  <2> QED BY <1>1, <2>4, <2>5, <2>6 DEF ControlInv
<1> QED BY <1>3, <1>4, <1>5, <1>6, <1>7 DEF Next

(* An answer "ok", "saved" or "unsaved" is true: the change of that        *)
(* request is part of what has been played, whatever other requests,       *)
(* sessions and restarts of the engine there were.                         *)
THEOREM ConfirmedChangesAreHeard == Spec => []ConfirmedIsHeard
<1>1. ControlInv => ConfirmedIsHeard
  <2> SUFFICES ASSUME ControlInv, NEW c \in Clients, answer[c] \in Confirmed
               PROVE  AtMost(change[c], played)
    BY DEF ConfirmedIsHeard, Confirmed
  <2>1. htarget[c] # 0 /\ htarget[c] <= adopted /\ AtMost(change[c], issued[htarget[c]])
    BY DEF ControlInv, RequestInv
  <2>2. /\ TypeOK /\ htarget[c] \in 0..requested /\ requested \in Nat /\ adopted \in Nat
        /\ change[c] \in Versions /\ played \in Versions
    BY DEF ControlInv, EngineInv, TypeOK, TypeVersions, TypeRevisions
  <2>3. htarget[c] \in 1..adopted /\ htarget[c] \in 1..requested
    BY <2>1, <2>2
  <2>4. issued[htarget[c]] \in Versions
    BY <2>2, <2>3 DEF TypeOK, TypeVersions, TypeRevisions
  <2>5. AtMost(issued[htarget[c]], played)
    BY <2>3 DEF ControlInv, EngineInv, AdoptedWasPlayed
  <2> QED BY <2>1, <2>2, <2>4, <2>5, AtMostTransitive
<1> QED BY ControlInit, ControlNext, <1>1, PTL DEF Spec

(* A saved file holds the routes and devices of an adopted revision, and   *)
(* none that another request published meanwhile.                          *)
THEOREM SavedFileIsAdopted == Spec => []PersistedIsAdopted
<1>1. ControlInv => PersistedIsAdopted
  BY DEF ControlInv
<1> QED BY ControlInit, ControlNext, <1>1, PTL DEF Spec
===============================================================================
