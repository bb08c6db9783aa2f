-------------------------- MODULE ClientSessionsProofs --------------------------
(***************************************************************************)
(* Proofs about ClientSessions, for any number of connections and of       *)
(* identities.                                                             *)
(***************************************************************************)
EXTENDS ClientSessions, TLAPS

Unjoined == {"running", "exiting", "ended"}
Gone     == {"none", "died", "ended"}
Stopped  == {"sessions", "join", "reset", "done"}

(* A usable session is listed, and no two listed ones have the same key: a *)
(* session starts with the provisional key of its own connection.          *)
KeysInv ==
  /\ active \subseteq sessions
  /\ \A c \in Conns : key[c] \in Keys \cup {c} /\ claim[c] \in Keys \cup {c}
  /\ \A c, d \in sessions \cap active : c # d => key[c] # key[d]

(* A connection before its Open callback has nothing; one that may still   *)
(* configure its session has a listed session without a sender.            *)
HelloInv ==
  \A c \in Conns :
    /\ worker[c] \in {"none", "handshake"} => key[c] = c /\ c \notin created /\ sender[c] = "none"
    /\ worker[c] \in {"helloLock", "start", "claim", "ready", "reject"} => c \in created
    /\ worker[c] = "start" => c \notin ready
    /\ worker[c] \in {"helloLock", "start"} /\ c \notin ready => c \in sessions /\ sender[c] = "none"
    /\ worker[c] = "open" /\ c \in active \ ready => sender[c] = "none"

(* A sender that is not joined belongs to a session that somebody has to   *)
(* join.  The reaper and stop() never share the batch, and stop() takes    *)
(* the lists when the workers and the reaper are over.                     *)
JoinInv ==
  /\ \A c \in Conns : sender[c] \in Unjoined => c \in sessions \cup retired \cup batch
  /\ batch # {} => reaper = "join" \/ stopper = "join"
  /\ stopper \in Stopped => reaper = "done" /\ \A c \in Conns : worker[c] \in Gone

(* The destructor has run exactly for the sessions that nobody refers to.  *)
Destruction ==
  \A c \in Conns : destroyedBy[c] # "no" <=> c \in created /\ ~Referenced(c)

SessionsInv == TypeOK /\ KeysInv /\ HelloInv /\ JoinInv /\ Destruction /\ NotDestroyedByAudio

(* The types, those of the sets and those of the other variables.          *)
ListTypes ==
  /\ sessions \cup retired \cup batch \cup owners \cup queue \cup active \cup ready \subseteq created
  /\ created \subseteq Conns /\ sessions \cap (retired \cup batch) = {}
StepTypes ==
  /\ worker \in [Conns -> {"none", "handshake", "open", "helloLock", "start", "claim", "ready",
                           "reject", "died", "ended"}]
  /\ transport \in [Conns -> {"open", "closing", "closed"}]
  /\ key \in [Conns -> Keys \cup Conns] /\ claim \in [Conns -> Keys \cup Conns]
  /\ sender \in [Conns -> {"none", "running", "exiting", "ended", "joined"}]
  /\ dirty \in BOOLEAN /\ audio \in BOOLEAN /\ web \in BOOLEAN
  /\ control \in Conns \cup {Nobody}
  /\ reaper \in {"test", "swap", "join", "collect", "done"}
  /\ stopper \in {"run", "engine", "ws", "sessions", "join", "reset", "done"}
  /\ destroyedBy \in [Conns -> {"no", "worker", "sender", "audio", "reaper", "stopper"}]

LEMMA TypesSplit == (TypeOK <=> ListTypes /\ StepTypes) /\ (TypeOK' <=> ListTypes' /\ StepTypes')
  BY DEF TypeOK, ListTypes, StepTypes

Threads == {"worker", "sender", "audio", "reaper", "stopper"}

(* A step that destroys nothing keeps every reference there is.            *)
LEMMA NothingDropped ==
  ASSUME Destruction, NotDestroyedByAudio, UNCHANGED <<created, destroyedBy>>,
         \A c \in created : Referenced(c)' <=> Referenced(c)
  PROVE  Destruction' /\ NotDestroyedByAudio'
<1>1. NotDestroyedByAudio'
  BY DEF NotDestroyedByAudio
<1>2. ASSUME NEW c \in Conns PROVE destroyedBy'[c] # "no" <=> c \in created' /\ ~Referenced(c)'
  BY DEF Destruction
<1> QED BY <1>1, <1>2 DEF Destruction

(* A step of a thread that may drop last references, and makes none.       *)
LEMMA Dropped ==
  ASSUME TypeOK, Destruction, NotDestroyedByAudio, UNCHANGED created,
         NEW thread \in Threads, DropsOn(thread),
         \A c \in created : Referenced(c)' => Referenced(c),
         thread = "audio" => \A c \in created : Referenced(c) => Referenced(c)'
  PROVE  /\ Destruction' /\ NotDestroyedByAudio'
         /\ destroyedBy' \in [Conns -> {"no"} \cup Threads]
<1>1. destroyedBy \in [Conns -> {"no"} \cup Threads]
  BY DEF TypeOK, Threads
<1>2. destroyedBy' \in [Conns -> {"no"} \cup Threads]
  BY <1>1 DEF DropsOn
<1>3. ASSUME NEW c \in Conns PROVE destroyedBy'[c] # "no" <=> c \in created' /\ ~Referenced(c)'
  <2>1. destroyedBy'[c] = IF c \in created /\ destroyedBy[c] = "no" /\ ~Referenced(c)'
                            THEN thread ELSE destroyedBy[c]
    BY DEF DropsOn
  <2>2. destroyedBy[c] # "no" <=> c \in created /\ ~Referenced(c)
    BY DEF Destruction
  <2>3. thread # "no"
    BY DEF Threads
  <2> QED BY <2>1, <2>2, <2>3
<1>4. ASSUME NEW c \in Conns PROVE destroyedBy'[c] # "audio"
  <2>1. destroyedBy'[c] = IF c \in created /\ destroyedBy[c] = "no" /\ ~Referenced(c)'
                            THEN thread ELSE destroyedBy[c]
    BY DEF DropsOn
  <2>2. destroyedBy[c] # "audio"
    BY DEF NotDestroyedByAudio
  <2>3. destroyedBy[c] # "no" <=> c \in created /\ ~Referenced(c)
    BY DEF Destruction
  <2> QED BY <2>1, <2>2, <2>3
<1> QED BY <1>2, <1>3, <1>4 DEF Destruction, NotDestroyedByAudio

(* IX's threads and their callbacks.                                       *)
LEMMA WorkerKeeps ==
  SessionsInv /\ (\E c \in Conns : Connect(c) \/ Open(c) \/ CloseWhenStopped(c) \/ HelloTest(c) \/ HelloLock(c) \/ StartSender(c) \/ WorkerDies(c) \/ ClaimIdentity(c) \/ HelloReady(c) \/ HelloReject(c) \/ CloseOnWorker(c) \/ WorkerEnd(c)) => SessionsInv'
<1> SUFFICES ASSUME SessionsInv, \E c \in Conns : Connect(c) \/ Open(c) \/ CloseWhenStopped(c) \/ HelloTest(c) \/ HelloLock(c) \/ StartSender(c) \/ WorkerDies(c) \/ ClaimIdentity(c) \/ HelloReady(c) \/ HelloReject(c) \/ CloseOnWorker(c) \/ WorkerEnd(c) PROVE SessionsInv'
  OBVIOUS
<1> USE SessionsAssumption DEF SessionsInv, lists, flags, eng, life
<1>1. ASSUME NEW c \in Conns, Connect(c) PROVE SessionsInv'
  <2>1. UNCHANGED <<created, destroyedBy>>
    BY <1>1 DEF Connect, WorkerStep
  <2>2. \A d \in created : Referenced(d)' <=> Referenced(d)
    <3>1. c \notin created
      BY <1>1 DEF Connect, WorkerStep, HelloInv
    <3> QED BY <1>1, <3>1 DEF Connect, WorkerStep, Referenced, SocketAlive, TypeOK
  <2>3. Destruction' /\ NotDestroyedByAudio'
    BY <2>1, <2>2, NothingDropped
  <2>4. TypeOK'
    BY <1>1 DEF Connect, WorkerStep, TypeOK
  <2>5. KeysInv'
    BY <1>1 DEF Connect, WorkerStep, KeysInv, HelloInv, TypeOK
  <2>6. HelloInv'
    BY <1>1 DEF Connect, WorkerStep, KeysInv, HelloInv, JoinInv, TypeOK, Gone
  <2>7. JoinInv'
    BY <1>1 DEF Connect, WorkerStep, HelloInv, JoinInv, Unjoined, Stopped, Gone, TypeOK
  <2> QED BY <2>3, <2>4, <2>5, <2>6, <2>7
<1>2. ASSUME NEW c \in Conns, Open(c) PROVE SessionsInv'
  <2>1. /\ c \notin created /\ worker[c] = "handshake" /\ worker' = [worker EXCEPT ![c] = "open"]
        /\ UNCHANGED <<destroyedBy, sender, retired, batch, owners, queue>>
    BY <1>2 DEF Open, WorkerStep, HelloInv
  <2>2. ASSUME NEW d \in Conns PROVE destroyedBy'[d] # "no" <=> d \in created' /\ ~Referenced(d)'
    <3>1. /\ destroyedBy[d] # "no" <=> d \in created /\ ~Referenced(d)
          /\ SocketAlive(d)' <=> SocketAlive(d)
      BY <2>1 DEF Destruction, TypeOK, SocketAlive
    <3>2. CASE d = c /\ web
      BY <1>2, <2>1, <3>1, <3>2 DEF Open, Referenced
    <3>3. CASE d # c \/ ~web
      <4>1. (d \in created' <=> d \in created) /\ (d \in sessions' <=> d \in sessions)
        BY <1>2, <3>3 DEF Open
      <4> QED BY <2>1, <3>1, <4>1 DEF Referenced
    <3> QED BY <3>2, <3>3
  <2>3. Destruction' /\ NotDestroyedByAudio'
    BY <2>1, <2>2 DEF Destruction, NotDestroyedByAudio
  <2>4. TypeOK'
    <3>1. ListTypes'
      <4>1. CASE web
        <5>1. /\ created' = created \cup {c} /\ sessions' = sessions \cup {c} /\ active' = active \cup {c}
              /\ UNCHANGED <<retired, batch, owners, queue, ready>>
          BY <1>2, <4>1 DEF Open
        <5>2. c \notin retired \cup batch
          BY <2>1, TypesSplit DEF ListTypes
        <5> QED BY <5>1, <5>2, TypesSplit DEF ListTypes
      <4>2. CASE ~web
        BY <1>2, <4>2, TypesSplit DEF Open, ListTypes
      <4> QED BY <4>1, <4>2
    <3>2. StepTypes'
      BY <1>2, TypesSplit DEF Open, WorkerStep, StepTypes
    <3> QED BY <3>1, <3>2, TypesSplit
  <2>5. KeysInv'
    BY <1>2 DEF Open, WorkerStep, KeysInv, HelloInv, TypeOK
  <2>6. HelloInv'
    BY <1>2 DEF Open, WorkerStep, KeysInv, HelloInv, JoinInv, TypeOK, Gone
  <2>7. JoinInv'
    BY <1>2 DEF Open, WorkerStep, HelloInv, JoinInv, Unjoined, Stopped, Gone, TypeOK
  <2> QED BY <2>3, <2>4, <2>5, <2>6, <2>7
<1>3. ASSUME NEW c \in Conns, CloseWhenStopped(c) PROVE SessionsInv'
  <2>1. UNCHANGED <<created, destroyedBy>>
    BY <1>3 DEF CloseWhenStopped, WorkerStep
  <2>2. \A d \in created : Referenced(d)' <=> Referenced(d)
    BY <1>3 DEF CloseWhenStopped, WorkerStep, Referenced, SocketAlive, TypeOK
  <2>3. Destruction' /\ NotDestroyedByAudio'
    BY <2>1, <2>2, NothingDropped
  <2>4. TypeOK'
    BY <1>3 DEF CloseWhenStopped, WorkerStep, TypeOK
  <2>5. KeysInv'
    BY <1>3 DEF CloseWhenStopped, WorkerStep, KeysInv, HelloInv, TypeOK
  <2>6. HelloInv'
    BY <1>3 DEF CloseWhenStopped, WorkerStep, KeysInv, HelloInv, JoinInv, TypeOK, Gone
  <2>7. JoinInv'
    BY <1>3 DEF CloseWhenStopped, WorkerStep, HelloInv, JoinInv, Unjoined, Stopped, Gone, TypeOK
  <2> QED BY <2>3, <2>4, <2>5, <2>6, <2>7
<1>4. ASSUME NEW c \in Conns, HelloTest(c) PROVE SessionsInv'
  <2>1. UNCHANGED <<created, destroyedBy>>
    BY <1>4 DEF HelloTest, WorkerStep
  <2>2. \A d \in created : Referenced(d)' <=> Referenced(d)
    BY <1>4 DEF HelloTest, WorkerStep, Referenced, SocketAlive, TypeOK
  <2>3. Destruction' /\ NotDestroyedByAudio'
    BY <2>1, <2>2, NothingDropped
  <2>4. TypeOK'
    BY <1>4 DEF HelloTest, WorkerStep, TypeOK
  <2>5. KeysInv'
    BY <1>4 DEF HelloTest, WorkerStep, KeysInv, HelloInv, TypeOK
  <2>6. HelloInv'
    BY <1>4 DEF HelloTest, WorkerStep, KeysInv, HelloInv, JoinInv, TypeOK, Gone
  <2>7. JoinInv'
    BY <1>4 DEF HelloTest, WorkerStep, HelloInv, JoinInv, Unjoined, Stopped, Gone, TypeOK
  <2> QED BY <2>3, <2>4, <2>5, <2>6, <2>7
<1>5. ASSUME NEW c \in Conns, HelloLock(c) PROVE SessionsInv'
  <2>1. UNCHANGED <<created, destroyedBy>>
    BY <1>5 DEF HelloLock, WorkerStep
  <2>2. \A d \in created : Referenced(d)' <=> Referenced(d)
    BY <1>5 DEF HelloLock, WorkerStep, Referenced, SocketAlive, TypeOK
  <2>3. Destruction' /\ NotDestroyedByAudio'
    BY <2>1, <2>2, NothingDropped
  <2>4. TypeOK'
    BY <1>5 DEF HelloLock, WorkerStep, TypeOK
  <2>5. KeysInv'
    BY <1>5 DEF HelloLock, WorkerStep, KeysInv, HelloInv, TypeOK
  <2>6. HelloInv'
    BY <1>5 DEF HelloLock, WorkerStep, KeysInv, HelloInv, JoinInv, TypeOK, Gone
  <2>7. JoinInv'
    BY <1>5 DEF HelloLock, WorkerStep, HelloInv, JoinInv, Unjoined, Stopped, Gone, TypeOK
  <2> QED BY <2>3, <2>4, <2>5, <2>6, <2>7
<1>6. ASSUME NEW c \in Conns, StartSender(c) PROVE SessionsInv'
  <2>1. UNCHANGED <<created, destroyedBy>>
    BY <1>6 DEF StartSender, WorkerStep
  <2>2. \A d \in created : Referenced(d)' <=> Referenced(d)
    BY <1>6 DEF StartSender, WorkerStep, Referenced, SocketAlive, TypeOK
  <2>3. Destruction' /\ NotDestroyedByAudio'
    BY <2>1, <2>2, NothingDropped
  <2>4. TypeOK'
    BY <1>6 DEF StartSender, WorkerStep, TypeOK
  <2>5. KeysInv'
    BY <1>6 DEF StartSender, WorkerStep, KeysInv, HelloInv, TypeOK
  <2>6. HelloInv'
    BY <1>6 DEF StartSender, WorkerStep, KeysInv, HelloInv, JoinInv, TypeOK, Gone
  <2>7. JoinInv'
    BY <1>6 DEF StartSender, WorkerStep, HelloInv, JoinInv, Unjoined, Stopped, Gone, TypeOK
  <2> QED BY <2>3, <2>4, <2>5, <2>6, <2>7
<1>7. ASSUME NEW c \in Conns, WorkerDies(c) PROVE SessionsInv'
  <2>1. UNCHANGED <<created, destroyedBy>>
    BY <1>7 DEF WorkerDies, WorkerStep
  <2>2. \A d \in created : Referenced(d)' <=> Referenced(d)
    BY <1>7 DEF WorkerDies, WorkerStep, Referenced, SocketAlive, TypeOK
  <2>3. Destruction' /\ NotDestroyedByAudio'
    BY <2>1, <2>2, NothingDropped
  <2>4. TypeOK'
    BY <1>7 DEF WorkerDies, WorkerStep, TypeOK
  <2>5. KeysInv'
    BY <1>7 DEF WorkerDies, WorkerStep, KeysInv, HelloInv, TypeOK
  <2>6. HelloInv'
    BY <1>7 DEF WorkerDies, WorkerStep, KeysInv, HelloInv, JoinInv, TypeOK, Gone
  <2>7. JoinInv'
    BY <1>7 DEF WorkerDies, WorkerStep, HelloInv, JoinInv, Unjoined, Stopped, Gone, TypeOK
  <2> QED BY <2>3, <2>4, <2>5, <2>6, <2>7
<1>8. ASSUME NEW c \in Conns, ClaimIdentity(c) PROVE SessionsInv'
  <2>1. UNCHANGED <<created, destroyedBy>>
    BY <1>8 DEF ClaimIdentity, WorkerStep
  <2>2. \A d \in created : Referenced(d)' <=> Referenced(d)
    BY <1>8 DEF ClaimIdentity, WorkerStep, Referenced, SocketAlive, TypeOK
  <2>3. Destruction' /\ NotDestroyedByAudio'
    BY <2>1, <2>2, NothingDropped
  <2>4. TypeOK'
    <3>1. ListTypes'
      BY <1>8, TypesSplit DEF ClaimIdentity, WorkerStep, ListTypes
    <3>2. StepTypes'
      <4>1. worker' = [worker EXCEPT ![c] = "ready"] \/ worker' = [worker EXCEPT ![c] = "reject"]
        BY <1>8 DEF ClaimIdentity, WorkerStep
      <4>2. key' \in [Conns -> Keys \cup Conns] /\ dirty' \in BOOLEAN
        <5>1. key \in [Conns -> Keys \cup Conns] /\ claim[c] \in Keys \cup Conns /\ dirty \in BOOLEAN
          BY TypesSplit DEF StepTypes
        <5>2. key' = [key EXCEPT ![c] = claim[c]] \/ key' = key
          BY <1>8 DEF ClaimIdentity
        <5>3. dirty' = TRUE \/ dirty' = dirty
          BY <1>8 DEF ClaimIdentity
        <5> QED BY <5>1, <5>2, <5>3
      <4>3. UNCHANGED <<transport, claim, sender, audio, web, control, reaper, stopper, destroyedBy>>
        BY <1>8 DEF ClaimIdentity
      <4> QED BY <4>1, <4>2, <4>3, TypesSplit DEF StepTypes
    <3> QED BY <3>1, <3>2, TypesSplit
  <2>5. KeysInv'
    <3>1. UNCHANGED <<sessions, claim>> /\ active' \subseteq active
      BY <1>8 DEF ClaimIdentity, WorkerStep, lists
    <3>2. /\ \/ active' = active /\ key' = [key EXCEPT ![c] = claim[c]]
             /\ \A d \in sessions \cap active : d # c => key[d] # claim[c]
          \/ key' = key
      BY <1>8 DEF ClaimIdentity
    <3>3. \A d \in Conns : key[d] \in Keys \cup {d} /\ claim[d] \in Keys \cup {d}
      BY DEF KeysInv
    <3>4. /\ key' = key \/ key'[c] = claim[c]
          /\ \A d \in Conns : d # c => key'[d] = key[d]
      BY <3>2 DEF TypeOK
    <3>5. \A d \in Conns : key'[d] \in Keys \cup {d}
      BY <3>2, <3>3, <3>4
    <3>6. ASSUME NEW d \in sessions \cap active', NEW e \in sessions \cap active', d # e
          PROVE  key'[d] # key'[e]
      BY <3>1, <3>2, <3>4, <3>6 DEF KeysInv, TypeOK
    <3> QED BY <3>1, <3>3, <3>5, <3>6 DEF KeysInv
  <2>6. HelloInv'
    BY <1>8 DEF ClaimIdentity, WorkerStep, KeysInv, HelloInv, JoinInv, TypeOK, Gone
  <2>7. JoinInv'
    BY <1>8 DEF ClaimIdentity, WorkerStep, HelloInv, JoinInv, Unjoined, Stopped, Gone, TypeOK
  <2> QED BY <2>3, <2>4, <2>5, <2>6, <2>7
<1>9. ASSUME NEW c \in Conns, HelloReady(c) PROVE SessionsInv'
  <2>1. UNCHANGED <<created, destroyedBy>>
    BY <1>9 DEF HelloReady, WorkerStep
  <2>2. \A d \in created : Referenced(d)' <=> Referenced(d)
    BY <1>9 DEF HelloReady, WorkerStep, Referenced, SocketAlive, TypeOK
  <2>3. Destruction' /\ NotDestroyedByAudio'
    BY <2>1, <2>2, NothingDropped
  <2>4. TypeOK'
    <3>1. ListTypes'
      <4>1. c \in created /\ ready' = ready \cup {c}
        BY <1>9 DEF HelloReady, WorkerStep, HelloInv
      <4> QED BY <1>9, <4>1, TypesSplit DEF HelloReady, ListTypes
    <3>2. StepTypes'
      BY <1>9, TypesSplit DEF HelloReady, WorkerStep, StepTypes
    <3> QED BY <3>1, <3>2, TypesSplit
  <2>5. KeysInv'
    BY <1>9 DEF HelloReady, WorkerStep, KeysInv, HelloInv, TypeOK
  <2>6. HelloInv'
    BY <1>9 DEF HelloReady, WorkerStep, KeysInv, HelloInv, JoinInv, TypeOK, Gone
  <2>7. JoinInv'
    BY <1>9 DEF HelloReady, WorkerStep, HelloInv, JoinInv, Unjoined, Stopped, Gone, TypeOK
  <2> QED BY <2>3, <2>4, <2>5, <2>6, <2>7
<1>10. ASSUME NEW c \in Conns, HelloReject(c) PROVE SessionsInv'
  <2>1. UNCHANGED <<created, destroyedBy>>
    BY <1>10 DEF HelloReject, WorkerStep, RemoveSession
  <2>2. \A d \in created : Referenced(d)' <=> Referenced(d)
    BY <1>10 DEF HelloReject, WorkerStep, RemoveSession, Referenced, SocketAlive, TypeOK
  <2>3. Destruction' /\ NotDestroyedByAudio'
    BY <2>1, <2>2, NothingDropped
  <2>4. TypeOK'
    <3>1. ListTypes'
      BY <1>10, TypesSplit DEF HelloReject, WorkerStep, RemoveSession, ListTypes
    <3>2. StepTypes'
      BY <1>10, TypesSplit DEF HelloReject, WorkerStep, RemoveSession, StepTypes
    <3> QED BY <3>1, <3>2, TypesSplit
  <2>5. KeysInv'
    BY <1>10 DEF HelloReject, WorkerStep, RemoveSession, KeysInv, HelloInv, TypeOK
  <2>6. HelloInv'
    BY <1>10 DEF HelloReject, WorkerStep, RemoveSession, KeysInv, HelloInv, JoinInv, TypeOK, Gone
  <2>7. JoinInv'
    BY <1>10 DEF HelloReject, WorkerStep, RemoveSession, HelloInv, JoinInv, Unjoined, Stopped, Gone, TypeOK
  <2> QED BY <2>3, <2>4, <2>5, <2>6, <2>7
<1>11. ASSUME NEW c \in Conns, CloseOnWorker(c) PROVE SessionsInv'
  <2>1. UNCHANGED <<created, destroyedBy>>
    BY <1>11 DEF CloseOnWorker, RemoveSession
  <2>2. \A d \in created : Referenced(d)' <=> Referenced(d)
    BY <1>11 DEF CloseOnWorker, RemoveSession, Referenced, SocketAlive, TypeOK
  <2>3. Destruction' /\ NotDestroyedByAudio'
    BY <2>1, <2>2, NothingDropped
  <2>4. TypeOK'
    <3>1. ListTypes'
      BY <1>11, TypesSplit DEF CloseOnWorker, RemoveSession, ListTypes
    <3>2. StepTypes'
      BY <1>11, TypesSplit DEF CloseOnWorker, RemoveSession, StepTypes
    <3> QED BY <3>1, <3>2, TypesSplit
  <2>5. KeysInv'
    BY <1>11 DEF CloseOnWorker, RemoveSession, KeysInv, HelloInv, TypeOK
  <2>6. HelloInv'
    BY <1>11 DEF CloseOnWorker, RemoveSession, KeysInv, HelloInv, JoinInv, TypeOK, Gone
  <2>7. JoinInv'
    BY <1>11 DEF CloseOnWorker, RemoveSession, HelloInv, JoinInv, Unjoined, Stopped, Gone, TypeOK
  <2> QED BY <2>3, <2>4, <2>5, <2>6, <2>7
<1>12. ASSUME NEW c \in Conns, WorkerEnd(c) PROVE SessionsInv'
  <2>1. DropsOn("worker") /\ UNCHANGED created
    BY <1>12 DEF WorkerEnd, WorkerStep
  <2>2. \A d \in created : Referenced(d)' => Referenced(d)
    BY <1>12 DEF WorkerEnd, WorkerStep, Referenced, SocketAlive, TypeOK
  <2>3. Destruction' /\ NotDestroyedByAudio' /\ destroyedBy' \in [Conns -> {"no"} \cup Threads]
    BY <2>1, <2>2, Dropped DEF Threads
  <2>4. TypeOK'
    BY <2>3, <1>12 DEF WorkerEnd, WorkerStep, TypeOK, Threads
  <2>5. KeysInv'
    BY <1>12 DEF WorkerEnd, WorkerStep, KeysInv, HelloInv, TypeOK
  <2>6. HelloInv'
    BY <1>12 DEF WorkerEnd, WorkerStep, KeysInv, HelloInv, JoinInv, TypeOK, Gone
  <2>7. JoinInv'
    BY <1>12 DEF WorkerEnd, WorkerStep, HelloInv, JoinInv, Unjoined, Stopped, Gone, TypeOK
  <2> QED BY <2>3, <2>4, <2>5, <2>6, <2>7
<1> QED BY <1>1, <1>2, <1>3, <1>4, <1>5, <1>6, <1>7, <1>8, <1>9, <1>10, <1>11, <1>12

(* The sender threads.                                                     *)
LEMMA SenderKeeps ==
  SessionsInv /\ (\E c \in Conns : SendFails(c) \/ SenderThrows(c) \/ SenderLeaves(c) \/ SenderEnds(c)) => SessionsInv'
<1> SUFFICES ASSUME SessionsInv, \E c \in Conns : SendFails(c) \/ SenderThrows(c) \/ SenderLeaves(c) \/ SenderEnds(c) PROVE SessionsInv'
  OBVIOUS
<1> USE SessionsAssumption DEF SessionsInv, lists, flags, eng, life
<1>1. ASSUME NEW c \in Conns, SendFails(c) PROVE SessionsInv'
  <2>1. UNCHANGED <<created, destroyedBy>>
    BY <1>1 DEF SendFails, RemoveSession
  <2>2. \A d \in created : Referenced(d)' <=> Referenced(d)
    BY <1>1 DEF SendFails, RemoveSession, Referenced, SocketAlive, TypeOK
  <2>3. Destruction' /\ NotDestroyedByAudio'
    BY <2>1, <2>2, NothingDropped
  <2>4. TypeOK'
    <3>1. ListTypes'
      BY <1>1, TypesSplit DEF SendFails, RemoveSession, ListTypes
    <3>2. StepTypes'
      BY <1>1, TypesSplit DEF SendFails, RemoveSession, StepTypes
    <3> QED BY <3>1, <3>2, TypesSplit
  <2>5. KeysInv'
    BY <1>1 DEF SendFails, RemoveSession, KeysInv, HelloInv, TypeOK
  <2>6. HelloInv'
    BY <1>1 DEF SendFails, RemoveSession, KeysInv, HelloInv, JoinInv, TypeOK, Gone
  <2>7. JoinInv'
    BY <1>1 DEF SendFails, RemoveSession, HelloInv, JoinInv, Unjoined, Stopped, Gone, TypeOK
  <2> QED BY <2>3, <2>4, <2>5, <2>6, <2>7
<1>2. ASSUME NEW c \in Conns, SenderThrows(c) PROVE SessionsInv'
  <2>1. UNCHANGED <<created, destroyedBy>>
    BY <1>2 DEF SenderThrows
  <2>2. \A d \in created : Referenced(d)' <=> Referenced(d)
    BY <1>2 DEF SenderThrows, Referenced, SocketAlive, TypeOK
  <2>3. Destruction' /\ NotDestroyedByAudio'
    BY <2>1, <2>2, NothingDropped
  <2>4. TypeOK'
    BY <1>2 DEF SenderThrows, TypeOK
  <2>5. KeysInv'
    BY <1>2 DEF SenderThrows, KeysInv, HelloInv, TypeOK
  <2>6. HelloInv'
    BY <1>2 DEF SenderThrows, KeysInv, HelloInv, JoinInv, TypeOK, Gone
  <2>7. JoinInv'
    BY <1>2 DEF SenderThrows, HelloInv, JoinInv, Unjoined, Stopped, Gone, TypeOK
  <2> QED BY <2>3, <2>4, <2>5, <2>6, <2>7
<1>3. ASSUME NEW c \in Conns, SenderLeaves(c) PROVE SessionsInv'
  <2>1. UNCHANGED <<created, destroyedBy>>
    BY <1>3 DEF SenderLeaves, SenderStep
  <2>2. \A d \in created : Referenced(d)' <=> Referenced(d)
    BY <1>3 DEF SenderLeaves, SenderStep, Referenced, SocketAlive, TypeOK
  <2>3. Destruction' /\ NotDestroyedByAudio'
    BY <2>1, <2>2, NothingDropped
  <2>4. TypeOK'
    BY <1>3 DEF SenderLeaves, SenderStep, TypeOK
  <2>5. KeysInv'
    BY <1>3 DEF SenderLeaves, SenderStep, KeysInv, HelloInv, TypeOK
  <2>6. HelloInv'
    BY <1>3 DEF SenderLeaves, SenderStep, KeysInv, HelloInv, JoinInv, TypeOK, Gone
  <2>7. JoinInv'
    BY <1>3 DEF SenderLeaves, SenderStep, HelloInv, JoinInv, Unjoined, Stopped, Gone, TypeOK
  <2> QED BY <2>3, <2>4, <2>5, <2>6, <2>7
<1>4. ASSUME NEW c \in Conns, SenderEnds(c) PROVE SessionsInv'
  <2>1. DropsOn("sender") /\ UNCHANGED created
    BY <1>4 DEF SenderEnds, SenderStep
  <2>2. \A d \in created : Referenced(d)' => Referenced(d)
    BY <1>4 DEF SenderEnds, SenderStep, Referenced, SocketAlive, TypeOK
  <2>3. Destruction' /\ NotDestroyedByAudio' /\ destroyedBy' \in [Conns -> {"no"} \cup Threads]
    BY <2>1, <2>2, Dropped DEF Threads
  <2>4. TypeOK'
    BY <2>3, <1>4 DEF SenderEnds, SenderStep, TypeOK, Threads
  <2>5. KeysInv'
    BY <1>4 DEF SenderEnds, SenderStep, KeysInv, HelloInv, TypeOK
  <2>6. HelloInv'
    BY <1>4 DEF SenderEnds, SenderStep, KeysInv, HelloInv, JoinInv, TypeOK, Gone
  <2>7. JoinInv'
    BY <1>4 DEF SenderEnds, SenderStep, HelloInv, JoinInv, Unjoined, Stopped, Gone, TypeOK
  <2> QED BY <2>3, <2>4, <2>5, <2>6, <2>7
<1> QED BY <1>1, <1>2, <1>3, <1>4

(* The audio worker and the reaper.                                        *)
LEMMA ReaperKeeps ==
  SessionsInv /\ (Rebuild \/ ReaperTest \/ ReaperSwap \/ ReaperJoin \/ ReaperCollect) => SessionsInv'
<1> SUFFICES ASSUME SessionsInv, Rebuild \/ ReaperTest \/ ReaperSwap \/ ReaperJoin \/ ReaperCollect PROVE SessionsInv'
  OBVIOUS
<1> USE SessionsAssumption DEF SessionsInv, lists, flags, eng, life
<1>1. CASE Rebuild
  <2>1. DropsOn("audio") /\ UNCHANGED created
    BY <1>1 DEF Rebuild
  <2>2. \A d \in created : Referenced(d)' => Referenced(d)
    BY <1>1 DEF Rebuild, Referenced, SocketAlive, TypeOK
  <2>3. Destruction' /\ NotDestroyedByAudio' /\ destroyedBy' \in [Conns -> {"no"} \cup Threads]
    <3>1. \A d \in created : Referenced(d) => Referenced(d)'
      BY <1>1 DEF Rebuild, Referenced, SocketAlive
    <3> QED BY <2>1, <2>2, <3>1, Dropped DEF Threads
  <2>4. TypeOK'
    BY <2>3, <1>1 DEF Rebuild, TypeOK, Threads
  <2>5. KeysInv'
    BY <1>1 DEF Rebuild, KeysInv, HelloInv, TypeOK
  <2>6. HelloInv'
    BY <1>1 DEF Rebuild, KeysInv, HelloInv, JoinInv, TypeOK, Gone
  <2>7. JoinInv'
    BY <1>1 DEF Rebuild, HelloInv, JoinInv, Unjoined, Stopped, Gone, TypeOK
  <2> QED BY <2>3, <2>4, <2>5, <2>6, <2>7
<1>2. CASE ReaperTest
  <2>1. UNCHANGED <<created, destroyedBy>>
    BY <1>2 DEF ReaperTest, ReaperStep
  <2>2. \A d \in created : Referenced(d)' <=> Referenced(d)
    BY <1>2 DEF ReaperTest, ReaperStep, Referenced, SocketAlive, TypeOK
  <2>3. Destruction' /\ NotDestroyedByAudio'
    BY <2>1, <2>2, NothingDropped
  <2>4. TypeOK'
    BY <1>2 DEF ReaperTest, ReaperStep, TypeOK
  <2>5. KeysInv'
    BY <1>2 DEF ReaperTest, ReaperStep, KeysInv, HelloInv, TypeOK
  <2>6. HelloInv'
    BY <1>2 DEF ReaperTest, ReaperStep, KeysInv, HelloInv, JoinInv, TypeOK, Gone
  <2>7. JoinInv'
    BY <1>2 DEF ReaperTest, ReaperStep, HelloInv, JoinInv, Unjoined, Stopped, Gone, TypeOK
  <2> QED BY <2>3, <2>4, <2>5, <2>6, <2>7
<1>3. CASE ReaperSwap
  <2>1. UNCHANGED <<created, destroyedBy>>
    BY <1>3 DEF ReaperSwap, ReaperStep
  <2>2. \A d \in created : Referenced(d)' <=> Referenced(d)
    <3>1. batch = {}
      BY <1>3 DEF ReaperSwap, ReaperStep, JoinInv, Stopped
    <3> QED BY <1>3, <3>1 DEF ReaperSwap, ReaperStep, Referenced, SocketAlive
  <2>3. Destruction' /\ NotDestroyedByAudio'
    BY <2>1, <2>2, NothingDropped
  <2>4. TypeOK'
    BY <1>3 DEF ReaperSwap, ReaperStep, TypeOK
  <2>5. KeysInv'
    BY <1>3 DEF ReaperSwap, ReaperStep, KeysInv, HelloInv, TypeOK
  <2>6. HelloInv'
    BY <1>3 DEF ReaperSwap, ReaperStep, KeysInv, HelloInv, JoinInv, TypeOK, Gone
  <2>7. JoinInv'
    BY <1>3 DEF ReaperSwap, ReaperStep, HelloInv, JoinInv, Unjoined, Stopped, Gone, TypeOK
  <2> QED BY <2>3, <2>4, <2>5, <2>6, <2>7
<1>4. CASE ReaperJoin
  <2>1. DropsOn("reaper") /\ UNCHANGED created
    BY <1>4 DEF ReaperJoin, JoinSender
  <2>2. \A d \in created : Referenced(d)' => Referenced(d)
    BY <1>4 DEF ReaperJoin, JoinSender, Referenced, SocketAlive, TypeOK
  <2>3. Destruction' /\ NotDestroyedByAudio' /\ destroyedBy' \in [Conns -> {"no"} \cup Threads]
    BY <2>1, <2>2, Dropped DEF Threads
  <2>4. TypeOK'
    BY <2>3, <1>4 DEF ReaperJoin, JoinSender, TypeOK, Threads
  <2>5. KeysInv'
    BY <1>4 DEF ReaperJoin, JoinSender, KeysInv, HelloInv, TypeOK
  <2>6. HelloInv'
    BY <1>4 DEF ReaperJoin, JoinSender, KeysInv, HelloInv, JoinInv, TypeOK, Gone
  <2>7. JoinInv'
    BY <1>4 DEF ReaperJoin, JoinSender, HelloInv, JoinInv, Unjoined, Stopped, Gone, TypeOK
  <2> QED BY <2>3, <2>4, <2>5, <2>6, <2>7
<1>5. CASE ReaperCollect
  <2>1. DropsOn("reaper") /\ UNCHANGED created
    BY <1>5 DEF ReaperCollect, ReaperStep
  <2>2. \A d \in created : Referenced(d)' => Referenced(d)
    BY <1>5 DEF ReaperCollect, ReaperStep, Referenced, SocketAlive, TypeOK
  <2>3. Destruction' /\ NotDestroyedByAudio' /\ destroyedBy' \in [Conns -> {"no"} \cup Threads]
    BY <2>1, <2>2, Dropped DEF Threads
  <2>4. TypeOK'
    BY <2>3, <1>5 DEF ReaperCollect, ReaperStep, TypeOK, Threads
  <2>5. KeysInv'
    BY <1>5 DEF ReaperCollect, ReaperStep, KeysInv, HelloInv, TypeOK
  <2>6. HelloInv'
    BY <1>5 DEF ReaperCollect, ReaperStep, KeysInv, HelloInv, JoinInv, TypeOK, Gone
  <2>7. JoinInv'
    BY <1>5 DEF ReaperCollect, ReaperStep, HelloInv, JoinInv, Unjoined, Stopped, Gone, TypeOK
  <2> QED BY <2>3, <2>4, <2>5, <2>6, <2>7
<1> QED BY <1>1, <1>2, <1>3, <1>4, <1>5

(* WebServer::stop.                                                        *)
LEMMA StopperKeeps ==
  SessionsInv /\ (BeginStop \/ StopEngine \/ (\E c \in Conns : ShutdownClose(c)) \/ ShutdownDone \/ StopSessions \/ StopJoin \/ StopReset) => SessionsInv'
<1> SUFFICES ASSUME SessionsInv, BeginStop \/ StopEngine \/ (\E c \in Conns : ShutdownClose(c)) \/ ShutdownDone \/ StopSessions \/ StopJoin \/ StopReset PROVE SessionsInv'
  OBVIOUS
<1> USE SessionsAssumption DEF SessionsInv, lists, flags, eng, life
<1>1. CASE BeginStop
  <2>1. UNCHANGED <<created, destroyedBy>>
    BY <1>1 DEF BeginStop, StopperStep
  <2>2. \A d \in created : Referenced(d)' <=> Referenced(d)
    BY <1>1 DEF BeginStop, StopperStep, Referenced, SocketAlive, TypeOK
  <2>3. Destruction' /\ NotDestroyedByAudio'
    BY <2>1, <2>2, NothingDropped
  <2>4. TypeOK'
    BY <1>1 DEF BeginStop, StopperStep, TypeOK
  <2>5. KeysInv'
    BY <1>1 DEF BeginStop, StopperStep, KeysInv, HelloInv, TypeOK
  <2>6. HelloInv'
    BY <1>1 DEF BeginStop, StopperStep, KeysInv, HelloInv, JoinInv, TypeOK, Gone
  <2>7. JoinInv'
    BY <1>1 DEF BeginStop, StopperStep, HelloInv, JoinInv, Unjoined, Stopped, Gone, TypeOK
  <2> QED BY <2>3, <2>4, <2>5, <2>6, <2>7
<1>2. CASE StopEngine
  <2>1. DropsOn("stopper") /\ UNCHANGED created
    BY <1>2 DEF StopEngine, StopperStep
  <2>2. \A d \in created : Referenced(d)' => Referenced(d)
    BY <1>2 DEF StopEngine, StopperStep, Referenced, SocketAlive, TypeOK
  <2>3. Destruction' /\ NotDestroyedByAudio' /\ destroyedBy' \in [Conns -> {"no"} \cup Threads]
    BY <2>1, <2>2, Dropped DEF Threads
  <2>4. TypeOK'
    BY <2>3, <1>2 DEF StopEngine, StopperStep, TypeOK, Threads
  <2>5. KeysInv'
    BY <1>2 DEF StopEngine, StopperStep, KeysInv, HelloInv, TypeOK
  <2>6. HelloInv'
    BY <1>2 DEF StopEngine, StopperStep, KeysInv, HelloInv, JoinInv, TypeOK, Gone
  <2>7. JoinInv'
    BY <1>2 DEF StopEngine, StopperStep, HelloInv, JoinInv, Unjoined, Stopped, Gone, TypeOK
  <2> QED BY <2>3, <2>4, <2>5, <2>6, <2>7
<1>3. ASSUME NEW c \in Conns, ShutdownClose(c) PROVE SessionsInv'
  <2>1. UNCHANGED <<created, destroyedBy>>
    BY <1>3 DEF ShutdownClose
  <2>2. \A d \in created : Referenced(d)' <=> Referenced(d)
    BY <1>3 DEF ShutdownClose, Referenced, SocketAlive, TypeOK
  <2>3. Destruction' /\ NotDestroyedByAudio'
    BY <2>1, <2>2, NothingDropped
  <2>4. TypeOK'
    BY <1>3 DEF ShutdownClose, TypeOK
  <2>5. KeysInv'
    BY <1>3 DEF ShutdownClose, KeysInv, HelloInv, TypeOK
  <2>6. HelloInv'
    BY <1>3 DEF ShutdownClose, KeysInv, HelloInv, JoinInv, TypeOK, Gone
  <2>7. JoinInv'
    BY <1>3 DEF ShutdownClose, HelloInv, JoinInv, Unjoined, Stopped, Gone, TypeOK
  <2> QED BY <2>3, <2>4, <2>5, <2>6, <2>7
<1>4. CASE ShutdownDone
  <2>1. UNCHANGED <<created, destroyedBy>>
    BY <1>4 DEF ShutdownDone, StopperStep
  <2>2. \A d \in created : Referenced(d)' <=> Referenced(d)
    BY <1>4 DEF ShutdownDone, StopperStep, Referenced, SocketAlive, TypeOK
  <2>3. Destruction' /\ NotDestroyedByAudio'
    BY <2>1, <2>2, NothingDropped
  <2>4. TypeOK'
    BY <1>4 DEF ShutdownDone, StopperStep, TypeOK
  <2>5. KeysInv'
    BY <1>4 DEF ShutdownDone, StopperStep, KeysInv, HelloInv, TypeOK
  <2>6. HelloInv'
    BY <1>4 DEF ShutdownDone, StopperStep, KeysInv, HelloInv, JoinInv, TypeOK, Gone
  <2>7. JoinInv'
    BY <1>4 DEF ShutdownDone, StopperStep, HelloInv, JoinInv, Unjoined, Stopped, Gone, TypeOK
  <2> QED BY <2>3, <2>4, <2>5, <2>6, <2>7
<1>5. CASE StopSessions
  <2>1. UNCHANGED <<created, destroyedBy>>
    BY <1>5 DEF StopSessions, StopperStep
  <2>2. \A d \in created : Referenced(d)' <=> Referenced(d)
    <3>1. batch = {}
      BY <1>5 DEF StopSessions, StopperStep, JoinInv, Stopped
    <3> QED BY <1>5, <3>1 DEF StopSessions, StopperStep, Referenced, SocketAlive
  <2>3. Destruction' /\ NotDestroyedByAudio'
    BY <2>1, <2>2, NothingDropped
  <2>4. TypeOK'
    BY <1>5 DEF StopSessions, StopperStep, TypeOK
  <2>5. KeysInv'
    BY <1>5 DEF StopSessions, StopperStep, KeysInv, HelloInv, TypeOK
  <2>6. HelloInv'
    <3>1. \A d \in Conns : worker[d] \in Gone
      BY <1>5 DEF StopSessions, StopperStep, JoinInv, Stopped
    <3> QED BY <1>5, <3>1 DEF StopSessions, StopperStep, HelloInv, Gone
  <2>7. JoinInv'
    BY <1>5 DEF StopSessions, StopperStep, HelloInv, JoinInv, Unjoined, Stopped, Gone, TypeOK
  <2> QED BY <2>3, <2>4, <2>5, <2>6, <2>7
<1>6. CASE StopJoin
  <2>1. DropsOn("stopper") /\ UNCHANGED created
    BY <1>6 DEF StopJoin, JoinSender
  <2>2. \A d \in created : Referenced(d)' => Referenced(d)
    BY <1>6 DEF StopJoin, JoinSender, Referenced, SocketAlive, TypeOK
  <2>3. Destruction' /\ NotDestroyedByAudio' /\ destroyedBy' \in [Conns -> {"no"} \cup Threads]
    BY <2>1, <2>2, Dropped DEF Threads
  <2>4. TypeOK'
    BY <2>3, <1>6 DEF StopJoin, JoinSender, TypeOK, Threads
  <2>5. KeysInv'
    BY <1>6 DEF StopJoin, JoinSender, KeysInv, HelloInv, TypeOK
  <2>6. HelloInv'
    BY <1>6 DEF StopJoin, JoinSender, KeysInv, HelloInv, JoinInv, TypeOK, Gone
  <2>7. JoinInv'
    BY <1>6 DEF StopJoin, JoinSender, HelloInv, JoinInv, Unjoined, Stopped, Gone, TypeOK
  <2> QED BY <2>3, <2>4, <2>5, <2>6, <2>7
<1>7. CASE StopReset
  <2>1. DropsOn("stopper") /\ UNCHANGED created
    BY <1>7 DEF StopReset, StopperStep
  <2>2. \A d \in created : Referenced(d)' => Referenced(d)
    BY <1>7 DEF StopReset, StopperStep, Referenced, SocketAlive, TypeOK
  <2>3. Destruction' /\ NotDestroyedByAudio' /\ destroyedBy' \in [Conns -> {"no"} \cup Threads]
    BY <2>1, <2>2, Dropped DEF Threads
  <2>4. TypeOK'
    BY <2>3, <1>7 DEF StopReset, StopperStep, TypeOK, Threads
  <2>5. KeysInv'
    BY <1>7 DEF StopReset, StopperStep, KeysInv, HelloInv, TypeOK
  <2>6. HelloInv'
    BY <1>7 DEF StopReset, StopperStep, KeysInv, HelloInv, JoinInv, TypeOK, Gone
  <2>7. JoinInv'
    BY <1>7 DEF StopReset, StopperStep, HelloInv, JoinInv, Unjoined, Stopped, Gone, TypeOK
  <2> QED BY <2>3, <2>4, <2>5, <2>6, <2>7
<1> QED BY <1>1, <1>2, <1>3, <1>4, <1>5, <1>6, <1>7

LEMMA SessionsStart == Init => SessionsInv
  BY SessionsAssumption
  DEF Init, SessionsInv, TypeOK, KeysInv, HelloInv, JoinInv, Destruction, NotDestroyedByAudio,
      Referenced, SocketAlive, Unjoined, Stopped, Gone

LEMMA SessionsNext == SessionsInv /\ [Next]_vars => SessionsInv'
<1> SUFFICES ASSUME SessionsInv, [Next]_vars PROVE SessionsInv'
  OBVIOUS
<1>1. CASE UNCHANGED vars
  BY <1>1
  DEF vars, lists, flags, eng, life, SessionsInv, TypeOK, KeysInv, HelloInv, JoinInv, Destruction,
      NotDestroyedByAudio, Referenced, SocketAlive
<1>2. CASE Next
  BY <1>2, WorkerKeeps, SenderKeeps, ReaperKeeps, StopperKeeps DEF Next, Hello, Sender, Reaper, Stopper
<1> QED BY <1>1, <1>2

LEMMA SessionsAlways == Spec => []SessionsInv
  BY SessionsStart, SessionsNext, PTL DEF Spec

(* Every value of every variable stays in its type, and a session is       *)
(* listed as live or as retired, never as both.                            *)
THEOREM TypeCorrect == Spec => []TypeOK
<1>1. SessionsInv => TypeOK
  BY DEF SessionsInv
<1> QED BY <1>1, SessionsAlways, PTL

(* A rebuild on the audio thread never runs the destructor of a session.   *)
THEOREM AudioDestroysNone == Spec => []NotDestroyedByAudio
<1>1. SessionsInv => NotDestroyedByAudio
  BY DEF SessionsInv
<1> QED BY <1>1, SessionsAlways, PTL

(* Two usable sessions never have the same identity.                       *)
THEOREM IdentitiesDiffer == Spec => []UniqueIdentity
<1>1. SessionsInv => UniqueIdentity
  BY DEF SessionsInv, KeysInv, UniqueIdentity
<1> QED BY <1>1, SessionsAlways, PTL

(* Whichever thread destroys a session, the sender has been joined or was  *)
(* never started.                                                          *)
THEOREM JoinedFirst == Spec => []JoinedBeforeDestroyed
<1>1. SessionsInv => JoinedBeforeDestroyed
  <2> SUFFICES ASSUME SessionsInv, NEW c \in Conns, destroyedBy[c] # "no"
               PROVE  sender[c] \in {"none", "joined"}
    BY DEF JoinedBeforeDestroyed
  <2>1. ~Referenced(c)
    BY DEF SessionsInv, Destruction
  <2>2. sender[c] \notin Unjoined
    BY <2>1 DEF SessionsInv, JoinInv, Referenced
  <2> QED BY <2>2 DEF SessionsInv, TypeOK, Unjoined
<1> QED BY <1>1, SessionsAlways, PTL
===============================================================================
