---------------------------- MODULE ClientSessions ----------------------------
(***************************************************************************)
(* The life of WebClientSession objects: created when a WebSocket opens,   *)
(* given an identity and a sender thread by a hello, bound into the audio  *)
(* graph, retired by a Close callback that may run on any thread, joined   *)
(* and released by the reaper or by WebServer::stop.                       *)
(*                                                                         *)
(* A session is owned by shared pointers in m_sessions, m_retired_sessions,*)
(* the reaper's batch, the engine's owners and its retired queue, and by   *)
(* the socket's callback.  The socket is owned by its IX worker and by the *)
(* sender thread.  Every step names the thread that takes it, so that the  *)
(* thread that drops the last reference, and so runs the destructor, is    *)
(* known.                                                                  *)
(***************************************************************************)
EXTENDS Integers, FiniteSets

CONSTANTS Conns,   \* WebSocket connections
          Keys,    \* client identities a hello may claim
          Nobody   \* the control mutex is free

ASSUME SessionsAssumption == Nobody \notin Conns /\ Keys \cap Conns = {}

VARIABLES
  worker,     \* step of each connection's IX thread
  transport,  \* IX's ready state: "open", "closing" or "closed"
  created,    \* connections whose session object was made
  sessions, retired,         \* ClientManager's two lists
  batch,      \* sessions the reaper or stop() is joining
  active, ready,             \* the flags active and media_ready
  key,        \* client_key; a connection stands for its provisional key
  claim,      \* the key the hello in progress asks for
  sender,     \* sender thread: none, running, exiting, ended or joined
  owners, queue,             \* DspEngine's owners and retired owners
  dirty, audio,              \* graph marked; the audio worker runs
  web, control,
  reaper, stopper,           \* steps of the reaper and of WebServer::stop
  destroyedBy \* history: the thread that ran each destructor, or "no"

lists  == <<created, sessions, retired, batch>>
flags  == <<active, ready, key, claim>>
eng    == <<owners, queue, audio>>
life   == <<web, reaper, stopper>>
vars == <<worker, transport, lists, flags, sender, eng, dirty, life, control, destroyedBy>>

Init ==
  /\ worker = [c \in Conns |-> "none"] /\ transport = [c \in Conns |-> "open"]
  /\ created = {} /\ sessions = {} /\ retired = {} /\ batch = {}
  /\ active = {} /\ ready = {}
  /\ key = [c \in Conns |-> c] /\ claim = [c \in Conns |-> c]
  /\ sender = [c \in Conns |-> "none"]
  /\ owners = {} /\ queue = {} /\ dirty = TRUE /\ audio = TRUE
  /\ web = TRUE /\ control = Nobody
  /\ reaper = "test" /\ stopper = "run"
  /\ destroyedBy = [c \in Conns |-> "no"]

(* The socket, and with it the callback's reference to the session.        *)
SocketAlive(c) == worker[c] \notin {"none", "ended"} \/ sender[c] \in {"running", "exiting"}

Referenced(c) == SocketAlive(c) \/ c \in sessions \cup retired \cup batch \cup owners \cup queue

(* ~WebClientSession runs on the thread whose step drops the last one.     *)
DropsOn(thread) ==
  destroyedBy' = [c \in Conns |->
    IF c \in created /\ destroyedBy[c] = "no" /\ ~Referenced(c)' THEN thread ELSE destroyedBy[c]]

(* A thread that still has to be joined when the destructor runs is joined *)
(* by it (stop_sender).                                                    *)
Joinable(c) == sender[c] \in {"running", "exiting", "ended"}

-------------------------------------------------------------------------------
WorkerStep(c, from, to) == worker[c] \in from /\ worker' = [worker EXCEPT ![c] = to]

(* ClientManager::remove_session, under m_lock; the flags it changes.      *)
RemoveSession(c) ==
  IF c \in sessions
    THEN /\ active' = active \ {c}
         /\ retired' = retired \cup {c}
         /\ sessions' = sessions \ {c}
         /\ dirty' = TRUE
    ELSE UNCHANGED <<active, retired, sessions, dirty>>

(* A peer connects: ReliableWebSocketServer::handleConnection lets the     *)
(* worker in unless the server is stopping.                                *)
Connect(c) ==
  /\ stopper \in {"run", "engine"}
  /\ WorkerStep(c, {"none"}, "handshake")
  /\ UNCHANGED <<transport, lists, flags, sender, eng, dirty, life, control, destroyedBy>>

(* Open: under the control mutex, create_session.                          *)
Open(c) ==
  /\ control = Nobody /\ transport[c] = "open"
  /\ WorkerStep(c, {"handshake"}, "open")
  /\ IF web THEN /\ created' = created \cup {c}
                 /\ sessions' = sessions \cup {c}
                 /\ active' = active \cup {c}
            ELSE UNCHANGED <<created, sessions, active>>
  /\ UNCHANGED <<transport, retired, batch, ready, key, claim, sender, eng, dirty, life,
                 control, destroyedBy>>

(* A stopping server closes a connection that opens or sends a message.    *)
CloseWhenStopped(c) ==
  /\ ~web /\ transport[c] = "open"
  /\ WorkerStep(c, {"handshake", "open"}, "open")
  /\ transport' = [transport EXCEPT ![c] = "closing"]
  /\ UNCHANGED <<lists, flags, sender, eng, dirty, life, control, destroyedBy>>

(* A hello message: the flags are tested before the mutex is taken.        *)
HelloTest(c) ==
  /\ web /\ c \in active /\ transport[c] = "open"
  /\ WorkerStep(c, {"open"}, "helloLock")
  /\ \E k \in Keys : claim' = [claim EXCEPT ![c] = k]
  /\ UNCHANGED <<transport, lists, active, ready, key, sender, eng, dirty, life, control,
                 destroyedBy>>

(* An already configured session is answered; otherwise the channels are   *)
(* stored and the rings allocated, or the socket is closed.                *)
HelloLock(c) ==
  /\ control = Nobody
  /\ \/ /\ c \notin ready /\ WorkerStep(c, {"helloLock"}, "start")
        /\ control' = c
        /\ UNCHANGED transport
     \/ /\ c \in ready /\ WorkerStep(c, {"helloLock"}, "open")
        /\ UNCHANGED <<transport, control>>
     \/ /\ c \notin ready /\ WorkerStep(c, {"helloLock"}, "open")   \* no memory
        /\ transport' = [transport EXCEPT ![c] = IF @ = "open" THEN "closing" ELSE @]
        /\ UNCHANGED control
  /\ UNCHANGED <<lists, flags, sender, eng, dirty, life, destroyedBy>>

StartSender(c) ==
  /\ WorkerStep(c, {"start"}, "claim")
  /\ sender' = [sender EXCEPT ![c] = "running"]
  /\ UNCHANGED <<transport, lists, flags, eng, dirty, life, control, destroyedBy>>

(* No thread or no memory: the exception unlocks control and ends the IX   *)
(* worker without a Close callback; the server's client set keeps the      *)
(* socket, and m_sessions the session, until stop().                       *)
WorkerDies(c) ==
  /\ WorkerStep(c, {"start", "claim"}, "died")
  /\ control' = Nobody
  /\ UNCHANGED <<transport, lists, flags, sender, eng, dirty, life, destroyedBy>>

(* Mutant: the key is not compared with the other sessions'.               *)
ClaimIdentityUnchecked(c) ==
  /\ WorkerStep(c, {"claim"}, "ready")
  /\ key' = [key EXCEPT ![c] = claim[c]]
  /\ dirty' = TRUE
  /\ UNCHANGED <<active, transport, lists, ready, claim, sender, eng, life, control, destroyedBy>>

(* claim_identity, under m_lock.  A key in use, or no free node ids, fails.*)
ClaimIdentity(c) ==
  /\ \/ /\ \A d \in sessions \cap active : d # c => key[d] # claim[c]
        /\ WorkerStep(c, {"claim"}, "ready")
        /\ key' = [key EXCEPT ![c] = claim[c]]
        /\ dirty' = TRUE
        /\ UNCHANGED active
     \/ /\ WorkerStep(c, {"claim"}, "reject")
        /\ active' = active \ {c}
        /\ UNCHANGED <<key, dirty>>
  /\ UNCHANGED <<transport, lists, ready, claim, sender, eng, life, control, destroyedBy>>

(* The session is published: media_ready, mark, unlock.                    *)
HelloReady(c) ==
  /\ WorkerStep(c, {"ready"}, "open")
  /\ ready' = ready \cup {c}
  /\ dirty' = TRUE
  /\ control' = Nobody
  /\ UNCHANGED <<transport, lists, active, key, claim, sender, eng, life, destroyedBy>>

(* Conflict: the session is retired, the socket closed.                    *)
HelloReject(c) ==
  /\ WorkerStep(c, {"reject"}, "open")
  /\ RemoveSession(c)
  /\ control' = Nobody
  /\ transport' = [transport EXCEPT ![c] = IF @ = "open" THEN "closing" ELSE @]
  /\ UNCHANGED <<created, batch, ready, key, claim, sender, eng, life, destroyedBy>>

(* IX's thread notices that the connection is over and runs the Close      *)
(* callback; then it ends and drops the socket.                            *)
CloseOnWorker(c) ==
  /\ worker[c] \in {"handshake", "open"} /\ transport[c] # "closed"
  /\ transport' = [transport EXCEPT ![c] = "closed"]
  /\ RemoveSession(c)
  /\ UNCHANGED <<worker, created, batch, ready, key, claim, sender, eng, life, control, destroyedBy>>

WorkerEnd(c) ==
  /\ transport[c] = "closed"
  /\ WorkerStep(c, {"handshake", "open"}, "ended")
  /\ UNCHANGED <<transport, lists, flags, sender, eng, dirty, life, control>>
  /\ DropsOn("worker")

-------------------------------------------------------------------------------
(* The sender thread (start_sender's lambda).                              *)

SenderStep(c, from, to) == sender[c] = from /\ sender' = [sender EXCEPT ![c] = to]

(* A failed send on an open transport closes it, and the Close callback    *)
(* runs here.                                                              *)
SendFails(c) ==
  /\ sender[c] = "running" /\ c \in active \cap ready /\ transport[c] = "open"
  /\ transport' = [transport EXCEPT ![c] = "closed"]
  /\ RemoveSession(c)
  /\ UNCHANGED <<worker, created, batch, ready, key, claim, sender, eng, life, control, destroyedBy>>

(* An exception in the loop.                                               *)
SenderThrows(c) ==
  /\ sender[c] = "running" /\ c \in active \cap ready
  /\ active' = active \ {c}
  /\ UNCHANGED <<worker, transport, lists, ready, key, claim, sender, eng, dirty, life, control,
                 destroyedBy>>

SenderLeaves(c) ==
  /\ c \notin active
  /\ SenderStep(c, "running", "exiting")
  /\ UNCHANGED <<worker, transport, lists, flags, eng, dirty, life, control, destroyedBy>>

(* The thread's closure, with its socket reference, is destroyed.          *)
SenderEnds(c) ==
  /\ SenderStep(c, "exiting", "ended")
  /\ UNCHANGED <<worker, transport, lists, flags, eng, dirty, life, control>>
  /\ DropsOn("sender")

-------------------------------------------------------------------------------
(* The audio worker's rebuild_graph: the previous owners go to the queue.  *)

(* Mutant: the previous owners are dropped on the audio thread.            *)
RebuildDropping ==
  /\ audio /\ dirty
  /\ dirty' = FALSE
  /\ owners' = sessions \cap active
  /\ UNCHANGED <<worker, transport, lists, flags, sender, queue, audio, life, control>>
  /\ DropsOn("audio")

Rebuild ==
  /\ audio /\ dirty
  /\ dirty' = FALSE
  /\ queue' = queue \cup owners
  /\ owners' = sessions \cap active
  /\ UNCHANGED <<worker, transport, lists, flags, sender, audio, life, control>>
  /\ DropsOn("audio")

-------------------------------------------------------------------------------
(* collect_retired_sessions: the list is swapped out, every sender joined  *)
(* (stop_sender clears active), and the batch dropped.                     *)

(* Mutant: the batch is dropped without joining.                           *)
JoinSenderSkipped(c) ==
  /\ c \in batch
  /\ batch' = batch \ {c}
  /\ active' = active \ {c}
  /\ UNCHANGED sender

JoinSender(c) ==
  /\ c \in batch
  /\ sender[c] \in {"none", "ended"}
  /\ active' = active \ {c}
  /\ sender' = [sender EXCEPT ![c] = IF @ = "ended" THEN "joined" ELSE @]
  /\ batch' = batch \ {c}

(* The reaper thread: test m_running, collect sessions, collect endpoints. *)
ReaperStep(from, to) == reaper = from /\ reaper' = to

ReaperTest ==
  /\ ReaperStep("test", IF web THEN "swap" ELSE "done")
  /\ UNCHANGED <<worker, transport, lists, flags, sender, eng, dirty, web, stopper, control, destroyedBy>>

ReaperSwap ==
  /\ ReaperStep("swap", "join")
  /\ batch' = retired /\ retired' = {}
  /\ UNCHANGED <<worker, transport, created, sessions, flags, sender, eng, dirty, web, stopper,
                 control, destroyedBy>>

(* stop_sender first clears active, which lets the sender leave its loop.  *)
ReaperJoin ==
  /\ reaper = "join"
  /\ \/ \E c \in batch : JoinSender(c) /\ UNCHANGED reaper
     \/ batch = {} /\ reaper' = "collect" /\ UNCHANGED <<active, sender, batch>>
  /\ UNCHANGED <<worker, transport, created, sessions, retired, ready, key, claim, eng, dirty,
                 web, stopper, control>>
  /\ DropsOn("reaper")

(* Mutant: the endpoints that a rebuild retired are left in their queue.   *)
ReaperCollectNothing ==
  /\ ReaperStep("collect", "test")
  /\ UNCHANGED <<worker, transport, lists, flags, sender, eng, dirty, web, stopper, control>>
  /\ DropsOn("reaper")

(* collect_retired_endpoints.                                              *)
ReaperCollect ==
  /\ ReaperStep("collect", "test")
  /\ queue' = {}
  /\ UNCHANGED <<worker, transport, lists, flags, sender, owners, audio, dirty, web, stopper, control>>
  /\ DropsOn("reaper")

-------------------------------------------------------------------------------
(* WebServer::stop.                                                        *)

StopperStep(from, to) == stopper = from /\ stopper' = to

BeginStop ==
  /\ StopperStep("run", "engine")
  /\ web' = FALSE
  /\ UNCHANGED <<worker, transport, lists, flags, sender, eng, dirty, reaper, control, destroyedBy>>

(* DspEngine::stop joins the worker and drops all it owns.                 *)
StopEngine ==
  /\ StopperStep("engine", "ws")
  /\ audio' = FALSE /\ owners' = {} /\ queue' = {} /\ dirty' = TRUE
  /\ UNCHANGED <<worker, transport, lists, flags, sender, web, reaper, control>>
  /\ DropsOn("stopper")

(* shutdown() closes a client: IX only starts its closing handshake; the   *)
(* Close callback follows on the connection's own thread.                  *)
ShutdownClose(c) ==
  /\ stopper = "ws" /\ worker[c] \notin {"none", "died", "ended"} /\ transport[c] = "open"
  /\ transport' = [transport EXCEPT ![c] = "closing"]
  /\ UNCHANGED <<worker, lists, flags, sender, eng, dirty, life, control, destroyedBy>>

(* No worker is left and the reaper has been joined.                       *)
ShutdownDone ==
  /\ \A c \in Conns : worker[c] \in {"none", "died", "ended"}
  /\ reaper = "done"
  /\ StopperStep("ws", "sessions")
  /\ UNCHANGED <<worker, transport, lists, flags, sender, eng, dirty, web, reaper, control, destroyedBy>>

(* Mutant: sessions without a Close callback are forgotten.                *)
StopSessionsRetiredOnly ==
  /\ StopperStep("sessions", "join")
  /\ batch' = retired /\ retired' = {}
  /\ UNCHANGED <<worker, transport, created, sessions, active, ready, key, claim, sender, eng,
                 dirty, web, reaper, control, destroyedBy>>

(* stop_sessions retires what is left and collects.                        *)
StopSessions ==
  /\ StopperStep("sessions", "join")
  /\ active' = active \ sessions
  /\ batch' = retired \cup sessions
  /\ sessions' = {} /\ retired' = {}
  /\ UNCHANGED <<worker, transport, created, ready, key, claim, sender, eng, dirty, web, reaper,
                 control, destroyedBy>>

StopJoin ==
  /\ stopper = "join"
  /\ \/ \E c \in batch : JoinSender(c) /\ UNCHANGED stopper /\ UNCHANGED queue
     \/ batch = {} /\ stopper' = "reset" /\ queue' = {} /\ UNCHANGED <<active, sender, batch>>
  /\ UNCHANGED <<worker, transport, created, sessions, retired, ready, key, claim, owners, audio,
                 dirty, web, reaper, control>>
  /\ DropsOn("stopper")

(* m_wsServer.reset() drops the sockets left in the server's client set.   *)
StopReset ==
  /\ StopperStep("reset", "done")
  /\ worker' = [c \in Conns |-> IF worker[c] = "died" THEN "ended" ELSE worker[c]]
  /\ UNCHANGED <<transport, lists, flags, sender, eng, dirty, web, reaper, control>>
  /\ DropsOn("stopper")

-------------------------------------------------------------------------------
Hello(c) == HelloLock(c) \/ StartSender(c) \/ ClaimIdentity(c) \/ HelloReady(c) \/ HelloReject(c)
Worker(c) == Hello(c) \/ (transport[c] = "closing" /\ CloseOnWorker(c)) \/ WorkerEnd(c)
Sender(c) == SenderLeaves(c) \/ SenderEnds(c)
Reaper == ReaperTest \/ ReaperSwap \/ ReaperJoin \/ ReaperCollect
Stopper == \/ StopEngine \/ (\E c \in Conns : ShutdownClose(c)) \/ ShutdownDone
           \/ StopSessions \/ StopJoin \/ StopReset

Next == \/ \E c \in Conns : \/ Connect(c) \/ Open(c) \/ CloseWhenStopped(c)
                            \/ HelloTest(c) \/ Hello(c) \/ WorkerDies(c)
                            \/ CloseOnWorker(c) \/ WorkerEnd(c)
                            \/ SendFails(c) \/ SenderThrows(c) \/ Sender(c)
        \/ Rebuild \/ Reaper \/ BeginStop \/ Stopper

(* Threads with work do it; IX ends a closing handshake by its timeout.    *)
Fairness ==
  /\ \A c \in Conns : WF_vars(Worker(c)) /\ WF_vars(Sender(c))
  /\ WF_vars(Rebuild) /\ WF_vars(Reaper) /\ WF_vars(Stopper)

Spec == Init /\ [][Next]_vars /\ Fairness

-------------------------------------------------------------------------------
(* Types; a session is listed as live or as retired, never as both.        *)
TypeOK ==
  /\ worker \in [Conns -> {"none", "handshake", "open", "helloLock", "start", "claim", "ready",
                           "reject", "died", "ended"}]
  /\ transport \in [Conns -> {"open", "closing", "closed"}]
  /\ sessions \cup retired \cup batch \cup owners \cup queue \cup active \cup ready \subseteq created
  /\ created \subseteq Conns /\ sessions \cap (retired \cup batch) = {}
  /\ key \in [Conns -> Keys \cup Conns] /\ claim \in [Conns -> Keys \cup Conns]
  /\ sender \in [Conns -> {"none", "running", "exiting", "ended", "joined"}]
  /\ dirty \in BOOLEAN /\ audio \in BOOLEAN /\ web \in BOOLEAN
  /\ control \in Conns \cup {Nobody}
  /\ reaper \in {"test", "swap", "join", "collect", "done"}
  /\ stopper \in {"run", "engine", "ws", "sessions", "join", "reset", "done"}
  /\ destroyedBy \in [Conns -> {"no", "worker", "sender", "audio", "reaper", "stopper"}]

(* "Final device/session destruction must never run on the audio worker":  *)
(* a rebuild that unbinds a session is never its last owner.               *)
NotDestroyedByAudio == \A c \in Conns : destroyedBy[c] # "audio"

(* An identity belongs to one usable session at a time, whatever hellos    *)
(* and closes race.                                                        *)
UniqueIdentity ==
  \A c, d \in sessions \cap active \cap ready : c # d => key[c] # key[d]

(* stop_sender is "called only by the external retirement owner, never by  *)
(* an IX callback": when a session is destroyed its sender has been joined *)
(* or never started, so no destructor blocks on an IX thread, and no       *)
(* sender joins itself, although it owns the socket that owns the session. *)
JoinedBeforeDestroyed ==
  \A c \in Conns : destroyedBy[c] # "no" => sender[c] \in {"none", "joined"}

(* No reference leaks: again and again every session that has been taken   *)
(* out of m_sessions is destroyed.  Destruction is final, so each of them  *)
(* is destroyed in the end.                                                *)
RetiredIsDestroyed == []<>(\A c \in created \ sessions : destroyedBy[c] # "no")

(* WebServer::stop, which begins once, terminates with every session       *)
(* destroyed.                                                              *)
StopReleasesAll ==
  []<>(\/ stopper = "run"
       \/ stopper = "done" /\ \A c \in created : destroyedBy[c] # "no")
===============================================================================
