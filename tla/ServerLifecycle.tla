--------------------------- MODULE ServerLifecycle ---------------------------
(***************************************************************************)
(* main and the HTTP side of WebServer::start and stop: signals, a start   *)
(* that fails, the listener and its pool of workers, and the cancellation  *)
(* of accepted connections by ReliableHttpServer.  A peer may be silent or *)
(* trickle for ever; only a shut socket is sure to end.                    *)
(*                                                                         *)
(* Descriptors are numbers of a finite pool and are given out again as     *)
(* soon as they are closed.                                                *)
(***************************************************************************)
EXTENDS Integers, FiniteSets

CONSTANTS Connections,
          Descriptors,   \* free descriptor numbers
          Workers        \* threads of the pool

ASSUME LifecycleAssumption ==
  /\ "none" \notin Connections
  /\ IsFiniteSet(Descriptors) /\ Descriptors \subseteq Nat \ {0} /\ Workers \in Nat \ {0}

VARIABLES
  main,                \* step of the main thread
  shutdownRequested, m_running,
  listener,            \* HTTP thread: "none", "accept", "drain", "ended"
  listening,           \* svr_sock_ is valid
  conn,                \* step of each connection
  fdOf,                \* descriptor of its socket, and the duplicate
  open,                \* what each descriptor number refers to
  shut,                \* sockets on which shutdown was called
  m_connections, m_stopping,
  lock, todo           \* holder of m_lock; descriptors cancel has not come to

mainVars == <<main, shutdownRequested>>
httpVars == <<listener, listening, m_running>>
connVars == <<conn, fdOf, open>>
cancelVars == <<m_connections, m_stopping, lock, todo>>
vars == <<mainVars, httpVars, connVars, shut, cancelVars>>

Free == {f \in Descriptors : open[f] = "none"}
NoFd == 0

Init ==
  /\ main = "devices" /\ shutdownRequested = FALSE /\ m_running = FALSE
  /\ listener = "none" /\ listening = FALSE
  /\ conn = [c \in Connections |-> "peer"]
  /\ fdOf = [c \in Connections |-> [socket |-> NoFd, dup |-> NoFd]]
  /\ open = [f \in Descriptors |-> "none"]
  /\ shut = {}
  /\ m_connections = {} /\ m_stopping = FALSE /\ lock = "none" /\ todo = {}

-------------------------------------------------------------------------------
(* main.  The flag is tested after each slow stage of the start.           *)

Signal ==
  /\ ~shutdownRequested /\ main # "done"
  /\ shutdownRequested' = TRUE
  /\ UNCHANGED <<main, httpVars, connVars, shut, cancelVars>>

Stage(from, to) ==
  /\ main = from
  /\ main' = IF shutdownRequested THEN "done" ELSE to
  /\ UNCHANGED <<shutdownRequested, httpVars, connVars, shut, cancelVars>>

Boot == Stage("devices", "enumerate") \/ Stage("enumerate", "restore") \/ Stage("restore", "start")

(* start binds both ports and starts the HTTP thread; it may fail before   *)
(* there is a thread, or after.                                            *)
StartServer ==
  /\ main = "start"
  /\ \/ /\ main' = "started"
        /\ m_running' = TRUE /\ listening' = TRUE /\ listener' = "accept"
     \/ main' = "done" /\ UNCHANGED httpVars
  /\ UNCHANGED <<shutdownRequested, connVars, shut, cancelVars>>

StartReturns ==
  /\ main = "started"
  /\ main' \in {"serve", "halt"}
  /\ UNCHANGED <<shutdownRequested, httpVars, connVars, shut, cancelVars>>

(* poll returns on the byte of the signal handler or after 100 ms.         *)
MainLoop ==
  /\ main = "serve" /\ (shutdownRequested \/ ~m_running)
  /\ main' = "halt"
  /\ UNCHANGED <<shutdownRequested, httpVars, connVars, shut, cancelVars>>

(* Mutant: the HTTP thread is joined before connections are cancelled.     *)
StopListeningJoining ==
  /\ main = "halt" /\ listener \in {"accept", "ended"}
  /\ m_running' = FALSE /\ listening' = FALSE
  /\ main' = IF listener = "ended" THEN "cancel" ELSE "halt"
  /\ UNCHANGED <<shutdownRequested, listener, connVars, shut, cancelVars>>

(* stop, and the clean-up of a failed start: no more requests, no listener *)
(* socket, connections cancelled, HTTP thread joined.                      *)
StopListening ==
  /\ main = "halt" /\ main' = "cancel"
  /\ m_running' = FALSE /\ listening' = FALSE
  /\ UNCHANGED <<shutdownRequested, listener, connVars, shut, cancelVars>>

CancelLock ==
  /\ main = "cancel" /\ lock = "none"
  /\ main' = "cancelling" /\ lock' = "main"
  /\ m_stopping' = TRUE /\ todo' = m_connections
  /\ UNCHANGED <<shutdownRequested, httpVars, connVars, shut, m_connections>>

CancelOne ==
  /\ main = "cancelling"
  /\ \E f \in todo : todo' = todo \ {f} /\ shut' = shut \cup ({open[f]} \ {"none"})
  /\ UNCHANGED <<mainVars, httpVars, connVars, m_connections, m_stopping, lock>>

CancelUnlock ==
  /\ main = "cancelling" /\ todo = {}
  /\ main' = "join" /\ lock' = "none"
  /\ UNCHANGED <<shutdownRequested, httpVars, connVars, shut, m_connections, m_stopping, todo>>

JoinListener ==
  /\ main = "join" /\ listener = "ended"
  /\ main' = "done"
  /\ UNCHANGED <<shutdownRequested, httpVars, connVars, shut, cancelVars>>

-------------------------------------------------------------------------------
(* The listener thread: accept until the socket is gone, then wait for     *)
(* every task of the pool.                                                 *)

Accept(c) ==
  /\ listener = "accept" /\ listening
  /\ conn[c] = "peer"
  /\ \E f \in Free : /\ open' = [open EXCEPT ![f] = c]
                     /\ fdOf' = [fdOf EXCEPT ![c].socket = f]
  /\ conn' = [conn EXCEPT ![c] = "queued"]
  /\ UNCHANGED <<mainVars, httpVars, shut, cancelVars>>

LeaveAccept ==
  /\ listener = "accept" /\ ~listening
  /\ listener' = "drain"
  /\ UNCHANGED <<mainVars, listening, m_running, connVars, shut, cancelVars>>

(* accept fails for good: the listener takes the socket down itself.       *)
AcceptFails ==
  /\ listener = "accept" /\ listening
  /\ listening' = FALSE /\ listener' = "drain"
  /\ UNCHANGED <<mainVars, m_running, connVars, shut, cancelVars>>

(* A listener that ends of itself reports through m_running.               *)
EndListener ==
  /\ listener = "drain"
  /\ \A c \in Connections : conn[c] \in {"peer", "closed"}
  /\ listener' = "ended" /\ m_running' = FALSE
  /\ UNCHANGED <<mainVars, listening, connVars, shut, cancelVars>>

-------------------------------------------------------------------------------
(* process_and_close_socket on a worker.                                   *)

Busy == {c \in Connections : conn[c] \in {"duplicated", "serving", "cleanup"}}

(* Without a duplicate the connection is refused.                          *)
Duplicate(c) ==
  /\ conn[c] = "queued" /\ Cardinality(Busy) < Workers
  /\ \/ \E f \in Free : /\ open' = [open EXCEPT ![f] = c]
                        /\ fdOf' = [fdOf EXCEPT ![c].dup = f]
                        /\ conn' = [conn EXCEPT ![c] = "duplicated"]
                        /\ UNCHANGED shut
     \/ /\ Free = {}
        /\ shut' = shut \cup {c}
        /\ open' = [open EXCEPT ![fdOf[c].socket] = "none"]
        /\ fdOf' = [fdOf EXCEPT ![c].socket = NoFd]
        /\ conn' = [conn EXCEPT ![c] = "closed"]
  /\ UNCHANGED <<mainVars, httpVars, cancelVars>>

(* Mutant: a connection that comes late is only added to the set.          *)
TrackWithoutTest(c) ==
  /\ conn[c] = "duplicated" /\ lock = "none"
  /\ m_connections' = m_connections \cup {fdOf[c].dup}
  /\ conn' = [conn EXCEPT ![c] = "serving"]
  /\ UNCHANGED <<mainVars, httpVars, fdOf, open, shut, m_stopping, lock, todo>>

(* Tracked, and ended at once if cancel has gone through already.          *)
Track(c) ==
  /\ conn[c] = "duplicated" /\ lock = "none"
  /\ m_connections' = m_connections \cup {fdOf[c].dup}
  /\ shut' = IF m_stopping THEN shut \cup {c} ELSE shut
  /\ conn' = [conn EXCEPT ![c] = "serving"]
  /\ UNCHANGED <<mainVars, httpVars, fdOf, open, m_stopping, lock, todo>>

(* The requests of the connection are over, by an exception perhaps, and   *)
(* the library closes the socket.                                          *)
Finish(c) ==
  /\ conn[c] = "serving"
  /\ open' = [open EXCEPT ![fdOf[c].socket] = "none"]
  /\ fdOf' = [fdOf EXCEPT ![c].socket = NoFd]
  /\ conn' = [conn EXCEPT ![c] = "cleanup"]
  /\ UNCHANGED <<mainVars, httpVars, shut, cancelVars>>

(* Mutant: the duplicate is closed, but stays in the set.                  *)
CleanupKeepingEntry(c) ==
  /\ conn[c] = "cleanup" /\ lock = "none"
  /\ open' = [open EXCEPT ![fdOf[c].dup] = "none"]
  /\ fdOf' = [fdOf EXCEPT ![c].dup = NoFd]
  /\ conn' = [conn EXCEPT ![c] = "closed"]
  /\ UNCHANGED <<mainVars, httpVars, shut, cancelVars>>

(* Mutant: the duplicate leaves the set, but is not closed.                *)
CleanupLeaking(c) ==
  /\ conn[c] = "cleanup" /\ lock = "none"
  /\ m_connections' = m_connections \ {fdOf[c].dup}
  /\ fdOf' = [fdOf EXCEPT ![c].dup = NoFd]
  /\ conn' = [conn EXCEPT ![c] = "closed"]
  /\ UNCHANGED <<mainVars, httpVars, open, shut, m_stopping, lock, todo>>

Cleanup(c) ==
  /\ conn[c] = "cleanup" /\ lock = "none"
  /\ m_connections' = m_connections \ {fdOf[c].dup}
  /\ open' = [open EXCEPT ![fdOf[c].dup] = "none"]
  /\ fdOf' = [fdOf EXCEPT ![c].dup = NoFd]
  /\ conn' = [conn EXCEPT ![c] = "closed"]
  /\ UNCHANGED <<mainVars, httpVars, shut, m_stopping, lock, todo>>

(* The peer comes back.                                                    *)
Reconnect(c) ==
  /\ conn[c] = "closed" /\ listening
  /\ conn' = [conn EXCEPT ![c] = "peer"]
  /\ shut' = shut \ {c}
  /\ UNCHANGED <<mainVars, httpVars, fdOf, open, cancelVars>>

-------------------------------------------------------------------------------
MainSteps == \/ Boot \/ StartServer \/ StartReturns \/ MainLoop \/ StopListening
             \/ CancelLock \/ CancelOne \/ CancelUnlock \/ JoinListener

Worker(c) == Duplicate(c) \/ Track(c) \/ Cleanup(c)

Next == \/ Signal \/ MainSteps
        \/ LeaveAccept \/ AcceptFails \/ EndListener
        \/ \E c \in Connections : Accept(c) \/ Worker(c) \/ Finish(c) \/ Reconnect(c)

Spec == Init /\ [][Next]_vars

(* Threads that can go on do; a request is sure to end only on a shut      *)
(* socket, and peers, signals and failures owe nothing.                    *)
Fairness ==
  /\ WF_vars(MainSteps)
  /\ WF_vars(LeaveAccept) /\ WF_vars(EndListener)
  /\ \A c \in Connections : WF_vars(Worker(c)) /\ WF_vars(c \in shut /\ Finish(c))

FairSpec == Spec /\ Fairness

-------------------------------------------------------------------------------
(* Types; a descriptor number refers to one connection at most, and        *)
(* that connection knows it.                                               *)
TypeOK ==
  /\ main \in {"devices", "enumerate", "restore", "start", "started", "serve", "halt", "cancel",
               "cancelling", "join", "done"}
  /\ {shutdownRequested, m_running, listening, m_stopping} \subseteq BOOLEAN
  /\ listener \in {"none", "accept", "drain", "ended"}
  /\ conn \in [Connections -> {"peer", "queued", "duplicated", "serving", "cleanup", "closed"}]
  /\ m_connections \subseteq Descriptors /\ todo \subseteq m_connections
  /\ lock \in {"none", "main"} /\ shut \subseteq Connections
  /\ \A f \in Descriptors : open[f] # "none" => f \in {fdOf[open[f]].socket, fdOf[open[f]].dup}

(* cancel_connections only ever shuts its own connections: a tracked       *)
(* number is the open duplicate of a connection that a worker serves.      *)
TrackedIsOwn ==
  \A f \in m_connections :
    \E c \in Connections : open[f] = c /\ fdOf[c].dup = f /\ conn[c] \in {"serving", "cleanup"}

(* Once cancel has gone through, no request is served on a socket that was *)
(* not shut: neither one that was tracked before nor a late one.           *)
CancelReachesAll ==
  main \in {"join", "done"} => \A c \in Connections : conn[c] = "serving" => c \in shut

(* When main is done, the HTTP thread and its workers are, and every       *)
(* descriptor has been closed.                                             *)
StopReleasesDescriptors ==
  main = "done" => /\ listener \in {"none", "ended"} /\ ~listening
                   /\ \A f \in Descriptors : open[f] = "none"

(* After a signal the program ends, although peers may keep connections    *)
(* open for ever.                                                          *)
SignalStops == shutdownRequested ~> main = "done"
===============================================================================
