------------------------- MODULE ServerLifecycleProofs -------------------------
(***************************************************************************)
(* Proofs about ServerLifecycle, for any number of connections, of         *)
(* descriptors and of workers.                                             *)
(***************************************************************************)
EXTENDS ServerLifecycle, TLAPS

HasSocket == {"queued", "duplicated", "serving"}
HasDup    == {"duplicated", "serving", "cleanup"}
IsTracked == {"serving", "cleanup"}
Before    == {"devices", "enumerate", "restore", "start"}
Stopping  == {"cancel", "cancelling", "join"}

(* A connection knows the descriptors that its step needs, two different   *)
(* ones if it has two, and forgets those that are closed.                  *)
Holds(c) ==
  /\ conn[c] \in HasSocket => fdOf[c].socket \in Descriptors /\ open[fdOf[c].socket] = c
  /\ conn[c] \in HasDup => fdOf[c].dup \in Descriptors /\ open[fdOf[c].dup] = c
  /\ conn[c] \in HasSocket \cap HasDup => fdOf[c].socket # fdOf[c].dup
  /\ conn[c] \notin HasSocket => fdOf[c].socket = NoFd
  /\ conn[c] \notin HasDup => fdOf[c].dup = NoFd

(* An open descriptor is known to the connection that it refers to.        *)
OpenIsHeld ==
  \A f \in Descriptors : open[f] # "none" => f \in {fdOf[open[f]].socket, fdOf[open[f]].dup}

DescriptorTypes ==
  /\ conn \in [Connections -> {"peer", "queued", "duplicated", "serving", "cleanup", "closed"}]
  /\ open \in [Descriptors -> Connections \cup {"none"}]
  /\ fdOf \in [Connections -> [socket : Descriptors \cup {NoFd}, dup : Descriptors \cup {NoFd}]]

DescriptorInv == DescriptorTypes /\ OpenIsHeld /\ \A c \in Connections : Holds(c)

(* The set holds the duplicates of the connections that are served or      *)
(* being taken out of it, and no other number.                             *)
Tracked  == {c \in Connections : conn[c] \in IsTracked}
TrackInv == m_connections = {fdOf[c].dup : c \in Tracked}

(* Main holds the lock while it cancels, and what it has not come to is    *)
(* what is served on a socket that is not shut.                            *)
CancelInv ==
  /\ lock \in {"none", "main"} /\ shut \subseteq Connections /\ m_stopping \in BOOLEAN
  /\ lock = "main" <=> main = "cancelling"
  /\ todo \subseteq m_connections /\ (main # "cancelling" => todo = {})
  /\ main \in {"cancelling", "join"} => m_stopping
  /\ main = "cancelling" => \A c \in Connections : conn[c] = "serving" /\ c \notin shut => fdOf[c].dup \in todo
  /\ CancelReachesAll

(* How far main and the listener are.  A listener that has ended leaves    *)
(* nothing in hand, and none is accepted after.                            *)
ListenerInv ==
  /\ main \in Before \cup {"started", "serve", "halt", "done"} \cup Stopping
  /\ shutdownRequested \in BOOLEAN /\ m_running \in BOOLEAN /\ listening \in BOOLEAN
  /\ listener \in {"none", "accept", "drain", "ended"}
  /\ main \in Before => listener = "none"
  /\ main \in {"started", "serve", "halt"} \cup Stopping => listener # "none"
  /\ main \in Stopping \cup {"done"} => ~listening
  /\ main = "done" => listener \in {"none", "ended"}
  /\ listener # "accept" => ~listening
  /\ listener \in {"none", "ended"} => \A c \in Connections : conn[c] \in {"peer", "closed"}

LifecycleInv == DescriptorInv /\ TrackInv /\ CancelInv /\ ListenerInv

(* One step of the connection c, and every other step.                     *)
Moves(c) == Accept(c) \/ Duplicate(c) \/ Track(c) \/ Finish(c) \/ Cleanup(c) \/ Reconnect(c)

Elsewhere ==
  \/ Signal \/ MainSteps \/ LeaveAccept \/ AcceptFails \/ EndListener
  \/ UNCHANGED vars

LEMMA KindsOfStep == [Next]_vars => Elsewhere \/ \E c \in Connections : Moves(c)
  BY DEF Next, Elsewhere, Moves, Worker

LEMMA ElsewhereFrame == Elsewhere => UNCHANGED connVars /\ UNCHANGED m_connections
  BY DEF Elsewhere, Signal, MainSteps, Boot, Stage, StartServer, StartReturns, MainLoop, StopListening,
         CancelLock, CancelOne, CancelUnlock, JoinListener, LeaveAccept, AcceptFails, EndListener,
         vars, cancelVars

(* What a step of c leaves alone.                                          *)
LEMMA MovesFrame ==
  ASSUME NEW c \in Connections, Moves(c)
  PROVE  UNCHANGED <<mainVars, httpVars, m_stopping, lock, todo>>
  BY DEF Moves, Accept, Duplicate, Track, Finish, Cleanup, Reconnect, cancelVars

(* A descriptor is opened for c: the others stay what they are, and nobody *)
(* else knows it.                                                          *)
LEMMA Opened ==
  ASSUME DescriptorInv, NEW c \in Connections, NEW f \in Free, open' = [open EXCEPT ![f] = c]
  PROVE  /\ f \in Descriptors /\ open'[f] = c
         /\ \A g \in Descriptors : g # f => open'[g] = open[g]
         /\ open' \in [Descriptors -> Connections \cup {"none"}]
         /\ \A d \in Connections : conn[d] \in HasSocket => fdOf[d].socket # f
         /\ \A d \in Connections : conn[d] \in HasDup => fdOf[d].dup # f
<1>1. f \in Descriptors /\ open[f] = "none" /\ open \in [Descriptors -> Connections \cup {"none"}]
  BY DEF Free, DescriptorInv, DescriptorTypes
<1>2. open'[f] = c /\ \A g \in Descriptors : g # f => open'[g] = open[g]
  BY <1>1
<1>3. open' \in [Descriptors -> Connections \cup {"none"}]
  BY <1>1
<1>4. ASSUME NEW d \in Connections PROVE /\ conn[d] \in HasSocket => fdOf[d].socket # f
                                         /\ conn[d] \in HasDup => fdOf[d].dup # f
  <2>1. Holds(d)
    BY DEF DescriptorInv
  <2> QED BY <1>1, <2>1, LifecycleAssumption DEF Holds
<1> QED BY <1>1, <1>2, <1>3, <1>4

(* A descriptor of c is closed: nobody else knows it.                      *)
Closes(c, f) ==
  f \in Descriptors /\ open[f] = c /\ open' = [open EXCEPT ![f] = "none"]

Unknown(c, f) ==
  /\ open'[f] = "none"
  /\ \A g \in Descriptors : g # f => open'[g] = open[g]
  /\ open' \in [Descriptors -> Connections \cup {"none"}]
  /\ \A d \in Connections \ {c} : conn[d] \in HasSocket => fdOf[d].socket # f
  /\ \A d \in Connections \ {c} : conn[d] \in HasDup => fdOf[d].dup # f

LEMMA Closed ==
  ASSUME DescriptorInv, NEW c \in Connections, NEW f, Closes(c, f) PROVE Unknown(c, f)
<1> USE DEF Closes
<1>1. open \in [Descriptors -> Connections \cup {"none"}]
  BY DEF DescriptorInv, DescriptorTypes
<1>2. open'[f] = "none" /\ \A g \in Descriptors : g # f => open'[g] = open[g]
  BY <1>1
<1>3. open' \in [Descriptors -> Connections \cup {"none"}]
  BY <1>1
<1>4. ASSUME NEW d \in Connections \ {c} PROVE /\ conn[d] \in HasSocket => fdOf[d].socket # f
                                               /\ conn[d] \in HasDup => fdOf[d].dup # f
  <2>1. Holds(d)
    BY DEF DescriptorInv
  <2> QED BY <2>1 DEF Holds
<1> QED BY <1>2, <1>3, <1>4 DEF Unknown

(* The table of one connection changes.                                    *)
LEMMA OthersKeep ==
  ASSUME DescriptorInv, NEW c \in Connections, NEW f, f \in Descriptors \cup {NoFd}
  PROVE  /\ fdOf' = [fdOf EXCEPT ![c].socket = f] =>
              /\ fdOf'[c].socket = f /\ fdOf'[c].dup = fdOf[c].dup
              /\ \A d \in Connections : d # c => fdOf'[d] = fdOf[d]
              /\ fdOf' \in [Connections -> [socket : Descriptors \cup {NoFd}, dup : Descriptors \cup {NoFd}]]
         /\ fdOf' = [fdOf EXCEPT ![c].dup = f] =>
              /\ fdOf'[c].dup = f /\ fdOf'[c].socket = fdOf[c].socket
              /\ \A d \in Connections : d # c => fdOf'[d] = fdOf[d]
              /\ fdOf' \in [Connections -> [socket : Descriptors \cup {NoFd}, dup : Descriptors \cup {NoFd}]]
  BY DEF DescriptorInv, DescriptorTypes

LEMMA StepChanges ==
  ASSUME DescriptorInv, NEW c \in Connections,
         NEW s \in {"peer", "queued", "duplicated", "serving", "cleanup", "closed"},
         conn' = [conn EXCEPT ![c] = s]
  PROVE  /\ conn'[c] = s /\ \A d \in Connections : d # c => conn'[d] = conn[d]
         /\ conn' \in [Connections -> {"peer", "queued", "duplicated", "serving", "cleanup", "closed"}]
  BY DEF DescriptorInv, DescriptorTypes

(* A step of c that redirects one descriptor, f, which nobody else knows.  *)
Redirects(c, f) ==
  /\ f \in Descriptors
  /\ open'[f] \in {c, "none"} /\ \A g \in Descriptors : g # f => open'[g] = open[g]
  /\ \A d \in Connections \ {c} : conn[d] \in HasSocket => fdOf[d].socket # f
  /\ \A d \in Connections \ {c} : conn[d] \in HasDup => fdOf[d].dup # f
  /\ \A d \in Connections : d # c => conn'[d] = conn[d] /\ fdOf'[d] = fdOf[d]
  /\ \A g \in Descriptors : open'[g] = c => g \in {fdOf'[c].socket, fdOf'[c].dup}

(* What it makes of c decides.                                             *)
LEMMA OthersAgree ==
  ASSUME DescriptorInv, NEW c \in Connections, NEW f, Redirects(c, f), Holds(c)'
  PROVE  OpenIsHeld' /\ \A d \in Connections : Holds(d)'
<1> USE DEF Redirects
<1>1. ASSUME NEW d \in Connections, d # c PROVE Holds(d)'
  <2>1. Holds(d) /\ conn'[d] = conn[d] /\ fdOf'[d] = fdOf[d]
    BY <1>1 DEF DescriptorInv
  <2>2. conn[d] \in HasSocket => open'[fdOf[d].socket] = open[fdOf[d].socket]
    BY <1>1, <2>1 DEF Holds
  <2>3. conn[d] \in HasDup => open'[fdOf[d].dup] = open[fdOf[d].dup]
    BY <1>1, <2>1 DEF Holds
  <2> QED BY <2>1, <2>2, <2>3 DEF Holds
<1>2. ASSUME NEW g \in Descriptors, open'[g] # "none"
      PROVE  g \in {fdOf'[open'[g]].socket, fdOf'[open'[g]].dup}
  <2>1. CASE open'[g] = c
    BY <2>1
  <2>2. CASE open'[g] # c
    <3>1. g # f /\ open'[g] = open[g]
      BY <1>2, <2>2
    <3>2. open[g] \in Connections /\ fdOf'[open[g]] = fdOf[open[g]]
      BY <1>2, <2>2, <3>1 DEF DescriptorInv, DescriptorTypes
    <3> QED BY <1>2, <3>1, <3>2 DEF DescriptorInv, OpenIsHeld
  <2> QED BY <2>1, <2>2
<1> QED BY <1>1, <1>2 DEF OpenIsHeld

(* The table of descriptors and the connections agree.                     *)
LEMMA DescriptorNext == DescriptorInv /\ [Next]_vars => DescriptorInv'
<1> SUFFICES ASSUME DescriptorInv, [Next]_vars PROVE DescriptorInv'
  OBVIOUS
<1> USE LifecycleAssumption
<1>1. CASE UNCHANGED connVars
  BY <1>1 DEF connVars, DescriptorInv, DescriptorTypes, OpenIsHeld, Holds
<1>2. \A c \in Connections : Holds(c)
  BY DEF DescriptorInv
<1>3. ASSUME NEW c \in Connections, Accept(c) PROVE DescriptorInv'
  <2>1. PICK f \in Free : open' = [open EXCEPT ![f] = c] /\ fdOf' = [fdOf EXCEPT ![c].socket = f]
    BY <1>3 DEF Accept
  <2>2. conn[c] = "peer" /\ conn' = [conn EXCEPT ![c] = "queued"]
    BY <1>3 DEF Accept
  <2>3. /\ f \in Descriptors /\ open'[f] = c /\ \A g \in Descriptors : g # f => open'[g] = open[g]
        /\ \A d \in Connections : conn[d] \in HasSocket => fdOf[d].socket # f
        /\ \A d \in Connections : conn[d] \in HasDup => fdOf[d].dup # f
    BY <2>1, Opened
  <2>4. /\ fdOf'[c].socket = f /\ fdOf'[c].dup = fdOf[c].dup
        /\ \A d \in Connections : d # c => fdOf'[d] = fdOf[d]
    BY <2>1, <2>3, OthersKeep
  <2>5. conn'[c] = "queued" /\ \A d \in Connections : d # c => conn'[d] = conn[d]
    BY <2>2, StepChanges
  <2>6. DescriptorTypes'
    BY <2>1, <2>2, <2>3, Opened, OthersKeep, StepChanges DEF DescriptorTypes
  <2>7. fdOf[c].socket = NoFd /\ fdOf[c].dup = NoFd /\ Holds(c)'
    BY <1>2, <2>2, <2>3, <2>4, <2>5 DEF Holds, HasSocket, HasDup
  <2>8. ASSUME NEW g \in Descriptors, open'[g] = c PROVE g \in {fdOf'[c].socket, fdOf'[c].dup}
    <3>1. CASE g = f
      BY <2>4, <3>1
    <3>2. CASE g # f
      <4>1. open[g] = c
        BY <2>3, <2>8, <3>2
      <4>2. g \in {fdOf[c].socket, fdOf[c].dup}
        BY <4>1 DEF DescriptorInv, OpenIsHeld
      <4> QED BY <2>7, <4>2 DEF NoFd
    <3> QED BY <3>1, <3>2
  <2>9. Redirects(c, f)
    BY <2>3, <2>4, <2>5, <2>8 DEF Redirects
  <2> QED BY <2>6, <2>7, <2>9, OthersAgree DEF DescriptorInv
<1>4. ASSUME NEW c \in Connections, Duplicate(c) PROVE DescriptorInv'
  <2>1. conn[c] = "queued" /\ fdOf[c].socket \in Descriptors /\ open[fdOf[c].socket] = c /\ fdOf[c].dup = NoFd
    BY <1>2, <1>4 DEF Duplicate, Holds, HasSocket, HasDup
  <2>2. ASSUME NEW f \in Free, open' = [open EXCEPT ![f] = c], fdOf' = [fdOf EXCEPT ![c].dup = f],
               conn' = [conn EXCEPT ![c] = "duplicated"]
        PROVE  DescriptorInv'
    <3>1. /\ f \in Descriptors /\ open'[f] = c /\ \A g \in Descriptors : g # f => open'[g] = open[g]
          /\ \A d \in Connections : conn[d] \in HasSocket => fdOf[d].socket # f
          /\ \A d \in Connections : conn[d] \in HasDup => fdOf[d].dup # f
          /\ fdOf[c].socket # f
      BY <2>1, <2>2, Opened DEF HasSocket
    <3>2. /\ fdOf'[c].dup = f /\ fdOf'[c].socket = fdOf[c].socket
          /\ \A d \in Connections : d # c => fdOf'[d] = fdOf[d]
      BY <2>2, <3>1, OthersKeep
    <3>3. conn'[c] = "duplicated" /\ \A d \in Connections : d # c => conn'[d] = conn[d]
      BY <2>2, StepChanges
    <3>4. DescriptorTypes'
      BY <2>2, <3>1, Opened, OthersKeep, StepChanges DEF DescriptorTypes
    <3>5. Holds(c)'
      <4>1. open'[fdOf[c].socket] = c /\ open'[f] = c
        BY <2>1, <3>1
      <4> QED BY <2>1, <3>1, <3>2, <3>3, <4>1 DEF Holds, HasSocket, HasDup
    <3>6. ASSUME NEW g \in Descriptors, open'[g] = c PROVE g \in {fdOf'[c].socket, fdOf'[c].dup}
      <4>1. CASE g = f
        BY <3>2, <4>1
      <4>2. CASE g # f
        <5>1. open[g] = c
          BY <3>1, <3>6, <4>2
        <5>2. g \in {fdOf[c].socket, fdOf[c].dup}
          BY <5>1 DEF DescriptorInv, OpenIsHeld
        <5>3. g = fdOf'[c].socket
          BY <2>1, <3>2, <5>2, LifecycleAssumption DEF NoFd
        <5> QED BY <5>3
      <4> QED BY <4>1, <4>2
    <3>7. Redirects(c, f)
      BY <3>1, <3>2, <3>3, <3>6 DEF Redirects
    <3> QED BY <3>4, <3>5, <3>7, OthersAgree DEF DescriptorInv
  <2>3. ASSUME open' = [open EXCEPT ![fdOf[c].socket] = "none"],
               fdOf' = [fdOf EXCEPT ![c].socket = NoFd], conn' = [conn EXCEPT ![c] = "closed"]
        PROVE  DescriptorInv'
    <3>1. /\ open'[fdOf[c].socket] = "none"
          /\ \A g \in Descriptors : g # fdOf[c].socket => open'[g] = open[g]
          /\ open' \in [Descriptors -> Connections \cup {"none"}]
          /\ \A d \in Connections \ {c} : conn[d] \in HasSocket => fdOf[d].socket # fdOf[c].socket
          /\ \A d \in Connections \ {c} : conn[d] \in HasDup => fdOf[d].dup # fdOf[c].socket
      <4>1. Closes(c, fdOf[c].socket)
        BY <2>1, <2>3 DEF Closes
      <4>2. Unknown(c, fdOf[c].socket)
        BY <4>1, Closed
      <4> QED BY <4>2 DEF Unknown
    <3>2. /\ fdOf'[c].socket = NoFd /\ fdOf'[c].dup = fdOf[c].dup
          /\ \A d \in Connections : d # c => fdOf'[d] = fdOf[d]
      BY <2>3, OthersKeep
    <3>3. conn'[c] = "closed" /\ \A d \in Connections : d # c => conn'[d] = conn[d]
      BY <2>3, StepChanges
    <3>4. DescriptorTypes'
      BY <2>3, <3>1, OthersKeep, StepChanges DEF DescriptorTypes
    <3>5. Holds(c)'
      BY <2>1, <3>1, <3>2, <3>3 DEF Holds, HasSocket, HasDup
    <3>6. ASSUME NEW g \in Descriptors, open'[g] = c PROVE g \in {fdOf'[c].socket, fdOf'[c].dup}
      <4>1. g # fdOf[c].socket
        BY <3>1, <3>6, LifecycleAssumption
      <4>2. open[g] = c
        BY <3>1, <3>6, <4>1
      <4>3. g \in {fdOf[c].socket, fdOf[c].dup}
        BY <4>2 DEF DescriptorInv, OpenIsHeld
      <4>4. g = fdOf'[c].dup
        BY <3>2, <4>1, <4>3
      <4> QED BY <4>4
    <3>7. Redirects(c, fdOf[c].socket)
      BY <2>1, <3>1, <3>2, <3>3, <3>6 DEF Redirects
    <3> QED BY <3>4, <3>5, <3>7, OthersAgree DEF DescriptorInv
  <2> QED BY <1>4, <2>2, <2>3 DEF Duplicate
<1>5. ASSUME NEW c \in Connections, Track(c) \/ Reconnect(c) PROVE DescriptorInv'
  <2>1. PICK s \in {"serving", "peer"} : conn' = [conn EXCEPT ![c] = s]
    BY <1>5 DEF Track, Reconnect
  <2>2. /\ (conn[c] = "duplicated" /\ s = "serving") \/ (conn[c] = "closed" /\ s = "peer")
        /\ UNCHANGED <<fdOf, open>>
    BY <1>5, <2>1, StepChanges DEF Track, Reconnect
  <2>3. conn'[c] = s /\ \A d \in Connections : d # c => conn'[d] = conn[d]
    BY <2>1, StepChanges
  <2>4. DescriptorTypes' /\ OpenIsHeld'
    BY <2>1, <2>2, StepChanges DEF DescriptorInv, DescriptorTypes, OpenIsHeld
  <2>5. ASSUME NEW d \in Connections PROVE Holds(d)'
    <3>1. CASE d = c
      BY <1>2, <2>2, <2>3, <3>1 DEF Holds, HasSocket, HasDup
    <3>2. CASE d # c
      BY <1>2, <2>2, <2>3, <3>2 DEF Holds
    <3> QED BY <3>1, <3>2
  <2> QED BY <2>4, <2>5 DEF DescriptorInv
<1>6. ASSUME NEW c \in Connections, Finish(c) PROVE DescriptorInv'
  <2>1. /\ conn[c] = "serving" /\ fdOf[c].socket \in Descriptors /\ open[fdOf[c].socket] = c
        /\ fdOf[c].dup \in Descriptors /\ open[fdOf[c].dup] = c /\ fdOf[c].dup # fdOf[c].socket
    BY <1>2, <1>6 DEF Finish, Holds, HasSocket, HasDup
  <2>2. open' = [open EXCEPT ![fdOf[c].socket] = "none"] /\ fdOf' = [fdOf EXCEPT ![c].socket = NoFd]
        /\ conn' = [conn EXCEPT ![c] = "cleanup"]
    BY <1>6 DEF Finish
  <2>3. /\ open'[fdOf[c].socket] = "none"
        /\ \A g \in Descriptors : g # fdOf[c].socket => open'[g] = open[g]
        /\ open' \in [Descriptors -> Connections \cup {"none"}]
        /\ \A d \in Connections \ {c} : conn[d] \in HasSocket => fdOf[d].socket # fdOf[c].socket
        /\ \A d \in Connections \ {c} : conn[d] \in HasDup => fdOf[d].dup # fdOf[c].socket
    <3>1. Closes(c, fdOf[c].socket)
      BY <2>1, <2>2 DEF Closes
    <3>2. Unknown(c, fdOf[c].socket)
      BY <3>1, Closed
    <3> QED BY <3>2 DEF Unknown
  <2>4. /\ fdOf'[c].socket = NoFd /\ fdOf'[c].dup = fdOf[c].dup
        /\ \A d \in Connections : d # c => fdOf'[d] = fdOf[d]
    BY <2>2, OthersKeep
  <2>5. conn'[c] = "cleanup" /\ \A d \in Connections : d # c => conn'[d] = conn[d]
    BY <2>2, StepChanges
  <2>6. DescriptorTypes'
    BY <2>2, <2>3, OthersKeep, StepChanges DEF DescriptorTypes
  <2>7. Holds(c)'
    <3>1. open'[fdOf[c].dup] = c
      BY <2>1, <2>3
    <3> QED BY <2>1, <2>4, <2>5, <3>1 DEF Holds, HasSocket, HasDup
  <2>8. ASSUME NEW g \in Descriptors, open'[g] = c PROVE g \in {fdOf'[c].socket, fdOf'[c].dup}
    <3>1. g # fdOf[c].socket
      BY <2>3, <2>8, LifecycleAssumption
    <3>2. open[g] = c
      BY <2>3, <2>8, <3>1
    <3>3. g \in {fdOf[c].socket, fdOf[c].dup}
      BY <3>2 DEF DescriptorInv, OpenIsHeld
    <3>4. g = fdOf'[c].dup
      BY <2>4, <3>1, <3>3
    <3> QED BY <3>4
  <2>9. Redirects(c, fdOf[c].socket)
    BY <2>1, <2>3, <2>4, <2>5, <2>8 DEF Redirects
  <2> QED BY <2>6, <2>7, <2>9, OthersAgree DEF DescriptorInv
<1>7. ASSUME NEW c \in Connections, Cleanup(c) PROVE DescriptorInv'
  <2>1. /\ conn[c] = "cleanup" /\ fdOf[c].dup \in Descriptors /\ open[fdOf[c].dup] = c
        /\ fdOf[c].socket = NoFd
    BY <1>2, <1>7 DEF Cleanup, Holds, HasSocket, HasDup
  <2>2. open' = [open EXCEPT ![fdOf[c].dup] = "none"] /\ fdOf' = [fdOf EXCEPT ![c].dup = NoFd]
        /\ conn' = [conn EXCEPT ![c] = "closed"]
    BY <1>7 DEF Cleanup
  <2>3. /\ open'[fdOf[c].dup] = "none"
        /\ \A g \in Descriptors : g # fdOf[c].dup => open'[g] = open[g]
        /\ open' \in [Descriptors -> Connections \cup {"none"}]
        /\ \A d \in Connections \ {c} : conn[d] \in HasSocket => fdOf[d].socket # fdOf[c].dup
        /\ \A d \in Connections \ {c} : conn[d] \in HasDup => fdOf[d].dup # fdOf[c].dup
    <3>1. Closes(c, fdOf[c].dup)
      BY <2>1, <2>2 DEF Closes
    <3>2. Unknown(c, fdOf[c].dup)
      BY <3>1, Closed
    <3> QED BY <3>2 DEF Unknown
  <2>4. /\ fdOf'[c].dup = NoFd /\ fdOf'[c].socket = fdOf[c].socket
        /\ \A d \in Connections : d # c => fdOf'[d] = fdOf[d]
    BY <2>2, OthersKeep
  <2>5. conn'[c] = "closed" /\ \A d \in Connections : d # c => conn'[d] = conn[d]
    BY <2>2, StepChanges
  <2>6. DescriptorTypes'
    BY <2>2, <2>3, OthersKeep, StepChanges DEF DescriptorTypes
  <2>7. Holds(c)'
    BY <2>4, <2>1, <2>5 DEF Holds, HasSocket, HasDup
  <2>8. ASSUME NEW g \in Descriptors, open'[g] = c PROVE g \in {fdOf'[c].socket, fdOf'[c].dup}
    <3>1. g # fdOf[c].dup
      BY <2>3, <2>8, LifecycleAssumption
    <3>2. open[g] = c
      BY <2>3, <2>8, <3>1
    <3>3. g \in {fdOf[c].socket, fdOf[c].dup}
      BY <3>2 DEF DescriptorInv, OpenIsHeld
    <3>4. g = fdOf'[c].socket
      BY <2>4, <3>1, <3>3
    <3> QED BY <3>4
  <2>9. Redirects(c, fdOf[c].dup)
    BY <2>1, <2>3, <2>4, <2>5, <2>8 DEF Redirects
  <2> QED BY <2>6, <2>7, <2>9, OthersAgree DEF DescriptorInv
<1> QED BY <1>1, <1>3, <1>4, <1>5, <1>6, <1>7, KindsOfStep, ElsewhereFrame DEF Moves

(* The steps of a connection, and what each does to the set and to shut.   *)
LEMMA MoveChanges ==
  ASSUME DescriptorInv, NEW c \in Connections, Moves(c)
  PROVE  /\ \A d \in Connections : d # c => conn'[d] = conn[d] /\ fdOf'[d] = fdOf[d]
         /\ \/ /\ conn[c] = "peer" /\ conn'[c] = "queued"
               /\ listener = "accept" /\ UNCHANGED <<shut, m_connections>>
            \/ /\ conn[c] = "queued" /\ conn'[c] \in {"duplicated", "closed"}
               /\ shut' \in {shut, shut \cup {c}} /\ UNCHANGED m_connections
            \/ /\ conn[c] = "duplicated" /\ conn'[c] = "serving" /\ lock = "none" /\ UNCHANGED fdOf
               /\ m_connections' = m_connections \cup {fdOf[c].dup}
               /\ shut' = IF m_stopping THEN shut \cup {c} ELSE shut
            \/ /\ conn[c] = "serving" /\ conn'[c] = "cleanup" /\ fdOf'[c].dup = fdOf[c].dup
               /\ UNCHANGED <<shut, m_connections>>
            \/ /\ conn[c] = "cleanup" /\ conn'[c] = "closed" /\ lock = "none" /\ UNCHANGED shut
               /\ m_connections' = m_connections \ {fdOf[c].dup}
            \/ /\ conn[c] = "closed" /\ conn'[c] = "peer" /\ listening
               /\ shut' = shut \ {c} /\ UNCHANGED <<fdOf, m_connections>>
<1> USE DEF cancelVars
<1>1. CASE Accept(c)
  <2>1. PICK f \in Free : fdOf' = [fdOf EXCEPT ![c].socket = f]
    BY <1>1 DEF Accept
  <2>2. conn[c] = "peer" /\ conn' = [conn EXCEPT ![c] = "queued"] /\ listener = "accept"
        /\ UNCHANGED <<shut, m_connections>>
    BY <1>1 DEF Accept
  <2>3. \A d \in Connections : d # c => fdOf'[d] = fdOf[d]
    BY <2>1, OthersKeep DEF Free
  <2> QED BY <2>2, <2>3, StepChanges
<1>2. CASE Duplicate(c)
  <2>1. PICK s \in {"duplicated", "closed"} : conn' = [conn EXCEPT ![c] = s]
    BY <1>2 DEF Duplicate
  <2>2. conn[c] = "queued" /\ shut' \in {shut, shut \cup {c}} /\ UNCHANGED m_connections
    BY <1>2 DEF Duplicate
  <2>3. PICK f \in Descriptors \cup {NoFd} : \/ fdOf' = [fdOf EXCEPT ![c].socket = f]
                                           \/ fdOf' = [fdOf EXCEPT ![c].dup = f]
    BY <1>2 DEF Duplicate, Free
  <2>4. \A d \in Connections : d # c => fdOf'[d] = fdOf[d]
    BY <2>3, OthersKeep
  <2> QED BY <2>1, <2>2, <2>4, StepChanges
<1>3. CASE Track(c)
  BY <1>3, StepChanges DEF Track
<1>4. CASE Finish(c)
  <2>1. conn[c] = "serving" /\ conn' = [conn EXCEPT ![c] = "cleanup"]
        /\ fdOf' = [fdOf EXCEPT ![c].socket = NoFd] /\ UNCHANGED <<shut, m_connections>>
    BY <1>4 DEF Finish
  <2> QED BY <2>1, OthersKeep, StepChanges
<1>5. CASE Cleanup(c)
  <2>1. conn[c] = "cleanup" /\ conn' = [conn EXCEPT ![c] = "closed"] /\ lock = "none"
        /\ fdOf' = [fdOf EXCEPT ![c].dup = NoFd] /\ UNCHANGED shut
        /\ m_connections' = m_connections \ {fdOf[c].dup}
    BY <1>5 DEF Cleanup
  <2> QED BY <2>1, OthersKeep, StepChanges
<1>6. CASE Reconnect(c)
  BY <1>6, StepChanges DEF Reconnect
<1> QED BY <1>1, <1>2, <1>3, <1>4, <1>5, <1>6 DEF Moves

(* The set of tracked duplicates follows the connections.                  *)
LEMMA TrackNext == DescriptorInv /\ TrackInv /\ [Next]_vars => TrackInv'
<1> SUFFICES ASSUME DescriptorInv, TrackInv, [Next]_vars PROVE TrackInv'
  OBVIOUS
<1>1. CASE Elsewhere
  BY <1>1, ElsewhereFrame DEF connVars, TrackInv, Tracked
<1>2. ASSUME NEW c \in Connections, Moves(c) PROVE TrackInv'
  <2>1. \A d \in Connections : d # c => conn'[d] = conn[d] /\ fdOf'[d] = fdOf[d]
    BY <1>2, MoveChanges
  <2>2. CASE conn[c] \notin IsTracked /\ conn'[c] \notin IsTracked /\ UNCHANGED m_connections
    <3>1. Tracked' = Tracked /\ \A d \in Tracked : d # c
      BY <2>1, <2>2 DEF Tracked
    <3> QED BY <2>1, <2>2, <3>1 DEF TrackInv, Tracked
  <2>3. CASE conn[c] = "duplicated" /\ conn'[c] = "serving" /\ UNCHANGED fdOf
             /\ m_connections' = m_connections \cup {fdOf[c].dup}
    <3>1. Tracked' = Tracked \cup {c}
      BY <2>1, <2>3 DEF Tracked, IsTracked
    <3> QED BY <2>3, <3>1 DEF TrackInv
  <2>4. CASE conn[c] = "serving" /\ conn'[c] = "cleanup" /\ fdOf'[c].dup = fdOf[c].dup
             /\ UNCHANGED m_connections
    <3>1. Tracked' = Tracked
      BY <2>1, <2>4 DEF Tracked, IsTracked
    <3>2. \A d \in Tracked : fdOf'[d].dup = fdOf[d].dup
      BY <2>1, <2>4 DEF Tracked
    <3> QED BY <2>4, <3>1, <3>2 DEF TrackInv
  <2>5. CASE conn[c] = "cleanup" /\ conn'[c] = "closed" /\ m_connections' = m_connections \ {fdOf[c].dup}
    <3>1. Tracked' = Tracked \ {c}
      BY <2>1, <2>5 DEF Tracked, IsTracked
    <3>2. \A d \in Tracked \ {c} : fdOf'[d].dup = fdOf[d].dup /\ fdOf[d].dup # fdOf[c].dup
      <4>1. \A d \in Tracked : open[fdOf[d].dup] = d
        BY DEF DescriptorInv, Holds, Tracked, IsTracked, HasDup
      <4> QED BY <2>1, <2>5, <4>1 DEF Tracked, IsTracked
    <3>3. {fdOf'[d].dup : d \in Tracked \ {c}} = {fdOf[d].dup : d \in Tracked} \ {fdOf[c].dup}
      BY <3>2
    <3> QED BY <2>5, <3>1, <3>3 DEF TrackInv
  <2> QED BY <1>2, <2>2, <2>3, <2>4, <2>5, MoveChanges DEF IsTracked
<1> QED BY <1>1, <1>2, KindsOfStep

(* A tracked number is the open duplicate of its connection.               *)
LEMMA TrackedAreOwn == DescriptorInv /\ TrackInv => TrackedIsOwn /\ m_connections \subseteq Descriptors
  BY DEF DescriptorInv, TrackInv, TrackedIsOwn, Tracked, Holds, IsTracked, HasDup

(* Main and the listener.                                                  *)
LEMMA ListenerNext == DescriptorInv /\ ListenerInv /\ [Next]_vars => ListenerInv'
<1> SUFFICES ASSUME DescriptorInv, ListenerInv, [Next]_vars PROVE ListenerInv'
  OBVIOUS
<1>1. CASE Elsewhere
  <2>1. UNCHANGED conn
    BY <1>1, ElsewhereFrame DEF connVars
  <2> USE DEF ListenerInv, Before, Stopping, httpVars, mainVars
  <2>2. CASE Signal
    BY <2>1, <2>2 DEF Signal
  <2>3. CASE Boot
    BY <2>1, <2>3 DEF Boot, Stage
  <2>4. CASE StartServer
    <3>1. main = "start" /\ UNCHANGED shutdownRequested
      BY <2>4 DEF StartServer
    <3>2. CASE main' = "started" /\ m_running' = TRUE /\ listening' = TRUE /\ listener' = "accept"
      BY <2>1, <3>1, <3>2
    <3>3. CASE main' = "done" /\ UNCHANGED <<listener, listening, m_running>>
      BY <2>1, <3>1, <3>3
    <3> QED BY <2>4, <3>2, <3>3 DEF StartServer
  <2>5. CASE StartReturns \/ MainLoop
    <3>1. /\ main \in {"started", "serve"} /\ main' \in {"serve", "halt"}
          /\ UNCHANGED <<shutdownRequested, listener, listening, m_running>>
      BY <2>5 DEF StartReturns, MainLoop
    <3> QED BY <2>1, <3>1
  <2>10. CASE StopListening
    <3>1. /\ main = "halt" /\ main' = "cancel" /\ ~m_running' /\ ~listening'
          /\ m_running' \in BOOLEAN /\ listening' \in BOOLEAN
          /\ UNCHANGED <<shutdownRequested, listener>>
      BY <2>10 DEF StopListening
    <3> QED BY <2>1, <3>1
  <2>6. CASE CancelLock \/ CancelOne \/ CancelUnlock \/ JoinListener
    BY <2>1, <2>6 DEF CancelLock, CancelOne, CancelUnlock, JoinListener
  <2>7. CASE LeaveAccept
    <3>1. /\ listener = "accept" /\ listener' = "drain" /\ ~listening
          /\ UNCHANGED <<main, shutdownRequested, m_running, listening>>
      BY <2>7 DEF LeaveAccept
    <3> QED BY <2>1, <3>1
  <2>11. CASE AcceptFails
    <3>1. /\ listener = "accept" /\ listener' = "drain" /\ listening' = FALSE
          /\ UNCHANGED <<main, shutdownRequested, m_running>>
      BY <2>11 DEF AcceptFails
    <3> QED BY <2>1, <3>1
  <2>8. CASE EndListener
    BY <2>1, <2>8 DEF EndListener
  <2>9. CASE UNCHANGED vars
    BY <2>9 DEF vars, connVars
  <2> QED BY <1>1, <2>2, <2>3, <2>4, <2>5, <2>6, <2>7, <2>8, <2>9, <2>10, <2>11
      DEF Elsewhere, MainSteps
<1>2. ASSUME NEW c \in Connections, Moves(c) PROVE ListenerInv'
  <2>1. UNCHANGED <<main, shutdownRequested, m_running, listener, listening>>
    BY <1>2, MovesFrame DEF mainVars, httpVars
  <2>2. ASSUME listener \in {"none", "ended"}, NEW d \in Connections PROVE conn'[d] \in {"peer", "closed"}
    <3>1. ~listening /\ conn[d] \in {"peer", "closed"} /\ conn[c] \in {"peer", "closed"}
      BY <2>2 DEF ListenerInv
    <3> QED BY <1>2, <2>2, <3>1, MoveChanges
  <2> QED BY <2>1, <2>2 DEF ListenerInv
<1> QED BY <1>1, <1>2, KindsOfStep

(* The cancellation.                                                       *)
LEMMA CancelNext ==
  DescriptorInv /\ TrackInv /\ CancelInv /\ ListenerInv /\ [Next]_vars => CancelInv'
<1> SUFFICES ASSUME DescriptorInv, TrackInv, CancelInv, ListenerInv, [Next]_vars PROVE CancelInv'
  OBVIOUS
<1>1. CASE Elsewhere
  <2>1. UNCHANGED <<conn, fdOf, open, m_connections>>
    BY <1>1, ElsewhereFrame DEF connVars
  <2> USE DEF CancelInv, CancelReachesAll, httpVars, mainVars, cancelVars
  <2>2. CASE Signal
    BY <2>1, <2>2 DEF Signal
  <2>3. CASE Boot
    BY <2>1, <2>3 DEF Boot, Stage, ListenerInv, Before
  <2>4. CASE StartServer
    BY <2>1, <2>4 DEF StartServer, ListenerInv, Before
  <2>5. CASE StartReturns \/ MainLoop \/ StopListening
    BY <2>1, <2>5 DEF StartReturns, MainLoop, StopListening
  <2>6. CASE CancelLock
    <3>1. \A c \in Connections : conn[c] = "serving" => fdOf[c].dup \in m_connections
      BY DEF TrackInv, Tracked, IsTracked
    <3> QED BY <2>1, <2>6, <3>1 DEF CancelLock
  <2>7. CASE CancelOne
    <3>1. PICK f \in todo : todo' = todo \ {f} /\ shut' = shut \cup ({open[f]} \ {"none"})
      BY <2>7 DEF CancelOne
    <3>2. UNCHANGED <<main, lock, m_stopping>> /\ main = "cancelling"
      BY <2>7 DEF CancelOne
    <3>3. f \in m_connections /\ open[f] \in Connections
      BY <3>1, TrackedAreOwn DEF TrackedIsOwn
    <3>4. ASSUME NEW c \in Connections, conn[c] = "serving", c \notin shut' PROVE fdOf[c].dup \in todo'
      <4>1. fdOf[c].dup \in todo
        BY <3>1, <3>2, <3>4
      <4>2. open[fdOf[c].dup] = c
        BY <3>4 DEF DescriptorInv, Holds, HasDup
      <4>3. open[f] # c
        BY <3>1, <3>3, <3>4, LifecycleAssumption
      <4> QED BY <3>1, <4>1, <4>2, <4>3
    <3> QED BY <2>1, <3>1, <3>2, <3>3, <3>4
  <2>8. CASE CancelUnlock \/ JoinListener
    BY <2>1, <2>8 DEF CancelUnlock, JoinListener
  <2>9. CASE LeaveAccept \/ AcceptFails \/ EndListener
    BY <2>1, <2>9 DEF LeaveAccept, AcceptFails, EndListener
  <2>10. CASE UNCHANGED vars
    BY <2>1, <2>10 DEF vars
  <2> QED BY <1>1, <2>2, <2>3, <2>4, <2>5, <2>6, <2>7, <2>8, <2>9, <2>10 DEF Elsewhere, MainSteps
<1>2. ASSUME NEW c \in Connections, Moves(c) PROVE CancelInv'
  <2>1. UNCHANGED <<main, m_stopping, lock, todo>>
    BY <1>2, MovesFrame DEF mainVars
  <2>2. \A d \in Connections : d # c => conn'[d] = conn[d] /\ fdOf'[d] = fdOf[d]
    BY <1>2, MoveChanges
  <2>3. shut' \subseteq Connections
    BY <1>2, MoveChanges DEF CancelInv
  <2>4. todo' \subseteq m_connections'
    BY <1>2, <2>1, MoveChanges DEF CancelInv
  <2>5. ASSUME main = "cancelling", NEW d \in Connections, conn'[d] = "serving", d \notin shut'
        PROVE  fdOf'[d].dup \in todo
    <3>1. lock = "main"
      BY <2>5 DEF CancelInv
    <3>2. d # c
      BY <1>2, <2>5, <3>1, MoveChanges
    <3>3. conn[d] = "serving" /\ d \notin shut /\ fdOf'[d] = fdOf[d]
      BY <1>2, <2>2, <2>5, <3>2, MoveChanges
    <3> QED BY <2>5, <3>3 DEF CancelInv
  <2>6. ASSUME main \in {"join", "done"}, NEW d \in Connections, conn'[d] = "serving" PROVE d \in shut'
    <3>1. CASE d = c
      <4>1. conn[c] = "duplicated" /\ shut' = IF m_stopping THEN shut \cup {c} ELSE shut
        BY <1>2, <2>6, <3>1, MoveChanges
      <4>2. main = "join"
        BY <2>6, <4>1 DEF ListenerInv
      <4> QED BY <3>1, <4>1, <4>2 DEF CancelInv
    <3>2. CASE d # c
      <4>1. d \in shut
        BY <2>2, <2>6, <3>2 DEF CancelInv, CancelReachesAll
      <4> QED BY <1>2, <3>2, <4>1, MoveChanges
    <3> QED BY <3>1, <3>2
  <2> QED BY <2>1, <2>3, <2>4, <2>5, <2>6 DEF CancelInv, CancelReachesAll
<1> QED BY <1>1, <1>2, KindsOfStep

LEMMA LifecycleStarts == Init => LifecycleInv
<1> SUFFICES ASSUME Init PROVE LifecycleInv
  OBVIOUS
<1> USE DEF Init
<1>1. DescriptorInv
  BY DEF DescriptorInv, DescriptorTypes, OpenIsHeld, Holds, HasSocket, HasDup, NoFd
<1>2. TrackInv
  BY DEF TrackInv, Tracked, IsTracked
<1>3. CancelInv /\ ListenerInv
  BY DEF CancelInv, CancelReachesAll, ListenerInv, Before, Stopping
<1> QED BY <1>1, <1>2, <1>3 DEF LifecycleInv

LEMMA LifecycleNext == LifecycleInv /\ [Next]_vars => LifecycleInv'
  BY DescriptorNext, TrackNext, CancelNext, ListenerNext DEF LifecycleInv

LEMMA LifecycleAlways == Spec => []LifecycleInv
  BY LifecycleStarts, LifecycleNext, PTL DEF Spec

(* Every value of every variable stays in its type, and an open descriptor *)
(* is known to the connection it refers to.                                *)
THEOREM TypeCorrect == Spec => []TypeOK
<1>1. LifecycleInv => TypeOK
  BY TrackedAreOwn
  DEF LifecycleInv, DescriptorInv, DescriptorTypes, OpenIsHeld, CancelInv, ListenerInv, Before,
      Stopping, TypeOK
<1> QED BY <1>1, LifecycleAlways, PTL

(* cancel_connections shuts the connections of this server only, although  *)
(* numbers of closed descriptors are given out again.                      *)
THEOREM OnlyOwnAreTracked == Spec => []TrackedIsOwn
<1>1. LifecycleInv => TrackedIsOwn
  BY TrackedAreOwn DEF LifecycleInv
<1> QED BY <1>1, LifecycleAlways, PTL

(* After cancel_connections no request is served on a socket that it or    *)
(* the worker itself has not shut.                                         *)
THEOREM CancelIsComplete == Spec => []CancelReachesAll
<1>1. LifecycleInv => CancelReachesAll
  BY DEF LifecycleInv, CancelInv
<1> QED BY <1>1, LifecycleAlways, PTL

(* stop() leaves no thread, no listener socket and no descriptor.          *)
THEOREM NothingLeftOpen == Spec => []StopReleasesDescriptors
<1>1. LifecycleInv => StopReleasesDescriptors
  <2> SUFFICES ASSUME LifecycleInv, main = "done"
               PROVE  /\ listener \in {"none", "ended"} /\ ~listening
                      /\ \A f \in Descriptors : open[f] = "none"
    BY DEF StopReleasesDescriptors
  <2>1. listener \in {"none", "ended"} /\ ~listening
        /\ \A c \in Connections : conn[c] \in {"peer", "closed"}
    BY DEF LifecycleInv, ListenerInv
  <2>2. ASSUME NEW f \in Descriptors, open[f] # "none" PROVE FALSE
    <3>1. open[f] \in Connections /\ f \in {fdOf[open[f]].socket, fdOf[open[f]].dup}
      BY <2>2 DEF LifecycleInv, DescriptorInv, DescriptorTypes, OpenIsHeld
    <3>2. fdOf[open[f]].socket = NoFd /\ fdOf[open[f]].dup = NoFd
      BY <2>1, <3>1 DEF LifecycleInv, DescriptorInv, Holds, HasSocket, HasDup
    <3> QED BY <3>1, <3>2, LifecycleAssumption DEF NoFd
  <2> QED BY <2>1, <2>2
<1> QED BY <1>1, LifecycleAlways, PTL
===============================================================================
