------------------------------ MODULE AudioGraph ------------------------------
(***************************************************************************)
(* What the audio worker computes: rebuild_graph (node widths, valid       *)
(* routes, Kahn's order, handlers) and process_audio (one block through    *)
(* that order), while control threads change the routes, the devices and a *)
(* client session.                                                         *)
(*                                                                         *)
(* A sample is represented by where it came from: the set of <<node,       *)
(* channel, block>> whose input was mixed into it.  Gains and route DSP    *)
(* change samples, not their origin.  The revision protocol that makes the *)
(* worker rebuild is in Adoption; here it is the flag "dirty".             *)
(***************************************************************************)
EXTENDS Integers, Sequences, FiniteSets, FiniteSetsExt

CONSTANTS Nodes,       \* NodeIds; 0 is the tone generator
          MaxChannels, \* CM5_MAX_CHANNELS
          RouteLists,  \* the route lists that control may have published
          ChangedLists,\* bound: the lists that are changed, and changed to
          Endpoint,    \* what each node but the tone stands for
          MaxChanges,  \* bound: changes by control threads
          MaxBlocks    \* bound: audio blocks

Tone     == 0
Channels == 0..MaxChannels - 1
Owners   == {"hardware", "client"}

Hardware == {n \in Nodes \ {Tone} : Endpoint[n].owner = "hardware"}

ASSUME GraphAssumption ==
  /\ Tone \in Nodes /\ Nodes \subseteq Nat /\ IsFiniteSet(Nodes)
  /\ MaxChannels \in Nat \ {0} /\ MaxChanges \in Nat /\ MaxBlocks \in Nat
  /\ ChangedLists \subseteq RouteLists
  /\ \A list \in RouteLists :
       IsFiniteSet(list) /\ list \subseteq [src : Int, sch : Nat, dst : Int, dch : Nat, on : BOOLEAN]
  /\ Endpoint \in [Nodes \ {Tone} -> [owner : Owners, direction : {-1, 1}, channels : Nat \ {0}]]

VARIABLES
  routes, open, listed, media_ready,   \* published: routes, open devices, the session
  unmarked, dirty,   \* a change whose mark_graph_dirty is still to come; m_graphDirty
  changes, block,    \* counters for the bounds
  pc,                \* the worker's step
  snap,              \* rebuild_graph's snapshots
  width, direction,  \* m_nodeWidths and rebuild_graph's directions
  inDegree, queue, sorted,             \* Kahn's algorithm
  order, handlers, current,            \* m_executionOrder, m_nodeHandlers, m_adjList
  buf, feedback,     \* m_nodeBuffers, m_feedbackBuffers
  todo, played       \* the rest of the block; what the endpoints were given

control == <<routes, open, listed, media_ready, unmarked, changes>>
kahn    == <<inDegree, queue, sorted>>
graph   == <<order, handlers, current>>
audio   == <<buf, feedback, todo, played>>
vars == <<control, dirty, block, pc, snap, width, direction, kahn, graph, audio>>

Silence == [c \in Channels |-> {}]
Nothing == [n \in Nodes |-> <<>>]   \* nothing was written to an endpoint
Unbound == [kind |-> "none", channels |-> 0]

-------------------------------------------------------------------------------
(* rebuild_graph's definitions, for a route list, open devices and whether *)
(* the session is seen as ready.                                           *)

Bound(n, devices, ready) ==
  /\ n # Tone
  /\ \/ Endpoint[n].owner = "hardware" /\ n \in devices
     \/ Endpoint[n].owner = "client" /\ ready

Direction(n, devices, ready) ==
  IF n = Tone THEN 1 ELSE IF Bound(n, devices, ready) THEN Endpoint[n].direction ELSE 0

(* A real endpoint's width is its own; an offline node is as wide as the   *)
(* enabled routes at it need.                                              *)
Width(n, list, devices, ready) ==
  IF n = Tone THEN 1
  ELSE IF Bound(n, devices, ready) THEN Min({Endpoint[n].channels, MaxChannels})
  ELSE Max({0} \cup {r.sch + 1 : r \in {q \in list : q.on /\ q.src = n /\ q.sch < MaxChannels}}
               \cup {r.dch + 1 : r \in {q \in list : q.on /\ q.dst = n /\ q.dch < MaxChannels}})

ValidRoute(r, w, d) ==
  /\ r.on
  /\ {r.src, r.dst} \subseteq Nodes
  /\ d[r.src] # -1 /\ d[r.dst] # 1
  /\ r.sch < w[r.src] /\ r.dch < w[r.dst]

Handler(n, w, devices, ready) ==
  IF w[n] = 0 THEN Unbound
  ELSE IF n = Tone THEN [kind |-> "source", channels |-> 1]
  ELSE IF Bound(n, devices, ready)
    THEN [kind |-> IF Endpoint[n].direction = 1 THEN "source" ELSE "playback",
          channels |-> Min({Endpoint[n].channels, MaxChannels})]
  ELSE [kind |-> "virtual", channels |-> w[n]]

-------------------------------------------------------------------------------
Init ==
  /\ routes \in RouteLists /\ open \in SUBSET Hardware /\ listed = TRUE /\ media_ready = FALSE
  /\ unmarked = FALSE /\ dirty = TRUE /\ changes = 0 /\ block = 0
  /\ pc = "idle"
  /\ snap = [routes |-> {}, open |-> {}, listed |-> FALSE]
  /\ width = [n \in Nodes |-> 0] /\ direction = [n \in Nodes |-> 0]
  /\ inDegree = [n \in Nodes |-> 0] /\ queue = {} /\ sorted = <<>>
  /\ order = <<>> /\ handlers = [n \in Nodes |-> Unbound] /\ current = {}
  /\ buf = [n \in Nodes |-> Silence] /\ feedback = [n \in Nodes |-> Silence]
  /\ todo = <<>> /\ played = Nothing

(* Control threads.  A holder of the control mutex publishes one change    *)
(* and marks the graph afterwards; a Close takes the session out of the    *)
(* list and marks the graph in one critical section.                       *)
Publish ==
  /\ ~unmarked /\ changes < MaxChanges /\ routes \in ChangedLists
  /\ unmarked' = TRUE /\ changes' = changes + 1
  /\ \/ routes' \in ChangedLists /\ UNCHANGED <<open, media_ready>>
     \/ \E n \in Hardware :
          /\ open' = (open \ {n}) \cup ({n} \ open)
          /\ UNCHANGED <<routes, media_ready>>
     \/ listed /\ ~media_ready /\ media_ready' = TRUE /\ UNCHANGED <<routes, open>>
  /\ UNCHANGED <<listed, dirty, block, pc, snap, width, direction, kahn, graph, audio>>

Mark ==
  /\ unmarked /\ unmarked' = FALSE
  /\ dirty' = TRUE
  /\ UNCHANGED <<routes, open, listed, media_ready, changes, block, pc, snap, width, direction,
                 kahn, graph, audio>>

Close ==
  /\ listed /\ listed' = FALSE
  /\ dirty' = TRUE
  /\ UNCHANGED <<routes, open, media_ready, unmarked, changes, block, pc, snap, width, direction,
                 kahn, graph, audio>>

-------------------------------------------------------------------------------
(* rebuild_graph.                                                          *)

SeesReady == snap.listed /\ media_ready   \* one of its three reads of media_ready

BlockEntry ==
  /\ pc = "idle" /\ block < MaxBlocks
  /\ pc' = IF dirty THEN "widths" ELSE "clear"
  /\ dirty' = FALSE
  /\ block' = block + 1
  /\ UNCHANGED <<control, snap, width, direction, kahn, graph, audio>>

SnapshotAndWidths ==
  /\ pc = "widths" /\ pc' = "edges"
  /\ snap' = [routes |-> routes, open |-> open, listed |-> listed]
  /\ LET ready == listed /\ media_ready IN
       /\ width' = [n \in Nodes |-> Width(n, routes, open, ready)]
       /\ direction' = [n \in Nodes |-> Direction(n, open, ready)]
  /\ UNCHANGED <<control, dirty, block, kahn, graph, audio>>

Valid == {r \in snap.routes : ValidRoute(r, width, direction)}

(* Mutant: only nodes with routes are executed.                            *)
ActiveNodesRoutedOnly ==
  {Tone} \cup {r.src : r \in Valid} \cup {r.dst : r \in Valid}

ActiveNodes ==
  {Tone} \cup {r.src : r \in Valid} \cup {r.dst : r \in Valid}
         \cup {n \in Nodes : width[n] > 0 /\ Bound(n, snap.open, SeesReady)}

(* Mutant: disabled and invalid routes count.                              *)
EdgesOfAll ==
  /\ pc = "edges" /\ pc' = "sort"
  /\ inDegree' = [n \in Nodes |-> Cardinality({r \in snap.routes : r.dst = n})]
  /\ queue' = {n \in ActiveNodes : inDegree'[n] = 0}
  /\ sorted' = <<>>
  /\ UNCHANGED <<control, dirty, block, snap, width, direction, graph, audio>>

Edges ==
  /\ pc = "edges" /\ pc' = "sort"
  /\ inDegree' = [n \in Nodes |-> Cardinality({r \in Valid : r.dst = n})]
  /\ queue' = {n \in ActiveNodes : inDegree'[n] = 0}
  /\ sorted' = <<>>
  /\ UNCHANGED <<control, dirty, block, snap, width, direction, graph, audio>>

(* The lowest NodeId is popped; each of its routes releases its destination*)
KahnPop ==
  /\ pc = "sort" /\ queue # {}
  /\ LET u == Min(queue) IN
       /\ sorted' = Append(sorted, u)
       /\ inDegree' = [n \in Nodes |->
                         inDegree[n] - Cardinality({r \in Valid : r.src = u /\ r.dst = n})]
       /\ queue' = (queue \ {u}) \cup {n \in Nodes : inDegree[n] > 0 /\ inDegree'[n] = 0}
  /\ UNCHANGED <<control, dirty, block, pc, snap, width, direction, graph, audio>>

InOrder(n) == \E i \in 1..Len(order) : order[i] = n

(* Mutant: the rebuild ends by clearing the dirty flag.                    *)
BindClearsDirty ==
  /\ pc = "sort" /\ queue = {} /\ pc' = "clear"
  /\ order' = sorted /\ dirty' = FALSE
  /\ handlers' = [n \in Nodes |-> IF InOrder(n)' THEN Handler(n, width, snap.open, SeesReady)
                                                ELSE Unbound]
  /\ current' = Valid
  /\ UNCHANGED <<control, block, snap, width, direction, kahn, audio>>

Bind ==
  /\ pc = "sort" /\ queue = {} /\ pc' = "clear"
  /\ order' = sorted
  /\ handlers' = [n \in Nodes |-> IF InOrder(n)' THEN Handler(n, width, snap.open, SeesReady)
                                                ELSE Unbound]
  /\ current' = Valid
  /\ buf' = [n \in Nodes |-> IF InOrder(n)' THEN Silence ELSE buf[n]]
  /\ feedback' = [n \in Nodes |-> IF InOrder(n)' THEN Silence ELSE feedback[n]]
  /\ UNCHANGED <<control, dirty, block, snap, width, direction, kahn, todo, played>>

-------------------------------------------------------------------------------
(* process_audio.                                                          *)

(* Mutant: the buffers keep the last block.                                *)
ClearNothing ==
  /\ pc = "clear" /\ pc' = "process"
  /\ todo' = order /\ played' = Nothing
  /\ UNCHANGED <<control, dirty, block, snap, width, direction, kahn, graph, buf, feedback>>

Clear ==
  /\ pc = "clear" /\ pc' = "process"
  /\ buf' = [n \in Nodes |-> IF InOrder(n) THEN Silence ELSE buf[n]]
  /\ todo' = order /\ played' = Nothing
  /\ UNCHANGED <<control, dirty, block, snap, width, direction, kahn, graph, feedback>>

Position(n) == IF InOrder(n) THEN CHOOSE i \in 1..Len(order) : order[i] = n ELSE -1

IsFeedback(r) == /\ Position(r.src) # -1 /\ Position(r.dst) # -1
                 /\ Position(r.src) >= Position(r.dst)

(* An endpoint takes part only if its handler and the graph agree on its   *)
(* width: the check that makes a torn rebuild harmless.                    *)
Agrees(n) == handlers[n].channels > 0 /\ handlers[n].channels = width[n]

Input(n) ==
  [c \in Channels |-> IF handlers[n].kind = "source" /\ Agrees(n) /\ c < width[n]
                        THEN buf[n][c] \cup {<<n, c, block>>} ELSE buf[n][c]]

(* What the routes of n add to channel c of node m.                        *)
Mixed(n, input, m, c) ==
  UNION {IF IsFeedback(r) THEN feedback[n][r.sch] ELSE input[r.sch] :
           r \in {q \in current : q.src = n /\ q.dst = m /\ q.dch = c
                                  /\ q.sch < width[n] /\ c < width[m]}}

ProcessNode ==
  /\ pc = "process" /\ todo # <<>>
  /\ LET n     == Head(todo)
         input == Input(n)
         own   == [c \in Channels |-> input[c] \cup Mixed(n, input, n, c)] IN
       /\ handlers[n].kind # "none"
       /\ buf' = [m \in Nodes |-> IF m = n THEN own
                    ELSE [c \in Channels |-> buf[m][c] \cup Mixed(n, input, m, c)]]
       /\ played' = IF handlers[n].kind = "playback" /\ Agrees(n)
                      THEN [played EXCEPT ![n] = Append(@, own)] ELSE played
  /\ todo' = Tail(todo)
  /\ UNCHANGED <<control, dirty, block, pc, snap, width, direction, kahn, graph, feedback>>

(* The feedback banks of the executed nodes are swapped.                   *)
EndBlock ==
  /\ pc = "process" /\ todo = <<>> /\ pc' = "idle"
  /\ feedback' = [n \in Nodes |-> IF InOrder(n) THEN buf[n] ELSE feedback[n]]
  /\ UNCHANGED <<control, dirty, block, snap, width, direction, kahn, graph, buf, todo, played>>

Worker == \/ BlockEntry \/ SnapshotAndWidths \/ Edges \/ KahnPop \/ Bind
          \/ Clear \/ ProcessNode \/ EndBlock

Next == Publish \/ Mark \/ Close \/ Worker

Spec == Init /\ [][Next]_vars
-------------------------------------------------------------------------------
(* Reference definitions over the routes of the graph in use.              *)

(* The jacks from which routes, of any number, lead to one of S: the least *)
(* set that has the sources of S and its own.                              *)
Jacks      == {<<r.src, r.sch>> : r \in current}
Sources(S) == {<<r.src, r.sch>> : r \in {q \in current : <<q.dst, q.dch>> \in S}}
Reaching(S) ==
  LET closed == {T \in SUBSET Jacks : Sources(S) \subseteq T /\ Sources(T) \subseteq T} IN
    {j \in Jacks : \A T \in closed : j \in T}

(* Likewise the nodes from which routes lead to n.                         *)
Senders    == {r.src : r \in current}
Feeders(S) == {r.src : r \in {q \in current : q.dst \in S}}
Ancestors(n) ==
  LET closed == {T \in SUBSET Senders : Feeders({n}) \subseteq T /\ Feeders(T) \subseteq T} IN
    {m \in Senders : \A T \in closed : m \in T}

(* On a cycle of routes, or behind one.                                    *)
Cyclic(n) == \E m \in Ancestors(n) \cup {n} : m \in Ancestors(m)

(* The inputs that reach a channel of a node through the routes.           *)
Heard(n, c) ==
  {<<j[1], j[2], block>> : j \in {i \in Reaching({<<n, c>>}) :
     handlers[i[1]].kind = "source" /\ Agrees(i[1]) /\ i[2] < width[i[1]]}}

Built == pc \in {"clear", "process"} \/ (pc = "idle" /\ block > 0)
Ended == pc = "process" /\ todo = <<>>

-------------------------------------------------------------------------------
(* Types; every node of the execution order occurs once and has a handler. *)
TypeOK ==
  /\ routes \in RouteLists /\ open \subseteq Nodes
  /\ listed \in BOOLEAN /\ media_ready \in BOOLEAN /\ unmarked \in BOOLEAN /\ dirty \in BOOLEAN
  /\ pc \in {"idle", "widths", "edges", "sort", "clear", "process"}
  /\ width \in [Nodes -> 0..MaxChannels] /\ direction \in [Nodes -> -1..1]
  /\ inDegree \in [Nodes -> Nat] /\ queue \subseteq Nodes
  /\ \A i, j \in 1..Len(order) : i # j => order[i] # order[j]
  /\ Built => \A i \in 1..Len(order) : handlers[order[i]].kind # "none"

(* Kahn's order is exactly the active nodes that are not on or behind a    *)
(* cycle, each after everything that feeds it: disabled and invalid routes *)
(* neither order nor block anything, and the feedback buffers are never    *)
(* read.                                                                   *)
OrderIsTopological ==
  Built => /\ \A r \in current : InOrder(r.dst) => Position(r.src) \in 1..Position(r.dst) - 1
           /\ \A r \in current : ~Cyclic(r.dst) => InOrder(r.src) /\ InOrder(r.dst)
           /\ \A n \in Nodes : InOrder(n) => ~Cyclic(n)

(* At the end of a block every playback endpoint has been given, on each   *)
(* channel, exactly the inputs of this block that reach it through valid   *)
(* routes of any length: nothing is lost, nothing is a block late, nothing *)
(* of an earlier block or of a cycle is left in a buffer.                  *)
BlockHearsRoutes ==
  Ended => \A n \in Nodes : played[n] # <<>> =>
             \A c \in Channels : c < width[n] => played[n][1][c] = Heard(n, c)

(* Every open playback endpoint is fed exactly once per block, with        *)
(* silence if nothing is routed to it, unless it is behind a cycle.        *)
EndpointsServed ==
  Ended => \A n \in Nodes :
    /\ Len(played[n]) <= 1
    /\ direction[n] = -1 /\ ~Cyclic(n) => Len(played[n]) = 1

(* Between blocks, once every change has been marked and no rebuild is     *)
(* due, the graph is the one that the published configuration asks for:    *)
(* a rebuild torn by a session that became ready in the middle of it is    *)
(* always followed by another.                                             *)
SettledGraphIsCurrent ==
  pc = "idle" /\ ~dirty /\ ~unmarked =>
    LET ready == listed /\ media_ready
        w == [n \in Nodes |-> Width(n, routes, open, ready)]
        d == [n \in Nodes |-> Direction(n, open, ready)] IN
    /\ width = w /\ direction = d
    /\ current = {r \in routes : ValidRoute(r, w, d)}
    /\ \A n \in Nodes : InOrder(n) => handlers[n] = Handler(n, w, open, ready)
===============================================================================
