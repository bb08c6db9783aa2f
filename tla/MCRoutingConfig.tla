--------------------------- MODULE MCRoutingConfig ---------------------------
(***************************************************************************)
(* An instance of RoutingConfig, by scenarios.  In the first, routes,      *)
(* DSP and restarts on the endpoint of a saved route whose client stays    *)
(* away; the ids outgrow the DSP slots and then run out.  In the second, a *)
(* device and a client against a node table that cannot hold both pairs,   *)
(* with one route and no DSP.  In the third, the tone and the global DSP.  *)
(***************************************************************************)
EXTENDS RoutingConfig

SavedRouteWith(form, id) ==
  [form |-> form, id |-> id, source |-> Tone,
   destination |-> <<CHOOSE k \in Keys : TRUE, "playback">>, level |-> 0,
   dsp |-> [set |-> TRUE, active |-> TRUE, chain |-> CHOOSE c \in Chains : c # Empty]]

SavedWith(fault, saved) ==
  [fault |-> fault, global |-> 0, tone |-> 0, devices |-> <<>>, streams |-> [d \in Devices |-> 0],
   clients |-> Keys, routes |-> saved]

(* An ordinary file; one of a build with more DSP slots, and with routes   *)
(* to skip.                                                                *)
SavedBefore ==
  {SavedWith("none", <<SavedRouteWith("valid", 1)>>),
   SavedWith("none", <<SavedRouteWith("range", 1), SavedRouteWith("valid", DspCapacity),
                       SavedRouteWith("id", 1)>>)}

(* Files with a value that cannot be converted.                            *)
Malformed ==
  {SavedWith("head", <<SavedRouteWith("valid", 1)>>),
   [SavedWith("head", <<>>) EXCEPT !.global = 1],
   SavedWith("clients", <<SavedRouteWith("valid", 1)>>),
   SavedWith("none", <<SavedRouteWith("valid", 1), SavedRouteWith("type", 2)>>)}

ForeignFiles == SavedBefore \cup Malformed

Silent == tone = 0 /\ global = 0 /\ file.tone = 0 /\ file.global = 0

DspScenario ==
  /\ Silent
  /\ connected = {} /\ activated = <<>> /\ file.devices = <<>> /\ streams = [d \in Devices |-> 0]
  /\ ToSet(nodes) \subseteq {<<k, "playback">> : k \in Keys}
  /\ \A r \in ToSet(routes) : r.level = 0
OwnersScenario ==
  /\ Silent
  /\ next_route_id <= 2 /\ registry = {Empty} /\ get = NoGet
  /\ job.dsp = NoDsp /\ \A id \in Ids : ~cache[id].set
  /\ \A r \in ToSet(file.routes) : ~r.dsp.set
MasterScenario ==
  /\ connected = {} /\ known = {} /\ activated = <<>> /\ routes = <<>>
  /\ registry = {Empty} /\ get = NoGet
Scenarios == DspScenario \/ OwnersScenario \/ MasterScenario
===============================================================================
