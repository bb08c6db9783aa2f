--------------------------- MODULE RoutePublication ---------------------------
(***************************************************************************)
(* What DspEngine promises about the DSP state of one route: "Chain, gain  *)
(* and bypass state are one indivisible audio-side publication"            *)
(* (include/dsp_engine.h).  A control thread replaces the whole state in   *)
(* one step; the audio worker takes a snapshot of the state that is        *)
(* current, works with it for one block and drops it.                      *)
(*                                                                         *)
(* A publication is numbered.  Every field of a state carries the number   *)
(* of the publication that wrote it, so a mixture of two publications is   *)
(* a value that Whole never produces.                                      *)
(***************************************************************************)
EXTENDS Naturals

VARIABLES cell,     \* the state the control side published last
          snapshot  \* the state the audio worker is using, as a set of at most one

vars == <<cell, snapshot>>

(* RouteDsp::Chain as publication n fills it; on is its `active` flag.     *)
Whole(n, on) == [processors |-> n, length |-> n, gain |-> n, active |-> n, on |-> on]

Init == /\ cell = Whole(0, FALSE)
        /\ snapshot = {}

(* update_route_dsp as its caller sees it.                                 *)
Publish == /\ \E on \in BOOLEAN : cell' = Whole(cell.active + 1, on)
           /\ UNCHANGED snapshot

(* The audio worker starts and ends the use of one publication.            *)
Take == /\ snapshot = {}
        /\ snapshot' = {cell}
        /\ UNCHANGED cell

Drop == /\ snapshot # {}
        /\ snapshot' = {}
        /\ UNCHANGED cell

Next == Publish \/ Take \/ Drop

Spec == Init /\ [][Next]_vars
===============================================================================
