------------------------------ MODULE AtomicFile ------------------------------
(***************************************************************************)
(* What the settings file promises its reader: it always holds one whole   *)
(* document.  "The old destination remains until a successful rename", and *)
(* since the directory is not flushed, a power loss may bring back a       *)
(* document that was replaced, but never anything else.                    *)
(***************************************************************************)
EXTENDS Naturals

CONSTANT Documents

VARIABLES value,   \* the document that a reader finds
          stable   \* the document that a reader would find after a power loss

vars == <<value, stable>>

Init == value \in Documents /\ stable = value

Replace == value' \in Documents /\ UNCHANGED stable

Settle == stable' = value /\ UNCHANGED value

Lose == value' = stable /\ UNCHANGED stable

Next == Replace \/ Settle \/ Lose

Spec == Init /\ [][Next]_vars
===============================================================================
