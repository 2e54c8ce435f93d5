---------------------------- MODULE OutputPortMC -----------------------------
(* Room for four events and two deltas, with an outside reader anywhere.     *)
EXTENDS OutputPort
=============================================================================
