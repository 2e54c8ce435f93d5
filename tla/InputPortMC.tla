----------------------------- MODULE InputPortMC -----------------------------
(* Room for four events, two deltas of up to two reads: enough to read past *)
(* the end, undo over a failed read, and clear with input pending.          *)
EXTENDS InputPort
=============================================================================
