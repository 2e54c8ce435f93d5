-------------------------- MODULE LayeredStorageMC ---------------------------
(***************************************************************************)
(* Devices for an address space of four bytes, of which the layers reach   *)
(* three at first: a range at its start, a block that overlaps it, and a   *)
(* read-only map on the last byte.                                         *)
(***************************************************************************)
EXTENDS LayeredStorage

Part(at, kind, size, wrap) == [at |-> at, kind |-> kind, max |-> size - 1, wrap |-> wrap]

SomeParts == {Part(0, "range", 3, "none"), Part(1, "block", 1, "none"),
              Part(3, "map", 1, "fail")}

\* Two bytes that wrap around the end of the layers.
Wrapping == {[at |-> 2, bytes |-> [i \in 1 .. 2 |-> v]] : v \in Values \ {Zero}}

\* A range alone.
OneRange == {Part(0, "range", 4, "none")}
=============================================================================
