----------------------------- MODULE EndpointsMC -----------------------------
(***************************************************************************)
(* The pointer walks of the code, followed link by link, compared with the *)
(* way module Channel states their results.  Two endpoints, two values and *)
(* five events: deep enough to undo an undo, to revert across the other    *)
(* endpoint's writes and to clear a channel that holds reverted events.    *)
(***************************************************************************)
EXTENDS Endpoints

\* event_at: from head along next_node until the displacement matches (or off the end).
WalkToTime(time) ==
    LET Walk[a \in Addr \cup {NULL}] ==
            IF a = NULL \/ heap[a].displacement = time THEN a ELSE Walk[heap[a].next]
    IN  Walk[head]

\* revert_event: from the event at time back to publisher p's or the head.
WalkToWrite(p, time) ==
    LET Walk[a \in Addr] ==
            IF heap[a].prev # NULL /\ heap[a].publisher # p THEN Walk[heap[a].prev] ELSE a
    IN  Walk[WalkToTime(time)]

\* revert_event: the nodes its fixup loop visits after the new tail.
WalkAfter(r) ==
    LET Walk[a \in Addr \cup {NULL}] ==
            IF a = NULL THEN {} ELSE {a} \cup Walk[heap[a].next]
    IN  Walk[heap[r].next]

\* Followed through the links as they stand, each loop of the code ends where
\* Channel says it does: the search by displacement, the search for the write
\* to undo, and the sweep over the nodes to cut off.
WalksAgree ==
    \A time \in 0 .. heap[tail].displacement :
        /\ WalkToTime(time) = EventAt(time)
        /\ \A p \in Publishers :
              {w \in Live : IsLastWrite(w, p, time)} = {WalkToWrite(p, time)}
        /\ WalkAfter(EventAt(time)) = {e \in Live : heap[e].displacement > time}
=============================================================================
