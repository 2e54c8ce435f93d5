------------------------------- MODULE Channel -------------------------------
(***************************************************************************)
(* The event graph of components/storage/pubsub: every value published on  *)
(* a memory-mapped port is an event on the heap, linked to its neighbours  *)
(* by next_node and prev_node.  Undoing a write cuts a suffix off the      *)
(* chain and turns each event cut off into an empty event whose two links  *)
(* force a transition to the new tail, so that a reader still standing on  *)
(* it is carried back to the chain.                                        *)
(*                                                                         *)
(* Addresses are the naturals 1..allocated in allocation order.  The       *)
(* garbage collection done by shared_ptr reuses no address and is not      *)
(* modelled.  The pointer walks of the code (find the event of a given     *)
(* displacement, find the last write of a publisher, visit the nodes after *)
(* the new tail) are stated by what they find among the live events;       *)
(* module EndpointsMC compares them with the walks, link by link.          *)
(***************************************************************************)
EXTENDS Naturals

CONSTANTS Values,       \* val_size_t
          Default,      \* the value given to the constructor
          Publishers,   \* publisher_id_t
          MaxEvents     \* bound: events ever allocated

ASSUME ChannelAssumption ==
    /\ Default \in Values
    /\ Publishers \subseteq Nat
    /\ MaxEvents \in Nat \ {0}

VARIABLES heap,         \* address -> event
          allocated,    \* number of events allocated so far
          head,         \* Channel::head
          tail          \* Channel::tail

chan == <<heap, allocated, head, tail>>

NULL == 0
RootPublisher == 0

Addr == 1 .. allocated

EventRec(links) ==
    [value: Values, publisher: Publishers \cup {RootPublisher},
     empty: BOOLEAN, next: links, prev: links, displacement: Nat]

NewEvent(v, p, before, d) ==
    [value |-> v, publisher |-> p, empty |-> FALSE,
     next |-> NULL, prev |-> before, displacement |-> d]

(***************************************************************************)
(* The live events: those reachable from head.  A reverted event is empty; *)
(* a head that clear() replaced is a second event of displacement 0.       *)
(***************************************************************************)
Live == {e \in Addr : ~heap[e].empty /\ (heap[e].displacement = 0 => e = head)}

\* event_at and mutable_event_at return nullptr beyond the tail.
EventExists(time) == time <= heap[tail].displacement

\* Mutant of IsLastWrite: the event at the given time itself is passed over.
IsFirstWrite(w, p, time) ==
    LET Mine == {e \in Live : heap[e].publisher = p /\ heap[e].displacement < time}
    IN  \/ w \in Mine /\ \A e \in Mine : heap[e].displacement <= heap[w].displacement
        \/ w = head /\ Mine = {}

\* w is the last event publisher p added up to time, or head if it added none.
IsLastWrite(w, p, time) ==
    LET Mine == {e \in Live : heap[e].publisher = p /\ heap[e].displacement <= time}
    IN  \/ w \in Mine /\ \A e \in Mine : heap[e].displacement <= heap[w].displacement
        \/ w = head /\ Mine = {}

\* Mutant of RevertTarget: the publisher's write itself becomes the tail.
RevertTargetKeeps(w) == w

RevertTarget(w) == IF w = head THEN head ELSE heap[w].prev

\* Mutant of CutAfter: the new tail keeps its link to the events cut off.
CutAfterKeepsNext(r) ==
    [e \in Addr |->
        IF e \in Live /\ heap[e].displacement > heap[r].displacement
        THEN [heap[e] EXCEPT !.empty = TRUE, !.next = r, !.prev = r]
        ELSE heap[e]]

\* Mutant of CutAfter: only next_node is redirected.
CutAfterNextOnly(r) ==
    [e \in Addr |->
        IF e \in Live /\ heap[e].displacement > heap[r].displacement
        THEN [heap[e] EXCEPT !.empty = TRUE, !.next = r]
        ELSE IF e = r THEN [heap[e] EXCEPT !.next = NULL] ELSE heap[e]]

\* Mutant of CutAfter: events reverted earlier are redirected again.
CutAfterAll(r) ==
    [e \in Addr |->
        IF heap[e].displacement > heap[r].displacement
        THEN [heap[e] EXCEPT !.empty = TRUE, !.next = r, !.prev = r]
        ELSE IF e = r THEN [heap[e] EXCEPT !.next = NULL] ELSE heap[e]]

\* The live events after r, each turned into a forced transition to r.
CutAfter(r) ==
    [e \in Addr |->
        IF e \in Live /\ heap[e].displacement > heap[r].displacement
        THEN [heap[e] EXCEPT !.empty = TRUE, !.next = r, !.prev = r]
        ELSE IF e = r THEN [heap[e] EXCEPT !.next = NULL]
        ELSE heap[e]]

Extend(h, e) == [a \in 1 .. allocated + 1 |-> IF a = allocated + 1 THEN e ELSE h[a]]

\* Mutant of Step: empty events are not skipped.
StepOnce(e, link) == IF heap[e][link] = NULL THEN e ELSE heap[e][link]

(***************************************************************************)
(* next_event and previous_event: one step along the link, then on over    *)
(* empty events.                                                           *)
(***************************************************************************)
Step(e, link) ==
    LET Land[a \in Addr] ==
            IF heap[a].empty /\ heap[a][link] # NULL THEN Land[heap[a][link]] ELSE a
    IN  IF heap[e][link] = NULL THEN e ELSE Land[heap[e][link]]

-----------------------------------------------------------------------------
\* Mutant of ChanInit: the constructor leaves head unset.
ChanInitNoHead ==
    /\ heap = [a \in 1 .. 1 |-> NewEvent(Default, RootPublisher, NULL, 0)]
    /\ allocated = 1 /\ head = NULL /\ tail = 1

ChanInit ==
    /\ heap = [a \in 1 .. 1 |-> NewEvent(Default, RootPublisher, NULL, 0)]
    /\ allocated = 1
    /\ head = 1
    /\ tail = 1

AppendEvent(p, v) ==
    /\ allocated < MaxEvents
    /\ heap' = Extend([heap EXCEPT ![tail].next = allocated + 1],
                      NewEvent(v, p, tail, heap[tail].displacement + 1))
    /\ allocated' = allocated + 1
    /\ tail' = allocated + 1
    /\ UNCHANGED head

RevertEvent(p, time) ==
    /\ EventExists(time)
    /\ \E w \in Live :
          /\ IsLastWrite(w, p, time)
          /\ heap' = CutAfter(RevertTarget(w))
          /\ tail' = RevertTarget(w)
    /\ UNCHANGED <<allocated, head>>

\* Mutant of Clear: the old head is left without a link to the new one.
ClearUnlinked(v) ==
    /\ allocated < MaxEvents
    /\ heap' = Extend(CutAfter(head), NewEvent(v, RootPublisher, NULL, 0))
    /\ allocated' = allocated + 1
    /\ head' = allocated + 1
    /\ tail' = allocated + 1

\* clear: revert to head, then link the old head to a new one.
Clear(v) ==
    /\ allocated < MaxEvents
    /\ heap' = Extend([CutAfter(head) EXCEPT ![head].next = allocated + 1,
                                             ![head].prev = allocated + 1],
                      NewEvent(v, RootPublisher, NULL, 0))
    /\ allocated' = allocated + 1
    /\ head' = allocated + 1
    /\ tail' = allocated + 1

ChanNext ==
    \/ \E p \in Publishers, v \in Values : AppendEvent(p, v)
    \/ \E p \in Publishers, time \in 0 .. heap[tail].displacement : RevertEvent(p, time)
    \/ \E v \in Values : Clear(v)

ChanSpec == ChanInit /\ [][ChanNext]_chan

-----------------------------------------------------------------------------
(* Invariants.                                                             *)

\* The variables hold addresses of allocated events.
ChanTypeOK ==
    /\ allocated \in Nat \ {0}
    /\ allocated <= MaxEvents
    /\ heap \in [Addr -> EventRec(Addr \cup {NULL})]
    /\ head \in Addr
    /\ tail \in Addr

\* The live events form one doubly linked chain from head to tail: the links
\* are inverse to each other, displacements count up by one along next_node,
\* and only the tail ends it.  Every walk of the code over the chain relies on it.
ChainIntact ==
    /\ head \in Live /\ tail \in Live
    /\ heap[head].displacement = 0
    /\ heap[head].prev = NULL
    /\ heap[tail].next = NULL
    /\ \A e \in Live : e # tail =>
          /\ heap[e].next \in Live
          /\ heap[heap[e].next].prev = e
          /\ heap[heap[e].next].displacement = heap[e].displacement + 1
    /\ \A e \in Live : e # head =>
          /\ heap[e].prev \in Live
          /\ heap[heap[e].prev].next = e

\* event_at stops: each displacement up to the tail's belongs to exactly one
\* live event, and none lies beyond the tail.
OneEventPerTime ==
    /\ \A d \in 0 .. heap[tail].displacement : \E e \in Live : heap[e].displacement = d
    /\ \A e, f \in Live : heap[e].displacement = heap[f].displacement => e = f
    /\ \A e \in Live : heap[e].displacement <= heap[tail].displacement

\* The loops of next_event and previous_event over empty events stop: the
\* forced transition of a reverted event leads to a strictly older event, and
\* that of a replaced head to a younger one at which the loops stop.
ForcedTransitionsEnd ==
    \A e \in Addr \ Live :
        /\ heap[e].next \in Addr
        /\ heap[e].prev = heap[e].next
        /\ IF heap[e].empty THEN heap[e].next < e
           ELSE heap[e].next > e /\ ~heap[heap[e].next].empty

-----------------------------------------------------------------------------
(* Action properties.                                                      *)

\* An event that left the chain never changes again, so a reader standing on
\* it is always carried to the same place; no event ever returns to the chain.
DeadStayDead ==
    [][\A e \in Addr \ Live : heap'[e] = heap[e] /\ e \notin Live']_chan

-----------------------------------------------------------------------------
(***************************************************************************)
(* The log a channel promises (ChannelLog) is what its live events hold.   *)
(***************************************************************************)
EventAt(time) == CHOOSE e \in Live : heap[e].displacement = time

LiveLog ==
    [i \in 1 .. heap[tail].displacement + 1 |->
        LET e == EventAt(i - 1)
        IN  [value |-> heap[e].value, publisher |-> heap[e].publisher]]

Log == INSTANCE ChannelLog WITH log <- LiveLog

OperationsMatch ==
    /\ \A p \in Publishers, v \in Values : AppendEvent(p, v) => Log!Publish(p, v)
    /\ \A p \in Publishers, time \in 0 .. heap[tail].displacement :
          RevertEvent(p, time) => Log!Undo(p, time)
    /\ \A v \in Values : Clear(v) => Log!Restart(v)

\* The graph behaves as the log, and each operation on the graph is the log's
\* operation of that name: publishing appends, reverting truncates just before
\* the publisher's last write up to the given time, clearing starts afresh.
\* (A step that leaves the graph alone leaves its log alone: saying so first
\* spares TLC the rest.)
ImplementsLog ==
    Log!LogInit /\ [][chan' = chan \/ (Log!LogNext /\ OperationsMatch)]_chan
=============================================================================
