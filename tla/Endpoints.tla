----------------------------- MODULE Endpoints ------------------------------
(***************************************************************************)
(* The publishers and subscribers of a channel (Channel::Endpoint).  Each  *)
(* endpoint points at an event and only moves when it is itself called: an *)
(* event can be reverted, or the whole chain replaced, under a reader.     *)
(***************************************************************************)
EXTENDS Channel, Sequences

CONSTANT MaxEndpoints   \* bound: endpoints ever created on the channel

\* Endpoint k publishes as k.
ASSUME EndpointsAssumption == MaxEndpoints \in Nat /\ 1 .. MaxEndpoints \subseteq Publishers

VARIABLES stands,       \* endpoint -> address of its event, NULL for nullptr
          crashed       \* a nullptr was dereferenced

epvars == <<heap, allocated, head, tail, stands, crashed>>

Endpoint == 1 .. Len(stands)

-----------------------------------------------------------------------------
EpInit == ChanInit /\ stands = << >> /\ crashed = FALSE

\* Publisher ids count up from 1 and are 16 bits wide: endpoint k has id k.
\* A new endpoint points at the tail.
NewEndpoint ==
    /\ Len(stands) < MaxEndpoints
    /\ stands' = Append(stands, tail)
    /\ UNCHANGED <<chan, crashed>>

Crash == crashed' = TRUE /\ UNCHANGED <<chan, stands>>

\* clone looks its event up again by displacement: nullptr beyond the tail.
Clone(k) ==
    /\ Len(stands) < MaxEndpoints
    /\ IF stands[k] = NULL THEN Crash
       ELSE LET time == heap[stands[k]].displacement
            IN  /\ stands' = Append(stands, IF EventExists(time) THEN EventAt(time) ELSE NULL)
                /\ UNCHANGED <<chan, crashed>>

MoveTo(k, e) == stands' = [stands EXCEPT ![k] = e] /\ UNCHANGED <<chan, crashed>>

SetToHead(k) == MoveTo(k, EventAt(0))

SetToTail(k) == MoveTo(k, tail)

\* Mutant of NextValue: the reader jumps to the latest value.
NextValueToTail(k) == IF stands[k] = NULL THEN Crash ELSE MoveTo(k, tail)

NextValue(k) == IF stands[k] = NULL THEN Crash ELSE MoveTo(k, Step(stands[k], "next"))

Unread(k) == IF stands[k] = NULL THEN Crash ELSE MoveTo(k, Step(stands[k], "prev"))

AppendValue(k, v) ==
    /\ AppendEvent(k, v)
    /\ stands' = [stands EXCEPT ![k] = tail']
    /\ UNCHANGED crashed

\* revert_event dereferences the nullptr of an event beyond the tail.
Unwrite(k) ==
    IF stands[k] = NULL \/ ~EventExists(heap[stands[k]].displacement) THEN Crash
    ELSE /\ RevertEvent(k, heap[stands[k]].displacement)
         /\ stands' = [stands EXCEPT ![k] = tail']
         /\ UNCHANGED crashed

\* Channel::clear moves no endpoint.
ClearChannel(v) == Clear(v) /\ UNCHANGED <<stands, crashed>>

EpNext ==
    /\ ~crashed
    /\ \/ NewEndpoint
       \/ \E k \in Endpoint :
            \/ Clone(k)
            \/ SetToHead(k)
            \/ SetToTail(k)
            \/ NextValue(k)
            \/ Unread(k)
            \/ \E v \in Values : AppendValue(k, v)
            \/ Unwrite(k)
       \/ \E v \in Values : ClearChannel(v)

EpSpec == EpInit /\ [][EpNext]_epvars

-----------------------------------------------------------------------------
\* Where the non-empty events a reader has yet to see begin: its own event,
\* or the one the forced transitions lead to.
Pending(k) == {e \in Live : heap[e].displacement > heap[stands[k]].displacement}

Moves(k) == stands[k] # NULL /\ Len(stands') = Len(stands) /\ stands'[k] # stands[k] /\ UNCHANGED chan

\* Reading delivers every published value exactly once and in order: a reader
\* on the chain that calls next_value skips no live event.
NoValueSkipped ==
    [][\A k \in Endpoint :
          NextValue(k) /\ ~crashed' /\ stands[k] \in Live =>
             IF Pending(k) = {} THEN stands'[k] = stands[k]
             ELSE heap[stands'[k]].displacement = heap[stands[k]].displacement + 1
                  /\ stands'[k] \in Live]_epvars

\* A reader whose event was undone, perhaps several times over, is carried to
\* an event that still holds a value: next_value and unread never return the
\* value of an event that has been reverted.  (The head a clear replaced was not
\* reverted: a reader of the old chain can still be given its value.)
NeverDeliversUndone ==
    [][\A k \in Endpoint :
          Moves(k) => ~heap[stands'[k]].empty]_epvars

\* A head that clear replaced.
Replaced(e) == e \in Addr \ Live /\ ~heap[e].empty

\* A reader whose event has left the chain, by undos and clears of any number
\* of other endpoints, is not stuck there.  Whichever way it reads, one call
\* takes it back to the chain, or to a head that was replaced in the meantime;
\* from there each call gets it past one clear more.
StraysComeBack ==
    \A k \in Endpoint, link \in {"next", "prev"} :
        stands[k] # NULL /\ stands[k] \notin Live =>
            LET e == Step(stands[k], link)
            IN  e \in Live \/ (Replaced(e) /\ (Replaced(stands[k]) => e > stands[k]))
=============================================================================
