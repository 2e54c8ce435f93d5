----------------------------- MODULE InputPort ------------------------------
(***************************************************************************)
(* A memory-mapped input (components/storage/mmio, Input) with its delta   *)
(* (components/delta/delta_mmio, Input).  Bytes buffered by the outside    *)
(* are events of a channel, each read of the port advances the port's      *)
(* endpoint by one, and a delta records how many reads were made so that   *)
(* undoing it can step the endpoint back that often.                       *)
(*                                                                         *)
(* Nothing reverts the channel of an input port: the outside only appends. *)
(* Deltas are applied in the order of an undo history, between steps, with *)
(* no read outstanding.                                                    *)
(***************************************************************************)
EXTENDS Channel, Sequences

CONSTANTS CountMod,     \* 2^8: the width of _read_count
          MaxHistory,   \* bound: deltas kept
          MaxReads      \* bound: reads per delta

Outside == 2            \* publisher id of the endpoint that buffer_input uses

ASSUME InputAssumption ==
    /\ CountMod \in Nat \ {0} /\ MaxHistory \in Nat /\ MaxReads \in Nat
    /\ Outside \in Publishers

VARIABLES at,           \* _endpoint's event
          lastRead,     \* _last_read_value
          reads,        \* _delta: the events read since the delta began, oldest
                        \* first; a failed read is recorded too, as NULL
          undo, redo    \* deltas taken, and those of them applied backward

inputVars == <<heap, allocated, head, tail, at, lastRead, reads, undo, redo>>
port == <<at, lastRead, reads, undo, redo>>

\* What the delta itself remembers of its reads.
Count(d) == Len(d) % CountMod

\* n calls of next_value or of unread, from event e.
Steps(e, n, link) ==
    LET Walk[i \in 0 .. n] == IF i = 0 THEN e ELSE Step(Walk[i - 1], link)
    IN  Walk[n]

-----------------------------------------------------------------------------
InputInit ==
    /\ ChanInit
    /\ at = head
    /\ lastRead = Default
    /\ reads = << >>
    /\ undo = << >> /\ redo = << >>

BufferInput(v) == AppendEvent(Outside, v) /\ UNCHANGED port

\* read records the read in the delta before it knows whether there is input.
Read ==
    LET e == Step(at, "next") IN
    /\ Len(reads) < MaxReads
    /\ reads' = Append(reads, [from |-> at, event |-> IF e = at THEN NULL ELSE e])
    /\ IF e = at THEN UNCHANGED <<at, lastRead>>
       ELSE at' = e /\ lastRead' = heap[e].value
    /\ UNCHANGED <<chan, undo, redo>>

\* get returns the endpoint's current value and caches it.
Get ==
    /\ lastRead' = heap[at].value
    /\ UNCHANGED <<chan, at, reads, undo, redo>>

TakeDelta ==
    /\ Len(undo) < MaxHistory
    /\ undo' = Append(undo, reads)
    /\ redo' = << >>
    /\ reads' = << >>
    /\ UNCHANGED <<chan, at, lastRead>>

\* Mutant of ApplyBackward: a stale count, one step short.
ApplyBackwardShort ==
    /\ reads = << >> /\ undo # << >>
    /\ LET d == undo[Len(undo)]
       IN  /\ at' = Steps(at, IF Count(d) = 0 THEN 0 ELSE Count(d) - 1, "prev")
           /\ redo' = Append(redo, d)
    /\ undo' = SubSeq(undo, 1, Len(undo) - 1)
    /\ UNCHANGED <<chan, lastRead, reads>>

ApplyBackward ==
    /\ reads = << >> /\ undo # << >>
    /\ LET d == undo[Len(undo)]
       IN  /\ at' = Steps(at, Count(d), "prev")
           /\ redo' = Append(redo, d)
    /\ undo' = SubSeq(undo, 1, Len(undo) - 1)
    /\ UNCHANGED <<chan, lastRead, reads>>

ApplyForward ==
    /\ reads = << >> /\ redo # << >>
    /\ LET d == redo[Len(redo)]
       IN  /\ at' = Steps(at, Count(d), "next")
           /\ undo' = Append(undo, d)
    /\ redo' = SubSeq(redo, 1, Len(redo) - 1)
    /\ UNCHANGED <<chan, lastRead, reads>>

\* Mutant of ClearInput: the old head is not linked to the new one.
ClearInputUnlinked(v) ==
    /\ allocated < MaxEvents
    /\ heap' = Extend(CutAfter(head), NewEvent(v, RootPublisher, NULL, 0))
    /\ allocated' = allocated + 1 /\ head' = allocated + 1 /\ tail' = allocated + 1
    /\ lastRead' = v /\ reads' = << >> /\ undo' = << >> /\ redo' = << >>
    /\ UNCHANGED at

\* clear replaces the channel's chain, not the endpoint; the owner of the
\* deltas discards them with it.
ClearInput(v) ==
    /\ Clear(v)
    /\ lastRead' = v
    /\ reads' = << >> /\ undo' = << >> /\ redo' = << >>
    /\ UNCHANGED at

InputNext ==
    \/ \E v \in Values : BufferInput(v) \/ ClearInput(v)
    \/ Read \/ Get \/ TakeDelta \/ ApplyBackward \/ ApplyForward

InputSpec == InputInit /\ [][InputNext]_inputVars

-----------------------------------------------------------------------------
\* Every read of the delta returned a byte from outside.
AllDelivered(d) ==
    \A i \in DOMAIN d : d[i].event # NULL /\ heap[d[i].event].publisher = Outside

\* When every read of a delta delivered input and the port stands where the last
\* of them left it, undoing the delta returns the port to the event it stood on
\* before the first; redoing it from there returns it to the last one.
UndoRedoExact ==
    [][LET undone == redo'[Len(redo')]
           redone == undo'[Len(undo')]
       IN  /\ ApplyBackward /\ undone # << >> /\ AllDelivered(undone)
              => (at = undone[Len(undone)].event => at' = undone[1].from)
           /\ ApplyForward /\ redone # << >> /\ AllDelivered(redone)
              => (at = redone[1].from => at' = redone[Len(redone)].event)]_inputVars

\* Input is never out of a reader's reach: as long as something is buffered
\* beyond the port's event, even after a clear, the next read delivers it.
NeverStranded == at # tail => Step(at, "next") # at

(***************************************************************************)
(* The delta's iterator (cbegin, cend) starts as many events before the    *)
(* tail as the delta has reads, less one, and stops after the tail.        *)
(***************************************************************************)
IteratedFrom(first) ==
    LET len == heap[tail].displacement - heap[first].displacement + 1
    IN  [i \in 1 .. len |-> Steps(first, i - 1, "next")]

\* Mutant of Iterated: starts before the first read.
IteratedEarly(n) == IteratedFrom(Steps(tail, n, "prev"))

Iterated(n) == IteratedFrom(Steps(tail, IF n = 0 THEN 0 ELSE n - 1, "prev"))

\* Once all input that was buffered has been read, iterating over the open delta
\* yields the events it read, in order.  (The iterator starts from the tail, so
\* with input pending it yields that input instead.)
IteratesOverReads ==
    reads # << >> /\ AllDelivered(reads) /\ at = tail
        => Iterated(Count(reads)) = [i \in DOMAIN reads |-> reads[i].event]
=============================================================================
