----------------------------- MODULE OutputPort -----------------------------
(***************************************************************************)
(* A memory-mapped output (components/storage/mmio, Output) with its delta *)
(* (components/delta/delta_mmio, Output) and one outside reader of its     *)
(* channel.  Each write of the port is an event; undoing a delta takes as  *)
(* many events back as it has writes, one revert of the channel after the  *)
(* other, while the reader may stand on any of them.                       *)
(***************************************************************************)
EXTENDS Channel, Sequences

CONSTANTS CountMod,     \* 2^8: the width of _write_count
          NoValue,      \* the empty cache
          MaxHistory    \* bound: deltas kept

Port == 1               \* publisher id of the port's endpoint

ASSUME OutputAssumption ==
    /\ CountMod \in Nat \ {0} /\ MaxHistory \in Nat /\ Port \in Publishers
    /\ NoValue \notin Values

VARIABLES at,           \* _endpoint's event
          cache,        \* _last_write_value, NoValue if empty
          writes,       \* _delta: the events written since the delta began
          undo,         \* deltas taken, oldest first, each with the tail it began at
          redo,         \* those of them applied backward, last first
          began,        \* the tail when the current delta began
          pending,      \* unwrites still to do of the delta being applied backward
          reader        \* the outside reader's event

outputVars == <<heap, allocated, head, tail, at, cache, writes, undo, redo, began, pending, reader>>
outport == <<at, cache, writes, undo, redo, began, pending, reader>>

Count(d) == Len(d) % CountMod

Idle == pending = 0

-----------------------------------------------------------------------------
OutputInit ==
    /\ ChanInit
    /\ at = head /\ reader = head /\ began = head
    /\ cache = NoValue
    /\ writes = << >> /\ undo = << >> /\ redo = << >> /\ pending = 0

\* Mutant of Write: the delta counts only writes that change the cached value.
WriteCountsChanges(v) ==
    /\ Idle
    /\ AppendEvent(Port, v)
    /\ at' = tail'
    /\ writes' = IF cache = v THEN writes ELSE Append(writes, tail')
    /\ cache' = v
    /\ UNCHANGED <<undo, redo, began, pending, reader>>

Write(v) ==
    /\ Idle
    /\ AppendEvent(Port, v)
    /\ at' = tail'
    /\ writes' = Append(writes, tail')
    /\ cache' = v
    /\ UNCHANGED <<undo, redo, began, pending, reader>>

\* set bypasses the channel.
Set(v) == Idle /\ cache' = v /\ UNCHANGED <<chan, at, writes, undo, redo, began, pending, reader>>

\* get, and read, fill the cache if it is empty.
Get ==
    /\ Idle
    /\ cache' = IF cache = NoValue THEN heap[at].value ELSE cache
    /\ UNCHANGED <<chan, at, writes, undo, redo, began, pending, reader>>

TakeDelta ==
    /\ Idle /\ Len(undo) < MaxHistory
    /\ undo' = Append(undo, [events |-> writes, from |-> began])
    /\ redo' = << >> /\ writes' = << >> /\ began' = tail
    /\ UNCHANGED <<chan, at, cache, pending, reader>>

\* apply_backward of the last delta, taken with no write outstanding ...
ApplyBackward ==
    /\ Idle /\ writes = << >> /\ undo # << >>
    /\ pending' = Count(undo[Len(undo)].events)
    /\ pending' # 0
    /\ UNCHANGED <<chan, at, cache, writes, undo, redo, began, reader>>

Finish ==
    /\ undo' = SubSeq(undo, 1, Len(undo) - 1)
    /\ redo' = Append(redo, undo[Len(undo)])
    /\ began' = tail'

\* ... unwrites one event at a time.
UnwriteOne ==
    /\ pending > 0
    /\ RevertEvent(Port, heap[at].displacement)
    /\ at' = tail'
    /\ pending' = pending - 1
    /\ IF pending = 1 THEN Finish ELSE UNCHANGED <<undo, redo, began>>
    /\ UNCHANGED <<cache, writes, reader>>

\* A delta without writes is popped at once.
ApplyEmpty ==
    /\ Idle /\ writes = << >> /\ undo # << >>
    /\ Count(undo[Len(undo)].events) = 0
    /\ UNCHANGED <<chan, at, cache, writes, pending, reader>>
    /\ Finish

\* apply_forward reads as many values as the delta has writes.
ApplyForward ==
    /\ Idle /\ writes = << >> /\ redo # << >>
    /\ LET d == redo[Len(redo)]
           Walk[i \in 0 .. Count(d.events)] == IF i = 0 THEN at ELSE Step(Walk[i - 1], "next")
       IN  /\ at' = Walk[Count(d.events)]
           /\ undo' = Append(undo, d)
    /\ redo' = SubSeq(redo, 1, Len(redo) - 1)
    /\ began' = tail
    /\ UNCHANGED <<chan, cache, writes, pending, reader>>

\* Mutant of ClearOutput: the old head is not linked to the new one.
ClearOutputUnlinked(v) ==
    /\ Idle /\ allocated < MaxEvents
    /\ heap' = Extend(CutAfter(head), NewEvent(v, RootPublisher, NULL, 0))
    /\ allocated' = allocated + 1 /\ head' = allocated + 1 /\ tail' = allocated + 1
    /\ cache' = v
    /\ writes' = << >> /\ undo' = << >> /\ redo' = << >> /\ began' = tail'
    /\ UNCHANGED <<at, pending, reader>>

\* Mutant of ClearOutput: the open delta keeps its writes.
ClearOutputKeepsDelta(v) ==
    /\ Idle
    /\ Clear(v)
    /\ cache' = v
    /\ undo' = << >> /\ redo' = << >> /\ began' = tail'
    /\ UNCHANGED <<at, writes, pending, reader>>

\* clear replaces the channel's chain, not the endpoint; the owner of the
\* deltas discards them with it.
ClearOutput(v) ==
    /\ Idle
    /\ Clear(v)
    /\ cache' = v
    /\ writes' = << >> /\ undo' = << >> /\ redo' = << >> /\ began' = tail'
    /\ UNCHANGED <<at, pending, reader>>

\* The outside reader's next_value.
Observe ==
    /\ Idle
    /\ reader' = Step(reader, "next")
    /\ UNCHANGED <<chan, at, cache, writes, undo, redo, began, pending>>

OutputNext ==
    \/ \E v \in Values : Write(v) \/ Set(v) \/ ClearOutput(v)
    \/ Get \/ TakeDelta \/ ApplyBackward \/ UnwriteOne \/ ApplyEmpty \/ ApplyForward \/ Observe

OutputSpec == OutputInit /\ [][OutputNext]_outputVars

-----------------------------------------------------------------------------
\* Undoing a delta takes exactly its writes off the output: the channel ends
\* where it ended before the first of them.  Undoing a delta that was undone and
\* redone is left out: redoing does not write its events again, so undoing it a
\* second time takes as many older writes of the port.
UndoTakesWritesBack ==
    [][LET d == undo[Len(undo)]
       IN  pending = 1 /\ pending' = 0 /\ d.events[1] \in Live => tail' = d.from]_outputVars

\* Once the outside reader has read all there is, it stands on the last value
\* that was written and not taken back, however it came to be where it was.
ReaderCatchesUp == Idle /\ Step(reader, "next") = reader => reader = tail

\* After every write of the port the writes of the open delta are the last
\* events of the channel, so that taking them back takes nothing else.
OpenWritesAreLast ==
    \A i \in DOMAIN writes :
        heap[tail].displacement - heap[writes[i]].displacement = Len(writes) - i

(***************************************************************************)
(* The delta's iterator (cbegin, cend) starts as many events before the    *)
(* tail as the delta has writes, less one, and stops after the tail.       *)
(***************************************************************************)
IteratedFrom(back) ==
    LET Back[i \in 0 .. back] == IF i = 0 THEN tail ELSE Step(Back[i - 1], "prev")
        len == heap[tail].displacement - heap[Back[back]].displacement + 1
        Walk[i \in 1 .. len] == IF i = 1 THEN Back[back] ELSE Step(Walk[i - 1], "next")
    IN  [i \in 1 .. len |-> Walk[i]]

\* Mutant of Iterated: starts before the first write.
IteratedEarly(n) == IteratedFrom(n)

Iterated(n) == IteratedFrom(n - 1)

\* Iterating over a delta of the history whose last write is the last on the
\* channel, because nothing was written since or all of it was undone, yields
\* the events it wrote.  (An older delta's iterator yields later writes.)
IteratesOverWrites ==
    Idle => \A i \in DOMAIN undo :
        LET d == undo[i].events
        IN  d # << >> /\ d[Len(d)] = tail => Iterated(Count(d)) = [j \in DOMAIN d |-> d[j]]
=============================================================================
