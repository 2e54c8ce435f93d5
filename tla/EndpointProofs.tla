--------------------------- MODULE EndpointProofs ----------------------------
(***************************************************************************)
(* What an endpoint may rely on, for any number of endpoints, events and   *)
(* values: reading skips nothing, never delivers what was undone and is    *)
(* never stuck off the chain, and the log keeps its promises.              *)
(* And an input port, whose endpoint only reads, loses nothing and undoes  *)
(* exactly, for any number of reads, deltas, values and clears.            *)
(***************************************************************************)
EXTENDS EndpointsMC, InputPortMC, ChannelProofs

-----------------------------------------------------------------------------
(* The channel of an input port is never reverted, so the only events off its chain    *)
(* are those a clear left behind, and these lead to a head.  Input that a delta        *)
(* recorded is therefore still on the chain, each byte linked to the one before it,    *)
(* and stepping back over it undoes the reads.  Statements about a delta suppose that  *)
(* it never collects CountMod reads: its counter is that wide and wraps.               *)

USE DEF NULL, RootPublisher

\* The width of the counter is enough.
CountFits == Len(reads) < CountMod

\* An event that left the chain leads to a head, present or past; and no head carries
\* a byte from outside.
OnlyCleared ==
    /\ \A e \in Addr : heap[e].displacement = 0 => heap[e].publisher = RootPublisher
    /\ \A e \in Addr \ Live : heap[heap[e].next].displacement = 0

ReadRec == [from : Nat, event : Nat]

\* What a delta recorded is still there: a byte it delivered is on the chain right after
\* the event it was read from, which is where the read before it arrived.
Recorded(d) ==
    /\ d \in Seq(ReadRec)
    /\ \A i \in 1 .. Len(d) :
          /\ d[i].from \in Addr
          /\ d[i].event \in Addr \cup {NULL}
          /\ d[i].event # NULL /\ heap[d[i].event].publisher = Outside =>
                d[i].event \in Live /\ d[i].from \in Live /\ heap[d[i].from].next = d[i].event
          /\ i > 1 /\ d[i - 1].event # NULL => d[i].from = d[i - 1].event

InputInv ==
    /\ Inv /\ OnlyCleared
    /\ at \in Addr
    /\ Recorded(reads)
    /\ reads # << >> /\ reads[Len(reads)].event # NULL => at = reads[Len(reads)].event
    /\ undo \in Seq(Seq(ReadRec)) /\ \A i \in 1 .. Len(undo) : Recorded(undo[i])
    /\ redo \in Seq(Seq(ReadRec)) /\ \A i \in 1 .. Len(redo) : Recorded(redo[i])

\* While the counter is wide enough, no delta of the history is longer than it counts.
Short == /\ \A i \in 1 .. Len(undo) : Len(undo[i]) < CountMod
         /\ \A i \in 1 .. Len(redo) : Len(redo[i]) < CountMod
-----------------------------------------------------------------------------
\* What a delta may rely on when the graph changes under it.
Keeps ==
    /\ Addr \subseteq Addr' /\ Live \subseteq Live'
    /\ \A e \in Addr : heap'[e].publisher = heap[e].publisher
    /\ \A e \in Live : heap[e].next # NULL => heap'[e].next = heap[e].next

\* A recorded read stays true while the chain only grows.
LEMMA KeepsRecord ==
    ASSUME Keeps, Live \subseteq Addr, NULL \notin Addr, NEW d, Recorded(d)
    PROVE  Recorded(d)'
<1>1. ASSUME NEW i \in 1 .. Len(d)
      PROVE  /\ d[i].from \in Addr'
             /\ d[i].event \in Addr' \cup {NULL}
             /\ d[i].event # NULL /\ heap'[d[i].event].publisher = Outside =>
                  d[i].event \in Live' /\ d[i].from \in Live' /\ heap'[d[i].from].next = d[i].event
             /\ i > 1 /\ d[i - 1].event # NULL => d[i].from = d[i - 1].event
  <2>1. d[i].from \in Addr /\ d[i].event \in Addr \cup {NULL}
        /\ (i > 1 /\ d[i - 1].event # NULL => d[i].from = d[i - 1].event)
      BY DEF Recorded
  <2>2. ASSUME d[i].event # NULL, heap'[d[i].event].publisher = Outside
        PROVE  d[i].event \in Live' /\ d[i].from \in Live' /\ heap'[d[i].from].next = d[i].event
    <3>1. heap[d[i].event].publisher = Outside
        BY <2>1, <2>2 DEF Keeps
    <3>2. d[i].event \in Live /\ d[i].from \in Live /\ heap[d[i].from].next = d[i].event
        BY <2>2, <3>1 DEF Recorded
    <3>3. QED
        BY <3>2, <2>2 DEF Keeps
  <2>3. QED
      BY <2>1, <2>2 DEF Keeps
<1>2. QED
    BY <1>1 DEF Recorded

\* Buffering a byte appends one event.
LEMMA BufferKeeps ==
    ASSUME InputInv, NEW v \in Values, BufferInput(v)
    PROVE  Inv' /\ OnlyCleared' /\ Keeps
<1>1. Inv /\ Outside \in Publishers /\ AppendEvent(Outside, v)
    BY InputAssumption DEF InputInv, BufferInput
<1>2. /\ Inv' /\ Live' = Live \cup {allocated + 1} /\ Addr' = Addr \cup {allocated + 1}
      /\ allocated + 1 \notin Addr /\ tail' = allocated + 1
      /\ heap'[tail'] = NewEvent(v, Outside, tail, heap[tail].displacement + 1)
      /\ \A e \in Addr \ {tail} : heap'[e] = heap[e]
      /\ \A e \in Addr : /\ heap'[e].publisher = heap[e].publisher
                         /\ heap'[e].displacement = heap[e].displacement
    BY <1>1, AppendEffect
<1>3. /\ Live \subseteq Addr /\ tail \in Live /\ heap[tail].next = NULL
      /\ heap[tail].displacement \in Nat
    BY <1>1, HeapTypes DEF Inv, ChainIntact
<1>4. Keeps
    BY <1>2, <1>3 DEF Keeps
<1>5. \A e \in Addr' : heap'[e].displacement = 0 => heap'[e].publisher = RootPublisher
  <2>1. heap'[tail'].displacement # 0
      BY <1>2, <1>3 DEF NewEvent
  <2>2. QED
      BY <2>1, <1>2 DEF InputInv, OnlyCleared
<1>6. ASSUME NEW e \in Addr' \ Live' PROVE heap'[heap'[e].next].displacement = 0
  <2>1. e \in Addr \ Live /\ e # tail
      BY <1>2, <1>3
  <2>2. heap[e].next \in Addr /\ heap[heap[e].next].displacement = 0
      BY <2>1, <1>1 DEF Inv, ForcedTransitionsEnd, InputInv, OnlyCleared
  <2>3. QED
      BY <2>1, <2>2, <1>2
<1>7. QED
    BY <1>2, <1>4, <1>5, <1>6 DEF OnlyCleared

\* Clearing leaves every event leading to a head.
LEMMA ClearKeeps ==
    ASSUME InputInv, NEW v \in Values, ClearInput(v)
    PROVE  Inv' /\ OnlyCleared' /\ Addr \subseteq Addr'
<1>1. Inv /\ Clear(v)
    BY DEF InputInv, ClearInput
<1>2. /\ Inv' /\ Live' = {allocated + 1} /\ Addr' = Addr \cup {allocated + 1}
      /\ allocated + 1 \notin Addr /\ head' = allocated + 1
      /\ heap'[head'] = NewEvent(v, RootPublisher, NULL, 0)
      /\ heap'[head].next = head'
      /\ \A e \in Live \ {head} : heap'[e].next = head
      /\ \A e \in Addr : /\ heap'[e].publisher = heap[e].publisher
                         /\ heap'[e].displacement = heap[e].displacement
      /\ \A e \in Addr \ Live : heap'[e] = heap[e]
    BY <1>1, ClearEffect
<1>3. head \in Addr /\ heap[head].displacement = 0
      /\ heap'[head'].displacement = 0 /\ heap'[head'].publisher = RootPublisher
    BY <1>1, <1>2, HeapTypes DEF Inv, ChainIntact, NewEvent
<1>4. \A e \in Addr' : heap'[e].displacement = 0 => heap'[e].publisher = RootPublisher
    BY <1>2, <1>3 DEF InputInv, OnlyCleared
<1>5. ASSUME NEW e \in Addr' \ Live' PROVE heap'[heap'[e].next].displacement = 0
  <2>1. CASE e \in Live
      BY <2>1, <1>2, <1>3
  <2>2. CASE e \notin Live
    <3>1. e \in Addr \ Live
        BY <2>2, <1>2
    <3>2. heap[e].next \in Addr /\ heap[heap[e].next].displacement = 0
        BY <3>1, <1>1 DEF Inv, ForcedTransitionsEnd, InputInv, OnlyCleared
    <3>3. QED
        BY <3>1, <3>2, <1>2
  <2>3. QED
      BY <2>1, <2>2
<1>6. QED
    BY <1>2, <1>4, <1>5 DEF OnlyCleared

\* Where a read goes: to the next byte if there is one, or to a head.
LEMMA ReadGoes ==
    ASSUME InputInv
    PROVE  LET e == Step(at, "next")
           IN  /\ e \in Addr
               /\ e # at /\ heap[e].publisher = Outside =>
                     e \in Live /\ at \in Live /\ heap[at].next = e
<1> DEFINE e == Step(at, "next")
<1>1. Inv /\ at \in Addr /\ e \in Addr
    BY StepNext DEF InputInv
<1>2. CASE at = tail
    BY <1>1, <1>2, StepNext
<1>3. CASE at \in Live \ {tail}
    BY <1>1, <1>3, StepNext DEF Inv, ChainIntact
<1>4. CASE at \notin Live
  <2>1. heap[at].next \in Addr /\ heap[heap[at].next].displacement = 0
      BY <1>1, <1>4 DEF Inv, ForcedTransitionsEnd, InputInv, OnlyCleared
  <2>2. ~heap[heap[at].next].empty /\ heap[heap[at].next].publisher = RootPublisher
      BY <2>1, <1>1 DEF Inv, Aged, InputInv, OnlyCleared
  <2>3. e = heap[at].next
      BY <2>2, <1>1, <1>4, StepNext
  <2>4. QED
      BY <2>2, <2>3, <1>1 DEF Outside
<1>5. QED
    BY <1>1, <1>2, <1>3, <1>4

\* A delta with one more read.
LEMMA ReadRecords ==
    ASSUME InputInv, Read
    PROVE  InputInv'
<1> DEFINE e == Step(at, "next")
           r == [from |-> at, event |-> IF e = at THEN NULL ELSE e]
           n == Len(reads)
<1>1. /\ Inv /\ at \in Addr /\ e \in Addr /\ Addr \subseteq Nat \ {NULL}
      /\ (e # at /\ heap[e].publisher = Outside => e \in Live /\ at \in Live /\ heap[at].next = e)
    BY ReadGoes, HeapTypes DEF InputInv
<1>2. r \in ReadRec
    BY <1>1 DEF ReadRec
<1>3. reads \in Seq(ReadRec) /\ n \in Nat /\ reads' = Append(reads, r) /\ UNCHANGED <<chan, undo, redo>>
      /\ at' = IF e = at THEN at ELSE e
    BY DEF InputInv, Recorded, Read
<1> HIDE DEF r
<1>4. /\ reads' \in Seq(ReadRec) /\ Len(reads') = n + 1 /\ reads'[n + 1] = r
      /\ \A i \in 1 .. n : reads'[i] = reads[i]
    BY <1>2, <1>3, AppendProperties
<1>5. UNCHANGED <<Addr, Live, heap>>
    BY <1>3 DEF chan, Addr, Live
<1>6. Inv' /\ OnlyCleared'
    BY <1>1, <1>3, <1>5, NextInv DEF InputInv, OnlyCleared
<1>7. /\ r.from = at /\ r.event = IF e = at THEN NULL ELSE e
    BY DEF r
<1>8. ASSUME NEW i \in 1 .. n + 1
      PROVE  /\ reads'[i].from \in Addr
             /\ reads'[i].event \in Addr \cup {NULL}
             /\ reads'[i].event # NULL /\ heap[reads'[i].event].publisher = Outside =>
                  reads'[i].event \in Live /\ reads'[i].from \in Live
                  /\ heap[reads'[i].from].next = reads'[i].event
             /\ i > 1 /\ reads'[i - 1].event # NULL => reads'[i].from = reads'[i - 1].event
  <2>1. CASE i # n + 1
    <3>1. i \in 1 .. n /\ reads'[i] = reads[i] /\ (i > 1 => reads'[i - 1] = reads[i - 1])
        BY <2>1, <1>3, <1>4
    <3>2. QED
        BY <3>1 DEF InputInv, Recorded
  <2>2. CASE i = n + 1
    <3>1. i > 1 => reads'[i - 1] = reads[n] /\ reads # << >>
        BY <2>2, <1>3, <1>4
    <3>2. i > 1 /\ reads'[i - 1].event # NULL => at = reads'[i - 1].event
        BY <3>1 DEF InputInv
    <3>3. QED
        BY <3>2, <2>2, <1>1, <1>4, <1>7
  <2>3. QED
      BY <2>1, <2>2
<1>9. Recorded(reads)'
    BY <1>4, <1>5, <1>8 DEF Recorded
<1>10. at' \in Addr' /\ (reads'[Len(reads')].event # NULL => at' = reads'[Len(reads')].event)
    BY <1>1, <1>3, <1>4, <1>5, <1>7
<1>11. \A i \in 1 .. Len(undo) : Recorded(undo[i])'
    BY <1>3, <1>5 DEF Recorded, InputInv
<1>12. \A i \in 1 .. Len(redo) : Recorded(redo[i])'
    BY <1>3, <1>5 DEF Recorded, InputInv
<1>13. QED
    BY <1>3, <1>6, <1>9, <1>10, <1>11, <1>12 DEF InputInv

\* An empty delta has nothing to be wrong about.
LEMMA EmptyRecorded ==
    << >> \in Seq(ReadRec) /\ Len(<< >>) = 0
    /\ << >> \in Seq(Seq(ReadRec))
    BY EmptySeq

\* A stack of deltas, one put on it or taken off it.
LEMMA StackOfDeltas ==
    ASSUME NEW s \in Seq(Seq(ReadRec)), NEW d \in Seq(ReadRec)
    PROVE  /\ Append(s, d) \in Seq(Seq(ReadRec)) /\ Len(Append(s, d)) = Len(s) + 1
           /\ \A i \in 1 .. Len(Append(s, d)) :
                 Append(s, d)[i] = IF i = Len(s) + 1 THEN d ELSE s[i]
           /\ s # << >> =>
                 /\ SubSeq(s, 1, Len(s) - 1) \in Seq(Seq(ReadRec))
                 /\ Len(s) \in 1 .. Len(s) /\ s[Len(s)] \in Seq(ReadRec)
                 /\ Len(SubSeq(s, 1, Len(s) - 1)) = Len(s) - 1
                 /\ \A i \in 1 .. Len(s) - 1 : SubSeq(s, 1, Len(s) - 1)[i] = s[i]
    BY Stack

\* Undoing or redoing a delta moves it from one stack to the other.
LEMMA ApplyKeeps ==
    ASSUME InputInv, ApplyBackward \/ ApplyForward
    PROVE  InputInv' /\ (Short => Short')
<1>1. /\ Inv /\ OnlyCleared /\ at \in Addr /\ UNCHANGED chan
      /\ undo \in Seq(Seq(ReadRec)) /\ redo \in Seq(Seq(ReadRec)) /\ reads' = reads /\ reads = << >>
    BY DEF InputInv, ApplyBackward, ApplyForward
<1>2. UNCHANGED <<Addr, Live, heap>>
    BY <1>1 DEF chan, Addr, Live
<1>3. Inv' /\ OnlyCleared'
    BY <1>1, <1>2, NextInv DEF OnlyCleared
<1>4. ASSUME NEW d \in Seq(ReadRec), NEW link \in {"next", "prev"}
      PROVE  Steps(at, Count(d), link) \in Addr
  <2>1. Count(d) \in Nat /\ Count(d) \in 0 .. Count(d)
      BY LenProperties, InputAssumption DEF Count
  <2>2. QED
      BY <2>1, <1>1, WalkStaysInHeap DEF Steps, WalkFrom
<1>5. CASE ApplyBackward
  <2> DEFINE d == undo[Len(undo)]
  <2>1. /\ undo # << >> /\ at' = Steps(at, Count(d), "prev")
        /\ redo' = Append(redo, d) /\ undo' = SubSeq(undo, 1, Len(undo) - 1)
      BY <1>5 DEF ApplyBackward
  <2>2. /\ d \in Seq(ReadRec) /\ Len(undo) \in 1 .. Len(undo)
        /\ undo' \in Seq(Seq(ReadRec)) /\ Len(undo') = Len(undo) - 1
        /\ \A i \in 1 .. Len(undo) - 1 : undo'[i] = undo[i]
      BY <1>1, <2>1, StackOfDeltas, EmptyRecorded
  <2>3. /\ redo' \in Seq(Seq(ReadRec)) /\ Len(redo') = Len(redo) + 1
        /\ \A i \in 1 .. Len(redo') : redo'[i] = IF i = Len(redo) + 1 THEN d ELSE redo[i]
      BY <1>1, <2>1, <2>2, StackOfDeltas
  <2>4. Len(redo) \in Nat /\ Len(undo) \in Nat
      BY <1>1, LenProperties
  <2>5. Recorded(d)
      BY <2>2 DEF InputInv
  <2>6. at' \in Addr'
      BY <2>1, <2>2, <1>2, <1>4
  <2>7. \A i \in 1 .. Len(undo') : Recorded(undo'[i])
      BY <2>2, <2>4 DEF InputInv
  <2>8. \A i \in 1 .. Len(redo') : Recorded(redo'[i])
    <3>1. \A i \in 1 .. Len(redo) : Recorded(redo[i])
        BY DEF InputInv
    <3>2. \A i \in 1 .. Len(redo') : i = Len(redo) + 1 \/ i \in 1 .. Len(redo)
        BY <2>3, <2>4
    <3> HIDE DEF d
    <3>3. QED
        BY <2>3, <2>5, <3>1, <3>2
  <2>9. InputInv'
    <3>1. (\A i \in 1 .. Len(undo) : Recorded(undo[i]))' /\ (\A i \in 1 .. Len(redo) : Recorded(redo[i]))'
        BY <2>7, <2>8, <1>2 DEF Recorded
    <3>2. Recorded(reads)'
        BY <1>1, <1>2 DEF Recorded, InputInv
    <3>3. QED
        BY <1>1, <1>3, <2>2, <2>3, <2>6, <3>1, <3>2 DEF InputInv
  <2>10. Short => Short'
    <3>1. Short => Len(d) < CountMod
        BY <2>2 DEF Short
    <3> HIDE DEF d
    <3>2. \A i \in 1 .. Len(redo') : i = Len(redo) + 1 \/ i \in 1 .. Len(redo)
        BY <2>3, <2>4
    <3>3. Short => \A i \in 1 .. Len(redo') : Len(redo'[i]) < CountMod
        BY <2>3, <3>1, <3>2 DEF Short
    <3>4. Short => \A i \in 1 .. Len(undo') : Len(undo'[i]) < CountMod
        BY <2>2, <2>4 DEF Short
    <3>5. QED
        BY <3>3, <3>4 DEF Short
  <2>11. QED
      BY <2>9, <2>10
<1>6. CASE ApplyForward
  <2> DEFINE d == redo[Len(redo)]
  <2>1. /\ redo # << >> /\ at' = Steps(at, Count(d), "next")
        /\ undo' = Append(undo, d) /\ redo' = SubSeq(redo, 1, Len(redo) - 1)
      BY <1>6 DEF ApplyForward
  <2>2. /\ d \in Seq(ReadRec) /\ Len(redo) \in 1 .. Len(redo)
        /\ redo' \in Seq(Seq(ReadRec)) /\ Len(redo') = Len(redo) - 1
        /\ \A i \in 1 .. Len(redo) - 1 : redo'[i] = redo[i]
      BY <1>1, <2>1, StackOfDeltas, EmptyRecorded
  <2>3. /\ undo' \in Seq(Seq(ReadRec)) /\ Len(undo') = Len(undo) + 1
        /\ \A i \in 1 .. Len(undo') : undo'[i] = IF i = Len(undo) + 1 THEN d ELSE undo[i]
      BY <1>1, <2>1, <2>2, StackOfDeltas
  <2>4. Len(redo) \in Nat /\ Len(undo) \in Nat
      BY <1>1, LenProperties
  <2>5. Recorded(d)
      BY <2>2 DEF InputInv
  <2>6. at' \in Addr'
      BY <2>1, <2>2, <1>2, <1>4
  <2>7. \A i \in 1 .. Len(redo') : Recorded(redo'[i])
      BY <2>2, <2>4 DEF InputInv
  <2>8. \A i \in 1 .. Len(undo') : Recorded(undo'[i])
    <3>1. \A i \in 1 .. Len(undo) : Recorded(undo[i])
        BY DEF InputInv
    <3>2. \A i \in 1 .. Len(undo') : i = Len(undo) + 1 \/ i \in 1 .. Len(undo)
        BY <2>3, <2>4
    <3> HIDE DEF d
    <3>3. QED
        BY <2>3, <2>5, <3>1, <3>2
  <2>9. InputInv'
    <3>1. (\A i \in 1 .. Len(undo) : Recorded(undo[i]))' /\ (\A i \in 1 .. Len(redo) : Recorded(redo[i]))'
        BY <2>7, <2>8, <1>2 DEF Recorded
    <3>2. Recorded(reads)'
        BY <1>1, <1>2 DEF Recorded, InputInv
    <3>3. QED
        BY <1>1, <1>3, <2>2, <2>3, <2>6, <3>1, <3>2 DEF InputInv
  <2>10. Short => Short'
    <3>1. Short => Len(d) < CountMod
        BY <2>2 DEF Short
    <3> HIDE DEF d
    <3>2. \A i \in 1 .. Len(undo') : i = Len(undo) + 1 \/ i \in 1 .. Len(undo)
        BY <2>3, <2>4
    <3>3. Short => \A i \in 1 .. Len(undo') : Len(undo'[i]) < CountMod
        BY <2>3, <3>1, <3>2 DEF Short
    <3>4. Short => \A i \in 1 .. Len(redo') : Len(redo'[i]) < CountMod
        BY <2>2, <2>4 DEF Short
    <3>5. QED
        BY <3>3, <3>4 DEF Short
  <2>11. QED
      BY <2>9, <2>10
<1>7. QED
    BY <1>5, <1>6

\* A delta goes onto the history.
LEMMA TakeKeeps ==
    ASSUME InputInv, TakeDelta
    PROVE  InputInv' /\ (Short /\ CountFits => Short')
<1>1. /\ Inv /\ OnlyCleared /\ at \in Addr /\ UNCHANGED chan /\ at' = at
      /\ undo \in Seq(Seq(ReadRec)) /\ reads \in Seq(ReadRec) /\ Recorded(reads)
      /\ undo' = Append(undo, reads) /\ redo' = << >> /\ reads' = << >>
    BY DEF InputInv, TakeDelta, Recorded
<1>2. UNCHANGED <<Addr, Live, heap>>
    BY <1>1 DEF chan, Addr, Live
<1>3. Inv' /\ OnlyCleared'
    BY <1>1, <1>2, NextInv DEF OnlyCleared
<1>4. /\ undo' \in Seq(Seq(ReadRec)) /\ Len(undo') = Len(undo) + 1 /\ Len(undo) \in Nat
      /\ \A i \in 1 .. Len(undo') : undo'[i] = IF i = Len(undo) + 1 THEN reads ELSE undo[i]
    BY <1>1, StackOfDeltas, LenProperties
<1>5. \A i \in 1 .. Len(undo') : Recorded(undo'[i])
    BY <1>1, <1>4 DEF InputInv
<1>6. (\A i \in 1 .. Len(undo) : Recorded(undo[i]))' /\ Recorded(reads)'
    BY <1>1, <1>2, <1>5, EmptyRecorded DEF Recorded
<1>7. InputInv'
    BY <1>1, <1>2, <1>3, <1>4, <1>6, EmptyRecorded DEF InputInv
<1>8. Short /\ CountFits => Short'
    BY <1>1, <1>4, EmptyRecorded DEF Short, CountFits
<1>9. QED
    BY <1>7, <1>8

\* Every operation keeps the invariant.
LEMMA InputStep ==
    ASSUME InputInv, [InputNext]_inputVars
    PROVE  InputInv' /\ (Short /\ CountFits => Short')
<1>1. CASE UNCHANGED <<chan, at, reads, undo, redo>>
  <2>1. UNCHANGED <<Addr, Live, heap>>
      BY <1>1 DEF chan, Addr, Live
  <2>2. Inv'
      BY <1>1, NextInv DEF InputInv
  <2>3. QED
      BY <1>1, <2>1, <2>2 DEF InputInv, OnlyCleared, Recorded, Short
<1>2. ASSUME NEW v \in Values, BufferInput(v) PROVE InputInv' /\ (Short /\ CountFits => Short')
  <2>1. Inv' /\ OnlyCleared' /\ Keeps /\ UNCHANGED port
      BY <1>2, BufferKeeps DEF BufferInput
  <2>2. UNCHANGED <<at, reads, undo, redo>>
      BY <2>1 DEF port
  <2>3. \A d : Recorded(d) => Recorded(d)'
    <3>1. Live \subseteq Addr /\ NULL \notin Addr
        BY HeapTypes DEF InputInv
    <3>2. QED
        BY <2>1, <3>1, KeepsRecord
  <2>4. at \in Addr'
      BY <2>1 DEF Keeps, InputInv
  <2>5. /\ Recorded(reads)' /\ (\A i \in 1 .. Len(undo) : Recorded(undo[i]))'
        /\ (\A i \in 1 .. Len(redo) : Recorded(redo[i]))'
    <3>1. Recorded(reads) /\ (\A i \in 1 .. Len(undo) : Recorded(undo[i]))
          /\ (\A i \in 1 .. Len(redo) : Recorded(redo[i]))
        BY DEF InputInv
    <3>2. Recorded(reads)'
        BY <3>1, <2>2, <2>3 DEF Recorded
    <3>3. (\A i \in 1 .. Len(undo) : Recorded(undo[i]))'
      <4>1. SUFFICES ASSUME NEW i \in (1 .. Len(undo))' PROVE Recorded(undo[i])'
          OBVIOUS
      <4>2. PICK d : d = undo[i]
          OBVIOUS
      <4>3. Recorded(d)' /\ undo'[i] = d
          BY <3>1, <4>2, <2>2, <2>3
      <4>4. QED
          BY <4>3 DEF Recorded
    <3>4. (\A i \in 1 .. Len(redo) : Recorded(redo[i]))'
      <4>1. SUFFICES ASSUME NEW i \in (1 .. Len(redo))' PROVE Recorded(redo[i])'
          OBVIOUS
      <4>2. PICK d : d = redo[i]
          OBVIOUS
      <4>3. Recorded(d)' /\ redo'[i] = d
          BY <3>1, <4>2, <2>2, <2>3
      <4>4. QED
          BY <4>3 DEF Recorded
    <3>5. QED
        BY <3>2, <3>3, <3>4
  <2>6. QED
      BY <2>1, <2>2, <2>4, <2>5 DEF InputInv, Short
<1>3. ASSUME NEW v \in Values, ClearInput(v) PROVE InputInv' /\ (Short /\ CountFits => Short')
  <2>1. Inv' /\ OnlyCleared' /\ Addr \subseteq Addr'
      BY <1>3, ClearKeeps
  <2>2. at' = at /\ reads' = << >> /\ undo' = << >> /\ redo' = << >>
      BY <1>3 DEF ClearInput
  <2>3. QED
      BY <2>1, <2>2, EmptyRecorded DEF InputInv, Recorded, Short
<1>4. CASE Read
    BY <1>4, ReadRecords DEF Read, Short
<1>5. CASE Get \/ UNCHANGED inputVars
    BY <1>1, <1>5 DEF Get, inputVars, chan
<1>6. QED
    BY <1>2, <1>3, <1>4, <1>5, TakeKeeps, ApplyKeeps DEF InputNext

\* The port as constructed satisfies the invariant.
LEMMA InputInitInv == InputInit => InputInv /\ Short
<1> SUFFICES ASSUME InputInit PROVE InputInv /\ Short
    OBVIOUS
<1>1. Inv /\ at = head /\ reads = << >> /\ undo = << >> /\ redo = << >>
    BY InitInv DEF InputInit
<1>2. Addr = {1} /\ head = 1 /\ heap[1] = NewEvent(Default, RootPublisher, NULL, 0)
    BY DEF InputInit, ChanInit, Addr
<1>3. OnlyCleared
    BY <1>1, <1>2 DEF OnlyCleared, NewEvent, Live
<1>4. QED
    BY <1>1, <1>2, <1>3, EmptyRecorded DEF InputInv, Recorded, Short

\* So every reachable state satisfies it.
LEMMA InputSpecInv == InputSpec => []InputInv
    BY InputInitInv, InputStep, PTL DEF InputSpec

\* And as long as no delta outgrows its counter, the history holds none that did.
LEMMA InputSpecShort == InputSpec /\ []CountFits => []Short
<1>1. InputInv /\ [InputNext]_inputVars /\ Short /\ CountFits => Short'
    BY InputStep
<1>2. QED
    BY <1>1, InputInitInv, InputSpecInv, PTL DEF InputSpec

\* A read that finds its port short of the tail always moves on, across any number of
\* clears: input that was buffered is never out of reach.
THEOREM InputIsNeverStranded == InputSpec => []NeverStranded
<1>1. InputInv => NeverStranded
    BY StepNext DEF InputInv, NeverStranded
<1>2. QED
    BY <1>1, InputSpecInv, PTL

-----------------------------------------------------------------------------
\* Delivered bytes lie on the chain one after the other.
LEMMA DeliveredInOrder ==
    ASSUME InputInv, NEW d, Recorded(d), AllDelivered(d)
    PROVE  /\ Len(d) \in Nat /\ DOMAIN d = 1 .. Len(d)
           /\ \A i \in 1 .. Len(d) :
                /\ d[i].from \in Live /\ d[i].event \in Live
                /\ Step(d[i].from, "next") = d[i].event
                /\ Step(d[i].event, "prev") = d[i].from
                /\ heap[d[i].event].displacement = heap[d[i].from].displacement + 1
                /\ i > 1 => d[i].from = d[i - 1].event
<1>1. Len(d) \in Nat /\ DOMAIN d = 1 .. Len(d)
    BY LenProperties DEF Recorded
<1>2. Inv /\ Live \subseteq Addr /\ NULL \notin Addr /\ head \in Addr
      /\ heap[head].publisher = RootPublisher
    BY HeapTypes DEF InputInv, OnlyCleared, Inv, ChainIntact
<1>3. ASSUME NEW i \in 1 .. Len(d)
      PROVE  /\ d[i].from \in Live /\ d[i].event \in Live
             /\ Step(d[i].from, "next") = d[i].event
             /\ Step(d[i].event, "prev") = d[i].from
             /\ heap[d[i].event].displacement = heap[d[i].from].displacement + 1
             /\ i > 1 => d[i].from = d[i - 1].event
  <2> DEFINE a == d[i].from
             e == d[i].event
  <2>1. e # NULL /\ heap[e].publisher = Outside
      BY <1>1, <1>3 DEF AllDelivered
  <2>2. e \in Live /\ a \in Live /\ heap[a].next = e
      BY <2>1, <1>3 DEF Recorded
  <2>3. i > 1 => d[i].from = d[i - 1].event
    <3>1. i > 1 => d[i - 1].event # NULL
        BY <1>1, <1>3 DEF AllDelivered
    <3>2. QED
        BY <3>1, <1>3 DEF Recorded
  <2> HIDE DEF a, e
  <2>4. a # tail /\ e # head
      BY <2>1, <2>2, <1>2 DEF Inv, ChainIntact, Outside
  <2>5. heap[e].prev = a /\ heap[e].displacement = heap[a].displacement + 1
    <3>1. heap[heap[a].next].prev = a /\ heap[heap[a].next].displacement = heap[a].displacement + 1
        BY <2>2, <2>4, <1>2 DEF Inv, ChainIntact
    <3>2. QED
        BY <3>1, <2>2
  <2>6. Step(a, "next") = e /\ Step(e, "prev") = a
      BY <2>2, <2>4, <2>5, <1>2, StepNext, StepPrev
  <2>7. QED
      BY <2>2, <2>3, <2>5, <2>6 DEF a, e
<1>4. QED
    BY <1>1, <1>3

\* n calls follow such a path to its end.
LEMMA StepsFollow ==
    ASSUME NEW path, NEW e, NEW n, NEW link, IsPath(path, e, n, link)
    PROVE  Steps(e, n, link) = path[n]
<1>1. Steps(e, n, link) = WalkFrom(e, n, link)[n]
    BY DEF Steps, WalkFrom
<1>2. n \in 0 .. n
    BY DEF IsPath
<1>3. QED
    BY <1>1, <1>2, WalkFollows

\* As many steps back as the delta counted undo its reads, and as many forward redo them.
LEMMA StepsMatchReads ==
    ASSUME InputInv, NEW d, Recorded(d), AllDelivered(d), Len(d) \in 1 .. CountMod - 1
    PROVE  /\ Steps(d[Len(d)].event, Count(d), "prev") = d[1].from
           /\ Steps(d[1].from, Count(d), "next") = d[Len(d)].event
           /\ \A i \in 1 .. Len(d) : Steps(d[1].event, i - 1, "next") = d[i].event
           /\ Steps(d[Len(d)].event, Count(d) - 1, "prev") = d[1].event
<1> DEFINE n == Len(d)
           back == [i \in 0 .. n |-> IF i = 0 THEN d[n].event ELSE d[n + 1 - i].from]
           forth == [i \in 0 .. n |-> IF i = 0 THEN d[1].from ELSE d[i].event]
           rest == [i \in 0 .. n - 1 |-> d[i + 1].event]
<1>1. n \in Nat /\ n # 0 /\ Count(d) = n /\ n \in 0 .. n
    BY InputAssumption DEF Count
<1>2. \A i \in 1 .. n :
         /\ Step(d[i].from, "next") = d[i].event
         /\ Step(d[i].event, "prev") = d[i].from
         /\ i > 1 => d[i].from = d[i - 1].event
    BY DeliveredInOrder
<1> HIDE DEF n
<1>3. \A i \in 1 .. n : back[i] = Step(back[i - 1], "prev")
  <2>1. ASSUME NEW i \in 1 .. n PROVE back[i] = Step(back[i - 1], "prev")
    <3>1. n + 1 - i \in 1 .. n /\ back[i] = d[n + 1 - i].from
        BY <1>1
    <3>2. back[i - 1] = d[n + 1 - i].event
      <4>1. CASE i = 1
          BY <4>1, <1>1
      <4>2. CASE i # 1
        <5> DEFINE j == n + 1 - (i - 1)
        <5>1. j \in 1 .. n /\ j > 1 /\ j - 1 = n + 1 - i /\ i - 1 \in 0 .. n /\ i - 1 # 0
            BY <4>2, <1>1
        <5>2. back[i - 1] = d[j].from
            BY <5>1
        <5>3. d[j].from = d[j - 1].event
            BY <5>1, <1>2
        <5>4. QED
            BY <5>1, <5>2, <5>3
      <4>3. QED
          BY <4>1, <4>2
    <3>3. QED
        BY <3>1, <3>2, <1>2
  <2>2. QED
      BY <2>1
<1>4. \A i \in 1 .. n : forth[i] = Step(forth[i - 1], "next")
  <2>1. ASSUME NEW i \in 1 .. n PROVE forth[i] = Step(forth[i - 1], "next")
    <3>1. forth[i - 1] = d[i].from
        BY <1>1, <1>2
    <3>2. QED
        BY <3>1, <1>1, <1>2
  <2>2. QED
      BY <2>1
<1>5. \A i \in 1 .. n - 1 : rest[i] = Step(rest[i - 1], "next")
  <2>1. ASSUME NEW i \in 1 .. n - 1 PROVE rest[i] = Step(rest[i - 1], "next")
    <3>1. i + 1 \in 1 .. n /\ i + 1 > 1 /\ i + 1 - 1 = i /\ i - 1 + 1 = i
          /\ i \in 0 .. n - 1 /\ i - 1 \in 0 .. n - 1
        BY <1>1
    <3>2. rest[i] = d[i + 1].event /\ rest[i - 1] = d[i].event
        BY <3>1
    <3>3. QED
        BY <3>1, <3>2, <1>2
  <2>2. QED
      BY <2>1
<1> DEFINE last == d[n].event
           first == d[1].from
           second == d[1].event
<1>6. /\ back[0] = last /\ forth[0] = first /\ rest[0] = second
      /\ back[n] = d[1].from /\ forth[n] = d[n].event
      /\ \A i \in 1 .. n : i - 1 \in 0 .. n - 1 /\ rest[i - 1] = d[i].event
  <2>1. 0 \in 0 .. n /\ 0 \in 0 .. n - 1 /\ n \in 0 .. n /\ n + 1 - n = 1
      BY <1>1
  <2>2. \A i \in 1 .. n : i - 1 \in 0 .. n - 1 /\ i - 1 + 1 = i
      BY <1>1
  <2>3. \A i \in 1 .. n : rest[i - 1] = d[i].event
      BY <2>2
  <2>4. QED
      BY <2>1, <2>2, <2>3, <1>1
<1> HIDE DEF back, forth, rest, last, first, second
<1>7. Steps(last, n, "prev") = back[n]
  <2>1. IsPath(back, last, n, "prev")
      BY <1>1, <1>3, <1>6 DEF IsPath
  <2>2. QED
      BY <2>1, StepsFollow
<1>8. Steps(first, n, "next") = forth[n]
  <2>1. IsPath(forth, first, n, "next")
      BY <1>1, <1>4, <1>6 DEF IsPath
  <2>2. QED
      BY <2>1, StepsFollow
<1>9. ASSUME NEW i \in 1 .. n PROVE Steps(second, i - 1, "next") = rest[i - 1]
  <2>1. i - 1 \in Nat /\ \A k \in 1 .. i - 1 : k \in 1 .. n - 1
      BY <1>1
  <2>2. IsPath(rest, second, i - 1, "next")
      BY <2>1, <1>5, <1>6 DEF IsPath
  <2>3. QED
      BY <2>2, StepsFollow
<1>10. Steps(last, n - 1, "prev") = back[n - 1] /\ back[n - 1] = second
  <2>1. n - 1 \in Nat /\ \A k \in 1 .. n - 1 : k \in 1 .. n
      BY <1>1
  <2>2. Steps(last, n - 1, "prev") = back[n - 1]
    <3>1. IsPath(back, last, n - 1, "prev")
        BY <2>1, <1>3, <1>6 DEF IsPath
    <3>2. QED
        BY <3>1, StepsFollow
  <2>3. back[n - 1] = second
    <3>1. CASE n = 1
        BY <3>1, <1>6 DEF last, second
    <3>2. CASE n # 1
      <4>1. n - 1 \in 0 .. n /\ n - 1 # 0 /\ n + 1 - (n - 1) = 2 /\ 2 \in 1 .. n /\ 2 - 1 = 1
          BY <3>2, <1>1
      <4>2. back[n - 1] = d[2].from
          BY <4>1 DEF back
      <4>3. QED
          BY <4>1, <4>2, <1>2 DEF second
    <3>3. QED
        BY <3>1, <3>2
  <2>4. QED
      BY <2>2, <2>3
<1>11. QED
    BY <1>1, <1>6, <1>7, <1>8, <1>9, <1>10 DEF n, last, first, second

\* The port stands, after undoing or redoing a delta, exactly where it stood before.
THEOREM UndoRedoIsExact == InputSpec /\ []CountFits => UndoRedoExact
<1> DEFINE Exact ==
        LET undone == redo'[Len(redo')]
            redone == undo'[Len(undo')]
        IN  /\ ApplyBackward /\ undone # << >> /\ AllDelivered(undone)
               => (at = undone[Len(undone)].event => at' = undone[1].from)
            /\ ApplyForward /\ redone # << >> /\ AllDelivered(redone)
               => (at = redone[1].from => at' = redone[Len(redone)].event)
<1>1. ASSUME InputInv, Short PROVE Exact
  <2>1. undo \in Seq(Seq(ReadRec)) /\ redo \in Seq(Seq(ReadRec))
      BY <1>1 DEF InputInv
  <2>2. ASSUME NEW d \in Seq(ReadRec), d # << >>, Len(d) < CountMod
        PROVE  Len(d) \in 1 .. CountMod - 1
    <3>1. Len(d) \in Nat /\ Len(d) # 0
        BY <2>2, LenProperties, EmptySeq
    <3>2. QED
        BY <2>2, <3>1, InputAssumption
  <2>3. ASSUME ApplyBackward, redo'[Len(redo')] # << >>, AllDelivered(redo'[Len(redo')]),
               at = redo'[Len(redo')][Len(redo'[Len(redo')])].event
        PROVE  at' = redo'[Len(redo')][1].from
    <3>1. PICK d : d = undo[Len(undo)]
        OBVIOUS
    <3>2. undo # << >> /\ at' = Steps(at, Count(d), "prev") /\ redo' = Append(redo, d)
        BY <2>3, <3>1 DEF ApplyBackward
    <3>3. d \in Seq(ReadRec) /\ Len(undo) \in 1 .. Len(undo) /\ Recorded(d) /\ Len(d) < CountMod
        BY <1>1, <2>1, <3>1, <3>2, StackOfDeltas, EmptyRecorded DEF InputInv, Short
    <3>4. redo'[Len(redo')] = d
      <4>1. Len(redo) \in Nat /\ Len(redo') = Len(redo) + 1
            /\ \A i \in 1 .. Len(redo') : redo'[i] = IF i = Len(redo) + 1 THEN d ELSE redo[i]
          BY <2>1, <3>2, <3>3, StackOfDeltas, LenProperties
      <4>2. QED
          BY <4>1
    <3>5. Len(d) \in 1 .. CountMod - 1 /\ AllDelivered(d) /\ at = d[Len(d)].event
        BY <2>2, <2>3, <3>3, <3>4
    <3>6. QED
        BY <1>1, <3>2, <3>3, <3>4, <3>5, StepsMatchReads
  <2>4. ASSUME ApplyForward, undo'[Len(undo')] # << >>, AllDelivered(undo'[Len(undo')]),
               at = undo'[Len(undo')][1].from
        PROVE  at' = undo'[Len(undo')][Len(undo'[Len(undo')])].event
    <3>1. PICK d : d = redo[Len(redo)]
        OBVIOUS
    <3>2. redo # << >> /\ at' = Steps(at, Count(d), "next") /\ undo' = Append(undo, d)
        BY <2>4, <3>1 DEF ApplyForward
    <3>3. d \in Seq(ReadRec) /\ Len(redo) \in 1 .. Len(redo) /\ Recorded(d) /\ Len(d) < CountMod
        BY <1>1, <2>1, <3>1, <3>2, StackOfDeltas, EmptyRecorded DEF InputInv, Short
    <3>4. undo'[Len(undo')] = d
      <4>1. Len(undo) \in Nat /\ Len(undo') = Len(undo) + 1
            /\ \A i \in 1 .. Len(undo') : undo'[i] = IF i = Len(undo) + 1 THEN d ELSE undo[i]
          BY <2>1, <3>2, <3>3, StackOfDeltas, LenProperties
      <4>2. QED
          BY <4>1
    <3>5. Len(d) \in 1 .. CountMod - 1 /\ AllDelivered(d) /\ at = d[1].from
        BY <2>2, <2>4, <3>3, <3>4
    <3>6. QED
        BY <1>1, <3>2, <3>3, <3>4, <3>5, StepsMatchReads
  <2>5. QED
      BY <2>3, <2>4
<1>2. InputInv /\ Short => [Exact]_inputVars
    BY <1>1
<1>3. InputSpec /\ []CountFits => []InputInv /\ []Short
    BY InputSpecInv, InputSpecShort
<1> HIDE DEF Exact
<1>4. InputSpec /\ []CountFits => [][Exact]_inputVars
    BY <1>2, <1>3, PTL
<1>5. QED
    BY <1>4 DEF Exact, UndoRedoExact

\* Each byte of a delta lies one further from its last than the byte after it.
LEMMA DeliveredSpan ==
    ASSUME InputInv, NEW d, Recorded(d), AllDelivered(d), Len(d) # 0
    PROVE  heap[d[Len(d)].event].displacement - heap[d[1].event].displacement + 1 = Len(d)
<1> DEFINE n == Len(d)
           disp(i) == heap[d[i].event].displacement
           Bad == {i \in 1 .. n : disp(i) # disp(1) + i - 1}
<1>1. n \in Nat \ {0}
    BY DeliveredInOrder
<1>2. \A i \in 1 .. n : disp(i) \in Nat /\ (i > 1 => disp(i) = disp(i - 1) + 1)
  <2>1. ASSUME NEW i \in 1 .. n PROVE disp(i) \in Nat /\ (i > 1 => disp(i) = disp(i - 1) + 1)
    <3>1. /\ d[i].event \in Live /\ heap[d[i].event].displacement = heap[d[i].from].displacement + 1
          /\ i > 1 => d[i].from = d[i - 1].event
        BY DeliveredInOrder
    <3>2. heap[d[i].event].displacement \in Nat
        BY <3>1, HeapTypes DEF InputInv
    <3>3. QED
        BY <3>1, <3>2
  <2>2. QED
      BY <2>1
<1> HIDE DEF n, disp
<1>3. Bad = {}
  <2>1. SUFFICES ASSUME Bad # {} PROVE FALSE
      OBVIOUS
  <2>2. PICK i \in Bad : \A k \in Bad : i <= k
    <3>1. Bad \subseteq Nat
        OBVIOUS
    <3> HIDE DEF Bad
    <3>2. QED
        BY <2>1, <3>1, Least
  <2>3. 1 \in 1 .. n /\ disp(1) \in Nat
      BY <1>1, <1>2
  <2>4. i # 1 /\ i - 1 \in 1 .. n
    <3>1. disp(1) = disp(1) + 1 - 1
        BY <2>3
    <3>2. i \in 1 .. n /\ disp(i) # disp(1) + i - 1
        OBVIOUS
    <3>3. QED
        BY <3>1, <3>2, <1>1
  <2>5. i - 1 \notin Bad
      BY <2>2, <2>4
  <2>6. QED
      BY <2>3, <2>4, <2>5, <1>2
<1>4. n \in 1 .. n /\ 1 \in 1 .. n /\ disp(n) = disp(1) + n - 1
    BY <1>1, <1>3
<1>5. QED
    BY <1>1, <1>2, <1>4 DEF n, disp

\* Iterating over the open delta yields what it read, once all input has been read.
THEOREM IterationIsExact == InputSpec /\ []CountFits => []IteratesOverReads
<1>1. ASSUME InputInv, CountFits, reads # << >>, AllDelivered(reads), at = tail
      PROVE  Iterated(Count(reads)) = [i \in DOMAIN reads |-> reads[i].event]
  <2> DEFINE n == Len(reads)
             first == reads[1].event
  <2>1. /\ Recorded(reads) /\ reads \in Seq(ReadRec) /\ n \in Nat /\ n # 0
        /\ DOMAIN reads = 1 .. n /\ n \in 1 .. CountMod - 1
    <3>1. Recorded(reads) /\ reads \in Seq(ReadRec)
        BY <1>1 DEF InputInv, Recorded
    <3>2. n \in Nat /\ n # 0 /\ DOMAIN reads = 1 .. n
        BY <3>1, <1>1, LenProperties, EmptySeq
    <3>3. QED
        BY <3>1, <3>2, <1>1, InputAssumption DEF CountFits
  <2>2. tail = reads[n].event
    <3>1. n \in DOMAIN reads
        BY <2>1
    <3>2. QED
        BY <3>1, <1>1 DEF InputInv, AllDelivered
  <2>3. Count(reads) = n
    <3>1. Count(reads) = n % CountMod /\ n < CountMod /\ CountMod \in Nat \ {0}
        BY <2>1, InputAssumption DEF Count
    <3> HIDE DEF n
    <3>2. QED
        BY <3>1, <2>1
  <2>4. /\ Steps(tail, Count(reads) - 1, "prev") = first
        /\ \A i \in 1 .. n : Steps(first, i - 1, "next") = reads[i].event
      BY <1>1, <2>1, <2>2, StepsMatchReads
  <2>5. heap[tail].displacement - heap[first].displacement + 1 = n
      BY <1>1, <2>1, <2>2, DeliveredSpan
  <2>6. Iterated(Count(reads)) = IteratedFrom(first)
      BY <2>1, <2>3, <2>4 DEF Iterated
  <2> HIDE DEF n, first
  <2>7. QED
      BY <2>1, <2>4, <2>5, <2>6 DEF IteratedFrom
<1>2. InputInv /\ CountFits => IteratesOverReads
    BY <1>1 DEF IteratesOverReads
<1>3. QED
    BY <1>2, InputSpecInv, PTL

-----------------------------------------------------------------------------
(* Endpoints. *)

\* Every endpoint points at an event that was allocated, or at nothing.
EpInv ==
    /\ Inv
    /\ stands \in Seq(Nat) /\ Len(stands) <= MaxEndpoints
    /\ \A k \in Endpoint : stands[k] \in Addr \cup {NULL}

\* A call that moves an endpoint, or adds one, and leaves the graph alone.
LEMMA MoveKeeps ==
    ASSUME EpInv, UNCHANGED chan, NEW e \in Addr \cup {NULL},
           \/ \E k \in Endpoint : stands' = [stands EXCEPT ![k] = e]
           \/ stands' = Append(stands, e) /\ Len(stands) < MaxEndpoints
           \/ stands' = stands
    PROVE  EpInv'
<1>1. Inv' /\ Addr' = Addr
    BY NextInv DEF EpInv, chan, Addr
<1>2. e \in Nat /\ stands \in Seq(Nat) /\ Len(stands) \in Nat
    BY HeapTypes DEF EpInv
<1>3. CASE \E k \in Endpoint : stands' = [stands EXCEPT ![k] = e]
  <2>1. PICK k \in Endpoint : stands' = [stands EXCEPT ![k] = e]
      BY <1>3
  <2>2. /\ stands' \in Seq(Nat) /\ Len(stands') = Len(stands)
        /\ \A j \in 1 .. Len(stands) : stands'[j] = IF j = k THEN e ELSE stands[j]
      BY <2>1, <1>2, ExceptSeq DEF Endpoint
  <2>3. QED
      BY <2>2, <1>1 DEF EpInv, Endpoint
<1>4. CASE stands' = Append(stands, e) /\ Len(stands) < MaxEndpoints
  <2>1. /\ stands' \in Seq(Nat) /\ Len(stands') = Len(stands) + 1 /\ stands'[Len(stands) + 1] = e
        /\ \A j \in 1 .. Len(stands) : stands'[j] = stands[j]
      BY <1>2, <1>4, AppendProperties
  <2>2. QED
      BY <2>1, <1>1, <1>2, <1>4, EndpointsAssumption DEF EpInv, Endpoint
<1>5. CASE stands' = stands
    BY <1>1, <1>5 DEF EpInv, Endpoint
<1>6. QED
    BY <1>3, <1>4, <1>5

\* A call that changes the graph and moves the caller to the new tail.
LEMMA ChangeKeeps ==
    ASSUME EpInv, ChanNext, NEW k \in Endpoint, stands' = [stands EXCEPT ![k] = tail'] \/ stands' = stands
    PROVE  EpInv'
<1>1. Inv' /\ Addr \subseteq Addr' /\ tail' \in Addr'
    BY HeapGrows DEF EpInv
<1>2. tail' \in Nat
    BY <1>1 DEF Addr
<1>3. Addr \subseteq Addr'
    BY <1>1
<1>4. CASE stands' = [stands EXCEPT ![k] = tail']
  <2>1. /\ stands' \in Seq(Nat) /\ Len(stands') = Len(stands)
        /\ \A j \in 1 .. Len(stands) : stands'[j] = IF j = k THEN tail' ELSE stands[j]
      BY <1>2, <1>4, ExceptSeq DEF EpInv, Endpoint
  <2>2. QED
      BY <2>1, <1>1, <1>2, <1>3 DEF EpInv, Endpoint
<1>5. CASE stands' = stands
    BY <1>5, <1>1, <1>3 DEF EpInv, Endpoint
<1>6. QED
    BY <1>4, <1>5

\* Every call is one of the channel's operations or leaves the channel alone, and
\* keeps the endpoints in the heap.
LEMMA EpStep ==
    ASSUME EpInv, EpNext
    PROVE  EpInv' /\ [ChanNext]_chan
<1> USE DEF Crash, MoveTo
<1>1. /\ Inv /\ NULL \in Addr \cup {NULL} /\ tail \in Addr
      /\ stands \in Seq(Nat) /\ Endpoint = 1 .. Len(stands) /\ Len(stands) \in Nat
      /\ \A k \in Endpoint : stands[k] \in Addr \cup {NULL} /\ k \in Publishers
  <2>1. Inv /\ stands \in Seq(Nat) /\ Endpoint = 1 .. Len(stands) /\ Len(stands) \in Nat /\ Len(stands) <= MaxEndpoints
        /\ \A k \in Endpoint : stands[k] \in Addr \cup {NULL}
      BY DEF EpInv, Endpoint
  <2>2. tail \in Addr
      BY <2>1, HeapTypes
  <2>3. \A k \in 1 .. Len(stands) : k \in 1 .. MaxEndpoints
      BY <2>1, EndpointsAssumption
  <2>4. QED
      BY <2>1, <2>2, <2>3, EndpointsAssumption
<1>2. CASE UNCHANGED <<chan, stands>>
    BY <1>1, <1>2, MoveKeeps
<1>3. CASE NewEndpoint
    BY <1>1, <1>3, MoveKeeps DEF NewEndpoint
<1>4. ASSUME NEW k \in Endpoint, Clone(k) PROVE EpInv' /\ [ChanNext]_chan
  <2>1. CASE stands[k] = NULL
      BY <2>1, <1>2, <1>4 DEF Clone
  <2>2. CASE stands[k] # NULL
    <3> DEFINE time == heap[stands[k]].displacement
               e == IF EventExists(time) THEN EventAt(time) ELSE NULL
    <3>1. stands[k] \in Addr /\ time \in Nat
        BY <1>1, <2>2, HeapTypes
    <3>2. e \in Addr \cup {NULL}
        BY <3>1, <1>1, EventAtIsLive, HeapTypes
    <3>3. stands' = Append(stands, e) /\ Len(stands) < MaxEndpoints /\ UNCHANGED chan
        BY <2>2, <1>4 DEF Clone
    <3> HIDE DEF e
    <3>4. QED
        BY <3>2, <3>3, MoveKeeps
  <2>3. QED
      BY <2>1, <2>2
<1>5. ASSUME NEW k \in Endpoint, SetToHead(k) \/ SetToTail(k) PROVE EpInv' /\ [ChanNext]_chan
  <2>1. EventAt(0) \in Addr
    <3>1. EventExists(0)
        BY <1>1, HeapTypes DEF EventExists
    <3>2. QED
        BY <3>1, <1>1, EventAtIsLive, HeapTypes
  <2>2. QED
      BY <2>1, <1>1, <1>5, MoveKeeps DEF SetToHead, SetToTail
<1>6. ASSUME NEW k \in Endpoint, NextValue(k) \/ Unread(k) PROVE EpInv' /\ [ChanNext]_chan
  <2>1. CASE stands[k] = NULL
      BY <2>1, <1>2, <1>6 DEF NextValue, Unread
  <2>2. CASE stands[k] # NULL
    <3>1. Step(stands[k], "next") \in Addr /\ Step(stands[k], "prev") \in Addr
        BY <2>2, <1>1, StepNext, StepPrev
    <3>2. QED
        BY <3>1, <2>2, <1>6, MoveKeeps DEF NextValue, Unread
  <2>3. QED
      BY <2>1, <2>2
<1>7. ASSUME NEW k \in Endpoint, NEW v \in Values, AppendValue(k, v) PROVE EpInv' /\ [ChanNext]_chan
  <2>1. ChanNext
      BY <1>1, <1>7 DEF AppendValue, ChanNext
  <2>2. QED
      BY <2>1, <1>7, ChangeKeeps DEF AppendValue
<1>8. ASSUME NEW k \in Endpoint, Unwrite(k) PROVE EpInv' /\ [ChanNext]_chan
  <2>1. CASE stands[k] = NULL \/ ~EventExists(heap[stands[k]].displacement)
      BY <2>1, <1>2, <1>8 DEF Unwrite
  <2>2. CASE stands[k] # NULL /\ EventExists(heap[stands[k]].displacement)
    <3> DEFINE time == heap[stands[k]].displacement
    <3>1. stands[k] \in Addr /\ time \in 0 .. heap[tail].displacement
        BY <1>1, <2>2, HeapTypes DEF EventExists
    <3>2. RevertEvent(k, time) /\ stands' = [stands EXCEPT ![k] = tail']
        BY <2>2, <1>8 DEF Unwrite
    <3>3. ChanNext
        BY <3>1, <3>2, <1>1 DEF ChanNext
    <3>4. QED
        BY <3>2, <3>3, ChangeKeeps
  <2>3. QED
      BY <2>1, <2>2
<1>9. ASSUME NEW v \in Values, ClearChannel(v) PROVE EpInv' /\ [ChanNext]_chan
  <2>1. ChanNext /\ stands' = stands
      BY <1>9 DEF ClearChannel, ChanNext
  <2>2. Inv' /\ Addr \subseteq Addr'
      BY <2>1, <1>1, HeapGrows
  <2>3. QED
      BY <2>1, <2>2 DEF EpInv, Endpoint
<1>10. QED
    BY <1>3, <1>4, <1>5, <1>6, <1>7, <1>8, <1>9 DEF EpNext

\* The invariant holds in every behaviour of the endpoints.
LEMMA EpSpecInv == EpSpec => []EpInv
<1>1. EpInit => EpInv
  <2>1. ASSUME EpInit PROVE EpInv
    <3>1. Inv /\ stands = << >>
        BY <2>1, InitInv DEF EpInit
    <3>2. stands \in Seq(Nat) /\ Len(stands) = 0
        BY <3>1, EmptySeq
    <3>3. QED
        BY <3>1, <3>2, EndpointsAssumption DEF EpInv, Endpoint
  <2>2. QED
      BY <2>1
<1>2. EpInv /\ [EpNext]_epvars => EpInv'
  <2>1. ASSUME EpInv, UNCHANGED epvars PROVE EpInv'
      BY <2>1, MoveKeeps DEF epvars, chan
  <2>2. QED
      BY <2>1, EpStep
<1>3. QED
    BY <1>1, <1>2, PTL DEF EpSpec

\* The channel does nothing but append, revert to an event of the chain, and clear.
LEMMA EndpointsUseTheChannel == EpSpec => ChanSpec
<1>1. EpInit => ChanInit
    BY DEF EpInit
<1>2. EpInv /\ [EpNext]_epvars => [ChanNext]_chan
    BY EpStep DEF epvars, chan
<1>3. QED
    BY <1>1, <1>2, EpSpecInv, PTL DEF EpSpec, ChanSpec

\* next_value of a reader on the chain returns the value published right after the one
\* it stands on, if there is one, and its own otherwise.
LEMMA ReadsTheNext ==
    ASSUME Inv, NEW k \in Endpoint, stands[k] \in Live,
           NextValue(k), ~crashed', stands \in Seq(Nat)
    PROVE  IF Pending(k) = {} THEN stands'[k] = stands[k]
           ELSE heap[stands'[k]].displacement = heap[stands[k]].displacement + 1 /\ stands'[k] \in Live
<1>1. stands[k] \in Addr /\ stands[k] # NULL /\ heap[tail].displacement \in Nat
      /\ heap[stands[k]].displacement \in Nat /\ tail \in Live
    BY HeapTypes
<1>2. stands'[k] = Step(stands[k], "next")
    BY <1>1 DEF NextValue, MoveTo, Endpoint
<1>3. CASE stands[k] = tail
  <2>1. Pending(k) = {}
      BY <1>1, <1>3, HeapTypes DEF Pending, Inv, OneEventPerTime
  <2>2. QED
      BY <2>1, <1>1, <1>2, <1>3, StepNext
<1>4. CASE stands[k] # tail
  <2>1. /\ heap[stands[k]].next \in Live
        /\ heap[heap[stands[k]].next].displacement = heap[stands[k]].displacement + 1
      BY <1>4 DEF Inv, ChainIntact
  <2>2. Pending(k) # {}
    <3>1. heap[stands[k]].next \in Pending(k)
        BY <2>1, <1>1 DEF Pending
    <3>2. QED
        BY <3>1
  <2>3. QED
      BY <2>1, <2>2, <1>1, <1>2, <1>4, StepNext
<1>5. QED
    BY <1>3, <1>4

\* A reader on the chain that calls next_value misses no value, however many publishers
\* wrote, reverted or cleared before.
THEOREM NextValueSkipsNothing == EpSpec => NoValueSkipped
<1>1. EpInv /\ [EpNext]_epvars =>
         [\A k \in Endpoint :
            NextValue(k) /\ ~crashed' /\ stands[k] \in Live =>
               IF Pending(k) = {} THEN stands'[k] = stands[k]
               ELSE heap[stands'[k]].displacement = heap[stands[k]].displacement + 1
                    /\ stands'[k] \in Live]_epvars
    BY ReadsTheNext DEF EpInv
<1>2. QED
    BY <1>1, EpSpecInv, PTL DEF EpSpec, NoValueSkipped

\* An endpoint that moves while the graph stays as it is lands on a value.
LEMMA MovesOntoValues ==
    ASSUME EpInv, EpNext, NEW k \in Endpoint, Moves(k)
    PROVE  ~heap[stands'[k]].empty
<1>1. /\ Inv /\ stands \in Seq(Nat) /\ Endpoint = 1 .. Len(stands) /\ Len(stands) \in Nat /\ DOMAIN stands = 1 .. Len(stands)
      /\ \A j \in Endpoint : stands[j] \in Addr \cup {NULL}
      /\ \A e \in Live : ~heap[e].empty
    BY DEF EpInv, Endpoint, Live
<1>2. stands[k] \in Addr /\ stands'[k] # stands[k] /\ Len(stands') = Len(stands) /\ UNCHANGED chan
    BY <1>1 DEF Moves
<1>3. ASSUME NEW e, stands' = Append(stands, e) PROVE FALSE
  <2>1. Len(stands') = Len(stands) + 1
      BY <1>1, <1>3
  <2>2. QED
      BY <2>1, <1>1, <1>2
<1>4. stands' # stands
    BY <1>2
<1>5. ASSUME NEW j \in Endpoint, NEW e, stands' = [stands EXCEPT ![j] = e] PROVE j = k /\ stands'[k] = e
    BY <1>1, <1>2, <1>5
<1>6. CASE NewEndpoint \/ \E j \in Endpoint : Clone(j)
    BY <1>3, <1>4, <1>6 DEF NewEndpoint, Clone, Crash
<1>7. ASSUME NEW j \in Endpoint, SetToHead(j) \/ SetToTail(j) PROVE ~heap[stands'[k]].empty
  <2>1. EventAt(0) \in Live /\ tail \in Live
    <3>1. EventExists(0)
        BY <1>1, HeapTypes DEF EventExists
    <3>2. QED
        BY <3>1, <1>1, EventAtIsLive, HeapTypes
  <2>2. stands'[k] \in {EventAt(0), tail}
      BY <1>5, <1>7 DEF SetToHead, SetToTail, MoveTo
  <2>3. QED
      BY <2>1, <2>2, <1>1
<1>8. ASSUME NEW j \in Endpoint, NextValue(j) \/ Unread(j) PROVE ~heap[stands'[k]].empty
  <2>1. \E e \in {Step(stands[j], "next"), Step(stands[j], "prev")} : stands' = [stands EXCEPT ![j] = e]
      BY <1>4, <1>8 DEF NextValue, Unread, Crash, MoveTo
  <2>2. stands'[k] \in {Step(stands[k], "next"), Step(stands[k], "prev")}
      BY <2>1, <1>5
  <2>3. QED
      BY <2>2, <1>1, <1>2, StepNext, StepPrev
<1>9. ASSUME NEW j \in Endpoint, NEW v \in Values, AppendValue(j, v) PROVE FALSE
  <2>1. allocated' = allocated /\ allocated' = allocated + 1
      BY <1>2, <1>9 DEF AppendValue, AppendEvent, chan
  <2>2. QED
      BY <2>1, <1>1 DEF Inv, ChanTypeOK
<1>10. ASSUME NEW j \in Endpoint, Unwrite(j) PROVE ~heap[stands'[k]].empty
  <2>1. stands' = [stands EXCEPT ![j] = tail']
      BY <1>4, <1>10 DEF Unwrite, Crash
  <2>2. stands'[k] = tail
      BY <2>1, <1>2, <1>5 DEF chan
  <2>3. QED
      BY <2>2, <1>1, HeapTypes
<1>11. ASSUME NEW v \in Values, ClearChannel(v) PROVE FALSE
    BY <1>4, <1>11 DEF ClearChannel
<1>12. QED
    BY <1>6, <1>7, <1>8, <1>9, <1>10, <1>11 DEF EpNext

\* Wherever a reader stands, on an event undone any number of times over included, a
\* call that moves it takes it to an event that was never reverted.
THEOREM UndoneIsNeverDelivered == EpSpec => NeverDeliversUndone
<1>1. EpInv /\ [EpNext]_epvars => [\A k \in Endpoint : Moves(k) => ~heap[stands'[k]].empty]_epvars
    BY MovesOntoValues
<1>2. QED
    BY <1>1, EpSpecInv, PTL DEF EpSpec, NeverDeliversUndone

\* Off the chain, a step along either link leads onto it or to a replaced head, and from
\* a replaced head to a younger one.
LEMMA StraysStep ==
    ASSUME Inv, NEW e \in Addr, e \notin Live, NEW link \in {"next", "prev"}
    PROVE  LET s == Step(e, link)
           IN  s \in Live \/ (Replaced(s) /\ (Replaced(e) => s > e))
<1> DEFINE s == Step(e, link)
<1>1. /\ heap[e].next \in Addr /\ heap[e].prev = heap[e].next
      /\ Replaced(e) => heap[e].next > e /\ ~heap[heap[e].next].empty
    BY DEF Inv, ForcedTransitionsEnd, Replaced
<1>2. e # head /\ e # tail
    BY DEF Inv, ChainIntact
<1>3. s \in Addr /\ ~heap[s].empty
    BY <1>2, StepNext, StepPrev
<1>4. Replaced(e) => s > e
  <2>1. Replaced(e) => s = heap[e].next
      BY <1>1, StepNext, StepPrev
  <2>2. QED
      BY <1>1, <2>1
<1>5. QED
    BY <1>3, <1>4 DEF Replaced

\* No reader is stranded off the chain, whatever was undone and cleared under it.
THEOREM StraysAlwaysComeBack == EpSpec => []StraysComeBack
<1>1. EpInv => StraysComeBack
    BY StraysStep DEF EpInv, StraysComeBack
<1>2. QED
    BY <1>1, EpSpecInv, PTL

\* So the log that a channel promises is kept under every client of the channel.
THEOREM EndpointsKeepTheLog == EpSpec => ImplementsLog
<1>1. QED
    BY EndpointsUseTheChannel, GraphImplementsLog

-----------------------------------------------------------------------------
(* The pointer walks. *)

\* A loop that follows a link ends, and so defines a function, if something gets
\* smaller with each link it follows.
LoopShrinks(S, V, B, rank, Stop, succ, base, op) ==
    /\ B \in Nat /\ rank \in [S -> 0 .. B]
    /\ \A a \in S : a \in Stop => base[a] \in V
    /\ \A a \in S : a \notin Stop => succ[a] \in S /\ rank[succ[a]] < rank[a]
    /\ \A a \in S, v \in V : a \notin Stop => op[a][v] \in V

LoopFunction(S, V, Stop, succ, base, op) ==
    \E f \in [S -> V] :
        \A a \in S : f[a] = IF a \in Stop THEN base[a] ELSE op[a][f[succ[a]]]

\* A loop that comes closer to its end with every turn defines a function.
LEMMA LoopDefines ==
    ASSUME NEW S, NEW V, NEW B, NEW rank, NEW Stop, NEW succ, NEW base, NEW op,
           LoopShrinks(S, V, B, rank, Stop, succ, base, op)
    PROVE  LoopFunction(S, V, Stop, succ, base, op)
<1> USE DEF LoopShrinks, LoopFunction
<1> DEFINE Below(n) == {a \in S : rank[a] < n}
           Upto(n, f) == /\ f \in [Below(n) -> V]
                         /\ \A a \in Below(n) : f[a] = IF a \in Stop THEN base[a] ELSE op[a][f[succ[a]]]
           Bad == {n \in Nat : ~ \E f : Upto(n, f)}
<1>1. Bad = {}
  <2>1. SUFFICES ASSUME Bad # {} PROVE FALSE
      OBVIOUS
  <2>2. PICK n \in Bad : \A m \in Bad : n <= m
    <3>1. Bad \subseteq Nat
        OBVIOUS
    <3> HIDE DEF Bad
    <3>2. QED
        BY <2>1, <3>1, Least
  <2>3. n # 0
    <3>1. Below(0) = {}
        OBVIOUS
    <3>2. Upto(0, [a \in {} |-> a])
        BY <3>1
    <3> HIDE DEF Upto
    <3>3. \E f : Upto(0, f)
        BY <3>2
    <3>4. QED
        BY <3>3
  <2>4. PICK f : Upto(n - 1, f)
    <3>1. n - 1 \in Nat /\ ~ (n <= n - 1)
        BY <2>3
    <3>2. QED
        BY <3>1, <2>2
  <2> DEFINE g == [a \in Below(n) |-> IF a \in Stop THEN base[a] ELSE op[a][f[succ[a]]]]
  <2>5. ASSUME NEW a \in Below(n), a \notin Stop
        PROVE  succ[a] \in Below(n - 1) /\ succ[a] \in Below(n)
      BY <2>5, <2>3
  <2>6. \A a \in Below(n - 1) : a \in Below(n) /\ g[a] = f[a] /\ f[a] \in V
      BY <2>4, <2>3
  <2>7. ASSUME NEW a \in Below(n)
        PROVE  g[a] \in V /\ g[a] = IF a \in Stop THEN base[a] ELSE op[a][g[succ[a]]]
    <3>1. CASE a \in Stop
        BY <3>1
    <3>2. CASE a \notin Stop
      <4>1. succ[a] \in Below(n - 1) /\ g[a] = op[a][f[succ[a]]]
          BY <2>5, <3>2
      <4>2. g[succ[a]] = f[succ[a]] /\ f[succ[a]] \in V
          BY <4>1, <2>6
      <4> HIDE DEF g
      <4>3. QED
          BY <3>2, <4>1, <4>2
    <3>3. QED
        BY <3>1, <3>2
  <2>8. Upto(n, g)
    <3>1. g = [a \in Below(n) |-> g[a]]
        OBVIOUS
    <3> HIDE DEF g, Below
    <3>2. QED
        BY <3>1, <2>7
  <2>9. QED
      BY <2>8
<1>2. B + 1 \in Nat /\ Below(B + 1) = S
    BY DEF Below
<1>3. PICK f : Upto(B + 1, f)
    BY <1>1, <1>2
<1> HIDE DEF Below
<1>4. QED
    BY <1>2, <1>3

\* Along next_node a walk leaves the empty events for good, and then only goes on to
\* younger ones.
Ahead == [a \in Addr \cup {NULL} |->
            IF a = NULL THEN 0 ELSE IF heap[a].empty THEN allocated + 1 + a ELSE allocated + 1 - a]

\* Every step forward leaves fewer events ahead.
LEMMA AheadShrinks ==
    ASSUME Inv
    PROVE  /\ Ahead \in [Addr \cup {NULL} -> 0 .. 2 * allocated + 1]
           /\ \A a \in Addr : /\ heap[a].next \in Addr \cup {NULL}
                              /\ Ahead[heap[a].next] < Ahead[a]
<1>1. allocated \in Nat /\ Addr = 1 .. allocated /\ tail \in Live
    BY DEF Inv, ChanTypeOK, ChainIntact, Addr
<1>2. \A a \in Addr : heap[a].empty \in BOOLEAN
    BY DEF Inv, ChanTypeOK, EventRec
<1>3. Ahead \in [Addr \cup {NULL} -> 0 .. 2 * allocated + 1]
    BY <1>1, <1>2 DEF Ahead
<1>4. ASSUME NEW a \in Addr
      PROVE  heap[a].next \in Addr \cup {NULL} /\ Ahead[heap[a].next] < Ahead[a]
  <2>1. CASE a = tail
    <3>1. heap[a].next = NULL
        BY <2>1 DEF Inv, ChainIntact
    <3>2. QED
        BY <3>1, <1>1, <1>2 DEF Ahead
  <2>2. CASE a \in Live \ {tail}
    <3> DEFINE b == heap[a].next
    <3>1. b \in Live /\ heap[b].displacement = heap[a].displacement + 1
        BY <2>2 DEF Inv, ChainIntact
    <3>2. a < b /\ b \in Addr /\ ~heap[a].empty /\ ~heap[b].empty
      <4>1. heap[a].displacement < heap[b].displacement
          BY <3>1, HeapTypes
      <4>2. QED
          BY <4>1, <3>1, <2>2, HeapTypes DEF Inv, Aged, Live
    <3>3. QED
        BY <3>2, <1>1 DEF Ahead
  <2>3. CASE a \notin Live
    <3> DEFINE b == heap[a].next
    <3>1. b \in Addr /\ IF heap[a].empty THEN b < a ELSE b > a /\ ~heap[b].empty
        BY <2>3 DEF Inv, ForcedTransitionsEnd
    <3>2. QED
        <4>1. a \in Nat /\ b \in Nat /\ b # NULL /\ a # NULL /\ b \in Addr \cup {NULL} /\ a \in Addr \cup {NULL}
            BY <3>1, <1>1 DEF NULL
        <4>2. Ahead[a] = IF heap[a].empty THEN allocated + 1 + a ELSE allocated + 1 - a
            BY <4>1 DEF Ahead
        <4>3. Ahead[b] = IF heap[b].empty THEN allocated + 1 + b ELSE allocated + 1 - b
            BY <4>1 DEF Ahead
        <4>4. CASE heap[a].empty
            <5>1. b < a /\ Ahead[a] = allocated + 1 + a
                BY <3>1, <4>2, <4>4
            <5>2. Ahead[b] = allocated + 1 + b \/ Ahead[b] = allocated + 1 - b
                BY <4>3
            <5>3. QED
                BY <1>1, <4>1, <5>1, <5>2
        <4>5. CASE ~heap[a].empty
            <5>1. b > a /\ Ahead[a] = allocated + 1 - a /\ Ahead[b] = allocated + 1 - b
                BY <3>1, <4>2, <4>3, <4>5
            <5>2. QED
                BY <1>1, <4>1, <5>1
        <4>6. QED
            BY <4>1, <4>4, <4>5
  <2>4. QED
      BY <2>1, <2>2, <2>3
<1>5. QED
    BY <1>3, <1>4

\* Along prev_node a walk leaves the empty events and the replaced heads for good, and
\* then only goes back to older events.
Behind == [a \in Addr |->
             IF heap[a].empty THEN 2 * allocated + 1 + a
             ELSE IF a \notin Live THEN 2 * allocated + 1 - a ELSE a]

\* Every step backward leaves fewer events behind.
LEMMA BehindShrinks ==
    ASSUME Inv
    PROVE  /\ Behind \in [Addr -> 0 .. 3 * allocated + 1]
           /\ \A a \in Addr : heap[a].prev # NULL =>
                 heap[a].prev \in Addr /\ Behind[heap[a].prev] < Behind[a]
<1>1. allocated \in Nat /\ Addr = 1 .. allocated /\ head \in Live /\ Live \subseteq Addr
      /\ \A a \in Live : ~heap[a].empty
    BY DEF Inv, ChanTypeOK, ChainIntact, Addr, Live
<1>2. \A a \in Addr : heap[a].empty \in BOOLEAN
    BY DEF Inv, ChanTypeOK, EventRec
<1>3. Behind \in [Addr -> 0 .. 3 * allocated + 1]
    BY <1>1, <1>2 DEF Behind
<1>4. ASSUME NEW a \in Addr, heap[a].prev # NULL
      PROVE  heap[a].prev \in Addr /\ Behind[heap[a].prev] < Behind[a]
  <2>1. a # head
      BY <1>4 DEF Inv, ChainIntact
  <2>2. CASE a \in Live
    <3> DEFINE b == heap[a].prev
    <3>1. b \in Live /\ heap[b].next = a /\ b # tail
        BY <2>1, <2>2, <1>1 DEF Inv, ChainIntact
    <3>2. heap[a].displacement = heap[b].displacement + 1
        BY <3>1 DEF Inv, ChainIntact
    <3>3. b < a
        BY <3>1, <3>2, <2>2, HeapTypes DEF Inv, Aged
    <3>4. QED
        BY <3>1, <3>3, <2>2, <1>1 DEF Behind
  <2>3. CASE a \notin Live
    <3> DEFINE b == heap[a].prev
    <3>1. b \in Addr /\ IF heap[a].empty THEN b < a ELSE b > a /\ ~heap[b].empty
        BY <2>3 DEF Inv, ForcedTransitionsEnd
    <3>2. QED
        BY <3>1, <2>3, <1>1, <1>2 DEF Behind
  <2>4. QED
      BY <2>2, <2>3
<1>5. QED
    BY <1>3, <1>4

\* event_at, followed along next_node, finds the event of that time.
LEMMA WalkFindsTime ==
    ASSUME Inv, NEW time \in 0 .. heap[tail].displacement
    PROVE  WalkToTime(time) = EventAt(time)
<1> DEFINE S == Addr \cup {NULL}
           Found(a) == a = NULL \/ heap[a].displacement = time
           Is(f) == f = [a \in S |-> IF Found(a) THEN a ELSE f[heap[a].next]]
           W == CHOOSE f : Is(f)
           Stop == {a \in S : Found(a)}
           succ == [a \in S |-> heap[a].next]
           base == [a \in S |-> a]
           op == [a \in S |-> [v \in S |-> v]]
<1>1. \E f : Is(f)
  <2> DEFINE B == 2 * allocated + 1
  <2>1. /\ B \in Nat /\ Ahead \in [S -> 0 .. B]
        /\ \A a \in S : a \notin Stop => succ[a] \in S /\ Ahead[succ[a]] < Ahead[a]
      BY AheadShrinks DEF Inv, ChanTypeOK
  <2>2. /\ \A a \in S : a \in Stop => base[a] \in S
        /\ \A a \in S, v \in S : a \notin Stop => op[a][v] \in S
      OBVIOUS
  <2>3. PICK f \in [S -> S] : \A a \in S : f[a] = IF a \in Stop THEN base[a] ELSE op[a][f[succ[a]]]
    <3> HIDE DEF S, Stop, succ, base, op, B
    <3>1. LoopShrinks(S, S, B, Ahead, Stop, succ, base, op)
        BY <2>1, <2>2 DEF LoopShrinks
    <3>2. LoopFunction(S, S, Stop, succ, base, op)
        BY <3>1, LoopDefines
    <3>3. QED
        BY <3>2 DEF LoopFunction
  <2>4. ASSUME NEW a \in S PROVE f[a] = IF Found(a) THEN a ELSE f[heap[a].next]
    <3>1. CASE Found(a)
        BY <3>1, <2>3
    <3>2. CASE ~Found(a)
      <4>1. succ[a] \in S /\ succ[a] = heap[a].next
          BY <3>2, <2>1
      <4>2. f[a] = op[a][f[succ[a]]] /\ f[succ[a]] \in S
          BY <4>1, <3>2, <2>3
      <4>3. QED
          BY <4>1, <4>2, <3>2
    <3>3. QED
        BY <3>1, <3>2
  <2>5. Is(f)
    <3> HIDE DEF Found, S
    <3>1. QED
        BY <2>3, <2>4
  <2>6. QED
      BY <2>5
<1>2. Is(W)
  <2> HIDE DEF Is
  <2>1. QED
      BY <1>1
<1>3. \A a \in Addr : W[a] = IF heap[a].displacement = time THEN a ELSE W[heap[a].next]
  <2> HIDE DEF W
  <2>1. QED
      BY <1>2, HeapTypes
<1>4. WalkToTime(time) = W[head]
    BY DEF WalkToTime
<1> HIDE DEF W
<1> DEFINE Bad == {n \in Nat : \E e \in Live : /\ heap[e].displacement + n = time
                                              /\ W[e] # EventAt(time)}
<1>5. /\ heap[tail].displacement \in Nat /\ time \in Nat /\ EventExists(time)
      /\ \A e \in Live : heap[e].displacement \in Nat
    BY HeapTypes DEF EventExists
<1>6. Bad = {}
  <2>1. SUFFICES ASSUME Bad # {} PROVE FALSE
      OBVIOUS
  <2>2. PICK n \in Bad : \A m \in Bad : n <= m
    <3>1. Bad \subseteq Nat
        OBVIOUS
    <3> HIDE DEF Bad
    <3>2. QED
        BY <2>1, <3>1, Least
  <2>3. PICK e \in Live : heap[e].displacement + n = time /\ W[e] # EventAt(time)
      OBVIOUS
  <2>4. n # 0
    <3>1. EventAt(time) \in Live /\ heap[EventAt(time)].displacement = time
        BY <1>5, EventAtIsLive
    <3>2. heap[e].displacement = time => e = EventAt(time)
        BY <3>1 DEF Inv, OneEventPerTime
    <3>3. QED
        BY <3>2, <2>3, <1>3, HeapTypes
  <2>5. heap[e].displacement < time /\ e # tail
      BY <2>3, <2>4, <1>5
  <2>6. /\ heap[e].next \in Live
        /\ heap[heap[e].next].displacement = heap[e].displacement + 1
      BY <2>5 DEF Inv, ChainIntact
  <2>7. W[e] = W[heap[e].next]
      BY <2>5, <1>3, <1>5, HeapTypes
  <2>8. n - 1 \in Bad
      BY <2>3, <2>4, <2>6, <2>7, <1>5
  <2>9. QED
      BY <2>2, <2>8
<1>7. QED
  <2>1. heap[head].displacement = 0 /\ head \in Live
      BY DEF Inv, ChainIntact
  <2>2. time \notin Bad
      BY <1>6
  <2>3. QED
      BY <2>1, <2>2, <1>4, <1>5

\* The events publisher p wrote up to a time.
Wrote(p, time) == {e \in Live : heap[e].publisher = p /\ heap[e].displacement <= time}

\* A publisher has one last write up to each time.
LEMMA LastWriteIsUnique ==
    ASSUME Inv, NEW p, NEW time \in Nat, NEW w \in Live, IsLastWrite(w, p, time),
           NEW x \in Live, IsLastWrite(x, p, time)
    PROVE  w = x
<1>1. \A e, f \in Live : heap[e].displacement = heap[f].displacement => e = f
    BY DEF Inv, OneEventPerTime
<1>2. \A e \in Live : heap[e].displacement \in Nat
    BY HeapTypes
<1>3. QED
    BY <1>1, <1>2 DEF IsLastWrite

\* The search of revert_event, back from the event of that time along prev_node, ends
\* at the write to undo.
LEMMA WalkFindsWrite ==
    ASSUME Inv, NEW time \in 0 .. heap[tail].displacement, NEW p
    PROVE  WalkToWrite(p, time) \in Live /\ IsLastWrite(WalkToWrite(p, time), p, time)
<1> DEFINE Goes(a) == heap[a].prev # NULL /\ heap[a].publisher # p
           Is(f) == f = [a \in Addr |-> IF Goes(a) THEN f[heap[a].prev] ELSE a]
           W == CHOOSE f : Is(f)
           Stop == {a \in Addr : ~Goes(a)}
           succ == [a \in Addr |-> heap[a].prev]
           base == [a \in Addr |-> a]
           op == [a \in Addr |-> [v \in Addr |-> v]]
<1>1. \E f : Is(f)
  <2> DEFINE B == 3 * allocated + 1
  <2>1. /\ B \in Nat /\ Behind \in [Addr -> 0 .. B]
        /\ \A a \in Addr : a \notin Stop => succ[a] \in Addr /\ Behind[succ[a]] < Behind[a]
    <3>1. allocated \in Nat
        BY DEF Inv, ChanTypeOK
    <3>2. /\ Behind \in [Addr -> 0 .. B]
          /\ \A a \in Addr : heap[a].prev # NULL =>
                heap[a].prev \in Addr /\ Behind[heap[a].prev] < Behind[a]
        BY BehindShrinks
    <3>3. \A a \in Addr : a \notin Stop => succ[a] = heap[a].prev /\ heap[a].prev # NULL
        OBVIOUS
    <3> HIDE DEF Stop, succ
    <3>4. QED
        BY <3>1, <3>2, <3>3
  <2>2. /\ \A a \in Addr : a \in Stop => base[a] \in Addr
        /\ \A a \in Addr, v \in Addr : a \notin Stop => op[a][v] \in Addr
      OBVIOUS
  <2>3. PICK f \in [Addr -> Addr] : \A a \in Addr : f[a] = IF a \in Stop THEN base[a] ELSE op[a][f[succ[a]]]
    <3> HIDE DEF Stop, succ, base, op, B
    <3>1. LoopShrinks(Addr, Addr, B, Behind, Stop, succ, base, op)
        BY <2>1, <2>2 DEF LoopShrinks
    <3>2. LoopFunction(Addr, Addr, Stop, succ, base, op)
        BY <3>1, LoopDefines
    <3>3. QED
        BY <3>2 DEF LoopFunction
  <2>4. ASSUME NEW a \in Addr PROVE f[a] = IF Goes(a) THEN f[heap[a].prev] ELSE a
    <3>1. CASE ~Goes(a)
        BY <3>1, <2>3
    <3>2. CASE Goes(a)
      <4>1. succ[a] \in Addr /\ succ[a] = heap[a].prev
          BY <3>2, <2>1
      <4>2. f[a] = op[a][f[succ[a]]] /\ f[succ[a]] \in Addr
          BY <4>1, <3>2, <2>3
      <4>3. QED
          BY <4>1, <4>2, <3>2
    <3>3. QED
        BY <3>1, <3>2
  <2>5. Is(f)
    <3> HIDE DEF Goes
    <3>1. QED
        BY <2>3, <2>4
  <2>6. QED
      BY <2>5
<1>2. Is(W)
  <2> HIDE DEF Is
  <2>1. QED
      BY <1>1
<1>3. \A a \in Addr : W[a] = IF Goes(a) THEN W[heap[a].prev] ELSE a
  <2> HIDE DEF W
  <2>1. QED
      BY <1>2
<1>4. WalkToWrite(p, time) = W[EventAt(time)]
    BY WalkFindsTime DEF WalkToWrite
<1> HIDE DEF W
<1> DEFINE Right(w) == w \in Live /\ IsLastWrite(w, p, time)
           None(e) == \A f \in Wrote(p, time) : heap[f].displacement <= heap[e].displacement
           Bad == {n \in Nat : \E e \in Live : /\ heap[e].displacement = n /\ n <= time
                                              /\ None(e) /\ ~Right(W[e])}
<1>5. /\ time \in Nat /\ EventExists(time) /\ head \in Live /\ heap[head].displacement = 0
      /\ Live \subseteq Addr /\ NULL \notin Live /\ heap[head].prev = NULL
      /\ \A e \in Live : heap[e].displacement \in Nat
      /\ \A e \in Live : heap[e].displacement = 0 => e = head
    BY HeapTypes DEF EventExists, Inv, ChainIntact, OneEventPerTime
<1>6. Bad = {}
  <2>1. SUFFICES ASSUME Bad # {} PROVE FALSE
      OBVIOUS
  <2>2. PICK n \in Bad : \A m \in Bad : n <= m
    <3>1. Bad \subseteq Nat
        OBVIOUS
    <3> HIDE DEF Bad
    <3>2. QED
        BY <2>1, <3>1, Least
  <2>3. PICK e \in Live : heap[e].displacement = n /\ n <= time /\ None(e) /\ ~Right(W[e])
      OBVIOUS
  <2>4. CASE heap[e].publisher = p
    <3>1. W[e] = e /\ e \in Wrote(p, time)
        BY <2>3, <2>4, <1>3, <1>5 DEF Wrote
    <3>2. QED
        BY <3>1, <2>3 DEF IsLastWrite, Wrote
  <2>5. CASE heap[e].publisher # p /\ e = head
    <3>1. W[e] = head
        BY <2>5, <1>3, <1>5
    <3>2. Wrote(p, time) = {}
      <4>1. ASSUME NEW f \in Wrote(p, time) PROVE FALSE
          BY <4>1, <2>3, <2>5, <1>5 DEF Wrote
      <4>2. QED
          BY <4>1
    <3>3. QED
        BY <3>1, <3>2, <2>3, <1>5 DEF IsLastWrite, Wrote
  <2>6. CASE heap[e].publisher # p /\ e # head
    <3> DEFINE b == heap[e].prev
    <3>1. b \in Live /\ heap[b].next = e /\ b # NULL
        BY <2>6, <1>5 DEF Inv, ChainIntact
    <3>2. b # tail
        BY <3>1, <1>5 DEF Inv, ChainIntact
    <3>3. heap[e].displacement = heap[b].displacement + 1
        BY <3>1, <3>2 DEF Inv, ChainIntact
    <3>4. W[e] = W[b]
        BY <2>6, <3>1, <1>3, <1>5
    <3>5. None(b)
      <4>1. ASSUME NEW f \in Wrote(p, time) PROVE heap[f].displacement <= heap[b].displacement
        <5>1. f \in Live /\ f # e /\ heap[f].displacement <= heap[e].displacement
            BY <2>3, <2>6 DEF Wrote
        <5>2. heap[f].displacement # heap[e].displacement
            BY <5>1 DEF Inv, OneEventPerTime
        <5>3. QED
            BY <5>1, <5>2, <3>1, <3>3, <1>5
      <4>2. QED
          BY <4>1
    <3>6. heap[b].displacement \in Bad
        BY <2>3, <3>1, <3>3, <3>4, <3>5, <1>5
    <3>7. QED
        BY <3>1, <3>3, <3>6, <2>2, <2>3, <1>5
  <2>7. QED
      BY <2>4, <2>5, <2>6
<1>7. QED
  <2>1. EventAt(time) \in Live /\ heap[EventAt(time)].displacement = time
      BY <1>5, EventAtIsLive
  <2>2. None(EventAt(time))
      BY <2>1 DEF Wrote
  <2>3. Right(W[EventAt(time)])
    <3>1. time \notin Bad /\ time <= time
        BY <1>5, <1>6
    <3> HIDE DEF None, Right
    <3>2. QED
        BY <2>1, <2>2, <3>1, <1>5
  <2>4. QED
      BY <2>3, <1>4

\* The sweep of revert_event visits exactly the events after the new tail.
LEMMA WalkVisitsRest ==
    ASSUME Inv, NEW r \in Live
    PROVE  WalkAfter(r) = {e \in Live : heap[e].displacement > heap[r].displacement}
<1> DEFINE S == Addr \cup {NULL}
           V == SUBSET S
           Is(f) == f = [a \in S |-> IF a = NULL THEN {} ELSE {a} \cup f[heap[a].next]]
           W == CHOOSE f : Is(f)
           Stop == {NULL}
           succ == [a \in S |-> heap[a].next]
           base == [a \in S |-> {}]
           op == [a \in S |-> [v \in V |-> {a} \cup v]]
<1>1. \E f : Is(f)
  <2> DEFINE B == 2 * allocated + 1
  <2>1. /\ B \in Nat /\ Ahead \in [S -> 0 .. B]
        /\ \A a \in S : a \notin Stop => succ[a] \in S /\ Ahead[succ[a]] < Ahead[a]
      BY AheadShrinks DEF Inv, ChanTypeOK
  <2>2. /\ \A a \in S : a \in Stop => base[a] \in V
        /\ \A a \in S, v \in V : a \notin Stop => op[a][v] \in V
      OBVIOUS
  <2>3. PICK f \in [S -> V] : \A a \in S : f[a] = IF a \in Stop THEN base[a] ELSE op[a][f[succ[a]]]
    <3> HIDE DEF S, V, Stop, succ, base, op, B
    <3>1. LoopShrinks(S, V, B, Ahead, Stop, succ, base, op)
        BY <2>1, <2>2 DEF LoopShrinks
    <3>2. LoopFunction(S, V, Stop, succ, base, op)
        BY <3>1, LoopDefines
    <3>3. QED
        BY <3>2 DEF LoopFunction
  <2>4. ASSUME NEW a \in S PROVE f[a] = IF a = NULL THEN {} ELSE {a} \cup f[heap[a].next]
    <3>1. CASE a = NULL
        BY <3>1, <2>3
    <3>2. CASE a # NULL
      <4>1. succ[a] \in S /\ succ[a] = heap[a].next
          BY <3>2, <2>1
      <4> DEFINE v == f[succ[a]]
      <4>2. f[a] = op[a][v] /\ v \in V
          BY <4>1, <3>2, <2>3
      <4>3. op[a][v] = {a} \cup v
        <5> HIDE DEF v, V
        <5>1. QED
            BY <4>2
      <4>4. QED
          BY <4>1, <4>2, <4>3, <3>2
    <3>3. QED
        BY <3>1, <3>2
  <2>5. Is(f)
    <3> HIDE DEF S, V
    <3>1. QED
        BY <2>3, <2>4
  <2>6. QED
      BY <2>5
<1>2. Is(W)
  <2> HIDE DEF Is
  <2>1. QED
      BY <1>1
<1>3. W[NULL] = {} /\ \A a \in Addr : W[a] = {a} \cup W[heap[a].next]
  <2> HIDE DEF W
  <2>1. QED
      BY <1>2, HeapTypes
<1>4. WalkAfter(r) = W[heap[r].next]
    BY DEF WalkAfter
<1> HIDE DEF W
<1> DEFINE From(d) == {e \in Live : heap[e].displacement >= d}
           Bad == {n \in Nat : \E e \in Live : /\ heap[e].displacement + n = heap[tail].displacement
                                              /\ W[e] # From(heap[e].displacement)}
<1>5. /\ tail \in Live /\ heap[tail].next = NULL /\ Live \subseteq Addr
      /\ \A e \in Live : heap[e].displacement \in Nat /\ heap[e].displacement <= heap[tail].displacement
      /\ \A e, f \in Live : heap[e].displacement = heap[f].displacement => e = f
    BY HeapTypes DEF Inv, ChainIntact, OneEventPerTime
<1>6. ASSUME NEW e \in Live, e # tail
      PROVE  /\ heap[e].next \in Live
             /\ heap[heap[e].next].displacement = heap[e].displacement + 1
             /\ From(heap[e].displacement) = {e} \cup From(heap[e].displacement + 1)
             /\ heap[e].displacement < heap[tail].displacement
  <2>1. /\ heap[e].next \in Live
        /\ heap[heap[e].next].displacement = heap[e].displacement + 1
      BY <1>6 DEF Inv, ChainIntact
  <2>2. From(heap[e].displacement) = {e} \cup From(heap[e].displacement + 1)
      BY <1>5
  <2>3. heap[e].displacement < heap[tail].displacement
      BY <1>5, <1>6
  <2>4. QED
      BY <2>1, <2>2, <2>3
<1>7. From(heap[tail].displacement) = {tail} /\ W[tail] = {tail}
    BY <1>3, <1>5
<1>8. Bad = {}
  <2>1. SUFFICES ASSUME Bad # {} PROVE FALSE
      OBVIOUS
  <2>2. PICK n \in Bad : \A m \in Bad : n <= m
    <3>1. Bad \subseteq Nat
        OBVIOUS
    <3> HIDE DEF Bad
    <3>2. QED
        BY <2>1, <3>1, Least
  <2>3. PICK e \in Live : /\ heap[e].displacement + n = heap[tail].displacement
                          /\ W[e] # From(heap[e].displacement)
      OBVIOUS
  <2> HIDE DEF From
  <2>4. e # tail /\ n # 0
    <3>1. e # tail
        BY <2>3, <1>7
    <3>2. heap[e].displacement < heap[tail].displacement
        BY <3>1, <1>6
    <3>3. QED
        BY <2>3, <3>1, <3>2, <1>5
  <2>5. W[e] = {e} \cup W[heap[e].next]
      BY <1>3, <1>5
  <2>6. W[heap[e].next] # From(heap[heap[e].next].displacement)
      BY <2>3, <2>4, <2>5, <1>6
  <2>7. n - 1 \in Bad
      BY <2>3, <2>4, <2>6, <1>5, <1>6
  <2>8. QED
      BY <2>2, <2>7
<1>9. ASSUME NEW e \in Live PROVE W[e] = From(heap[e].displacement)
  <2> DEFINE n == heap[tail].displacement - heap[e].displacement
  <2>1. n \in Nat /\ heap[e].displacement + n = heap[tail].displacement /\ n \notin Bad
      BY <1>5, <1>8
  <2> HIDE DEF From, n
  <2>2. QED
      BY <2>1
<1>10. CASE r = tail
    BY <1>10, <1>3, <1>4, <1>5
<1>11. CASE r # tail
  <2>1. WalkAfter(r) = From(heap[r].displacement + 1)
    <3> HIDE DEF From
    <3>1. QED
        BY <1>4, <1>6, <1>9, <1>11
  <2>2. QED
      BY <2>1, <1>5
<1>12. QED
    BY <1>10, <1>11

\* Followed link by link, the three loops of the code end where the specification says.
THEOREM WalksAlwaysAgree == EpSpec => []WalksAgree
<1>1. Inv => WalksAgree
  <2>1. ASSUME Inv, NEW time \in 0 .. heap[tail].displacement, NEW p \in Publishers
        PROVE  {w \in Live : IsLastWrite(w, p, time)} = {WalkToWrite(p, time)}
    <3>1. time \in Nat
        BY <2>1, HeapTypes
    <3>2. QED
        BY <2>1, <3>1, WalkFindsWrite, LastWriteIsUnique
  <2>2. ASSUME Inv, NEW time \in 0 .. heap[tail].displacement
        PROVE  WalkAfter(EventAt(time)) = {e \in Live : heap[e].displacement > time}
    <3>1. time \in Nat /\ EventExists(time)
        BY <2>2, HeapTypes DEF EventExists
    <3>2. EventAt(time) \in Live /\ heap[EventAt(time)].displacement = time
        BY <2>2, <3>1, EventAtIsLive
    <3>3. QED
        BY <2>2, <3>2, WalkVisitsRest
  <2>3. QED
      BY <2>1, <2>2, WalkFindsTime DEF WalksAgree
<1>2. QED
    BY <1>1, EpSpecInv, PTL DEF EpInv
=============================================================================
