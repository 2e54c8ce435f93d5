-------------------------- MODULE OutputPortProofs --------------------------
(***************************************************************************)
(* An output port takes back exactly what it wrote, for any number of      *)
(* writes, deltas, values and clears, wherever its reader stands.          *)
(*                                                                         *)
(* Undoing a delta reverts the channel once per write, and each revert     *)
(* takes the last event off the chain.  That these are the delta's own     *)
(* events follows from how high the chain can be: seen from the top of the *)
(* undo stack, each delta whose first event is still on the chain has no   *)
(* more events above it than the deltas above it have writes.  (Fewer, if  *)
(* some of those were redone, which writes nothing.)  Statements about a   *)
(* delta suppose that it never collects CountMod writes: its counter is    *)
(* that wide and wraps.                                                    *)
(***************************************************************************)
EXTENDS OutputPortMC, ChannelProofs

USE DEF NULL, RootPublisher

\* The width of the counter is enough.
CountFits == Len(writes) < CountMod

DeltaRec == [events : Seq(Nat), from : Nat]

\* Only the port publishes on its channel.
PortOnly ==
    /\ \A e \in Live : e # head => heap[e].publisher = Port
    /\ heap[head].publisher = RootPublisher

\* Each event of d was linked behind the one before it, the first behind from, and still
\* is while it is on the chain.
Chained(d, from) ==
    \A j \in 1 .. Len(d) :
        /\ d[j] \in Addr /\ heap[d[j]].displacement # 0
        /\ d[j] \in Live => heap[d[j]].prev = IF j = 1 THEN from ELSE d[j - 1]

History(s) ==
    s \in Seq(DeltaRec) /\ \A i \in 1 .. Len(s) : Chained(s[i].events, s[i].from)

\* The events of the open delta end the chain.
OpenDelta ==
    /\ writes \in Seq(Nat) /\ began \in Addr
    /\ Chained(writes, began)
    /\ \A i \in 1 .. Len(writes) :
          writes[i] \in Live
          /\ heap[tail].displacement - heap[writes[i]].displacement = Len(writes) - i
    /\ writes = << >> /\ pending = 0 => began = tail

\* The port stands at the end of the chain, unless a clear took it away from under the
\* port: then there is nothing to undo.
AtTail ==
    \/ at = tail
    \/ /\ pending = 0 /\ writes = << >>
       /\ \A i \in 1 .. Len(undo) : undo[i].events = << >>
       /\ \A i \in 1 .. Len(redo) : redo[i].events = << >>

\* The unwrites that are still to do are of the delta on top.
Unwinding ==
    /\ pending \in Nat
    /\ pending > 0 =>
          writes = << >> /\ undo # << >> /\ pending <= Len(undo[Len(undo)].events)

OutputInv ==
    /\ Inv /\ PortOnly
    /\ at \in Addr /\ reader \in Addr
    /\ History(undo) /\ History(redo)
    /\ OpenDelta /\ AtTail /\ Unwinding

\* How high the chain would be without the open delta's writes, and with the events of
\* the delta on top that were already taken back.
Top == heap[tail].displacement - Len(writes)
       + (IF pending = 0 THEN 0 ELSE Len(undo[Len(undo)].events) - pending)

\* level[i] is an upper bound on how high the chain is below delta i, level[i + 1] on top.
Levels(level) ==
    /\ level \in [1 .. Len(undo) + 1 -> Int]
    /\ level[Len(undo) + 1] = Top
    /\ \A i \in 1 .. Len(undo) :
          /\ level[i] = level[i + 1] - Len(undo[i].events)
          /\ undo[i].events # << >> /\ undo[i].events[1] \in Live =>
                level[i + 1] < heap[undo[i].events[1]].displacement + Len(undo[i].events)

\* What an undone delta wrote is off the chain.
Undone ==
    \A i \in 1 .. Len(redo) : redo[i].events # << >> => redo[i].events[1] \notin Live

\* While the counters are wide enough ...
StackInv ==
    /\ \A i \in 1 .. Len(undo) : Len(undo[i].events) < CountMod
    /\ \A i \in 1 .. Len(redo) : Len(redo[i].events) < CountMod
    /\ \E level : Levels(level)
    /\ Undone

-----------------------------------------------------------------------------
\* What a delta may rely on when the graph changes under it.
Keeps ==
    /\ Addr \subseteq Addr'
    /\ \A e \in Addr : heap'[e].displacement = heap[e].displacement
    /\ \A e \in Addr : e \in Live' => e \in Live /\ heap'[e].prev = heap[e].prev

\* The links of a delta's events stay as they are, or go with the events.
LEMMA KeepsHistory ==
    ASSUME Keeps, NEW s, History(s)
    PROVE  History(s)'
<1>1. ASSUME NEW d, NEW from, Chained(d, from)
      PROVE  Chained(d, from)'
  <2>1. ASSUME NEW j \in 1 .. Len(d)
        PROVE  /\ d[j] \in Addr' /\ heap'[d[j]].displacement # 0
               /\ d[j] \in Live' => heap'[d[j]].prev = IF j = 1 THEN from ELSE d[j - 1]
    <3>1. /\ d[j] \in Addr /\ heap[d[j]].displacement # 0
          /\ d[j] \in Live => heap[d[j]].prev = IF j = 1 THEN from ELSE d[j - 1]
        BY <1>1 DEF Chained
    <3>2. QED
        BY <3>1 DEF Keeps
  <2>2. QED
      BY <2>1 DEF Chained
<1>2. \A i \in 1 .. Len(s) : Chained(s[i].events, s[i].from)'
    BY <1>1 DEF History
<1>3. QED
    BY <1>2 DEF History

\* What is true of two stacks stays true when they become undo and redo.
LEMMA StacksBecome ==
    ASSUME Keeps, NEW u, NEW r, History(u), History(r), undo' = u, redo' = r
    PROVE  History(undo)' /\ History(redo)'
<1>1. History(u)' /\ History(r)'
    BY KeepsHistory
<1>2. QED
    BY <1>1 DEF History, Chained

\* A write appends one event.
LEMMA WriteAppends ==
    ASSUME OutputInv, NEW v \in Values, Write(v)
    PROVE  /\ Inv' /\ PortOnly' /\ Keeps
           /\ Live' = Live \cup {tail'} /\ tail' \in Addr' /\ tail' \notin Addr /\ tail' \in Nat
           /\ heap'[tail'].prev = tail
           /\ heap'[tail'].displacement = heap[tail].displacement + 1
           /\ heap[tail].displacement \in Nat
<1>1. Inv /\ Port \in Publishers /\ AppendEvent(Port, v)
    BY OutputAssumption DEF OutputInv, Write
<1>2. /\ Inv' /\ Live' = Live \cup {tail'} /\ Addr' = Addr \cup {tail'}
      /\ tail' \notin Addr /\ head' = head /\ tail' \in Nat
      /\ heap'[tail'] = NewEvent(v, Port, tail, heap[tail].displacement + 1)
      /\ \A e \in Addr : /\ heap'[e].publisher = heap[e].publisher
                         /\ heap'[e].displacement = heap[e].displacement
                         /\ heap'[e].prev = heap[e].prev
  <2>1. allocated + 1 \in Nat
      BY <1>1 DEF Inv, ChanTypeOK
  <2>2. QED
      BY <1>1, <2>1, AppendEffect
<1>3. /\ heap'[tail'].prev = tail /\ heap'[tail'].publisher = Port
      /\ heap'[tail'].displacement = heap[tail].displacement + 1
    BY <1>2 DEF NewEvent
<1>4. Live \subseteq Addr /\ head \in Live /\ heap[tail].displacement \in Nat /\ tail \in Addr
    BY <1>1, HeapTypes
<1>5. PortOnly'
    BY <1>2, <1>3, <1>4 DEF PortOnly, OutputInv
<1>6. Keeps
    BY <1>2, <1>4 DEF Keeps
<1>7. QED
    BY <1>2, <1>3, <1>4, <1>5, <1>6

\* An unwrite takes the last event off the chain, or finds there is none left.
LEMMA UnwriteTakes ==
    ASSUME OutputInv, UnwriteOne
    PROVE  /\ Inv' /\ PortOnly' /\ Keeps /\ Addr' = Addr
           /\ tail # head => /\ tail' = heap[tail].prev
                             /\ Live' = Live \ {tail}
                             /\ heap[tail'].displacement + 1 = heap[tail].displacement
           /\ tail = head => tail' = tail /\ Live' = Live
<1>1. /\ Inv /\ PortOnly /\ at = tail /\ RevertEvent(Port, heap[at].displacement)
  <2>1. pending # 0
      BY DEF OutputInv, Unwinding, UnwriteOne
  <2>2. QED
      BY <2>1 DEF OutputInv, AtTail, UnwriteOne
<1>2. PICK w \in Live : /\ IsLastWrite(w, Port, heap[tail].displacement)
                        /\ heap' = CutAfter(RevertTarget(w)) /\ tail' = RevertTarget(w)
    BY <1>1 DEF RevertEvent
<1>3. UNCHANGED <<allocated, head>>
    BY <1>1 DEF RevertEvent
<1>4. /\ Live \subseteq Addr /\ head \in Live /\ tail \in Live /\ heap[head].displacement = 0
      /\ NULL \notin Live
      /\ \A e \in Live : heap[e].displacement \in Nat /\ heap[e].displacement <= heap[tail].displacement
      /\ \A e, f \in Live : heap[e].displacement = heap[f].displacement => e = f
    BY <1>1, HeapTypes DEF Inv, OneEventPerTime, ChainIntact
<1>5. ASSUME NEW r \in Live, r = tail'
      PROVE  /\ Inv' /\ PortOnly' /\ Keeps /\ Addr' = Addr
             /\ Live' = {e \in Live : heap[e].displacement <= heap[r].displacement}
  <2>1. heap' = CutAfter(r) /\ tail' = r
      BY <1>2, <1>5
  <2>2. /\ Inv' /\ Addr' = Addr
        /\ Live' = {e \in Live : heap[e].displacement <= heap[r].displacement}
        /\ \A e \in Live' \ {r} : heap'[e] = heap[e]
        /\ \A e \in Addr : /\ heap'[e].publisher = heap[e].publisher
                           /\ heap'[e].displacement = heap[e].displacement
        /\ heap'[r].prev = heap[r].prev
      BY <1>1, <1>3, <2>1, CutEffect
  <2>3. Keeps
      BY <2>2 DEF Keeps
  <2>4. PortOnly'
      BY <1>1, <1>3, <1>4, <2>2 DEF PortOnly
  <2>5. QED
      BY <2>2, <2>3, <2>4
<1>6. CASE tail # head
  <2>1. heap[tail].publisher = Port
      BY <1>1, <1>4, <1>6 DEF PortOnly
  <2>2. w = tail
      BY <2>1, <1>2, <1>4 DEF IsLastWrite
  <2>3. tail' = heap[tail].prev /\ tail' \in Live /\ heap[tail'].next = tail
      BY <2>2, <1>1, <1>2, <1>4, <1>6 DEF RevertTarget, Inv, ChainIntact
  <2>4. heap[tail'].displacement + 1 = heap[tail].displacement
    <3>1. tail' # tail
        BY <2>3, <1>1, <1>4 DEF Inv, ChainIntact
    <3>2. heap[heap[tail'].next].displacement = heap[tail'].displacement + 1
        BY <2>3, <3>1, <1>1 DEF Inv, ChainIntact
    <3>3. QED
        BY <2>3, <3>2
  <2>5. Live' = {e \in Live : heap[e].displacement <= heap[tail'].displacement}
      BY <1>5, <2>3
  <2>6. \A e \in Live : heap[e].displacement <= heap[tail'].displacement <=> e # tail
      BY <1>4, <2>3, <2>4
  <2>7. QED
      BY <1>5, <1>6, <2>3, <2>4, <2>5, <2>6
<1>7. CASE tail = head
  <2>1. w = head
      BY <1>1, <1>2, <1>4, <1>7
  <2>2. tail' = tail /\ tail' \in Live
      BY <2>1, <1>2, <1>4, <1>7 DEF RevertTarget
  <2>3. Live' = {e \in Live : heap[e].displacement <= heap[tail].displacement}
      BY <1>5, <2>2
  <2>4. QED
      BY <1>4, <1>5, <1>7, <2>2, <2>3
<1>8. QED
    BY <1>6, <1>7

\* A clear leaves one event, a new one.
LEMMA ClearStartsAfresh ==
    ASSUME OutputInv, NEW v \in Values, ClearOutput(v)
    PROVE  Inv' /\ PortOnly' /\ Addr \subseteq Addr' /\ tail' \in Addr'
<1>1. Inv /\ Clear(v)
    BY DEF OutputInv, ClearOutput
<1>2. /\ Inv' /\ Live' = {allocated + 1} /\ Addr' = Addr \cup {allocated + 1}
      /\ tail' = allocated + 1 /\ head' = allocated + 1
      /\ heap'[head'] = NewEvent(v, RootPublisher, NULL, 0)
    BY <1>1, ClearEffect
<1>3. QED
    BY <1>2 DEF PortOnly, NewEvent

\* Nothing to look at in an empty delta, or an empty stack of them.
LEMMA EmptyHistory ==
    /\ << >> \in Seq(Nat) /\ Len(<< >>) = 0
    /\ \A from : Chained(<< >>, from)
    /\ History(<< >>)
<1>1. << >> \in Seq(Nat) /\ << >> \in Seq(DeltaRec) /\ Len(<< >>) = 0
    BY EmptySeq
<1>2. QED
    BY <1>1 DEF Chained, History

\* One delta put on a stack of them, or taken off it.
LEMMA HistoryStack ==
    ASSUME NEW s, History(s), NEW d \in DeltaRec, Chained(d.events, d.from)
    PROVE  /\ Len(s) \in Nat
           /\ History(Append(s, d)) /\ Len(Append(s, d)) = Len(s) + 1
           /\ \A i \in 1 .. Len(Append(s, d)) :
                 Append(s, d)[i] = IF i = Len(s) + 1 THEN d ELSE s[i]
<1>1. s \in Seq(DeltaRec) /\ \A i \in 1 .. Len(s) : Chained(s[i].events, s[i].from)
    BY DEF History
<1>2. Len(s) \in Nat
    BY <1>1, LenProperties
<1>3. /\ Append(s, d) \in Seq(DeltaRec) /\ Len(Append(s, d)) = Len(s) + 1
      /\ \A i \in 1 .. Len(Append(s, d)) : Append(s, d)[i] = IF i = Len(s) + 1 THEN d ELSE s[i]
    BY <1>1, Stack
<1>4. ASSUME NEW i \in 1 .. Len(Append(s, d))
      PROVE  Chained(Append(s, d)[i].events, Append(s, d)[i].from)
  <2>1. CASE i = Len(s) + 1
      BY <2>1, <1>3
  <2>2. CASE i # Len(s) + 1
    <3>1. i \in 1 .. Len(s) /\ Append(s, d)[i] = s[i]
        BY <2>2, <1>2, <1>3
    <3>2. QED
        BY <3>1, <1>1
  <2>3. QED
      BY <2>1, <2>2
<1>5. QED
    BY <1>2, <1>3, <1>4 DEF History

\* What is on top of a stack, and the stack without it.
LEMMA HistoryPops ==
    ASSUME NEW s, History(s), s # << >>
    PROVE  /\ History(SubSeq(s, 1, Len(s) - 1)) /\ Len(SubSeq(s, 1, Len(s) - 1)) = Len(s) - 1
           /\ Len(s) \in Nat /\ Len(s) \in 1 .. Len(s)
           /\ s[Len(s)] \in DeltaRec /\ Chained(s[Len(s)].events, s[Len(s)].from)
           /\ \A i \in 1 .. Len(s) - 1 : SubSeq(s, 1, Len(s) - 1)[i] = s[i]
<1>1. s \in Seq(DeltaRec) /\ \A i \in 1 .. Len(s) : Chained(s[i].events, s[i].from)
    BY DEF History
<1>2. Len(s) \in Nat /\ s[Len(s)] \in DeltaRec /\ Len(s) \in 1 .. Len(s)
  <2>1. Len(s) \in Nat /\ Len(s) # 0
      BY <1>1, LenProperties, EmptySeq
  <2>2. QED
      BY <2>1, <1>1, ElementOfSeq
<1>3. /\ SubSeq(s, 1, Len(s) - 1) \in Seq(DeltaRec) /\ Len(SubSeq(s, 1, Len(s) - 1)) = Len(s) - 1
      /\ \A i \in 1 .. Len(s) - 1 : SubSeq(s, 1, Len(s) - 1)[i] = s[i]
    BY <1>1, <1>2, Stack
<1>4. QED
    BY <1>1, <1>2, <1>3 DEF History

\* The last write of the open delta is the tail.
LEMMA OpenDeltaEnds ==
    ASSUME OutputInv, writes # << >>
    PROVE  Len(writes) \in Nat \ {0} /\ Len(writes) \in 1 .. Len(writes) /\ writes[Len(writes)] = tail
<1>1. Len(writes) \in Nat /\ Len(writes) # 0
    BY LenProperties, EmptySeq DEF OutputInv, OpenDelta
<1>2. /\ writes[Len(writes)] \in Live
      /\ heap[tail].displacement - heap[writes[Len(writes)]].displacement = Len(writes) - Len(writes)
    BY <1>1 DEF OutputInv, OpenDelta
<1>3. Inv /\ tail \in Live /\ \A e \in Live : heap[e].displacement \in Nat
    BY HeapTypes DEF OutputInv
<1>4. heap[tail].displacement = heap[writes[Len(writes)]].displacement
    BY <1>1, <1>2, <1>3
<1>5. QED
    BY <1>1, <1>2, <1>3, <1>4 DEF Inv, OneEventPerTime

\* The steps that change the chain keep the invariant.
LEMMA WriteKeeps ==
    ASSUME OutputInv, NEW v \in Values, Write(v)
    PROVE  OutputInv'
<1> DEFINE n == Len(writes)
<1>1. /\ Inv' /\ PortOnly' /\ Keeps
      /\ Live' = Live \cup {tail'} /\ tail' \in Addr' /\ tail' \notin Addr /\ tail' \in Nat
      /\ heap'[tail'].prev = tail
      /\ heap'[tail'].displacement = heap[tail].displacement + 1
      /\ heap[tail].displacement \in Nat
    BY WriteAppends
<1>2. /\ pending = 0 /\ at' = tail' /\ writes' = Append(writes, tail')
      /\ UNCHANGED <<undo, redo, began, pending, reader>>
    BY DEF Write, Idle
<1>3. /\ writes \in Seq(Nat) /\ n \in Nat /\ began \in Addr /\ Chained(writes, began)
      /\ writes' \in Seq(Nat) /\ Len(writes') = n + 1 /\ writes'[n + 1] = tail'
      /\ \A i \in 1 .. n : writes'[i] = writes[i]
  <2>1. writes \in Seq(Nat) /\ n \in Nat /\ began \in Addr /\ Chained(writes, began)
      BY LenProperties DEF OutputInv, OpenDelta
  <2>2. QED
      BY <2>1, <1>1, <1>2, AppendProperties
<1>4. tail = IF n = 0 THEN began ELSE writes[n]
  <2>1. n = 0 => writes = << >>
      BY <1>3, EmptySeq
  <2>2. n # 0 => writes # << >>
      BY EmptySeq
  <2>3. QED
      BY <2>1, <2>2, <1>2, OpenDeltaEnds DEF OutputInv, OpenDelta
<1>5. ASSUME NEW j \in 1 .. n + 1
      PROVE  /\ writes'[j] \in Addr' /\ heap'[writes'[j]].displacement # 0
             /\ writes'[j] \in Live' => heap'[writes'[j]].prev = IF j = 1 THEN began ELSE writes'[j - 1]
             /\ writes'[j] \in Live'
             /\ heap'[tail'].displacement - heap'[writes'[j]].displacement = n + 1 - j
  <2>1. CASE j = n + 1
    <3>1. j # 1 => writes'[j - 1] = writes[n] /\ n # 0
        BY <2>1, <1>3
    <3>2. QED
        BY <3>1, <2>1, <1>1, <1>3, <1>4
  <2>2. CASE j # n + 1
    <3>1. j \in 1 .. n /\ writes'[j] = writes[j] /\ (j # 1 => writes'[j - 1] = writes[j - 1])
        <4>1. j \in 1 .. n /\ (j # 1 => j - 1 \in 1 .. n)
            BY <2>2, <1>3
        <4>2. \A i \in 1 .. n : writes'[i] = writes[i]
            BY <1>3
        <4>. HIDE DEF n
        <4>3. QED
            BY <4>1, <4>2
    <3>2. /\ writes[j] \in Addr /\ heap[writes[j]].displacement # 0 /\ writes[j] \in Live
          /\ heap[writes[j]].prev = IF j = 1 THEN began ELSE writes[j - 1]
          /\ heap[tail].displacement - heap[writes[j]].displacement = n - j
        BY <3>1, <1>3 DEF Chained, OutputInv, OpenDelta
    <3>3. heap[writes[j]].displacement \in Nat
        BY <3>2, HeapTypes DEF OutputInv
    <3>4. /\ writes[j] \in Live' /\ writes[j] \in Addr'
          /\ heap'[writes[j]].displacement = heap[writes[j]].displacement
          /\ heap'[writes[j]].prev = heap[writes[j]].prev
        BY <3>2, <1>1 DEF Keeps
    <3>5. heap'[tail'].displacement - heap'[writes[j]].displacement = n + 1 - j
      <4>1. j \in Nat /\ n \in Nat
          BY <3>1, <1>3
      <4> HIDE DEF n
      <4>2. QED
          BY <4>1, <3>2, <3>3, <3>4, <1>1
    <3>6. QED
        BY <3>1, <3>2, <3>4, <3>5
  <2>3. QED
      BY <2>1, <2>2
<1>6. OpenDelta'
  <2>1. writes' # << >>
      BY <1>3, EmptySeq
  <2>2. Chained(writes, began)'
      BY <1>2, <1>3, <1>5 DEF Chained
  <2>3. began' \in Addr'
      BY <1>1, <1>2, <1>3 DEF Keeps
  <2>4. \A i \in 1 .. Len(writes') :
           /\ writes'[i] \in Live'
           /\ heap'[tail'].displacement - heap'[writes'[i]].displacement = Len(writes') - i
      BY <1>3, <1>5
  <2>5. QED
      BY <2>1, <2>2, <2>3, <2>4, <1>3 DEF OpenDelta
<1>7. History(undo)' /\ History(redo)'
    BY <1>1, <1>2, StacksBecome DEF OutputInv
<1>8. at' \in Addr' /\ reader' \in Addr' /\ AtTail' /\ Unwinding'
    BY <1>1, <1>2 DEF AtTail, Unwinding, OutputInv, Keeps
<1>9. QED
    BY <1>1, <1>6, <1>7, <1>8 DEF OutputInv

\* A clear leaves nothing to undo.
LEMMA ClearKeeps ==
    ASSUME OutputInv, NEW v \in Values, ClearOutput(v)
    PROVE  OutputInv'
<1>1. Inv' /\ PortOnly' /\ Addr \subseteq Addr' /\ tail' \in Addr'
    BY ClearStartsAfresh
<1>2. /\ pending' = 0 /\ writes' = << >> /\ undo' = << >> /\ redo' = << >> /\ began' = tail'
      /\ at' = at /\ reader' = reader
    BY DEF ClearOutput, Idle
<1>3. History(undo)' /\ History(redo)' /\ Chained(writes, began)'
    BY <1>2, EmptyHistory DEF History, Chained
<1>4. QED
    BY <1>1, <1>2, <1>3, EmptyHistory DEF OutputInv, OpenDelta, AtTail, Unwinding

\* A graph that does not change keeps everything.
LEMMA StillKeeps ==
    ASSUME OutputInv, UNCHANGED chan
    PROVE  Keeps /\ Inv' /\ PortOnly' /\ UNCHANGED <<Addr, Live, heap, tail>>
<1>1. UNCHANGED <<Addr, Live, heap, tail, head>>
    BY DEF chan, Addr, Live
<1>2. Inv'
    BY NextInv DEF OutputInv
<1>3. QED
    BY <1>1, <1>2 DEF Keeps, PortOnly, OutputInv

\* The delta on top goes to the other stack.
LEMMA FinishKeeps ==
    ASSUME OutputInv, Keeps, undo # << >>, Finish
    PROVE  /\ History(undo)' /\ History(redo)'
           /\ Len(undo) \in Nat /\ Len(undo) # 0 /\ Len(redo) \in Nat
           /\ undo[Len(undo)] \in DeltaRec
           /\ Len(undo') = Len(undo) - 1 /\ \A i \in 1 .. Len(undo) - 1 : undo'[i] = undo[i]
           /\ Len(redo') = Len(redo) + 1
           /\ \A i \in 1 .. Len(redo') :
                 redo'[i] = IF i = Len(redo) + 1 THEN undo[Len(undo)] ELSE redo[i]
<1> DEFINE d == undo[Len(undo)]
<1>1. History(undo) /\ History(redo) /\ undo' = SubSeq(undo, 1, Len(undo) - 1) /\ redo' = Append(redo, d)
    BY DEF OutputInv, Finish
<1>2. /\ History(undo') /\ Len(undo') = Len(undo) - 1
      /\ Len(undo) \in Nat /\ Len(undo) \in 1 .. Len(undo)
      /\ d \in DeltaRec /\ Chained(d.events, d.from)
      /\ \A i \in 1 .. Len(undo) - 1 : undo'[i] = undo[i]
    BY <1>1, HistoryPops
<1> HIDE DEF d
<1>3. /\ History(redo') /\ Len(redo') = Len(redo) + 1 /\ Len(redo) \in Nat
      /\ \A i \in 1 .. Len(redo') : redo'[i] = IF i = Len(redo) + 1 THEN d ELSE redo[i]
    BY <1>1, <1>2, HistoryStack
<1>4. History(undo)' /\ History(redo)'
  <2>1. PICK u : u = undo'
      OBVIOUS
  <2>2. PICK r : r = redo'
      OBVIOUS
  <2>3. History(u) /\ History(r)
      BY <2>1, <2>2, <1>2, <1>3
  <2>4. QED
      BY <2>1, <2>2, <2>3, StacksBecome
<1>5. QED
    BY <1>2, <1>3, <1>4 DEF d

\* A delta goes onto the history.
LEMMA TakeKeeps ==
    ASSUME OutputInv, TakeDelta
    PROVE  /\ OutputInv'
           /\ Len(undo) \in Nat /\ Len(undo') = Len(undo) + 1
           /\ \A i \in 1 .. Len(undo') :
                 undo'[i] = IF i = Len(undo) + 1 THEN [events |-> writes, from |-> began] ELSE undo[i]
<1> DEFINE d == [events |-> writes, from |-> began]
<1>1. /\ pending = 0 /\ undo' = Append(undo, d) /\ redo' = << >> /\ writes' = << >> /\ began' = tail
      /\ UNCHANGED <<chan, at, cache, pending, reader>>
    BY DEF TakeDelta, Idle
<1>2. Keeps /\ Inv' /\ PortOnly' /\ UNCHANGED <<Addr, Live, heap, tail>>
    BY <1>1, StillKeeps
<1>3. d \in DeltaRec /\ d.events = writes /\ d.from = began /\ Chained(writes, began) /\ tail \in Addr
    BY HeapTypes DEF DeltaRec, OutputInv, OpenDelta
<1> HIDE DEF d
<1>4. /\ Len(undo) \in Nat /\ History(undo') /\ Len(undo') = Len(undo) + 1
      /\ \A i \in 1 .. Len(undo') : undo'[i] = IF i = Len(undo) + 1 THEN d ELSE undo[i]
    BY <1>1, <1>3, HistoryStack DEF OutputInv
<1>5. History(undo)' /\ History(redo)'
  <2>1. PICK u : u = undo'
      OBVIOUS
  <2>2. History(u) /\ History(<< >>)
      BY <1>4, <2>1, EmptyHistory
  <2>3. QED
      BY <1>1, <1>2, <2>1, <2>2, StacksBecome
<1>6. OpenDelta'
    BY <1>1, <1>2, <1>3, EmptyHistory DEF OpenDelta, Chained
<1>7. AtTail'
  <2>1. CASE at = tail
      BY <2>1, <1>1, <1>2 DEF AtTail
  <2>2. CASE at # tail
    <3>1. writes = << >> /\ \A i \in 1 .. Len(undo) : undo[i].events = << >>
        BY <2>2 DEF AtTail, OutputInv
    <3>2. \A i \in 1 .. Len(undo') : undo'[i].events = << >>
        BY <3>1, <1>3, <1>4
    <3>3. QED
        BY <3>2, <1>1, EmptyHistory DEF AtTail
  <2>3. QED
      BY <2>1, <2>2
<1>8. at' \in Addr' /\ reader' \in Addr' /\ Unwinding'
    BY <1>1, <1>2 DEF Unwinding, OutputInv
<1>9. QED
    BY <1>2, <1>4, <1>5, <1>6, <1>7, <1>8 DEF OutputInv, d

\* No delta counts more writes than it has.
LEMMA CountIsBounded ==
    ASSUME NEW d, Len(d) \in Nat
    PROVE  /\ Count(d) \in Nat /\ Count(d) <= Len(d)
           /\ Len(d) = 0 => Count(d) = 0
           /\ Len(d) < CountMod => Count(d) = Len(d)
    BY OutputAssumption DEF Count

\* The lengths of what is on the stacks.
LEMMA EventCounts ==
    ASSUME NEW s, History(s), NEW i \in 1 .. Len(s)
    PROVE  /\ s[i].events \in Seq(Nat) /\ Len(s[i].events) \in Nat
           /\ s[i].events = << >> <=> Len(s[i].events) = 0
<1>1. s[i] \in DeltaRec
    BY ElementOfSeq DEF History
<1>2. s[i].events \in Seq(Nat)
    BY <1>1 DEF DeltaRec
<1>3. QED
    BY <1>2, LenProperties, EmptySeq

\* Undoing begins.
LEMMA BeginKeeps ==
    ASSUME OutputInv, ApplyBackward
    PROVE  /\ OutputInv' /\ undo # << >> /\ Len(undo) \in 1 .. Len(undo)
           /\ pending' = Count(undo[Len(undo)].events)
<1> DEFINE d == undo[Len(undo)]
<1>1. /\ pending = 0 /\ writes = << >> /\ undo # << >> /\ pending' = Count(d.events) /\ pending' # 0
      /\ UNCHANGED <<chan, at, cache, writes, undo, redo, began, reader>>
    BY DEF ApplyBackward, Idle
<1>2. Keeps /\ Inv' /\ PortOnly' /\ UNCHANGED <<Addr, Live, heap, tail>>
    BY <1>1, StillKeeps
<1>3. History(undo) /\ Len(undo) \in 1 .. Len(undo)
    BY <1>1, HistoryPops DEF OutputInv
<1>4. Len(d.events) \in Nat /\ (d.events = << >> <=> Len(d.events) = 0)
    BY <1>3, EventCounts
<1>5. pending' \in Nat /\ pending' <= Len(d.events) /\ Len(d.events) # 0
    BY <1>1, <1>4, CountIsBounded
<1>6. at = tail
    BY <1>3, <1>4, <1>5 DEF AtTail, OutputInv
<1>7. History(undo)' /\ History(redo)'
  <2>1. PICK u : u = undo
      OBVIOUS
  <2>2. PICK r : r = redo
      OBVIOUS
  <2>3. History(u) /\ History(r)
      BY <2>1, <2>2 DEF OutputInv
  <2>4. QED
      BY <1>1, <1>2, <2>1, <2>2, <2>3, StacksBecome
<1>8. OpenDelta'
    BY <1>1, <1>2, <1>5, EmptyHistory DEF OpenDelta, Chained, OutputInv
<1>9. at' \in Addr' /\ reader' \in Addr' /\ Unwinding' /\ AtTail'
    BY <1>1, <1>2, <1>5, <1>6 DEF Unwinding, AtTail, OutputInv
<1>10. QED
    BY <1>1, <1>2, <1>3, <1>7, <1>8, <1>9 DEF OutputInv

\* One write is taken back.
LEMMA UnwriteKeeps ==
    ASSUME OutputInv, UnwriteOne
    PROVE  OutputInv'
<1>1. /\ Inv' /\ PortOnly' /\ Keeps /\ Addr' = Addr
    BY UnwriteTakes
<1>2. /\ pending \in Nat \ {0} /\ pending' = pending - 1 /\ at' = tail' /\ writes = << >> /\ writes' = << >>
      /\ reader' = reader /\ undo # << >> /\ pending <= Len(undo[Len(undo)].events)
      /\ IF pending = 1 THEN Finish ELSE UNCHANGED <<undo, redo, began>>
    BY DEF UnwriteOne, OutputInv, Unwinding
<1>3. History(undo)' /\ History(redo)'
  <2>1. CASE pending = 1
      BY <2>1, <1>1, <1>2, FinishKeeps
  <2>2. CASE pending # 1
    <3>1. PICK u : u = undo
        OBVIOUS
    <3>2. PICK r : r = redo
        OBVIOUS
    <3>3. History(u) /\ History(r)
        BY <3>1, <3>2 DEF OutputInv
    <3>4. QED
        BY <1>1, <1>2, <2>2, <3>1, <3>2, <3>3, StacksBecome
  <2>3. QED
      BY <2>1, <2>2
<1>4. tail' \in Addr' /\ tail' \in Nat
    BY <1>1 DEF Inv, ChanTypeOK, Addr
<1>5. began' \in Addr' /\ (pending' = 0 => began' = tail')
    BY <1>1, <1>2, <1>4 DEF Finish, OutputInv, OpenDelta
<1>6. OpenDelta'
    BY <1>2, <1>5, EmptyHistory DEF OpenDelta, Chained
<1>7. at' \in Addr' /\ reader' \in Addr' /\ AtTail'
    BY <1>1, <1>2, <1>4 DEF AtTail, OutputInv
<1>8. Unwinding'
    BY <1>2 DEF Unwinding
<1>9. QED
    BY <1>1, <1>3, <1>6, <1>7, <1>8 DEF OutputInv

\* A delta without writes is popped.
LEMMA EmptyKeeps ==
    ASSUME OutputInv, ApplyEmpty
    PROVE  OutputInv' /\ Count(undo[Len(undo)].events) = 0 /\ undo # << >> /\ Finish
<1>1. /\ pending = 0 /\ writes = << >> /\ undo # << >> /\ Finish /\ began' = tail'
      /\ Count(undo[Len(undo)].events) = 0
      /\ UNCHANGED <<chan, at, cache, writes, pending, reader>>
    BY DEF ApplyEmpty, Idle, Finish
<1>2. Keeps /\ Inv' /\ PortOnly' /\ UNCHANGED <<Addr, Live, heap, tail>>
    BY <1>1, StillKeeps
<1>3. /\ History(undo)' /\ History(redo)'
      /\ Len(undo) \in Nat /\ Len(undo) # 0 /\ Len(redo) \in Nat
      /\ Len(undo') = Len(undo) - 1 /\ (\A i \in 1 .. Len(undo) - 1 : undo'[i] = undo[i])
      /\ Len(redo') = Len(redo) + 1
      /\ \A i \in 1 .. Len(redo') :
            redo'[i] = IF i = Len(redo) + 1 THEN undo[Len(undo)] ELSE redo[i]
    BY <1>1, <1>2, FinishKeeps
<1>4. tail \in Addr
    BY HeapTypes DEF OutputInv
<1>5. OpenDelta'
    BY <1>1, <1>2, <1>4, EmptyHistory DEF OpenDelta, Chained
<1>6. AtTail'
  <2>1. CASE at = tail
      BY <2>1, <1>1, <1>2 DEF AtTail
  <2>2. CASE at # tail
    <3>1. /\ \A i \in 1 .. Len(undo) : undo[i].events = << >>
          /\ \A i \in 1 .. Len(redo) : redo[i].events = << >>
        BY <2>2 DEF AtTail, OutputInv
    <3>2. \A i \in 1 .. Len(undo') : undo'[i].events = << >>
        BY <3>1, <1>3
    <3>3. \A i \in 1 .. Len(redo') : redo'[i].events = << >>
      <4>1. Len(undo) \in 1 .. Len(undo)
          BY <1>3
      <4>2. \A i \in 1 .. Len(redo') : i = Len(redo) + 1 \/ i \in 1 .. Len(redo)
          BY <1>3
      <4>3. QED
          BY <4>1, <4>2, <3>1, <1>3
    <3>4. QED
        BY <3>2, <3>3, <1>1 DEF AtTail
  <2>3. QED
      BY <2>1, <2>2
<1>7. at' \in Addr' /\ reader' \in Addr' /\ Unwinding'
    BY <1>1, <1>2 DEF Unwinding, OutputInv
<1>8. QED
    BY <1>1, <1>2, <1>3, <1>5, <1>6, <1>7 DEF OutputInv

\* Redoing a delta reads nothing: the port is at the end of the chain already.
LEMMA ForwardKeeps ==
    ASSUME OutputInv, ApplyForward
    PROVE  /\ OutputInv' /\ redo # << >> /\ Len(redo) \in 1 .. Len(redo) /\ Len(undo) \in Nat
           /\ pending = 0 /\ writes = << >> /\ UNCHANGED <<chan, writes, pending>>
           /\ Len(redo') = Len(redo) - 1 /\ (\A i \in 1 .. Len(redo) - 1 : redo'[i] = redo[i])
           /\ Len(undo') = Len(undo) + 1
           /\ \A i \in 1 .. Len(undo') :
                 undo'[i] = IF i = Len(undo) + 1 THEN redo[Len(redo)] ELSE undo[i]
<1> DEFINE d == redo[Len(redo)]
           k == Count(d.events)
<1>1. /\ pending = 0 /\ writes = << >> /\ redo # << >> /\ began' = tail
      /\ undo' = Append(undo, d) /\ redo' = SubSeq(redo, 1, Len(redo) - 1)
      /\ UNCHANGED <<chan, cache, writes, pending, reader>>
      /\ at' = WalkFrom(at, k, "next")[k]
    BY DEF ApplyForward, Idle, WalkFrom
<1>2. Keeps /\ Inv' /\ PortOnly' /\ UNCHANGED <<Addr, Live, heap, tail>>
    BY <1>1, StillKeeps
<1>3. /\ History(redo') /\ Len(redo') = Len(redo) - 1
      /\ Len(redo) \in Nat /\ Len(redo) \in 1 .. Len(redo)
      /\ d \in DeltaRec /\ Chained(d.events, d.from) /\ History(redo)
      /\ \A i \in 1 .. Len(redo) - 1 : redo'[i] = redo[i]
    BY <1>1, HistoryPops DEF OutputInv
<1>4. /\ History(undo') /\ Len(undo) \in Nat /\ Len(undo') = Len(undo) + 1
      /\ \A i \in 1 .. Len(undo') : undo'[i] = IF i = Len(undo) + 1 THEN d ELSE undo[i]
  <2> HIDE DEF d
  <2>1. History(undo)
      BY DEF OutputInv
  <2>2. QED
      BY <1>1, <1>3, <2>1, HistoryStack
<1>5. Len(d.events) \in Nat /\ (d.events = << >> <=> Len(d.events) = 0)
    BY <1>3, EventCounts
<1>6. k \in Nat /\ (d.events = << >> => k = 0)
    BY <1>5, CountIsBounded
<1>7. tail \in Addr /\ Inv
    BY HeapTypes DEF OutputInv
<1> HIDE DEF d, k
<1>8. at' = at
  <2>1. CASE at = tail
    <3> DEFINE path == [i \in 0 .. k |-> tail]
    <3>1. Step(tail, "next") = tail
        BY <1>7, StepNext
    <3>2. \A i \in 0 .. k : path[i] = tail
        OBVIOUS
    <3> HIDE DEF path
    <3>3. \A i \in 1 .. k : path[i] = Step(path[i - 1], "next")
        BY <3>1, <3>2, <1>6
    <3>4. IsPath(path, tail, k, "next")
        BY <3>2, <3>3, <1>6 DEF IsPath
    <3>5. WalkFrom(tail, k, "next")[k] = tail
      <4>1. k \in 0 .. k
          BY <1>6
      <4>2. QED
          BY <4>1, <3>2, <3>4, WalkFollows
    <3>6. QED
        BY <3>5, <2>1, <1>1
  <2>2. CASE at # tail
    <3>1. d.events = << >>
        BY <2>2, <1>3 DEF AtTail, OutputInv, d
    <3>2. k = 0
        BY <3>1, <1>6
    <3>3. WalkFrom(at, 0, "next")[0] = at
        BY WalkUnfolds
    <3>4. QED
        BY <3>2, <3>3, <1>1
  <2>3. QED
      BY <2>1, <2>2
<1>9. History(undo)' /\ History(redo)'
  <2>1. PICK u : u = undo'
      OBVIOUS
  <2>2. PICK r : r = redo'
      OBVIOUS
  <2>3. History(u) /\ History(r)
      BY <2>1, <2>2, <1>3, <1>4
  <2>4. QED
      BY <1>2, <2>1, <2>2, <2>3, StacksBecome
<1>10. OpenDelta'
    BY <1>1, <1>2, <1>7, EmptyHistory DEF OpenDelta, Chained
<1>11. AtTail'
  <2>1. CASE at = tail
      BY <2>1, <1>2, <1>8 DEF AtTail
  <2>2. CASE at # tail
    <3>1. /\ \A i \in 1 .. Len(undo) : undo[i].events = << >>
          /\ \A i \in 1 .. Len(redo) : redo[i].events = << >>
        BY <2>2 DEF AtTail, OutputInv
    <3>2. d.events = << >>
        BY <3>1, <1>3 DEF d
    <3>3. \A i \in 1 .. Len(redo') : redo'[i].events = << >>
        BY <3>1, <1>3
    <3>4. \A i \in 1 .. Len(undo') : i = Len(undo) + 1 \/ i \in 1 .. Len(undo)
        BY <1>4
    <3>5. \A i \in 1 .. Len(undo') : undo'[i].events = << >>
        BY <3>1, <3>2, <3>4, <1>4
    <3>6. QED
        BY <3>3, <3>5, <1>1 DEF AtTail
  <2>3. QED
      BY <2>1, <2>2
<1>12. at' \in Addr' /\ reader' \in Addr' /\ Unwinding'
    BY <1>1, <1>2, <1>8 DEF Unwinding, OutputInv
<1>13. QED
    BY <1>1, <1>2, <1>3, <1>4, <1>9, <1>10, <1>11, <1>12 DEF OutputInv, d

\* A step that touches neither the graph nor a delta.
LEMMA QuietKeeps ==
    ASSUME OutputInv, UNCHANGED <<chan, at, writes, undo, redo, began, pending>>, reader' \in Addr
    PROVE  OutputInv'
<1>1. Keeps /\ Inv' /\ PortOnly' /\ UNCHANGED <<Addr, Live, heap, tail>>
    BY StillKeeps
<1>2. QED
    BY <1>1 DEF OutputInv, History, OpenDelta, Chained, AtTail, Unwinding

\* Every operation keeps the invariant.
LEMMA OutputStep ==
    ASSUME OutputInv, [OutputNext]_outputVars
    PROVE  OutputInv'
<1>1. Inv /\ reader \in Addr
    BY DEF OutputInv
<1>2. CASE Observe
    BY <1>1, <1>2, StepNext, QuietKeeps DEF Observe
<1>3. ASSUME NEW v \in Values, Set(v) PROVE OutputInv'
    BY <1>1, <1>3, QuietKeeps DEF Set
<1>4. CASE Get \/ UNCHANGED outputVars
    BY <1>1, <1>4, QuietKeeps DEF Get, outputVars, chan
<1>5. QED
    BY <1>2, <1>3, <1>4, WriteKeeps, ClearKeeps, TakeKeeps, BeginKeeps, UnwriteKeeps,
       EmptyKeeps, ForwardKeeps DEF OutputNext

\* The port as constructed satisfies the invariant.
LEMMA OutputInitInv == OutputInit => OutputInv /\ StackInv
<1> SUFFICES ASSUME OutputInit PROVE OutputInv /\ StackInv
    OBVIOUS
<1>1. /\ Inv /\ at = head /\ reader = head /\ began = head /\ head = tail
      /\ writes = << >> /\ undo = << >> /\ redo = << >> /\ pending = 0
    BY InitInv DEF OutputInit, ChanInit
<1>2. Addr = {1} /\ head = 1 /\ heap[1] = NewEvent(Default, RootPublisher, NULL, 0)
    BY DEF OutputInit, ChanInit, Addr
<1>3. PortOnly
    BY <1>2 DEF PortOnly, NewEvent, Live
<1>4. OutputInv
    BY <1>1, <1>2, <1>3, EmptyHistory DEF OutputInv, OpenDelta, AtTail, Unwinding
<1>5. Levels([i \in 1 .. 1 |-> Top])
  <2>1. Top \in Int
      BY <1>1, <1>2, EmptyHistory DEF Top, NewEvent
  <2>2. QED
      BY <2>1, <1>1, EmptyHistory DEF Levels
<1>6. StackInv
    BY <1>1, <1>5, EmptyHistory DEF StackInv, Undone
<1>7. QED
    BY <1>4, <1>6

\* So every reachable state satisfies it.
LEMMA OutputSpecInv == OutputSpec => []OutputInv
<1>1. OutputInit => OutputInv
    BY OutputInitInv
<1>2. QED
    BY <1>1, OutputStep, PTL DEF OutputSpec

\* Whatever was written, taken back or cleared while the reader was elsewhere, a reader
\* that can go no further stands on the last value.
THEOREM ReaderAlwaysCatchesUp == OutputSpec => []ReaderCatchesUp
<1>1. OutputInv => ReaderCatchesUp
    BY StepNext DEF OutputInv, ReaderCatchesUp
<1>2. QED
    BY <1>1, OutputSpecInv, PTL

\* The writes of the open delta are always the last events of the channel, in order.
THEOREM OpenWritesStayLast == OutputSpec => []OpenWritesAreLast
<1>1. OutputInv => OpenWritesAreLast
  <2>1. ASSUME OutputInv PROVE DOMAIN writes = 1 .. Len(writes)
      BY <2>1, LenProperties DEF OutputInv, OpenDelta
  <2>2. QED
      BY <2>1 DEF OutputInv, OpenDelta, OpenWritesAreLast
<1>2. QED
    BY <1>1, OutputSpecInv, PTL

-----------------------------------------------------------------------------
(* What is taken back. *)

\* The first event of a delta of a stack, before and after a step.
LEMMA FirstEvent ==
    ASSUME Inv, Keeps, NEW s, History(s), NEW i \in 1 .. Len(s), s[i].events # << >>
    PROVE  /\ s[i].events[1] \in Addr
           /\ heap[s[i].events[1]].displacement \in Nat \ {0}
           /\ s[i].events[1] \in Live' => s[i].events[1] \in Live
           /\ heap'[s[i].events[1]].displacement = heap[s[i].events[1]].displacement
<1>1. Len(s[i].events) \in Nat /\ Len(s[i].events) # 0
    BY EventCounts
<1>2. 1 \in 1 .. Len(s[i].events)
    BY <1>1
<1>3. Chained(s[i].events, s[i].from)
    BY DEF History
<1>4. s[i].events[1] \in Addr /\ heap[s[i].events[1]].displacement # 0
    BY <1>2, <1>3 DEF Chained
<1>5. QED
    BY <1>4, HeapTypes DEF Keeps

\* Deltas that were undone stay off the chain.
LEMMA UndoneKept ==
    ASSUME OutputInv, Keeps, Undone, UNCHANGED redo
    PROVE  Undone'
<1>1. Inv /\ History(redo)
    BY DEF OutputInv
<1>2. \A i \in 1 .. Len(redo) : redo[i].events # << >> => redo[i].events[1] \notin Live'
    BY <1>1, FirstEvent DEF Undone
<1>3. QED
    BY <1>2 DEF Undone

\* The levels of a stack that is not touched stay right if the top stays where it is.
LEMMA LevelsKept ==
    ASSUME OutputInv, Keeps, UNCHANGED undo, Top' = Top, NEW level, Levels(level)
    PROVE  Levels(level)'
<1>1. Inv /\ History(undo)
    BY DEF OutputInv
<1>2. ASSUME NEW i \in 1 .. Len(undo), undo[i].events # << >>, undo[i].events[1] \in Live'
      PROVE  level[i + 1] < heap'[undo[i].events[1]].displacement + Len(undo[i].events)
    BY <1>1, <1>2, FirstEvent DEF Levels
<1>3. QED
    BY <1>2 DEF Levels

\* The top, and the levels of the deltas, as numbers.
LEMMA LevelTypes ==
    ASSUME OutputInv
    PROVE  /\ heap[tail].displacement \in Nat /\ Len(writes) \in Nat /\ Len(undo) \in Nat
           /\ pending \in Nat /\ Top \in Int
<1>1. heap[tail].displacement \in Nat /\ Len(writes) \in Nat /\ Len(undo) \in Nat /\ pending \in Nat
    BY HeapTypes, LenProperties DEF OutputInv, OpenDelta, History, Unwinding
<1>2. pending # 0 => Len(undo[Len(undo)].events) \in Nat
  <2>1. pending # 0 => undo # << >> /\ History(undo)
      BY DEF OutputInv, Unwinding
  <2>2. pending # 0 => Len(undo) \in 1 .. Len(undo)
      BY <2>1, HistoryPops
  <2>3. QED
      BY <2>1, <2>2, EventCounts
<1>3. CASE pending = 0
    BY <1>1, <1>3 DEF Top
<1>4. CASE pending # 0
  <2>1. Top = heap[tail].displacement - Len(writes) + (Len(undo[Len(undo)].events) - pending)
      BY <1>4 DEF Top
  <2>2. QED
      BY <2>1, <1>1, <1>2, <1>4
<1>5. QED
    BY <1>1, <1>3, <1>4

\* A write belongs to the open delta: the top stays where it is.
LEMMA WriteStack ==
    ASSUME OutputInv, StackInv, NEW v \in Values, Write(v)
    PROVE  StackInv'
<1>1. /\ Keeps /\ heap'[tail'].displacement = heap[tail].displacement + 1
      /\ heap[tail].displacement \in Nat
    BY WriteAppends
<1>2. pending = 0 /\ writes' = Append(writes, tail') /\ UNCHANGED <<undo, redo, pending>>
    BY DEF Write, Idle
<1>3. Len(writes') = Len(writes) + 1 /\ Len(writes) \in Nat
  <2>1. writes \in Seq(Nat) /\ tail' \in Nat
      BY WriteAppends DEF OutputInv, OpenDelta
  <2>2. QED
      BY <2>1, <1>2, AppendProperties, LenProperties
<1>4. Top' = Top
    <2>. DEFINE rest == IF pending = 0 THEN 0 ELSE Len(undo[Len(undo)].events) - pending
    <2>1. rest = 0 /\ rest' = 0
        BY <1>2
    <2>2. Top = heap[tail].displacement - Len(writes) + rest
        BY DEF Top
    <2>3. Top' = heap'[tail'].displacement - Len(writes') + rest'
        BY DEF Top
    <2>. HIDE DEF rest
    <2>4. heap'[tail'].displacement - Len(writes') = heap[tail].displacement - Len(writes)
        BY <1>1, <1>3
    <2>5. QED
        BY <2>1, <2>2, <2>3, <2>4
<1>5. PICK level : Levels(level)
    BY DEF StackInv
<1>6. Levels(level)'
    BY <1>1, <1>2, <1>4, <1>5, LevelsKept
<1>7. Undone'
    BY <1>1, <1>2, UndoneKept DEF StackInv
<1>8. QED
    BY <1>2, <1>6, <1>7 DEF StackInv

\* A clear leaves no deltas.
LEMMA ClearStack ==
    ASSUME OutputInv, NEW v \in Values, ClearOutput(v)
    PROVE  StackInv'
<1>1. undo' = << >> /\ redo' = << >> /\ writes' = << >> /\ pending' = 0
    BY DEF ClearOutput, Idle
<1>2. heap'[tail'].displacement = 0
  <2>1. tail' = head' /\ heap'[head'] = NewEvent(v, RootPublisher, NULL, 0)
      BY ClearEffect DEF ClearOutput, OutputInv
  <2>2. QED
      BY <2>1 DEF NewEvent
<1>3. Top' = 0
  <2>1. Top' = heap'[tail'].displacement - Len(writes') + 0
      BY <1>1 DEF Top
  <2>2. Len(writes') = 0
      BY <1>1, EmptyHistory
  <2>3. QED
      BY <2>1, <2>2, <1>2
<1>4. Levels([i \in 1 .. 1 |-> 0])'
    BY <1>1, <1>3, EmptyHistory DEF Levels
<1>5. QED
    BY <1>1, <1>4, EmptyHistory DEF StackInv, Undone

\* The open delta becomes the topmost, with its own level below it.
LEMMA TakeStack ==
    ASSUME OutputInv, StackInv, CountFits, TakeDelta
    PROVE  StackInv'
<1> DEFINE m == Len(undo)
           n == Len(writes)
           d == [events |-> writes, from |-> began]
<1>1. /\ pending = 0 /\ redo' = << >> /\ writes' = << >> /\ pending' = 0 /\ UNCHANGED chan
    BY DEF TakeDelta, Idle
<1>2. Keeps /\ UNCHANGED <<Addr, Live, heap, tail>> /\ Inv /\ History(undo)
    BY <1>1, StillKeeps DEF OutputInv
<1>3. /\ m \in Nat /\ Len(undo') = m + 1
      /\ \A i \in 1 .. m : undo'[i] = undo[i]
      /\ undo'[m + 1] = d
    BY TakeKeeps
<1>4. PICK level : Levels(level)
    BY DEF StackInv
<1>5. heap[tail].displacement \in Nat /\ n \in Nat /\ Top \in Int /\ Top = heap[tail].displacement - n
    BY <1>1, LevelTypes DEF Top
<1>6. Top' = heap[tail].displacement /\ Top' = Top + n
    BY <1>1, <1>2, <1>5, EmptyHistory DEF Top
<1> DEFINE next == [i \in 1 .. m + 2 |-> IF i = m + 2 THEN Top' ELSE level[i]]
<1>7. ASSUME NEW i \in 1 .. m + 1
      PROVE  /\ next[i] = next[i + 1] - Len(undo'[i].events)
             /\ undo'[i].events # << >> /\ undo'[i].events[1] \in Live =>
                  next[i + 1] < heap[undo'[i].events[1]].displacement + Len(undo'[i].events)
  <2>1. CASE i = m + 1
    <3>1. next[i] = Top /\ next[i + 1] = Top' /\ undo'[i].events = writes
        BY <2>1, <1>3, <1>4 DEF Levels
    <3>2. next[i] = next[i + 1] - n
        BY <3>1, <1>5, <1>6
    <3>3. ASSUME writes # << >>
          PROVE  Top' < heap[writes[1]].displacement + n
      <4>1. 1 \in 1 .. n
          BY <3>3, <1>5, EmptySeq DEF OutputInv, OpenDelta
      <4>2. /\ writes[1] \in Live
            /\ heap[tail].displacement - heap[writes[1]].displacement = n - 1
          BY <4>1 DEF OutputInv, OpenDelta
      <4>3. heap[writes[1]].displacement \in Nat
          BY <4>2, <1>2, HeapTypes
      <4>4. PICK b : b = heap[writes[1]].displacement
          OBVIOUS
      <4> HIDE DEF n
      <4>5. b \in Nat /\ heap[tail].displacement - b = n - 1
          BY <4>2, <4>3, <4>4
      <4>6. heap[tail].displacement < b + n
          BY <4>5, <1>5
      <4>7. QED
          BY <4>4, <4>6, <1>6
    <3> HIDE DEF next, n, d
    <3>4. QED
        BY <3>1, <3>2, <3>3 DEF n
  <2>2. CASE i # m + 1
    <3>1. i \in 1 .. m /\ undo'[i] = undo[i] /\ next[i] = level[i] /\ next[i + 1] = level[i + 1]
        BY <2>2, <1>3
    <3> HIDE DEF next, m
    <3>2. QED
        BY <3>1, <1>4 DEF Levels, m
  <2>3. QED
      BY <2>1, <2>2
<1>8. next \in [1 .. m + 2 -> Int] /\ next[m + 2] = Top'
  <2>1. \A i \in 1 .. m + 1 : level[i] \in Int
      BY <1>4 DEF Levels
  <2>2. Top' \in Int
      BY <1>5, <1>6
  <2>3. \A i \in 1 .. m + 2 : i = m + 2 \/ i \in 1 .. m + 1
      BY <1>3
  <2>4. m + 2 \in 1 .. m + 2
      BY <1>3
  <2>5. QED
      BY <2>1, <2>2, <2>3, <2>4
<1>9. (\E l : Levels(l))'
  <2>1. Len(undo') + 1 = m + 2
      BY <1>3
  <2>2. PICK l : l = next
      OBVIOUS
  <2> HIDE DEF next, m
  <2>3. Levels(l)'
      BY <2>1, <2>2, <1>2, <1>3, <1>7, <1>8 DEF Levels
  <2>4. QED
      BY <2>3
<1>10. \A i \in 1 .. Len(undo') : Len(undo'[i].events) < CountMod
  <2>1. \A i \in 1 .. Len(undo') : i = m + 1 \/ i \in 1 .. m
      BY <1>3
  <2>2. Len(d.events) < CountMod
      BY DEF CountFits
  <2>3. QED
      BY <2>1, <2>2, <1>3 DEF StackInv
<1> HIDE DEF next
<1>11. QED
    BY <1>1, <1>9, <1>10, EmptyHistory DEF StackInv, Undone

\* The number of unwrites to do is the number of writes, when the counter is wide enough.
LEMMA BeginStack ==
    ASSUME OutputInv, StackInv, ApplyBackward
    PROVE  StackInv'
<1> DEFINE k == Len(undo[Len(undo)].events)
<1>1. /\ pending = 0 /\ UNCHANGED <<chan, writes, undo, redo>> /\ pending' # 0
    BY DEF ApplyBackward, Idle
<1>2. Keeps /\ UNCHANGED <<Addr, Live, heap, tail>> /\ History(undo)
    BY <1>1, StillKeeps DEF OutputInv
<1>3. Len(undo) \in 1 .. Len(undo) /\ pending' = Count(undo[Len(undo)].events)
    BY BeginKeeps
<1>4. k \in Nat /\ pending' = k
    BY <1>2, <1>3, EventCounts, CountIsBounded DEF StackInv
<1>5. Top' = Top
  <2>1. Top = heap[tail].displacement - Len(writes) + 0
      BY <1>1 DEF Top
  <2>2. Top' = heap[tail].displacement - Len(writes) + (k - pending')
      BY <1>1, <1>2 DEF Top
  <2> HIDE DEF k
  <2>3. k - pending' = 0
      BY <1>4
  <2>4. QED
      BY <2>1, <2>2, <2>3
<1>6. PICK level : Levels(level)
    BY DEF StackInv
<1>7. Levels(level)'
    BY <1>1, <1>2, <1>5, <1>6, LevelsKept
<1>8. Undone'
    BY <1>1, <1>2, UndoneKept DEF StackInv
<1>9. QED
    BY <1>1, <1>7, <1>8 DEF StackInv

\* With all but one of its writes taken back, and the first of them still there, the
\* first is the last event of the chain.
LEMMA LastToGo ==
    ASSUME OutputInv, StackInv, pending = 1, undo[Len(undo)].events[1] \in Live
    PROVE  tail = undo[Len(undo)].events[1] /\ tail # head
<1> DEFINE d == undo[Len(undo)]
           e == d.events[1]
<1>1. undo # << >> /\ writes = << >> /\ 1 <= Len(d.events)
    BY DEF OutputInv, Unwinding
<1>2. /\ Len(undo) \in Nat /\ Len(undo) \in 1 .. Len(undo) /\ History(undo)
      /\ Chained(d.events, d.from)
    BY <1>1, HistoryPops DEF OutputInv
<1>3. d.events # << >> /\ Len(d.events) \in Nat
    BY <1>1, <1>2, EventCounts
<1>4. e \in Live /\ heap[e].displacement # 0
  <2>1. 1 \in 1 .. Len(d.events)
      BY <1>1, <1>3
  <2>2. QED
      BY <2>1, <1>2 DEF Chained
<1>5. PICK level : Levels(level)
    BY DEF StackInv
<1>6. Top < heap[e].displacement + Len(d.events)
    BY <1>2, <1>3, <1>4, <1>5 DEF Levels
<1>7. heap[tail].displacement \in Nat /\ heap[e].displacement \in Nat
    BY <1>4, HeapTypes DEF OutputInv
<1>8. Top = heap[tail].displacement - 0 + (Len(d.events) - 1)
    BY <1>1, EmptyHistory DEF Top
<1> HIDE DEF d, e
<1>9. heap[tail].displacement <= heap[e].displacement
    BY <1>3, <1>6, <1>7, <1>8
<1>10. heap[tail].displacement = heap[e].displacement
    BY <1>4, <1>7, <1>9 DEF OutputInv, Inv, OneEventPerTime
<1>11. tail = e
    BY <1>4, <1>10 DEF OutputInv, Inv, OneEventPerTime, ChainIntact
<1>12. tail # head
    BY <1>4, <1>11 DEF OutputInv, Inv, ChainIntact
<1>13. QED
    BY <1>11, <1>12 DEF d, e

\* The stack loses its top when the last write of it is taken back, and the levels below
\* stay; at the start of the chain, where there is nothing left to take back, no delta
\* has an event on the chain any more, and the levels only keep up with the count.
LEMMA UnwriteStack ==
    ASSUME OutputInv, StackInv, UnwriteOne
    PROVE  StackInv'
<1> DEFINE m == Len(undo)
           d == undo[m]
           k == Len(d.events)
           D == heap[tail].displacement
<1>1. /\ Keeps
      /\ tail # head => Live' = Live \ {tail} /\ heap'[tail'].displacement + 1 = D
      /\ tail = head => tail' = tail /\ Live' = Live /\ heap'[tail'].displacement = 0 /\ D = 0
  <2>1. /\ Keeps
        /\ tail # head => /\ tail' = heap[tail].prev
                          /\ Live' = Live \ {tail}
                          /\ heap[tail'].displacement + 1 = D
        /\ tail = head => tail' = tail /\ Live' = Live
      BY UnwriteTakes
  <2>2. tail # head => tail' \in Addr
      BY <2>1, HeapTypes DEF OutputInv, Inv, ChainIntact
  <2>3. /\ tail # head => heap'[tail'].displacement = heap[tail'].displacement
        /\ heap'[tail].displacement = D
      BY <2>1, <2>2, HeapTypes DEF Keeps, OutputInv
  <2>4. tail = head => D = 0
      BY DEF OutputInv, Inv, ChainIntact
  <2>5. QED
      BY <2>1, <2>3, <2>4
<1>2. /\ pending \in Nat \ {0} /\ pending' = pending - 1 /\ writes = << >> /\ writes' = << >>
      /\ undo # << >> /\ pending <= k
      /\ IF pending = 1 THEN Finish ELSE UNCHANGED <<undo, redo, began>>
    BY DEF UnwriteOne, OutputInv, Unwinding
<1>3. Inv /\ History(undo) /\ History(redo) /\ m \in Nat /\ m \in 1 .. m
      /\ D \in Nat /\ k \in Nat /\ heap'[tail'].displacement \in Nat
  <2>1. Inv /\ History(undo) /\ History(redo)
      BY DEF OutputInv
  <2>2. m \in Nat /\ m \in 1 .. m
      BY <1>2, <2>1, HistoryPops
  <2>3. k \in Nat
      BY <2>1, <2>2, EventCounts
  <2>4. D \in Nat
      BY <2>1, HeapTypes
  <2>5. heap'[tail'].displacement \in Nat
    <3>1. tail' \in Addr' /\ heap' \in [Addr' -> EventRec(Addr' \cup {NULL})]
        BY UnwriteTakes DEF Inv, ChanTypeOK
    <3>2. QED
        BY <3>1 DEF EventRec
  <2>6. QED
      BY <2>1, <2>2, <2>3, <2>4, <2>5
<1>4. PICK level : Levels(level)
    BY DEF StackInv
<1>5. Top = D + (k - pending)
  <2>1. Top = D - 0 + (k - pending)
      BY <1>2, EmptyHistory DEF Top
  <2> HIDE DEF k, D
  <2>2. QED
      BY <2>1, <1>2, <1>3
<1> DEFINE up == IF tail = head THEN 1 ELSE 0
           next == [i \in 1 .. Len(undo') + 1 |-> level[i] + up]
<1>6. \A i \in 1 .. m + 1 : level[i] \in Int
    BY <1>4 DEF Levels
<1>7. up \in {0, 1} /\ heap'[tail'].displacement = D - 1 + up
    BY <1>1, <1>3
<1>8. /\ Len(undo') \in Nat /\ Len(undo') <= m
      /\ \A i \in 1 .. Len(undo') : undo'[i] = undo[i]
      /\ Len(undo') = IF pending = 1 THEN m - 1 ELSE m
  <2>1. CASE pending = 1
      BY <2>1, <1>1, <1>2, <1>3, FinishKeeps
  <2>2. CASE pending # 1
      BY <2>2, <1>2, <1>3
  <2>3. QED
      BY <2>1, <2>2
<1>9. Top' = next[Len(undo') + 1]
  <2>1. CASE pending = 1
    <3>1. Top' = heap'[tail'].displacement - Len(writes') + 0
        BY <2>1, <1>2 DEF Top
    <3>2. level[m] = level[m + 1] - k /\ level[m + 1] = Top
        BY <1>3, <1>4 DEF Levels
    <3>3. Len(undo') + 1 = m /\ next[m] = level[m] + up
        BY <2>1, <1>3, <1>8
    <3>4. Len(writes') = 0
        BY <1>2, EmptyHistory
    <3> HIDE DEF next, up, D, k, m
    <3>5. QED
        BY <2>1, <3>1, <3>2, <3>3, <3>4, <1>3, <1>5, <1>7
  <2>2. CASE pending # 1
    <3>1. Top' = heap'[tail'].displacement - Len(writes') + (k - pending')
        BY <2>2, <1>2 DEF Top
    <3>2. level[m + 1] = Top
        BY <1>4 DEF Levels
    <3>3. Len(undo') + 1 = m + 1 /\ next[m + 1] = level[m + 1] + up
        BY <2>2, <1>3, <1>8
    <3>4. Len(writes') = 0
        BY <1>2, EmptyHistory
    <3> HIDE DEF next, up, D, k, m
    <3>5. QED
        BY <2>2, <3>1, <3>2, <3>3, <3>4, <1>2, <1>3, <1>5, <1>7
  <2>3. QED
      BY <2>1, <2>2
<1>10. ASSUME NEW i \in 1 .. Len(undo')
       PROVE  /\ next[i] = next[i + 1] - Len(undo'[i].events)
              /\ undo'[i].events # << >> /\ undo'[i].events[1] \in Live' =>
                   next[i + 1] < heap'[undo'[i].events[1]].displacement + Len(undo'[i].events)
  <2>1. /\ i \in 1 .. m /\ i + 1 \in 1 .. m + 1 /\ i + 1 \in 1 .. Len(undo') + 1
        /\ i \in 1 .. Len(undo') + 1 /\ undo'[i] = undo[i]
      BY <1>3, <1>8
  <2>2. next[i] = level[i] + up /\ next[i + 1] = level[i + 1] + up
      BY <2>1
  <2>3. level[i] = level[i + 1] - Len(undo[i].events)
      BY <2>1, <1>4 DEF Levels
  <2>4. Len(undo[i].events) \in Nat
      BY <2>1, <1>3, EventCounts
  <2>5. level[i] \in Int /\ level[i + 1] \in Int
      BY <2>1, <1>3, <1>6
  <2>6. next[i] = next[i + 1] - Len(undo[i].events)
    <3> HIDE DEF next, up
    <3>1. QED
        BY <2>2, <2>3, <2>4, <2>5, <1>7
  <2>7. ASSUME undo[i].events # << >>, undo[i].events[1] \in Live'
        PROVE  next[i + 1] < heap'[undo[i].events[1]].displacement + Len(undo[i].events)
    <3> DEFINE e == undo[i].events[1]
    <3>1. e \in Live /\ heap'[e].displacement = heap[e].displacement /\ heap[e].displacement \in Nat \ {0}
        BY <2>1, <2>7, <1>1, <1>3, FirstEvent
    <3>2. tail # head
      <4>1. heap[e].displacement <= D
          BY <3>1, <1>3 DEF Inv, OneEventPerTime
      <4> HIDE DEF D, e
      <4>2. QED
          BY <3>1, <4>1, <1>1, <1>3
    <3>3. level[i + 1] < heap[e].displacement + Len(undo[i].events)
        BY <2>1, <2>7, <3>1, <1>4 DEF Levels
    <3>4. up = 0
        BY <3>2
    <3> HIDE DEF next, up, e
    <3>5. next[i + 1] = level[i + 1]
        BY <2>2, <2>5, <3>4
    <3>6. QED
        BY <3>1, <3>3, <3>5 DEF e
  <2>8. QED
      BY <2>1, <2>6, <2>7
<1>11. (\E l : Levels(l))'
  <2>1. PICK l : l = next
      OBVIOUS
  <2>2. l \in [1 .. Len(undo') + 1 -> Int]
    <3>1. \A i \in 1 .. Len(undo') + 1 : i \in 1 .. m + 1
        BY <1>3, <1>8
    <3>2. \A i \in 1 .. Len(undo') + 1 : level[i] + up \in Int
        BY <3>1, <1>6, <1>7
    <3>3. QED
        BY <2>1, <3>2
  <2> HIDE DEF next
  <2>3. Levels(l)'
      BY <2>1, <2>2, <1>9, <1>10 DEF Levels
  <2>4. QED
      BY <2>3
<1>12. Undone' /\ \A i \in 1 .. Len(redo') : Len(redo'[i].events) < CountMod
  <2>1. CASE pending = 1
    <3>1. /\ Len(redo) \in Nat /\ Len(redo') = Len(redo) + 1
          /\ \A i \in 1 .. Len(redo') : redo'[i] = IF i = Len(redo) + 1 THEN d ELSE redo[i]
        BY <2>1, <1>1, <1>2, FinishKeeps
    <3>2. \A i \in 1 .. Len(redo') : i = Len(redo) + 1 \/ i \in 1 .. Len(redo)
        BY <3>1
    <3>3. d.events # << >> => d.events[1] \notin Live'
      <4>1. ASSUME d.events # << >>, d.events[1] \in Live' PROVE FALSE
        <5>1. d.events[1] \in Live
            BY <4>1, <1>1, <1>3, FirstEvent
        <5>2. tail = d.events[1] /\ tail # head
            BY <5>1, <2>1, LastToGo
        <5>3. QED
            BY <5>2, <4>1, <1>1
      <4>2. QED
          BY <4>1
    <3>4. \A i \in 1 .. Len(redo) : redo[i].events # << >> => redo[i].events[1] \notin Live'
        BY <1>1, <1>3, FirstEvent DEF StackInv, Undone
    <3>5. k < CountMod /\ \A i \in 1 .. Len(redo) : Len(redo[i].events) < CountMod
        BY <1>3 DEF StackInv
    <3> HIDE DEF d
    <3>6. Undone'
        BY <3>1, <3>2, <3>3, <3>4 DEF Undone
    <3>7. QED
        BY <3>1, <3>2, <3>5, <3>6
  <2>2. CASE pending # 1
      BY <2>2, <1>1, <1>2, UndoneKept DEF StackInv
  <2>3. QED
      BY <2>1, <2>2
<1>13. \A i \in 1 .. Len(undo') : Len(undo'[i].events) < CountMod
    BY <1>3, <1>8 DEF StackInv
<1>14. QED
    BY <1>11, <1>12, <1>13 DEF StackInv

\* A delta without writes has no level of its own.
LEMMA EmptyStack ==
    ASSUME OutputInv, StackInv, ApplyEmpty
    PROVE  StackInv'
<1> DEFINE m == Len(undo)
           d == undo[m]
<1>1. /\ pending = 0 /\ undo # << >> /\ Finish /\ Count(d.events) = 0
      /\ UNCHANGED <<chan, writes, pending>>
    BY DEF ApplyEmpty, Idle
<1>2. Keeps /\ UNCHANGED <<Addr, Live, heap, tail>> /\ Inv /\ History(undo) /\ History(redo)
    BY <1>1, StillKeeps DEF OutputInv
<1>3. /\ m \in Nat /\ m \in 1 .. m /\ Len(redo) \in Nat
      /\ Len(undo') = m - 1 /\ (\A i \in 1 .. m - 1 : undo'[i] = undo[i])
      /\ Len(redo') = Len(redo) + 1
      /\ \A i \in 1 .. Len(redo') : redo'[i] = IF i = Len(redo) + 1 THEN d ELSE redo[i]
    BY <1>1, <1>2, FinishKeeps
<1>4. d.events = << >> /\ Len(d.events) = 0
  <2>1. Len(d.events) \in Nat /\ (d.events = << >> <=> Len(d.events) = 0)
      BY <1>2, <1>3, EventCounts
  <2>2. Len(d.events) < CountMod
      BY <1>3 DEF StackInv
  <2>3. QED
      BY <2>1, <2>2, <1>1, CountIsBounded
<1>5. PICK level : Levels(level)
    BY DEF StackInv
<1>6. Top \in Int /\ Top' = Top
    BY <1>1, <1>2, LevelTypes DEF Top
<1> DEFINE next == [i \in 1 .. m |-> level[i]]
<1>7. /\ \A i \in 1 .. m + 1 : level[i] \in Int
      /\ level[m + 1] = Top /\ level[m] = level[m + 1] - Len(d.events)
    BY <1>3, <1>5 DEF Levels
<1>8. next[m] = Top' /\ next \in [1 .. m -> Int]
    BY <1>3, <1>4, <1>6, <1>7
<1>9. ASSUME NEW i \in 1 .. m - 1
      PROVE  /\ next[i] = next[i + 1] - Len(undo'[i].events)
             /\ undo'[i].events # << >> /\ undo'[i].events[1] \in Live =>
                  next[i + 1] < heap[undo'[i].events[1]].displacement + Len(undo'[i].events)
  <2>1. i \in 1 .. m /\ i + 1 \in 1 .. m /\ undo'[i] = undo[i]
      BY <1>3
  <2>2. next[i] = level[i] /\ next[i + 1] = level[i + 1]
      BY <2>1
  <2> HIDE DEF next, m
  <2>3. QED
      BY <2>1, <2>2, <1>5 DEF Levels, m
<1>10. (\E l : Levels(l))'
  <2>1. Len(undo') + 1 = m
      BY <1>3
  <2>2. PICK l : l = next
      OBVIOUS
  <2> HIDE DEF next, m
  <2>3. Levels(l)'
      BY <2>1, <2>2, <1>2, <1>3, <1>8, <1>9 DEF Levels
  <2>4. QED
      BY <2>3
<1>11. \A i \in 1 .. Len(redo') : i = Len(redo) + 1 \/ i \in 1 .. Len(redo)
    BY <1>3
<1>12. Undone'
  <2>1. \A i \in 1 .. Len(redo) : redo[i].events # << >> => redo[i].events[1] \notin Live'
      BY <1>2, FirstEvent DEF StackInv, Undone
  <2> HIDE DEF d
  <2>2. QED
      BY <2>1, <1>3, <1>4, <1>11 DEF Undone
<1>13. /\ \A i \in 1 .. Len(undo') : Len(undo'[i].events) < CountMod
       /\ \A i \in 1 .. Len(redo') : Len(redo'[i].events) < CountMod
  <2>1. 0 < CountMod
      BY OutputAssumption
  <2>2. /\ \A i \in 1 .. m : Len(undo[i].events) < CountMod
        /\ \A i \in 1 .. Len(redo) : Len(redo[i].events) < CountMod
      BY DEF StackInv
  <2>3. \A i \in 1 .. m - 1 : i \in 1 .. m
      BY <1>3
  <2> HIDE DEF d, m
  <2>4. \A i \in 1 .. Len(undo') : Len(undo'[i].events) < CountMod
      BY <2>2, <2>3, <1>3
  <2>5. \A i \in 1 .. Len(redo') : Len(redo'[i].events) < CountMod
      BY <2>1, <2>2, <1>3, <1>4, <1>11
  <2>6. QED
      BY <2>4, <2>5
<1>14. QED
    BY <1>10, <1>12, <1>13 DEF StackInv

\* A redone delta has nothing on the chain: the levels below it make room for its count.
LEMMA ForwardStack ==
    ASSUME OutputInv, StackInv, ApplyForward
    PROVE  StackInv'
<1> DEFINE m == Len(undo)
           d == redo[Len(redo)]
           k == Len(d.events)
<1>1. /\ Len(redo) \in 1 .. Len(redo) /\ m \in Nat
      /\ pending = 0 /\ writes = << >> /\ UNCHANGED <<chan, writes, pending>>
      /\ Len(redo') = Len(redo) - 1 /\ (\A i \in 1 .. Len(redo) - 1 : redo'[i] = redo[i])
      /\ Len(undo') = m + 1
      /\ \A i \in 1 .. Len(undo') : undo'[i] = IF i = m + 1 THEN d ELSE undo[i]
    BY ForwardKeeps
<1>2. Keeps /\ UNCHANGED <<Addr, Live, heap, tail>> /\ Inv /\ History(undo) /\ History(redo)
    BY <1>1, StillKeeps DEF OutputInv
<1>3. k \in Nat /\ (d.events # << >> => d.events[1] \notin Live)
    BY <1>1, <1>2, EventCounts DEF StackInv, Undone
<1>4. PICK level : Levels(level)
    BY DEF StackInv
<1>5. Top \in Int /\ Top' = Top
    BY <1>1, <1>2, LevelTypes DEF Top
<1> DEFINE next == [i \in 1 .. m + 2 |-> IF i = m + 2 THEN Top ELSE level[i] - k]
<1>6. (\A i \in 1 .. m + 1 : level[i] \in Int) /\ level[m + 1] = Top
    BY <1>4 DEF Levels
<1>7. ASSUME NEW i \in 1 .. m + 1
      PROVE  /\ next[i] = next[i + 1] - Len(undo'[i].events)
             /\ undo'[i].events # << >> /\ undo'[i].events[1] \in Live =>
                  next[i + 1] < heap[undo'[i].events[1]].displacement + Len(undo'[i].events)
  <2>1. CASE i = m + 1
    <3>1. undo'[i] = d /\ next[i] = level[m + 1] - k /\ next[i + 1] = Top
        BY <2>1, <1>1
    <3> HIDE DEF next, d
    <3>2. QED
        BY <3>1, <1>3, <1>6
  <2>2. CASE i # m + 1
    <3>1. /\ i \in 1 .. m /\ undo'[i] = undo[i] /\ i + 1 \in 1 .. m + 1
          /\ next[i] = level[i] - k /\ next[i + 1] = level[i + 1] - k
        BY <2>2, <1>1
    <3>2. level[i] \in Int /\ level[i + 1] \in Int
        BY <3>1, <1>6
    <3>3. /\ level[i] = level[i + 1] - Len(undo[i].events)
          /\ undo[i].events # << >> /\ undo[i].events[1] \in Live =>
                level[i + 1] < heap[undo[i].events[1]].displacement + Len(undo[i].events)
        BY <3>1, <1>4 DEF Levels
    <3>4. Len(undo[i].events) \in Nat
        BY <3>1, <1>2, EventCounts
    <3> HIDE DEF next, k, d, m
    <3>5. next[i] = next[i + 1] - Len(undo[i].events)
        BY <3>1, <3>2, <3>3, <3>4, <1>3
    <3>6. ASSUME undo[i].events # << >>, undo[i].events[1] \in Live
          PROVE  next[i + 1] < heap[undo[i].events[1]].displacement + Len(undo[i].events)
      <4>1. PICK b : b = heap[undo[i].events[1]].displacement
          OBVIOUS
      <4>2. PICK n : n = Len(undo[i].events)
          OBVIOUS
      <4>3. b \in Nat /\ n \in Nat
          BY <4>1, <4>2, <3>4, <3>6, <1>2, HeapTypes
      <4>4. level[i + 1] < b + n
          BY <4>1, <4>2, <3>3, <3>6
      <4>5. next[i + 1] < b + n
          BY <4>3, <4>4, <3>1, <3>2, <1>3
      <4>6. QED
          BY <4>1, <4>2, <4>5
    <3>7. QED
        BY <3>1, <3>5, <3>6
  <2>3. QED
      BY <2>1, <2>2
<1>8. next \in [1 .. m + 2 -> Int] /\ next[m + 2] = Top'
  <2>1. \A i \in 1 .. m + 2 : i = m + 2 \/ i \in 1 .. m + 1
      BY <1>1
  <2>2. m + 2 \in 1 .. m + 2
      BY <1>1
  <2> HIDE DEF k
  <2>3. QED
      BY <2>1, <2>2, <1>3, <1>5, <1>6
<1>9. (\E l : Levels(l))'
  <2>1. Len(undo') + 1 = m + 2
      BY <1>1
  <2>2. PICK l : l = next
      OBVIOUS
  <2> HIDE DEF next, m
  <2>3. Levels(l)'
      BY <2>1, <2>2, <1>1, <1>2, <1>7, <1>8 DEF Levels
  <2>4. QED
      BY <2>3
<1>10. Undone'
  <2>1. \A i \in 1 .. Len(redo) - 1 : i \in 1 .. Len(redo)
      BY <1>1
  <2>2. QED
      BY <2>1, <1>1, <1>2 DEF StackInv, Undone
<1>11. /\ \A i \in 1 .. Len(undo') : Len(undo'[i].events) < CountMod
       /\ \A i \in 1 .. Len(redo') : Len(redo'[i].events) < CountMod
  <2>1. \A i \in 1 .. Len(undo') : i = m + 1 \/ i \in 1 .. m
      BY <1>1
  <2>2. k < CountMod
      BY <1>1 DEF StackInv
  <2>3. \A i \in 1 .. Len(redo) - 1 : i \in 1 .. Len(redo)
      BY <1>1
  <2> HIDE DEF d
  <2>4. QED
      BY <2>1, <2>2, <2>3, <1>1 DEF StackInv
<1>12. QED
    BY <1>9, <1>10, <1>11 DEF StackInv

\* Every operation keeps the stacks in order, as long as the counter is wide enough.
LEMMA StackStep ==
    ASSUME OutputInv, StackInv, CountFits, [OutputNext]_outputVars
    PROVE  StackInv'
<1>1. CASE UNCHANGED <<chan, writes, undo, redo, pending>>
  <2>1. Keeps /\ UNCHANGED <<Addr, Live, heap, tail>>
      BY <1>1, StillKeeps
  <2>2. Top' = Top
      BY <1>1, <2>1 DEF Top
  <2>3. PICK level : Levels(level)
      BY DEF StackInv
  <2>4. Levels(level)'
      BY <1>1, <2>1, <2>2, <2>3, LevelsKept
  <2>5. Undone'
      BY <1>1, <2>1, UndoneKept DEF StackInv
  <2>6. QED
      BY <1>1, <2>4, <2>5 DEF StackInv
<1>2. CASE Observe
    BY <1>1, <1>2 DEF Observe
<1>3. ASSUME NEW v \in Values, Set(v) PROVE StackInv'
    BY <1>1, <1>3 DEF Set
<1>4. CASE Get \/ UNCHANGED outputVars
    BY <1>1, <1>4 DEF Get, outputVars, chan
<1>5. QED
    BY <1>2, <1>3, <1>4, WriteStack, ClearStack, TakeStack, BeginStack, UnwriteStack,
       EmptyStack, ForwardStack DEF OutputNext

\* The levels exist in every behaviour in which the counters are wide enough.
LEMMA StackSpecInv == OutputSpec /\ []CountFits => []StackInv
<1>1. OutputInv /\ [OutputNext]_outputVars /\ StackInv /\ CountFits => StackInv'
    BY StackStep
<1>2. OutputInit => StackInv
    BY OutputInitInv
<1>3. QED
    BY <1>1, <1>2, OutputSpecInv, PTL DEF OutputSpec

\* Undoing a delta whose first write is still on the channel ends where the channel ended
\* before that write, whatever was undone, redone and undone again before.
THEOREM UndoAlwaysTakesBack == OutputSpec /\ []CountFits => UndoTakesWritesBack
<1> DEFINE Back ==
        LET d == undo[Len(undo)]
        IN  pending = 1 /\ pending' = 0 /\ d.events[1] \in Live => tail' = d.from
<1>1. ASSUME OutputInv, StackInv, OutputNext, pending = 1, pending' = 0,
             undo[Len(undo)].events[1] \in Live
      PROVE  tail' = undo[Len(undo)].from
  <2> DEFINE d == undo[Len(undo)]
  <2>1. UnwriteOne
      BY <1>1 DEF OutputNext, Write, Set, ClearOutput, Get, TakeDelta, ApplyBackward,
                  ApplyEmpty, ApplyForward, Observe, Idle
  <2>2. tail = d.events[1] /\ tail # head
      BY <1>1, LastToGo
  <2>3. tail' = heap[tail].prev
      BY <1>1, <2>1, <2>2, UnwriteTakes
  <2>4. undo # << >> /\ 1 <= Len(d.events)
      BY <1>1 DEF OutputInv, Unwinding
  <2>5. History(undo) /\ Len(undo) \in 1 .. Len(undo) /\ Chained(d.events, d.from)
      BY <1>1, <2>4, HistoryPops DEF OutputInv
  <2>6. Len(d.events) \in Nat
      BY <2>5, EventCounts
  <2>7. 1 \in 1 .. Len(d.events)
      BY <2>4, <2>6
  <2> HIDE DEF d
  <2>8. heap[d.events[1]].prev = d.from
      BY <1>1, <2>5, <2>7 DEF Chained, d
  <2>9. QED
      BY <2>2, <2>3, <2>8 DEF d
<1>2. OutputInv /\ StackInv /\ [OutputNext]_outputVars => [Back]_outputVars
    BY <1>1
<1>3. OutputSpec /\ []CountFits => []OutputInv /\ []StackInv /\ [][OutputNext]_outputVars
    BY OutputSpecInv, StackSpecInv, PTL DEF OutputSpec
<1> HIDE DEF Back
<1>4. OutputSpec /\ []CountFits => [][Back]_outputVars
    BY <1>2, <1>3, PTL
<1>5. QED
    BY <1>4 DEF Back, UndoTakesWritesBack
-----------------------------------------------------------------------------
(* The iterator over a delta. *)

\* If the last event of a delta is on the chain then so are the others, one behind the
\* other.
LEMMA EventsOnChain ==
    ASSUME OutputInv, NEW d, NEW from, Chained(d, from), Len(d) \in Nat \ {0}, d[Len(d)] \in Live
    PROVE  \A j \in 1 .. Len(d) :
              /\ d[j] \in Live
              /\ heap[d[j]].displacement = heap[d[Len(d)]].displacement - (Len(d) - j)
              /\ j # 1 => /\ Step(d[j], "prev") = d[j - 1]
                          /\ Step(d[j - 1], "next") = d[j]
<1> DEFINE n == Len(d)
           disp(j) == heap[d[j]].displacement
           Right(j) == d[j] \in Live /\ disp(j) = disp(n) - (n - j)
           Bad == {i \in 0 .. n - 1 : ~Right(n - i)}
<1>1. Inv /\ head \in Live /\ heap[head].displacement = 0 /\ Live \subseteq Addr
    BY HeapTypes DEF OutputInv, Inv, ChainIntact
<1>2. ASSUME NEW j \in 2 .. n, d[j] \in Live
      PROVE  /\ d[j - 1] \in Live /\ disp(j) \in Nat /\ disp(j - 1) = disp(j) - 1
             /\ Step(d[j], "prev") = d[j - 1] /\ Step(d[j - 1], "next") = d[j]
  <2>1. j \in 1 .. Len(d) /\ j # 1
      OBVIOUS
  <2>2. heap[d[j]].displacement # 0 /\ heap[d[j]].prev = d[j - 1]
      BY <2>1, <1>2 DEF Chained
  <2>3. PICK e : e = d[j]
      OBVIOUS
  <2>4. PICK f : f = d[j - 1]
      OBVIOUS
  <2>5. e \in Live /\ heap[e].displacement # 0 /\ heap[e].prev = f
      BY <2>2, <2>3, <2>4, <1>2
  <2>6. e # head /\ e # NULL
      BY <2>5, <1>1 DEF Addr
  <2>7. f \in Live /\ heap[f].next = e
      BY <2>5, <2>6, <1>1 DEF Inv, ChainIntact
  <2>8. f # tail
      BY <2>6, <2>7, <1>1 DEF Inv, ChainIntact
  <2>9. heap[e].displacement = heap[f].displacement + 1
        /\ heap[f].displacement \in Nat
      BY <2>7, <2>8, <1>1, HeapTypes DEF Inv, ChainIntact
  <2>10. Step(e, "prev") = f /\ Step(f, "next") = e
      BY <2>5, <2>6, <2>7, <2>8, <1>1, StepNext, StepPrev
  <2>11. disp(j) = disp(j - 1) + 1 /\ disp(j - 1) \in Nat
      BY <2>9, <2>3, <2>4
  <2> HIDE DEF disp
  <2>12. disp(j) \in Nat /\ disp(j - 1) = disp(j) - 1
      BY <2>11
  <2>13. QED
      BY <2>3, <2>4, <2>7, <2>10, <2>12
<1>3. n \in Nat \ {0} /\ disp(n) \in Nat
    BY <1>1, HeapTypes
<1> HIDE DEF disp, n
<1>4. Bad = {}
  <2>1. SUFFICES ASSUME Bad # {} PROVE FALSE
      OBVIOUS
  <2>2. PICK i \in Bad : \A k \in Bad : i <= k
    <3>1. Bad \subseteq Nat
        BY <1>3
    <3> HIDE DEF Bad
    <3>2. QED
        BY <2>1, <3>1, Least
  <2>3. i # 0
    <3>1. Right(n)
        BY <1>3 DEF n
    <3>2. n - 0 = n
        BY <1>3
    <3>3. QED
        BY <3>1, <3>2
  <2>4. i - 1 \in 0 .. n - 1 /\ ~ (i <= i - 1) /\ n - (i - 1) \in 2 .. n
        /\ (n - (i - 1)) - 1 = n - i
      BY <2>3, <1>3
  <2>5. Right(n - (i - 1))
      BY <2>2, <2>4
  <2>6. Right(n - i)
    <3>1. PICK j : j = n - (i - 1)
        OBVIOUS
    <3>2. j \in 2 .. n /\ j - 1 = n - i
        BY <3>1, <2>4
    <3>3. d[j] \in Live /\ disp(j) = disp(n) - (n - j)
        BY <3>1, <2>5
    <3>4. d[j - 1] \in Live /\ disp(j - 1) = disp(j) - 1
        BY <3>2, <3>3, <1>2
    <3>5. disp(j - 1) = disp(n) - (n - (j - 1))
        BY <3>2, <3>3, <3>4, <1>3
    <3>6. QED
        BY <3>2, <3>4, <3>5
  <2>7. QED
      BY <2>6
<1>5. ASSUME NEW j \in 1 .. n PROVE Right(j)
  <2>1. n - j \in 0 .. n - 1 /\ n - (n - j) = j
      BY <1>3
  <2>2. QED
      BY <2>1, <1>4
<1>6. ASSUME NEW j \in 1 .. n, j # 1
      PROVE  Step(d[j], "prev") = d[j - 1] /\ Step(d[j - 1], "next") = d[j]
    BY <1>2, <1>3, <1>5, <1>6
<1>7. QED
    BY <1>5, <1>6 DEF n, disp

\* From the tail back over the events of a delta, and forward again.
LEMMA IterationMatches ==
    ASSUME OutputInv, NEW d, NEW from, Chained(d, from), Len(d) \in Nat \ {0}, tail = d[Len(d)]
    PROVE  Iterated(Len(d)) = [j \in 1 .. Len(d) |-> d[j]]
<1> DEFINE n == Len(d)
           back == [i \in 0 .. n - 1 |-> d[n - i]]
           Back == WalkFrom(tail, n - 1, "prev")
           len == heap[tail].displacement - heap[Back[n - 1]].displacement + 1
           events == [j \in 1 .. n |-> d[j]]
           Follows(f, m, e) == f = [i \in 1 .. m |-> IF i = 1 THEN e ELSE Step(f[i - 1], "next")]
<1>1. tail \in Live /\ heap[tail].displacement \in Nat
    BY HeapTypes DEF OutputInv, Inv, ChainIntact
<1>2. \A j \in 1 .. n :
         /\ heap[d[j]].displacement = heap[tail].displacement - (n - j)
         /\ j # 1 => Step(d[j], "prev") = d[j - 1] /\ Step(d[j - 1], "next") = d[j]
    BY <1>1, EventsOnChain
<1>3. n \in Nat \ {0} /\ tail = d[n]
    OBVIOUS
<1> HIDE DEF n
<1>4. Back[n - 1] = d[1]
  <2>1. \A i \in 0 .. n - 1 : n - i \in 1 .. n /\ (i # 0 => n - (i - 1) # 1 /\ (n - (i - 1)) - 1 = n - i)
      BY <1>3
  <2>2. \A i \in 1 .. n - 1 : i \in 0 .. n - 1 /\ i - 1 \in 0 .. n - 1 /\ n - (i - 1) \in 1 .. n /\ i # 0
      BY <1>3
  <2>3. back[0] = tail /\ n - 1 \in Nat
      BY <1>3
  <2>4. \A i \in 1 .. n - 1 : back[i] = Step(back[i - 1], "prev")
      BY <2>1, <2>2, <1>2
  <2>5. back[n - 1] = d[1] /\ n - 1 \in 0 .. n - 1
    <3>1. n - 1 \in 0 .. n - 1 /\ n - (n - 1) = 1
        BY <1>3
    <3>2. QED
        BY <3>1
  <2> HIDE DEF back
  <2>6. IsPath(back, tail, n - 1, "prev")
      BY <2>3, <2>4 DEF IsPath
  <2>7. QED
      BY <2>5, <2>6, WalkFollows
<1>5. len = n
  <2>1. 1 \in 1 .. n
      BY <1>3
  <2>2. heap[d[1]].displacement = heap[tail].displacement - (n - 1)
      BY <2>1, <1>2
  <2> HIDE DEF Back
  <2>3. QED
      BY <2>2, <1>1, <1>3, <1>4
<1>6. Follows(events, n, d[1])
  <2>1. ASSUME NEW i \in 1 .. n
        PROVE  events[i] = IF i = 1 THEN d[1] ELSE Step(events[i - 1], "next")
    <3>1. i # 1 => i - 1 \in 1 .. n
        BY <1>3
    <3>2. QED
        BY <3>1, <1>2
  <2>2. events = [i \in 1 .. n |-> events[i]]
      OBVIOUS
  <2> HIDE DEF events
  <2>3. QED
      BY <2>1, <2>2
<1>7. ASSUME NEW f, Follows(f, n, d[1]) PROVE f = events
  <2> DEFINE Bad == {i \in 1 .. n : f[i] # d[i]}
  <2>1. \A i \in 1 .. n : f[i] = IF i = 1 THEN d[1] ELSE Step(f[i - 1], "next")
      BY <1>7
  <2>2. Bad = {}
    <3>1. SUFFICES ASSUME Bad # {} PROVE FALSE
        OBVIOUS
    <3>2. PICK i \in Bad : \A k \in Bad : i <= k
      <4>1. Bad \subseteq Nat
          OBVIOUS
      <4> HIDE DEF Bad
      <4>2. QED
          BY <3>1, <4>1, Least
    <3>3. i # 1
        BY <2>1
    <3>4. i - 1 \in 1 .. n /\ ~ (i <= i - 1)
        BY <3>3, <1>3
    <3>5. f[i - 1] = d[i - 1]
        BY <3>2, <3>4
    <3>6. QED
        BY <3>3, <3>5, <2>1, <1>2
  <2>3. f = [i \in 1 .. n |-> f[i]]
      BY <1>7
  <2>4. QED
      BY <2>2, <2>3
<1>8. events = CHOOSE f : Follows(f, n, d[1])
  <2> HIDE DEF Follows, events
  <2>1. QED
      BY <1>6, <1>7
<1>9. Iterated(n) = [i \in 1 .. len |-> (CHOOSE f : Follows(f, len, Back[n - 1]))[i]]
    BY DEF Iterated, IteratedFrom, WalkFrom
<1>10. QED
  <2> HIDE DEF len, Back, Follows
  <2>1. Iterated(n) = [i \in 1 .. n |-> events[i]]
      BY <1>4, <1>5, <1>8, <1>9
  <2>2. QED
      BY <2>1 DEF n

\* Iterating over the last delta whose writes are still the last on the channel yields
\* the events it wrote.
THEOREM IterationIsExact == OutputSpec /\ []CountFits => []IteratesOverWrites
<1>1. ASSUME OutputInv, StackInv, NEW i \in DOMAIN undo,
             undo[i].events # << >>, undo[i].events[Len(undo[i].events)] = tail
      PROVE  Iterated(Count(undo[i].events)) = [j \in DOMAIN undo[i].events |-> undo[i].events[j]]
  <2>1. PICK d : d = undo[i].events
      OBVIOUS
  <2>2. History(undo) /\ i \in 1 .. Len(undo)
    <3>1. undo \in Seq(DeltaRec)
        BY <1>1 DEF OutputInv, History
    <3>2. QED
        BY <1>1, <3>1, LenProperties DEF OutputInv
  <2>3. Chained(d, undo[i].from) /\ d \in Seq(Nat) /\ Len(d) < CountMod
      BY <2>1, <2>2, <1>1, EventCounts DEF History, StackInv
  <2>4. Len(d) \in Nat \ {0} /\ DOMAIN d = 1 .. Len(d)
      BY <2>1, <2>3, <1>1, LenProperties, EmptySeq
  <2>5. Count(d) = Len(d)
      BY <2>3, <2>4, CountIsBounded
  <2>6. Iterated(Len(d)) = [j \in 1 .. Len(d) |-> d[j]]
      BY <2>1, <2>3, <2>4, <1>1, IterationMatches
  <2>7. QED
      BY <2>1, <2>4, <2>5, <2>6
<1>2. OutputInv /\ StackInv => IteratesOverWrites
    BY <1>1 DEF IteratesOverWrites
<1>3. QED
    BY <1>2, OutputSpecInv, StackSpecInv, PTL
=============================================================================
