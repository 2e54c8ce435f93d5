--------------------------- MODULE ChannelProofs ----------------------------
(***************************************************************************)
(* The event graph is well formed whatever publishers do, for any number   *)
(* of events, publishers and values.                                       *)
(*                                                                         *)
(* The three invariants of Channel are inductive together, once four facts *)
(* are added: events are allocated in the order of their displacements     *)
(* (so a forced transition, which goes back along the chain, leads to an   *)
(* older event), an event of displacement 0 is never emptied, and a        *)
(* replaced head leads to another event of displacement 0 (so it stays a   *)
(* place where the loops stop).                                            *)
(***************************************************************************)
EXTENDS Channel, SequenceTheorems, WellFoundedInduction, TLAPS

Aged ==
    /\ \A e, f \in Live : heap[e].displacement < heap[f].displacement => e < f
    /\ \A e \in Addr : heap[e].displacement = 0 => ~heap[e].empty
    /\ \A e \in Addr \ Live : ~heap[e].empty => heap[heap[e].next].displacement = 0

Inv == ChanTypeOK /\ ChainIntact /\ OneEventPerTime /\ ForcedTransitionsEnd /\ Aged

USE DEF NULL, RootPublisher

\* The channel as constructed satisfies the invariant.
LEMMA InitInv == ChanInit => Inv
<1> SUFFICES ASSUME ChanInit PROVE Inv
    OBVIOUS
<1> USE ChannelAssumption DEF ChanInit, NewEvent
<1>1. ChanTypeOK
    BY DEF ChanTypeOK, Addr, EventRec
<1>2. Live = {1}
    BY DEF Live, Addr
<1>3. ChainIntact /\ OneEventPerTime
    BY <1>2 DEF ChainIntact, OneEventPerTime
<1>4. ForcedTransitionsEnd /\ Aged
    BY <1>2 DEF ForcedTransitionsEnd, Aged, Addr
<1>5. QED
    BY <1>1, <1>3, <1>4 DEF Inv

\* Appending adds exactly the new event to the chain.
LEMMA AppendInv ==
    ASSUME Inv, NEW p \in Publishers, NEW v \in Values, AppendEvent(p, v)
    PROVE  Inv' /\ Live' = Live \cup {allocated + 1}
<1> DEFINE n == allocated + 1
           new == NewEvent(v, p, tail, heap[tail].displacement + 1)
<1> USE ChannelAssumption
<1>1. /\ tail \in Addr /\ head \in Addr /\ tail # n /\ allocated \in Nat
      /\ heap \in [Addr -> EventRec(Addr \cup {NULL})]
      /\ n \in Addr' /\ n \notin Addr /\ Addr' = Addr \cup {n}
      /\ tail' = n /\ head' = head /\ n # 0 /\ n \in Nat /\ allocated' = n
  <2>1. /\ tail \in Addr /\ head \in Addr /\ allocated \in Nat /\ allocated # 0
        /\ heap \in [Addr -> EventRec(Addr \cup {NULL})]
      BY DEF Inv, ChanTypeOK
  <2>2. allocated' = n /\ tail' = n /\ head' = head
      BY DEF AppendEvent
  <2>3. Addr' = Addr \cup {n} /\ n \notin Addr
      BY <2>1, <2>2 DEF Addr
  <2>4. tail # n /\ n \in Addr' /\ n \in Nat /\ n # 0
    <3>1. n \in Nat /\ n # 0
        BY <2>1
    <3>2. QED
        BY <2>1, <2>3, <3>1
  <2>5. QED
      BY <2>1, <2>2, <2>3, <2>4
<1>2. /\ heap'[n] = new
      /\ heap'[tail] = [heap[tail] EXCEPT !.next = n]
      /\ \A e \in Addr \ {tail} : heap'[e] = heap[e]
      /\ DOMAIN heap' = Addr'
    BY <1>1 DEF AppendEvent, Extend, Addr
<1>3. /\ heap'[n].publisher = p /\ ~heap'[n].empty
      /\ heap'[n].next = NULL /\ heap'[n].prev = tail
      /\ heap'[n].displacement = heap[tail].displacement + 1
    BY <1>2 DEF NewEvent
<1>4. /\ heap'[tail].next = n
      /\ \A e \in Addr : /\ e # tail => heap'[e].next = heap[e].next
                         /\ heap'[e].prev = heap[e].prev
                         /\ heap'[e].empty = heap[e].empty
                         /\ heap'[e].displacement = heap[e].displacement
    BY <1>1, <1>2 DEF EventRec
<1>5. \A e \in Addr : heap[e].displacement \in Nat
    BY <1>1 DEF EventRec
<1> HIDE DEF n, new
<1>6. ChanTypeOK'
  <2>1. new \in EventRec(Addr' \cup {NULL})
      BY <1>1, <1>5 DEF new, NewEvent, EventRec
  <2>2. \A e \in Addr : heap'[e] \in EventRec(Addr' \cup {NULL})
      BY <1>1, <1>2 DEF EventRec
  <2>3. heap' \in [Addr' -> EventRec(Addr' \cup {NULL})]
    <3>1. heap' = [a \in Addr' |-> heap'[a]]
        BY <1>1 DEF AppendEvent, Extend, Addr, n
    <3>2. QED
        BY <1>1, <1>2, <2>1, <2>2, <3>1
  <2>4. allocated' <= MaxEvents /\ allocated' \in Nat \ {0}
      BY <1>1 DEF AppendEvent, n
  <2>5. QED
      BY <1>1, <2>3, <2>4 DEF ChanTypeOK
<1>7. Live' = Live \cup {n}
    BY <1>1, <1>2, <1>3, <1>4, <1>5 DEF Live
<1>8. Live \subseteq Addr /\ tail \in Live /\ heap[tail].next = NULL
    BY DEF Live, Inv, ChainIntact
<1>9. ChainIntact'
  <2>1. /\ head' \in Live' /\ tail' \in Live' /\ heap'[tail'].next = NULL
        /\ heap'[head'].displacement = 0 /\ heap'[head'].prev = NULL
      BY <1>1, <1>3, <1>4, <1>7, <1>8 DEF Inv, ChainIntact
  <2>2. ASSUME NEW e \in Live', e # tail'
        PROVE  /\ heap'[e].next \in Live'
               /\ heap'[heap'[e].next].prev = e
               /\ heap'[heap'[e].next].displacement = heap'[e].displacement + 1
      BY <2>2, <1>1, <1>3, <1>4, <1>7, <1>8 DEF Inv, ChainIntact
  <2>3. ASSUME NEW e \in Live', e # head'
        PROVE  heap'[e].prev \in Live' /\ heap'[heap'[e].prev].next = e
    <3>1. CASE e = n
        BY <3>1, <1>1, <1>3, <1>4, <1>7, <1>8
    <3>2. CASE e # n
      <4>1. e \in Live /\ heap[e].prev \in Live /\ heap[heap[e].prev].next = e /\ e # NULL
          BY <2>3, <3>2, <1>1, <1>7, <1>8 DEF Inv, ChainIntact, Addr
      <4>2. heap[e].prev # tail
          BY <4>1, <1>8
      <4>3. QED
          BY <4>1, <4>2, <1>4, <1>7, <1>8
    <3>3. QED
        BY <3>1, <3>2
  <2>4. QED
      BY <2>1, <2>2, <2>3 DEF ChainIntact
<1>10. OneEventPerTime'
    BY <1>1, <1>2, <1>3, <1>4, <1>5, <1>7, <1>8 DEF Inv, OneEventPerTime
<1>11. ForcedTransitionsEnd'
    BY <1>1, <1>2, <1>3, <1>4, <1>5, <1>7, <1>8 DEF Inv, ForcedTransitionsEnd
<1>12. Aged'
  <2>1. \A e \in Live : heap[e].displacement <= heap[tail].displacement /\ e < n
      BY <1>1, <1>8 DEF Inv, OneEventPerTime, Addr, n
  <2>2. ASSUME NEW e \in Live', NEW f \in Live', heap'[e].displacement < heap'[f].displacement
        PROVE  e < f
      BY <2>1, <2>2, <1>1, <1>3, <1>4, <1>5, <1>7, <1>8 DEF Inv, Aged
  <2>3. ASSUME NEW e \in Addr', heap'[e].displacement = 0
        PROVE  ~heap'[e].empty
      BY <2>3, <1>1, <1>3, <1>4 DEF Inv, Aged
  <2>4. ASSUME NEW e \in Addr' \ Live', ~heap'[e].empty
        PROVE  heap'[heap'[e].next].displacement = 0
    <3>1. e \in Addr \ Live /\ e # tail
        BY <1>1, <1>7, <1>8
    <3>2. heap[e].next \in Addr /\ heap[heap[e].next].displacement = 0
        BY <2>4, <3>1, <1>4 DEF Inv, Aged, ForcedTransitionsEnd
    <3>3. QED
        BY <3>1, <3>2, <1>4
  <2>5. QED
      BY <2>2, <2>3, <2>4 DEF Aged
<1>13. QED
    BY <1>6, <1>7, <1>9, <1>10, <1>11, <1>12 DEF Inv, n

\* Cutting the chain after a live event r keeps exactly the events up to r.
LEMMA CutInv ==
    ASSUME Inv, NEW r \in Live,
           heap' = CutAfter(r), tail' = r, UNCHANGED <<allocated, head>>
    PROVE  /\ Inv'
           /\ Live' = {e \in Live : heap[e].displacement <= heap[r].displacement}
<1> DEFINE Cut(e) == e \in Live /\ heap[e].displacement > heap[r].displacement
<1>1. /\ tail \in Addr /\ head \in Addr /\ r \in Addr /\ Addr' = Addr
      /\ heap \in [Addr -> EventRec(Addr \cup {NULL})]
      /\ tail' = r /\ head' = head /\ head \in Live /\ Live \subseteq Addr
      /\ heap[head].displacement = 0 /\ NULL \notin Addr
  <2>1. Live \subseteq Addr /\ NULL \notin Addr /\ Addr' = Addr
      BY DEF Live, Addr
  <2>2. QED
      BY <2>1 DEF Inv, ChanTypeOK, ChainIntact
<1>2. \A e \in Addr : heap[e] \in EventRec(Addr \cup {NULL}) /\ heap[e].displacement \in Nat
    BY <1>1 DEF EventRec
<1>3. /\ \A e \in Addr : Cut(e) => heap'[e] = [heap[e] EXCEPT !.empty = TRUE, !.next = r, !.prev = r]
      /\ heap'[r] = [heap[r] EXCEPT !.next = NULL]
      /\ \A e \in Addr : ~Cut(e) /\ e # r => heap'[e] = heap[e]
      /\ ~Cut(r)
  <2>1. ~Cut(r)
      BY <1>1, <1>2
  <2>2. \A e \in Addr : heap'[e] = IF Cut(e) THEN [heap[e] EXCEPT !.empty = TRUE, !.next = r, !.prev = r]
                                   ELSE IF e = r THEN [heap[e] EXCEPT !.next = NULL]
                                   ELSE heap[e]
      BY DEF CutAfter
  <2> HIDE DEF Cut
  <2>3. QED
      BY <1>1, <2>1, <2>2
<1> HIDE DEF Cut
<1>4. /\ heap'[r].next = NULL
      /\ \A e \in Addr : Cut(e) => heap'[e].empty /\ heap'[e].next = r /\ heap'[e].prev = r
      /\ \A e \in Addr : ~Cut(e) => heap'[e].prev = heap[e].prev /\ (heap'[e].empty <=> heap[e].empty)
      /\ \A e \in Addr : ~Cut(e) /\ e # r => heap'[e].next = heap[e].next
      /\ \A e \in Addr : heap'[e].displacement = heap[e].displacement
      /\ \A e \in Addr : heap'[e] \in EventRec(Addr \cup {NULL})
  <2>1. /\ heap'[r].next = NULL /\ heap'[r].prev = heap[r].prev /\ heap'[r].empty = heap[r].empty
        /\ heap'[r].displacement = heap[r].displacement
        /\ heap'[r] \in EventRec(Addr \cup {NULL})
      BY <1>1, <1>2, <1>3 DEF EventRec
  <2>2. ASSUME NEW e \in Addr, Cut(e)
        PROVE  /\ heap'[e].empty /\ heap'[e].next = r /\ heap'[e].prev = r
               /\ heap'[e].displacement = heap[e].displacement
               /\ heap'[e] \in EventRec(Addr \cup {NULL})
    <3>1. heap'[e] = [heap[e] EXCEPT !.empty = TRUE, !.next = r, !.prev = r]
        BY <2>2, <1>3
    <3>2. heap[e] \in EventRec(Addr \cup {NULL})
        BY <1>2
    <3>3. QED
        BY <3>1, <3>2, <1>1 DEF EventRec
  <2>3. QED
      BY <1>2, <1>3, <2>1, <2>2
<1>5. ChanTypeOK'
  <2>1. heap' = [e \in Addr |-> heap'[e]]
      BY DEF CutAfter
  <2>2. heap' \in [Addr -> EventRec(Addr \cup {NULL})]
      BY <1>4, <2>1
  <2>3. QED
      BY <2>2, <1>1 DEF Inv, ChanTypeOK
<1>6. Live' = {e \in Live : heap[e].displacement <= heap[r].displacement}
    BY <1>1, <1>2, <1>4 DEF Live, Cut
<1>7. \A e \in Live : (e \in Live' <=> ~Cut(e))
    BY <1>1, <1>2, <1>6 DEF Cut
<1>8. \A e \in Live : heap[e].displacement = heap[r].displacement => e = r
    BY DEF Inv, OneEventPerTime
<1>9. ChainIntact'
  <2>1. /\ head' \in Live' /\ tail' \in Live' /\ heap'[tail'].next = NULL
        /\ heap'[head'].displacement = 0 /\ heap'[head'].prev = NULL
      BY <1>1, <1>2, <1>4, <1>6, <1>7 DEF Inv, ChainIntact
  <2>2. ASSUME NEW e \in Live', e # tail'
        PROVE  /\ heap'[e].next \in Live'
               /\ heap'[heap'[e].next].prev = e
               /\ heap'[heap'[e].next].displacement = heap'[e].displacement + 1
    <3>1. e \in Live /\ ~Cut(e) /\ e # r /\ heap[e].displacement < heap[r].displacement
        BY <2>2, <1>1, <1>2, <1>6, <1>7, <1>8
    <3>2. e # tail
        BY <3>1, <1>1, <1>2 DEF Inv, OneEventPerTime
    <3>3. /\ heap[e].next \in Live /\ heap[heap[e].next].prev = e
          /\ heap[heap[e].next].displacement = heap[e].displacement + 1
        BY <3>1, <3>2 DEF Inv, ChainIntact
    <3>4. ~Cut(heap[e].next)
        BY <3>1, <3>3, <1>1, <1>2 DEF Cut
    <3>5. QED
        BY <3>1, <3>3, <3>4, <1>1, <1>4, <1>7
  <2>3. ASSUME NEW e \in Live', e # head'
        PROVE  heap'[e].prev \in Live' /\ heap'[heap'[e].prev].next = e
    <3>1. e \in Live /\ ~Cut(e) /\ heap[e].displacement <= heap[r].displacement
        BY <1>6, <1>7
    <3>2. heap[e].prev \in Live /\ heap[heap[e].prev].next = e /\ heap[e].prev # tail
        BY <2>3, <3>1, <1>1 DEF Inv, ChainIntact
    <3>3. heap[heap[e].prev].displacement + 1 = heap[e].displacement
        BY <3>2, <1>1 DEF Inv, ChainIntact
    <3>4. heap[e].prev # r /\ ~Cut(heap[e].prev)
        BY <3>1, <3>2, <3>3, <1>1, <1>2 DEF Cut
    <3>5. QED
        BY <3>1, <3>2, <3>4, <1>1, <1>4, <1>7
  <2>4. QED
      BY <2>1, <2>2, <2>3 DEF ChainIntact
<1>10. OneEventPerTime'
  <2>1. heap[r].displacement <= heap[tail].displacement
      BY DEF Inv, OneEventPerTime
  <2>2. \A d \in 0 .. heap[r].displacement : \E e \in Live' : heap'[e].displacement = d
      BY <2>1, <1>1, <1>2, <1>4, <1>6 DEF Inv, OneEventPerTime
  <2>3. QED
      BY <2>2, <1>1, <1>4, <1>6 DEF Inv, OneEventPerTime
<1>11. ForcedTransitionsEnd'
  <2>1. ASSUME NEW e \in Addr' \ Live'
        PROVE  /\ heap'[e].next \in Addr'
               /\ heap'[e].prev = heap'[e].next
               /\ IF heap'[e].empty THEN heap'[e].next < e
                  ELSE heap'[e].next > e /\ ~heap'[heap'[e].next].empty
    <3>1. CASE Cut(e)
      <4>1. r < e
          BY <3>1, <1>1, <1>2 DEF Cut, Inv, Aged
      <4>2. QED
          BY <3>1, <4>1, <1>1, <1>4
    <3>2. CASE ~Cut(e)
      <4>1. e \in Addr \ Live /\ e # r
          BY <3>2, <1>1, <1>7
      <4>2. /\ heap[e].next \in Addr /\ heap[e].prev = heap[e].next
            /\ IF heap[e].empty THEN heap[e].next < e
               ELSE heap[e].next > e /\ ~heap[heap[e].next].empty
          BY <4>1 DEF Inv, ForcedTransitionsEnd
      <4>3. ~heap[e].empty => ~Cut(heap[e].next)
          BY <4>1, <4>2, <1>1, <1>2 DEF Cut, Inv, Aged
      <4>4. QED
          BY <3>2, <4>1, <4>2, <4>3, <1>1, <1>4
    <3>3. QED
        BY <3>1, <3>2
  <2>2. QED
      BY <2>1 DEF ForcedTransitionsEnd
<1>12. Aged'
  <2>1. ASSUME NEW e \in Live', NEW f \in Live', heap'[e].displacement < heap'[f].displacement
        PROVE  e < f
      BY <2>1, <1>1, <1>4, <1>6 DEF Inv, Aged
  <2>2. ASSUME NEW e \in Addr', heap'[e].displacement = 0
        PROVE  ~heap'[e].empty
      BY <2>2, <1>1, <1>2, <1>4 DEF Inv, Aged, Cut
  <2>3. ASSUME NEW e \in Addr' \ Live', ~heap'[e].empty
        PROVE  heap'[heap'[e].next].displacement = 0
    <3>1. e \in Addr \ Live /\ e # r /\ ~Cut(e)
        BY <2>3, <1>1, <1>4, <1>7
    <3>2. heap[e].next \in Addr /\ heap[heap[e].next].displacement = 0
        BY <2>3, <3>1, <1>4 DEF Inv, Aged, ForcedTransitionsEnd
    <3>3. QED
        BY <3>1, <3>2, <1>4
  <2>4. QED
      BY <2>1, <2>2, <2>3 DEF Aged
<1>13. QED
    BY <1>5, <1>6, <1>9, <1>10, <1>11, <1>12 DEF Inv

\* A revert cuts after the event before the publisher's last write, or the head.
LEMMA RevertIsCut ==
    ASSUME Inv, NEW p, NEW time, RevertEvent(p, time)
    PROVE  /\ tail' \in Live /\ heap' = CutAfter(tail') /\ UNCHANGED <<allocated, head>>
<1>1. PICK w \in Live : heap' = CutAfter(RevertTarget(w)) /\ tail' = RevertTarget(w)
    BY DEF RevertEvent
<1>2. RevertTarget(w) \in Live
    BY DEF RevertTarget, Inv, ChainIntact
<1>3. QED
    BY <1>1, <1>2 DEF RevertEvent

\* Clearing empties the chain but for the old head, and starts a chain of one.
LEMMA ClearInv ==
    ASSUME Inv, NEW v \in Values, Clear(v)
    PROVE  Inv' /\ Live' = {allocated + 1}
<1> DEFINE n == allocated + 1
           Cut(e) == e \in Live /\ e # head
<1> USE ChannelAssumption
<1>1. /\ head \in Addr /\ head \in Live /\ Live \subseteq Addr /\ heap[head].displacement = 0
      /\ heap \in [Addr -> EventRec(Addr \cup {NULL})]
      /\ allocated' = n /\ tail' = n /\ head' = n /\ n \in Nat \ {0} /\ n <= MaxEvents
      /\ Addr' = Addr \cup {n} /\ n \notin Addr /\ NULL \notin Addr
      /\ \A e \in Addr : e < n
  <2>1. /\ head \in Addr /\ head \in Live /\ heap[head].displacement = 0
        /\ heap \in [Addr -> EventRec(Addr \cup {NULL})]
        /\ allocated \in Nat \ {0} /\ allocated <= MaxEvents
      BY DEF Inv, ChanTypeOK, ChainIntact
  <2>2. allocated' = n /\ tail' = n /\ head' = n /\ n <= MaxEvents
      BY <2>1 DEF Clear
  <2>3. Addr' = Addr \cup {n} /\ n \notin Addr /\ NULL \notin Addr /\ \A e \in Addr : e < n
      BY <2>1, <2>2 DEF Addr
  <2>4. Live \subseteq Addr
      BY DEF Live
  <2>5. QED
      BY <2>1, <2>2, <2>3, <2>4
<1>2. \A e \in Addr : heap[e] \in EventRec(Addr \cup {NULL}) /\ heap[e].displacement \in Nat
    BY <1>1 DEF EventRec
<1>3. \A e \in Addr : (Cut(e) <=> e \in Live /\ heap[e].displacement > heap[head].displacement)
    BY <1>1, <1>2 DEF Inv, OneEventPerTime
<1>4. /\ heap'[n] = NewEvent(v, RootPublisher, NULL, 0)
      /\ heap'[head] = [heap[head] EXCEPT !.next = n, !.prev = n]
      /\ \A e \in Addr : Cut(e) => heap'[e] = [heap[e] EXCEPT !.empty = TRUE, !.next = head, !.prev = head]
      /\ \A e \in Addr : ~Cut(e) /\ e # head => heap'[e] = heap[e]
      /\ heap' = [e \in Addr' |-> heap'[e]]
  <2> DEFINE cut == CutAfter(head)
             link == [cut EXCEPT ![head].next = n, ![head].prev = n]
             new == NewEvent(v, RootPublisher, NULL, 0)
  <2>1. heap' = [a \in Addr' |-> IF a = n THEN new ELSE link[a]]
      BY <1>1 DEF Clear, Extend, Addr
  <2>2. /\ DOMAIN cut = Addr
        /\ cut[head] = [heap[head] EXCEPT !.next = NULL]
        /\ \A e \in Addr : Cut(e) => cut[e] = [heap[e] EXCEPT !.empty = TRUE, !.next = head, !.prev = head]
        /\ \A e \in Addr : ~Cut(e) /\ e # head => cut[e] = heap[e]
    <3>1. \A e \in Addr : cut[e] = IF Cut(e) THEN [heap[e] EXCEPT !.empty = TRUE, !.next = head, !.prev = head]
                                   ELSE IF e = head THEN [heap[e] EXCEPT !.next = NULL]
                                   ELSE heap[e]
        BY <1>3 DEF CutAfter
    <3>2. DOMAIN cut = Addr
        BY DEF CutAfter
    <3> HIDE DEF cut
    <3>3. QED
        BY <3>1, <3>2, <1>1
  <2> HIDE DEF cut, new, Cut
  <2>3. /\ \A e \in Addr : e # head => link[e] = cut[e]
        /\ link[head] = [cut[head] EXCEPT !.next = n, !.prev = n]
      BY <1>1, <2>2
  <2>4. link[head] = [heap[head] EXCEPT !.next = n, !.prev = n]
    <3>1. heap[head] \in EventRec(Addr \cup {NULL})
        BY <1>1, <1>2
    <3>2. QED
        BY <2>2, <2>3, <3>1 DEF EventRec
  <2> HIDE DEF link
  <2>5. heap'[n] = new /\ \A e \in Addr : heap'[e] = link[e]
      BY <1>1, <2>1
  <2>6. heap' = [e \in Addr' |-> heap'[e]]
      BY <2>1
  <2>7. /\ \A e \in Addr : Cut(e) => heap'[e] = [heap[e] EXCEPT !.empty = TRUE, !.next = head, !.prev = head]
        /\ \A e \in Addr : ~Cut(e) /\ e # head => heap'[e] = heap[e]
      BY <2>2, <2>3, <2>5, <1>1, <1>3 DEF Cut
  <2>8. QED
      BY <1>1, <2>4, <2>5, <2>6, <2>7 DEF new
<1> HIDE DEF Cut, n
<1>5. /\ heap'[n].publisher = RootPublisher /\ ~heap'[n].empty
      /\ heap'[n].next = NULL /\ heap'[n].prev = NULL /\ heap'[n].displacement = 0
      /\ heap'[n] \in EventRec(Addr' \cup {NULL})
  <2>1. NewEvent(v, RootPublisher, NULL, 0) \in EventRec(Addr' \cup {NULL})
      BY DEF NewEvent, EventRec
  <2>2. heap'[n] = NewEvent(v, RootPublisher, NULL, 0)
      BY <1>4
  <2>3. heap'[n] \in EventRec(Addr' \cup {NULL})
      BY <2>1, <2>2
  <2>4. QED
      BY <2>2, <2>3 DEF NewEvent
<1>6. /\ heap'[head].next = n /\ heap'[head].prev = n /\ heap'[head].empty = heap[head].empty
      /\ heap'[head].displacement = heap[head].displacement
      /\ heap'[head] \in EventRec(Addr' \cup {NULL})
    BY <1>1, <1>2, <1>4 DEF EventRec
<1>7. ASSUME NEW e \in Addr, Cut(e)
      PROVE  /\ heap'[e].empty /\ heap'[e].next = head /\ heap'[e].prev = head
             /\ heap'[e].displacement = heap[e].displacement
             /\ heap'[e] \in EventRec(Addr' \cup {NULL})
  <2>1. heap'[e] = [heap[e] EXCEPT !.empty = TRUE, !.next = head, !.prev = head]
      BY <1>4, <1>7
  <2>2. heap[e] \in EventRec(Addr \cup {NULL})
      BY <1>2
  <2>3. QED
      BY <1>1, <2>1, <2>2 DEF EventRec
<1>8. ASSUME NEW e \in Addr, ~Cut(e), e # head
      PROVE  heap'[e] = heap[e] /\ heap[e] \in EventRec(Addr' \cup {NULL})
    BY <1>1, <1>2, <1>4, <1>8 DEF EventRec
<1>9. ChanTypeOK'
  <2>1. \A e \in Addr' : heap'[e] \in EventRec(Addr' \cup {NULL})
      BY <1>1, <1>5, <1>6, <1>7, <1>8
  <2>2. heap' \in [Addr' -> EventRec(Addr' \cup {NULL})]
      BY <1>4, <2>1
  <2>3. QED
      BY <2>2, <1>1 DEF ChanTypeOK
<1>10. Live' = {n}
  <2>1. ASSUME NEW e \in Addr PROVE e \notin Live'
    <3>1. CASE Cut(e)
        BY <3>1, <1>7 DEF Live
    <3>2. CASE e = head
        BY <3>2, <1>1, <1>6 DEF Live
    <3>3. CASE ~Cut(e) /\ e # head
      <4>1. e \notin Live /\ heap'[e] = heap[e]
          BY <3>3, <1>8 DEF Cut
      <4>2. heap[e].empty \/ (heap[e].displacement = 0 /\ e # n)
          BY <4>1, <1>1 DEF Live
      <4>3. QED
          BY <4>1, <4>2, <1>1 DEF Live
    <3>4. QED
        BY <3>1, <3>2, <3>3
  <2>2. n \in Live'
      BY <1>1, <1>5 DEF Live
  <2>3. Live' \subseteq Addr'
      BY DEF Live
  <2>4. QED
      BY <2>1, <2>2, <2>3, <1>1
<1>11. ChainIntact' /\ OneEventPerTime'
    BY <1>1, <1>5, <1>10 DEF ChainIntact, OneEventPerTime
<1>12. ForcedTransitionsEnd'
  <2>1. ASSUME NEW e \in Addr
        PROVE  /\ heap'[e].next \in Addr'
               /\ heap'[e].prev = heap'[e].next
               /\ IF heap'[e].empty THEN heap'[e].next < e
                  ELSE heap'[e].next > e /\ ~heap'[heap'[e].next].empty
    <3>1. CASE Cut(e)
      <4>1. head < e
          BY <3>1, <1>1, <1>2 DEF Cut, Inv, Aged, OneEventPerTime
      <4>2. QED
          BY <4>1, <3>1, <1>1, <1>7
    <3>2. CASE e = head
      <4>1. ~heap[head].empty
          BY <1>1 DEF Inv, Aged
      <4>2. QED
          BY <3>2, <4>1, <1>1, <1>5, <1>6
    <3>3. CASE ~Cut(e) /\ e # head
      <4>1. e \in Addr \ Live
          BY <3>3 DEF Cut
      <4>2. /\ heap[e].next \in Addr /\ heap[e].prev = heap[e].next
            /\ IF heap[e].empty THEN heap[e].next < e
               ELSE heap[e].next > e /\ ~heap[heap[e].next].empty
          BY <4>1 DEF Inv, ForcedTransitionsEnd
      <4>3. ~heap[e].empty => ~Cut(heap[e].next) /\ heap[heap[e].next].displacement = 0
          BY <4>1, <4>2, <1>1, <1>2 DEF Cut, Inv, Aged, OneEventPerTime
      <4>4. ~heap[e].empty => ~heap'[heap[e].next].empty
          BY <4>2, <4>3, <1>1, <1>6, <1>8
      <4>5. QED
          BY <3>3, <4>2, <4>4, <1>1, <1>8
    <3>4. QED
        BY <3>1, <3>2, <3>3
  <2>2. QED
      BY <2>1, <1>1, <1>10 DEF ForcedTransitionsEnd
<1>13. Aged'
  <2>1. ASSUME NEW e \in Addr', heap'[e].displacement = 0
        PROVE  ~heap'[e].empty
    <3>1. CASE e = n
        BY <3>1, <1>5
    <3>2. CASE e \in Addr
      <4>1. ~Cut(e)
          BY <2>1, <3>2, <1>1, <1>7 DEF Cut, Inv, OneEventPerTime
      <4>2. QED
          BY <2>1, <3>2, <4>1, <1>1, <1>6, <1>8 DEF Inv, Aged
    <3>3. QED
        BY <3>1, <3>2, <1>1
  <2>2. ASSUME NEW e \in Addr, ~heap'[e].empty
        PROVE  heap'[heap'[e].next].displacement = 0
    <3>1. CASE e = head
        BY <3>1, <1>5, <1>6
    <3>2. CASE e # head
      <4>1. e \in Addr \ Live /\ heap'[e] = heap[e]
          BY <2>2, <3>2, <1>7, <1>8 DEF Cut
      <4>2. heap[e].next \in Addr /\ heap[heap[e].next].displacement = 0
          BY <2>2, <4>1 DEF Inv, Aged, ForcedTransitionsEnd
      <4>3. heap'[heap[e].next].displacement = 0
          BY <4>2, <1>6, <1>7, <1>8
      <4>4. QED
          BY <4>1, <4>3
    <3>3. QED
        BY <3>1, <3>2
  <2>3. QED
      BY <2>1, <2>2, <1>1, <1>5, <1>10 DEF Aged
<1>14. QED
    BY <1>9, <1>10, <1>11, <1>12, <1>13 DEF Inv, n

\* The invariant is inductive.
LEMMA NextInv == Inv /\ [ChanNext]_chan => Inv'
<1> SUFFICES ASSUME Inv, [ChanNext]_chan PROVE Inv'
    OBVIOUS
<1>1. ASSUME NEW p \in Publishers, NEW v \in Values, AppendEvent(p, v) PROVE Inv'
    BY <1>1, AppendInv
<1>2. ASSUME NEW p \in Publishers, NEW time \in 0 .. heap[tail].displacement, RevertEvent(p, time)
      PROVE  Inv'
    BY <1>2, RevertIsCut, CutInv
<1>3. ASSUME NEW v \in Values, Clear(v) PROVE Inv'
    BY <1>3, ClearInv
<1>4. CASE UNCHANGED chan
  <2>1. heap' = heap /\ allocated' = allocated /\ head' = head /\ tail' = tail
      BY <1>4 DEF chan
  <2>2. Addr' = Addr /\ Live' = Live
      BY <2>1 DEF Addr, Live
  <2>3. ChanTypeOK' /\ ChainIntact' /\ OneEventPerTime'
      BY <2>1, <2>2 DEF Inv, ChanTypeOK, ChainIntact, OneEventPerTime
  <2>4. ForcedTransitionsEnd' /\ Aged'
      BY <2>1, <2>2 DEF Inv, ForcedTransitionsEnd, Aged
  <2>5. QED
      BY <2>3, <2>4 DEF Inv
<1>5. QED
    BY <1>1, <1>2, <1>3, <1>4 DEF ChanNext

\* The invariant holds in every behaviour of the channel.
LEMMA SpecInv == ChanSpec => []Inv
<1>1. QED
    BY InitInv, NextInv, PTL DEF ChanSpec

\* The variables keep their types.
THEOREM TypeCorrect == ChanSpec => []ChanTypeOK
<1>1. Inv => ChanTypeOK
    BY DEF Inv
<1>2. QED
    BY SpecInv, <1>1, PTL

\* However writes are published, undone and cleared, the live events form one
\* doubly linked chain from head to tail.
THEOREM ChainAlwaysIntact == ChanSpec => []ChainIntact
<1>1. Inv => ChainIntact
    BY DEF Inv
<1>2. QED
    BY SpecInv, <1>1, PTL

\* Each time up to the tail's belongs to exactly one live event, so event_at
\* finds it.
THEOREM TimesAreUnique == ChanSpec => []OneEventPerTime
<1>1. Inv => OneEventPerTime
    BY DEF Inv
<1>2. QED
    BY SpecInv, <1>1, PTL

\* A forced transition leads to an older event, or from a replaced head to one
\* at which the loops stop: next_event and previous_event terminate.
THEOREM SkippingTerminates == ChanSpec => []ForcedTransitionsEnd
<1>1. Inv => ForcedTransitionsEnd
    BY DEF Inv
<1>2. QED
    BY SpecInv, <1>1, PTL

-----------------------------------------------------------------------------
(***************************************************************************)
(* What left the chain is frozen.                                          *)
(***************************************************************************)
LEMMA DeadStep ==
    ASSUME Inv, ChanNext
    PROVE  \A e \in Addr \ Live : heap'[e] = heap[e] /\ e \notin Live'
<1>0. /\ Live \subseteq Addr /\ head \in Live /\ tail \in Live /\ allocated \in Nat
      /\ allocated + 1 \notin Addr /\ DOMAIN heap = Addr
    BY DEF Inv, ChainIntact, ChanTypeOK, Live, Addr
<1>1. ASSUME NEW p \in Publishers, NEW v \in Values, AppendEvent(p, v), NEW e \in Addr \ Live
      PROVE  heap'[e] = heap[e] /\ e \notin Live'
  <2>1. e # tail /\ e # allocated + 1 /\ e \in 1 .. allocated + 1
      BY <1>0, <1>1 DEF Addr
  <2>2. heap'[e] = heap[e]
      BY <2>1, <1>0, <1>1 DEF AppendEvent, Extend
  <2>3. QED
      BY <2>1, <2>2, <1>1, AppendInv
<1>2. ASSUME NEW p \in Publishers, NEW time, RevertEvent(p, time), NEW e \in Addr \ Live
      PROVE  heap'[e] = heap[e] /\ e \notin Live'
  <2>1. tail' \in Live /\ heap' = CutAfter(tail') /\ UNCHANGED <<allocated, head>>
      BY <1>2, RevertIsCut
  <2> DEFINE r == tail'
  <2>2. e # r
      BY <2>1
  <2>3. heap'[e] = heap[e]
      BY <2>1, <2>2 DEF CutAfter
  <2>4. Live' \subseteq Live
    <3>1. PICK s \in Live : heap' = CutAfter(s) /\ tail' = s
        BY <2>1
    <3>2. Live' = {f \in Live : heap[f].displacement <= heap[s].displacement}
        BY <2>1, <3>1, CutInv
    <3>3. QED
        BY <3>2
  <2>5. QED
      BY <2>3, <2>4
<1>3. ASSUME NEW v \in Values, Clear(v), NEW e \in Addr \ Live
      PROVE  heap'[e] = heap[e] /\ e \notin Live'
  <2>1. e # head /\ e # allocated + 1 /\ e \in 1 .. allocated + 1
      BY <1>0, <1>3 DEF Addr
  <2>2. heap'[e] = heap[e]
      BY <2>1, <1>0, <1>3 DEF Clear, Extend, CutAfter
  <2>3. QED
      BY <2>1, <2>2, <1>3, ClearInv
<1>4. QED
    BY <1>1, <1>2, <1>3 DEF ChanNext

\* An event that left the chain never changes and never returns, so a reader
\* standing on it is carried to the same place whenever it moves.
THEOREM DeadNeverReturn == ChanSpec => DeadStayDead
<1>1. Inv /\ [ChanNext]_chan =>
         [\A e \in Addr \ Live : heap'[e] = heap[e] /\ e \notin Live']_chan
    BY DeadStep
<1>2. QED
    BY SpecInv, <1>1, PTL DEF ChanSpec, DeadStayDead

-----------------------------------------------------------------------------
(***************************************************************************)
(* The graph implements the log: the live events, read in the order of     *)
(* their displacements, are the log's entries.                             *)
(***************************************************************************)
Entries == [value: Values, publisher: Publishers \cup {0}]

Held(event) == [value |-> event.value, publisher |-> event.publisher]

\* Entry i of the log is what the live event of displacement i - 1 holds.
LogReads ==
    /\ heap[tail].displacement \in Nat
    /\ LiveLog \in Seq(Entries)
    /\ Len(LiveLog) = heap[tail].displacement + 1
    /\ \A e \in Live : /\ heap[e].displacement + 1 \in 1 .. Len(LiveLog)
                       /\ LiveLog[heap[e].displacement + 1] = Held(heap[e])
    /\ \A i \in 1 .. Len(LiveLog) :
          \E e \in Live : i = heap[e].displacement + 1 /\ LiveLog[i] = Held(heap[e])

\* The log's entry for a time is the live event's of that time.
LEMMA LogEntries == Inv => LogReads
<1> SUFFICES ASSUME Inv PROVE LogReads
    OBVIOUS
<1>1. /\ Live \subseteq Addr /\ tail \in Live
      /\ heap \in [Addr -> EventRec(Addr \cup {NULL})]
    BY DEF Inv, ChanTypeOK, ChainIntact, Live
<1>2. \A e \in Live : heap[e].displacement \in Nat /\ Held(heap[e]) \in Entries
    BY <1>1 DEF EventRec, Held, Entries
<1>3. \A d \in 0 .. heap[tail].displacement : EventAt(d) \in Live /\ heap[EventAt(d)].displacement = d
    BY DEF Inv, OneEventPerTime, EventAt
<1>4. \A e \in Live : heap[e].displacement \in 0 .. heap[tail].displacement
                      /\ EventAt(heap[e].displacement) = e
    BY <1>1, <1>2, <1>3 DEF Inv, OneEventPerTime
<1> DEFINE n == heap[tail].displacement + 1
<1>5. n \in Nat \ {0} /\ heap[tail].displacement \in Nat
    BY <1>1, <1>2
<1>6. LiveLog = [i \in 1 .. n |-> Held(heap[EventAt(i - 1)])]
    BY DEF LiveLog, Held
<1> HIDE DEF n
<1>7. \A i \in 1 .. n : i - 1 \in 0 .. heap[tail].displacement
    BY <1>5 DEF n
<1>8. \A i \in 1 .. n : Held(heap[EventAt(i - 1)]) \in Entries
    BY <1>2, <1>3, <1>7
<1>9. LiveLog \in Seq(Entries) /\ Len(LiveLog) = n
  <2>1. LiveLog \in [1 .. n -> Entries]
      BY <1>6, <1>8
  <2>2. LiveLog \in Seq(Entries)
      BY <1>5, <2>1, SeqDef
  <2>3. Len(LiveLog) \in Nat /\ DOMAIN LiveLog = 1 .. Len(LiveLog) /\ DOMAIN LiveLog = 1 .. n
      BY <2>1, <2>2, LenProperties
  <2>4. Len(LiveLog) = n
    <3>1. n \in 1 .. Len(LiveLog)
        BY <2>3, <1>5
    <3>2. Len(LiveLog) \in 1 .. n
        BY <2>3, <1>5, <3>1
    <3>3. Len(LiveLog) \in Nat
        BY <2>3
    <3> HIDE DEF n
    <3>4. QED
        BY <1>5, <3>1, <3>2, <3>3
  <2>5. QED
      BY <2>2, <2>4
<1>10. \A e \in Live : /\ heap[e].displacement + 1 \in 1 .. n
                       /\ LiveLog[heap[e].displacement + 1] = Held(heap[e])
  <2> TAKE e \in Live
  <2>1. heap[e].displacement + 1 \in 1 .. n /\ (heap[e].displacement + 1) - 1 = heap[e].displacement
      BY <1>2, <1>4, <1>5 DEF n
  <2>2. QED
      BY <2>1, <1>4, <1>6
<1>11. \A i \in 1 .. n : \E e \in Live : i = heap[e].displacement + 1 /\ LiveLog[i] = Held(heap[e])
  <2> TAKE i \in 1 .. n
  <2>1. EventAt(i - 1) \in Live /\ heap[EventAt(i - 1)].displacement = i - 1
      BY <1>3, <1>7
  <2>2. QED
      BY <2>1, <1>6
<1>12. QED
    BY <1>5, <1>9, <1>10, <1>11 DEF n, LogReads

\* Publishing on the graph publishes on the log.
LEMMA AppendPublishes ==
    ASSUME Inv, NEW p \in Publishers, NEW v \in Values, AppendEvent(p, v)
    PROVE  Log!Publish(p, v)
<1> DEFINE n == allocated + 1
           en == Log!Entry(v, p)
<1>1. /\ Live \subseteq Addr /\ tail \in Live /\ tail \in Addr /\ allocated \in Nat
      /\ heap \in [Addr -> EventRec(Addr \cup {NULL})] /\ n \notin Addr
      /\ Inv' /\ Live' = Live \cup {n} /\ tail' = n
  <2>1. /\ Live \subseteq Addr /\ tail \in Live /\ tail \in Addr /\ allocated \in Nat
        /\ heap \in [Addr -> EventRec(Addr \cup {NULL})] /\ n \notin Addr
    <3>1. tail \in Live /\ tail \in Addr /\ allocated \in Nat
          /\ heap \in [Addr -> EventRec(Addr \cup {NULL})]
        BY DEF Inv, ChanTypeOK, ChainIntact
    <3>2. Live \subseteq Addr
        BY DEF Live
    <3>3. n \notin Addr
        BY <3>1 DEF Addr
    <3>4. QED
        BY <3>1, <3>2, <3>3
  <2>2. Inv' /\ Live' = Live \cup {n}
      BY AppendInv
  <2>3. QED
      BY <2>1, <2>2 DEF AppendEvent
<1>2. /\ \A e \in Live : /\ heap'[e].displacement = heap[e].displacement
                         /\ Held(heap'[e]) = Held(heap[e])
      /\ heap'[n].displacement = heap[tail].displacement + 1 /\ Held(heap'[n]) = en
  <2> DEFINE linked == [heap EXCEPT ![tail].next = n]
             new == NewEvent(v, p, tail, heap[tail].displacement + 1)
  <2>1. heap' = [a \in 1 .. n |-> IF a = n THEN new ELSE linked[a]]
      BY DEF AppendEvent, Extend
  <2>2. heap'[n] = new
      BY <1>1, <2>1
  <2>3. new.displacement = heap[tail].displacement + 1 /\ Held(new) = en
      BY DEF NewEvent, Held, Log!Entry
  <2>4. ASSUME NEW e \in Live
        PROVE  heap'[e].displacement = heap[e].displacement /\ Held(heap'[e]) = Held(heap[e])
    <3>1. e \in Addr /\ e \in 1 .. n /\ e # n
        BY <1>1 DEF Addr
    <3>2. heap'[e] = linked[e]
        BY <2>1, <3>1
    <3>3. linked[e] = IF e = tail THEN [heap[e] EXCEPT !.next = n] ELSE heap[e]
        BY <1>1, <3>1
    <3>4. heap[e] \in EventRec(Addr \cup {NULL})
        BY <1>1, <3>1
    <3>5. QED
        BY <3>2, <3>3, <3>4 DEF EventRec, Held
  <2> HIDE DEF new
  <2>5. QED
      BY <2>2, <2>3, <2>4
<1>3. LogReads /\ LogReads'
    BY <1>1, LogEntries, PTL
<1> HIDE DEF en, n
<1>4. Len(LiveLog') = Len(LiveLog) + 1 /\ LiveLog'[Len(LiveLog) + 1] = en
    BY <1>1, <1>2, <1>3 DEF LogReads
<1>5. ASSUME NEW i \in 1 .. Len(LiveLog) PROVE LiveLog'[i] = LiveLog[i]
  <2>1. PICK e \in Live : i = heap[e].displacement + 1 /\ LiveLog[i] = Held(heap[e])
      BY <1>3 DEF LogReads
  <2>2. QED
      BY <2>1, <1>1, <1>2, <1>3 DEF LogReads
<1>6. en \in Entries
    BY DEF en, Entries, Log!Entry
<1>7. LiveLog' = Append(LiveLog, en)
  <2>1. LiveLog \in Seq(Entries) /\ LiveLog' \in Seq(Entries)
      BY <1>3 DEF LogReads
  <2>2. /\ Append(LiveLog, en) \in Seq(Entries) /\ Len(Append(LiveLog, en)) = Len(LiveLog) + 1
        /\ Append(LiveLog, en)[Len(LiveLog) + 1] = en
        /\ \A i \in 1 .. Len(LiveLog) : Append(LiveLog, en)[i] = LiveLog[i]
      BY <2>1, <1>6, AppendProperties
  <2>3. Len(LiveLog) \in Nat
      BY <2>1, LenProperties
  <2>4. \A i \in 1 .. Len(LiveLog') : LiveLog'[i] = Append(LiveLog, en)[i]
      BY <1>4, <1>5, <2>2, <2>3
  <2>5. QED
      BY <2>1, <2>2, <2>4, <1>4, SeqEqual
<1>8. QED
    BY <1>7 DEF Log!Publish, en

\* Cutting the chain after r keeps the first entries of the log, up to r's.
LEMMA CutTruncates ==
    ASSUME Inv, NEW r \in Live,
           heap' = CutAfter(r), tail' = r, UNCHANGED <<allocated, head>>
    PROVE  LiveLog' = SubSeq(LiveLog, 1, heap[r].displacement + 1)
<1> DEFINE n == heap[r].displacement + 1
<1>1. /\ Live' = {e \in Live : heap[e].displacement <= heap[r].displacement} /\ Inv'
      /\ Live \subseteq Addr /\ heap \in [Addr -> EventRec(Addr \cup {NULL})]
  <2>1. Live' = {e \in Live : heap[e].displacement <= heap[r].displacement} /\ Inv'
      BY CutInv
  <2>2. Live \subseteq Addr
      BY DEF Live
  <2>3. QED
      BY <2>1, <2>2 DEF Inv, ChanTypeOK
<1>2. \A e \in Live : heap'[e].displacement = heap[e].displacement /\ Held(heap'[e]) = Held(heap[e])
  <2> TAKE e \in Live
  <2>1. e \in Addr /\ heap[e] \in EventRec(Addr \cup {NULL})
      BY <1>1
  <2>2. \/ heap'[e] = [heap[e] EXCEPT !.empty = TRUE, !.next = r, !.prev = r]
        \/ heap'[e] = [heap[e] EXCEPT !.next = NULL]
        \/ heap'[e] = heap[e]
      BY <2>1 DEF CutAfter
  <2>3. QED
      BY <2>1, <2>2 DEF EventRec, Held
<1>3. LogReads /\ LogReads'
    BY <1>1, LogEntries, PTL
<1>4. r \in Live' /\ heap[r].displacement \in Nat
    BY <1>1 DEF EventRec
<1>5. /\ LiveLog \in Seq(Entries) /\ LiveLog' \in Seq(Entries)
      /\ Len(LiveLog') = n /\ n \in 1 .. Len(LiveLog) /\ n \in Nat \ {0}
    BY <1>2, <1>3, <1>4 DEF LogReads
<1> HIDE DEF n
<1>6. ASSUME NEW i \in 1 .. n PROVE LiveLog'[i] = LiveLog[i]
  <2>1. PICK e \in Live' : i = heap'[e].displacement + 1 /\ LiveLog'[i] = Held(heap'[e])
      BY <1>3, <1>5 DEF LogReads
  <2>2. QED
      BY <2>1, <1>1, <1>2, <1>3 DEF LogReads
<1>7. /\ SubSeq(LiveLog, 1, n) \in Seq(Entries) /\ Len(SubSeq(LiveLog, 1, n)) = n
      /\ \A i \in 1 .. n : SubSeq(LiveLog, 1, n)[i] = LiveLog[i]
  <2>1. Len(LiveLog) \in Nat /\ 1 \in Int /\ n \in Int
      BY <1>5, LenProperties
  <2>2. \A i \in 1 .. n : LiveLog[i] \in Entries
      BY <2>1, <1>5, ElementOfSeq
  <2>3. /\ SubSeq(LiveLog, 1, n) \in Seq(Entries)
        /\ Len(SubSeq(LiveLog, 1, n)) = (IF 1 <= n THEN n - 1 + 1 ELSE 0)
        /\ \A i \in 1 .. n - 1 + 1 : SubSeq(LiveLog, 1, n)[i] = LiveLog[1 + i - 1]
      BY <2>1, <2>2, SubSeqProperties
  <2>4. QED
      BY <2>3, <1>5
<1>8. LiveLog' = SubSeq(LiveLog, 1, n)
    BY <1>5, <1>6, <1>7, SeqEqual
<1>9. QED
    BY <1>8 DEF n

\* Reverting the graph undoes on the log.
LEMMA RevertUndoes ==
    ASSUME Inv, NEW p \in Publishers, NEW time \in 0 .. heap[tail].displacement,
           RevertEvent(p, time)
    PROVE  Log!Undo(p, time)
<1>1. PICK w \in Live : IsLastWrite(w, p, time) /\ heap' = CutAfter(RevertTarget(w)) /\ tail' = RevertTarget(w)
    BY DEF RevertEvent
<1>2. /\ head \in Live /\ heap[head].displacement = 0 /\ LogReads
      /\ \A e \in Live : heap[e].displacement \in Nat
      /\ \A e \in Live : heap[e].displacement = 0 => e = head
  <2>1. Live \subseteq Addr /\ heap \in [Addr -> EventRec(Addr \cup {NULL})]
      BY DEF Inv, ChanTypeOK, Live
  <2>2. \A e \in Live : heap[e].displacement \in Nat
      BY <2>1 DEF EventRec
  <2>3. QED
      BY <2>2, LogEntries DEF Inv, ChainIntact, OneEventPerTime
<1>3. time \in Nat /\ time + 1 <= Len(LiveLog) /\ Len(LiveLog) \in Nat
    BY <1>2 DEF LogReads
<1>4. ASSUME NEW e \in Live
      PROVE  LiveLog[heap[e].displacement + 1].publisher = heap[e].publisher
  <2>1. LiveLog[heap[e].displacement + 1] = Held(heap[e])
      BY <1>2 DEF LogReads
  <2>2. QED
      BY <2>1 DEF Held
<1>5. CASE w = head
  <2>1. LiveLog' = SubSeq(LiveLog, 1, 1)
    <3>1. heap' = CutAfter(head) /\ tail' = head /\ UNCHANGED <<allocated, head>>
        BY <1>1, <1>5 DEF RevertTarget, RevertEvent
    <3>2. LiveLog' = SubSeq(LiveLog, 1, heap[head].displacement + 1)
        BY <1>2, <3>1, CutTruncates
    <3>3. QED
        BY <3>2, <1>2
  <2>2. ASSUME NEW i \in Log!LastWriteBy(p, time) PROVE FALSE
    <3>1. i \in 2 .. time + 1 /\ LiveLog[i].publisher = p
        BY DEF Log!LastWriteBy
    <3>2. PICK e \in Live : i = heap[e].displacement + 1 /\ LiveLog[i] = Held(heap[e])
        BY <3>1, <1>2, <1>3 DEF LogReads
    <3>3. heap[e].publisher = p /\ heap[e].displacement <= time /\ heap[e].displacement > 0
        BY <3>1, <3>2, <1>2, <1>3 DEF Held
    <3>4. QED
        BY <3>3, <1>1, <1>2, <1>5 DEF IsLastWrite
  <2>3. QED
      BY <2>1, <2>2 DEF Log!Undo
<1>6. CASE w # head
  <2> DEFINE i == heap[w].displacement + 1
  <2>1. /\ heap[w].publisher = p /\ heap[w].displacement <= time
        /\ \A e \in Live : heap[e].publisher = p /\ heap[e].displacement <= time
                              => heap[e].displacement <= heap[w].displacement
      BY <1>1, <1>6 DEF IsLastWrite
  <2>2. i \in 2 .. time + 1 /\ LiveLog[i].publisher = p
      BY <2>1, <1>2, <1>3, <1>4, <1>6
  <2>3. ASSUME NEW j \in i + 1 .. time + 1 PROVE LiveLog[j].publisher # p
    <3>1. j \in 1 .. Len(LiveLog) /\ j > i
        BY <1>2, <1>3
    <3>2. PICK e \in Live : j = heap[e].displacement + 1 /\ LiveLog[j] = Held(heap[e])
        BY <3>1, <1>2 DEF LogReads
    <3>3. heap[e].displacement <= time /\ ~(heap[e].displacement <= heap[w].displacement)
        BY <3>1, <3>2, <1>2, <1>3
    <3>4. QED
        BY <3>2, <3>3, <2>1 DEF Held
  <2>4. i \in Log!LastWriteBy(p, time)
      BY <2>2, <2>3 DEF Log!LastWriteBy
  <2>5. heap[w].prev \in Live /\ heap[heap[w].prev].displacement + 1 = heap[w].displacement
    <3>1. heap[w].prev \in Live /\ heap[heap[w].prev].next = w
        BY <1>6 DEF Inv, ChainIntact
    <3>2. heap[w].prev # tail
      <4>1. heap[tail].next = NULL /\ w # NULL
          BY DEF Inv, ChainIntact, Live, Addr
      <4>2. QED
          BY <3>1, <4>1
    <3>3. QED
        BY <3>1, <3>2, <1>2 DEF Inv, ChainIntact
  <2>6. LiveLog' = SubSeq(LiveLog, 1, i - 1)
    <3>1. heap' = CutAfter(heap[w].prev) /\ tail' = heap[w].prev /\ UNCHANGED <<allocated, head>>
        BY <1>1, <1>6 DEF RevertTarget, RevertEvent
    <3>2. LiveLog' = SubSeq(LiveLog, 1, heap[heap[w].prev].displacement + 1)
        BY <2>5, <3>1, CutTruncates
    <3>3. heap[heap[w].prev].displacement + 1 = i - 1
        BY <2>5, <1>2
    <3>4. QED
        BY <3>2, <3>3
  <2>7. QED
      BY <2>4, <2>6 DEF Log!Undo
<1>7. QED
    BY <1>5, <1>6

\* Clearing the graph restarts the log.
LEMMA ClearRestarts ==
    ASSUME Inv, NEW v \in Values, Clear(v)
    PROVE  Log!Restart(v)
<1> DEFINE n == allocated + 1
<1>1. Inv' /\ Live' = {n} /\ tail' = n /\ allocated \in Nat
    BY ClearInv DEF Clear, Inv, ChanTypeOK
<1>2. heap'[n] = NewEvent(v, RootPublisher, NULL, 0)
    BY <1>1 DEF Clear, Extend
<1>3. heap'[n].displacement = 0 /\ Held(heap'[n]) = Log!Entry(v, 0)
    BY <1>2 DEF NewEvent, Held, Log!Entry
<1>4. LogReads'
    BY <1>1, LogEntries, PTL
<1> HIDE DEF n
<1>5. LiveLog' \in Seq(Entries) /\ Len(LiveLog') = 1 /\ LiveLog'[1] = Log!Entry(v, 0)
    BY <1>1, <1>3, <1>4 DEF LogReads
<1>6. LiveLog' = <<Log!Entry(v, 0)>>
    BY <1>5
<1>7. QED
    BY <1>6 DEF Log!Restart

\* A new channel's log is the initial log.
LEMMA InitLog == ChanInit => Log!LogInit
<1> SUFFICES ASSUME ChanInit PROVE Log!LogInit
    OBVIOUS
<1>1. Live = {1} /\ heap[1] = NewEvent(Default, RootPublisher, NULL, 0) /\ tail = 1
    BY DEF ChanInit, Live, Addr, NewEvent
<1>2. heap[1].displacement = 0 /\ Held(heap[1]) = Log!Entry(Default, 0)
    BY <1>1 DEF NewEvent, Held, Log!Entry
<1>3. LogReads
    BY InitInv, LogEntries
<1>4. LiveLog \in Seq(Entries) /\ Len(LiveLog) = 1 /\ LiveLog[1] = Log!Entry(Default, 0)
    BY <1>1, <1>2, <1>3 DEF LogReads
<1>5. QED
    BY <1>4 DEF Log!LogInit

\* Every operation on the graph is one on the log.
LEMMA NextIsOfTheLog == Inv /\ ChanNext => Log!LogNext
<1> SUFFICES ASSUME Inv, ChanNext PROVE Log!LogNext
    OBVIOUS
<1>1. ASSUME NEW p \in Publishers, NEW v \in Values, AppendEvent(p, v) PROVE Log!LogNext
    BY <1>1, AppendPublishes DEF Log!LogNext
<1>2. ASSUME NEW p \in Publishers, NEW time \in 0 .. heap[tail].displacement, RevertEvent(p, time)
      PROVE  Log!LogNext
  <2>1. Log!Undo(p, time)
      BY <1>2, RevertUndoes
  <2>2. time \in 0 .. Len(LiveLog) - 1
      BY LogEntries DEF LogReads
  <2>3. QED
      BY <2>1, <2>2 DEF Log!LogNext
<1>3. ASSUME NEW v \in Values, Clear(v) PROVE Log!LogNext
    BY <1>3, ClearRestarts DEF Log!LogNext
<1>4. QED
    BY <1>1, <1>2, <1>3 DEF ChanNext

\* The log is a function of the graph.
LEMMA LogFollowsGraph == UNCHANGED chan => LiveLog' = LiveLog
<1> SUFFICES ASSUME UNCHANGED chan PROVE LiveLog' = LiveLog
    OBVIOUS
<1>1. heap' = heap /\ tail' = tail /\ head' = head /\ allocated' = allocated
    BY DEF chan
<1>2. QED
    BY <1>1 DEF LiveLog, EventAt, Live, Addr

\* The event graph implements the log: publishing appends to it, reverting
\* removes the publisher's last write and all that came after, clearing
\* starts afresh, whatever the graph went through before.
THEOREM GraphImplementsLog == ChanSpec => ImplementsLog
<1>1. Inv => OperationsMatch
    BY AppendPublishes, RevertUndoes, ClearRestarts DEF OperationsMatch
<1>2. Inv /\ [ChanNext]_chan => chan' = chan \/ (Log!LogNext /\ OperationsMatch)
    BY <1>1, NextIsOfTheLog
<1>3. QED
    BY InitLog, SpecInv, <1>2, PTL DEF ChanSpec, ImplementsLog

\* Seen as a log, the graph is nothing but one.
THEOREM GraphRefinesLog == ChanSpec => Log!LogSpec
<1>1. Inv /\ [ChanNext]_chan => [Log!LogNext]_LiveLog
    BY NextIsOfTheLog, LogFollowsGraph
<1>2. QED
    BY InitLog, SpecInv, <1>1, PTL DEF ChanSpec, Log!LogSpec

-----------------------------------------------------------------------------
(* Facts about the heap that every client's proof needs. *)

\* The event at a time up to the tail's is on the chain.
LEMMA EventAtIsLive ==
    ASSUME Inv, NEW time \in Nat, EventExists(time)
    PROVE  EventAt(time) \in Live /\ heap[EventAt(time)].displacement = time
<1>1. time \in 0 .. heap[tail].displacement
    BY DEF EventExists, Inv, ChanTypeOK, EventRec
<1>2. \E e \in Live : heap[e].displacement = time
    BY <1>1 DEF Inv, OneEventPerTime
<1>3. QED
    BY <1>2 DEF EventAt

\* Addresses are numbers other than NULL, and every displacement is a number.
LEMMA HeapTypes ==
    ASSUME Inv
    PROVE  /\ Addr \subseteq Nat \ {NULL} /\ Live \subseteq Addr /\ head \in Live /\ tail \in Live
           /\ heap \in [Addr -> EventRec(Addr \cup {NULL})]
           /\ \A e \in Addr : heap[e].displacement \in Nat
<1>1. heap \in [Addr -> EventRec(Addr \cup {NULL})] /\ head \in Live /\ tail \in Live
    BY DEF Inv, ChanTypeOK, ChainIntact
<1>2. Addr \subseteq Nat \ {NULL} /\ Live \subseteq Addr
    BY DEF Addr, Live
<1>3. \A e \in Addr : heap[e].displacement \in Nat
    BY <1>1 DEF EventRec
<1>4. QED
    BY <1>1, <1>2, <1>3

\* Nothing that was allocated goes away.
LEMMA HeapGrows ==
    ASSUME Inv, ChanNext
    PROVE  Inv' /\ Addr \subseteq Addr' /\ tail' \in Addr'
<1>1. Inv'
    BY NextInv
<1>2. Addr \subseteq Addr'
    BY DEF ChanNext, AppendEvent, RevertEvent, Clear, Addr, Inv, ChanTypeOK
<1>3. QED
    BY <1>1, <1>2 DEF Inv, ChanTypeOK

\* What appending does to the heap: one new event, linked behind the old tail.
LEMMA AppendEffect ==
    ASSUME Inv, NEW p \in Publishers, NEW v \in Values, AppendEvent(p, v)
    PROVE  /\ Inv' /\ Live' = Live \cup {allocated + 1} /\ Addr' = Addr \cup {allocated + 1}
           /\ allocated + 1 \notin Addr /\ tail' = allocated + 1 /\ head' = head
           /\ heap'[tail'] = NewEvent(v, p, tail, heap[tail].displacement + 1)
           /\ heap'[tail].next = tail'
           /\ \A e \in Addr \ {tail} : heap'[e] = heap[e]
           /\ \A e \in Addr : /\ heap'[e].publisher = heap[e].publisher
                              /\ heap'[e].displacement = heap[e].displacement
                              /\ heap'[e].empty = heap[e].empty
                              /\ heap'[e].prev = heap[e].prev
<1>1. /\ allocated \in Nat /\ Addr = 1 .. allocated /\ tail \in Addr
      /\ heap \in [Addr -> EventRec(Addr \cup {NULL})]
      /\ allocated' = allocated + 1 /\ tail' = allocated + 1 /\ head' = head
      /\ heap' = Extend([heap EXCEPT ![tail].next = allocated + 1],
                        NewEvent(v, p, tail, heap[tail].displacement + 1))
    BY DEF Inv, ChanTypeOK, Addr, AppendEvent
<1>2. Addr' = Addr \cup {allocated + 1} /\ allocated + 1 \notin Addr
    BY <1>1 DEF Addr
<1>3. \A e \in Addr : heap'[e] = [heap EXCEPT ![tail].next = allocated + 1][e]
    BY <1>1 DEF Extend
<1>4. heap'[tail'] = NewEvent(v, p, tail, heap[tail].displacement + 1)
    BY <1>1 DEF Extend
<1>5. \A e \in Addr \ {tail} : heap'[e] = heap[e]
    BY <1>1, <1>3
<1>6. heap'[tail] = [heap[tail] EXCEPT !.next = allocated + 1] /\ heap[tail] \in EventRec(Addr \cup {NULL})
    BY <1>1, <1>3
<1>7. /\ heap'[tail].next = tail' /\ heap'[tail].publisher = heap[tail].publisher
      /\ heap'[tail].displacement = heap[tail].displacement
      /\ heap'[tail].empty = heap[tail].empty /\ heap'[tail].prev = heap[tail].prev
    BY <1>1, <1>6 DEF EventRec
<1>8. QED
    BY <1>1, <1>2, <1>4, <1>5, <1>7, AppendInv

\* What cutting the chain after a live event does to the heap.
LEMMA CutEffect ==
    ASSUME Inv, NEW r \in Live,
           heap' = CutAfter(r), tail' = r, UNCHANGED <<allocated, head>>
    PROVE  /\ Inv' /\ Addr' = Addr
           /\ Live' = {e \in Live : heap[e].displacement <= heap[r].displacement}
           /\ \A e \in Live' \ {r} : heap'[e] = heap[e]
           /\ \A e \in Live \ Live' : heap'[e].next = r /\ heap'[e].prev = r
           /\ \A e \in Addr : /\ heap'[e].publisher = heap[e].publisher
                              /\ heap'[e].displacement = heap[e].displacement
           /\ heap'[r].prev = heap[r].prev
<1>1. /\ Inv' /\ Live' = {e \in Live : heap[e].displacement <= heap[r].displacement}
    BY CutInv
<1>2. /\ Addr' = Addr /\ Live \subseteq Addr /\ r \in Addr
      /\ \A e \in Addr : heap[e] \in EventRec(Addr \cup {NULL}) /\ heap[e].displacement \in Nat
    BY HeapTypes DEF Addr
<1>3. \A e \in Addr : heap'[e] = IF e \in Live /\ heap[e].displacement > heap[r].displacement
                                 THEN [heap[e] EXCEPT !.empty = TRUE, !.next = r, !.prev = r]
                                 ELSE IF e = r THEN [heap[e] EXCEPT !.next = NULL]
                                 ELSE heap[e]
    BY DEF CutAfter
<1>4. \A e \in Live : e \in Live' <=> ~ (heap[e].displacement > heap[r].displacement)
    BY <1>1, <1>2
<1>5. \A e \in Live' \ {r} : heap'[e] = heap[e]
    BY <1>1, <1>2, <1>3, <1>4
<1>6. ASSUME NEW e \in Live \ Live'
      PROVE  /\ heap'[e].next = r /\ heap'[e].prev = r
             /\ heap'[e].publisher = heap[e].publisher
             /\ heap'[e].displacement = heap[e].displacement
  <2>1. heap'[e] = [heap[e] EXCEPT !.empty = TRUE, !.next = r, !.prev = r]
      BY <1>2, <1>3, <1>4
  <2>2. QED
      BY <2>1, <1>2 DEF EventRec
<1>7. /\ heap'[r].publisher = heap[r].publisher /\ heap'[r].displacement = heap[r].displacement
      /\ heap'[r].prev = heap[r].prev
  <2>1. ~ (heap[r].displacement > heap[r].displacement)
      BY <1>2
  <2>2. heap'[r] = [heap[r] EXCEPT !.next = NULL]
      BY <1>2, <1>3, <2>1
  <2>3. QED
      BY <2>2, <1>2 DEF EventRec
<1>8. \A e \in Addr \ Live : e # r => heap'[e] = heap[e]
    BY <1>3
<1>9. QED
    BY <1>1, <1>2, <1>5, <1>6, <1>7, <1>8

\* What clearing does to the heap: every event that was live leads to a head.
LEMMA ClearEffect ==
    ASSUME Inv, NEW v \in Values, Clear(v)
    PROVE  /\ Inv' /\ Live' = {allocated + 1} /\ Addr' = Addr \cup {allocated + 1}
           /\ allocated + 1 \notin Addr /\ tail' = allocated + 1 /\ head' = allocated + 1
           /\ heap'[head'] = NewEvent(v, RootPublisher, NULL, 0)
           /\ heap'[head].next = head'
           /\ \A e \in Live \ {head} : heap'[e].next = head
           /\ \A e \in Addr : /\ heap'[e].publisher = heap[e].publisher
                              /\ heap'[e].displacement = heap[e].displacement
           /\ \A e \in Addr \ Live : heap'[e] = heap[e]
<1>1. /\ allocated \in Nat /\ Addr = 1 .. allocated /\ head \in Addr /\ head \in Live
      /\ allocated' = allocated + 1 /\ tail' = allocated + 1 /\ head' = allocated + 1
      /\ \A e \in Addr : heap[e] \in EventRec(Addr \cup {NULL}) /\ heap[e].displacement \in Nat
      /\ heap[head].displacement = 0 /\ Live \subseteq Addr
      /\ \A e \in Live : heap[e].displacement = 0 => e = head
    BY HeapTypes DEF Inv, ChanTypeOK, Addr, Clear, ChainIntact, Live
<1>2. Addr' = Addr \cup {allocated + 1} /\ allocated + 1 \notin Addr
    BY <1>1 DEF Addr
<1>3. heap'[head'] = NewEvent(v, RootPublisher, NULL, 0)
    BY <1>1 DEF Extend, Clear
<1>4. \A e \in Addr : heap'[e] = [CutAfter(head) EXCEPT ![head].next = allocated + 1,
                                                        ![head].prev = allocated + 1][e]
    BY <1>1 DEF Extend, Clear
<1>5. \A e \in Addr : CutAfter(head)[e] = IF e \in Live /\ heap[e].displacement > heap[head].displacement
                                 THEN [heap[e] EXCEPT !.empty = TRUE, !.next = head, !.prev = head]
                                 ELSE IF e = head THEN [heap[e] EXCEPT !.next = NULL]
                                 ELSE heap[e]
    BY DEF CutAfter
<1>6. DOMAIN CutAfter(head) = Addr
    BY DEF CutAfter
<1> DEFINE c == CutAfter(head)[head]
<1>7. /\ heap'[head].next = head' /\ heap'[head].publisher = heap[head].publisher
      /\ heap'[head].displacement = heap[head].displacement
  <2>0. ~ (heap[head].displacement > heap[head].displacement)
      BY <1>1
  <2>1. c = [heap[head] EXCEPT !.next = NULL]
      BY <1>1, <1>5, <2>0
  <2>2. c \in EventRec(Addr \cup {NULL}) /\ c.publisher = heap[head].publisher
        /\ c.displacement = heap[head].displacement
      BY <2>1, <1>1 DEF EventRec
  <2> HIDE DEF c
  <2>3. heap'[head] = [[c EXCEPT !.next = allocated + 1] EXCEPT !.prev = allocated + 1]
      BY <1>1, <1>4, <1>6 DEF c
  <2>4. QED
      BY <2>2, <2>3, <1>1 DEF EventRec
<1>8. \A e \in Addr \ {head} : heap'[e] = CutAfter(head)[e]
    BY <1>4, <1>6
<1>9. ASSUME NEW e \in Live \ {head}
      PROVE  /\ heap'[e].next = head /\ heap'[e].publisher = heap[e].publisher
             /\ heap'[e].displacement = heap[e].displacement
  <2>1. e \in Addr \ {head} /\ heap[e].displacement > heap[head].displacement
      BY <1>1
  <2>2. heap'[e] = [heap[e] EXCEPT !.empty = TRUE, !.next = head, !.prev = head]
      BY <1>5, <1>8, <2>1
  <2>3. QED
      BY <2>2, <1>1 DEF EventRec
<1>10. \A e \in Addr \ Live : heap'[e] = heap[e]
    BY <1>1, <1>5, <1>8
<1>11. QED
    BY <1>1, <1>2, <1>3, <1>7, <1>9, <1>10, ClearInv

\* A stack, one put on it or taken off it.
LEMMA Stack ==
    ASSUME NEW S, NEW s \in Seq(S), NEW d \in S
    PROVE  /\ Append(s, d) \in Seq(S) /\ Len(Append(s, d)) = Len(s) + 1
           /\ \A i \in 1 .. Len(Append(s, d)) :
                 Append(s, d)[i] = IF i = Len(s) + 1 THEN d ELSE s[i]
           /\ s # << >> =>
                 /\ SubSeq(s, 1, Len(s) - 1) \in Seq(S)
                 /\ Len(s) \in 1 .. Len(s) /\ s[Len(s)] \in S
                 /\ Len(SubSeq(s, 1, Len(s) - 1)) = Len(s) - 1
                 /\ \A i \in 1 .. Len(s) - 1 : SubSeq(s, 1, Len(s) - 1)[i] = s[i]
<1>1. Len(s) \in Nat
    BY LenProperties
<1>2. Append(s, d) \in Seq(S) /\ Len(Append(s, d)) = Len(s) + 1
      /\ \A i \in 1 .. Len(Append(s, d)) :
            Append(s, d)[i] = IF i = Len(s) + 1 THEN d ELSE s[i]
    BY <1>1, AppendProperties
<1>3. ASSUME s # << >>
      PROVE  /\ SubSeq(s, 1, Len(s) - 1) \in Seq(S)
             /\ Len(s) \in 1 .. Len(s) /\ s[Len(s)] \in S
             /\ Len(SubSeq(s, 1, Len(s) - 1)) = Len(s) - 1
             /\ \A i \in 1 .. Len(s) - 1 : SubSeq(s, 1, Len(s) - 1)[i] = s[i]
  <2>1. Len(s) # 0
      BY <1>3, EmptySeq
  <2>2. Len(s) \in 1 .. Len(s) /\ s[Len(s)] \in S
      BY <2>1, <1>1, ElementOfSeq
  <2>3. /\ Len(s) - 1 \in Nat /\ \A i \in 1 .. Len(s) - 1 : s[i] \in S
      BY <2>1, <1>1, ElementOfSeq
  <2> DEFINE n == Len(s) - 1
             t == SubSeq(s, 1, n)
  <2>4. /\ t \in Seq(S) /\ Len(t) = IF 1 <= n THEN n - 1 + 1 ELSE 0
        /\ \A i \in 1 .. n - 1 + 1 : t[i] = s[1 + i - 1]
    <3> HIDE DEF n
    <3>1. QED
        BY <2>3, SubSeqProperties DEF n
  <2>5. Len(t) = n /\ \A i \in 1 .. n : t[i] = s[i]
    <3>1. n \in Nat /\ n - 1 + 1 = n
        BY <2>3
    <3> HIDE DEF t, n
    <3>2. \A i \in 1 .. n : 1 + i - 1 = i
        BY <3>1
    <3>3. QED
        BY <3>1, <3>2, <2>4
  <2>6. QED
      BY <2>2, <2>4, <2>5
<1>4. QED
    BY <1>2, <1>3

(***************************************************************************)
(* Walks over the graph.  The loops over empty events and the repeated     *)
(* calls of next_value and unread are recursive functions.  That they      *)
(* exist, and what they return, is proved by induction: the set of the     *)
(* arguments for which it fails would have a least element.                *)
(***************************************************************************)

\* Induction, as the provers can use it: a nonempty set of naturals has a least element.
LEMMA Least ==
    ASSUME NEW T \in SUBSET Nat, T # {}
    PROVE  \E n \in T : \A m \in T : n <= m
<1> DEFINE R == {ss \in Nat \X Nat : ss[1] < ss[2]}
<1>1. IsWellFoundedOn(R, Nat)
    BY NatLessThanWellFounded DEF OpToRel
<1>2. PICK n \in T : \A m \in T : ~ (<<m, n>> \in R)
  <2> HIDE DEF R
  <2>1. QED
      BY <1>1, WFMin
<1>3. ASSUME NEW m \in T PROVE n <= m
  <2>1. <<m, n>> \in R <=> m < n
      BY Zenon
  <2>2. QED
      BY <2>1, <1>2
<1>4. QED
    BY <1>3

\* Where the loops over empty events stop, from each address.
Landing(link) ==
    LET Land[a \in Addr] ==
            IF heap[a].empty /\ heap[a][link] # NULL THEN Land[heap[a][link]] ELSE a
    IN  Land

\* The forced transitions of empty events, in one place for both links.
LEMMA EmptyGoBack ==
    ASSUME Inv, NEW a \in Addr, heap[a].empty, NEW link \in {"next", "prev"}
    PROVE  heap[a][link] \in 1 .. a - 1 /\ heap[a][link] \in Addr
<1>1. a \in Addr \ Live
    BY DEF Live
<1>2. heap[a].next \in Addr /\ heap[a].prev = heap[a].next /\ heap[a].next < a
    BY <1>1 DEF Inv, ForcedTransitionsEnd
<1>3. QED
    BY <1>2 DEF Addr, Inv, ChanTypeOK

\* The recursion over empty events defines a function: they lead to ever older events.
LEMMA LandingUnfolds ==
    ASSUME Inv, NEW link \in {"next", "prev"}
    PROVE  Landing(link) =
             [a \in Addr |-> IF heap[a].empty /\ heap[a][link] # NULL
                             THEN Landing(link)[heap[a][link]] ELSE a]
<1> DEFINE Goes(a) == heap[a].empty /\ heap[a][link] # NULL
           Upto(n, f) == f = [a \in 1 .. n |-> IF Goes(a) THEN f[heap[a][link]] ELSE a]
           Bad == {n \in 0 .. allocated : ~ \E f : Upto(n, f)}
<1>1. allocated \in Nat /\ Addr = 1 .. allocated
    BY DEF Inv, ChanTypeOK, Addr
<1>2. Bad = {}
  <2>1. SUFFICES ASSUME Bad # {} PROVE FALSE
      OBVIOUS
  <2>2. Bad \subseteq Nat
      BY <1>1
  <2>3. PICK n \in Bad : \A m \in Bad : n <= m
    <3> HIDE DEF Bad
    <3>1. QED
        BY <2>1, <2>2, Least
  <2>4. n # 0
    <3>1. Upto(0, [a \in {} |-> a])
        OBVIOUS
    <3>2. QED
        BY <3>1
  <2>5. PICK f : Upto(n - 1, f)
    <3>1. n - 1 \in 0 .. allocated /\ ~ (n <= n - 1)
        BY <1>1, <2>4
    <3>2. n - 1 \notin Bad
        BY <3>1, <2>3
    <3>3. QED
        BY <3>1, <3>2
  <2> DEFINE g == [a \in 1 .. n |-> IF a # n THEN f[a] ELSE IF Goes(n) THEN f[heap[n][link]] ELSE n]
  <2>6. ASSUME NEW a \in 1 .. n
        PROVE  g[a] = IF Goes(a) THEN g[heap[a][link]] ELSE a
    <3>1. a \in Addr
        BY <1>1
    <3>2. Goes(a) => heap[a][link] \in 1 .. a - 1
        BY <3>1, EmptyGoBack
    <3> HIDE DEF Goes
    <3>3. CASE a = n
        BY <3>2, <3>3, <1>1
    <3>4. CASE a # n
      <4>1. f[a] = IF Goes(a) THEN f[heap[a][link]] ELSE a
          BY <2>5, <3>4, <1>1
      <4>2. QED
          BY <4>1, <3>2, <3>4, <1>1
    <3>5. QED
        BY <3>3, <3>4
  <2>7. Upto(n, g)
    <3>1. g = [a \in 1 .. n |-> g[a]]
        OBVIOUS
    <3> HIDE DEF g, Goes
    <3>2. QED
        BY <3>1, <2>6
  <2>8. QED
      BY <2>7
<1>3. \E f : Upto(allocated, f)
    BY <1>1, <1>2
<1>4. Landing(link) = CHOOSE f : Upto(allocated, f)
    BY <1>1 DEF Landing, Addr
<1>5. Upto(allocated, Landing(link))
  <2> HIDE DEF Upto
  <2>1. QED
      BY <1>3, <1>4
<1>6. QED
    BY <1>5, <1>1

\* They stop at an event that is not empty, and not before they have to.
LEMMA LandingStops ==
    ASSUME Inv, NEW link \in {"next", "prev"}, NEW a \in Addr
    PROVE  /\ Landing(link)[a] \in 1 .. a /\ ~heap[Landing(link)[a]].empty
           /\ ~heap[a].empty => Landing(link)[a] = a
<1> DEFINE L == Landing(link)
           Right(b) == L[b] \in 1 .. b /\ ~heap[L[b]].empty
           Bad == {b \in Addr : ~Right(b)}
<1>1. L = [b \in Addr |-> IF heap[b].empty /\ heap[b][link] # NULL THEN L[heap[b][link]] ELSE b]
    BY LandingUnfolds
<1>2. Addr = 1 .. allocated /\ allocated \in Nat
    BY DEF Inv, ChanTypeOK, Addr
<1> HIDE DEF L
<1>3. \A b \in Addr : ~heap[b].empty => L[b] = b
    BY <1>1
<1>4. Bad = {}
  <2>1. SUFFICES ASSUME Bad # {} PROVE FALSE
      OBVIOUS
  <2>2. PICK b \in Bad : \A c \in Bad : b <= c
    <3>1. Bad \subseteq Nat
        BY <1>2
    <3> HIDE DEF Bad
    <3>2. QED
        BY <2>1, <3>1, Least
  <2>3. heap[b].empty
      BY <1>2, <1>3
  <2>4. heap[b][link] \in 1 .. b - 1 /\ heap[b][link] \in Addr
      BY <2>3, EmptyGoBack
  <2>5. Right(heap[b][link])
    <3>1. heap[b][link] \notin Bad
        BY <2>2, <2>4, <1>2
    <3>2. QED
        BY <3>1, <2>4
  <2>6. L[b] = L[heap[b][link]]
    <3>1. b \in Addr /\ heap[b][link] # NULL
        BY <2>4, <1>2
    <3>2. QED
        BY <3>1, <2>3, <1>1
  <2>7. QED
      BY <2>4, <2>5, <2>6, <1>2
<1>5. QED
    BY <1>3, <1>4, <1>2 DEF L

\* next_event: the tail is the only event it does not leave; from a live event it goes to
\* the next one, and from any other to one that still holds a value.
LEMMA StepNext ==
    ASSUME Inv, NEW e \in Addr
    PROVE  /\ Step(e, "next") \in Addr
           /\ e = tail => Step(e, "next") = e
           /\ e # tail => Step(e, "next") # e /\ ~heap[Step(e, "next")].empty
           /\ e \in Live \ {tail} => Step(e, "next") = heap[e].next
           /\ e \notin Live /\ ~heap[heap[e].next].empty => Step(e, "next") = heap[e].next
<1> DEFINE s == Step(e, "next")
           f == heap[e].next
<1>1. s = IF f = NULL THEN e ELSE Landing("next")[f]
    BY DEF Step, Landing
<1>2. Live \subseteq Addr /\ Addr \subseteq Nat \ {NULL} /\ \A a \in Addr : 1 .. a \subseteq Addr
  <2>1. Live \subseteq Addr /\ allocated \in Nat
      BY DEF Live, Inv, ChanTypeOK
  <2>2. QED
      BY <2>1 DEF Addr
<1> HIDE DEF s, f
<1>3. f \in Addr => s \in 1 .. f /\ ~heap[s].empty /\ (~heap[f].empty => s = f)
  <2>1. f \in Addr => f # NULL
      BY <1>2
  <2>2. QED
      BY <2>1, <1>1, LandingStops
<1>4. CASE e = tail
  <2>1. f = NULL
      BY <1>4 DEF Inv, ChainIntact, f
  <2>2. QED
      BY <2>1, <1>1, <1>4 DEF s, f, Inv, ChainIntact
<1>5. CASE e \in Live \ {tail}
  <2>1. f \in Live /\ heap[f].displacement = heap[e].displacement + 1 /\ heap[e].displacement \in Nat
      BY <1>5, <1>2 DEF Inv, ChainIntact, ChanTypeOK, EventRec, f
  <2>2. ~heap[f].empty /\ f # e
      BY <2>1 DEF Live
  <2>3. s = f
      BY <2>1, <2>2, <1>2, <1>3
  <2>4. QED
      BY <2>1, <2>2, <2>3, <1>2, <1>5 DEF s, f
<1>6. CASE e \in Addr \ Live
  <2>1. f \in Addr /\ (IF heap[e].empty THEN f < e ELSE f > e /\ ~heap[f].empty)
      BY <1>6 DEF Inv, ForcedTransitionsEnd, f
  <2>2. s # e /\ s \in Addr
      BY <2>1, <1>2, <1>3
  <2>3. e # tail
      BY <1>6 DEF Inv, ChainIntact
  <2>4. QED
      BY <2>1, <2>2, <2>3, <1>3, <1>6 DEF s, f
<1>7. QED
    BY <1>4, <1>5, <1>6

\* previous_event: the same, backward to the head.
LEMMA StepPrev ==
    ASSUME Inv, NEW e \in Addr
    PROVE  /\ Step(e, "prev") \in Addr
           /\ e = head => Step(e, "prev") = e
           /\ e # head => Step(e, "prev") # e /\ ~heap[Step(e, "prev")].empty
           /\ e \in Live \ {head} => Step(e, "prev") = heap[e].prev
           /\ e \notin Live /\ ~heap[heap[e].prev].empty => Step(e, "prev") = heap[e].prev
<1> DEFINE s == Step(e, "prev")
           f == heap[e].prev
<1>1. s = IF f = NULL THEN e ELSE Landing("prev")[f]
    BY DEF Step, Landing
<1>2. Live \subseteq Addr /\ Addr \subseteq Nat \ {NULL} /\ \A a \in Addr : 1 .. a \subseteq Addr
  <2>1. Live \subseteq Addr /\ allocated \in Nat
      BY DEF Live, Inv, ChanTypeOK
  <2>2. QED
      BY <2>1 DEF Addr
<1> HIDE DEF s, f
<1>3. f \in Addr => s \in 1 .. f /\ ~heap[s].empty /\ (~heap[f].empty => s = f)
  <2>1. f \in Addr => f # NULL
      BY <1>2
  <2>2. QED
      BY <2>1, <1>1, LandingStops
<1>4. CASE e = head
  <2>1. f = NULL
      BY <1>4 DEF Inv, ChainIntact, f
  <2>2. QED
      BY <2>1, <1>1, <1>4 DEF s, f, Inv, ChainIntact
<1>5. CASE e \in Live \ {head}
  <2>1. f \in Live /\ f # tail /\ heap[f].next = e
    <3>1. f \in Live /\ heap[f].next = e /\ e # NULL
        BY <1>5, <1>2 DEF Inv, ChainIntact, f
    <3>2. QED
        BY <3>1 DEF Inv, ChainIntact
  <2>2. heap[e].displacement = heap[f].displacement + 1 /\ heap[f].displacement \in Nat
      BY <2>1, <1>2 DEF Inv, ChainIntact, ChanTypeOK, EventRec
  <2>3. ~heap[f].empty /\ f # e
      BY <2>1, <2>2 DEF Live
  <2>4. s = f
      BY <2>1, <2>3, <1>2, <1>3
  <2>5. QED
      BY <2>1, <2>3, <2>4, <1>2, <1>5 DEF s, f
<1>6. CASE e \in Addr \ Live
  <2>1. f \in Addr /\ (IF heap[e].empty THEN f < e ELSE f > e /\ ~heap[f].empty)
      BY <1>6 DEF Inv, ForcedTransitionsEnd, f
  <2>2. s # e /\ s \in Addr
      BY <2>1, <1>2, <1>3
  <2>3. e # head
      BY <1>6 DEF Inv, ChainIntact
  <2>4. QED
      BY <2>1, <2>2, <2>3, <1>3, <1>6 DEF s, f
<1>7. QED
    BY <1>4, <1>5, <1>6

\* n steps from event e, one after the other.
WalkFrom(e, n, link) ==
    LET Walk[i \in 0 .. n] == IF i = 0 THEN e ELSE Step(Walk[i - 1], link)
    IN  Walk

\* The recursion over the number of steps defines a function.
LEMMA WalkUnfolds ==
    ASSUME NEW e, NEW n \in Nat, NEW link
    PROVE  WalkFrom(e, n, link) =
             [i \in 0 .. n |-> IF i = 0 THEN e ELSE Step(WalkFrom(e, n, link)[i - 1], link)]
<1> DEFINE Upto(m, f) == f = [i \in 0 .. m |-> IF i = 0 THEN e ELSE Step(f[i - 1], link)]
           Bad == {m \in Nat : ~ \E f : Upto(m, f)}
<1>1. Bad = {}
  <2>1. SUFFICES ASSUME Bad # {} PROVE FALSE
      OBVIOUS
  <2>2. PICK m \in Bad : \A k \in Bad : m <= k
    <3>1. Bad \subseteq Nat
        OBVIOUS
    <3> HIDE DEF Bad
    <3>2. QED
        BY <2>1, <3>1, Least
  <2>3. m # 0
    <3>1. Upto(0, [i \in 0 .. 0 |-> e])
        OBVIOUS
    <3>2. QED
        BY <3>1
  <2>4. PICK f : Upto(m - 1, f)
    <3>1. m - 1 \in Nat /\ ~ (m <= m - 1)
        BY <2>3
    <3>2. QED
        BY <3>1, <2>2
  <2> DEFINE g == [i \in 0 .. m |-> IF i # m THEN f[i] ELSE Step(f[m - 1], link)]
  <2>5. ASSUME NEW i \in 0 .. m
        PROVE  g[i] = IF i = 0 THEN e ELSE Step(g[i - 1], link)
    <3>1. i # m => f[i] = IF i = 0 THEN e ELSE Step(f[i - 1], link)
        BY <2>4
    <3>2. QED
        BY <3>1, <2>3
  <2>6. Upto(m, g)
    <3>1. g = [i \in 0 .. m |-> g[i]]
        OBVIOUS
    <3> HIDE DEF g
    <3>2. QED
        BY <3>1, <2>5
  <2>7. QED
      BY <2>6
<1>2. \E f : Upto(n, f)
    BY <1>1
<1>3. WalkFrom(e, n, link) = CHOOSE f : Upto(n, f)
    BY DEF WalkFrom
<1>4. Upto(n, WalkFrom(e, n, link))
  <2> HIDE DEF Upto
  <2>1. QED
      BY <1>2, <1>3
<1>5. QED
    BY <1>4

\* A path that n single steps make.
IsPath(path, e, n, link) ==
    /\ n \in Nat /\ path[0] = e
    /\ \A i \in 1 .. n : path[i] = Step(path[i - 1], link)

\* A walk follows every such path.
LEMMA WalkFollows ==
    ASSUME NEW path, NEW e, NEW n, NEW link, IsPath(path, e, n, link)
    PROVE  \A i \in 0 .. n : WalkFrom(e, n, link)[i] = path[i]
<1> USE DEF IsPath
<1> DEFINE W == WalkFrom(e, n, link)
           Bad == {i \in 0 .. n : W[i] # path[i]}
<1>1. W = [i \in 0 .. n |-> IF i = 0 THEN e ELSE Step(W[i - 1], link)]
    BY WalkUnfolds
<1> HIDE DEF W
<1>2. Bad = {}
  <2>1. SUFFICES ASSUME Bad # {} PROVE FALSE
      OBVIOUS
  <2>2. PICK i \in Bad : \A k \in Bad : i <= k
    <3>1. Bad \subseteq Nat
        OBVIOUS
    <3> HIDE DEF Bad
    <3>2. QED
        BY <2>1, <3>1, Least
  <2>3. i # 0 /\ i \in 1 .. n
      BY <1>1
  <2>4. W[i - 1] = path[i - 1]
      BY <2>2, <2>3
  <2>5. W[i] = Step(W[i - 1], link)
      BY <1>1, <2>3
  <2>6. QED
      BY <2>3, <2>4, <2>5
<1>3. QED
    BY <1>2 DEF W

\* A walk stays in the heap.
LEMMA WalkStaysInHeap ==
    ASSUME Inv, NEW e \in Addr, NEW n \in Nat, NEW link \in {"next", "prev"}
    PROVE  \A i \in 0 .. n : WalkFrom(e, n, link)[i] \in Addr
<1> DEFINE W == WalkFrom(e, n, link)
           Bad == {i \in 0 .. n : W[i] \notin Addr}
<1>1. W = [i \in 0 .. n |-> IF i = 0 THEN e ELSE Step(W[i - 1], link)]
    BY WalkUnfolds
<1> HIDE DEF W
<1>2. Bad = {}
  <2>1. SUFFICES ASSUME Bad # {} PROVE FALSE
      OBVIOUS
  <2>2. PICK i \in Bad : \A k \in Bad : i <= k
    <3>1. Bad \subseteq Nat
        OBVIOUS
    <3> HIDE DEF Bad
    <3>2. QED
        BY <2>1, <3>1, Least
  <2>3. i # 0 /\ i \in 1 .. n
      BY <1>1
  <2>4. W[i - 1] \in Addr
      BY <2>2, <2>3
  <2>5. W[i] = Step(W[i - 1], link)
      BY <1>1, <2>3
  <2>6. QED
      BY <2>4, <2>5, StepNext, StepPrev
<1>3. QED
    BY <1>2 DEF W
=============================================================================
