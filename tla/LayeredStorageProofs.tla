------------------------ MODULE LayeredStorageProofs -------------------------
(***************************************************************************)
(* The layered storage, for any number of devices of any size, overlapping *)
(* in any way: to its owner it is one memory, undoing and redoing its      *)
(* deltas is exact, and a range holds no wrong byte.                       *)
(*                                                                         *)
(* Every step but an append leaves the devices where they were, so that an *)
(* address is answered by the device that answered it before, and a device *)
(* appended answers only where none did.  The open deltas hold one change  *)
(* for each byte a program wrote, from the value it had when the deltas    *)
(* began (or was given since) to the value it has, as long as no byte was  *)
(* touched twice; whatever is loaded or appended in between is no change.  *)
(*                                                                         *)
(* The spans of a range ascend and there is room between any two, so that  *)
(* one set makes at most two of them meet, and the merge drops at most one.*)
(***************************************************************************)
EXTENDS LayeredStorage, SequenceTheorems, TLAPS, WellFoundedInduction

\* What is a sequence, whatever its elements are.
Sequence(x) == x \in Seq(Range(x))

Fields == {"kind", "max", "wrap", "default", "cells", "spans", "delta"}

IsDevice(d) == Fields \subseteq DOMAIN d /\ Sequence(d.delta)
IsLayer(l) == {"at", "dev"} \subseteq DOMAIN l /\ l.at \in Nat /\ IsDevice(l.dev)

\* The layers are a sequence of devices, and a delta that can be applied is one of theirs.
LayersInv ==
    /\ max \in Nat /\ Sequence(layers) /\ touched \in Seq(Nat)
    /\ \A i \in DOMAIN layers : IsLayer(layers[i])
    /\ {"changes", "undone", "before", "after", "once"} \subseteq DOMAIN hand
    /\ hand.changes # << >> => /\ DOMAIN hand.changes = DOMAIN layers
                               /\ \A i \in DOMAIN layers : Sequence(hand.changes[i])

\* A device has other bytes, and is still the same device.
Same(d, e) ==
    /\ e.kind = d.kind /\ e.max = d.max /\ e.wrap = d.wrap
    /\ IsDevice(e)

\* The layers are where they were.
Kept ==
    /\ layers' = [i \in DOMAIN layers |-> layers'[i]]
    /\ \A i \in DOMAIN layers : IsLayer(layers'[i]) /\ layers'[i].at = layers[i].at

\* The byte a block or a map holds.
Get(d, o) == IF o \in DOMAIN d.cells THEN d.cells[o] ELSE d.default

-----------------------------------------------------------------------------
\* Induction, as the provers can use it: a nonempty set of naturals has a least element.
LEMMA Least ==
    ASSUME NEW T \in SUBSET Nat, T # {}
    PROVE  \E n \in T : \A m \in T : n <= m
  <1>. DEFINE R == {ss \in Nat \X Nat : ss[1] < ss[2]}
  <1>1. IsWellFoundedOn(R, Nat)
    BY NatLessThanWellFounded DEF OpToRel
  <1>2. PICK n \in T : \A m \in T : ~ (<<m, n>> \in R)
    <2>. HIDE DEF R
    <2>. QED
      BY <1>1, WFMin
  <1>3. ASSUME NEW m \in T PROVE n <= m
    <2>1. <<m, n>> \in R <=> m < n
      BY Zenon
    <2>. QED
      BY <2>1, <1>2
  <1>. QED
    BY <1>3

\* What holds at 0 and, with i - 1, at i, holds up to n.
LEMMA Upwards ==
    ASSUME NEW n \in Nat, NEW G, 0 \in G, \A i \in 1 .. n : i - 1 \in G => i \in G
    PROVE  0 .. n \subseteq G
  <1>. DEFINE Bad == {i \in 0 .. n : i \notin G}
  <1>. SUFFICES ASSUME Bad # {} PROVE FALSE
    OBVIOUS
  <1>1. PICK i \in Bad : \A j \in Bad : i <= j
    <2>1. Bad \subseteq Nat
      OBVIOUS
    <2>. HIDE DEF Bad
    <2>. QED
      BY <2>1, Least
  <1>2. i \in 1 .. n
    OBVIOUS
  <1>3. i - 1 \in 0 .. n /\ i - 1 \notin Bad
    <2>1. ~(i <= i - 1)
      BY <1>2
    <2>. HIDE DEF Bad
    <2>. QED
      BY <1>1, <1>2, <2>1
  <1>. QED
    BY <1>2, <1>3

LEMMA Sequences ==
    /\ \A S : \A x \in Seq(S) : Sequence(x)
    /\ \A x : Sequence(x) => DOMAIN x = 1 .. Len(x) /\ Len(x) \in Nat
    /\ \A n \in Nat : \A x : DOMAIN x = 1 .. n /\ x = [i \in DOMAIN x |-> x[i]] => Sequence(x) /\ Len(x) = n
    /\ Sequence(<< >>)
  <1>1. ASSUME NEW S, NEW x \in Seq(S) PROVE Sequence(x)
    <2>1. x \in [1 .. Len(x) -> S] /\ Len(x) \in Nat
      BY LenProperties
    <2>2. x \in [1 .. Len(x) -> Range(x)]
      BY <2>1 DEF Range
    <2>. QED
      BY <2>1, <2>2 DEF Sequence
  <1>2. ASSUME NEW n \in Nat, NEW x, DOMAIN x = 1 .. n, x = [i \in DOMAIN x |-> x[i]]
        PROVE  Sequence(x) /\ Len(x) = n
    <2>1. x \in [1 .. n -> Range(x)]
      BY <1>2 DEF Range
    <2>. QED
      BY <2>1 DEF Sequence
  <1>3. << >> \in Seq({})
    OBVIOUS
  <1>. QED
    BY <1>1, <1>2, <1>3 DEF Sequence

-----------------------------------------------------------------------------
(* Spans. *)

\* The value a span has at an offset.
At(s, p) == s.value[p - s.lower + 1]

\* A span is as long as its values.
IsSpan(s) ==
    /\ {"lower", "upper", "value"} \subseteq DOMAIN s
    /\ s.lower \in Nat /\ s.upper \in Nat /\ s.lower <= s.upper
    /\ DOMAIN s.value = 1 .. s.upper - s.lower + 1 /\ s.value = [i \in DOMAIN s.value |-> s.value[i]]

\* Spans are in ascending order, and there is room between them.
Ascending(spans) == \A i, j \in DOMAIN spans : i < j => spans[i].upper + 1 < spans[j].lower
SpansSound(spans) == Sequence(spans) /\ (\A i \in DOMAIN spans : IsSpan(spans[i])) /\ Ascending(spans)

\* All that is held is what was held before, but for v at o.
Holds(new, spans, o, v) ==
    \A i \in DOMAIN new, p \in Nat : In(new[i], p) =>
        \/ p = o /\ At(new[i], p) = v
        \/ p # o /\ \E j \in DOMAIN spans : In(spans[j], p) /\ At(new[i], p) = At(spans[j], p)

\* What is held at an offset is the value of the one span that holds it.
LEMMA SpanValueIs ==
    ASSUME NEW spans, SpansSound(spans), NEW i \in DOMAIN spans, NEW p \in Nat, In(spans[i], p)
    PROVE  SpanValue(spans, p) = At(spans[i], p) /\ p \in Covered(spans)
  <1>1. \A j \in DOMAIN spans : j \in Nat /\ spans[j].lower \in Nat /\ spans[j].upper \in Nat
    <2>1. DOMAIN spans = 1 .. Len(spans) /\ Len(spans) \in Nat
      BY Sequences DEF SpansSound
    <2>2. \A j \in DOMAIN spans : IsSpan(spans[j])
      BY DEF SpansSound
    <2>3. \A s : IsSpan(s) => s.lower \in Nat /\ s.upper \in Nat
      BY DEF IsSpan
    <2>. QED
      BY <2>1, <2>2, <2>3
  <1>2. ASSUME NEW j \in DOMAIN spans, In(spans[j], p) PROVE j = i
    <2>1. CASE i < j
      BY <1>1, <1>2, <2>1 DEF SpansSound, Ascending, In
    <2>2. CASE j < i
      BY <1>1, <1>2, <2>2 DEF SpansSound, Ascending, In
    <2>. QED
      BY <1>1, <2>1, <2>2
  <1>3. SpanAt(spans, p) = i
    BY <1>2 DEF SpanAt
  <1>4. p \in spans[i].lower .. spans[i].upper
    BY <1>1 DEF In
  <1>. QED
    BY <1>3, <1>4 DEF SpanValue, At, Covered

LEMMA CoveredIs ==
    ASSUME NEW spans, SpansSound(spans), NEW p \in Covered(spans)
    PROVE  p \in Nat /\ \E i \in DOMAIN spans : In(spans[i], p)
  <1>1. PICK i \in DOMAIN spans : p \in spans[i].lower .. spans[i].upper
    BY DEF Covered
  <1>2. spans[i].lower \in Nat /\ spans[i].upper \in Nat
    BY DEF SpansSound, IsSpan
  <1>. QED
    BY <1>1, <1>2 DEF In

\* A span after the first pass of set.
LEMMA AdjustedIs ==
    ASSUME NEW s, IsSpan(s), NEW o \in Nat, NEW v
    PROVE  LET t == Adjusted(s, o, v)
           IN  /\ IsSpan(t) /\ t.lower = s.lower
               /\ t.upper = IF o = s.upper + 1 THEN o ELSE s.upper
               /\ \A p \in Nat : In(t, p) =>
                     \/ p = o /\ At(t, p) = v
                     \/ p # o /\ In(s, p) /\ At(t, p) = At(s, p)
  <1>1. CASE In(s, o)
    <2>. DEFINE k == o - s.lower + 1
                t == [s EXCEPT !.value[k] = v]
    <2>1. k \in DOMAIN s.value /\ o # s.upper + 1
      BY <1>1 DEF IsSpan, In
    <2>2. Adjusted(s, o, v) = t
      BY <1>1 DEF Adjusted
    <2>. DEFINE w == [s.value EXCEPT ![k] = v]
    <2>3. w[k] = v /\ DOMAIN w = DOMAIN s.value /\ w = [i \in DOMAIN w |-> w[i]]
          /\ \A i \in DOMAIN s.value : i # k => w[i] = s.value[i]
      BY <2>1
    <2>4. t = [s EXCEPT !.value = w]
      OBVIOUS
    <2>. HIDE DEF w, t
    <2>5. t.value = w /\ t.lower = s.lower /\ t.upper = s.upper /\ DOMAIN t = DOMAIN s
      BY <2>4 DEF IsSpan
    <2>6. IsSpan(t)
      BY <2>3, <2>5 DEF IsSpan
    <2>7. ASSUME NEW p \in Nat, In(t, p), p # o PROVE In(s, p) /\ At(t, p) = At(s, p)
      <3>1. p - s.lower + 1 \in DOMAIN s.value /\ p - s.lower + 1 # k
        BY <2>5, <2>7 DEF IsSpan, In
      <3>. QED
        BY <2>3, <2>5, <2>7, <3>1 DEF At, In
    <2>8. At(t, o) = v
      BY <2>3, <2>5 DEF At
    <2>9. \A p \in Nat : In(t, p) => \/ p = o /\ At(t, p) = v
                                     \/ p # o /\ In(s, p) /\ At(t, p) = At(s, p)
      BY <2>7, <2>8
    <2>. QED
      BY <2>1, <2>2, <2>5, <2>6, <2>9
  <1>2. CASE ~In(s, o) /\ o = s.upper + 1
    <2>. DEFINE n == s.upper - s.lower + 1
                w == Append(s.value, v)
                t == [s EXCEPT !.upper = o, !.value = w]
    <2>1. Adjusted(s, o, v) = t
      BY <1>2 DEF Adjusted
    <2>2. n \in Nat /\ s.value \in Seq(Range(s.value) \cup {v}) /\ Len(s.value) = n
      <3>1. n \in Nat
        BY DEF IsSpan
      <3>2. Sequence(s.value) /\ Len(s.value) = n
        BY <3>1, Sequences DEF IsSpan
      <3>. QED
        BY <3>1, <3>2, SeqMonotonic DEF Sequence
    <2>3. /\ DOMAIN w = 1 .. n + 1 /\ w[n + 1] = v
          /\ \A i \in 1 .. n : w[i] = s.value[i]
          /\ w = [i \in DOMAIN w |-> w[i]]
      <3>1. v \in Range(s.value) \cup {v}
        OBVIOUS
      <3>2. w \in Seq(Range(s.value) \cup {v}) /\ Len(w) = n + 1 /\ w[n + 1] = v
            /\ \A i \in 1 .. n : w[i] = s.value[i]
        BY <2>2, <3>1, AppendProperties
      <3>3. DOMAIN w = 1 .. n + 1 /\ w \in [1 .. n + 1 -> Range(s.value) \cup {v}]
        BY <3>2, LenProperties
      <3>. QED
        BY <3>2, <3>3
    <2>. HIDE DEF w, t, n
    <2>4. t.value = w /\ t.lower = s.lower /\ t.upper = o /\ DOMAIN t = DOMAIN s
      BY DEF IsSpan, t
    <2>5. n + 1 = o - s.lower + 1
      BY <1>2 DEF IsSpan, n
    <2>6. IsSpan(t)
      BY <1>2, <2>3, <2>4, <2>5 DEF IsSpan
    <2>7. At(t, o) = v
      BY <2>3, <2>4, <2>5 DEF At
    <2>8. ASSUME NEW p \in Nat, In(t, p), p # o PROVE In(s, p) /\ At(t, p) = At(s, p)
      <3>1. In(s, p) /\ p - s.lower + 1 \in 1 .. n
        BY <1>2, <2>4, <2>8 DEF IsSpan, In, n
      <3>. QED
        BY <2>3, <2>4, <3>1 DEF At
    <2>9. \A p \in Nat : In(t, p) => \/ p = o /\ At(t, p) = v
                                     \/ p # o /\ In(s, p) /\ At(t, p) = At(s, p)
      BY <2>7, <2>8
    <2>. QED
      BY <1>2, <2>1, <2>4, <2>6, <2>9
  <1>3. CASE ~In(s, o) /\ o # s.upper + 1
    BY <1>3 DEF Adjusted
  <1>. QED
    BY <1>1, <1>2, <1>3

\* The merge pass where only the span k can meet the one after it.
LEMMA MergedIs ==
    ASSUME NEW t, Sequence(t), \A i \in DOMAIN t : IsSpan(t[i]),
           NEW k \in DOMAIN t,
           \A i, j \in DOMAIN t : i < j /\ ~(i = k /\ j = k + 1) => t[i].upper + 1 < t[j].lower,
           k + 1 \in DOMAIN t => t[k].upper < t[k + 1].lower
    PROVE  /\ Sequence(Merged(t)) /\ Ascending(Merged(t))
           /\ \E i \in DOMAIN Merged(t) : Merged(t)[i] = t[k]
           /\ \A i \in DOMAIN Merged(t) : \E j \in DOMAIN t : Merged(t)[i] = t[j]
  <1>. DEFINE n == Len(t)
              meets == k + 1 \in DOMAIN t /\ t[k].upper + 1 = t[k + 1].lower
              \* The span at position i of what the pass gives.
              from(i) == IF meets /\ i > k THEN i + 1 ELSE i
              size(m) == IF meets /\ m > k THEN m - 1 ELSE m
              next(g, m) ==
                  IF m = 0 THEN [out |-> << >>, erased |-> FALSE]
                  ELSE IF g[m - 1].out # << >> /\ ~g[m - 1].erased /\ Last(g[m - 1].out).upper + 1 = t[m].lower
                       THEN [out |-> g[m - 1].out, erased |-> TRUE]
                       ELSE [out |-> Append(g[m - 1].out, t[m]), erased |-> FALSE]
              Is(g) == g = [m \in 0 .. n |-> next(g, m)]
              L == CHOOSE g : Is(g)
              Right(r, m) ==
                  /\ r.out \in Seq(Range(t)) /\ Len(r.out) = size(m)
                  /\ \A i \in 1 .. size(m) : r.out[i] = t[from(i)]
                  /\ meets /\ m = k + 1 => r.erased = TRUE
                  /\ ~(meets /\ m = k + 1) => r.erased = FALSE
              Begun == {m \in 0 .. n : \E g : g = [i \in 0 .. m |-> next(g, i)]}
              Good == {m \in 0 .. n : Right(L[m], m)}
  <1>1. Merged(t) = L[n].out
    BY DEF Merged
  <1>2. n \in Nat /\ DOMAIN t = 1 .. n /\ k \in 1 .. n /\ t \in Seq(Range(t))
    BY Sequences DEF Sequence
  <1>. HIDE DEF n
  <1>3. n \in Begun
    <2>1. 0 \in Begun
      <3>. DEFINE g == [m \in 0 .. 0 |-> [out |-> << >>, erased |-> FALSE]]
      <3>1. g = [m \in 0 .. 0 |-> next(g, m)]
        OBVIOUS
      <3>. HIDE DEF g, next
      <3>. QED
        BY <1>2, <3>1
    <2>2. ASSUME NEW i \in 1 .. n, i - 1 \in Begun
          PROVE  i \in Begun
      <3>1. PICK g : g = [m \in 0 .. i - 1 |-> next(g, m)]
        BY <2>2
      <3>. DEFINE h == [m \in 0 .. i |-> IF m = i THEN next(g, i) ELSE g[m]]
      <3>2. \A m \in 0 .. i - 1 : g[m] = next(g, m)
        <4>. HIDE DEF next
        <4>. QED
          BY <3>1
      <3>3. ASSUME NEW m \in 0 .. i
            PROVE  h[m] = next(h, m)
        <4>1. m # 0 => h[m - 1] = g[m - 1]
          OBVIOUS
        <4>. HIDE DEF h
        <4>2. next(h, m) = next(g, m)
          BY <4>1
        <4>. HIDE DEF next
        <4>3. m # i => g[m] = next(g, m)
          BY <1>2, <3>2
        <4>. QED
          BY <4>2, <4>3 DEF h
      <3>4. h = [m \in 0 .. i |-> next(h, m)]
        <4>. HIDE DEF next
        <4>. QED
          BY <3>3
      <3>. HIDE DEF h, next
      <3>. QED
        BY <1>2, <3>4
    <2>. HIDE DEF Begun
    <2>3. 0 .. n \subseteq Begun
      BY <1>2, <2>1, <2>2, Upwards, Zenon
    <2>. QED
      BY <1>2, <2>3
  <1>4. Is(L)
    <2>1. \E g : Is(g)
      BY <1>3
    <2>. HIDE DEF Is
    <2>. QED
      BY <2>1
  <1>. HIDE DEF L
  <1>5. \A m \in 0 .. n : L[m] = next(L, m)
    <2>. HIDE DEF next
    <2>. QED
      BY <1>4
  <1>. HIDE DEF next
  <1>14. /\ meets => k + 1 \in 1 .. n /\ t[k].upper + 1 = t[k + 1].lower
         /\ ~meets /\ k + 1 \in 1 .. n => t[k].upper + 1 # t[k + 1].lower
    BY <1>2
  <1>. HIDE DEF meets
  <1>6. \A i \in 1 .. n : /\ t[i].lower \in Nat /\ t[i].upper \in Nat
                          /\ t[i] \in Range(t)
    BY <1>2 DEF IsSpan, Range
  <1>15. \A m \in 0 .. n : size(m) \in Nat /\ size(0) = 0
    BY <1>2
  <1>16. \A m \in 1 .. n : IF meets /\ m = k + 1
                           THEN size(m - 1) = k /\ size(m) = k /\ from(k) = k
                           ELSE size(m) = size(m - 1) + 1 /\ from(size(m)) = m
    BY <1>2
  <1>17. \A m \in 1 .. n : size(m - 1) > 0 /\ ~(meets /\ m - 1 = k + 1) => m - 1 \in 1 .. n /\ from(size(m - 1)) = m - 1
    BY <1>2
  <1>10. \A i \in 1 .. size(n) : from(i) \in 1 .. n /\ ~(from(i) = k + 1 /\ meets)
    BY <1>2
  <1>11. \A i, j \in 1 .. size(n) : i < j => from(i) < from(j)
    BY <1>2
  <1>12. k \in 1 .. size(n) /\ from(k) = k
    BY <1>2
  <1>. HIDE DEF size, from
  <1>7. n \in Good
    <2>1. 0 \in Good
      <3>1. L[0] = [out |-> << >>, erased |-> FALSE]
        <4>1. L[0] = next(L, 0)
          BY <1>2, <1>5
        <4>. QED
          BY <4>1 DEF next
      <3>2. size(0) = 0 /\ ~(0 = k + 1) /\ 0 \in 0 .. n
        BY <1>2, <1>15
      <3>3. L[0].out \in Seq(Range(t)) /\ Len(L[0].out) = 0 /\ L[0].erased = FALSE
        BY <3>1
      <3>4. \A i \in 1 .. 0 : FALSE
        OBVIOUS
      <3>5. Right(L[0], 0)
        <4>. HIDE DEF L
        <4>. QED
          BY <3>2, <3>3, <3>4
      <3>. HIDE DEF Right
      <3>. QED
        BY <3>2, <3>5
    <2>2. ASSUME NEW m \in 1 .. n, m - 1 \in Good
          PROVE  m \in Good
      <3>. DEFINE r == L[m - 1]
      <3>1. L[m] = IF r.out # << >> /\ ~r.erased /\ Last(r.out).upper + 1 = t[m].lower
                   THEN [out |-> r.out, erased |-> TRUE]
                   ELSE [out |-> Append(r.out, t[m]), erased |-> FALSE]
        <4>1. L[m] = next(L, m) /\ m # 0
          BY <1>2, <1>5
        <4>. QED
          BY <4>1 DEF next
      <3>2. Right(r, m - 1)
        <4>. HIDE DEF Right
        <4>. QED
          BY <2>2
      <3>. HIDE DEF r
      <3>21. r.out \in Seq(Range(t)) /\ Len(r.out) = size(m - 1)
        BY <3>2
      <3>22. \A i \in 1 .. size(m - 1) : r.out[i] = t[from(i)]
        BY <3>2
      <3>23. /\ meets /\ m - 1 = k + 1 => r.erased = TRUE
             /\ ~(meets /\ m - 1 = k + 1) => r.erased = FALSE
        BY <3>2
      <3>. HIDE DEF Right
      <3>3. size(m - 1) \in Nat /\ size(m) \in Nat /\ m - 1 \in 0 .. n /\ m \in 0 .. n
        BY <1>2, <1>15
      <3>24. r.out # << >> => size(m - 1) > 0 /\ Last(r.out) = t[from(size(m - 1))]
        <4>1. r.out # << >> => size(m - 1) > 0
          BY <3>3, <3>21
        <4>2. Last(r.out) = r.out[size(m - 1)]
          BY <3>21 DEF Last
        <4>. QED
          BY <3>3, <3>22, <4>1, <4>2
      <3>. SUFFICES Right(L[m], m)
        BY <3>3
      <3>4. CASE meets /\ m = k + 1
        <4>1. size(m - 1) = k /\ size(m) = k /\ from(k) = k
          BY <1>16, <3>4
        <4>2. r.out # << >> /\ r.erased = FALSE
          BY <1>2, <3>4, <3>21, <3>23, <4>1
        <4>3. Last(r.out).upper + 1 = t[m].lower
          BY <1>14, <3>4, <3>24, <4>1, <4>2
        <4>4. L[m] = [out |-> r.out, erased |-> TRUE]
          BY <3>1, <4>2, <4>3
        <4>5. L[m].out = r.out /\ L[m].erased = TRUE
          BY <4>4
        <4>6. size(m) = size(m - 1)
          BY <4>1
        <4>. QED
          BY <3>4, <3>21, <3>22, <4>5, <4>6 DEF Right
      <3>5. CASE ~(meets /\ m = k + 1)
        <4>1. size(m) = size(m - 1) + 1 /\ from(size(m)) = m
          BY <1>16, <3>5
        <4>2. L[m] = [out |-> Append(r.out, t[m]), erased |-> FALSE]
          <5>1. CASE r.out = << >> \/ r.erased
            BY <3>1, <5>1
          <5>2. CASE r.out # << >> /\ ~r.erased
            <6>1. ~(meets /\ m - 1 = k + 1)
              BY <3>23, <5>2
            <6>2. Last(r.out) = t[m - 1] /\ m - 1 \in 1 .. n
              BY <1>17, <3>24, <5>2, <6>1
            <6>3. t[m - 1].upper + 1 # t[m].lower
              <7>1. CASE m = k + 1
                BY <1>2, <1>14, <3>5, <7>1
              <7>2. CASE m # k + 1
                <8>1. m - 1 < m /\ m - 1 # k /\ m - 1 \in DOMAIN t /\ m \in DOMAIN t
                  BY <1>2, <6>2, <7>2
                <8>2. t[m - 1].upper + 1 < t[m].lower
                  BY <8>1
                <8>. QED
                  BY <1>6, <6>2, <8>2
              <7>. QED
                BY <7>1, <7>2
            <6>. QED
              BY <3>1, <6>2, <6>3
          <5>. QED
            BY <5>1, <5>2
        <4>. DEFINE w == Append(r.out, t[m])
        <4>3. /\ w \in Seq(Range(t)) /\ Len(w) = size(m) /\ w[size(m)] = t[m]
              /\ \A i \in 1 .. size(m - 1) : w[i] = r.out[i]
          BY <1>6, <3>21, <3>3, <4>1, AppendProperties
        <4>. HIDE DEF w
        <4>4. \A i \in 1 .. size(m) : i \in 1 .. size(m - 1) \/ i = size(m)
          BY <3>3, <4>1
        <4>5. \A i \in 1 .. size(m) : w[i] = t[from(i)]
          BY <3>22, <4>1, <4>3, <4>4
        <4>6. L[m].out = w /\ L[m].erased = FALSE
          BY <4>2 DEF w
        <4>. QED
          BY <3>5, <4>3, <4>5, <4>6 DEF Right
      <3>. QED
        BY <3>4, <3>5
    <2>. HIDE DEF Good
    <2>3. 0 .. n \subseteq Good
      BY <1>2, <2>1, <2>2, Upwards, Zenon
    <2>. QED
      BY <1>2, <2>3
  <1>. HIDE DEF next
  <1>. DEFINE new == Merged(t)
  <1>8. new \in Seq(Range(t)) /\ Len(new) = size(n) /\ \A i \in 1 .. size(n) : new[i] = t[from(i)]
    BY <1>1, <1>7
  <1>. HIDE DEF new
  <1>9. size(n) \in Nat /\ DOMAIN new = 1 .. size(n) /\ Sequence(new)
    BY <1>2, <1>8, LenProperties, Sequences
  <1>13. Ascending(new)
    <2>. SUFFICES ASSUME NEW i \in 1 .. size(n), NEW j \in 1 .. size(n), i < j
                  PROVE  t[from(i)].upper + 1 < t[from(j)].lower
      BY <1>8, <1>9 DEF Ascending
    <2>1. from(i) \in 1 .. n /\ from(j) \in 1 .. n /\ from(i) < from(j)
      BY <1>10, <1>11
    <2>2. CASE from(i) = k /\ from(j) = k + 1
      <3>1. ~meets
        BY <1>10, <2>2
      <3>2. t[k].upper + 1 # t[k + 1].lower /\ k + 1 \in DOMAIN t
        BY <1>2, <1>14, <2>1, <2>2, <3>1
      <3>3. t[k].upper < t[k + 1].lower
        BY <3>2
      <3>. QED
        BY <1>6, <2>1, <2>2, <3>2, <3>3
    <2>3. CASE ~(from(i) = k /\ from(j) = k + 1)
      BY <1>2, <2>1, <2>3
    <2>. QED
      BY <2>2, <2>3
  <1>. QED
    BY <1>2, <1>8, <1>9, <1>10, <1>12, <1>13 DEF new

\* What is held in the result of set, read from the spans it is made of.
SetRight(new, spans, o, v) ==
    /\ SpansSound(new) /\ Holds(new, spans, o, v)
    /\ \E i \in DOMAIN new : In(new[i], o) /\ At(new[i], o) = v

LEMMA SpansAre ==
    ASSUME NEW spans, SpansSound(spans)
    PROVE  /\ Len(spans) \in Nat /\ DOMAIN spans = 1 .. Len(spans)
           /\ \A i \in DOMAIN spans : IsSpan(spans[i]) /\ spans[i].lower \in Nat /\ spans[i].upper \in Nat
                                      /\ spans[i].lower <= spans[i].upper
           /\ \A i, j \in DOMAIN spans : i < j => spans[i].upper + 1 < spans[j].lower
  <1>1. Sequence(spans) /\ (\A i \in DOMAIN spans : IsSpan(spans[i])) /\ Ascending(spans)
    BY DEF SpansSound
  <1>2. \A s : IsSpan(s) => s.lower \in Nat /\ s.upper \in Nat /\ s.lower <= s.upper
    BY DEF IsSpan
  <1>. QED
    BY <1>1, <1>2, Sequences DEF Ascending

\* A byte inside a span is changed in place.
LEMMA SetInsideIs ==
    ASSUME NEW spans, SpansSound(spans), NEW o \in Nat, NEW v,
           \A i \in DOMAIN spans : o # spans[i].upper + 1,
           \E i \in DOMAIN spans : In(spans[i], o)
    PROVE  SetRight(SetInSpans(spans, o, v), spans, o, v)
  <1>. DEFINE n == Len(spans)
              t == [i \in DOMAIN spans |-> Adjusted(spans[i], o, v)]
  <1>1. SetInSpans(spans, o, v) = t
    BY DEF SetInSpans
  <1>2. \A i \in 1 .. n : /\ IsSpan(t[i]) /\ t[i].lower = spans[i].lower /\ t[i].upper = spans[i].upper
                          /\ \A p \in Nat : In(t[i], p) =>
                                \/ p = o /\ At(t[i], p) = v
                                \/ p # o /\ In(spans[i], p) /\ At(t[i], p) = At(spans[i], p)
    BY SpansAre, AdjustedIs
  <1>3. DOMAIN t = 1 .. n /\ DOMAIN spans = 1 .. n /\ n \in Nat
    BY SpansAre
  <1>4. t = [i \in DOMAIN t |-> t[i]]
    OBVIOUS
  <1>. HIDE DEF t, n
  <1>5. Sequence(t)
    BY <1>3, <1>4, Sequences
  <1>6. SpansSound(t)
    <2>1. Ascending(t)
      BY <1>2, <1>3, SpansAre DEF Ascending
    <2>. QED
      BY <1>2, <1>3, <1>5, <2>1 DEF SpansSound
  <1>7. Holds(t, spans, o, v)
    BY <1>2, <1>3 DEF Holds
  <1>8. PICK i \in 1 .. n : In(spans[i], o)
    BY <1>3
  <1>9. In(t[i], o) /\ At(t[i], o) = v
    <2>1. In(t[i], o)
      BY <1>2, <1>8 DEF In
    <2>. QED
      BY <1>2, <2>1
  <1>. QED
    BY <1>1, <1>3, <1>6, <1>7, <1>9 DEF SetRight

\* A byte right after a span extends it.
LEMMA SetBehindIs ==
    ASSUME NEW spans, SpansSound(spans), NEW o \in Nat, NEW v,
           NEW k \in DOMAIN spans, o = spans[k].upper + 1
    PROVE  SetRight(SetInSpans(spans, o, v), spans, o, v)
  <1>. DEFINE n == Len(spans)
              t == [i \in DOMAIN spans |-> Adjusted(spans[i], o, v)]
              new == Merged(t)
  <1>1. SetInSpans(spans, o, v) = new
    BY DEF SetInSpans
  <1>3. DOMAIN t = 1 .. n /\ DOMAIN spans = 1 .. n /\ n \in Nat /\ k \in 1 .. n
    BY SpansAre
  <1>2. \A i \in 1 .. n : /\ IsSpan(t[i]) /\ t[i].lower = spans[i].lower
                          /\ t[i].upper = IF o = spans[i].upper + 1 THEN o ELSE spans[i].upper
                          /\ \A p \in Nat : In(t[i], p) =>
                                \/ p = o /\ At(t[i], p) = v
                                \/ p # o /\ In(spans[i], p) /\ At(t[i], p) = At(spans[i], p)
    BY SpansAre, AdjustedIs
  <1>4. t = [i \in DOMAIN t |-> t[i]]
    OBVIOUS
  <1>. HIDE DEF t
  <1>5. Sequence(t)
    BY <1>3, <1>4, Sequences
  <1>. HIDE DEF n
  <1>6. \A i \in 1 .. n : /\ spans[i].lower \in Nat /\ spans[i].upper \in Nat /\ spans[i].lower <= spans[i].upper
                          /\ \A j \in 1 .. n : i < j => spans[i].upper + 1 < spans[j].lower
    BY <1>3, SpansAre
  <1>7. \A i \in 1 .. n : i # k => o # spans[i].upper + 1
    <2>1. ASSUME NEW i \in 1 .. n, i < k PROVE o # spans[i].upper + 1
      <3>1. spans[i].upper + 1 < spans[k].lower /\ spans[k].lower <= spans[k].upper
        BY <1>3, <1>6, <2>1
      <3>. QED
        BY <1>3, <1>6, <3>1
    <2>2. ASSUME NEW i \in 1 .. n, k < i PROVE o # spans[i].upper + 1
      <3>1. spans[k].upper + 1 < spans[i].lower /\ spans[i].lower <= spans[i].upper
        BY <1>3, <1>6, <2>2
      <3>. QED
        BY <1>3, <1>6, <3>1
    <2>. QED
      BY <1>3, <2>1, <2>2
  <1>8. ASSUME NEW i \in 1 .. n, NEW j \in 1 .. n, i < j, ~(i = k /\ j = k + 1)
        PROVE  t[i].upper + 1 < t[j].lower
    <2>1. t[j].lower = spans[j].lower /\ spans[i].upper + 1 < spans[j].lower
      BY <1>2, <1>6, <1>8
    <2>2. CASE i # k
      BY <1>2, <1>7, <2>1, <2>2
    <2>3. CASE i = k
      <3>1. k + 1 \in 1 .. n /\ k < k + 1 /\ k + 1 < j
        BY <1>3, <1>8, <2>3
      <3>2. /\ spans[k].upper + 1 < spans[k + 1].lower
            /\ spans[k + 1].lower <= spans[k + 1].upper
            /\ spans[k + 1].upper + 1 < spans[j].lower
        BY <1>3, <1>6, <3>1
      <3>3. t[k].upper = o
        BY <1>2, <1>3
      <3>. QED
        BY <1>3, <1>6, <2>1, <2>3, <3>1, <3>2, <3>3
    <2>. QED
      BY <2>2, <2>3
  <1>9. k + 1 \in DOMAIN t => t[k].upper < t[k + 1].lower
    <2>. SUFFICES ASSUME k + 1 \in 1 .. n PROVE t[k].upper < t[k + 1].lower
      BY <1>3
    <2>1. spans[k].upper + 1 < spans[k + 1].lower
      BY <1>3, <1>6
    <2>. QED
      BY <1>2, <1>3, <2>1
  <1>10. /\ Sequence(new) /\ Ascending(new)
         /\ \E i \in DOMAIN new : new[i] = t[k]
         /\ \A i \in DOMAIN new : \E j \in DOMAIN t : new[i] = t[j]
    <2>1. k \in DOMAIN t /\ \A i \in DOMAIN t : IsSpan(t[i])
      BY <1>2, <1>3
    <2>2. \A i, j \in DOMAIN t : i < j /\ ~(i = k /\ j = k + 1) => t[i].upper + 1 < t[j].lower
      BY <1>3, <1>8
    <2>. QED
      BY <1>5, <1>9, <2>1, <2>2, MergedIs
  <1>. HIDE DEF new
  <1>11. SpansSound(new)
    BY <1>2, <1>3, <1>10 DEF SpansSound
  <1>12. Holds(new, spans, o, v)
    BY <1>2, <1>3, <1>10 DEF Holds
  <1>13. In(t[k], o) /\ At(t[k], o) = v
    <2>1. In(t[k], o)
      BY <1>2, <1>3, <1>6 DEF In
    <2>. QED
      BY <1>2, <1>3, <2>1
  <1>. QED
    BY <1>1, <1>10, <1>11, <1>12, <1>13 DEF SetRight

\* The spans with one more can be put in order.
LEMMA SortedIs ==
    ASSUME NEW spans, SpansSound(spans), NEW s, IsSpan(s),
           \A i \in DOMAIN spans : spans[i].lower # s.lower
    PROVE  LET p == Append(spans, s)
               t == Sorted(p)
           IN  /\ Sequence(t) /\ DOMAIN t = 1 .. Len(spans) + 1
               /\ \A i \in DOMAIN t : t[i] = s \/ \E j \in DOMAIN spans : t[i] = spans[j]
               /\ \E i \in DOMAIN t : t[i] = s
               /\ \A i, j \in DOMAIN t : i < j => t[i].lower < t[j].lower
  <1>. DEFINE n == Len(spans)
              p == Append(spans, s)
              InOrder(t) == /\ t \in [DOMAIN p -> Range(p)] /\ Range(t) = Range(p)
                            /\ \A i, j \in DOMAIN t : i < j => t[i].lower < t[j].lower
              t == Sorted(p)
              w(k) == [i \in 1 .. n + 1 |-> IF i < k THEN spans[i] ELSE IF i = k THEN s ELSE spans[i - 1]]
              After == {i \in 1 .. n + 1 : i = n + 1 \/ s.lower < spans[i].lower}
  <1>1. n \in Nat /\ DOMAIN spans = 1 .. n
    BY SpansAre
  <1>2. /\ DOMAIN p = 1 .. n + 1 /\ p[n + 1] = s /\ \A i \in 1 .. n : p[i] = spans[i]
    <2>1. spans \in Seq(Range(spans) \cup {s}) /\ s \in Range(spans) \cup {s}
      BY SeqMonotonic DEF SpansSound, Sequence
    <2>. QED
      BY <1>1, <2>1, AppendProperties, LenProperties
  <1>3. \A i \in 1 .. n : /\ spans[i].lower \in Nat /\ spans[i].upper \in Nat /\ spans[i].lower <= spans[i].upper
                          /\ \A j \in 1 .. n : i < j => spans[i].upper + 1 < spans[j].lower
    BY <1>1, SpansAre
  <1>4. s.lower \in Nat /\ \A i \in 1 .. n : spans[i].lower # s.lower
    BY <1>1 DEF IsSpan
  <1>. HIDE DEF p, n
  <1>5. PICK k \in 1 .. n + 1 : /\ k = n + 1 \/ s.lower < spans[k].lower
                                /\ \A i \in 1 .. n + 1 : i < k => i # n + 1 /\ ~(s.lower < spans[i].lower)
    <2>1. After \in SUBSET Nat /\ n + 1 \in After
      BY <1>1
    <2>2. PICK k \in After : \A m \in After : k <= m
      <3>. HIDE DEF After
      <3>. QED
        BY <2>1, Least
    <2>3. ASSUME NEW i \in 1 .. n + 1, i < k PROVE i \notin After
      <3>1. ~(k <= i)
        BY <1>1, <2>3
      <3>. HIDE DEF After
      <3>. QED
        BY <2>2, <3>1
    <2>. QED
      BY <2>2, <2>3
  <1>6. InOrder(w(k))
    <2>1. \A i \in 1 .. n + 1 : /\ i < k => w(k)[i] = spans[i] /\ i \in 1 .. n
                                /\ i = k => w(k)[i] = s
                                /\ i > k => w(k)[i] = spans[i - 1] /\ i - 1 \in 1 .. n
      BY <1>1, <1>5
    <2>2. DOMAIN w(k) = 1 .. n + 1 /\ w(k) = [i \in 1 .. n + 1 |-> w(k)[i]]
      OBVIOUS
    <2>. DEFINE x == w(k)
    <2>. HIDE DEF w
    <2>3. \A i \in 1 .. n + 1 : x[i] \in Range(p)
      <3>1. \A i \in 1 .. n + 1 : p[i] \in Range(p)
        BY <1>2 DEF Range
      <3>2. s \in Range(p) /\ \A i \in 1 .. n : spans[i] \in Range(p)
        BY <1>1, <1>2, <3>1
      <3>. QED
        BY <1>1, <1>5, <2>1, <3>2
    <2>4. \A i \in 1 .. n + 1 : p[i] \in Range(x)
      <3>1. ASSUME NEW i \in 1 .. n, i < k PROVE spans[i] \in Range(x)
        BY <1>1, <2>1, <2>2, <3>1 DEF Range
      <3>2. ASSUME NEW i \in 1 .. n, k <= i PROVE spans[i] \in Range(x)
        <4>1. i + 1 \in 1 .. n + 1 /\ i + 1 > k /\ i + 1 - 1 = i
          BY <1>1, <3>2
        <4>2. x[i + 1] = spans[i]
          BY <2>1, <4>1
        <4>. QED
          BY <2>2, <4>1, <4>2 DEF Range
      <3>3. s \in Range(x)
        BY <2>1, <2>2 DEF Range
      <3>4. \A i \in 1 .. n : i < k \/ k <= i
        BY <1>1
      <3>5. \A i \in 1 .. n + 1 : i = n + 1 \/ i \in 1 .. n
        BY <1>1
      <3>. QED
        BY <1>2, <3>1, <3>2, <3>3, <3>4, <3>5
    <2>5. Range(x) = Range(p)
      BY <1>2, <2>2, <2>3, <2>4 DEF Range
    <2>6. ASSUME NEW i \in 1 .. n + 1, NEW j \in 1 .. n + 1, i < j
          PROVE  x[i].lower < x[j].lower
      <3>1. \A a, b \in 1 .. n : a < b => spans[a].lower < spans[b].lower
        BY <1>3
      <3>2. ASSUME NEW a \in 1 .. n, a < k PROVE spans[a].lower < s.lower
        BY <1>1, <1>3, <1>4, <1>5, <3>2
      <3>3. ASSUME NEW a \in 1 .. n, k <= a PROVE s.lower < spans[a].lower
        <4>1. k \in 1 .. n /\ s.lower < spans[k].lower
          BY <1>1, <1>5, <3>3
        <4>2. k = a \/ spans[k].lower < spans[a].lower
          BY <1>1, <3>1, <3>3, <4>1
        <4>. QED
          BY <1>3, <1>4, <4>1, <4>2
      <3>4. CASE j < k
        <4>1. i < k
          BY <1>1, <2>6, <3>4
        <4>. QED
          BY <2>1, <2>6, <3>1, <3>4, <4>1
      <3>5. CASE j = k
        BY <2>1, <2>6, <3>2, <3>5
      <3>6. CASE j > k /\ i < k
        <4>1. spans[i].lower < s.lower /\ s.lower < spans[j - 1].lower
          BY <1>1, <2>1, <3>2, <3>3, <3>6
        <4>. QED
          BY <1>3, <1>4, <2>1, <3>6, <4>1
      <3>7. CASE j > k /\ i = k
        BY <1>1, <2>1, <3>3, <3>7
      <3>8. CASE j > k /\ i > k
        <4>1. i - 1 < j - 1
          BY <2>6
        <4>. QED
          BY <2>1, <3>1, <3>8, <4>1
      <3>. QED
        BY <1>1, <3>4, <3>5, <3>6, <3>7, <3>8
    <2>. QED
      BY <1>2, <2>2, <2>3, <2>5, <2>6
  <1>7. InOrder(t)
    <2>1. \E x : InOrder(x)
      BY <1>6
    <2>2. t = CHOOSE x : InOrder(x)
      BY DEF Sorted
    <2>. HIDE DEF InOrder, t
    <2>. QED
      BY <2>1, <2>2
  <1>. HIDE DEF t
  <1>8. Sequence(t) /\ DOMAIN t = 1 .. n + 1
    <2>1. DOMAIN t = 1 .. n + 1 /\ t = [i \in DOMAIN t |-> t[i]]
      BY <1>2, <1>7
    <2>. QED
      BY <1>1, <2>1, Sequences
  <1>9. \A x : x \in Range(p) => x = s \/ \E j \in DOMAIN spans : x = spans[j]
    <2>1. \A i \in 1 .. n + 1 : i = n + 1 \/ i \in 1 .. n
      BY <1>1
    <2>. QED
      BY <1>1, <1>2, <2>1 DEF Range
  <1>10. s \in Range(t)
    <2>1. s \in Range(p)
      <3>1. n + 1 \in DOMAIN p /\ p[n + 1] = s
        BY <1>1, <1>2
      <3>. QED
        BY <3>1 DEF Range
    <2>2. Range(t) = Range(p)
      BY <1>7
    <2>. QED
      BY <2>1, <2>2
  <1>11. \E i \in DOMAIN t : t[i] = s
    BY <1>10 DEF Range
  <1>. QED
    BY <1>7, <1>8, <1>9, <1>11 DEF t, n, p

\* A byte that meets no span gets one of its own.
LEMMA SetApartIs ==
    ASSUME NEW spans, SpansSound(spans), NEW o \in Nat, NEW v,
           \A i \in DOMAIN spans : o # spans[i].upper + 1 /\ ~In(spans[i], o)
    PROVE  SetRight(SetInSpans(spans, o, v), spans, o, v)
  <1>. DEFINE n == Len(spans)
              s == Span(o, o, <<v>>)
              t == Sorted(Append(spans, s))
              new == Merged(t)
  <1>1. SetInSpans(spans, o, v) = new
    BY DEF SetInSpans
  <1>2. /\ n \in Nat /\ DOMAIN spans = 1 .. n
        /\ \A i \in 1 .. n : /\ IsSpan(spans[i]) /\ spans[i].lower \in Nat /\ spans[i].upper \in Nat
                             /\ spans[i].lower <= spans[i].upper
                             /\ \A j \in 1 .. n : i < j => spans[i].upper + 1 < spans[j].lower
    BY SpansAre
  <1>3. s.lower = o /\ s.upper = o /\ s.value = <<v>> /\ DOMAIN s = {"lower", "upper", "value"}
    BY DEF Span
  <1>4. IsSpan(s) /\ At(s, o) = v
    <2>1. DOMAIN <<v>> = 1 .. 1 /\ <<v>>[1] = v /\ <<v>> = [i \in 1 .. 1 |-> <<v>>[i]]
      OBVIOUS
    <2>2. o - o + 1 = 1
      OBVIOUS
    <2>. HIDE DEF s
    <2>3. IsSpan(s)
      BY <1>3, <2>1, <2>2 DEF IsSpan
    <2>4. At(s, o) = v
      BY <1>3, <2>1, <2>2 DEF At
    <2>. QED
      BY <2>3, <2>4
  <1>. HIDE DEF s
  <1>5. \A i \in 1 .. n : /\ spans[i].lower # o
                          /\ spans[i].lower < o => spans[i].upper + 1 < o
    <2>. SUFFICES ASSUME NEW i \in 1 .. n
                  PROVE  /\ spans[i].lower # o
                         /\ spans[i].lower < o => spans[i].upper + 1 < o
      OBVIOUS
    <2>1. i \in DOMAIN spans /\ o # spans[i].upper + 1 /\ ~(spans[i].lower <= o /\ o <= spans[i].upper)
      BY <1>2 DEF In
    <2>2. spans[i].lower \in Nat /\ spans[i].upper \in Nat /\ spans[i].lower <= spans[i].upper
      BY <1>2
    <2>. HIDE DEF n
    <2>. QED
      BY <2>1, <2>2
  <1>6. /\ Sequence(t) /\ DOMAIN t = 1 .. n + 1
        /\ \A i \in 1 .. n + 1 : t[i] = s \/ \E j \in 1 .. n : t[i] = spans[j]
        /\ \E i \in 1 .. n + 1 : t[i] = s
        /\ \A i, j \in 1 .. n + 1 : i < j => t[i].lower < t[j].lower
    <2>1. \A i \in DOMAIN spans : spans[i].lower # s.lower
      BY <1>2, <1>3, <1>5
    <2>. HIDE DEF n
    <2>2. /\ Sequence(t) /\ DOMAIN t = 1 .. Len(spans) + 1
          /\ \A i \in DOMAIN t : t[i] = s \/ \E j \in DOMAIN spans : t[i] = spans[j]
          /\ \E i \in DOMAIN t : t[i] = s
          /\ \A i, j \in DOMAIN t : i < j => t[i].lower < t[j].lower
      BY <1>4, <2>1, SortedIs
    <2>. HIDE DEF t
    <2>. QED
      BY <1>2, <2>2 DEF n
  <1>. HIDE DEF t, n
  <1>7. PICK k \in 1 .. n + 1 : t[k] = s
    BY <1>6
  <1>8. \A i \in 1 .. n + 1 : i = k \/ \E j \in 1 .. n : t[i] = spans[j]
    <2>1. ASSUME NEW i \in 1 .. n + 1, t[i] = s, i # k PROVE FALSE
      <3>1. i < k \/ k < i
        BY <1>2, <2>1
      <3>2. t[i].lower < t[k].lower \/ t[k].lower < t[i].lower
        BY <1>6, <3>1
      <3>. QED
        BY <1>3, <1>7, <2>1, <3>2
    <2>. QED
      BY <1>6, <2>1
  <1>9. \A i \in 1 .. n + 1 : IsSpan(t[i]) /\ t[i].lower \in Nat /\ t[i].upper \in Nat
    BY <1>2, <1>3, <1>4, <1>7, <1>8
  <1>10. ASSUME NEW a \in 1 .. n, NEW b \in 1 .. n, spans[a].lower < spans[b].lower
         PROVE  spans[a].upper + 1 < spans[b].lower
    <2>1. ~(b < a)
      <3>. SUFFICES ASSUME b < a PROVE FALSE
        OBVIOUS
      <3>1. spans[b].upper + 1 < spans[a].lower
        BY <1>2
      <3>. QED
        BY <1>2, <1>10, <3>1
    <2>2. a # b
      BY <1>2, <1>10
    <2>3. a < b
      BY <1>2, <2>1, <2>2
    <2>. QED
      BY <1>2, <2>3
  <1>11. ASSUME NEW i \in 1 .. n + 1, NEW j \in 1 .. n + 1, i < j, i # k
         PROVE  t[i].upper + 1 < t[j].lower
    <2>1. PICK a \in 1 .. n : t[i] = spans[a]
      BY <1>8, <1>11
    <2>2. t[i].lower < t[j].lower
      BY <1>6, <1>11
    <2>3. CASE j = k
      BY <1>3, <1>5, <1>7, <2>1, <2>2, <2>3
    <2>4. CASE j # k
      <3>1. PICK b \in 1 .. n : t[j] = spans[b]
        BY <1>8, <2>4
      <3>. QED
        BY <1>10, <2>1, <2>2, <3>1
    <2>. QED
      BY <2>3, <2>4
  <1>12. ASSUME NEW i \in 1 .. n + 1, NEW j \in 1 .. n + 1, i < j, ~(i = k /\ j = k + 1)
         PROVE  t[i].upper + 1 < t[j].lower
    <2>1. CASE i # k
      BY <1>11, <1>12, <2>1
    <2>2. CASE i = k
      <3>1. k + 1 \in 1 .. n + 1 /\ k < k + 1 /\ k + 1 < j /\ k + 1 # k
        BY <1>2, <1>12, <2>2
      <3>2. t[k].lower < t[k + 1].lower /\ t[k + 1].upper + 1 < t[j].lower
        BY <1>6, <1>11, <3>1
      <3>3. t[k + 1].lower <= t[k + 1].upper
        BY <1>9, <3>1 DEF IsSpan
      <3>4. t[k].lower = o /\ t[k].upper = o
        BY <1>3, <1>7
      <3>. QED
        BY <1>9, <2>2, <3>1, <3>2, <3>3, <3>4
    <2>. QED
      BY <2>1, <2>2
  <1>13. k + 1 \in DOMAIN t => t[k].upper < t[k + 1].lower
    <2>. SUFFICES ASSUME k + 1 \in 1 .. n + 1 PROVE t[k].upper < t[k + 1].lower
      BY <1>6
    <2>1. t[k].lower < t[k + 1].lower
      BY <1>6
    <2>. QED
      BY <1>3, <1>7, <2>1
  <1>14. /\ Sequence(new) /\ Ascending(new)
         /\ \E i \in DOMAIN new : new[i] = t[k]
         /\ \A i \in DOMAIN new : \E j \in DOMAIN t : new[i] = t[j]
    BY <1>6, <1>9, <1>12, <1>13, MergedIs
  <1>. HIDE DEF new
  <1>15. SpansSound(new)
    BY <1>6, <1>9, <1>14 DEF SpansSound
  <1>16. Holds(new, spans, o, v)
    <2>. SUFFICES ASSUME NEW i \in DOMAIN new, NEW p \in Nat, In(new[i], p)
                  PROVE  \/ p = o /\ At(new[i], p) = v
                         \/ p # o /\ \E j \in DOMAIN spans : In(spans[j], p) /\ At(new[i], p) = At(spans[j], p)
      BY DEF Holds
    <2>1. PICK m \in 1 .. n + 1 : new[i] = t[m]
      BY <1>6, <1>14
    <2>2. CASE m = k
      <3>1. new[i] = s /\ p = o
        BY <1>3, <1>7, <2>1, <2>2 DEF In
      <3>. QED
        BY <1>4, <3>1
    <2>3. CASE m # k
      <3>1. PICK j \in 1 .. n : new[i] = spans[j]
        BY <1>8, <2>1, <2>3
      <3>2. p # o
        BY <1>2, <3>1
      <3>. QED
        BY <1>2, <3>1, <3>2
    <2>. QED
      BY <2>2, <2>3
  <1>17. In(t[k], o) /\ At(t[k], o) = v
    BY <1>3, <1>4, <1>7 DEF In
  <1>. QED
    BY <1>1, <1>14, <1>15, <1>16, <1>17 DEF SetRight

\* set keeps the spans sound, stores the value, and changes nothing else that stays held.
LEMMA SetInSpansIs ==
    ASSUME NEW spans, SpansSound(spans), NEW o \in Nat, NEW v
    PROVE  LET new == SetInSpans(spans, o, v)
           IN  /\ SpansSound(new)
               /\ o \in Covered(new) /\ SpanValue(new, o) = v
               /\ \A p \in Covered(new) \ {o} :
                     p \in Covered(spans) /\ SpanValue(new, p) = SpanValue(spans, p)
  <1>. DEFINE new == SetInSpans(spans, o, v)
  <1>1. SetRight(new, spans, o, v)
    BY SetInsideIs, SetBehindIs, SetApartIs
  <1>. HIDE DEF new
  <1>2. SpansSound(new)
    BY <1>1 DEF SetRight
  <1>3. o \in Covered(new) /\ SpanValue(new, o) = v
    <2>1. PICK i \in DOMAIN new : In(new[i], o) /\ At(new[i], o) = v
      BY <1>1 DEF SetRight
    <2>. QED
      BY <1>2, <2>1, SpanValueIs
  <1>4. ASSUME NEW p \in Covered(new), p # o
        PROVE  p \in Covered(spans) /\ SpanValue(new, p) = SpanValue(spans, p)
    <2>1. p \in Nat
      BY <1>2, CoveredIs
    <2>2. PICK i \in DOMAIN new : In(new[i], p)
      BY <1>2, CoveredIs
    <2>3. SpanValue(new, p) = At(new[i], p)
      BY <1>2, <2>1, <2>2, SpanValueIs
    <2>4. PICK j \in DOMAIN spans : In(spans[j], p) /\ At(new[i], p) = At(spans[j], p)
      BY <1>1, <1>4, <2>1, <2>2 DEF SetRight, Holds
    <2>. QED
      BY <2>1, <2>3, <2>4, SpanValueIs
  <1>. QED
    BY <1>2, <1>3, <1>4 DEF new

-----------------------------------------------------------------------------
(* Devices. *)

\* The spans of a range are in order and apart.
RangeSound(d) == d.kind = "range" => SpansSound(d.spans)

\* Changes are made at offsets.
OffsetsIn(changes) == \A k \in DOMAIN changes : changes[k].at \in Nat

\* A block or a map that sets a byte changes that byte; a device stays the same device.
LEMMA SetHeldIs ==
    ASSUME NEW d, IsDevice(d), NEW o, NEW v
    PROVE  /\ Same(d, SetHeld(d, o, v)) /\ SetHeld(d, o, v).delta = d.delta
           /\ d.kind # "range" => \A p : Get(SetHeld(d, o, v), p) = IF p = o THEN v ELSE Get(d, p)
           /\ d.kind = "range" => SetHeld(d, o, v).spans = SetInSpans(d.spans, o, v)
           /\ RangeSound(d) /\ o \in Nat => RangeSound(SetHeld(d, o, v))
  <1>. DEFINE e == SetHeld(d, o, v)
  <1>1. CASE d.kind = "range"
    <2>1. /\ Same(d, e) /\ e.delta = d.delta /\ e.kind = "range"
          /\ e.spans = SetInSpans(d.spans, o, v)
      BY <1>1 DEF SetHeld, Same, IsDevice, Fields
    <2>2. RangeSound(d) /\ o \in Nat => SpansSound(SetInSpans(d.spans, o, v))
      BY <1>1, SetInSpansIs DEF RangeSound
    <2>. HIDE DEF e
    <2>3. RangeSound(d) /\ o \in Nat => RangeSound(e)
      BY <2>1, <2>2 DEF RangeSound
    <2>. QED
      BY <1>1, <2>1, <2>3 DEF e
  <1>2. CASE d.kind # "range"
    <2>. DEFINE cells == [p \in DOMAIN d.cells \cup {o} |-> IF p = o THEN v ELSE d.cells[p]]
    <2>1. DOMAIN cells = DOMAIN d.cells \cup {o} /\ cells[o] = v
          /\ \A p \in DOMAIN d.cells : p # o => cells[p] = d.cells[p]
      OBVIOUS
    <2>2. e = [d EXCEPT !.cells = cells]
      BY <1>2 DEF SetHeld
    <2>. HIDE DEF cells, e
    <2>3. e.cells = cells /\ e.default = d.default /\ e.delta = d.delta /\ Same(d, e)
      BY <2>2 DEF Same, IsDevice, Fields
    <2>4. ASSUME NEW p PROVE Get(e, p) = IF p = o THEN v ELSE Get(d, p)
      BY <2>1, <2>3 DEF Get
    <2>5. RangeSound(e)
      BY <1>2, <2>3 DEF RangeSound, Same
    <2>. QED
      BY <1>2, <2>3, <2>4, <2>5 DEF e
  <1>. QED
    BY <1>1, <1>2

\* A write sets the byte once it has recorded it.
LEMMA RecordedIs ==
    ASSUME NEW d, IsDevice(d), NEW o, NEW old, NEW v
    PROVE  \E e : /\ Same(d, e) /\ \A p : Get(e, p) = Get(d, p)
                  /\ e.spans = d.spans
                  /\ Recorded(d, o, old, v) = SetHeld(e, o, v)
  <1>. DEFINE c == [at |-> o, old |-> old, new |-> v]
              e == [d EXCEPT !.delta = Append(@, c)]
  <1>1. Sequence(Append(d.delta, c))
    <2>. DEFINE U == Range(d.delta) \cup {c}
    <2>1. d.delta \in Seq(U) /\ c \in U
      <3>1. d.delta \in Seq(Range(d.delta))
        BY DEF IsDevice, Sequence
      <3>. QED
        BY <3>1, SeqMonotonic
    <2>. HIDE DEF U, c
    <2>2. Append(d.delta, c) \in Seq(U)
      BY <2>1
    <2>. QED
      BY <2>2, Sequences
  <1>. HIDE DEF c
  <1>2. Same(d, e) /\ e.cells = d.cells /\ e.default = d.default /\ e.delta = Append(d.delta, c)
        /\ e.spans = d.spans
    BY <1>1 DEF Same, IsDevice, Fields
  <1>3. Recorded(d, o, old, v) = SetHeld(e, o, v)
    BY DEF Recorded, c
  <1>. HIDE DEF e
  <1>4. \A p : Get(e, p) = Get(d, p)
    BY <1>2 DEF Get
  <1>. QED
    BY <1>2, <1>3, <1>4

LEMMA RecordedByte ==
    ASSUME NEW d, IsDevice(d), NEW o, NEW old, NEW v
    PROVE  /\ Same(d, Recorded(d, o, old, v))
           /\ d.kind # "range" => \A p : Get(Recorded(d, o, old, v), p) = IF p = o THEN v ELSE Get(d, p)
           /\ RangeSound(d) /\ o \in Nat => RangeSound(Recorded(d, o, old, v))
  <1>1. PICK e : /\ Same(d, e) /\ \A p : Get(e, p) = Get(d, p)
                 /\ e.spans = d.spans
                 /\ Recorded(d, o, old, v) = SetHeld(e, o, v)
    BY RecordedIs
  <1>2. /\ Same(e, SetHeld(e, o, v))
        /\ e.kind # "range" => \A p : Get(SetHeld(e, o, v), p) = IF p = o THEN v ELSE Get(e, p)
        /\ RangeSound(e) /\ o \in Nat => RangeSound(SetHeld(e, o, v))
    BY <1>1, SetHeldIs DEF Same
  <1>3. RangeSound(d) => RangeSound(e)
    BY <1>1 DEF RangeSound, Same
  <1>. QED
    BY <1>1, <1>2, <1>3 DEF Same

\* What get returns.
LEMMA HeldIs ==
    ASSUME NEW i, NEW a, layers[i].dev.kind # "range"
    PROVE  /\ Held(layers[i].dev, Offset(i, a)) = {Get(layers[i].dev, Offset(i, a))}
           /\ ByteAt(i, a) = Get(layers[i].dev, Offset(i, a))
  <1>1. Held(layers[i].dev, Offset(i, a)) = {Get(layers[i].dev, Offset(i, a))}
    BY DEF Held, Get
  <1>. QED
    BY <1>1 DEF ByteAt

-----------------------------------------------------------------------------
(* The memory the layers make up. *)

\* The device at an address is the first that reaches it, and the memory what these hold.
MemoryIs ==
    /\ Visible = {a \in Address : DeviceAt(a) # 0 /\ layers[DeviceAt(a)].dev.kind # "range"}
    /\ Flat = [a \in Visible |-> Get(layers[DeviceAt(a)].dev, Offset(DeviceAt(a), a))]

\* Where each visible byte lies.
Slot == [a \in Visible |-> [dev |-> DeviceAt(a), at |-> Offset(DeviceAt(a), a)]]

LEMMA MemoryKnown == MemoryIs
  <1>1. \A a \in Address : Seen[a] = DeviceAt(a)
    BY DEF Seen
  <1>2. Visible = {a \in Address : DeviceAt(a) # 0 /\ layers[DeviceAt(a)].dev.kind # "range"}
    BY <1>1 DEF Visible
  <1>3. Flat = [a \in Visible |-> ByteAt(Seen[a], a)]
    BY DEF Flat
  <1>4. ASSUME NEW a \in Visible
        PROVE  ByteAt(Seen[a], a) = Get(layers[DeviceAt(a)].dev, Offset(DeviceAt(a), a))
    BY <1>1, <1>2, HeldIs
  <1>. QED
    BY <1>2, <1>3, <1>4 DEF MemoryIs

\* The first of some positions.
LEMMA First ==
    ASSUME NEW n \in Nat, NEW hits \in SUBSET (1 .. n), hits # {}
    PROVE  LET c == CHOOSE i \in hits : \A j \in hits : i <= j
           IN  /\ c \in hits /\ \A j \in hits : c <= j
               /\ \A i \in hits : (\A j \in hits : i <= j) => i = c
  <1>. DEFINE c == CHOOSE i \in hits : \A j \in hits : i <= j
  <1>1. \E i \in hits : \A j \in hits : i <= j
    <2>1. hits \in SUBSET Nat
      OBVIOUS
    <2>. QED
      BY <2>1, Least
  <1>2. c \in hits /\ \A j \in hits : c <= j
    BY <1>1
  <1>. HIDE DEF c
  <1>3. ASSUME NEW i \in hits, \A j \in hits : i <= j PROVE i = c
    <2>1. i \in Nat /\ c \in Nat /\ i <= c /\ c <= i
      BY <1>2, <1>3
    <2>. QED
      BY <2>1
  <1>. QED
    BY <1>2, <1>3 DEF c

LEMMA DeviceAtIs ==
    ASSUME LayersInv, NEW a, DeviceAt(a) # 0
    PROVE  /\ DeviceAt(a) \in DOMAIN layers /\ Reaches(layers[DeviceAt(a)], a) /\ ~(a > max)
           /\ \A j \in DOMAIN layers : Reaches(layers[j], a) => DeviceAt(a) <= j
  <1>. DEFINE hits == {i \in DOMAIN layers : Reaches(layers[i], a)}
  <1>1. hits # {} /\ ~(a > max) /\ DeviceAt(a) = CHOOSE i \in hits : \A j \in hits : i <= j
    BY DEF DeviceAt
  <1>2. hits \in SUBSET (1 .. Len(layers)) /\ Len(layers) \in Nat
    BY Sequences DEF LayersInv
  <1>3. DeviceAt(a) \in hits /\ \A j \in hits : DeviceAt(a) <= j
    <2>. HIDE DEF hits
    <2>. QED
      BY <1>1, <1>2, First
  <1>. QED
    BY <1>1, <1>3

\* Where the layers stay the same devices, they are found where they were.
LEMMA DeviceStays ==
    ASSUME Kept, max' = max, \A i \in DOMAIN layers : layers'[i].dev.max = layers[i].dev.max
    PROVE  \A a : DeviceAt(a)' = DeviceAt(a)
  <1>. SUFFICES ASSUME NEW CONSTANT a PROVE DeviceAt(a)' = DeviceAt(a)
    OBVIOUS
  <1>1. DOMAIN layers' = DOMAIN layers
    BY DEF Kept
  <1>2. \A i \in DOMAIN layers : Reaches(layers'[i], a) <=> Reaches(layers[i], a)
    BY DEF Kept, Reaches
  <1>. DEFINE hits == {i \in DOMAIN layers : Reaches(layers[i], a)}
              later == {i \in DOMAIN layers' : Reaches(layers'[i], a)}
              Found(h, m) == IF a > m \/ h = {} THEN 0 ELSE CHOOSE i \in h : \A j \in h : i <= j
  <1>3. DeviceAt(a) = Found(hits, max) /\ DeviceAt(a)' = Found(later, max')
    BY DEF DeviceAt, Reaches
  <1>4. later = hits
    BY <1>1, <1>2
  <1>. HIDE DEF hits, later, Found
  <1>. QED
    BY <1>3, <1>4

\* Where the devices stay the same, so do the places of the bytes.
LEMMA PlacesKept ==
    ASSUME LayersInv, Kept, max' = max,
           \A j \in DOMAIN layers : Same(layers[j].dev, layers'[j].dev)
    PROVE  /\ \A a : DeviceAt(a)' = DeviceAt(a)
           /\ Visible' = Visible /\ Slot' = Slot
           /\ Flat' = [b \in Visible |-> Get(layers'[DeviceAt(b)].dev, Offset(DeviceAt(b), b))]
           /\ Flat = [b \in Visible |-> Get(layers[DeviceAt(b)].dev, Offset(DeviceAt(b), b))]
           /\ DOMAIN Slot = Visible /\ Visible \subseteq Nat
           /\ \A b \in Visible : /\ Slot[b].dev = DeviceAt(b) /\ Slot[b].at = Offset(DeviceAt(b), b)
                                 /\ DeviceAt(b) \in DOMAIN layers /\ layers[DeviceAt(b)].dev.kind # "range"
                                 /\ layers[DeviceAt(b)].at \in Nat
  <1>1. \A b : DeviceAt(b)' = DeviceAt(b)
    BY DeviceStays DEF Same
  <1>2. MemoryIs /\ MemoryIs'
    BY MemoryKnown, PTL
  <1>3. \A b : DeviceAt(b) # 0 => DeviceAt(b) \in DOMAIN layers
    BY DeviceAtIs
  <1>4. Visible' = Visible
    <2>1. Visible' = {b \in Address : DeviceAt(b)' # 0 /\ layers'[DeviceAt(b)'].dev.kind # "range"}
      BY <1>2 DEF MemoryIs, Address
    <2>. QED
      BY <1>1, <1>2, <1>3, <2>1 DEF MemoryIs, Same
  <1>5. \A b \in Visible : DeviceAt(b) \in DOMAIN layers /\ layers[DeviceAt(b)].dev.kind # "range"
                           /\ layers'[DeviceAt(b)].at = layers[DeviceAt(b)].at
                           /\ layers[DeviceAt(b)].at \in Nat /\ b \in Nat
    BY <1>2, <1>3 DEF MemoryIs, Kept, LayersInv, IsLayer, Address
  <1>6. Flat' = [b \in Visible |-> Get(layers'[DeviceAt(b)].dev, Offset(DeviceAt(b), b))]
    <2>1. Flat' = [b \in Visible' |-> Get(layers'[DeviceAt(b)'].dev, b - layers'[DeviceAt(b)'].at)]
      BY <1>2 DEF MemoryIs, Offset, Get
    <2>. QED
      BY <1>1, <1>4, <1>5, <2>1 DEF Offset
  <1>7. Slot' = Slot
    <2>1. Slot' = [b \in Visible' |-> [dev |-> DeviceAt(b)', at |-> b - layers'[DeviceAt(b)'].at]]
      BY DEF Slot, Offset
    <2>. QED
      BY <1>1, <1>4, <1>5, <2>1 DEF Slot, Offset
  <1>. QED
    BY <1>1, <1>2, <1>4, <1>5, <1>6, <1>7 DEF MemoryIs, Slot

\* If the devices stay the same and one byte of one of them changes, so does that of the memory.
LEMMA OneByte ==
    ASSUME LayersInv, Kept, max' = max,
           \A j \in DOMAIN layers : Same(layers[j].dev, layers'[j].dev),
           NEW a \in Nat, NEW v, DeviceAt(a) # 0,
           \A j \in DOMAIN layers : j # DeviceAt(a) => \A p : Get(layers'[j].dev, p) = Get(layers[j].dev, p),
           layers[DeviceAt(a)].dev.kind # "range" =>
               \A p : Get(layers'[DeviceAt(a)].dev, p) =
                         IF p = Offset(DeviceAt(a), a) THEN v ELSE Get(layers[DeviceAt(a)].dev, p)
    PROVE  Flat' = (IF a \in Visible THEN [Flat EXCEPT ![a] = v] ELSE Flat) /\ Visible' = Visible
  <1>1. /\ Visible' = Visible /\ Visible \subseteq Nat
        /\ Flat' = [b \in Visible |-> Get(layers'[DeviceAt(b)].dev, Offset(DeviceAt(b), b))]
        /\ Flat = [b \in Visible |-> Get(layers[DeviceAt(b)].dev, Offset(DeviceAt(b), b))]
        /\ \A b \in Visible : /\ DeviceAt(b) \in DOMAIN layers /\ layers[DeviceAt(b)].dev.kind # "range"
                              /\ layers[DeviceAt(b)].at \in Nat
    BY PlacesKept
  <1>2. ASSUME NEW b \in Visible
        PROVE  Get(layers'[DeviceAt(b)].dev, Offset(DeviceAt(b), b)) = IF b = a THEN v ELSE Flat[b]
    <2>1. CASE DeviceAt(b) # DeviceAt(a)
      BY <1>1, <2>1
    <2>2. CASE DeviceAt(b) = DeviceAt(a)
      <3>1. Offset(DeviceAt(b), b) = Offset(DeviceAt(a), a) <=> b = a
        BY <1>1, <2>2 DEF Offset
      <3>. QED
        BY <1>1, <2>2, <3>1
    <2>. QED
      BY <2>1, <2>2
  <1>. QED
    BY <1>1, <1>2

-----------------------------------------------------------------------------
(* What is set. *)

\* The same devices with other bytes, set but not recorded.
Still(ls) ==
    /\ ls = [i \in DOMAIN layers |-> ls[i]]
    /\ \A i \in DOMAIN layers : /\ {"at", "dev"} \subseteq DOMAIN ls[i] /\ ls[i].at = layers[i].at
                                /\ Same(layers[i].dev, ls[i].dev) /\ ls[i].dev.delta = layers[i].dev.delta
                                /\ RangeSound(layers[i].dev) => RangeSound(ls[i].dev)

\* They hold what they did but for some addresses.
Elsewhere(ls, W) ==
    \A b \in Nat \ W : DeviceAt(b) # 0 /\ layers[DeviceAt(b)].dev.kind # "range" =>
        Get(ls[DeviceAt(b)].dev, Offset(DeviceAt(b), b)) = Get(layers[DeviceAt(b)].dev, Offset(DeviceAt(b), b))

\* An address a device reaches is at an offset of it.
LEMMA OffsetIs ==
    ASSUME LayersInv, NEW a \in Nat, DeviceAt(a) # 0
    PROVE  Offset(DeviceAt(a), a) \in Nat
  <1>1. DeviceAt(a) \in DOMAIN layers /\ Reaches(layers[DeviceAt(a)], a)
    BY DeviceAtIs
  <1>2. layers[DeviceAt(a)].at \in Nat
    BY <1>1 DEF LayersInv, IsLayer
  <1>. QED
    BY <1>1, <1>2 DEF Reaches, Offset

LEMMA SetInIs ==
    ASSUME LayersInv, NEW ls, Still(ls), NEW a \in Nat, NEW v
    PROVE  /\ Still(SetIn(ls, a, v))
           /\ \A W : a \in W /\ Elsewhere(ls, W) => Elsewhere(SetIn(ls, a, v), W)
           /\ DeviceAt(a) = 0 => SetIn(ls, a, v) = ls
           /\ \A j \in DOMAIN layers : j # DeviceAt(a) => SetIn(ls, a, v)[j].dev = ls[j].dev
           /\ DeviceAt(a) # 0 => SetIn(ls, a, v)[DeviceAt(a)].dev =
                                    SetHeld(ls[DeviceAt(a)].dev, Offset(DeviceAt(a), a), v)
  <1>1. CASE DeviceAt(a) = 0
    BY <1>1 DEF SetIn
  <1>2. CASE DeviceAt(a) # 0
    <2>. DEFINE i == DeviceAt(a)
                d == ls[i].dev
                e == SetHeld(d, Offset(i, a), v)
                new == SetIn(ls, a, v)
    <2>1. i \in DOMAIN layers
      BY <1>2, DeviceAtIs
    <2>. HIDE DEF i
    <2>2. new = [ls EXCEPT ![i].dev = e]
      BY <1>2 DEF SetIn, i
    <2>3. Same(d, e) /\ e.delta = d.delta /\ Same(layers[i].dev, d) /\ d.delta = layers[i].dev.delta
          /\ (d.kind # "range" => \A p : Get(e, p) = IF p = Offset(i, a) THEN v ELSE Get(d, p))
          /\ (RangeSound(layers[i].dev) => RangeSound(e))
      <3>1. /\ IsDevice(d) /\ Same(layers[i].dev, d) /\ d.delta = layers[i].dev.delta
            /\ RangeSound(layers[i].dev) => RangeSound(d)
        BY <2>1 DEF Still, Same
      <3>2. Offset(i, a) \in Nat
        BY <1>2, OffsetIs DEF i
      <3>. QED
        BY <3>1, <3>2, SetHeldIs
    <2>. HIDE DEF e, d, new
    <2>4. DOMAIN ls = DOMAIN layers /\ {"at", "dev"} \subseteq DOMAIN ls[i]
          /\ DOMAIN new = DOMAIN layers /\ new = [j \in DOMAIN layers |-> new[j]]
      BY <2>1, <2>2 DEF Still
    <2>5. new[i].dev = e /\ new[i].at = ls[i].at /\ DOMAIN new[i] = DOMAIN ls[i]
          /\ \A j \in DOMAIN layers : j # i => new[j] = ls[j]
      BY <2>1, <2>2, <2>4
    <2>6. Still(new)
      <3>1. /\ Same(layers[i].dev, e) /\ e.delta = layers[i].dev.delta
            /\ RangeSound(layers[i].dev) => RangeSound(e)
        BY <2>3 DEF Same
      <3>. QED
        BY <2>4, <2>5, <3>1 DEF Still
    <2>7. ASSUME NEW W, a \in W, Elsewhere(ls, W)
          PROVE  Elsewhere(new, W)
      <3>. SUFFICES ASSUME NEW b \in Nat \ W, DeviceAt(b) # 0, layers[DeviceAt(b)].dev.kind # "range"
                    PROVE  Get(new[DeviceAt(b)].dev, Offset(DeviceAt(b), b))
                             = Get(layers[DeviceAt(b)].dev, Offset(DeviceAt(b), b))
        BY DEF Elsewhere
      <3>1. DeviceAt(b) \in DOMAIN layers /\ layers[DeviceAt(b)].at \in Nat
        BY DeviceAtIs DEF LayersInv, IsLayer
      <3>2. Get(ls[DeviceAt(b)].dev, Offset(DeviceAt(b), b))
              = Get(layers[DeviceAt(b)].dev, Offset(DeviceAt(b), b))
        BY <2>7 DEF Elsewhere
      <3>3. CASE DeviceAt(b) # i
        BY <2>5, <3>1, <3>2, <3>3
      <3>4. CASE DeviceAt(b) = i
        <4>1. Offset(DeviceAt(b), b) # Offset(i, a)
          BY <2>7, <3>1, <3>4 DEF Offset
        <4>2. d.kind # "range"
          BY <2>3, <3>4 DEF Same
        <4>. QED
          BY <2>3, <2>5, <3>2, <3>4, <4>1, <4>2 DEF d
      <3>. QED
        BY <3>3, <3>4
    <2>. QED
      BY <1>2, <2>5, <2>6, <2>7 DEF i, d, e, new
  <1>. QED
    BY <1>1, <1>2

LEMMA TouchIs ==
    ASSUME LayersInv, NEW as \in Seq(Nat), Touch(as)
    PROVE  max' = max /\ hand' = None /\ touched' = touched \o as /\ touched' \in Seq(Nat)
           /\ None.changes = << >>
  <1>1. max' = max /\ hand' = None /\ touched' = touched \o as /\ None.changes = << >>
    BY DEF Touch, None
  <1>2. touched \o as \in Seq(Nat)
    BY ConcatProperties DEF LayersInv
  <1>. QED
    BY <1>1, <1>2

\* What is loaded goes to addresses of the layers, and nothing else changes.
LEMMA LoadBytesIs ==
    ASSUME LayersInv, NEW load \in Loads, LoadBytes(load.at, load.bytes)
    PROVE  \E where \in Seq(Nat) :
               /\ Touch(where) /\ SetBefore(where)
               /\ Still(layers') /\ Elsewhere(layers', Range(where))
  <1>. DEFINE a == load.at
              bytes == load.bytes
              Where(i) == (a + i - 1) % (max + 1)
              failing == {i \in DOMAIN bytes : Miss(Where(i), "OOBWrite") # OK /\ DeviceAt(Where(i)) = 0}
              set == IF failing = {} THEN Len(bytes) ELSE Min(failing) - 1
              where == [i \in DOMAIN bytes |-> Where(i)]
              next(g, n) == IF n = 0 THEN layers ELSE SetIn(g[n - 1], Where(n), bytes[n])
              Is(g) == g = [n \in 0 .. set |-> next(g, n)]
              L == CHOOSE g : Is(g)
  <1>1. Touch(where) /\ SetBefore(where) /\ layers' = L[set]
    BY DEF LoadBytes
  <1>2. a \in Nat /\ bytes \in Seq(Values) /\ Len(bytes) \in Nat /\ DOMAIN bytes = 1 .. Len(bytes)
    BY StorageAssumption, LenProperties
  <1>3. \A i \in DOMAIN bytes : Where(i) \in Nat
    <2>1. max \in Nat
      BY DEF LayersInv
    <2>2. \A i \in 1 .. Len(bytes) : a + i - 1 \in Nat
      BY <1>2
    <2>3. \A x \in Nat : x % (max + 1) \in Nat
      BY <2>1
    <2>. QED
      BY <1>2, <2>2, <2>3
  <1>. HIDE DEF Where, a, bytes
  <1>4. where \in Seq(Nat) /\ \A i \in DOMAIN bytes : Where(i) \in Range(where)
    <2>1. where \in [1 .. Len(bytes) -> Nat]
      BY <1>2, <1>3
    <2>. QED
      BY <1>2, <2>1, SeqDef DEF Range
  <1>5. set \in 0 .. Len(bytes)
    <2>1. CASE failing = {}
      BY <1>2, <2>1
    <2>2. CASE failing # {}
      <3>1. failing \in SUBSET (1 .. Len(bytes))
        BY <1>2
      <3>. HIDE DEF failing
      <3>2. Min(failing) \in failing
        <4>1. \E n \in failing : \A m \in failing : n <= m
          BY <2>2, <3>1, Least
        <4>. QED
          BY <4>1 DEF Min
      <3>3. Min(failing) \in 1 .. Len(bytes)
        BY <3>1, <3>2
      <3>4. Min(failing) - 1 \in 0 .. Len(bytes)
        BY <1>2, <3>3
      <3>. QED
        BY <2>2, <3>4
    <2>. QED
      BY <2>1, <2>2
  <1>. HIDE DEF set
  <1>. DEFINE n == set
              Begun == {k \in 0 .. n : \E g : g = [m \in 0 .. k |-> next(g, m)]}
              Good == {k \in 0 .. n : Still(L[k]) /\ Elsewhere(L[k], Range(where))}
  <1>6. n \in Nat
    BY <1>2, <1>5
  <1>7. n \in Begun
    <2>1. 0 \in Begun
      <3>. DEFINE g == [m \in 0 .. 0 |-> layers]
      <3>1. g = [m \in 0 .. 0 |-> next(g, m)]
        OBVIOUS
      <3>. HIDE DEF g, next
      <3>. QED
        BY <1>6, <3>1
    <2>2. ASSUME NEW i \in 1 .. n, i - 1 \in Begun
          PROVE  i \in Begun
      <3>1. PICK g : g = [m \in 0 .. i - 1 |-> next(g, m)]
        BY <2>2
      <3>. DEFINE h == [m \in 0 .. i |-> IF m = i THEN next(g, i) ELSE g[m]]
      <3>2. \A m \in 0 .. i - 1 : g[m] = next(g, m)
        <4>. HIDE DEF next
        <4>. QED
          BY <3>1
      <3>3. ASSUME NEW m \in 0 .. i
            PROVE  h[m] = next(h, m)
        <4>1. m # 0 => h[m - 1] = g[m - 1]
          OBVIOUS
        <4>2. next(h, m) = next(g, m)
          BY <4>1
        <4>. HIDE DEF next
        <4>3. m # i => g[m] = next(g, m)
          BY <3>2, <1>6
        <4>. QED
          BY <4>2, <4>3
      <3>4. h = [m \in 0 .. i |-> next(h, m)]
        <4>. HIDE DEF next
        <4>. QED
          BY <3>3
      <3>. HIDE DEF h, next
      <3>. QED
        BY <3>4, <1>6
    <2>. HIDE DEF Begun
    <2>3. 0 .. n \subseteq Begun
      BY <1>6, <2>1, <2>2, Upwards, Zenon
    <2>. QED
      BY <1>6, <2>3
  <1>8. Is(L)
    <2>1. \E g : Is(g)
      BY <1>7
    <2>. HIDE DEF Is
    <2>. QED
      BY <2>1
  <1>. HIDE DEF L
  <1>9. \A k \in 0 .. n : L[k] = next(L, k)
    <2>. HIDE DEF next
    <2>. QED
      BY <1>8
  <1>10. n \in Good
    <2>1. 0 \in Good
      <3>1. L[0] = layers
        BY <1>6, <1>9
      <3>2. Still(layers)
        BY DEF LayersInv, IsLayer, Still, Same, Sequence
      <3>3. Elsewhere(layers, Range(where))
        BY DEF Elsewhere
      <3>. QED
        BY <1>6, <3>1, <3>2, <3>3
    <2>2. ASSUME NEW i \in 1 .. n, i - 1 \in Good
          PROVE  i \in Good
      <3>1. L[i] = SetIn(L[i - 1], Where(i), bytes[i])
        BY <1>6, <1>9
      <3>2. Where(i) \in Nat /\ Where(i) \in Range(where)
        BY <1>2, <1>3, <1>4, <1>5
      <3>. HIDE DEF where
      <3>3. Still(L[i - 1]) /\ Elsewhere(L[i - 1], Range(where))
        BY <2>2
      <3>4. Still(L[i]) /\ Elsewhere(L[i], Range(where))
        BY <3>1, <3>2, <3>3, SetInIs
      <3>. QED
        BY <1>6, <3>4
    <2>. HIDE DEF Good
    <2>3. 0 .. n \subseteq Good
      BY <1>6, <2>1, <2>2, Upwards, Zenon
    <2>. QED
      BY <1>6, <2>3
  <1>. QED
    BY <1>1, <1>4, <1>10

\* Applying changes sets what they say, if no two are to the same byte, and nothing else.
LEMMA AppliedIs ==
    ASSUME NEW d, IsDevice(d), NEW changes, Sequence(changes), NEW side
    PROVE  /\ Same(d, Applied(d, changes, side)) /\ Applied(d, changes, side).delta = d.delta
           /\ d.kind # "range" =>
                 /\ \A p : (\A k \in DOMAIN changes : changes[k].at # p) =>
                        Get(Applied(d, changes, side), p) = Get(d, p)
                 /\ \A k \in DOMAIN changes : (\A m \in DOMAIN changes : changes[m].at = changes[k].at => m = k) =>
                        Get(Applied(d, changes, side), changes[k].at) = changes[k][side]
           /\ RangeSound(d) /\ OffsetsIn(changes) => RangeSound(Applied(d, changes, side))
  <1>. DEFINE n == Len(changes)
              next(g, m) == IF m = 0 THEN d ELSE SetHeld(g[m - 1], changes[m].at, changes[m][side])
              Is(g) == g = [m \in 0 .. n |-> next(g, m)]
              L == CHOOSE g : Is(g)
              Begun == {k \in 0 .. n : \E g : g = [m \in 0 .. k |-> next(g, m)]}
              Sets(e, k) ==
                  /\ Same(d, e) /\ e.delta = d.delta
                  /\ d.kind # "range" =>
                        /\ \A p : (\A m \in 1 .. k : changes[m].at # p) => Get(e, p) = Get(d, p)
                        /\ \A m \in 1 .. k : (\A j \in 1 .. k : changes[j].at = changes[m].at => j = m) =>
                               Get(e, changes[m].at) = changes[m][side]
                  /\ RangeSound(d) /\ OffsetsIn(changes) => RangeSound(e)
              Good == {k \in 0 .. n : Sets(L[k], k)}
  <1>1. Applied(d, changes, side) = L[n]
    BY DEF Applied
  <1>2. n \in Nat /\ DOMAIN changes = 1 .. n
    BY Sequences
  <1>. HIDE DEF n
  <1>3. n \in Begun
    <2>1. 0 \in Begun
      <3>. DEFINE g == [m \in 0 .. 0 |-> d]
      <3>1. g = [m \in 0 .. 0 |-> next(g, m)]
        OBVIOUS
      <3>. HIDE DEF g, next
      <3>. QED
        BY <1>2, <3>1
    <2>2. ASSUME NEW i \in 1 .. n, i - 1 \in Begun
          PROVE  i \in Begun
      <3>1. PICK g : g = [m \in 0 .. i - 1 |-> next(g, m)]
        BY <2>2
      <3>. DEFINE h == [m \in 0 .. i |-> IF m = i THEN next(g, i) ELSE g[m]]
      <3>2. \A m \in 0 .. i - 1 : g[m] = next(g, m)
        <4>. HIDE DEF next
        <4>. QED
          BY <3>1
      <3>3. ASSUME NEW m \in 0 .. i
            PROVE  h[m] = next(h, m)
        <4>1. m # 0 => h[m - 1] = g[m - 1]
          OBVIOUS
        <4>2. next(h, m) = next(g, m)
          BY <4>1
        <4>. HIDE DEF next
        <4>3. m # i => g[m] = next(g, m)
          BY <1>2, <3>2
        <4>. QED
          BY <4>2, <4>3
      <3>4. h = [m \in 0 .. i |-> next(h, m)]
        <4>. HIDE DEF next
        <4>. QED
          BY <3>3
      <3>. HIDE DEF h, next
      <3>. QED
        BY <1>2, <3>4
    <2>. HIDE DEF Begun
    <2>3. 0 .. n \subseteq Begun
      BY <1>2, <2>1, <2>2, Upwards, Zenon
    <2>. QED
      BY <1>2, <2>3
  <1>4. Is(L)
    <2>1. \E g : Is(g)
      BY <1>3
    <2>. HIDE DEF Is
    <2>. QED
      BY <2>1
  <1>. HIDE DEF L
  <1>5. \A k \in 0 .. n : L[k] = next(L, k)
    <2>. HIDE DEF next
    <2>. QED
      BY <1>4
  <1>6. n \in Good
    <2>1. 0 \in Good
      <3>1. L[0] = d
        BY <1>2, <1>5
      <3>2. Same(d, d)
        BY DEF Same
      <3>. QED
        BY <1>2, <3>1, <3>2
    <2>2. ASSUME NEW i \in 1 .. n, i - 1 \in Good
          PROVE  i \in Good
      <3>. DEFINE e == L[i - 1]
                  at == changes[i].at
                  v == changes[i][side]
      <3>1. L[i] = SetHeld(e, at, v)
        BY <1>2, <1>5
      <3>2. Sets(e, i - 1)
        BY <2>2
      <3>. HIDE DEF e
      <3>3. Same(d, e) /\ e.delta = d.delta /\ IsDevice(e) /\ (d.kind # "range" => e.kind # "range")
        BY <3>2 DEF Same
      <3>4. /\ Same(e, L[i]) /\ L[i].delta = e.delta
            /\ e.kind # "range" => \A p : Get(L[i], p) = IF p = at THEN v ELSE Get(e, p)
            /\ RangeSound(e) /\ at \in Nat => RangeSound(L[i])
        BY <3>1, <3>3, SetHeldIs
      <3>5. Same(d, L[i]) /\ L[i].delta = d.delta
        BY <3>3, <3>4 DEF Same
      <3>6. i \in 1 .. i /\ \A m \in 1 .. i : m = i \/ m \in 1 .. i - 1
        OBVIOUS
      <3>7. \A m \in 1 .. i - 1 : m \in 1 .. i /\ m # i
        OBVIOUS
      <3>8. ASSUME d.kind # "range", NEW p, \A m \in 1 .. i : changes[m].at # p
            PROVE  Get(L[i], p) = Get(d, p)
        BY <3>2, <3>3, <3>4, <3>6, <3>7, <3>8
      <3>9. ASSUME d.kind # "range", NEW m \in 1 .. i, \A j \in 1 .. i : changes[j].at = changes[m].at => j = m
            PROVE  Get(L[i], changes[m].at) = changes[m][side]
        <4>1. CASE m = i
          BY <3>3, <3>4, <3>9, <4>1
        <4>2. CASE m # i
          <5>1. m \in 1 .. i - 1 /\ changes[m].at # at
            BY <3>6, <3>9, <4>2
          <5>2. Get(e, changes[m].at) = changes[m][side]
            BY <3>2, <3>7, <3>9, <5>1
          <5>. QED
            BY <3>3, <3>4, <3>9, <5>1, <5>2
        <4>. QED
          BY <4>1, <4>2
      <3>10. RangeSound(d) /\ OffsetsIn(changes) => RangeSound(L[i])
        BY <1>2, <3>2, <3>4 DEF OffsetsIn
      <3>. QED
        BY <1>2, <3>5, <3>8, <3>9, <3>10
    <2>. HIDE DEF Good
    <2>3. 0 .. n \subseteq Good
      BY <1>2, <2>1, <2>2, Upwards, Zenon
    <2>. QED
      BY <1>2, <2>3
  <1>. HIDE DEF next
  <1>. QED
    BY <1>1, <1>2, <1>6

-----------------------------------------------------------------------------
(* The steps. *)

\* The layers after the steps that change no device for another.
LEMMA KeptInv ==
    ASSUME LayersInv, Kept, max' \in Nat, touched' \in Seq(Nat),
           {"changes", "undone", "before", "after", "once"} \subseteq DOMAIN hand',
           hand'.changes # << >> => /\ DOMAIN hand'.changes = DOMAIN layers
                                    /\ \A i \in DOMAIN layers : Sequence(hand'.changes[i])
    PROVE  LayersInv' /\ Len(layers') = Len(layers)
  <1>1. DOMAIN layers = 1 .. Len(layers) /\ Len(layers) \in Nat
    BY Sequences DEF LayersInv
  <1>2. DOMAIN layers' = DOMAIN layers
    BY DEF Kept
  <1>3. Sequence(layers') /\ Len(layers') = Len(layers)
    BY <1>1, <1>2, Sequences DEF Kept
  <1>4. \A i \in DOMAIN layers' : IsLayer(layers'[i])
    BY <1>2 DEF Kept
  <1>. QED
    BY <1>2, <1>3, <1>4 DEF LayersInv, Sequence, IsLayer, IsDevice

\* No device is another one.
LEMMA StillKept ==
    ASSUME LayersInv, Still(layers')
    PROVE  Kept /\ \A j \in DOMAIN layers : Same(layers[j].dev, layers'[j].dev)
                                            /\ layers'[j].dev.delta = layers[j].dev.delta
                                            /\ (RangeSound(layers[j].dev) => RangeSound(layers'[j].dev))
  <1>1. \A i \in DOMAIN layers : IsLayer(layers'[i]) /\ layers'[i].at = layers[i].at
    BY DEF Still, Same, LayersInv, IsLayer
  <1>. QED
    BY <1>1 DEF Still, Kept

LEMMA EmptyHand == {"changes", "undone", "before", "after", "once"} \subseteq DOMAIN None /\ None.changes = << >>
  BY DEF None

\* What becomes of one device alone.
LEMMA DeviceKept ==
    ASSUME LayersInv, NEW i \in DOMAIN layers, NEW e, IsDevice(e), layers' = [layers EXCEPT ![i].dev = e]
    PROVE  Kept /\ layers'[i].dev = e /\ \A j \in DOMAIN layers : j # i => layers'[j] = layers[j]
  <1>1. {"at", "dev"} \subseteq DOMAIN layers[i]
    BY DEF LayersInv, IsLayer
  <1>2. layers'[i].dev = e /\ layers'[i].at = layers[i].at /\ DOMAIN layers'[i] = DOMAIN layers[i]
        /\ \A j \in DOMAIN layers : j # i => layers'[j] = layers[j]
    BY <1>1
  <1>3. layers' = [j \in DOMAIN layers |-> layers'[j]]
    OBVIOUS
  <1>4. \A j \in DOMAIN layers : IsLayer(layers'[j]) /\ layers'[j].at = layers[j].at
    BY <1>2 DEF LayersInv, IsLayer
  <1>. QED
    BY <1>2, <1>3, <1>4 DEF Kept

\* What write does to the device it finds.
LEMMA WriteIs ==
    ASSUME LayersInv, NEW a \in Nat, NEW v, Write(a, v)
    PROVE  /\ Touch(<<a>>) /\ UNCHANGED origin
           /\ DeviceAt(a) = 0 \/ layers[DeviceAt(a)].dev.wrap # "none" => UNCHANGED layers
           /\ DeviceAt(a) # 0 /\ layers[DeviceAt(a)].dev.wrap = "none" =>
                 /\ Kept
                 /\ \A j \in DOMAIN layers : Same(layers[j].dev, layers'[j].dev)
                 /\ \A j \in DOMAIN layers : j # DeviceAt(a) => layers'[j].dev = layers[j].dev
                 /\ \E old \in Held(layers[DeviceAt(a)].dev, Offset(DeviceAt(a), a)) :
                        layers'[DeviceAt(a)].dev =
                            Recorded(layers[DeviceAt(a)].dev, Offset(DeviceAt(a), a), old, v)
  <1>. DEFINE i == DeviceAt(a)
              d == layers[i].dev
  <1>1. Touch(<<a>>) /\ UNCHANGED origin /\ (i = 0 \/ d.wrap # "none" => UNCHANGED layers)
    BY DEF Write
  <1>2. ASSUME i # 0, d.wrap = "none"
        PROVE  /\ Kept
               /\ \A j \in DOMAIN layers : Same(layers[j].dev, layers'[j].dev)
               /\ \A j \in DOMAIN layers : j # i => layers'[j].dev = layers[j].dev
               /\ \E old \in Held(d, Offset(i, a)) : layers'[i].dev = Recorded(d, Offset(i, a), old, v)
    <2>1. PICK old \in Held(d, Offset(i, a)) :
              layers' = [layers EXCEPT ![i].dev = Recorded(d, Offset(i, a), old, v)]
      BY <1>2 DEF Write
    <2>2. i \in DOMAIN layers
      BY <1>2, DeviceAtIs
    <2>3. IsDevice(d) /\ {"at", "dev"} \subseteq DOMAIN layers[i]
      BY <2>2 DEF LayersInv, IsLayer
    <2>. DEFINE e == Recorded(d, Offset(i, a), old, v)
    <2>4. Same(d, e)
      BY <2>3, RecordedByte
    <2>5. IsDevice(e) /\ layers' = [layers EXCEPT ![i].dev = e]
      BY <2>1, <2>4 DEF Same
    <2>. HIDE DEF e, i
    <2>6. Kept /\ layers'[i].dev = e /\ \A j \in DOMAIN layers : j # i => layers'[j] = layers[j]
      BY <2>2, <2>5, DeviceKept
    <2>7. \A j \in DOMAIN layers : Same(layers[j].dev, layers'[j].dev)
      BY <2>4, <2>6 DEF Same, LayersInv, IsLayer
    <2>8. layers'[i].dev = Recorded(d, Offset(i, a), old, v)
      BY <2>6 DEF e
    <2>. HIDE DEF d
    <2>. QED
      BY <2>1, <2>6, <2>7, <2>8
  <1>. QED
    BY <1>1, <1>2

LEMMA SetIs ==
    ASSUME LayersInv, NEW a \in Nat, NEW v, Set(a, v)
    PROVE  /\ Touch(<<a>>) /\ SetBefore(<<a>>)
           /\ Still(layers') /\ Elsewhere(layers', {a})
           /\ DeviceAt(a) = 0 => UNCHANGED layers
           /\ \A j \in DOMAIN layers : j # DeviceAt(a) => layers'[j].dev = layers[j].dev
           /\ DeviceAt(a) # 0 => layers'[DeviceAt(a)].dev =
                                    SetHeld(layers[DeviceAt(a)].dev, Offset(DeviceAt(a), a), v)
  <1>1. Touch(<<a>>) /\ layers' = SetIn(layers, a, v) /\ SetBefore(<<a>>)
    BY DEF Set
  <1>2. Still(layers)
    BY DEF LayersInv, IsLayer, Still, Same, Sequence
  <1>3. Elsewhere(layers, {a})
    BY DEF Elsewhere
  <1>4. a \in {a}
    OBVIOUS
  <1>. QED
    BY <1>1, <1>2, <1>3, <1>4, SetInIs

\* What becomes of the devices all at once.
LEMMA DevicesKept ==
    ASSUME LayersInv, NEW dev, layers' = [i \in DOMAIN layers |-> [layers[i] EXCEPT !.dev = dev[i]]],
           \A i \in DOMAIN layers : IsDevice(dev[i])
    PROVE  Kept /\ \A i \in DOMAIN layers : layers'[i].dev = dev[i]
  <1>1. ASSUME NEW i \in DOMAIN layers
        PROVE  IsLayer(layers'[i]) /\ layers'[i].at = layers[i].at /\ layers'[i].dev = dev[i]
    <2>1. layers'[i] = [layers[i] EXCEPT !.dev = dev[i]]
      OBVIOUS
    <2>2. IsLayer(layers[i])
      BY DEF LayersInv
    <2>. QED
      BY <2>1, <2>2 DEF IsLayer
  <1>. QED
    BY <1>1 DEF Kept

LEMMA ClearedIs ==
    ASSUME NEW d, IsDevice(d), NEW fill
    PROVE  IsDevice(Cleared(d, fill)) /\ IsDevice(ClearedThrough(d, fill))
  <1>1. \A f : IsDevice(Cleared(d, f))
    BY Sequences DEF Cleared, IsDevice, Fields
  <1>. QED
    BY <1>1 DEF ClearedThrough

LEMMA InitInv == StorageInit => LayersInv
  <1>1. StorageInit => max \in Nat /\ DOMAIN layers = {} /\ Sequence(layers) /\ touched \in Seq(Nat)
    BY StorageAssumption, Sequences DEF StorageInit
  <1>. QED
    BY <1>1, EmptyHand DEF StorageInit, LayersInv

\* The layers after a device is appended.
LEMMA AppendIs ==
    ASSUME LayersInv, NEW part \in Parts, AppendStorage(part)
    PROVE  /\ LayersInv' /\ max' = max /\ Len(layers') = Len(layers) + 1
           /\ DOMAIN layers = 1 .. Len(layers) /\ Len(layers) \in Nat
           /\ DOMAIN layers' = 1 .. Len(layers) + 1
           /\ \A i \in DOMAIN layers : layers'[i] = layers[i]
  <1>. DEFINE new == [at |-> part.at, dev |-> Device(part)]
              S == Range(layers) \cup {new}
  <1>1. IsLayer(new)
    BY StorageAssumption, Sequences DEF IsLayer, IsDevice, Device, Fields
  <1>2. layers' = Append(layers, new) /\ max' = max /\ touched' = touched /\ hand' = None
    BY DEF AppendStorage
  <1>3. layers \in Seq(S) /\ new \in S
    <2>1. layers \in Seq(Range(layers))
      BY DEF LayersInv, Sequence
    <2>. QED
      BY <2>1, SeqMonotonic
  <1>. HIDE DEF new, S
  <1>4. /\ layers' \in Seq(S) /\ Len(layers') = Len(layers) + 1 /\ Len(layers) \in Nat
        /\ DOMAIN layers = 1 .. Len(layers) /\ DOMAIN layers' = 1 .. Len(layers) + 1
        /\ layers'[Len(layers) + 1] = new /\ \A i \in DOMAIN layers : layers'[i] = layers[i]
    BY <1>2, <1>3, AppendProperties, LenProperties
  <1>5. \A i \in DOMAIN layers' : IsLayer(layers'[i])
    <2>1. \A i \in DOMAIN layers' : i \in DOMAIN layers \/ i = Len(layers) + 1
      BY <1>4
    <2>. QED
      BY <1>1, <1>4, <2>1 DEF LayersInv
  <1>6. Sequence(layers')
    BY <1>4, Sequences
  <1>. QED
    BY <1>2, <1>4, <1>5, <1>6, EmptyHand DEF LayersInv, Sequence, IsLayer, IsDevice

LEMMA StepInv ==
    ASSUME LayersInv, [StorageNext]_storageVars
    PROVE  LayersInv' /\ (Len(layers') > Len(layers) => \E part \in Parts : AppendStorage(part))
  <1>. DEFINE Result == LayersInv' /\ (Len(layers') > Len(layers) => \E part \in Parts : AppendStorage(part))
  <1>1. Len(layers) \in Nat
    BY Sequences DEF LayersInv
  <1>2. LayersInv' /\ Len(layers') = Len(layers) => Result
    BY <1>1
  <1>3. \A a \in Address : a \in Nat /\ <<a>> \in Seq(Nat)
    BY DEF Address
  <1>4. ASSUME NEW part \in Parts, AppendStorage(part) PROVE Result
    BY <1>4, AppendIs
  <1>5. ASSUME NEW a \in Address, NEW v \in Values, Write(a, v) PROVE Result
    <2>1. Touch(<<a>>) /\ (Kept \/ UNCHANGED layers)
      BY <1>3, <1>5, WriteIs
    <2>2. max' = max /\ hand' = None /\ touched' \in Seq(Nat) /\ None.changes = << >>
      BY <1>3, <2>1, TouchIs
    <2>3. Kept
      BY <2>1 DEF Kept, LayersInv, Sequence
    <2>. QED
      BY <1>2, <2>2, <2>3, EmptyHand, KeptInv DEF LayersInv
  <1>6. ASSUME NEW a \in Address, NEW v \in Values, Set(a, v) PROVE Result
    <2>1. Touch(<<a>>) /\ Kept
      BY <1>3, <1>6, SetIs, StillKept
    <2>2. max' = max /\ hand' = None /\ touched' \in Seq(Nat) /\ None.changes = << >>
      BY <1>3, <2>1, TouchIs
    <2>. QED
      BY <1>2, <2>1, <2>2, EmptyHand, KeptInv DEF LayersInv
  <1>7. ASSUME NEW load \in Loads, LoadBytes(load.at, load.bytes) PROVE Result
    <2>1. PICK where \in Seq(Nat) : Touch(where) /\ Still(layers')
      BY <1>7, LoadBytesIs
    <2>2. max' = max /\ hand' = None /\ touched' \in Seq(Nat) /\ None.changes = << >>
      BY <2>1, TouchIs
    <2>3. Kept
      BY <2>1, StillKept
    <2>. QED
      BY <1>2, <2>2, <2>3, EmptyHand, KeptInv DEF LayersInv
  <1>8. ASSUME NEW fill \in Fills, Clear(fill) PROVE Result
    <2>. DEFINE dev == [i \in DOMAIN layers |-> ClearedThrough(layers[i].dev, fill)]
    <2>1. /\ layers' = [i \in DOMAIN layers |-> [layers[i] EXCEPT !.dev = dev[i]]]
          /\ max' = max /\ hand' = None /\ touched' = << >>
      BY <1>8 DEF Clear, Devices
    <2>2. \A i \in DOMAIN layers : IsDevice(dev[i])
      BY ClearedIs DEF LayersInv, IsLayer
    <2>. HIDE DEF dev
    <2>3. Kept
      BY <2>1, <2>2, DevicesKept
    <2>. QED
      BY <1>2, <2>1, <2>3, EmptyHand, KeptInv DEF LayersInv
  <1>9. ASSUME NEW n \in Sizes, Resize(n) PROVE Result
    <2>. DEFINE dev == [i \in DOMAIN layers |-> ClearedThrough(layers[i].dev, Zero)]
    <2>1. /\ layers' = [i \in DOMAIN layers |-> [layers[i] EXCEPT !.dev = dev[i]]]
          /\ max' = n /\ hand' = None /\ touched' = << >>
      BY <1>9 DEF Resize, Devices
    <2>2. \A i \in DOMAIN layers : IsDevice(dev[i])
      BY ClearedIs DEF LayersInv, IsLayer
    <2>. HIDE DEF dev
    <2>3. Kept
      BY <2>1, <2>2, DevicesKept
    <2>4. n \in Nat
      BY StorageAssumption
    <2>. QED
      BY <1>2, <2>1, <2>3, <2>4, EmptyHand, KeptInv DEF LayersInv
  <1>10. ASSUME NEW i \in DOMAIN layers, NEW n \in DeviceSizes, ResizeDevice(i, n) PROVE Result
    <2>. DEFINE e == Resized(layers[i].dev, n)
    <2>1. /\ layers' = [layers EXCEPT ![i].dev = e]
          /\ max' = max /\ hand' = None /\ touched' = touched
      BY <1>10 DEF ResizeDevice
    <2>2. IsDevice(e)
      <3>1. \A cells : IsDevice([layers[i].dev EXCEPT !.max = n, !.cells = cells])
        BY DEF LayersInv, IsLayer, IsDevice, Fields
      <3>. QED
        BY <3>1, ClearedIs DEF Resized
    <2>. HIDE DEF e
    <2>3. Kept
      BY <2>1, <2>2, DeviceKept
    <2>. QED
      BY <1>2, <2>1, <2>3, EmptyHand, KeptInv DEF LayersInv
  <1>11. ASSUME TakeDelta \/ ClearDelta PROVE Result
    <2>. DEFINE dev == [i \in DOMAIN layers |-> [layers[i].dev EXCEPT !.delta = << >>]]
    <2>1. /\ layers' = [i \in DOMAIN layers |-> [layers[i] EXCEPT !.dev = dev[i]]]
          /\ max' = max /\ touched' = << >>
      BY <1>11 DEF TakeDelta, ClearDelta, Devices
    <2>2. \A i \in DOMAIN layers : IsDevice(dev[i]) /\ Sequence(layers[i].dev.delta)
      BY Sequences DEF LayersInv, IsLayer, IsDevice, Fields
    <2>. HIDE DEF dev
    <2>3. Kept
      BY <2>1, <2>2, DevicesKept
    <2>4. /\ {"changes", "undone", "before", "after", "once"} \subseteq DOMAIN hand'
          /\ hand'.changes # << >> => /\ DOMAIN hand'.changes = DOMAIN layers
                                      /\ \A i \in DOMAIN layers : Sequence(hand'.changes[i])
      <3>1. CASE TakeDelta
        BY <2>2, <3>1 DEF TakeDelta
      <3>2. CASE ClearDelta
        BY <3>2, EmptyHand DEF ClearDelta
      <3>. QED
        BY <1>11, <3>1, <3>2
    <2>. QED
      BY <1>2, <2>1, <2>3, <2>4, KeptInv DEF LayersInv
  <1>12. ASSUME NEW side, NEW undone, ApplyGroup(hand.changes, side), hand.changes # << >>,
                hand' = [hand EXCEPT !.undone = undone], max' = max, touched' = touched
         PROVE  Result
    <2>. DEFINE dev == [i \in DOMAIN layers |-> Applied(layers[i].dev, hand.changes[i], side)]
    <2>1. layers' = [i \in DOMAIN layers |-> [layers[i] EXCEPT !.dev = dev[i]]]
      BY <1>12 DEF ApplyGroup, Devices
    <2>2. \A i \in DOMAIN layers : IsDevice(dev[i])
      BY <1>12, AppliedIs DEF LayersInv, IsLayer, Same
    <2>. HIDE DEF dev
    <2>3. Kept
      BY <2>1, <2>2, DevicesKept
    <2>4. DOMAIN hand' = DOMAIN hand /\ hand'.changes = hand.changes
      BY <1>12 DEF LayersInv
    <2>. QED
      BY <1>2, <1>12, <2>3, <2>4, KeptInv DEF LayersInv
  <1>13. ASSUME ApplyBackward \/ ApplyForward PROVE Result
    BY <1>12, <1>13 DEF ApplyBackward, ApplyForward
  <1>14. ASSUME UNCHANGED storageVars PROVE Result
    BY <1>1, <1>14 DEF storageVars, LayersInv, Sequence, IsLayer, IsDevice
  <1>. QED
    BY <1>4, <1>5, <1>6, <1>7, <1>8, <1>9, <1>10, <1>11, <1>13, <1>14 DEF StorageNext

-----------------------------------------------------------------------------
(* One memory. *)

\* The layers are a sequence of devices and a delta to apply is one of theirs, always.
THEOREM LayersStaySound == StorageSpec => []LayersInv
  <1>1. LayersInv /\ [StorageNext]_storageVars => LayersInv'
    BY StepInv
  <1>. QED
    BY InitInv, <1>1, PTL DEF StorageSpec

\* A device appended is found where no device was found before.
LEMMA AppendHides ==
    ASSUME LayersInv, NEW part \in Parts, AppendStorage(part), NEW a, DeviceAt(a) # 0
    PROVE  DeviceAt(a)' = DeviceAt(a)
  <1>1. /\ max' = max /\ Len(layers) \in Nat
        /\ DOMAIN layers = 1 .. Len(layers) /\ DOMAIN layers' = 1 .. Len(layers) + 1
        /\ \A i \in DOMAIN layers : layers'[i] = layers[i]
    BY AppendIs
  <1>. DEFINE later == {i \in DOMAIN layers' : Reaches(layers'[i], a)}
              Found(h, m) == IF a > m \/ h = {} THEN 0 ELSE CHOOSE i \in h : \A j \in h : i <= j
  <1>2. DeviceAt(a)' = Found(later, max)
    BY <1>1 DEF DeviceAt, Reaches
  <1>3. DeviceAt(a) \in DOMAIN layers /\ Reaches(layers[DeviceAt(a)], a) /\ ~(a > max)
        /\ \A j \in DOMAIN layers : Reaches(layers[j], a) => DeviceAt(a) <= j
    BY DeviceAtIs
  <1>4. DeviceAt(a) \in later
    BY <1>1, <1>3
  <1>5. ASSUME NEW j \in later PROVE DeviceAt(a) <= j
    <2>1. CASE j \in DOMAIN layers
      BY <1>1, <1>3, <2>1
    <2>2. CASE j \notin DOMAIN layers
      <3>1. j = Len(layers) + 1
        BY <1>1, <2>2
      <3>. QED
        BY <1>1, <1>3, <3>1
    <2>. QED
      BY <2>1, <2>2
  <1>6. later \in SUBSET (1 .. Len(layers) + 1) /\ Len(layers) + 1 \in Nat
    BY <1>1
  <1>. HIDE DEF later
  <1>7. DeviceAt(a) = CHOOSE i \in later : \A j \in later : i <= j
    BY <1>4, <1>5, <1>6, First
  <1>. QED
    BY <1>2, <1>3, <1>4, <1>7

\* And only there.
LEMMA AppendFinds ==
    ASSUME LayersInv, NEW part \in Parts, AppendStorage(part), NEW a, DeviceAt(a) = 0, DeviceAt(a)' # 0
    PROVE  DeviceAt(a)' \in DOMAIN layers' /\ DeviceAt(a)' \notin DOMAIN layers
  <1>1. /\ max' = max /\ Len(layers) \in Nat
        /\ DOMAIN layers = 1 .. Len(layers) /\ DOMAIN layers' = 1 .. Len(layers) + 1
        /\ \A i \in DOMAIN layers : layers'[i] = layers[i]
    BY AppendIs
  <1>. DEFINE later == {i \in DOMAIN layers' : Reaches(layers'[i], a)}
              Found(h, m) == IF a > m \/ h = {} THEN 0 ELSE CHOOSE i \in h : \A j \in h : i <= j
  <1>2. DeviceAt(a)' = Found(later, max)
    BY <1>1 DEF DeviceAt, Reaches
  <1>3. later # {} /\ ~(a > max) /\ DeviceAt(a)' = CHOOSE i \in later : \A j \in later : i <= j
    <2>. HIDE DEF later
    <2>. QED
      BY <1>2
  <1>4. later \in SUBSET (1 .. Len(layers) + 1) /\ Len(layers) + 1 \in Nat
    BY <1>1
  <1>5. DeviceAt(a)' \in later
    <2>. HIDE DEF later
    <2>. QED
      BY <1>3, <1>4, First
  <1>6. \A i \in DOMAIN layers : ~Reaches(layers[i], a)
    <2>. SUFFICES ASSUME NEW i \in DOMAIN layers, Reaches(layers[i], a) PROVE FALSE
      OBVIOUS
    <2>. DEFINE hits == {j \in DOMAIN layers : Reaches(layers[j], a)}
    <2>1. hits # {} /\ hits \in SUBSET (1 .. Len(layers))
      BY <1>1
    <2>2. DeviceAt(a) = CHOOSE j \in hits : \A m \in hits : j <= m
      BY <1>3, <2>1 DEF DeviceAt
    <2>. HIDE DEF hits
    <2>3. DeviceAt(a) \in 1 .. Len(layers)
      BY <1>1, <2>1, <2>2, First
    <2>. QED
      BY <2>3
  <1>7. ASSUME DeviceAt(a)' \in DOMAIN layers PROVE FALSE
    BY <1>1, <1>5, <1>6, <1>7
  <1>. QED
    BY <1>5, <1>7

\* A write or a set changes the byte it names.
LEMMA WriteOneByte ==
    ASSUME LayersInv, NEW a \in Nat, NEW v, Write(a, v)
    PROVE  Flat' = IF a \in Writable THEN [Flat EXCEPT ![a] = v] ELSE Flat
  <1>. DEFINE d == layers[DeviceAt(a)].dev
  <1>1. max' = max
    <2>1. <<a>> \in Seq(Nat)
      OBVIOUS
    <2>. QED
      BY <2>1, WriteIs, TouchIs
  <1>2. MemoryIs
    BY MemoryKnown
  <1>3. CASE DeviceAt(a) = 0 \/ d.wrap # "none"
    <2>1. layers' = layers
      BY <1>3, WriteIs
    <2>2. Flat' = Flat
      BY <1>1, <2>1 DEF Flat, Seen, Visible, ByteAt, Held, Offset, DeviceAt, Reaches
    <2>3. a \notin Writable
      BY <1>2, <1>3 DEF Writable, MemoryIs
    <2>. QED
      BY <2>2, <2>3
  <1>4. CASE DeviceAt(a) # 0 /\ d.wrap = "none"
    <2>1. /\ Kept
          /\ \A j \in DOMAIN layers : Same(layers[j].dev, layers'[j].dev)
          /\ \A j \in DOMAIN layers : j # DeviceAt(a) => layers'[j].dev = layers[j].dev
          /\ \E old : layers'[DeviceAt(a)].dev = Recorded(d, Offset(DeviceAt(a), a), old, v)
      BY <1>4, WriteIs
    <2>2. IsDevice(d)
      BY <1>4, DeviceAtIs DEF LayersInv, IsLayer
    <2>3. d.kind # "range" => \A p : Get(layers'[DeviceAt(a)].dev, p) =
                                  IF p = Offset(DeviceAt(a), a) THEN v ELSE Get(d, p)
      <3>1. PICK old : layers'[DeviceAt(a)].dev = Recorded(d, Offset(DeviceAt(a), a), old, v)
        BY <2>1
      <3>. SUFFICES ASSUME d.kind # "range", NEW p
                    PROVE  Get(layers'[DeviceAt(a)].dev, p) =
                              IF p = Offset(DeviceAt(a), a) THEN v ELSE Get(d, p)
        OBVIOUS
      <3>2. Get(Recorded(d, Offset(DeviceAt(a), a), old, v), p) =
               IF p = Offset(DeviceAt(a), a) THEN v ELSE Get(d, p)
        BY <2>2, RecordedByte
      <3>. QED
        BY <3>1, <3>2
    <2>4. Flat' = IF a \in Visible THEN [Flat EXCEPT ![a] = v] ELSE Flat
      BY <1>1, <1>4, <2>1, <2>3, OneByte
    <2>5. a \in Writable <=> a \in Visible
      BY <1>4 DEF Writable
    <2>. QED
      BY <2>4, <2>5
  <1>. QED
    BY <1>3, <1>4

LEMMA SetOneByte ==
    ASSUME LayersInv, NEW a \in Nat, NEW v, Set(a, v)
    PROVE  Flat' = IF a \in DOMAIN Flat THEN [Flat EXCEPT ![a] = v] ELSE Flat
  <1>. DEFINE d == layers[DeviceAt(a)].dev
  <1>1. max' = max
    <2>1. <<a>> \in Seq(Nat)
      OBVIOUS
    <2>. QED
      BY <2>1, SetIs, TouchIs
  <1>2. MemoryIs /\ DOMAIN Flat = Visible
    BY MemoryKnown DEF MemoryIs
  <1>3. CASE DeviceAt(a) = 0
    <2>1. layers' = layers
      BY <1>3, SetIs
    <2>2. Flat' = Flat
      BY <1>1, <2>1 DEF Flat, Seen, Visible, ByteAt, Held, Offset, DeviceAt, Reaches
    <2>3. a \notin Visible
      BY <1>2, <1>3 DEF MemoryIs
    <2>. QED
      BY <1>2, <2>2, <2>3
  <1>4. CASE DeviceAt(a) # 0
    <2>1. /\ Kept
          /\ \A j \in DOMAIN layers : Same(layers[j].dev, layers'[j].dev)
          /\ \A j \in DOMAIN layers : j # DeviceAt(a) => layers'[j].dev = layers[j].dev
          /\ layers'[DeviceAt(a)].dev = SetHeld(d, Offset(DeviceAt(a), a), v)
      BY <1>4, SetIs, StillKept
    <2>2. IsDevice(d)
      BY <1>4, DeviceAtIs DEF LayersInv, IsLayer
    <2>3. d.kind # "range" => \A p : Get(layers'[DeviceAt(a)].dev, p) =
                                  IF p = Offset(DeviceAt(a), a) THEN v ELSE Get(d, p)
      BY <2>1, <2>2, SetHeldIs
    <2>4. Flat' = IF a \in Visible THEN [Flat EXCEPT ![a] = v] ELSE Flat
      BY <1>1, <1>4, <2>1, <2>3, OneByte
    <2>. QED
      BY <1>2, <2>4
  <1>. QED
    BY <1>3, <1>4

LEMMA AppendKeepsBytes ==
    ASSUME LayersInv, NEW part \in Parts, AppendStorage(part), NEW a \in DOMAIN Flat
    PROVE  a \in DOMAIN Flat' /\ Flat'[a] = Flat[a]
  <1>1. MemoryIs /\ MemoryIs'
    BY MemoryKnown, PTL
  <1>2. a \in Visible /\ DeviceAt(a) # 0 /\ a \in Address /\ layers[DeviceAt(a)].dev.kind # "range"
    BY <1>1 DEF MemoryIs
  <1>3. DeviceAt(a)' = DeviceAt(a) /\ layers'[DeviceAt(a)] = layers[DeviceAt(a)]
    BY <1>2, AppendHides, AppendIs, DeviceAtIs
  <1>4. Visible' = {b \in Address : DeviceAt(b)' # 0 /\ layers'[DeviceAt(b)'].dev.kind # "range"}
        /\ Flat' = [b \in Visible' |-> Get(layers'[DeviceAt(b)'].dev, b - layers'[DeviceAt(b)'].at)]
    BY <1>1 DEF MemoryIs, Address, Offset, Get
  <1>5. a \in Visible'
    BY <1>2, <1>3, <1>4
  <1>6. Flat[a] = Get(layers[DeviceAt(a)].dev, a - layers[DeviceAt(a)].at)
    BY <1>1, <1>2 DEF MemoryIs, Offset
  <1>. QED
    BY <1>3, <1>4, <1>5, <1>6

\* A write or a set changes the one byte it names, and in no other device;
\* append_storage hides nothing that was there.
THEOREM LayersActAsOneMemory == StorageSpec => ActsAsOneMemory
  <1>. DEFINE Step ==
          /\ \A a \in Named, v \in Values :
                LET mem == Flat
                IN  /\ Write(a, v) => Flat' = IF a \in Writable THEN [mem EXCEPT ![a] = v] ELSE mem
                    /\ Set(a, v) => Flat' = IF a \in DOMAIN mem THEN [mem EXCEPT ![a] = v] ELSE mem
          /\ Len(layers') > Len(layers) =>
                LET mem == Flat
                    grown == Flat'
                IN  \A a \in DOMAIN mem : a \in DOMAIN grown /\ grown[a] = mem[a]
  <1>1. ASSUME LayersInv, [StorageNext]_storageVars
        PROVE  Step
    <2>1. LayersInv' /\ (Len(layers') > Len(layers) => \E part \in Parts : AppendStorage(part))
      BY <1>1, StepInv
    <2>2. ASSUME NEW a \in Named PROVE a \in Nat
      <3>1. Len(touched') = Len(touched) + 1 /\ a = touched'[Len(touched')]
        BY DEF Named, Last
      <3>2. touched \in Seq(Nat) /\ touched' \in Seq(Nat)
        BY <1>1, <2>1 DEF LayersInv
      <3>. QED
        BY <3>1, <3>2
    <2>3. ASSUME NEW a \in Named, NEW v \in Values
          PROVE  /\ Write(a, v) => Flat' = IF a \in Writable THEN [Flat EXCEPT ![a] = v] ELSE Flat
                 /\ Set(a, v) => Flat' = IF a \in DOMAIN Flat THEN [Flat EXCEPT ![a] = v] ELSE Flat
      BY <1>1, <2>2, WriteOneByte, SetOneByte
    <2>4. Len(layers') > Len(layers) => \A a \in DOMAIN Flat : a \in DOMAIN Flat' /\ Flat'[a] = Flat[a]
      BY <1>1, <2>1, AppendKeepsBytes
    <2>. QED
      BY <2>3, <2>4
  <1>. QED
    BY <1>1, LayersStaySound, PTL DEF StorageSpec, ActsAsOneMemory

-----------------------------------------------------------------------------
(* Deltas. *)

\* The byte at offset o, its value before the changes of a device and its value after:
\* one change says both, or there is none.
Explained(c, o, before, after) ==
    /\ \A k \in DOMAIN c : c[k].at = o => /\ c[k].old = before /\ c[k].new = after
                                         /\ \A m \in DOMAIN c : c[m].at = o => m = k
    /\ (\A k \in DOMAIN c : c[k].at # o) => before = after

\* The open deltas.
Deltas == [i \in DOMAIN layers |-> layers[i].dev.delta]

Explains(slot, changes, before, after) ==
    \A a \in DOMAIN slot : Explained(changes[slot[a].dev], slot[a].at, before[a], after[a])

\* The open deltas hold changes to what was touched, and where no byte was touched twice
\* they lead from the memory in which they began to the memory as it is.
DeltasOpen ==
    /\ \A i \in DOMAIN layers : \A k \in DOMAIN layers[i].dev.delta :
          layers[i].dev.delta[k].at \in Nat /\ layers[i].dev.delta[k].at + layers[i].at \in Range(touched)
    /\ origin = [a \in Visible |-> origin[a]]
    /\ IsInjective(touched) => Explains(Slot, Deltas, origin, Flat)

\* So does a delta that was taken, and the memory is at one of its ends.
HandInv ==
    hand.changes # << >> =>
       /\ touched = << >>
       /\ hand.before = [a \in Visible |-> hand.before[a]]
       /\ hand.after = [a \in Visible |-> hand.after[a]]
       /\ hand.once => /\ Explains(Slot, hand.changes, hand.before, hand.after)
                       /\ Flat = IF hand.undone THEN hand.before ELSE hand.after

DeltasInv == DeltasOpen /\ HandInv

\* The deltas begin.
Settled == (\A i \in DOMAIN layers : DOMAIN layers[i].dev.delta = {}) /\ origin = Flat

LEMMA SettledOpen == LayersInv /\ Settled => DeltasOpen
  <1>. SUFFICES ASSUME LayersInv, Settled PROVE DeltasOpen
    OBVIOUS
  <1>1. \A i \in DOMAIN layers : DOMAIN layers[i].dev.delta = {}
    BY DEF Settled
  <1>2. MemoryIs
    BY MemoryKnown
  <1>3. origin = [a \in Visible |-> origin[a]]
    BY <1>2 DEF Settled, MemoryIs
  <1>4. ASSUME NEW a \in DOMAIN Slot
        PROVE  Explained(Deltas[Slot[a].dev], Slot[a].at, origin[a], Flat[a])
    <2>1. Slot[a].dev \in DOMAIN layers
      BY <1>2, DeviceAtIs DEF Slot, MemoryIs
    <2>2. DOMAIN Deltas[Slot[a].dev] = {}
      BY <1>1, <2>1 DEF Deltas
    <2>. QED
      BY <2>2 DEF Explained, Settled
  <1>. QED
    BY <1>1, <1>3, <1>4 DEF DeltasOpen, Explains

\* What was touched and what is touched now.
LEMMA Concat ==
    ASSUME NEW s \in Seq(Nat), NEW t \in Seq(Nat)
    PROVE  /\ Range(s) \subseteq Range(s \o t)
           /\ IsInjective(s \o t) => IsInjective(s) /\ \A a \in Range(t) : a \notin Range(s)
  <1>1. /\ Len(s) \in Nat /\ Len(t) \in Nat
        /\ DOMAIN s = 1 .. Len(s) /\ DOMAIN t = 1 .. Len(t) /\ DOMAIN (s \o t) = 1 .. Len(s) + Len(t)
        /\ \A i \in 1 .. Len(s) : (s \o t)[i] = s[i]
        /\ \A j \in 1 .. Len(t) : (s \o t)[Len(s) + j] = t[j]
    <2>1. /\ s \o t \in Seq(Nat) /\ Len(s \o t) = Len(s) + Len(t)
          /\ \A i \in 1 .. Len(s) + Len(t) : (s \o t)[i] = IF i <= Len(s) THEN s[i] ELSE t[i - Len(s)]
      BY ConcatProperties
    <2>2. Len(s) \in Nat /\ Len(t) \in Nat /\ DOMAIN s = 1 .. Len(s) /\ DOMAIN t = 1 .. Len(t)
          /\ DOMAIN (s \o t) = 1 .. Len(s) + Len(t)
      BY <2>1, LenProperties
    <2>3. ASSUME NEW i \in 1 .. Len(s) PROVE (s \o t)[i] = s[i]
      BY <2>1, <2>2
    <2>4. ASSUME NEW j \in 1 .. Len(t) PROVE (s \o t)[Len(s) + j] = t[j]
      <3>1. Len(s) + j \in 1 .. Len(s) + Len(t) /\ ~(Len(s) + j <= Len(s)) /\ Len(s) + j - Len(s) = j
        BY <2>2
      <3>. QED
        BY <2>1, <3>1
    <2>. QED
      BY <2>2, <2>3, <2>4
  <1>. DEFINE u == s \o t
  <1>. HIDE DEF u
  <1>2. /\ DOMAIN u = 1 .. Len(s) + Len(t)
        /\ \A i \in 1 .. Len(s) : u[i] = s[i] /\ i \in DOMAIN u
        /\ \A j \in 1 .. Len(t) : u[Len(s) + j] = t[j] /\ Len(s) + j \in DOMAIN u /\ Len(s) + j \notin 1 .. Len(s)
    BY <1>1 DEF u
  <1>3. Range(s) \subseteq Range(u)
    BY <1>1, <1>2 DEF Range
  <1>4. ASSUME IsInjective(u) PROVE IsInjective(s)
    BY <1>1, <1>2, <1>4 DEF IsInjective
  <1>5. ASSUME IsInjective(u), NEW a \in Range(t) PROVE a \notin Range(s)
    <2>1. PICK j \in 1 .. Len(t) : a = t[j]
      BY <1>1 DEF Range
    <2>2. ASSUME NEW i \in 1 .. Len(s) PROVE s[i] # a
      <3>1. u[i] = s[i] /\ u[Len(s) + j] = a /\ i \in DOMAIN u /\ Len(s) + j \in DOMAIN u /\ i # Len(s) + j
        BY <1>2, <2>1
      <3>. QED
        BY <1>5, <3>1 DEF IsInjective
    <2>. QED
      BY <1>1, <2>2 DEF Range
  <1>. QED
    BY <1>3, <1>4, <1>5 DEF u

\* No change is to a byte that was not touched.
LEMMA NotTouched ==
    ASSUME LayersInv, DeltasOpen, NEW i \in DOMAIN layers, NEW a \in Nat, a \notin Range(touched)
    PROVE  \A k \in DOMAIN layers[i].dev.delta : layers[i].dev.delta[k].at # Offset(i, a)
  <1>. SUFFICES ASSUME NEW k \in DOMAIN layers[i].dev.delta, layers[i].dev.delta[k].at = Offset(i, a)
                PROVE  FALSE
    OBVIOUS
  <1>1. layers[i].at \in Nat
    BY DEF LayersInv, IsLayer
  <1>2. Offset(i, a) + layers[i].at = a
    BY <1>1 DEF Offset
  <1>. QED
    BY <1>2 DEF DeltasOpen

\* A delta e is c and one change more.
Longer(e, c, at, old, new) ==
    \E n \in Nat : /\ DOMAIN c = 1 .. n /\ DOMAIN e = 1 .. n + 1
                   /\ \A k \in 1 .. n : e[k] = c[k]
                   /\ e[n + 1].at = at /\ e[n + 1].old = old /\ e[n + 1].new = new

\* A change recorded last, for a byte without one before.
LEMMA OneMore ==
    ASSUME NEW c, NEW e, NEW at, NEW o, NEW v, Longer(e, c, at, o, v)
    PROVE  /\ (\A k \in DOMAIN c : c[k].at # at) => Explained(e, at, o, v)
           /\ \A p, before, after : p # at /\ Explained(c, p, before, after) => Explained(e, p, before, after)
           /\ \A k \in DOMAIN e : (k \in DOMAIN c /\ e[k] = c[k]) \/ e[k].at = at
  <1>. PICK n \in Nat : /\ DOMAIN c = 1 .. n /\ DOMAIN e = 1 .. n + 1
                        /\ \A k \in 1 .. n : e[k] = c[k]
                        /\ e[n + 1].at = at /\ e[n + 1].old = o /\ e[n + 1].new = v
    BY DEF Longer
  <1>1. \A k \in 1 .. n + 1 : k \in 1 .. n \/ k = n + 1
    OBVIOUS
  <1>2. n + 1 \in DOMAIN e /\ \A k \in 1 .. n : k \in DOMAIN e
    OBVIOUS
  <1>3. ASSUME \A k \in DOMAIN c : c[k].at # at
        PROVE  Explained(e, at, o, v)
    <2>1. \A k \in DOMAIN e : e[k].at = at => k = n + 1
      BY <1>1, <1>3
    <2>. QED
      BY <1>2, <2>1 DEF Explained
  <1>4. ASSUME NEW p, NEW before, NEW after, p # at, Explained(c, p, before, after)
        PROVE  Explained(e, p, before, after)
    <2>1. \A k \in DOMAIN e : e[k].at = p => k \in DOMAIN c /\ e[k] = c[k] /\ c[k].at = p
      BY <1>1, <1>4
    <2>2. \A k \in DOMAIN c : k \in DOMAIN e /\ e[k] = c[k]
      BY <1>2
    <2>. QED
      BY <1>4, <2>1, <2>2 DEF Explained
  <1>. QED
    BY <1>1, <1>3, <1>4

\* What a write records.
LEMMA RecordedDelta ==
    ASSUME NEW d, IsDevice(d), NEW o, NEW old, NEW v
    PROVE  Longer(Recorded(d, o, old, v).delta, d.delta, o, old, v)
  <1>. DEFINE entry == [at |-> o, old |-> old, new |-> v]
              e == [d EXCEPT !.delta = Append(@, entry)]
              U == Range(d.delta) \cup {entry}
              n == Len(d.delta)
  <1>1. entry.at = o /\ entry.old = old /\ entry.new = v
    OBVIOUS
  <1>2. d.delta \in Seq(U) /\ entry \in U
    <2>1. d.delta \in Seq(Range(d.delta))
      BY DEF IsDevice, Sequence
    <2>. QED
      BY <2>1, SeqMonotonic
  <1>3. Recorded(d, o, old, v) = SetHeld(e, o, v)
    BY DEF Recorded
  <1>. HIDE DEF entry, U
  <1>4. n \in Nat /\ DOMAIN d.delta = 1 .. n
    BY <1>2, LenProperties
  <1>5. /\ Append(d.delta, entry) \in Seq(U)
        /\ DOMAIN Append(d.delta, entry) = 1 .. n + 1 /\ Append(d.delta, entry)[n + 1] = entry
        /\ \A k \in 1 .. n : Append(d.delta, entry)[k] = d.delta[k]
    BY <1>2, <1>4, AppendProperties, LenProperties
  <1>6. Sequence(Append(d.delta, entry))
    BY <1>5, Sequences
  <1>7. e.delta = Append(d.delta, entry) /\ IsDevice(e)
    BY <1>6 DEF IsDevice, Fields
  <1>. HIDE DEF e
  <1>8. Recorded(d, o, old, v).delta = Append(d.delta, entry)
    BY <1>3, <1>7, SetHeldIs
  <1>. QED
    BY <1>1, <1>4, <1>5, <1>8 DEF Longer

LEMMA WriteOpen ==
    ASSUME LayersInv, DeltasOpen, NEW a \in Nat, NEW v, Write(a, v)
    PROVE  DeltasOpen'
  <1>. DEFINE i == DeviceAt(a)
              d == layers[i].dev
  <1>1. <<a>> \in Seq(Nat) /\ a \in Range(<<a>>) /\ touched \in Seq(Nat)
    BY DEF Range, LayersInv
  <1>2. max' = max /\ origin' = origin /\ touched' = touched \o <<a>>
    BY <1>1, WriteIs, TouchIs
  <1>3. /\ Range(touched) \subseteq Range(touched')
        /\ IsInjective(touched') => IsInjective(touched) /\ a \notin Range(touched)
    BY <1>1, <1>2, Concat
  <1>4. CASE i = 0 \/ d.wrap # "none"
    <2>1. layers' = layers
      BY <1>4, WriteIs
    <2>2. Slot' = Slot /\ Visible' = Visible /\ Flat' = Flat /\ Deltas' = Deltas
      BY <1>2, <2>1 DEF Slot, Deltas, Flat, Seen, Visible, ByteAt, Held, Offset, DeviceAt, Reaches
    <2>. QED
      BY <1>2, <1>3, <2>1, <2>2 DEF DeltasOpen
  <1>5. CASE i # 0 /\ d.wrap = "none"
    <2>1. /\ Kept
          /\ \A j \in DOMAIN layers : Same(layers[j].dev, layers'[j].dev)
          /\ \A j \in DOMAIN layers : j # i => layers'[j].dev = layers[j].dev
      BY <1>5, WriteIs
    <2>2. PICK old \in Held(d, Offset(i, a)) : layers'[i].dev = Recorded(d, Offset(i, a), old, v)
      BY <1>5, WriteIs
    <2>3. i \in DOMAIN layers /\ Reaches(layers[i], a)
      BY <1>5, DeviceAtIs
    <2>4. IsDevice(d) /\ layers[i].at \in Nat
      BY <2>3 DEF LayersInv, IsLayer
    <2>5. Offset(i, a) \in Nat /\ Offset(i, a) + layers[i].at = a
      BY <2>3, <2>4 DEF Reaches, Offset
    <2>. DEFINE c == layers'[i].dev.delta
                o == Offset(i, a)
    <2>6. Longer(c, d.delta, o, old, v)
      <3>1. Longer(Recorded(d, o, old, v).delta, d.delta, o, old, v)
        BY <2>4, RecordedDelta
      <3>. QED
        BY <2>2, <3>1
    <2>7. ASSUME NEW j \in DOMAIN layers', NEW k \in DOMAIN layers'[j].dev.delta
          PROVE  layers'[j].dev.delta[k].at \in Nat
                 /\ layers'[j].dev.delta[k].at + layers'[j].at \in Range(touched')
      <3>1. j \in DOMAIN layers /\ layers'[j].at = layers[j].at
        BY <2>1 DEF Kept
      <3>2. CASE k \in DOMAIN layers[j].dev.delta /\ layers'[j].dev.delta[k] = layers[j].dev.delta[k]
        BY <1>3, <3>1, <3>2 DEF DeltasOpen
      <3>3. CASE j = i /\ c[k].at = o
        <4>1. a \in Range(touched')
          <5>1. touched' \in Seq(Nat) /\ Len(touched') = Len(touched) + 1 /\ touched'[Len(touched')] = a
            BY <1>1, <1>2
          <5>. QED
            BY <5>1 DEF Range
        <4>. QED
          BY <2>5, <3>1, <3>3, <4>1
      <3>4. CASE j = i /\ ~(c[k].at = o)
        <4>1. \A m \in DOMAIN c : (m \in DOMAIN d.delta /\ c[m] = d.delta[m]) \/ c[m].at = o
          <5>. HIDE DEF c, d, o
          <5>. QED
            BY <2>6, OneMore
        <4>. QED
          BY <3>2, <3>4, <4>1
      <3>. QED
        BY <2>1, <3>1, <3>2, <3>3, <3>4
    <2>8. /\ Visible' = Visible /\ Slot' = Slot /\ DOMAIN Slot = Visible /\ Visible \subseteq Nat
          /\ Flat = [b \in Visible |-> Get(layers[DeviceAt(b)].dev, Offset(DeviceAt(b), b))]
          /\ \A b \in Visible : /\ Slot[b].dev = DeviceAt(b) /\ Slot[b].at = Offset(DeviceAt(b), b)
                                /\ DeviceAt(b) \in DOMAIN layers /\ layers[DeviceAt(b)].dev.kind # "range"
                                /\ layers[DeviceAt(b)].at \in Nat
      BY <1>2, <2>1, PlacesKept
    <2>9. d.kind # "range" => \A p : Get(layers'[i].dev, p) = IF p = o THEN v ELSE Get(d, p)
      <3>1. d.kind # "range" => \A p : Get(Recorded(d, o, old, v), p) = IF p = o THEN v ELSE Get(d, p)
        BY <2>4, RecordedByte
      <3>. QED
        BY <2>2, <3>1
    <2>10. Flat' = IF a \in Visible THEN [Flat EXCEPT ![a] = v] ELSE Flat
      BY <1>2, <1>5, <2>1, <2>9, OneByte
    <2>11. ASSUME IsInjective(touched'), NEW b \in Visible
           PROVE  Explained(layers'[DeviceAt(b)].dev.delta, Offset(DeviceAt(b), b), origin[b], Flat'[b])
      <3>1. Explained(layers[DeviceAt(b)].dev.delta, Offset(DeviceAt(b), b), origin[b], Flat[b])
        BY <1>3, <2>8, <2>11 DEF DeltasOpen, Explains, Deltas
      <3>2. CASE b = a
        <4>1. \A k \in DOMAIN d.delta : d.delta[k].at # o
          BY <1>3, <2>3, <2>11, NotTouched
        <4>2. origin[a] = Flat[a]
          BY <3>1, <3>2, <4>1 DEF Explained
        <4>3. old = Flat[a]
          BY <2>2, <2>8, <3>2, HeldIs
        <4>4. Flat'[a] = v
          BY <2>8, <2>10, <3>2
        <4>5. Explained(c, o, old, v)
          <5>. HIDE DEF c, o, d
          <5>. QED
            BY <2>6, <4>1, OneMore
        <4>. QED
          BY <3>2, <4>2, <4>3, <4>4, <4>5
      <3>3. CASE b # a
        <4>1. Flat'[b] = Flat[b]
          BY <2>8, <2>10, <3>3
        <4>2. CASE DeviceAt(b) # i
          BY <2>1, <2>8, <3>1, <4>1, <4>2
        <4>3. CASE DeviceAt(b) = i
          <5>. DEFINE p == Offset(DeviceAt(b), b)
          <5>1. p # o
            BY <2>5, <2>8, <3>3, <4>3 DEF Offset
          <5>2. Explained(d.delta, p, origin[b], Flat[b])
            BY <3>1, <4>3
          <5>3. Explained(c, p, origin[b], Flat[b])
            <6>. HIDE DEF c, o, d, p
            <6>. QED
              BY <2>6, <5>1, <5>2, OneMore
          <5>. QED
            BY <4>1, <4>3, <5>3
        <4>. QED
          BY <4>2, <4>3
      <3>. QED
        BY <3>2, <3>3
    <2>12. IsInjective(touched') => Explains(Slot', Deltas', origin', Flat')
      <3>1. DOMAIN layers' = DOMAIN layers
        BY <2>1 DEF Kept
      <3>2. \A b \in Visible : Deltas'[DeviceAt(b)] = layers'[DeviceAt(b)].dev.delta
        BY <2>8, <3>1 DEF Deltas
      <3>. QED
        BY <1>2, <2>8, <2>11, <3>2 DEF Explains
    <2>13. origin' = [b \in Visible' |-> origin'[b]]
      BY <1>2, <2>8 DEF DeltasOpen
    <2>. QED
      BY <2>7, <2>12, <2>13 DEF DeltasOpen
  <1>. QED
    BY <1>4, <1>5

\* What is set or loaded counts as having been there before.
LEMMA SettingOpen ==
    ASSUME LayersInv, DeltasOpen, NEW where \in Seq(Nat), Touch(where), SetBefore(where),
           Still(layers'), Elsewhere(layers', Range(where))
    PROVE  DeltasOpen'
  <1>1. max' = max /\ touched' = touched \o where /\ touched \in Seq(Nat)
    BY TouchIs DEF LayersInv
  <1>2. /\ Range(touched) \subseteq Range(touched')
        /\ IsInjective(touched') => IsInjective(touched) /\ \A b \in Range(where) : b \notin Range(touched)
    BY <1>1, Concat
  <1>3. /\ Kept
        /\ \A j \in DOMAIN layers : Same(layers[j].dev, layers'[j].dev)
        /\ \A j \in DOMAIN layers : layers'[j].dev.delta = layers[j].dev.delta
    BY StillKept
  <1>4. DOMAIN layers' = DOMAIN layers /\ \A j \in DOMAIN layers : layers'[j].at = layers[j].at
    BY <1>3 DEF Kept
  <1>5. /\ Visible' = Visible /\ Slot' = Slot /\ DOMAIN Slot = Visible /\ Visible \subseteq Nat
        /\ Flat' = [b \in Visible |-> Get(layers'[DeviceAt(b)].dev, Offset(DeviceAt(b), b))]
        /\ Flat = [b \in Visible |-> Get(layers[DeviceAt(b)].dev, Offset(DeviceAt(b), b))]
        /\ \A b \in Visible : /\ Slot[b].dev = DeviceAt(b) /\ Slot[b].at = Offset(DeviceAt(b), b)
                              /\ DeviceAt(b) \in DOMAIN layers /\ layers[DeviceAt(b)].dev.kind # "range"
    BY <1>1, <1>3, PlacesKept
  <1>6. Deltas' = Deltas
    BY <1>3, <1>4 DEF Deltas
  <1>7. \A b : Contains(where, b) <=> b \in Range(where)
    <2>1. DOMAIN where = 1 .. Len(where)
      BY LenProperties
    <2>. QED
      BY <2>1 DEF Contains, Range
  <1>8. origin' = [b \in Visible |-> IF b \in Range(where) THEN Flat'[b] ELSE origin[b]]
    <2>1. DOMAIN origin = Visible
      BY DEF DeltasOpen
    <2>. QED
      BY <1>7, <2>1 DEF SetBefore
  <1>9. ASSUME NEW b \in Visible, b \notin Range(where) PROVE Flat'[b] = Flat[b]
    <2>1. b \in Nat \ Range(where) /\ DeviceAt(b) # 0
      BY <1>5, <1>9, MemoryKnown DEF MemoryIs
    <2>. QED
      BY <1>5, <2>1 DEF Elsewhere
  <1>10. ASSUME IsInjective(touched'), NEW b \in Visible
         PROVE  Explained(Deltas[DeviceAt(b)], Offset(DeviceAt(b), b), origin'[b], Flat'[b])
    <2>1. Explained(Deltas[DeviceAt(b)], Offset(DeviceAt(b), b), origin[b], Flat[b])
      BY <1>2, <1>5, <1>10 DEF DeltasOpen, Explains
    <2>2. CASE b \notin Range(where)
      BY <1>8, <1>9, <2>1, <2>2
    <2>3. CASE b \in Range(where)
      <3>1. \A k \in DOMAIN Deltas[DeviceAt(b)] : Deltas[DeviceAt(b)][k].at # Offset(DeviceAt(b), b)
        BY <1>2, <1>5, <1>10, <2>3, NotTouched DEF Deltas
      <3>2. origin'[b] = Flat'[b]
        BY <1>8, <2>3
      <3>. QED
        BY <3>1, <3>2 DEF Explained
    <2>. QED
      BY <2>2, <2>3
  <1>11. IsInjective(touched') => Explains(Slot', Deltas', origin', Flat')
    BY <1>5, <1>6, <1>10 DEF Explains
  <1>12. origin' = [b \in Visible' |-> origin'[b]]
    BY <1>5, <1>8
  <1>13. \A i \in DOMAIN layers' : \A k \in DOMAIN layers'[i].dev.delta :
            layers'[i].dev.delta[k].at \in Nat /\ layers'[i].dev.delta[k].at + layers'[i].at \in Range(touched')
    BY <1>2, <1>3, <1>4 DEF DeltasOpen
  <1>. QED
    BY <1>11, <1>12, <1>13 DEF DeltasOpen

\* What a device appended holds counts as having been there before.
LEMMA AppendOpen ==
    ASSUME LayersInv, DeltasOpen, NEW part \in Parts, AppendStorage(part)
    PROVE  DeltasOpen'
  <1>1. /\ LayersInv' /\ Len(layers) \in Nat
        /\ DOMAIN layers = 1 .. Len(layers) /\ DOMAIN layers' = 1 .. Len(layers) + 1
        /\ \A i \in DOMAIN layers : layers'[i] = layers[i]
    BY AppendIs
  <1>2. touched' = touched
        /\ origin' = [a \in DOMAIN Flat' |-> IF a \in DOMAIN origin THEN origin[a] ELSE Flat'[a]]
    BY DEF AppendStorage
  <1>3. layers'[Len(layers) + 1].dev.delta = << >>
    <2>. DEFINE new == [at |-> part.at, dev |-> Device(part)]
                S == Range(layers) \cup {new}
    <2>1. new.dev.delta = << >> /\ layers' = Append(layers, new)
      BY DEF Device, AppendStorage
    <2>2. layers \in Seq(S) /\ new \in S
      <3>1. layers \in Seq(Range(layers))
        BY DEF LayersInv, Sequence
      <3>. QED
        BY <3>1, SeqMonotonic
    <2>. HIDE DEF new, S
    <2>. QED
      BY <2>1, <2>2, AppendProperties
  <1>4. MemoryIs /\ MemoryIs'
    BY MemoryKnown, PTL
  <1>5. /\ Visible' = {b \in Address : DeviceAt(b)' # 0 /\ layers'[DeviceAt(b)'].dev.kind # "range"}
        /\ DOMAIN Flat' = Visible'
        /\ Slot' = [b \in Visible' |-> [dev |-> DeviceAt(b)', at |-> b - layers'[DeviceAt(b)'].at]]
    BY <1>4 DEF MemoryIs, Address, Slot, Offset
  <1>6. \A b \in Address : b \in Nat
    BY DEF Address
  <1>7. ASSUME NEW i \in DOMAIN layers', NEW k \in DOMAIN layers'[i].dev.delta
        PROVE  layers'[i].dev.delta[k].at \in Nat
               /\ layers'[i].dev.delta[k].at + layers'[i].at \in Range(touched')
    <2>1. CASE i \in DOMAIN layers
      BY <1>1, <1>2, <2>1 DEF DeltasOpen
    <2>2. CASE i \notin DOMAIN layers
      <3>1. i = Len(layers) + 1
        BY <1>1, <2>2
      <3>. QED
        BY <1>3, <3>1
    <2>. QED
      BY <2>1, <2>2
  <1>8. ASSUME IsInjective(touched'), NEW b \in Visible'
        PROVE  Explained(Deltas'[DeviceAt(b)'], b - layers'[DeviceAt(b)'].at, origin'[b], Flat'[b])
    <2>1. CASE DeviceAt(b) # 0
      <3>1. DeviceAt(b)' = DeviceAt(b) /\ DeviceAt(b) \in DOMAIN layers
            /\ layers'[DeviceAt(b)] = layers[DeviceAt(b)]
        BY <1>1, <2>1, AppendHides, DeviceAtIs
      <3>2. b \in Visible /\ b \in DOMAIN Flat
        BY <1>4, <1>5, <2>1, <3>1 DEF MemoryIs
      <3>3. Flat'[b] = Flat[b]
        BY <3>2, AppendKeepsBytes
      <3>4. origin'[b] = origin[b]
        BY <1>2, <1>5, <3>2 DEF DeltasOpen
      <3>5. Explained(Deltas[DeviceAt(b)], b - layers[DeviceAt(b)].at, origin[b], Flat[b])
        BY <1>2, <1>8, <3>2 DEF DeltasOpen, Explains, Slot, Offset
      <3>6. Deltas'[DeviceAt(b)] = Deltas[DeviceAt(b)]
        BY <1>1, <3>1 DEF Deltas
      <3>. QED
        BY <3>1, <3>3, <3>4, <3>5, <3>6
    <2>2. CASE DeviceAt(b) = 0
      <3>1. b \notin Visible
        BY <1>4, <2>2 DEF MemoryIs
      <3>2. origin'[b] = Flat'[b]
        BY <1>2, <1>5, <3>1 DEF DeltasOpen
      <3>3. DeviceAt(b)' \in DOMAIN layers' /\ DeviceAt(b)' \notin DOMAIN layers
        BY <1>5, <2>2, AppendFinds
      <3>4. DeviceAt(b)' = Len(layers) + 1
        BY <1>1, <3>3
      <3>5. DOMAIN Deltas'[DeviceAt(b)'] = {}
        BY <1>3, <3>3, <3>4 DEF Deltas
      <3>. QED
        BY <3>2, <3>5 DEF Explained
    <2>. QED
      BY <2>1, <2>2
  <1>9. IsInjective(touched') => Explains(Slot', Deltas', origin', Flat')
    BY <1>5, <1>8 DEF Explains
  <1>10. origin' = [b \in Visible' |-> origin'[b]]
    BY <1>2, <1>5
  <1>. QED
    BY <1>7, <1>9, <1>10 DEF DeltasOpen

\* No delta is open where nothing was touched.
LEMMA QuietIs ==
    ASSUME DeltasOpen, touched = << >>
    PROVE  \A i \in DOMAIN layers : DOMAIN layers[i].dev.delta = {}
  <1>1. Range(touched) = {}
    BY DEF Range
  <1>. QED
    BY <1>1 DEF DeltasOpen

\* Deltas that are emptied leave the memory as it is.
LEMMA EmptiedIs ==
    ASSUME LayersInv, TakeDelta \/ ClearDelta
    PROVE  /\ Flat' = Flat /\ Slot' = Slot /\ Visible' = Visible
           /\ \A i \in DOMAIN layers' : DOMAIN layers'[i].dev.delta = {}
  <1>. DEFINE dev == [i \in DOMAIN layers |-> [layers[i].dev EXCEPT !.delta = << >>]]
  <1>1. layers' = [i \in DOMAIN layers |-> [layers[i] EXCEPT !.dev = dev[i]]] /\ max' = max
    BY DEF TakeDelta, ClearDelta, Devices
  <1>2. ASSUME NEW i \in DOMAIN layers
        PROVE  Same(layers[i].dev, dev[i]) /\ DOMAIN dev[i].delta = {} /\ \A o : Get(dev[i], o) = Get(layers[i].dev, o)
    <2>. DEFINE d == layers[i].dev
                e == [d EXCEPT !.delta = << >>]
    <2>1. IsDevice(d) /\ dev[i] = e
      BY DEF LayersInv, IsLayer
    <2>. HIDE DEF d
    <2>2. /\ e.delta = << >> /\ e.kind = d.kind /\ e.max = d.max /\ e.wrap = d.wrap
          /\ e.cells = d.cells /\ e.default = d.default /\ DOMAIN e = DOMAIN d
      BY <2>1 DEF IsDevice, Fields
    <2>. HIDE DEF e
    <2>3. Same(d, e) /\ DOMAIN e.delta = {}
      <3>1. Sequence(e.delta) /\ DOMAIN e.delta = {}
        BY <2>2, Sequences
      <3>. QED
        BY <2>1, <2>2, <3>1 DEF IsDevice, Same
    <2>4. \A o : Get(e, o) = Get(d, o)
      BY <2>2 DEF Get
    <2>. HIDE DEF dev
    <2>. QED
      BY <2>1, <2>3, <2>4 DEF d
  <1>. HIDE DEF dev
  <1>3. Kept /\ \A i \in DOMAIN layers : layers'[i].dev = dev[i]
    BY <1>1, <1>2, DevicesKept DEF Same
  <1>4. /\ Visible' = Visible /\ Slot' = Slot
        /\ Flat' = [b \in Visible |-> Get(layers'[DeviceAt(b)].dev, Offset(DeviceAt(b), b))]
        /\ Flat = [b \in Visible |-> Get(layers[DeviceAt(b)].dev, Offset(DeviceAt(b), b))]
        /\ \A b \in Visible : DeviceAt(b) \in DOMAIN layers
    BY <1>1, <1>2, <1>3, PlacesKept
  <1>5. Flat' = Flat
    <2>1. \A b \in Visible : Get(layers'[DeviceAt(b)].dev, Offset(DeviceAt(b), b))
                               = Get(layers[DeviceAt(b)].dev, Offset(DeviceAt(b), b))
      BY <1>2, <1>3, <1>4
    <2>. QED
      BY <1>4, <2>1
  <1>6. DOMAIN layers' = DOMAIN layers
    BY <1>3 DEF Kept
  <1>. QED
    BY <1>2, <1>3, <1>4, <1>5, <1>6

\* A delta applied leads from one of its ends to the other.
LEMMA ApplyIs ==
    ASSUME LayersInv, DeltasInv, hand.changes # << >>, max' = max,
           NEW side \in {"old", "new"}, ApplyGroup(hand.changes, side)
    PROVE  /\ Visible' = Visible /\ Slot' = Slot
           /\ \A i \in DOMAIN layers' : DOMAIN layers'[i].dev.delta = {}
           /\ hand.once => Flat' = IF side = "old" THEN hand.before ELSE hand.after
  <1>. DEFINE dev == [i \in DOMAIN layers |-> Applied(layers[i].dev, hand.changes[i], side)]
  <1>1. layers' = [i \in DOMAIN layers |-> [layers[i] EXCEPT !.dev = dev[i]]]
    BY DEF ApplyGroup, Devices
  <1>2. \A i \in DOMAIN layers : IsDevice(layers[i].dev) /\ Sequence(hand.changes[i])
    BY DEF LayersInv, IsLayer
  <1>3. \A i \in DOMAIN layers : /\ Same(layers[i].dev, dev[i]) /\ dev[i].delta = layers[i].dev.delta
                                 /\ dev[i] = Applied(layers[i].dev, hand.changes[i], side)
    BY <1>2, AppliedIs
  <1>. HIDE DEF dev
  <1>4. Kept /\ \A i \in DOMAIN layers : layers'[i].dev = dev[i]
    BY <1>1, <1>3, DevicesKept DEF Same
  <1>5. /\ Visible' = Visible /\ Slot' = Slot /\ DOMAIN Slot = Visible
        /\ Flat' = [b \in Visible |-> Get(layers'[DeviceAt(b)].dev, Offset(DeviceAt(b), b))]
        /\ Flat = [b \in Visible |-> Get(layers[DeviceAt(b)].dev, Offset(DeviceAt(b), b))]
        /\ \A b \in Visible : /\ Slot[b].dev = DeviceAt(b) /\ Slot[b].at = Offset(DeviceAt(b), b)
                              /\ DeviceAt(b) \in DOMAIN layers /\ layers[DeviceAt(b)].dev.kind # "range"
    BY <1>3, <1>4, PlacesKept
  <1>6. DOMAIN layers' = DOMAIN layers
    BY <1>4 DEF Kept
  <1>7. \A i \in DOMAIN layers' : DOMAIN layers'[i].dev.delta = {}
    BY <1>3, <1>4, <1>6, QuietIs DEF DeltasInv, HandInv
  <1>8. ASSUME hand.once
        PROVE  Flat' = IF side = "old" THEN hand.before ELSE hand.after
    <2>. DEFINE end == IF side = "old" THEN hand.before ELSE hand.after
    <2>1. /\ end = [b \in Visible |-> end[b]]
          /\ Flat = hand.before \/ Flat = hand.after
          /\ Explains(Slot, hand.changes, hand.before, hand.after)
      BY <1>8 DEF DeltasInv, HandInv
    <2>2. ASSUME NEW b \in Visible
          PROVE  Get(layers'[DeviceAt(b)].dev, Offset(DeviceAt(b), b)) = end[b]
      <3>. DEFINE i == DeviceAt(b)
                  o == Offset(i, b)
                  c == hand.changes[i]
                  d == layers[i].dev
      <3>1. Explained(c, o, hand.before[b], hand.after[b])
        BY <1>5, <2>1 DEF Explains
      <3>2. layers'[i].dev = Applied(d, c, side) /\ IsDevice(d) /\ Sequence(c) /\ d.kind # "range"
            /\ Get(d, o) = Flat[b]
        BY <1>2, <1>3, <1>4, <1>5
      <3>. HIDE DEF c, d, o
      <3>3. /\ (\A k \in DOMAIN c : c[k].at # o) => Get(Applied(d, c, side), o) = Get(d, o)
            /\ \A k \in DOMAIN c : (\A m \in DOMAIN c : c[m].at = c[k].at => m = k) =>
                   Get(Applied(d, c, side), c[k].at) = c[k][side]
        BY <3>2, AppliedIs
      <3>4. CASE \A k \in DOMAIN c : c[k].at # o
        <4>1. hand.before[b] = hand.after[b]
          BY <3>1, <3>4 DEF Explained
        <4>2. Flat[b] = end[b]
          BY <2>1, <4>1
        <4>. QED
          BY <3>2, <3>3, <3>4, <4>2 DEF o
      <3>5. CASE \E k \in DOMAIN c : c[k].at = o
        <4>1. PICK k \in DOMAIN c : c[k].at = o
          BY <3>5
        <4>2. /\ c[k].old = hand.before[b] /\ c[k].new = hand.after[b]
              /\ \A m \in DOMAIN c : c[m].at = o => m = k
          BY <3>1, <4>1 DEF Explained
        <4>3. c[k][side] = end[b]
          BY <4>2
        <4>. QED
          BY <3>2, <3>3, <4>1, <4>2, <4>3 DEF o
      <3>. QED
        BY <3>4, <3>5
    <2>. QED
      BY <1>5, <2>1, <2>2
  <1>. QED
    BY <1>5, <1>7, <1>8

LEMMA InitDeltas == StorageInit => DeltasInv
  <1>. SUFFICES ASSUME StorageInit PROVE DeltasInv
    OBVIOUS
  <1>1. LayersInv /\ hand.changes = << >>
    BY InitInv, EmptyHand DEF StorageInit
  <1>2. \A a : DeviceAt(a) = 0
    <2>1. \A a : DeviceAt(a) # 0 => DeviceAt(a) \in DOMAIN layers
      BY <1>1, DeviceAtIs
    <2>. QED
      BY <2>1 DEF StorageInit
  <1>3. Visible = {} /\ DOMAIN Flat = {}
    BY <1>2, MemoryKnown DEF MemoryIs
  <1>4. origin = [a \in Visible |-> origin[a]] /\ DOMAIN Slot = {}
    BY <1>3 DEF StorageInit, Slot
  <1>5. DeltasOpen
    BY <1>3, <1>4 DEF DeltasOpen, Explains, StorageInit
  <1>. QED
    BY <1>1, <1>5 DEF DeltasInv, HandInv

LEMMA StepDeltas ==
    ASSUME LayersInv, DeltasInv, [StorageNext]_storageVars
    PROVE  DeltasInv'
  <1>1. LayersInv'
    BY StepInv
  <1>2. DeltasOpen' /\ hand' = None => DeltasInv'
    BY EmptyHand DEF DeltasInv, HandInv
  <1>3. Settled' => DeltasOpen'
    <2>1. LayersInv' /\ Settled' => DeltasOpen'
      BY SettledOpen, PTL
    <2>. QED
      BY <1>1, <2>1
  <1>4. \A a \in Address : a \in Nat /\ <<a>> \in Seq(Nat)
    BY DEF Address
  <1>5. DeltasOpen
    BY DEF DeltasInv
  <1>6. ASSUME NEW part \in Parts, AppendStorage(part) PROVE DeltasInv'
    BY <1>2, <1>5, <1>6, AppendOpen DEF AppendStorage
  <1>7. ASSUME NEW a \in Address, NEW v \in Values, Write(a, v) PROVE DeltasInv'
    <2>1. DeltasOpen' /\ Touch(<<a>>)
      BY <1>4, <1>5, <1>7, WriteOpen, WriteIs
    <2>. QED
      BY <1>2, <2>1 DEF Touch
  <1>8. ASSUME NEW where \in Seq(Nat), Touch(where), SetBefore(where),
               Still(layers'), Elsewhere(layers', Range(where))
        PROVE  DeltasInv'
    BY <1>2, <1>5, <1>8, SettingOpen DEF Touch
  <1>9. ASSUME NEW a \in Address, NEW v \in Values, Set(a, v) PROVE DeltasInv'
    <2>1. Touch(<<a>>) /\ SetBefore(<<a>>) /\ Still(layers') /\ Elsewhere(layers', {a})
      BY <1>4, <1>9, SetIs
    <2>2. Range(<<a>>) = {a}
      BY DEF Range
    <2>. QED
      BY <1>4, <1>8, <2>1, <2>2
  <1>10. ASSUME NEW load \in Loads, LoadBytes(load.at, load.bytes) PROVE DeltasInv'
    BY <1>8, <1>10, LoadBytesIs
  <1>11. ASSUME NEW fill, layers' = [i \in DOMAIN layers |->
                                       [layers[i] EXCEPT !.dev = ClearedThrough(layers[i].dev, fill)]]
         PROVE  \A i \in DOMAIN layers' : DOMAIN layers'[i].dev.delta = {}
    <2>. DEFINE dev == [i \in DOMAIN layers |-> ClearedThrough(layers[i].dev, fill)]
    <2>1. layers' = [i \in DOMAIN layers |-> [layers[i] EXCEPT !.dev = dev[i]]]
      BY <1>11
    <2>2. ASSUME NEW i \in DOMAIN layers
          PROVE  IsDevice(dev[i]) /\ DOMAIN dev[i].delta = {}
      <3>1. IsDevice(layers[i].dev)
        BY DEF LayersInv, IsLayer
      <3>2. IsDevice(dev[i])
        BY <3>1, ClearedIs
      <3>3. \A f : DOMAIN Cleared(layers[i].dev, f).delta = {}
        BY <3>1 DEF Cleared, IsDevice, Fields
      <3>. QED
        BY <3>2, <3>3 DEF ClearedThrough
    <2>. HIDE DEF dev
    <2>3. Kept /\ \A i \in DOMAIN layers : layers'[i].dev = dev[i]
      BY <2>1, <2>2, DevicesKept
    <2>. QED
      BY <2>2, <2>3 DEF Kept
  <1>12. ASSUME NEW fill \in Fills, Clear(fill) PROVE DeltasInv'
    <2>1. /\ layers' = [i \in DOMAIN layers |-> [layers[i] EXCEPT !.dev = ClearedThrough(layers[i].dev, fill)]]
          /\ hand' = None /\ origin' = Flat'
      BY <1>12 DEF Clear, Devices
    <2>2. Settled'
      BY <1>11, <2>1 DEF Settled
    <2>. QED
      BY <1>2, <1>3, <2>1, <2>2
  <1>13. ASSUME NEW n \in Sizes, Resize(n) PROVE DeltasInv'
    <2>1. /\ layers' = [i \in DOMAIN layers |-> [layers[i] EXCEPT !.dev = ClearedThrough(layers[i].dev, Zero)]]
          /\ hand' = None /\ origin' = Flat'
      BY <1>13 DEF Resize, Devices
    <2>2. Settled'
      BY <1>11, <2>1 DEF Settled
    <2>. QED
      BY <1>2, <1>3, <2>1, <2>2
  <1>14. ASSUME NEW i \in DOMAIN layers, NEW n \in DeviceSizes, ResizeDevice(i, n) PROVE DeltasInv'
    <2>. DEFINE e == Resized(layers[i].dev, n)
    <2>1. /\ layers' = [layers EXCEPT ![i].dev = e]
          /\ touched = << >> /\ hand' = None /\ origin' = Flat'
      BY <1>14 DEF ResizeDevice, Quiet
    <2>2. IsDevice(e) /\ DOMAIN e.delta = {}
      <3>. DEFINE d(cells) == [layers[i].dev EXCEPT !.max = n, !.cells = cells]
      <3>1. \A cells : IsDevice(d(cells))
        BY DEF LayersInv, IsLayer, IsDevice, Fields
      <3>. HIDE DEF d
      <3>2. \A cells, f : IsDevice(Cleared(d(cells), f)) /\ DOMAIN Cleared(d(cells), f).delta = {}
        <4>. SUFFICES ASSUME NEW cells, NEW f
                      PROVE  IsDevice(Cleared(d(cells), f)) /\ DOMAIN Cleared(d(cells), f).delta = {}
          OBVIOUS
        <4>1. IsDevice(Cleared(d(cells), f))
          BY <3>1, ClearedIs
        <4>2. DOMAIN Cleared(d(cells), f).delta = {}
          BY <3>1 DEF Cleared, IsDevice, Fields
        <4>. QED
          BY <4>1, <4>2
      <3>. QED
        BY <3>2 DEF Resized, d
    <2>. HIDE DEF e
    <2>3. Kept /\ layers'[i].dev = e /\ \A j \in DOMAIN layers : j # i => layers'[j] = layers[j]
      BY <2>1, <2>2, DeviceKept
    <2>4. \A j \in DOMAIN layers : DOMAIN layers[j].dev.delta = {}
      BY <1>5, <2>1, QuietIs
    <2>5. Settled'
      BY <2>1, <2>2, <2>3, <2>4 DEF Settled, Kept
    <2>. QED
      BY <1>2, <1>3, <2>1, <2>5
  <1>15. ASSUME TakeDelta PROVE DeltasInv'
    <2>1. /\ Flat' = Flat /\ Slot' = Slot /\ Visible' = Visible
          /\ \A i \in DOMAIN layers' : DOMAIN layers'[i].dev.delta = {}
      BY <1>15, EmptiedIs
    <2>2. /\ hand' = [changes |-> Deltas, undone |-> FALSE, before |-> origin, after |-> Flat,
                      once |-> IsInjective(touched)]
          /\ origin' = Flat /\ touched' = << >>
      BY <1>15 DEF TakeDelta, Deltas
    <2>3. DeltasOpen'
      BY <1>3, <2>1, <2>2 DEF Settled
    <2>4. /\ hand'.changes = Deltas /\ hand'.undone = FALSE /\ hand'.before = origin
          /\ hand'.after = Flat /\ hand'.once = IsInjective(touched)
      BY <2>2
    <2>5. /\ origin = [a \in Visible |-> origin[a]] /\ Flat = [a \in Visible |-> Flat[a]]
          /\ (IsInjective(touched) => Explains(Slot, Deltas, origin, Flat))
      BY <1>5, MemoryKnown DEF DeltasOpen, MemoryIs
    <2>6. HandInv'
      BY <2>1, <2>2, <2>4, <2>5 DEF HandInv
    <2>. QED
      BY <2>3, <2>6 DEF DeltasInv
  <1>16. ASSUME ClearDelta PROVE DeltasInv'
    <2>1. /\ Flat' = Flat /\ \A i \in DOMAIN layers' : DOMAIN layers'[i].dev.delta = {}
      BY <1>16, EmptiedIs
    <2>2. origin' = Flat /\ hand' = None
      BY <1>16 DEF ClearDelta
    <2>3. Settled'
      BY <2>1, <2>2 DEF Settled
    <2>. QED
      BY <1>2, <1>3, <2>2, <2>3
  <1>17. ASSUME NEW side \in {"old", "new"}, ApplyGroup(hand.changes, side), hand.changes # << >>,
                hand' = [hand EXCEPT !.undone = (side = "old")], max' = max, touched' = touched, origin' = Flat'
         PROVE  DeltasInv'
    <2>1. /\ Visible' = Visible /\ Slot' = Slot
          /\ \A i \in DOMAIN layers' : DOMAIN layers'[i].dev.delta = {}
          /\ hand.once => Flat' = IF side = "old" THEN hand.before ELSE hand.after
      BY <1>17, ApplyIs
    <2>2. /\ hand'.changes = hand.changes /\ hand'.before = hand.before /\ hand'.after = hand.after
          /\ hand'.once = hand.once /\ hand'.undone = (side = "old")
      BY <1>17 DEF LayersInv
    <2>3. DeltasOpen'
      BY <1>3, <1>17, <2>1 DEF Settled
    <2>4. HandInv'
      BY <1>17, <2>1, <2>2 DEF HandInv, DeltasInv
    <2>. QED
      BY <2>3, <2>4 DEF DeltasInv
  <1>18. ASSUME ApplyBackward PROVE DeltasInv'
    <2>1. hand' = [hand EXCEPT !.undone = ("old" = "old")]
      BY <1>18 DEF ApplyBackward
    <2>. QED
      BY <1>17, <1>18, <2>1 DEF ApplyBackward
  <1>19. ASSUME ApplyForward PROVE DeltasInv'
    <2>1. hand' = [hand EXCEPT !.undone = ("new" = "old")]
      BY <1>19 DEF ApplyForward
    <2>. QED
      BY <1>17, <1>19, <2>1 DEF ApplyForward
  <1>20. ASSUME UNCHANGED storageVars PROVE DeltasInv'
    <2>1. Slot' = Slot /\ Visible' = Visible /\ Flat' = Flat /\ Deltas' = Deltas
      BY <1>20 DEF storageVars, Slot, Deltas, Flat, Seen, Visible, ByteAt, Held, Offset, DeviceAt, Reaches
    <2>. QED
      BY <1>20, <2>1 DEF storageVars, DeltasInv, DeltasOpen, HandInv
  <1>. QED
    BY <1>6, <1>7, <1>9, <1>10, <1>12, <1>13, <1>14, <1>15, <1>16, <1>18, <1>19, <1>20 DEF StorageNext

\* The open deltas, and the one taken last, always explain the memory by its changes.
THEOREM DeltasStaySound == StorageSpec => [](LayersInv /\ DeltasInv)
  <1>1. StorageInit => LayersInv /\ DeltasInv
    BY InitInv, InitDeltas
  <1>2. LayersInv /\ DeltasInv /\ [StorageNext]_storageVars => LayersInv' /\ DeltasInv'
    BY StepInv, StepDeltas
  <1>. QED
    BY <1>1, <1>2, PTL DEF StorageSpec

\* Where no byte changed twice, apply_backward gives back the memory in which the deltas
\* began, and apply_forward the memory in which they were taken, across all devices.
THEOREM DeltasAlwaysExact == StorageSpec => DeltasExact
  <1>1. LayersInv /\ DeltasInv /\ [StorageNext]_storageVars =>
            [hand.once => /\ ApplyBackward => Flat' = hand.before
                          /\ ApplyForward => Flat' = hand.after]_storageVars
    <2>. SUFFICES ASSUME LayersInv, DeltasInv, hand.once
                  PROVE  /\ ApplyBackward => Flat' = hand.before
                         /\ ApplyForward => Flat' = hand.after
      OBVIOUS
    <2>1. ASSUME ApplyBackward PROVE Flat' = hand.before
      <3>1. Flat' = IF "old" = "old" THEN hand.before ELSE hand.after
        BY <2>1, ApplyIs DEF ApplyBackward
      <3>. QED
        BY <3>1
    <2>2. ASSUME ApplyForward PROVE Flat' = hand.after
      <3>1. Flat' = IF "new" = "old" THEN hand.before ELSE hand.after
        BY <2>2, ApplyIs DEF ApplyForward
      <3>. QED
        BY <3>1
    <2>. QED
      BY <2>1, <2>2
  <1>. QED
    BY <1>1, DeltasStaySound, PTL DEF StorageSpec, DeltasExact

-----------------------------------------------------------------------------
(* Ranges. *)

DeviceSound(d) == RangeSound(d) /\ OffsetsIn(d.delta)

\* The spans of every range are in order and apart, and every change recorded, or taken, is
\* at an offset.
SpansInv ==
    /\ \A i \in DOMAIN layers : DeviceSound(layers[i].dev)
    /\ hand.changes # << >> => \A i \in DOMAIN layers : OffsetsIn(hand.changes[i])

LEMMA EmptySound == SpansSound(<< >>) /\ OffsetsIn(<< >>)
  <1>1. DOMAIN << >> = {} /\ Sequence(<< >>)
    BY Sequences
  <1>. QED
    BY <1>1 DEF SpansSound, Ascending, OffsetsIn

\* A device that is cleared holds no span and records no change.
LEMMA ClearedSound ==
    ASSUME NEW d, IsDevice(d), NEW fill
    PROVE  DeviceSound(Cleared(d, fill)) /\ DeviceSound(ClearedThrough(d, fill))
  <1>1. ASSUME NEW f PROVE DeviceSound(Cleared(d, f))
    <2>. DEFINE e == Cleared(d, f)
    <2>1. e.kind = d.kind /\ e.delta = << >> /\ (d.kind = "range" => e.spans = << >>)
      BY DEF Cleared, IsDevice, Fields
    <2>. HIDE DEF e
    <2>2. RangeSound(e)
      BY <2>1, EmptySound, Zenon DEF RangeSound
    <2>3. OffsetsIn(e.delta)
      BY <2>1, EmptySound, Zenon
    <2>. QED
      BY <2>2, <2>3 DEF DeviceSound, e
  <1>. QED
    BY <1>1 DEF ClearedThrough

LEMMA RecordedSound ==
    ASSUME NEW d, IsDevice(d), DeviceSound(d), NEW o \in Nat, NEW old, NEW v
    PROVE  DeviceSound(Recorded(d, o, old, v))
  <1>1. RangeSound(Recorded(d, o, old, v))
    BY RecordedByte DEF DeviceSound
  <1>2. Longer(Recorded(d, o, old, v).delta, d.delta, o, old, v)
    BY RecordedDelta
  <1>3. OffsetsIn(Recorded(d, o, old, v).delta)
    BY <1>2 DEF Longer, OffsetsIn, DeviceSound
  <1>. QED
    BY <1>1, <1>3 DEF DeviceSound

LEMMA KeptSound ==
    ASSUME DOMAIN layers' = DOMAIN layers, \A i \in DOMAIN layers : DeviceSound(layers'[i].dev),
           hand' = None
    PROVE  SpansInv'
  BY EmptyHand DEF SpansInv, DeviceSound, RangeSound, SpansSound, Ascending, OffsetsIn

LEMMA StillSound ==
    ASSUME LayersInv, SpansInv, Still(layers'), hand' = None
    PROVE  SpansInv'
  <1>1. Kept /\ \A j \in DOMAIN layers : /\ layers'[j].dev.delta = layers[j].dev.delta
                                         /\ RangeSound(layers[j].dev) => RangeSound(layers'[j].dev)
    BY StillKept
  <1>2. \A j \in DOMAIN layers : DeviceSound(layers'[j].dev)
    BY <1>1 DEF SpansInv, DeviceSound
  <1>3. DOMAIN layers' = DOMAIN layers
    BY <1>1 DEF Kept
  <1>. QED
    BY <1>2, <1>3, KeptSound

LEMMA StepSpans ==
    ASSUME LayersInv, SpansInv, [StorageNext]_storageVars
    PROVE  SpansInv'
  <1>1. \A a \in Address : a \in Nat /\ <<a>> \in Seq(Nat)
    BY DEF Address
  <1>2. \A i \in DOMAIN layers : IsDevice(layers[i].dev) /\ DeviceSound(layers[i].dev)
    BY DEF LayersInv, IsLayer, SpansInv
  <1>3. ASSUME NEW dev, layers' = [i \in DOMAIN layers |-> [layers[i] EXCEPT !.dev = dev[i]]],
               \A i \in DOMAIN layers : IsDevice(dev[i]) /\ DeviceSound(dev[i])
        PROVE  DOMAIN layers' = DOMAIN layers /\ \A i \in DOMAIN layers : DeviceSound(layers'[i].dev)
    <2>1. Kept /\ \A i \in DOMAIN layers : layers'[i].dev = dev[i]
      BY <1>3, DevicesKept
    <2>. QED
      BY <1>3, <2>1 DEF Kept
  <1>4. ASSUME NEW part \in Parts, AppendStorage(part) PROVE SpansInv'
    <2>1. /\ DOMAIN layers = 1 .. Len(layers) /\ Len(layers) \in Nat
          /\ DOMAIN layers' = 1 .. Len(layers) + 1
          /\ \A i \in DOMAIN layers : layers'[i] = layers[i]
      BY <1>4, AppendIs
    <2>2. layers'[Len(layers) + 1].dev = Device(part) /\ hand' = None
      <3>. DEFINE new == [at |-> part.at, dev |-> Device(part)]
      <3>1. layers' = Append(layers, new) /\ hand' = None
        BY <1>4 DEF AppendStorage
      <3>2. layers \in Seq(Range(layers) \cup {new}) /\ new \in Range(layers) \cup {new}
        BY SeqMonotonic DEF LayersInv, Sequence
      <3>3. new.dev = Device(part)
        OBVIOUS
      <3>. HIDE DEF new
      <3>4. layers'[Len(layers) + 1] = new
        BY <3>1, <3>2, AppendProperties
      <3>. QED
        BY <3>1, <3>3, <3>4
    <2>3. DeviceSound(Device(part))
      <3>1. Device(part).delta = << >> /\ Device(part).spans = << >>
        BY DEF Device
      <3>. QED
        BY <3>1, EmptySound DEF DeviceSound, RangeSound
    <2>4. \A i \in DOMAIN layers' : DeviceSound(layers'[i].dev)
      <3>1. \A i \in DOMAIN layers' : i \in DOMAIN layers \/ i = Len(layers) + 1
        BY <2>1
      <3>. QED
        BY <1>2, <2>1, <2>2, <2>3, <3>1
    <2>. QED
      BY <2>2, <2>4, EmptyHand DEF SpansInv, DeviceSound, RangeSound, SpansSound, Ascending, OffsetsIn
  <1>5. ASSUME NEW a \in Address, NEW v \in Values, Write(a, v) PROVE SpansInv'
    <2>. DEFINE i == DeviceAt(a)
    <2>1. Touch(<<a>>)
      BY <1>1, <1>5, WriteIs
    <2>2. hand' = None
      BY <2>1 DEF Touch
    <2>3. CASE i = 0 \/ layers[i].dev.wrap # "none"
      <3>1. layers' = layers
        BY <1>1, <1>5, <2>3, WriteIs
      <3>. QED
        BY <1>2, <2>2, <3>1, KeptSound
    <2>4. CASE i # 0 /\ layers[i].dev.wrap = "none"
      <3>1. Kept /\ \A j \in DOMAIN layers : j # i => layers'[j].dev = layers[j].dev
        BY <1>1, <1>5, <2>4, WriteIs
      <3>2. PICK old \in Held(layers[i].dev, Offset(i, a)) :
                layers'[i].dev = Recorded(layers[i].dev, Offset(i, a), old, v)
        BY <1>1, <1>5, <2>4, WriteIs
      <3>3. i \in DOMAIN layers /\ Offset(i, a) \in Nat
        BY <1>1, <2>4, DeviceAtIs, OffsetIs
      <3>. HIDE DEF i
      <3>4. DeviceSound(layers'[i].dev)
        BY <1>2, <3>2, <3>3, RecordedSound
      <3>5. DOMAIN layers' = DOMAIN layers
        BY <3>1 DEF Kept
      <3>6. \A j \in DOMAIN layers : DeviceSound(layers'[j].dev)
        BY <1>2, <3>1, <3>4
      <3>. QED
        BY <2>2, <3>5, <3>6, KeptSound
    <2>. QED
      BY <2>3, <2>4
  <1>6. ASSUME NEW a \in Address, NEW v \in Values, Set(a, v) PROVE SpansInv'
    <2>1. Touch(<<a>>) /\ Still(layers')
      BY <1>1, <1>6, SetIs
    <2>. QED
      BY <2>1, StillSound DEF Touch
  <1>7. ASSUME NEW load \in Loads, LoadBytes(load.at, load.bytes) PROVE SpansInv'
    <2>1. PICK where \in Seq(Nat) : Touch(where) /\ Still(layers')
      BY <1>7, LoadBytesIs
    <2>. QED
      BY <2>1, StillSound DEF Touch
  <1>8. ASSUME NEW fill, hand' = None,
               layers' = [i \in DOMAIN layers |-> [layers[i] EXCEPT !.dev = ClearedThrough(layers[i].dev, fill)]]
        PROVE  SpansInv'
    <2>. DEFINE dev == [i \in DOMAIN layers |-> ClearedThrough(layers[i].dev, fill)]
    <2>1. layers' = [i \in DOMAIN layers |-> [layers[i] EXCEPT !.dev = dev[i]]]
      BY <1>8
    <2>2. \A i \in DOMAIN layers : IsDevice(dev[i]) /\ DeviceSound(dev[i])
      BY <1>2, ClearedIs, ClearedSound
    <2>. HIDE DEF dev
    <2>. QED
      BY <1>3, <1>8, <2>1, <2>2, KeptSound
  <1>9. ASSUME NEW fill \in Fills, Clear(fill) PROVE SpansInv'
    BY <1>8, <1>9 DEF Clear, Devices
  <1>10. ASSUME NEW n \in Sizes, Resize(n) PROVE SpansInv'
    BY <1>8, <1>10 DEF Resize, Devices
  <1>11. ASSUME NEW i \in DOMAIN layers, NEW n \in DeviceSizes, ResizeDevice(i, n) PROVE SpansInv'
    <2>. DEFINE e == Resized(layers[i].dev, n)
    <2>1. layers' = [layers EXCEPT ![i].dev = e] /\ hand' = None
      BY <1>11 DEF ResizeDevice
    <2>2. IsDevice(e) /\ DeviceSound(e)
      <3>1. \A cells : IsDevice([layers[i].dev EXCEPT !.max = n, !.cells = cells])
        BY <1>2 DEF IsDevice, Fields
      <3>. QED
        BY <3>1, ClearedIs, ClearedSound DEF Resized
    <2>. HIDE DEF e
    <2>3. Kept /\ layers'[i].dev = e /\ \A j \in DOMAIN layers : j # i => layers'[j] = layers[j]
      BY <2>1, <2>2, DeviceKept
    <2>4. DOMAIN layers' = DOMAIN layers
      BY <2>3 DEF Kept
    <2>5. \A j \in DOMAIN layers : DeviceSound(layers'[j].dev)
      BY <1>2, <2>2, <2>3
    <2>. QED
      BY <2>1, <2>4, <2>5, KeptSound
  <1>12. ASSUME TakeDelta \/ ClearDelta PROVE SpansInv'
    <2>. DEFINE dev == [i \in DOMAIN layers |-> [layers[i].dev EXCEPT !.delta = << >>]]
    <2>1. layers' = [i \in DOMAIN layers |-> [layers[i] EXCEPT !.dev = dev[i]]]
      BY <1>12 DEF TakeDelta, ClearDelta, Devices
    <2>2. ASSUME NEW i \in DOMAIN layers PROVE IsDevice(dev[i]) /\ DeviceSound(dev[i])
      <3>1. dev[i].delta = << >> /\ dev[i].kind = layers[i].dev.kind /\ dev[i].spans = layers[i].dev.spans
            /\ DOMAIN dev[i] = DOMAIN layers[i].dev
        BY <1>2 DEF IsDevice, Fields
      <3>. HIDE DEF dev
      <3>. QED
        BY <1>2, <3>1, EmptySound, Sequences DEF IsDevice, DeviceSound, RangeSound
    <2>. HIDE DEF dev
    <2>3. DOMAIN layers' = DOMAIN layers /\ \A i \in DOMAIN layers : DeviceSound(layers'[i].dev)
      BY <1>3, <2>1, <2>2
    <2>4. hand'.changes # << >> => \A i \in DOMAIN layers : OffsetsIn(hand'.changes[i])
      <3>1. CASE TakeDelta
        BY <1>2, <3>1 DEF TakeDelta, DeviceSound
      <3>2. CASE ClearDelta
        BY <3>2, EmptyHand DEF ClearDelta
      <3>. QED
        BY <1>12, <3>1, <3>2
    <2>. QED
      BY <2>3, <2>4 DEF SpansInv, DeviceSound, RangeSound, SpansSound, Ascending, OffsetsIn
  <1>13. ASSUME NEW side, NEW undone, ApplyGroup(hand.changes, side), hand.changes # << >>,
                hand' = [hand EXCEPT !.undone = undone]
         PROVE  SpansInv'
    <2>. DEFINE dev == [i \in DOMAIN layers |-> Applied(layers[i].dev, hand.changes[i], side)]
    <2>1. layers' = [i \in DOMAIN layers |-> [layers[i] EXCEPT !.dev = dev[i]]]
      BY <1>13 DEF ApplyGroup, Devices
    <2>2. ASSUME NEW i \in DOMAIN layers PROVE IsDevice(dev[i]) /\ DeviceSound(dev[i])
      <3>1. Sequence(hand.changes[i]) /\ OffsetsIn(hand.changes[i])
        BY <1>13 DEF LayersInv, SpansInv
      <3>2. /\ Same(layers[i].dev, dev[i]) /\ dev[i].delta = layers[i].dev.delta
            /\ RangeSound(layers[i].dev) => RangeSound(dev[i])
        BY <1>2, <3>1, AppliedIs
      <3>. HIDE DEF dev
      <3>. QED
        BY <1>2, <3>2 DEF Same, DeviceSound
    <2>. HIDE DEF dev
    <2>3. DOMAIN layers' = DOMAIN layers /\ \A i \in DOMAIN layers : DeviceSound(layers'[i].dev)
      BY <1>3, <2>1, <2>2
    <2>4. hand'.changes = hand.changes
      BY <1>13 DEF LayersInv
    <2>. QED
      BY <1>13, <2>3, <2>4 DEF SpansInv, DeviceSound, RangeSound, SpansSound, Ascending, OffsetsIn
  <1>14. ASSUME ApplyBackward \/ ApplyForward PROVE SpansInv'
    BY <1>13, <1>14 DEF ApplyBackward, ApplyForward
  <1>15. ASSUME UNCHANGED storageVars PROVE SpansInv'
    BY <1>15 DEF storageVars, SpansInv, DeviceSound, RangeSound, SpansSound, Ascending, OffsetsIn
  <1>. QED
    BY <1>4, <1>5, <1>6, <1>7, <1>9, <1>10, <1>11, <1>12, <1>14, <1>15 DEF StorageNext

\* The spans of a range are in ascending order, as long as their values, and never meet.
THEOREM SpansStayApart == StorageSpec => [](LayersInv /\ SpansInv)
  <1>1. StorageInit => LayersInv /\ SpansInv
    BY InitInv, EmptyHand DEF StorageInit, SpansInv
  <1>2. LayersInv /\ SpansInv /\ [StorageNext]_storageVars => LayersInv' /\ SpansInv'
    BY StepInv, StepSpans
  <1>. QED
    BY <1>1, <1>2, PTL DEF StorageSpec

\* Setting a byte of a range stores it, and every other byte its spans still hold after the
\* merge has the value it had.
THEOREM SpansTellTheTruth == StorageSpec => SpansNeverLie
  <1>. DEFINE Step ==
          \A i \in DOMAIN layers, a \in Named, v \in Values :
             DeviceAt(a) = i /\ layers[i].dev.kind = "range" /\ Set(a, v) =>
                LET old == layers[i].dev.spans
                    new == layers'[i].dev.spans
                IN  /\ Offset(i, a) \in Covered(new) /\ SpanValue(new, Offset(i, a)) = v
                    /\ \A o \in Covered(new) \ {Offset(i, a)} :
                          o \in Covered(old) /\ SpanValue(new, o) = SpanValue(old, o)
  <1>1. ASSUME LayersInv, LayersInv', SpansInv
        PROVE  Step
    <2>1. ASSUME NEW a \in Named PROVE a \in Nat
      <3>1. Len(touched') = Len(touched) + 1 /\ a = touched'[Len(touched')]
        BY DEF Named, Last
      <3>2. touched \in Seq(Nat) /\ touched' \in Seq(Nat)
        BY <1>1 DEF LayersInv
      <3>. QED
        BY <3>1, <3>2
    <2>. SUFFICES ASSUME NEW i \in DOMAIN layers, NEW a \in Named, NEW v \in Values,
                         DeviceAt(a) = i, layers[i].dev.kind = "range", Set(a, v)
                  PROVE  LET old == layers[i].dev.spans
                             new == layers'[i].dev.spans
                         IN  /\ Offset(i, a) \in Covered(new) /\ SpanValue(new, Offset(i, a)) = v
                             /\ \A o \in Covered(new) \ {Offset(i, a)} :
                                   o \in Covered(old) /\ SpanValue(new, o) = SpanValue(old, o)
      OBVIOUS
    <2>2. i # 0
      <3>1. DOMAIN layers = 1 .. Len(layers)
        BY <1>1, Sequences DEF LayersInv
      <3>. QED
        BY <3>1
    <2>. DEFINE d == layers[i].dev
                o == Offset(i, a)
    <2>3. layers'[i].dev = SetHeld(d, o, v)
      BY <1>1, <2>1, <2>2, SetIs
    <2>4. IsDevice(d) /\ SpansSound(d.spans) /\ o \in Nat
      BY <1>1, <2>1, <2>2, OffsetIs DEF LayersInv, IsLayer, SpansInv, DeviceSound, RangeSound
    <2>. HIDE DEF d, o
    <2>5. layers'[i].dev.spans = SetInSpans(d.spans, o, v)
      BY <2>3, <2>4, SetHeldIs DEF d
    <2>6. LET new == SetInSpans(d.spans, o, v)
          IN  /\ o \in Covered(new) /\ SpanValue(new, o) = v
              /\ \A p \in Covered(new) \ {o} :
                    p \in Covered(d.spans) /\ SpanValue(new, p) = SpanValue(d.spans, p)
      BY <2>4, SetInSpansIs
    <2>. QED
      BY <2>5, <2>6 DEF d, o
  <1>2. LayersInv /\ SpansInv /\ [StorageNext]_storageVars => LayersInv' /\ [Step]_storageVars
    BY <1>1, StepInv
  <1>. QED
    BY <1>2, SpansStayApart, PTL DEF StorageSpec, SpansNeverLie
=============================================================================
