---------------------------- MODULE RangeStorage -----------------------------
(***************************************************************************)
(* The spans of a range storage (storage/range): a list of intervals with  *)
(* their values, read and changed by scanning it.  A call at an offset     *)
(* above the storage's maximum never gets here.                            *)
(***************************************************************************)
EXTENDS Naturals, SequencesExt

CONSTANT Values         \* values a byte can have

Span(lower, upper, value) == [lower |-> lower, upper |-> upper, value |-> value]

In(s, o) == s.lower <= o /\ o <= s.upper

\* get takes the first span whose end is not below o.  It does not look at the
\* span's start: an offset before it indexes in front of the span's vector,
\* where any value may be.
GetFromSpans(spans, default, o) ==
    LET i == SelectInSeq(spans, LAMBDA s : o <= s.upper)
    IN  IF i = 0 THEN {default}
        ELSE IF In(spans[i], o) THEN {spans[i].value[o - spans[i].lower + 1]}
        ELSE Values

\* set changes the span that holds o, or extends the span that ends before o.
Adjusted(s, o, v) ==
    IF In(s, o) THEN [s EXCEPT !.value[o - s.lower + 1] = v]
    ELSE IF o = s.upper + 1 THEN [s EXCEPT !.upper = o, !.value = Append(@, v)]
    ELSE s

\* Mutant of Merged: the values are put together in the wrong order.
MergedSwapped(spans) ==
    FoldLeft(LAMBDA out, s :
        IF out # << >> /\ Last(out).upper + 1 = s.lower
        THEN Append(Front(out), Span(Last(out).lower, s.upper, s.value \o Last(out).value))
        ELSE Append(out, s), << >>, spans)

\* The merge pass: a span that begins where its neighbour ends is erased, and the
\* span after it is not looked at.  The neighbour was extended in a copy only.
Merged(spans) ==
    LET Pass[n \in 0 .. Len(spans)] ==     \* over the first n spans
            IF n = 0 THEN [out |-> << >>, erased |-> FALSE]
            ELSE LET m == Pass[n - 1]
                     s == spans[n]
                 IN  IF m.out # << >> /\ ~m.erased /\ Last(m.out).upper + 1 = s.lower
                     THEN [out |-> m.out, erased |-> TRUE]
                     ELSE [out |-> Append(m.out, s), erased |-> FALSE]
    IN  Pass[Len(spans)].out

\* The spans in ascending order.  No two of them begin at the same offset.
Sorted(spans) ==
    CHOOSE t \in [DOMAIN spans -> Range(spans)] :
        Range(t) = Range(spans) /\ \A i, j \in DOMAIN t : i < j => t[i].lower < t[j].lower

SetInSpans(spans, o, v) ==
    LET adjusted == [i \in DOMAIN spans |-> Adjusted(spans[i], o, v)]
    IN  IF \E i \in DOMAIN spans : o = spans[i].upper + 1 THEN Merged(adjusted)
        ELSE IF \E i \in DOMAIN spans : In(spans[i], o) THEN adjusted
        ELSE Merged(Sorted(Append(spans, Span(o, o, <<v>>))))

\* The offsets the spans hold a value for, and the value.
Covered(spans) == UNION {spans[i].lower .. spans[i].upper : i \in DOMAIN spans}
SpanAt(spans, o) == CHOOSE i \in DOMAIN spans : In(spans[i], o)
SpanValue(spans, o) == LET s == spans[SpanAt(spans, o)] IN s.value[o - s.lower + 1]
=============================================================================
