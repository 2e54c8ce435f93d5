-------------------------- MODULE AssemblerProofs ---------------------------
(***************************************************************************)
(* The assembler, for every operating system, user program and set of      *)
(* macros: its driver keeps the stages in step, so that one that looks at  *)
(* a whole program finds all of it, however deep the macros are nested;    *)
(* if it succeeds nothing was wrong, but for what the parser forgets;      *)
(* nothing is parsed while the macros invoke one another in a circle, and  *)
(* what is called circular is, as a matter of the texts and not only of    *)
(* the graph the preprocessor keeps; and when addresses were assigned      *)
(* without a message every operand has one definition.  And the symbol     *)
(* tables: the states of a name are right for any number of them.          *)
(***************************************************************************)
EXTENDS AssemblerInvariants, SymbolTable, SequenceTheorems, FiniteSetTheorems, TLAPS, WellFoundedInduction

\* Induction, as the provers can use it: a nonempty set of naturals has a least element.
LEMMA Least ==
    ASSUME NEW T \in SUBSET Nat, T # {}
    PROVE  \E n \in T : \A m \in T : n <= m
  <1>. DEFINE R == {ss \in Nat \X Nat : ss[1] < ss[2]}
  <1>1. IsWellFoundedOn(R, Nat)
    BY NatLessThanWellFounded DEF OpToRel
  <1>2. PICK n \in T : \A m \in T : ~ (<<m, n>> \in R)
    <2>. HIDE DEF R
    <2>. QED
      BY <1>1, WFMin
  <1>3. ASSUME NEW m \in T PROVE n <= m
    <2>1. <<m, n>> \in R <=> m < n
      BY Zenon
    <2>. QED
      BY <2>1, <1>2
  <1>. QED
    BY <1>3

\* What holds at 0 and, with i - 1, at i, holds up to n.
LEMMA Upwards ==
    ASSUME NEW n \in Nat, NEW G, 0 \in G, \A i \in 1 .. n : i - 1 \in G => i \in G
    PROVE  0 .. n \subseteq G
  <1>. DEFINE Bad == {i \in 0 .. n : i \notin G}
  <1>. SUFFICES ASSUME Bad # {} PROVE FALSE
    OBVIOUS
  <1>1. PICK i \in Bad : \A j \in Bad : i <= j
    <2>1. Bad \subseteq Nat
      OBVIOUS
    <2>. HIDE DEF Bad
    <2>. QED
      BY <2>1, Least
  <1>2. i \in 1 .. n
    OBVIOUS
  <1>3. i - 1 \in 0 .. n /\ i - 1 \notin Bad
    <2>1. ~(i <= i - 1)
      BY <1>2
    <2>. HIDE DEF Bad
    <2>. QED
      BY <1>1, <1>2, <2>1
  <1>. QED
    BY <1>2, <1>3

\* Sequences of one another's elements.
LEMMA Sequences ==
    /\ \A S : \A x \in Seq(S) : Sequence(x) /\ DOMAIN x = 1 .. Len(x) /\ Len(x) \in Nat
    /\ \A x : Sequence(x) => DOMAIN x = 1 .. Len(x) /\ Len(x) \in Nat
    /\ \A n \in Nat : \A x : DOMAIN x = 1 .. n /\ x = [i \in DOMAIN x |-> x[i]] => Sequence(x)
  <1>1. ASSUME NEW S, NEW x \in Seq(S)
        PROVE  Sequence(x) /\ DOMAIN x = 1 .. Len(x) /\ Len(x) \in Nat
    <2>1. x \in [1 .. Len(x) -> S] /\ Len(x) \in Nat
      BY LenProperties
    <2>2. x \in [1 .. Len(x) -> Range(x)]
      BY <2>1 DEF Range
    <2>. QED
      BY <2>1, <2>2 DEF Sequence, IsText
  <1>2. ASSUME NEW n \in Nat, NEW x, DOMAIN x = 1 .. n, x = [i \in DOMAIN x |-> x[i]]
        PROVE  Sequence(x)
    <2>1. x \in [1 .. n -> Range(x)]
      BY <1>2 DEF Range
    <2>. QED
      BY <2>1 DEF Sequence, IsText
  <1>. QED
    BY <1>1, <1>2 DEF Sequence, IsText

\* Sequences are flattened one after the other.
LEMMA FlattenedSteps ==
    ASSUME NEW S, NEW ss \in Seq(Seq(S)), Len(ss) # 0
    PROVE  \E L \in [1 .. Len(ss) -> Seq(S)] :
              /\ FlattenSeq(ss) = L[Len(ss)] /\ L[1] = ss[1]
              /\ \A i \in 2 .. Len(ss) : L[i] = L[i - 1] \o ss[i]
  <1>. DEFINE n == Len(ss)
              next(g, i) == IF i = 1 THEN ss[i] ELSE g[i - 1] \o ss[i]
              Is(g) == g = [i \in 1 .. n |-> next(g, i)]
              L == CHOOSE g : Is(g)
              Begun(k) == {g \in [1 .. k -> Seq(S)] : \A i \in 1 .. k : g[i] = next(g, i)}
              G == {k \in 0 .. n : Begun(k) # {}}
              H == {k \in 0 .. n : k = 0 \/ L[k] \in Seq(S)}
  <1>1. n \in Nat /\ \A i \in 1 .. n : ss[i] \in Seq(S)
    BY LenProperties
  <1>2. n # 0
    OBVIOUS
  <1>3. FlattenSeq(ss) = L[n]
    BY <1>2 DEF FlattenSeq
  <1>4. 0 \in G
    <2>1. [i \in 1 .. 0 |-> << >>] \in Begun(0)
      OBVIOUS
    <2>. HIDE DEF Begun
    <2>. QED
      BY <1>1, <2>1
  <1>5. ASSUME NEW i \in 1 .. n, i - 1 \in G
        PROVE  i \in G
    <2>1. PICK g : g \in Begun(i - 1)
      BY <1>5
    <2>2. g \in [1 .. i - 1 -> Seq(S)] /\ \A j \in 1 .. i - 1 : g[j] = next(g, j)
      BY <2>1
    <2>3. next(g, i) \in Seq(S)
      BY <1>1, <2>2, ConcatProperties
    <2>. DEFINE h == [j \in 1 .. i |-> IF j = i THEN next(g, i) ELSE g[j]]
    <2>4. h \in [1 .. i -> Seq(S)]
      <3>. HIDE DEF next
      <3>. QED
        BY <2>2, <2>3
    <2>5. ASSUME NEW j \in 1 .. i
          PROVE  h[j] = next(h, j)
      <3>1. j # 1 => h[j - 1] = g[j - 1]
        OBVIOUS
      <3>2. next(h, j) = next(g, j)
        BY <3>1
      <3>. HIDE DEF next
      <3>3. j # i => g[j] = next(g, j)
        <4>1. i \in Nat /\ (j # i => j \in 1 .. i - 1)
          OBVIOUS
        <4>. QED
          BY <2>2, <4>1
      <3>. QED
        BY <3>2, <3>3
    <2>. HIDE DEF h, next
    <2>6. h \in Begun(i)
      BY <2>4, <2>5
    <2>. QED
      BY <1>1, <2>6
  <1>6. n \in G
    <2>. HIDE DEF G
    <2>1. 0 .. n \subseteq G
      BY <1>1, <1>4, <1>5, Upwards, Zenon
    <2>2. n \in 0 .. n
      BY <1>1
    <2>. QED
      BY <2>1, <2>2
  <1>7. PICK g : g \in Begun(n)
    BY <1>6
  <1>8. Is(g)
    <2>. HIDE DEF next
    <2>1. g \in [1 .. n -> Seq(S)] /\ \A i \in 1 .. n : g[i] = next(g, i)
      BY <1>7
    <2>. QED
      BY <2>1
  <1>9. Is(L)
    <2>. HIDE DEF Is
    <2>. QED
      BY <1>8
  <1>. HIDE DEF L
  <1>10. \A i \in 1 .. n : L[i] = next(L, i)
    <2>. HIDE DEF next
    <2>. QED
      BY <1>9
  <1>11. 0 \in H
    BY <1>1
  <1>12. ASSUME NEW i \in 1 .. n, i - 1 \in H
         PROVE  i \in H
    <2>1. next(L, i) \in Seq(S)
      BY <1>1, <1>12, ConcatProperties
    <2>2. L[i] = next(L, i)
      <3>. HIDE DEF next
      <3>. QED
        BY <1>10
    <2>3. L[i] \in Seq(S)
      <3>. HIDE DEF next
      <3>. QED
        BY <2>1, <2>2
    <2>. QED
      BY <1>1, <2>3
  <1>13. \A i \in 1 .. n : L[i] \in Seq(S)
    <2>1. 0 .. n \subseteq H
      <3>. HIDE DEF H
      <3>. QED
        BY <1>1, <1>11, <1>12, Upwards, Zenon
    <2>2. \A i \in 1 .. n : i \in 0 .. n /\ i # 0
      BY <1>1
    <2>. QED
      BY <2>1, <2>2
  <1>14. L \in [1 .. n -> Seq(S)]
    <2>. HIDE DEF next
    <2>1. L = [i \in 1 .. n |-> next(L, i)]
      BY <1>9
    <2>2. DOMAIN L = 1 .. n /\ L = [i \in 1 .. n |-> L[i]]
      BY <1>10, <2>1
    <2>. HIDE DEF n
    <2>. QED
      BY <1>13, <2>2
  <1>15. 1 \in 1 .. n /\ \A i \in 2 .. n : i \in 1 .. n /\ i # 1
    BY <1>1, <1>2
  <1>16. L[1] = ss[1] /\ \A i \in 2 .. n : L[i] = L[i - 1] \o ss[i]
    BY <1>10, <1>15
  <1>. QED
    BY <1>3, <1>14, <1>16

\* What is flattened is a sequence; there is something in it if there is in the last.
LEMMA Flattened ==
    ASSUME NEW S, NEW ss \in Seq(Seq(S))
    PROVE  /\ FlattenSeq(ss) \in Seq(S)
           /\ Len(ss) # 0 /\ ss[Len(ss)] # << >> => FlattenSeq(ss) # << >>
           /\ Len(ss) = 0 => FlattenSeq(ss) = << >>
  <1>. DEFINE n == Len(ss)
  <1>1. n \in Nat /\ \A i \in 1 .. n : ss[i] \in Seq(S)
    BY LenProperties
  <1>2. CASE n = 0
    <2>1. ss = << >>
      BY <1>2, EmptySeq
    <2>. QED
      BY <1>2, <2>1 DEF FlattenSeq
  <1>3. CASE n # 0
    <2>1. PICK L \in [1 .. n -> Seq(S)] :
              /\ FlattenSeq(ss) = L[n] /\ L[1] = ss[1]
              /\ \A i \in 2 .. n : L[i] = L[i - 1] \o ss[i]
      BY <1>3, FlattenedSteps
    <2>2. n \in 1 .. n /\ (n # 1 => n \in 2 .. n /\ n - 1 \in 1 .. n)
      <3>. HIDE DEF n
      <3>. QED
        BY <1>1, <1>3
    <2>3. ASSUME ss[n] # << >> PROVE L[n] # << >>
      <3>1. CASE n = 1
        BY <2>1, <2>3, <3>1
      <3>2. CASE n # 1
        <4>1. L[n - 1] \in Seq(S) /\ ss[n] \in Seq(S) /\ L[n] = L[n - 1] \o ss[n]
          BY <1>1, <2>1, <2>2, <3>2
        <4>2. Len(ss[n]) \in Nat \ {0} /\ Len(L[n - 1]) \in Nat
          BY <2>3, <4>1, EmptySeq, LenProperties
        <4>3. Len(L[n]) = Len(L[n - 1]) + Len(ss[n])
          BY <4>1, ConcatProperties
        <4>4. Len(L[n]) # 0
          <5>1. \A a \in Nat, b \in Nat \ {0} : a + b # 0
            OBVIOUS
          <5>. HIDE DEF n
          <5>. QED
            BY <4>2, <4>3, <5>1
        <4>. QED
          BY <4>4, EmptySeq
      <3>. QED
        BY <3>1, <3>2
    <2>. QED
      BY <1>3, <2>1, <2>2, <2>3
  <1>. QED
    BY <1>2, <1>3

\* Of two sequences put one after the other, what is in one of them is in the whole.
LEMMA Joined ==
    ASSUME NEW S, NEW x \in Seq(S), NEW y \in Seq(S)
    PROVE  x \o y \in Seq(S) /\ Range(x \o y) = Range(x) \cup Range(y)
  <1>1. x \o y \in Seq(S) /\ Len(x \o y) = Len(x) + Len(y) /\ Len(x) \in Nat /\ Len(y) \in Nat
    BY LenProperties, ConcatProperties
  <1>2. \A i \in 1 .. Len(x) + Len(y) :
            (x \o y)[i] = IF i <= Len(x) THEN x[i] ELSE y[i - Len(x)]
    BY ConcatProperties
  <1>3. DOMAIN x = 1 .. Len(x) /\ DOMAIN y = 1 .. Len(y) /\ DOMAIN (x \o y) = 1 .. Len(x) + Len(y)
    BY <1>1, LenProperties
  <1>4. Range(x \o y) \subseteq Range(x) \cup Range(y)
    <2>. SUFFICES ASSUME NEW i \in 1 .. Len(x) + Len(y)
                  PROVE  (x \o y)[i] \in Range(x) \cup Range(y)
      BY <1>3 DEF Range
    <2>1. CASE i <= Len(x)
      <3>1. i \in DOMAIN x /\ (x \o y)[i] = x[i]
        BY <1>1, <1>2, <1>3, <2>1
      <3>. QED
        BY <3>1 DEF Range
    <2>2. CASE ~(i <= Len(x))
      <3>1. i - Len(x) \in DOMAIN y /\ (x \o y)[i] = y[i - Len(x)]
        BY <1>1, <1>2, <1>3, <2>2
      <3>. QED
        BY <3>1 DEF Range
    <2>. QED
      BY <2>1, <2>2
  <1>5. ASSUME NEW i \in 1 .. Len(x)
        PROVE  x[i] \in Range(x \o y)
    <2>1. i \in DOMAIN (x \o y) /\ (x \o y)[i] = x[i]
      BY <1>1, <1>2, <1>3
    <2>. QED
      BY <2>1 DEF Range
  <1>6. ASSUME NEW i \in 1 .. Len(y)
        PROVE  y[i] \in Range(x \o y)
    <2>1. Len(x) + i \in DOMAIN (x \o y) /\ (x \o y)[Len(x) + i] = y[i]
      BY <1>1, <1>2, <1>3
    <2>. QED
      BY <2>1 DEF Range
  <1>. QED
    BY <1>1, <1>3, <1>4, <1>5, <1>6 DEF Range

\* What is flattened has the elements of them all.
LEMMA FlattenedRange ==
    ASSUME NEW S, NEW ss \in Seq(Seq(S))
    PROVE  Range(FlattenSeq(ss)) = UNION {Range(ss[i]) : i \in DOMAIN ss}
  <1>. DEFINE n == Len(ss)
  <1>1. n \in Nat /\ DOMAIN ss = 1 .. n /\ \A i \in 1 .. n : ss[i] \in Seq(S)
    BY LenProperties
  <1>2. CASE n = 0
    <2>1. FlattenSeq(ss) = << >>
      BY <1>2, Flattened
    <2>2. DOMAIN ss = {} /\ Range(<< >>) = {}
      BY <1>1, <1>2 DEF Range
    <2>. QED
      BY <2>1, <2>2
  <1>3. CASE n # 0
    <2>1. PICK L \in [1 .. n -> Seq(S)] :
              /\ FlattenSeq(ss) = L[n] /\ L[1] = ss[1]
              /\ \A i \in 2 .. n : L[i] = L[i - 1] \o ss[i]
      BY <1>3, FlattenedSteps
    <2>. DEFINE Up(k) == UNION {Range(ss[i]) : i \in 1 .. k}
                G == {k \in 0 .. n : k = 0 \/ Range(L[k]) = Up(k)}
    <2>2. 0 \in G
      BY <1>1
    <2>3. ASSUME NEW i \in 1 .. n, i - 1 \in G PROVE i \in G
      <3>1. CASE i = 1
        <4>1. 1 .. 1 = {1}
          OBVIOUS
        <4>2. Up(1) = Range(ss[1])
          BY <4>1
        <4>3. Range(L[1]) = Up(1)
          BY <2>1, <4>2
        <4>4. i \in 0 .. n
          BY <1>1
        <4>. QED
          BY <3>1, <4>3, <4>4
      <3>2. CASE i # 1
        <4>1. i \in 2 .. n /\ i - 1 \in 1 .. n /\ i - 1 # 0
          BY <1>1, <3>2
        <4>2. L[i] = L[i - 1] \o ss[i] /\ L[i - 1] \in Seq(S) /\ ss[i] \in Seq(S)
          BY <1>1, <2>1, <4>1
        <4>3. Range(L[i]) = Range(L[i - 1]) \cup Range(ss[i])
          BY <4>2, Joined
        <4>4. 1 .. i = (1 .. i - 1) \cup {i}
          BY <1>1
        <4>5. Range(L[i - 1]) = Up(i - 1)
          BY <2>3, <4>1
        <4>6. Up(i) = Up(i - 1) \cup Range(ss[i])
          BY <4>4
        <4>7. Range(L[i]) = Up(i) /\ i \in 0 .. n
          <5>. HIDE DEF Up
          <5>. QED
            BY <1>1, <4>3, <4>5, <4>6
        <4>. HIDE DEF Up
        <4>. QED
          BY <4>7
      <3>. QED
        BY <3>1, <3>2
    <2>4. n \in G
      <3>. HIDE DEF G
      <3>1. 0 .. n \subseteq G
        BY <1>1, <2>2, <2>3, Upwards, Zenon
      <3>2. n \in 0 .. n
        BY <1>1
      <3>. QED
        BY <3>1, <3>2
    <2>. QED
      BY <1>1, <1>3, <2>1, <2>4
  <1>. QED
    BY <1>2, <1>3

-----------------------------------------------------------------------------
(* The driver. *)

LEMMA StageNumbers ==
    /\ Stages = 1 .. 8
    /\ Stage.RAW = 1 /\ Stage.TOKEN = 2 /\ Stage.PREPROCESS = 3 /\ Stage.SYMANTIC = 4
    /\ Stage.SANITY = 5 /\ Stage.ADDRESS = 6 /\ Stage.PACK = 7 /\ Stage.FINISHED = 8
  BY DEF Stages, Stage

\* The smallest of some numbers.
LEMMA Smallest ==
    ASSUME NEW T \in SUBSET Nat, T # {}
    PROVE  Min(T) \in T /\ \A m \in T : Min(T) <= m
  <1>1. \E n \in T : \A m \in T : n <= m
    BY Least
  <1>. QED
    BY <1>1 DEF Min

\* Nothing waits at a stage before the one that is next.
LEMMA LowestIs ==
    ASSUME Waiting # {}
    PROVE  /\ Lowest \in Stages /\ queue[Lowest] # << >>
           /\ \A u \in Stages : u < Lowest => queue[u] = << >>
  <1>1. Waiting \in SUBSET Nat
    BY StageNumbers DEF Waiting
  <1>2. Lowest \in Waiting /\ \A m \in Waiting : Lowest <= m
    BY <1>1, Smallest DEF Lowest
  <1>3. ASSUME NEW u \in Stages, u < Lowest
        PROVE  queue[u] = << >>
    BY <1>2, <1>3, StageNumbers DEF Waiting
  <1>. QED
    BY <1>2, <1>3 DEF Waiting

\* A transform takes up all of its stage, and a stage that looks at a whole program, the
\* whole of it.
LEMMA Taken ==
    ASSUME AsmInv, NEW st \in Stages, Take(st)
    PROVE  /\ ~failed /\ phase \in {"os", "user"} /\ st < target /\ ~Stuck
           /\ queue[st] # << >> /\ \A u \in Stages : u < st => queue[u] = << >>
           /\ st <= 3 => Expanding
           /\ st \in {4, 5} => Range(queue[st]) = Own /\ \A u \in Stages \ {st} : queue[u] = << >>
           /\ st >= 6 => Done
  <1>1. Waiting # {} /\ Lowest = st /\ st < target /\ phase # "done"
    BY DEF Take, Running
  <1>2. queue[st] # << >> /\ \A u \in Stages : u < st => queue[u] = << >>
    BY <1>1, LowestIs
  <1>3. ~Stuck
    <2>1. st \in 1 .. 8 /\ target \in 1 .. 8
      BY StageNumbers DEF AsmInv, DriverSound
    <2>2. st \in Waiting
      BY <1>2 DEF Waiting
    <2>. QED
      BY <1>1, <2>1, <2>2 DEF Stuck
  <1>4. ~failed /\ phase \in {"os", "user"} /\ (Expanding \/ Whole \/ Done)
    BY <1>1, <1>3 DEF AsmInv, DriverSound
  <1>5. st <= 3 => Expanding
    <2>. SUFFICES ASSUME st <= 3 PROVE ~Whole /\ ~Done
      BY <1>4
    <2>1. st \in 1 .. 3
      BY StageNumbers
    <2>. QED
      BY <1>2, <2>1, StageNumbers DEF Whole, Done
  <1>6. ASSUME st \in {4, 5}
        PROVE  Range(queue[st]) = Own /\ \A u \in Stages \ {st} : queue[u] = << >>
    <2>1. ~Expanding /\ ~Done
      BY <1>2, <1>6 DEF Expanding, Done
    <2>. QED
      BY <1>2, <1>4, <2>1 DEF Whole
  <1>7. st >= 6 => Done
    <2>. SUFFICES ASSUME st >= 6 PROVE ~Expanding /\ ~Whole
      BY <1>4
    <2>1. st \in 6 .. 8
      BY StageNumbers
    <2>. QED
      BY <1>2, <2>1, StageNumbers DEF Expanding, Whole
  <1>. QED
    BY <1>1, <1>2, <1>3, <1>4, <1>5, <1>6, <1>7

\* What a stage leaves behind: nothing that can go on, if it failed.
LEMMA Requeued ==
    ASSUME AsmInv, NEW st \in Stages, Take(st), NEW ok \in BOOLEAN, NEW work,
           \A u \in Stages \cap DOMAIN work : work[u] \in Seq(Nat), Requeue(st, ok, work)
    PROVE  /\ DriverSound' /\ phase' = phase
           /\ ~ok => Stuck'
           /\ ok => ~failed'
           /\ ok => \A u \in Stages : queue'[u] = (IF u = st THEN << >> ELSE queue[u])
                                        \o (IF u \in DOMAIN work THEN work[u] ELSE << >>)
  <1>. DEFINE Left(u) == IF u = st THEN << >> ELSE queue[u]
              Sent(u) == IF ok /\ u \in DOMAIN work THEN work[u] ELSE << >>
  <1>1. /\ queue' = [u \in Stages |-> Left(u) \o Sent(u)]
        /\ failed' = (failed \/ ~ok) /\ target' = IF ok THEN target ELSE Min({target, st})
        /\ request' = request /\ phase' = phase
    BY DEF Requeue
  <1>2. DriverSound /\ ~failed /\ st < target /\ \A u \in Stages : u < st => queue[u] = << >>
    BY Taken DEF AsmInv
  <1>3. << >> \in Seq(Nat) /\ \A u \in Stages : Left(u) \in Seq(Nat) /\ Sent(u) \in Seq(Nat)
    <2>1. << >> \in Seq(Nat)
      OBVIOUS
    <2>. QED
      BY <1>2, <2>1 DEF DriverSound
  <1>4. \A u \in Stages : Left(u) \o Sent(u) \in Seq(Nat)
    <2>. HIDE DEF Left, Sent
    <2>. QED
      BY <1>3, Joined
  <1>5. queue' \in [Stages -> Seq(Nat)]
    <2>. HIDE DEF Left, Sent
    <2>. QED
      BY <1>1, <1>4
  <1>6. ~ok => target' = st
    <2>1. st \in 1 .. 8 /\ target \in 1 .. 8
      BY <1>2, StageNumbers DEF DriverSound
    <2>2. Min({target, st}) \in {target, st} /\ Min({target, st}) <= st
      <3>1. {target, st} \in SUBSET Nat /\ {target, st} # {}
        BY <2>1
      <3>. QED
        BY <3>1, Smallest
    <2>. QED
      BY <1>1, <1>2, <2>1, <2>2
  <1>7. target' \in Stages /\ failed' \in BOOLEAN /\ (ok => ~failed')
    BY <1>1, <1>2, <1>6 DEF DriverSound
  <1>8. DriverSound'
    BY <1>1, <1>2, <1>5, <1>7 DEF DriverSound
  <1>9. ASSUME ~ok PROVE Stuck'
    <2>. SUFFICES ASSUME NEW u \in Stages, u < st PROVE queue'[u] = << >>
      BY <1>6, <1>9, StageNumbers DEF Stuck, Waiting
    <2>1. Left(u) = << >> /\ Sent(u) = << >>
      BY <1>2, <1>9
    <2>. HIDE DEF Left, Sent
    <2>. QED
      BY <1>1, <2>1
  <1>10. ASSUME ok, NEW u \in Stages
         PROVE  queue'[u] = (IF u = st THEN << >> ELSE queue[u])
                              \o (IF u \in DOMAIN work THEN work[u] ELSE << >>)
    BY <1>1, <1>10
  <1>. QED
    BY <1>1, <1>7, <1>8, <1>9, <1>10

\* Most stages hand on what they took up to one other stage.
LEMMA Forwarded ==
    ASSUME AsmInv, NEW st \in Stages, NEW to \in Stages \ {st}, Take(st), NEW ok \in BOOLEAN,
           NEW batch \in Seq(Nat), Requeue(st, ok, [u \in {to} |-> batch])
    PROVE  /\ DriverSound' /\ phase' = phase
           /\ ~ok => Stuck'
           /\ ok => /\ ~failed' /\ queue'[st] = << >> /\ queue'[to] = queue[to] \o batch
                    /\ \A u \in Stages \ {st, to} : queue'[u] = queue[u]
  <1>. DEFINE work == [u \in {to} |-> batch]
  <1>1. DOMAIN work = {to} /\ work[to] = batch
    OBVIOUS
  <1>2. \A u \in Stages \cap DOMAIN work : work[u] \in Seq(Nat)
    OBVIOUS
  <1>. HIDE DEF work
  <1>3. Requeue(st, ok, work)
    BY DEF work
  <1>4. /\ DriverSound' /\ phase' = phase
        /\ ~ok => Stuck'
        /\ ok => ~failed'
        /\ ok => \A u \in Stages : queue'[u] = (IF u = st THEN << >> ELSE queue[u])
                                     \o (IF u \in DOMAIN work THEN work[u] ELSE << >>)
    BY <1>2, <1>3, Requeued
  <1>5. << >> \in Seq(Nat) /\ \A x \in Seq(Nat) : x \o << >> = x
    OBVIOUS
  <1>6. \A u \in Stages : queue[u] \in Seq(Nat)
    BY DEF AsmInv, DriverSound
  <1>7. ASSUME ok
        PROVE  /\ queue'[st] = << >> /\ queue'[to] = queue[to] \o batch
               /\ \A u \in Stages \ {st, to} : queue'[u] = queue[u]
    <2>1. queue'[st] = << >> \o << >>
      BY <1>1, <1>4, <1>7
    <2>2. queue'[to] = queue[to] \o batch
      BY <1>1, <1>4, <1>7
    <2>3. \A u \in Stages \ {st, to} : queue'[u] = queue[u] \o << >>
      BY <1>1, <1>4, <1>7
    <2>. QED
      BY <1>5, <1>6, <2>1, <2>2, <2>3
  <1>. QED
    BY <1>4, <1>7

\* So is what was tokenized, to the preprocessor.
LEMMA TokensForwarded ==
    ASSUME AsmInv, Take(1), NEW bad, Requeue(1, bad = {}, [u \in {2} |-> queue[1]])
    PROVE  /\ bad # {} => Stuck'
           /\ bad = {} => /\ queue'[1] = << >> /\ queue'[2] = queue[2] \o queue[1] /\ queue'[3] = queue[3]
  <1>. PICK ok, batch : ok \in BOOLEAN /\ ok = (bad = {}) /\ batch = queue[1]
    OBVIOUS
  <1>1. 1 \in Stages /\ 2 \in Stages \ {1} /\ 3 \in Stages \ {1, 2} /\ batch \in Seq(Nat)
    BY StageNumbers DEF AsmInv, DriverSound
  <1>2. Requeue(1, ok, [u \in {2} |-> batch])
    OBVIOUS
  <1>3. /\ ~ok => Stuck'
        /\ ok => /\ queue'[1] = << >> /\ queue'[2] = queue[2] \o batch
                 /\ \A u \in Stages \ {1, 2} : queue'[u] = queue[u]
    BY <1>1, <1>2, Forwarded
  <1>. QED
    BY <1>1, <1>3

\* The tree stays as it is where nothing is opened up.
LEMMA SameTree ==
    ASSUME SectionsSound, Sequence(sections'), DOMAIN sections' = DOMAIN sections, phase' = phase,
           \A s \in DOMAIN sections :
               /\ DOMAIN sections'[s] = DOMAIN sections[s] /\ IsText(sections'[s].lines)
               /\ sections'[s].top = sections[s].top /\ sections'[s].parent = sections[s].parent,
           \A x \in DOMAIN registry' : IsText(registry'[x].lines)
    PROVE  SectionsSound' /\ Own' = Own
  <1>1. Own' = Own
    BY DEF Own
  <1>2. \A s \in DOMAIN sections' :
            /\ {"top", "parent", "lines", "ir"} \subseteq DOMAIN sections'[s]
            /\ sections'[s].top \in {OS, User} /\ IsText(sections'[s].lines)
            /\ sections'[s].parent = 0 => sections'[s].top = s
    BY DEF SectionsSound
  <1>3. phase' = "os" => \A s \in DOMAIN sections' : sections'[s].top = User => s = User
    BY DEF SectionsSound
  <1>. QED
    BY <1>1, <1>2, <1>3 DEF SectionsSound, Sequence, IsText

\* Its sections may change but for that, as they are tokenized, parsed and checked.
LEMMA SameNumber ==
    ASSUME SectionsSound, DOMAIN sections' = DOMAIN sections,
           sections' = [s \in DOMAIN sections' |-> sections'[s]]
    PROVE  Sequence(sections')
  <1>1. DOMAIN sections = 1 .. Len(sections) /\ Len(sections) \in Nat
    BY Sequences DEF SectionsSound
  <1>. QED
    BY <1>1, Sequences

LEMMA SameText ==
    ASSUME SectionsSound, UNCHANGED <<sections, registry>>, phase' = phase
    PROVE  SectionsSound' /\ Own' = Own
  BY DEF SectionsSound, Own, Sequence, IsText

-----------------------------------------------------------------------------
(* The driver's own steps. *)

\* What is dropped is followed by work that is dropped too.
LEMMA IgnoredIsStuck ==
    ASSUME AsmInv, Ignore
    PROVE  Stuck'
  <1>1. Waiting # {} /\ Lowest >= target /\ queue' = [queue EXCEPT ![Lowest] = << >>] /\ target' = target
    BY DEF Ignore, Running
  <1>2. Lowest \in Stages /\ \A u \in Stages : u < Lowest => queue[u] = << >>
    BY <1>1, LowestIs
  <1>. SUFFICES ASSUME NEW st \in Stages, queue'[st] # << >>
                PROVE  st >= target
    BY <1>1 DEF Stuck, Waiting
  <1>3. queue[st] # << >>
    BY <1>1, <1>2 DEF AsmInv, DriverSound
  <1>4. ~(st < Lowest)
    BY <1>2, <1>3
  <1>. QED
    BY <1>1, <1>2, <1>4, StageNumbers DEF AsmInv, DriverSound

LEMMA IgnoreKeeps ==
    ASSUME AsmInv, Ignore
    PROVE  AsmInv'
  <1>1. Waiting # {} /\ Lowest >= target /\ queue' = [queue EXCEPT ![Lowest] = << >>]
        /\ UNCHANGED <<sections, registry, request, target, failed, phase>>
    BY DEF Ignore, Running, text
  <1>2. Lowest \in Stages /\ \A u \in Stages : u < Lowest => queue[u] = << >>
    BY <1>1, LowestIs
  <1>3. SectionsSound'
    BY <1>1, SameText DEF AsmInv
  <1>4. DriverSound'
    <2>1. << >> \in Seq(Nat)
      OBVIOUS
    <2>2. queue' \in [Stages -> Seq(Nat)]
      BY <1>1, <1>2, <2>1 DEF AsmInv, DriverSound
    <2>. QED
      BY <1>1, <2>2 DEF AsmInv, DriverSound
  <1>5. Stuck'
    BY IgnoredIsStuck
  <1>. QED
    BY <1>3, <1>4, <1>5 DEF AsmInv

LEMMA GiveUpKeeps ==
    ASSUME AsmInv, GiveUp
    PROVE  AsmInv'
  <1>1. Waiting # {} /\ queue' = [queue EXCEPT ![Lowest] = << >>]
        /\ failed' = TRUE /\ phase' = "done" /\ UNCHANGED <<sections, registry, request, target>>
    BY DEF GiveUp, Running, text
  <1>2. SectionsSound'
    BY <1>1 DEF AsmInv, SectionsSound, Sequence, IsText
  <1>3. DriverSound'
    <2>1. << >> \in Seq(Nat)
      OBVIOUS
    <2>2. queue' \in [Stages -> Seq(Nat)]
      BY <1>1, <2>1, LowestIs DEF AsmInv, DriverSound
    <2>. QED
      BY <1>1, <2>2 DEF AsmInv, DriverSound
  <1>. QED
    BY <1>1, <1>2, <1>3 DEF AsmInv

LEMMA EndLoopKeeps ==
    ASSUME AsmInv, EndLoop
    PROVE  AsmInv'
  <1>1. phase # "done" /\ Waiting = {} /\ UNCHANGED <<sections, registry, request, failed>>
    BY DEF EndLoop, text
  <1>2. CASE phase = "os" /\ User \in Programs /\ ~failed
    <2>1. phase' = "user" /\ queue' = [queue EXCEPT ![Stage.RAW] = <<User>>] /\ target' = request.target
      BY <1>2 DEF EndLoop
    <2>2. SectionsSound'
      BY <1>1, <2>1 DEF AsmInv, SectionsSound, Sequence, IsText
    <2>3. DriverSound'
      <3>1. <<User>> \in Seq(Nat)
        BY DEF User
      <3>2. queue' \in [Stages -> Seq(Nat)]
        BY <2>1, <3>1 DEF AsmInv, DriverSound
      <3>3. request.target \in Stages
        BY AssemblerAssumption, StageNumbers DEF AsmInv, DriverSound
      <3>. QED
        BY <1>1, <2>1, <3>2, <3>3 DEF AsmInv, DriverSound
    <2>4. Expanding'
      <3>1. \A st \in Stages : queue[st] = << >>
        BY <1>1 DEF Waiting
      <3>2. queue'[1] = <<User>> /\ \A st \in 2 .. 8 : queue'[st] = << >>
        BY <2>1, <3>1, StageNumbers DEF AsmInv, DriverSound
      <3>3. Range(<<User>>) = {User} /\ Range(<< >>) = {}
        BY DEF Range
      <3>4. Own' = {User}
        <4>1. User \in DOMAIN sections /\ sections[User].top = User
          BY <1>2 DEF Programs, AsmInv, SectionsSound
        <4>2. \A s \in DOMAIN sections : sections[s].top = User => s = User
          BY <1>2 DEF AsmInv, SectionsSound
        <4>. QED
          BY <1>1, <2>1, <4>1, <4>2 DEF Own
      <3>. QED
        BY <3>2, <3>3, <3>4 DEF Expanding
    <2>. QED
      BY <1>1, <1>2, <2>2, <2>3, <2>4 DEF AsmInv
  <1>3. CASE ~(phase = "os" /\ User \in Programs /\ ~failed)
    <2>1. phase' = "done" /\ UNCHANGED <<queue, target>>
      BY <1>3 DEF EndLoop
    <2>2. SectionsSound'
      BY <1>1, <2>1 DEF AsmInv, SectionsSound, Sequence, IsText
    <2>. QED
      BY <1>1, <2>1, <2>2 DEF AsmInv, DriverSound
  <1>. QED
    BY <1>2, <1>3

-----------------------------------------------------------------------------
(* The stages. *)

LEMMA TokenizeKeeps ==
    ASSUME AsmInv, Tokenize
    PROVE  AsmInv'
  <1>. DEFINE batch == Range(queue[Stage.RAW])
              bad == UNION {{Error(s, i, "token") : i \in {i \in DOMAIN sections[s].lines :
                                sections[s].lines[i].kind = "bad"}} : s \in batch}
              Read(s) == IF s \in batch
                         THEN [sections[s] EXCEPT !.lines =
                                  [i \in DOMAIN @ |-> Substituted(@[i], sections[s].args)]]
                         ELSE sections[s]
  <1>1. /\ Take(Stage.RAW) /\ Requeue(Stage.RAW, bad = {}, [u \in {Stage.TOKEN} |-> queue[Stage.RAW]])
        /\ sections' = [s \in DOMAIN sections |-> Read(s)] /\ registry' = registry
    BY DEF Tokenize
  <1>. HIDE DEF bad
  <1>2. /\ ~failed /\ phase \in {"os", "user"} /\ Expanding /\ DriverSound /\ SectionsSound
    BY <1>1, Taken, StageNumbers DEF AsmInv
  <1>3. /\ DriverSound' /\ phase' = phase
        /\ bad # {} => Stuck'
        /\ bad = {} => /\ ~failed' /\ queue'[1] = << >> /\ queue'[2] = queue[2] \o queue[1]
                       /\ \A u \in Stages \ {1, 2} : queue'[u] = queue[u]
    <2>1. (bad = {}) \in BOOLEAN /\ 1 \in Stages /\ 2 \in Stages \ {1} /\ queue[1] \in Seq(Nat)
      BY <1>2, StageNumbers DEF DriverSound
    <2>2. Take(1) /\ Requeue(1, bad = {}, [u \in {2} |-> queue[1]])
      BY <1>1, StageNumbers
    <2>. QED
      BY <2>1, <2>2, Forwarded
  <1>4. SectionsSound' /\ Own' = Own
    <2>1. DOMAIN sections' = DOMAIN sections /\ Sequence(sections')
      <3>. HIDE DEF Read
      <3>1. DOMAIN sections' = DOMAIN sections /\ sections' = [s \in DOMAIN sections' |-> sections'[s]]
        BY <1>1
      <3>. QED
        BY <1>2, <3>1, SameNumber
    <2>2. ASSUME NEW s \in DOMAIN sections
          PROVE  /\ DOMAIN sections'[s] = DOMAIN sections[s] /\ IsText(sections'[s].lines)
                 /\ sections'[s].top = sections[s].top /\ sections'[s].parent = sections[s].parent
      <3>1. {"top", "parent", "lines", "ir"} \subseteq DOMAIN sections[s] /\ IsText(sections[s].lines)
        BY <1>2 DEF SectionsSound
      <3>2. /\ DOMAIN sections[s].lines = 1 .. Len(sections[s].lines) /\ Len(sections[s].lines) \in Nat
            /\ \A i \in DOMAIN sections[s].lines : "kind" \in DOMAIN sections[s].lines[i]
        BY <3>1, Sequences DEF IsText, Sequence
      <3>. DEFINE lines == [i \in DOMAIN sections[s].lines |-> Substituted(sections[s].lines[i], sections[s].args)]
      <3>3. IsText(lines)
        <4>1. DOMAIN lines = 1 .. Len(sections[s].lines) /\ lines = [i \in DOMAIN lines |-> lines[i]]
          BY <3>2
        <4>2. \A i \in DOMAIN lines : "kind" \in DOMAIN lines[i]
          BY <3>2 DEF Substituted
        <4>. HIDE DEF lines
        <4>. QED
          BY <3>2, <4>1, <4>2, Sequences DEF IsText, Sequence
      <3>4. sections'[s] = IF s \in batch THEN [sections[s] EXCEPT !.lines = lines] ELSE sections[s]
        BY <1>1
      <3>. HIDE DEF lines
      <3>. QED
        BY <3>1, <3>3, <3>4
    <2>3. \A x \in DOMAIN registry' : IsText(registry'[x].lines)
      BY <1>1, <1>2 DEF SectionsSound
    <2>. QED
      BY <1>2, <1>3, <2>1, <2>2, <2>3, SameTree
  <1>5. ASSUME bad = {} PROVE Expanding'
    <2>1. Range(<< >>) = {}
      BY DEF Range
    <2>2. Range(queue'[2]) = Range(queue[2]) \cup Range(queue[1])
      <3>1. queue[1] \in Seq(Nat) /\ queue[2] \in Seq(Nat)
        BY <1>2, StageNumbers DEF DriverSound
      <3>2. Range(queue[2] \o queue[1]) = Range(queue[2]) \cup Range(queue[1])
        BY <3>1, Joined
      <3>. QED
        BY <1>3, <1>5, <3>2
    <2>3. queue'[3] = queue[3] /\ \A st \in 4 .. 8 : queue'[st] = queue[st]
      BY <1>3, <1>5, StageNumbers
    <2>. QED
      BY <1>2, <1>3, <1>4, <1>5, <2>1, <2>2, <2>3 DEF Expanding
  <1>. QED
    BY <1>2, <1>3, <1>4, <1>5 DEF AsmInv

\* The macros registered for system calls are texts too.
LEMMA DeclaredTexts ==
    ASSUME NEW reg, NEW lines, \A x \in DOMAIN reg : IsText(reg[x].lines)
    PROVE  \A x \in DOMAIN Declared(reg, lines) : IsText(Declared(reg, lines)[x].lines)
  <1>1. ASSUME NEW line PROVE IsText(SystemMacro(line).lines)
    <2>1. ASSUME NEW k, NEW x, NEW l, NEW y, NEW m, NEW z
          PROVE  IsText(<<Word(k, x), Word(l, y), Word(m, z)>>)
      <3>1. ASSUME NEW a, NEW b, NEW c, \A w \in {a, b, c} : "kind" \in DOMAIN w
            PROVE  IsText(<<a, b, c>>)
        <4>1. <<a, b, c>> \in Seq({a, b, c})
          OBVIOUS
        <4>2. \A i \in DOMAIN <<a, b, c>> : <<a, b, c>>[i] \in {a, b, c}
          OBVIOUS
        <4>. QED
          BY <3>1, <4>1, <4>2, Sequences DEF IsText, Sequence
      <3>2. \A j, w : "kind" \in DOMAIN Word(j, w)
        BY DEF Word
      <3>. QED
        BY <3>1, <3>2
    <2>2. CASE line.kind = "scall"
      <3>1. SystemMacro(line).lines =
                <<Word("nonunary", line.name), Word("nonunary", "$1"), Word("end", "")>>
        BY <2>2 DEF SystemMacro
      <3>. QED
        BY <2>1, <3>1
    <2>3. CASE line.kind # "scall"
      <3>1. SystemMacro(line).lines =
                <<Word("nonunary", line.name), Word("unary", ""), Word("end", "")>>
        BY <2>3 DEF SystemMacro
      <3>. QED
        BY <2>1, <3>1
    <2>. QED
      BY <2>2, <2>3
  <1>. DEFINE declaring == {k \in DOMAIN lines : lines[k].kind \in {"scall", "uscall"}}
              First(x) == lines[Min({k \in declaring : lines[k].name = x})]
  <1>2. Declared(reg, lines) =
            [x \in DOMAIN reg \cup {lines[k].name : k \in declaring} |->
                IF x \in DOMAIN reg THEN reg[x] ELSE SystemMacro(First(x))]
    BY DEF Declared
  <1>. HIDE DEF declaring, First
  <1>. QED
    BY <1>1, <1>2

LEMMA ParseKeeps ==
    ASSUME AsmInv, Parse
    PROVE  AsmInv'
  <1>. DEFINE batch == queue[Stage.PREPROCESS]
              here == Range(batch)
              lines == FlattenSeq([k \in DOMAIN batch |-> sections[batch[k]].lines])
              Read(s) == IF s \in here THEN [sections[s] EXCEPT !.ir = Parsed(s)] ELSE sections[s]
              ok == \A s \in here : Accepted(s)
  <1>1. /\ Take(Stage.PREPROCESS) /\ Requeue(Stage.PREPROCESS, ok, [u \in {Stage.SYMANTIC} |-> batch])
        /\ sections' = [s \in DOMAIN sections |-> Read(s)] /\ registry' = Declared(registry, lines)
    BY DEF Parse
  <1>2. /\ ~failed /\ phase \in {"os", "user"} /\ Expanding /\ DriverSound /\ SectionsSound
        /\ queue[1] = << >> /\ queue[2] = << >>
    BY <1>1, Taken, StageNumbers DEF AsmInv
  <1>3. /\ DriverSound' /\ phase' = phase
        /\ ~ok => Stuck'
        /\ ok => /\ ~failed' /\ queue'[3] = << >> /\ queue'[4] = queue[4] \o queue[3]
                 /\ \A u \in Stages \ {3, 4} : queue'[u] = queue[u]
    <2>1. ok \in BOOLEAN /\ 3 \in Stages /\ 4 \in Stages \ {3} /\ queue[3] \in Seq(Nat)
      BY <1>2, StageNumbers DEF DriverSound
    <2>. HIDE DEF ok
    <2>2. Take(3) /\ Requeue(3, ok, [u \in {4} |-> queue[3]])
      BY <1>1, StageNumbers
    <2>. QED
      BY <2>1, <2>2, Forwarded
  <1>. HIDE DEF ok, lines
  <1>4. SectionsSound' /\ Own' = Own
    <2>1. Sequence(sections')
      <3>. HIDE DEF Read
      <3>1. DOMAIN sections' = DOMAIN sections /\ sections' = [s \in DOMAIN sections' |-> sections'[s]]
        BY <1>1
      <3>. QED
        BY <1>2, <3>1, SameNumber
    <2>2. ASSUME NEW s \in DOMAIN sections
          PROVE  /\ DOMAIN sections'[s] = DOMAIN sections[s] /\ IsText(sections'[s].lines)
                 /\ sections'[s].top = sections[s].top /\ sections'[s].parent = sections[s].parent
      <3>1. {"top", "parent", "lines", "ir"} \subseteq DOMAIN sections[s] /\ IsText(sections[s].lines)
        BY <1>2 DEF SectionsSound
      <3>. QED
        BY <1>1, <3>1
    <2>3. \A x \in DOMAIN registry' : IsText(registry'[x].lines)
      BY <1>1, <1>2, DeclaredTexts DEF SectionsSound
    <2>. QED
      BY <1>1, <1>2, <1>3, <2>1, <2>2, <2>3, SameTree
  <1>5. ASSUME ok PROVE Whole'
    <2>1. queue[4] = << >> /\ queue[3] \in Seq(Nat) /\ << >> \o queue[3] = queue[3]
      BY <1>2, StageNumbers DEF Expanding, DriverSound
    <2>2. \A u \in Stages \ {4} : queue'[u] = << >>
      BY <1>2, <1>3, <1>5, StageNumbers DEF Expanding
    <2>3. Range(queue'[4]) = Own'
      BY <1>2, <1>3, <1>4, <1>5, <2>1 DEF Expanding, Range
    <2>. QED
      BY <2>2, <2>3 DEF Whole
  <1>. QED
    BY <1>2, <1>3, <1>4, <1>5 DEF AsmInv

LEMMA CheckSanityKeeps ==
    ASSUME AsmInv, CheckSanity
    PROVE  AsmInv'
  <1>. DEFINE wrong == UNION {{Error(p, i, "sanity") : i \in Insane(p)} : p \in Programs}
              Marked(s) == [sections[s] EXCEPT !.ir = Checked(s)]
  <1>1. /\ Take(Stage.SYMANTIC)
        /\ Requeue(Stage.SYMANTIC, wrong = {}, [u \in {Stage.SANITY} |-> queue[Stage.SYMANTIC]])
        /\ sections' = [s \in DOMAIN sections |-> Marked(s)] /\ registry' = registry
    BY DEF CheckSanity
  <1>. HIDE DEF wrong
  <1>2. /\ ~failed /\ phase \in {"os", "user"} /\ DriverSound /\ SectionsSound
        /\ Range(queue[4]) = Own /\ \A u \in Stages \ {4} : queue[u] = << >>
    BY <1>1, Taken, StageNumbers DEF AsmInv
  <1>3. /\ DriverSound' /\ phase' = phase
        /\ wrong # {} => Stuck'
        /\ wrong = {} => /\ ~failed' /\ queue'[4] = << >> /\ queue'[5] = queue[5] \o queue[4]
                         /\ \A u \in Stages \ {4, 5} : queue'[u] = queue[u]
    <2>1. (wrong = {}) \in BOOLEAN /\ 4 \in Stages /\ 5 \in Stages \ {4} /\ queue[4] \in Seq(Nat)
      BY <1>2, StageNumbers DEF DriverSound
    <2>2. Take(4) /\ Requeue(4, wrong = {}, [u \in {5} |-> queue[4]])
      BY <1>1, StageNumbers
    <2>. QED
      BY <2>1, <2>2, Forwarded
  <1>4. SectionsSound' /\ Own' = Own
    <2>1. Sequence(sections')
      <3>. HIDE DEF Marked
      <3>1. DOMAIN sections' = DOMAIN sections /\ sections' = [s \in DOMAIN sections' |-> sections'[s]]
        BY <1>1
      <3>. QED
        BY <1>2, <3>1, SameNumber
    <2>2. ASSUME NEW s \in DOMAIN sections
          PROVE  /\ DOMAIN sections'[s] = DOMAIN sections[s] /\ IsText(sections'[s].lines)
                 /\ sections'[s].top = sections[s].top /\ sections'[s].parent = sections[s].parent
      <3>1. {"top", "parent", "lines", "ir"} \subseteq DOMAIN sections[s] /\ IsText(sections[s].lines)
        BY <1>2 DEF SectionsSound
      <3>. QED
        BY <1>1, <3>1
    <2>3. \A x \in DOMAIN registry' : IsText(registry'[x].lines)
      BY <1>1, <1>2 DEF SectionsSound
    <2>. QED
      BY <1>1, <1>2, <1>3, <2>1, <2>2, <2>3, SameTree
  <1>5. ASSUME wrong = {} PROVE Whole'
    <2>1. queue[5] = << >> /\ queue[4] \in Seq(Nat) /\ << >> \o queue[4] = queue[4]
      BY <1>2, StageNumbers DEF DriverSound
    <2>2. \A u \in Stages \ {5} : queue'[u] = << >>
      BY <1>2, <1>3, <1>5, StageNumbers
    <2>3. Range(queue'[5]) = Own'
      BY <1>2, <1>3, <1>4, <1>5, <2>1
    <2>. QED
      BY <2>2, <2>3 DEF Whole
  <1>. QED
    BY <1>2, <1>3, <1>4, <1>5 DEF AsmInv

\* From the image on nothing is at an earlier stage.
LEMMA ImageKeeps ==
    ASSUME AsmInv, NEW st \in 5 .. 7, Take(st), NEW ok \in BOOLEAN, NEW batch \in Seq(Nat),
           Requeue(st, ok, [u \in {st + 1} |-> batch]), UNCHANGED <<sections, registry>>
    PROVE  AsmInv'
  <1>1. st \in Stages /\ st + 1 \in Stages \ {st} /\ st + 1 \in 6 .. 8
    BY StageNumbers
  <1>2. \A u \in Stages : u < st => queue[u] = << >>
    BY <1>1, Taken
  <1>3. /\ DriverSound' /\ phase' = phase
        /\ ~ok => Stuck'
        /\ ok => /\ ~failed' /\ queue'[st] = << >>
                 /\ \A u \in Stages \ {st, st + 1} : queue'[u] = queue[u]
    BY <1>1, Forwarded
  <1>4. SectionsSound'
    BY <1>3, SameText DEF AsmInv
  <1>5. ASSUME ok PROVE Done'
    <2>. SUFFICES ASSUME NEW u \in 1 .. 5 PROVE queue'[u] = << >>
      BY DEF Done
    <2>1. u = st \/ (u \in Stages \ {st, st + 1} /\ u < st)
      BY <1>1, StageNumbers
    <2>. QED
      BY <1>2, <1>3, <1>5, <2>1
  <1>. QED
    BY <1>3, <1>4, <1>5 DEF AsmInv

\* A section opens up into sections of its program that lie below it.
Below(s) ==
    {Section(sections[s].top, s, i, sections[s].lines[i].name, sections[s].lines[i].args,
             registry[sections[s].lines[i].name].lines) :
        i \in {i \in DOMAIN sections[s].lines : Known(sections[s].lines[i])}}

LEMMA ChildrenBelow ==
    ASSUME SectionsSound, NEW s \in DOMAIN sections
    PROVE  /\ Children(s) \in Seq(Below(s))
           /\ \A c \in Below(s) : /\ {"top", "parent", "lines", "ir"} \subseteq DOMAIN c
                                  /\ c.top = sections[s].top /\ c.parent = s /\ IsText(c.lines)
                                  /\ c.ir = << >>
  <1>. DEFINE lines == sections[s].lines
              Sub(i) == Section(sections[s].top, s, i, lines[i].name, lines[i].args,
                                registry[lines[i].name].lines)
              Opened(i) == IF i \notin Macros(sections[s]) \/ ~Known(lines[i]) THEN << >> ELSE <<Sub(i)>>
              all == [i \in DOMAIN lines |-> Opened(i)]
  <1>1. Children(s) = FlattenSeq(all)
    BY DEF Children
  <1>2. DOMAIN lines = 1 .. Len(lines) /\ Len(lines) \in Nat
    BY Sequences DEF SectionsSound
  <1>3. Below(s) = {Sub(i) : i \in {i \in DOMAIN lines : Known(lines[i])}}
    BY DEF Below
  <1>4. all \in Seq(Seq(Below(s)))
    <2>1. ASSUME NEW i \in DOMAIN lines PROVE Opened(i) \in Seq(Below(s))
      <3>1. CASE i \notin Macros(sections[s]) \/ ~Known(lines[i])
        <4>1. Opened(i) = << >> /\ << >> \in Seq(Below(s))
          BY <3>1
        <4>. QED
          BY <4>1
      <3>2. CASE ~(i \notin Macros(sections[s]) \/ ~Known(lines[i]))
        <4>1. Opened(i) = <<Sub(i)>>
          BY <3>2
        <4>. HIDE DEF Sub, Opened
        <4>2. Sub(i) \in Below(s)
          BY <1>3, <3>2
        <4>3. <<Sub(i)>> \in Seq(Below(s))
          BY <4>2
        <4>. QED
          BY <4>1, <4>3
      <3>. QED
        BY <3>1, <3>2
    <2>. HIDE DEF lines, Opened
    <2>2. all \in [1 .. Len(lines) -> Seq(Below(s))]
      BY <1>2, <2>1
    <2>. QED
      BY <1>2, <2>2, SeqDef
  <1>5. ASSUME NEW c \in Below(s)
        PROVE  /\ {"top", "parent", "lines", "ir"} \subseteq DOMAIN c
               /\ c.top = sections[s].top /\ c.parent = s /\ IsText(c.lines) /\ c.ir = << >>
    <2>1. PICK i \in DOMAIN lines : Known(lines[i]) /\ c = Sub(i)
      <3>. HIDE DEF Sub
      <3>. QED
        BY <1>3
    <2>2. lines[i].name \in DOMAIN registry
      BY <2>1 DEF Known
    <2>3. IsText(registry[lines[i].name].lines)
      BY <2>2 DEF SectionsSound
    <2>. QED
      BY <2>1, <2>3 DEF Section
  <1>. QED
    BY <1>1, <1>4, <1>5, Flattened

\* The new sections come after those there are.
LEMMA TreeGrows ==
    ASSUME SectionsSound, NEW new, NEW N, new \in Seq(N), sections' = sections \o new,
           registry' = registry, phase' = phase,
           \A c \in N : /\ {"top", "parent", "lines", "ir"} \subseteq DOMAIN c
                        /\ c.top = (IF phase = "user" THEN User ELSE OS)
                        /\ c.parent # 0 /\ IsText(c.lines)
    PROVE  /\ SectionsSound' /\ Len(sections) \in Nat
           /\ Own' = Own \cup {Len(sections) + k : k \in DOMAIN new}
           /\ \A s \in DOMAIN sections : s \in DOMAIN sections' /\ sections'[s] = sections[s]
           /\ \A s \in DOMAIN sections' : s \in DOMAIN sections \/ sections'[s] \in N
  <1>. DEFINE U == Range(sections) \cup N
  <1>1. sections \in Seq(Range(sections))
    BY DEF SectionsSound, Sequence, IsText
  <1>2. sections \in Seq(U) /\ new \in Seq(U)
    BY <1>1, SeqMonotonic
  <1>3. /\ sections' \in Seq(U) /\ Len(sections') = Len(sections) + Len(new)
        /\ Len(sections) \in Nat /\ Len(new) \in Nat
        /\ DOMAIN sections = 1 .. Len(sections) /\ DOMAIN new = 1 .. Len(new)
        /\ DOMAIN sections' = 1 .. Len(sections')
        /\ \A i \in 1 .. Len(sections) + Len(new) :
              sections'[i] = IF i <= Len(sections) THEN sections[i] ELSE new[i - Len(sections)]
    <2>. HIDE DEF U
    <2>1. sections' \in Seq(U) /\ Len(sections') = Len(sections) + Len(new)
          /\ \A i \in 1 .. Len(sections) + Len(new) :
                sections'[i] = IF i <= Len(sections) THEN sections[i] ELSE new[i - Len(sections)]
      BY <1>2, ConcatProperties
    <2>. QED
      BY <1>2, <2>1, LenProperties
  <1>4. \A k \in DOMAIN new : new[k] \in N
    BY <1>3, ElementOfSeq
  <1>5. ASSUME NEW s \in DOMAIN sections' PROVE
            \/ s \in DOMAIN sections /\ sections'[s] = sections[s]
            \/ s - Len(sections) \in DOMAIN new /\ sections'[s] = new[s - Len(sections)]
               /\ s = Len(sections) + (s - Len(sections)) /\ s \notin DOMAIN sections
    BY <1>3
  <1>6. \A s \in DOMAIN sections : s \in DOMAIN sections' /\ sections'[s] = sections[s]
    BY <1>3
  <1>7. \A k \in DOMAIN new : /\ Len(sections) + k \in DOMAIN sections'
                              /\ sections'[Len(sections) + k] = new[k]
    BY <1>3
  <1>8. Sequence(sections')
    BY <1>3, Sequences
  <1>9. ASSUME NEW s \in DOMAIN sections'
        PROVE  /\ {"top", "parent", "lines", "ir"} \subseteq DOMAIN sections'[s]
               /\ sections'[s].top \in {OS, User} /\ IsText(sections'[s].lines)
               /\ sections'[s].parent = 0 => sections'[s].top = s
               /\ phase' = "os" => (sections'[s].top = User => s = User)
    <2>1. CASE s \in DOMAIN sections /\ sections'[s] = sections[s]
      BY <2>1 DEF SectionsSound
    <2>2. CASE s - Len(sections) \in DOMAIN new /\ sections'[s] = new[s - Len(sections)]
      <3>1. sections'[s] \in N
        BY <1>4, <2>2
      <3>2. OS # User
        BY DEF OS, User
      <3>. QED
        BY <3>1, <3>2
    <2>. QED
      BY <1>5, <2>1, <2>2
  <1>10. SectionsSound'
    <2>1. \A x \in DOMAIN registry' : IsText(registry'[x].lines)
      BY DEF SectionsSound
    <2>2. phase' = "os" => \A s \in DOMAIN sections' : sections'[s].top = User => s = User
      BY <1>9
    <2>. QED
      BY <1>8, <1>9, <2>1, <2>2 DEF SectionsSound, Sequence, IsText
  <1>11. Own' = Own \cup {Len(sections) + k : k \in DOMAIN new}
    <2>. DEFINE its == IF phase = "user" THEN User ELSE OS
    <2>1. Own = {s \in DOMAIN sections : sections[s].top = its}
          /\ Own' = {s \in DOMAIN sections' : sections'[s].top = its}
      BY DEF Own
    <2>2. \A k \in DOMAIN new : new[k].top = its
      BY <1>4
    <2>. HIDE DEF its
    <2>3. \A s \in Own' : s \in Own \cup {Len(sections) + k : k \in DOMAIN new}
      BY <1>5, <2>1
    <2>4. Own \subseteq Own' /\ \A k \in DOMAIN new : Len(sections) + k \in Own'
      BY <1>6, <1>7, <2>1, <2>2
    <2>. QED
      BY <2>3, <2>4
  <1>. QED
    BY <1>3, <1>4, <1>5, <1>6, <1>10, <1>11

\* A circle stays one as the graph grows.
LEMMA MoreIsCyclic ==
    ASSUME NEW graph, NEW more, graph \subseteq more, Cyclic(graph)
    PROVE  Cyclic(more)
  <1>. DEFINE Nodes(g) == {e[1] : e \in g} \cup {e[2] : e \in g}
  <1>1. Nodes(graph) \subseteq Nodes(more)
    OBVIOUS
  <1>2. \A g : Cyclic(g) <=> \E core \in (SUBSET Nodes(g)) \ {{}} : \A c \in core : \E d \in core : <<c, d>> \in g
    BY DEF Cyclic
  <1>. HIDE DEF Nodes
  <1>3. PICK core \in (SUBSET Nodes(graph)) \ {{}} : \A c \in core : \E d \in core : <<c, d>> \in graph
    BY <1>2
  <1>4. core \in (SUBSET Nodes(more)) \ {{}} /\ \A c \in core : \E d \in core : <<c, d>> \in more
    BY <1>1, <1>3
  <1>. QED
    BY <1>2, <1>4

\* The new sections are all below those of the program that is assembled.
Lower == UNION {Below(s) : s \in Own}

\* The preprocessor opens up some of a batch, all if nothing is wrong.  What that adds to the
\* graph closes no circle, unless there are new sections to find it at; one that is found is
\* there, and at the first of the batch only if it was there before.
Opening(new, wrong, graph, opened) ==
    /\ opened \in Seq(Own) /\ Range(opened) \subseteq Range(queue[2])
    /\ Range(new) = UNION {Range(Children(s)) : s \in Range(opened)}
    /\ graph = edges[Current] \cup UNION {Edges(s) : s \in Range(opened)}
    /\ wrong = {} => Range(opened) = Range(queue[2]) /\ \A s \in Range(opened) : BadInvocations(s) = {}
    /\ \A e \in wrong : e.what = "circular" =>
          /\ Cyclic(graph)
          /\ \E k \in DOMAIN queue[2] : /\ e.section = sections[queue[2][k]].parent
                                        /\ k = 1 => Cyclic(edges[Current])
    /\ new \in Seq(Lower) /\ sections' = sections \o new /\ registry' = registry
    /\ errors' = errors \cup wrong /\ edges' = [edges EXCEPT ![Current] = graph]
    /\ wrong = {} /\ Cyclic(graph) => new # << >>
    /\ Requeue(Stage.TOKEN, wrong = {},
               [u \in {Stage.RAW, Stage.PREPROCESS} |->
                   IF u = Stage.RAW THEN [k \in DOMAIN new |-> Len(sections) + k] ELSE queue[Stage.TOKEN]])

LEMMA PreprocessOpens ==
    ASSUME AsmInv, Preprocess
    PROVE  \E new, wrong, graph, opened : Opening(new, wrong, graph, opened)
  <1>. DEFINE batch == queue[Stage.TOKEN]
              top == sections[batch[1]].top
              Before(k) == edges[top] \cup UNION {Edges(batch[j]) : j \in 1 .. k - 1}
              circular == {k \in DOMAIN batch : Cyclic(Before(k))}
              opened == SubSeq(batch, 1, Len(batch) - Cardinality(circular))
              new == FlattenSeq([k \in DOMAIN opened |-> Children(opened[k])])
              wrong == (UNION {BadInvocations(s) : s \in Range(opened)})
                       \cup {Error(sections[s].parent, sections[s].line, "circular") :
                                s \in {batch[k] : k \in circular}}
              graph == edges[top] \cup UNION {Edges(s) : s \in Range(opened)}
              work == [u \in {Stage.RAW, Stage.PREPROCESS} |->
                          IF u = Stage.RAW THEN [k \in DOMAIN new |-> Len(sections) + k] ELSE batch]
  <1>1. /\ Take(Stage.TOKEN) /\ Requeue(Stage.TOKEN, wrong = {}, work)
        /\ sections' = sections \o new /\ registry' = registry /\ errors' = errors \cup wrong
        /\ edges' = [edges EXCEPT ![top] = graph]
    BY DEF Preprocess
  <1>. HIDE DEF wrong, circular, top, graph
  <1>2. /\ ~failed /\ phase \in {"os", "user"} /\ Expanding /\ DriverSound /\ SectionsSound
        /\ queue[1] = << >> /\ queue[2] # << >>
    BY <1>1, Taken, StageNumbers DEF AsmInv
  <1>3. /\ queue[2] \in Seq(Nat) /\ Len(queue[2]) \in Nat \ {0} /\ DOMAIN queue[2] = 1 .. Len(queue[2])
        /\ \A k \in 1 .. Len(queue[2]) : queue[2][k] \in Own
    <2>1. queue[2] \in Seq(Nat)
      BY <1>2, StageNumbers DEF DriverSound
    <2>2. Len(queue[2]) \in Nat \ {0} /\ DOMAIN queue[2] = 1 .. Len(queue[2])
      BY <1>2, <2>1, LenProperties, EmptySeq
    <2>3. \A k \in 1 .. Len(queue[2]) : queue[2][k] \in Range(queue[2])
      BY <2>2 DEF Range
    <2>. QED
      BY <1>2, <2>1, <2>2, <2>3 DEF Expanding
  <1>4. Cardinality(circular) \in Nat
    <2>1. circular \subseteq 1 .. Len(queue[2])
      BY <1>3, StageNumbers DEF circular
    <2>2. IsFiniteSet(1 .. Len(queue[2]))
      BY <1>3, FS_Interval
    <2>3. IsFiniteSet(circular)
      BY <2>1, <2>2, FS_Subset
    <2>. QED
      BY <2>3, FS_CardinalityType
  <1>5. opened \in Seq(Own)
    <2>1. Len(batch) - Cardinality(circular) \in Int
          /\ \A k \in 1 .. Len(batch) - Cardinality(circular) : batch[k] \in Own
      BY <1>3, <1>4, StageNumbers
    <2>. HIDE DEF batch
    <2>. QED
      BY <2>1, SubSeqProperties
  <1>. HIDE DEF opened
  <1>6. Own \subseteq DOMAIN sections /\ \A s \in Own : sections[s].top = IF phase = "user" THEN User ELSE OS
    BY DEF Own
  <1>. DEFINE all == [k \in DOMAIN opened |-> Children(opened[k])]
  <1>7. new \in Seq(Lower) /\ all \in Seq(Seq(Lower)) /\ Len(all) = Len(opened)
    <2>1. DOMAIN opened = 1 .. Len(opened) /\ Len(opened) \in Nat
          /\ \A k \in DOMAIN opened : opened[k] \in Own
      BY <1>5, LenProperties, ElementOfSeq
    <2>2. ASSUME NEW k \in DOMAIN opened PROVE Children(opened[k]) \in Seq(Lower)
      <3>1. opened[k] \in Own /\ opened[k] \in DOMAIN sections
        BY <1>6, <2>1
      <3>2. Children(opened[k]) \in Seq(Below(opened[k])) /\ Below(opened[k]) \subseteq Lower
        BY <1>2, <3>1, ChildrenBelow DEF Lower
      <3>. QED
        BY <3>2, SeqMonotonic
    <2>3. all \in [1 .. Len(opened) -> Seq(Lower)]
      BY <2>1, <2>2
    <2>4. all \in Seq(Seq(Lower))
      BY <2>1, <2>3, SeqDef
    <2>5. Len(all) = Len(opened)
      <3>1. DOMAIN all = 1 .. Len(all) /\ Len(all) \in Nat /\ DOMAIN all = 1 .. Len(opened)
        BY <2>1, <2>3, <2>4, LenProperties
      <3>2. \A a, b \in Nat : 1 .. a = 1 .. b => a = b
        <4>. SUFFICES ASSUME NEW a \in Nat, NEW b \in Nat, 1 .. a = 1 .. b, a # b PROVE FALSE
          OBVIOUS
        <4>1. a \in 1 .. a \/ a = 0
          OBVIOUS
        <4>2. b \in 1 .. b \/ b = 0
          OBVIOUS
        <4>. QED
          BY <4>1, <4>2
      <3>. HIDE DEF all
      <3>. QED
        BY <2>1, <3>1, <3>2
    <2>. QED
      BY <2>4, <2>5, Flattened
  <1>8. top = Current
    <2>1. batch[1] \in Own
      BY <1>3, StageNumbers
    <2>. QED
      BY <2>1 DEF top, Own, Current
  <1>9. ASSUME wrong = {}
        PROVE  /\ circular = {} /\ Len(opened) = Len(batch)
               /\ \A k \in 1 .. Len(batch) : opened[k] = batch[k]
    <2>1. circular = {}
      <3>. SUFFICES ASSUME NEW k \in circular PROVE FALSE
        OBVIOUS
      <3>1. Error(sections[batch[k]].parent, sections[batch[k]].line, "circular") \in wrong
        <4>. DEFINE found == {batch[j] : j \in circular}
                    ours == {Error(sections[s].parent, sections[s].line, "circular") : s \in found}
        <4>1. batch[k] \in found
          OBVIOUS
        <4>. DEFINE bad == UNION {BadInvocations(s) : s \in Range(opened)}
        <4>2. wrong = bad \cup ours
          <5>. HIDE DEF batch
          <5>. QED
            BY DEF wrong
        <4>. HIDE DEF found, batch, bad
        <4>. QED
          BY <4>1, <4>2
      <3>. QED
        BY <1>9, <3>1
    <2>2. Cardinality(circular) = 0
      BY <2>1, FS_EmptySet
    <2>3. Len(opened) = Len(batch) /\ \A k \in 1 .. Len(batch) : opened[k] = batch[k]
      <3>1. 1 \in Int /\ Len(batch) - Cardinality(circular) = Len(batch) /\ Len(batch) \in Int
            /\ \A k \in 1 .. Len(batch) : batch[k] \in Own
        BY <1>3, <2>2, StageNumbers
      <3>2. Len(batch) \in Nat \ {0}
        BY <1>3, StageNumbers
      <3>3. opened = SubSeq(batch, 1, Len(batch))
        BY <3>1 DEF opened
      <3>. HIDE DEF batch
      <3>4. Len(opened) = (IF 1 <= Len(batch) THEN Len(batch) - 1 + 1 ELSE 0)
            /\ \A k \in 1 .. Len(batch) - 1 + 1 : opened[k] = batch[1 + k - 1]
        BY <3>1, <3>3, SubSeqProperties
      <3>5. Len(batch) - 1 + 1 = Len(batch) /\ \A k \in 1 .. Len(batch) : 1 + k - 1 = k
        BY <3>2
      <3>. QED
        BY <3>2, <3>4, <3>5
    <2>. QED
      BY <2>1, <2>3
  <1>10. ASSUME wrong = {}, Cyclic(graph)
         PROVE  new # << >>
    <2>1. circular = {}
      BY <1>9, <1>10
    <2>3. Len(opened) = Len(batch) /\ \A k \in 1 .. Len(batch) : opened[k] = batch[k]
      BY <1>9, <1>10
    <2>. DEFINE n == Len(batch)
    <2>4. n \in 1 .. n /\ n - 1 \in Nat /\ DOMAIN batch = 1 .. n /\ DOMAIN opened = 1 .. n
      BY <1>3, <1>5, <2>3, StageNumbers, LenProperties
    <2>5. ~Cyclic(Before(n))
      BY <2>1, <2>4 DEF circular
    <2>6. graph \subseteq Before(n) \cup Edges(batch[n])
      <3>1. ASSUME NEW k \in 1 .. n, k # n PROVE k \in 1 .. n - 1
        BY <2>4, <3>1
      <3>2. Range(opened) = {batch[k] : k \in 1 .. n}
        <4>. HIDE DEF n, batch
        <4>. QED
          BY <2>3, <2>4 DEF n, Range
      <3>. HIDE DEF n, batch
      <3>. QED
        BY <3>1, <3>2 DEF graph
    <2>7. Before(n) \subseteq graph
      <3>1. \A k \in 1 .. n - 1 : k \in DOMAIN opened /\ opened[k] = batch[k]
        BY <2>3, <2>4
      <3>2. \A k \in 1 .. n - 1 : batch[k] \in Range(opened)
        BY <3>1 DEF Range
      <3>. HIDE DEF n, batch
      <3>. QED
        BY <3>2 DEF graph
    <2>8. Edges(batch[n]) # {}
      <3>1. Edges(batch[n]) = {} => graph = Before(n)
        <4>. HIDE DEF n, batch, Before
        <4>. QED
          BY <2>6, <2>7
      <3>. QED
        BY <1>10, <2>5, <3>1
    <2>9. Children(opened[n]) # << >>
      <3>1. Children(batch[n]) # << >>
        <4>. HIDE DEF n, batch
        <4>1. Range(<< >>) = {}
          BY DEF Range
        <4>. QED
          BY <2>8, <4>1 DEF Edges
      <3>. QED
        BY <2>3, <2>4, <3>1
    <2>10. all \in Seq(Seq(Lower)) /\ Len(all) = n
      BY <1>7, <2>3
    <2>11. all[n] # << >> /\ n # 0
      BY <2>4, <2>9
    <2>. HIDE DEF all, n
    <2>12. FlattenSeq(all) # << >>
      BY <2>10, <2>11, Flattened
    <2>. QED
      BY <2>12 DEF all
  <1>11. Range(new) = UNION {Range(Children(s)) : s \in Range(opened)}
    <2>1. Range(new) = UNION {Range(all[k]) : k \in DOMAIN all}
      BY <1>7, FlattenedRange
    <2>2. DOMAIN all = DOMAIN opened /\ \A k \in DOMAIN opened : all[k] = Children(opened[k])
      OBVIOUS
    <2>. HIDE DEF all, new
    <2>3. UNION {Range(all[k]) : k \in DOMAIN all} = UNION {Range(Children(opened[k])) : k \in DOMAIN opened}
      BY <2>2
    <2>4. UNION {Range(Children(opened[k])) : k \in DOMAIN opened} = UNION {Range(Children(s)) : s \in Range(opened)}
      <3>1. Range(opened) = {opened[k] : k \in DOMAIN opened}
        BY DEF Range
      <3>. QED
        BY <3>1
    <2>. QED
      BY <2>1, <2>3, <2>4
  <1>12. Range(opened) \subseteq Range(batch)
    <2>1. opened = SubSeq(batch, 1, Len(batch) - Cardinality(circular))
          /\ batch \in Seq(Nat) /\ Len(batch) \in Nat /\ DOMAIN batch = 1 .. Len(batch)
      BY <1>3, StageNumbers DEF opened
    <2>. HIDE DEF batch
    <2>. PICK m : m = Len(batch) - Cardinality(circular)
      OBVIOUS
    <2>2. m \in Int /\ m <= Len(batch) /\ \A k \in 1 .. m : batch[k] \in Range(batch)
      <3>1. m \in Int /\ m <= Len(batch)
        BY <1>4, <2>1
      <3>2. \A k \in 1 .. m : k \in DOMAIN batch
        BY <2>1, <3>1
      <3>. QED
        BY <3>1, <3>2 DEF Range
    <2>3. opened \in Seq(Range(batch))
      BY <2>1, <2>2, SubSeqProperties
    <2>. QED
      BY <2>3, LenProperties, ElementOfSeq DEF Range
  <1>13. ASSUME wrong = {}
         PROVE  Range(opened) = Range(batch) /\ \A s \in Range(opened) : BadInvocations(s) = {}
    <2>1. DOMAIN opened = 1 .. Len(opened) /\ DOMAIN batch = 1 .. Len(batch)
      BY <1>3, <1>5, StageNumbers, LenProperties
    <2>2. Range(opened) = Range(batch)
      <3>. HIDE DEF batch
      <3>. QED
        BY <1>9, <1>13, <2>1 DEF Range
    <2>3. \A s \in Range(opened) : BadInvocations(s) \subseteq wrong
      <3>. HIDE DEF batch
      <3>. QED
        BY DEF wrong
    <2>. QED
      BY <1>13, <2>2, <2>3
  <1>14. ASSUME NEW e \in wrong, e.what = "circular"
         PROVE  \E k \in circular : e.section = sections[batch[k]].parent
    <2>1. \A s \in Range(opened) : \A x \in BadInvocations(s) : x.what # "circular"
      BY DEF BadInvocations, Error
    <2>2. PICK s \in {batch[k] : k \in circular} :
              e = Error(sections[s].parent, sections[s].line, "circular")
      <3>. HIDE DEF batch
      <3>. QED
        BY <1>14, <2>1 DEF wrong
    <2>3. e.section = sections[s].parent
      BY <2>2 DEF Error
    <2>. QED
      BY <2>3
  <1>15. ASSUME NEW k \in circular
         PROVE  Cyclic(graph) /\ k \in DOMAIN batch /\ (k = 1 => Cyclic(edges[Current]))
    <2>. DEFINE n == Len(batch)
    <2>1. n \in Nat \ {0} /\ DOMAIN batch = 1 .. n
      BY <1>3, StageNumbers
    <2>2. circular \subseteq 1 .. n /\ \A j \in 1 .. n : j \in circular <=> Cyclic(Before(j))
      BY <2>1 DEF circular
    <2>. HIDE DEF n
    <2>3. PICK first \in circular : \A j \in circular : first <= j
      <3>1. circular \subseteq Nat
        BY <2>2
      <3>. QED
        BY <3>1, Least
    <2>4. \A i \in 1 .. n, j \in 1 .. n : i <= j => Before(i) \subseteq Before(j)
      <3>. SUFFICES ASSUME NEW i \in 1 .. n, NEW j \in 1 .. n, i <= j PROVE Before(i) \subseteq Before(j)
        OBVIOUS
      <3>1. 1 .. i - 1 \subseteq 1 .. j - 1
        OBVIOUS
      <3>. HIDE DEF batch
      <3>. QED
        BY <3>1
    <2>5. circular = first .. n
      <3>1. ASSUME NEW j \in first .. n PROVE j \in circular
        <4>1. j \in 1 .. n /\ first \in 1 .. n /\ first <= j
          BY <2>1, <2>2
        <4>2. Before(first) \subseteq Before(j) /\ Cyclic(Before(first))
          BY <2>2, <2>4, <4>1
        <4>3. Cyclic(Before(j))
          <5>. HIDE DEF Before
          <5>. QED
            BY <4>2, MoreIsCyclic
        <4>. QED
          BY <2>2, <4>1, <4>3
      <3>2. \A j \in circular : j \in first .. n
        BY <2>1, <2>2, <2>3
      <3>. QED
        BY <3>1, <3>2
    <2>6. first \in 1 .. n /\ Cardinality(circular) = n - first + 1
      <3>1. first \in 1 .. n
        BY <2>2
      <3>2. first \in Int /\ n \in Int /\ ~(first > n)
        BY <2>1, <3>1
      <3>3. Cardinality(first .. n) = n - first + 1
        BY <3>2, FS_Interval
      <3>. QED
        BY <2>5, <3>1, <3>3
    <2>7. n - Cardinality(circular) = first - 1 /\ first - 1 \in Nat
      BY <2>1, <2>6
    <2>8. opened = SubSeq(batch, 1, first - 1)
      BY <2>7 DEF opened, n
    <2>9. Range(opened) = {batch[j] : j \in 1 .. first - 1}
      <3>1. batch \in Seq(Nat) /\ Len(batch) = n
        BY <1>3, StageNumbers DEF n
      <3>2. \A j \in 1 .. first - 1 : batch[j] \in Nat
        <4>1. \A j \in 1 .. first - 1 : j \in 1 .. n
          BY <2>1, <2>6
        <4>. HIDE DEF batch, n
        <4>. QED
          BY <3>1, <4>1, ElementOfSeq
      <3>. HIDE DEF batch
      <3>3. /\ opened \in Seq(Nat)
            /\ Len(opened) = (IF 1 <= first - 1 THEN first - 1 - 1 + 1 ELSE 0)
            /\ \A j \in 1 .. first - 1 - 1 + 1 : opened[j] = batch[1 + j - 1]
        BY <2>7, <2>8, <3>1, <3>2, SubSeqProperties
      <3>4. Len(opened) = first - 1 /\ DOMAIN opened = 1 .. Len(opened)
            /\ \A j \in 1 .. first - 1 : opened[j] = batch[j]
        <4>1. first - 1 - 1 + 1 = first - 1 /\ \A j \in 1 .. first - 1 : 1 + j - 1 = j
          BY <2>6
        <4>2. Len(opened) = first - 1
          BY <2>7, <3>3, <4>1
        <4>. QED
          BY <3>3, <4>1, <4>2, LenProperties
      <3>. QED
        BY <3>4 DEF Range
    <2>10. graph = Before(first)
      <3>1. edges[top] \cup UNION {Edges(s) : s \in Range(opened)} = Before(first)
        <4>. HIDE DEF batch
        <4>. QED
          BY <2>9
      <3>. QED
        BY <3>1 DEF graph
    <2>11. Before(1) = edges[Current]
      <3>1. 1 .. 1 - 1 = {}
        OBVIOUS
      <3>2. Before(1) = edges[top]
        <4>. HIDE DEF batch
        <4>. QED
          BY <3>1
      <3>. QED
        BY <1>8, <3>2
    <2>. HIDE DEF Before
    <2>12. Cyclic(graph)
      BY <2>2, <2>10
    <2>13. k = 1 => Cyclic(edges[Current])
      BY <2>2, <2>11
    <2>. QED
      BY <2>1, <2>2, <2>12, <2>13
  <1>16. \A e \in wrong : e.what = "circular" =>
            /\ Cyclic(graph)
            /\ \E k \in DOMAIN queue[2] : /\ e.section = sections[queue[2][k]].parent
                                          /\ k = 1 => Cyclic(edges[Current])
    <2>1. batch = queue[2]
      BY StageNumbers
    <2>. HIDE DEF batch
    <2>. QED
      BY <1>14, <1>15, <2>1
  <1>17. /\ graph = edges[Current] \cup UNION {Edges(s) : s \in Range(opened)}
         /\ Range(opened) \subseteq Range(queue[2])
         /\ wrong = {} => Range(opened) = Range(queue[2]) /\ \A s \in Range(opened) : BadInvocations(s) = {}
    BY <1>8, <1>12, <1>13, StageNumbers DEF graph
  <1>18. Opening(new, wrong, graph, opened)
    <2>. HIDE DEF new
    <2>. QED
      BY <1>1, <1>5, <1>7, <1>8, <1>10, <1>11, <1>16, <1>17 DEF Opening
  <1>. QED
    BY <1>18

LEMMA LowerSound ==
    ASSUME SectionsSound
    PROVE  \A c \in Lower : /\ {"top", "parent", "lines", "ir"} \subseteq DOMAIN c
                            /\ c.top = (IF phase = "user" THEN User ELSE OS)
                            /\ c.parent # 0 /\ IsText(c.lines) /\ c.ir = << >>
  <1>. SUFFICES ASSUME NEW s \in Own, NEW c \in Below(s)
                PROVE  /\ {"top", "parent", "lines", "ir"} \subseteq DOMAIN c
                       /\ c.top = (IF phase = "user" THEN User ELSE OS)
                       /\ c.parent # 0 /\ IsText(c.lines) /\ c.ir = << >>
    BY DEF Lower
  <1>1. s \in DOMAIN sections /\ s # 0
    <2>1. DOMAIN sections = 1 .. Len(sections) /\ Len(sections) \in Nat
      BY Sequences DEF SectionsSound
    <2>. QED
      BY <2>1 DEF Own
  <1>2. sections[s].top = IF phase = "user" THEN User ELSE OS
    BY DEF Own
  <1>. QED
    BY <1>1, <1>2, ChildrenBelow

\* Where the new sections wait, and those they come from.
LEMMA PreprocessQueues ==
    ASSUME AsmInv, Preprocess, NEW new, NEW wrong, NEW graph, NEW opened, Opening(new, wrong, graph, opened)
    PROVE  /\ SectionsSound' /\ DriverSound' /\ phase' = phase /\ Len(sections) \in Nat
           /\ Own' = Own \cup {Len(sections) + k : k \in DOMAIN new}
           /\ wrong # {} => Stuck'
           /\ wrong = {} => /\ ~failed' /\ Expanding'
                            /\ Range(queue'[1]) = {Len(sections) + k : k \in DOMAIN new}
                            /\ queue'[2] = << >>
                            /\ Range(queue'[3]) = Range(queue[3]) \cup Range(queue[2])
  <1>. DEFINE added == [k \in DOMAIN new |-> Len(sections) + k]
              work == [u \in {Stage.RAW, Stage.PREPROCESS} |->
                          IF u = Stage.RAW THEN added ELSE queue[Stage.TOKEN]]
  <1>2. /\ Take(Stage.TOKEN) /\ Requeue(Stage.TOKEN, wrong = {}, work)
        /\ sections' = sections \o new /\ registry' = registry /\ new \in Seq(Lower)
    BY DEF Preprocess, Opening
  <1>3. /\ ~failed /\ phase \in {"os", "user"} /\ Expanding /\ DriverSound /\ SectionsSound
        /\ queue[1] = << >> /\ queue[2] \in Seq(Nat)
    BY <1>2, Taken, StageNumbers DEF AsmInv, DriverSound
  <1>4. phase' = phase
    BY <1>2 DEF Requeue
  <1>5. /\ SectionsSound' /\ Len(sections) \in Nat
        /\ Own' = Own \cup {Len(sections) + k : k \in DOMAIN new}
    BY <1>2, <1>3, <1>4, LowerSound, TreeGrows
  <1>6. added \in Seq(Nat) /\ Range(added) = {Len(sections) + k : k \in DOMAIN new}
    <2>1. DOMAIN new = 1 .. Len(new) /\ Len(new) \in Nat
      BY <1>2, LenProperties
    <2>2. added \in [1 .. Len(new) -> Nat]
      BY <1>5, <2>1
    <2>3. added \in Seq(Nat)
      <3>. HIDE DEF added
      <3>. QED
        BY <2>1, <2>2, SeqDef
    <2>. QED
      BY <2>3 DEF Range
  <1>. HIDE DEF added
  <1>7. DOMAIN work = {1, 3} /\ work[1] = added /\ work[3] = queue[2]
    BY StageNumbers
  <1>. HIDE DEF work
  <1>8. /\ DriverSound'
        /\ ~(wrong = {}) => Stuck'
        /\ wrong = {} => ~failed'
        /\ wrong = {} => /\ queue'[1] = queue[1] \o added /\ queue'[2] = << >> \o << >>
                         /\ queue'[3] = queue[3] \o queue[2]
                         /\ \A u \in 4 .. 8 : queue'[u] = queue[u] \o << >>
    <2>1. (wrong = {}) \in BOOLEAN /\ 2 \in Stages /\ Take(2) /\ Requeue(2, wrong = {}, work)
      BY <1>2, StageNumbers
    <2>2. \A u \in Stages \cap DOMAIN work : work[u] \in Seq(Nat)
      BY <1>3, <1>6, <1>7
    <2>3. /\ DriverSound'
          /\ ~(wrong = {}) => Stuck'
          /\ wrong = {} => ~failed'
          /\ wrong = {} => \A u \in Stages : queue'[u] = (IF u = 2 THEN << >> ELSE queue[u])
                                              \o (IF u \in DOMAIN work THEN work[u] ELSE << >>)
      BY <2>1, <2>2, Requeued
    <2>4. ASSUME wrong = {}, NEW u \in 1 .. 8
          PROVE  /\ u \in {1, 3} => queue'[u] = queue[u] \o work[u]
                 /\ u = 2 => queue'[u] = << >> \o << >>
                 /\ u \in 4 .. 8 => queue'[u] = queue[u] \o << >>
      <3>1. queue'[u] = (IF u = 2 THEN << >> ELSE queue[u]) \o (IF u \in DOMAIN work THEN work[u] ELSE << >>)
        BY <2>3, <2>4, StageNumbers
      <3>2. u \in DOMAIN work <=> u \in {1, 3}
        BY <1>7
      <3>3. u \in {1, 3} => u # 2
        OBVIOUS
      <3>4. u \in 4 .. 8 => u # 2 /\ u \notin {1, 3}
        OBVIOUS
      <3>5. u = 2 => u \notin {1, 3}
        OBVIOUS
      <3>. QED
        BY <3>1, <3>2, <3>3, <3>4, <3>5
    <2>5. 1 \in 1 .. 8 /\ 2 \in 1 .. 8 /\ 3 \in 1 .. 8 /\ 4 .. 8 \subseteq 1 .. 8
      OBVIOUS
    <2>. QED
      BY <1>7, <2>3, <2>4, <2>5
  <1>9. ASSUME wrong = {}
        PROVE  /\ Expanding' /\ Range(queue'[1]) = {Len(sections) + k : k \in DOMAIN new}
               /\ queue'[2] = << >> /\ Range(queue'[3]) = Range(queue[3]) \cup Range(queue[2])
    <2>1. /\ queue'[1] = << >> \o added /\ queue'[2] = << >> \o << >> /\ queue'[3] = queue[3] \o queue[2]
          /\ \A u \in 4 .. 8 : queue'[u] = queue[u] \o << >>
      <3>1. queue'[1] = queue[1] \o added /\ queue[1] = << >>
        BY <1>3, <1>8, <1>9
      <3>2. /\ queue'[2] = << >> \o << >> /\ queue'[3] = queue[3] \o queue[2]
            /\ \A u \in 4 .. 8 : queue'[u] = queue[u] \o << >>
        BY <1>8, <1>9
      <3>. QED
        BY <3>1, <3>2
    <2>2. /\ << >> \in Seq(Nat) /\ \A x \in Seq(Nat) : x \o << >> = x /\ << >> \o x = x
          /\ Range(<< >>) = {}
      BY DEF Range
    <2>3. queue[3] \in Seq(Nat)
      BY <1>3, StageNumbers DEF DriverSound
    <2>4. queue'[1] = added /\ queue'[2] = << >>
      BY <1>6, <2>1, <2>2
    <2>5. \A u \in 4 .. 8 : queue'[u] = << >>
      BY <1>3, <2>1, <2>2 DEF Expanding
    <2>6. Range(queue'[3]) = Range(queue[3]) \cup Range(queue[2])
      BY <1>3, <2>1, <2>3, Joined
    <2>7. Own = Range(queue[2]) \cup Range(queue[3])
      BY <1>3, <2>2 DEF Expanding
    <2>. QED
      BY <1>5, <1>6, <2>2, <2>4, <2>5, <2>6, <2>7 DEF Expanding
  <1>. QED
    BY <1>4, <1>5, <1>8, <1>9

LEMMA PreprocessKeeps ==
    ASSUME AsmInv, Preprocess
    PROVE  AsmInv'
  <1>1. PICK new, wrong, graph, opened : Opening(new, wrong, graph, opened)
    BY PreprocessOpens
  <1>2. /\ SectionsSound' /\ DriverSound'
        /\ wrong # {} => Stuck'
        /\ wrong = {} => ~failed' /\ Expanding'
    BY <1>1, PreprocessQueues
  <1>. QED
    BY <1>2 DEF AsmInv

-----------------------------------------------------------------------------
\* The texts that are given are.
LEMMA GivenTexts ==
    /\ \A t \in Seq(TextLine) : IsText(t)
    /\ \A r \in Requests : r.os \in Seq(TextLine) /\ r.user \in Seq(TextLine) /\ r.target \in Stages
    /\ \A x \in DOMAIN CoreMacros : CoreMacros[x].lines \in Seq(TextLine)
  <1>1. \A r \in Requests : r.os \in Seq(TextLine) /\ r.user \in Seq(TextLine) /\ r.target \in Stages
    <2>1. \A r \in Requests : {r.os, r.user} \subseteq Seq(TextLine) /\ r.target \in 1 .. 8
      BY AssemblerAssumption
    <2>. QED
      BY <2>1 DEF Stages
  <1>2. \A x \in DOMAIN CoreMacros : CoreMacros[x].lines \in Seq(TextLine)
    BY AssemblerAssumption
  <1>3. ASSUME NEW t \in Seq(TextLine) PROVE IsText(t)
    <2>1. \A i \in DOMAIN t : t[i] \in TextLine
      BY LenProperties, ElementOfSeq
    <2>2. \A l \in TextLine : "kind" \in DOMAIN l
      BY DEF TextLine
    <2>3. Sequence(t)
      BY Sequences
    <2>. QED
      BY <2>1, <2>2, <2>3 DEF IsText, Sequence
  <1>. QED
    BY <1>1, <1>2, <1>3

LEMMA AsmInitSound ==
    ASSUME AsmInit
    PROVE  AsmInv
  <1>. DEFINE os == Section(OS, 0, 0, "", << >>, request.os)
              us == Section(User, 0, 0, "", << >>, request.user)
              user == IF request.user = << >> THEN << >> ELSE <<us>>
              its == IF user = << >> THEN request.target ELSE Stage.SYMANTIC
  <1>1. /\ request \in Requests /\ sections = <<os>> \o user /\ target = its
        /\ registry = CoreMacros
        /\ queue = [st \in Stages |-> IF st = Stage.RAW THEN <<OS>> ELSE << >>]
        /\ failed = FALSE /\ phase = "os"
    BY DEF AsmInit
  <1>2. /\ IsText(request.os) /\ IsText(request.user) /\ its \in Stages
        /\ \A x \in DOMAIN registry : IsText(registry[x].lines)
    <2>1. IsText(request.os) /\ IsText(request.user) /\ request.target \in Stages
      BY <1>1, GivenTexts
    <2>2. \A x \in DOMAIN registry : IsText(registry[x].lines)
      BY <1>1, GivenTexts
    <2>3. its \in {request.target, 4}
      BY StageNumbers
    <2>. QED
      BY <2>1, <2>2, <2>3, StageNumbers
  <1>3. \A x \in {os, us} : /\ {"top", "parent", "lines", "ir"} \subseteq DOMAIN x
                            /\ x.top = (IF x = os THEN 1 ELSE 2) /\ IsText(x.lines)
    <2>1. {"top", "parent", "lines", "ir"} \subseteq DOMAIN os /\ os.top = 1 /\ os.lines = request.os
      BY DEF Section, OS
    <2>2. {"top", "parent", "lines", "ir"} \subseteq DOMAIN us /\ us.top = 2 /\ us.lines = request.user
      BY DEF Section, User
    <2>. HIDE DEF os, us
    <2>. QED
      BY <1>2, <2>1, <2>2
  <1>. HIDE DEF os, us, its
  <1>4. /\ Sequence(sections) /\ 1 \in DOMAIN sections /\ DOMAIN sections \subseteq {1, 2}
        /\ \A s \in DOMAIN sections : sections[s] \in {os, us} /\ sections[s].top = s
    <2>. DEFINE T == {os, us}
    <2>1. <<os>> \in Seq(T) /\ Len(<<os>>) = 1 /\ <<os>>[1] = os
      OBVIOUS
    <2>2. user \in Seq(T) /\ (Len(user) = 0 \/ Len(user) = 1) /\ (Len(user) = 1 => user[1] = us)
      <3>1. << >> \in Seq(T) /\ Len(<< >>) = 0 /\ <<us>> \in Seq(T) /\ Len(<<us>>) = 1 /\ <<us>>[1] = us
        OBVIOUS
      <3>2. user = << >> \/ user = <<us>>
        OBVIOUS
      <3>. HIDE DEF user, T
      <3>3. CASE user = << >>
        BY <3>1, <3>3
      <3>4. CASE user = <<us>>
        BY <3>1, <3>4
      <3>. QED
        BY <3>2, <3>3, <3>4
    <2>. HIDE DEF T, user
    <2>3. /\ sections \in Seq(T) /\ Len(sections) = 1 + Len(user)
          /\ \A i \in 1 .. 1 + Len(user) : sections[i] = IF i <= 1 THEN <<os>>[i] ELSE user[i - 1]
      BY <1>1, <2>1, <2>2, ConcatProperties
    <2>4. DOMAIN sections = 1 .. 1 + Len(user)
      BY <2>3, LenProperties
    <2>5. sections[1] = os /\ (2 \in DOMAIN sections => sections[2] = us)
      BY <2>1, <2>2, <2>3, <2>4
    <2>6. os.top = 1 /\ us.top = 2
      BY <1>3 DEF os, us, Section, OS, User
    <2>7. 1 \in DOMAIN sections /\ DOMAIN sections \subseteq {1, 2}
      <3>1. DOMAIN sections = 1 .. 1 \/ DOMAIN sections = 1 .. 2
        <4>1. CASE Len(user) = 0
          BY <2>4, <4>1
        <4>2. CASE Len(user) = 1
          <5>1. 1 + Len(user) = 2
            BY <4>2
          <5>. QED
            BY <2>4, <5>1
        <4>. QED
          BY <2>2, <4>1, <4>2
      <3>2. 1 .. 1 = {1} /\ 1 .. 2 = {1, 2}
        OBVIOUS
      <3>. QED
        BY <3>1, <3>2
    <2>. QED
      BY <2>3, <2>5, <2>6, <2>7, Sequences
  <1>5. SectionsSound
    <2>. QED
      BY <1>1, <1>2, <1>3, <1>4 DEF SectionsSound, OS, User
  <1>. HIDE DEF user
  <1>6. \A st \in Stages : queue[st] = IF st = 1 THEN <<OS>> ELSE << >>
    BY <1>1, StageNumbers
  <1>7. DriverSound
    <2>1. << >> \in Seq(Nat) /\ <<OS>> \in Seq(Nat)
      BY DEF OS
    <2>2. queue \in [Stages -> Seq(Nat)]
      BY <1>1, <2>1
    <2>. QED
      BY <1>1, <1>2, <2>2 DEF DriverSound
  <1>8. Expanding
    <2>1. queue[1] = <<OS>> /\ \A st \in 2 .. 8 : queue[st] = << >>
      BY <1>6, StageNumbers
    <2>2. Range(<<OS>>) = {OS} /\ Range(<< >>) = {}
      BY DEF Range
    <2>3. Own = {OS}
      BY <1>1, <1>4 DEF Own, OS
    <2>. QED
      BY <2>1, <2>2, <2>3 DEF Expanding
  <1>. QED
    BY <1>1, <1>5, <1>7, <1>8 DEF AsmInv

LEMMA AsmStepSound ==
    ASSUME AsmInv, [AsmNext]_asmVars
    PROVE  AsmInv'
  <1>1. CASE Ignore
    BY <1>1, IgnoreKeeps
  <1>2. CASE GiveUp
    BY <1>2, GiveUpKeeps
  <1>3. CASE EndLoop
    BY <1>3, EndLoopKeeps
  <1>4. CASE Tokenize
    BY <1>4, TokenizeKeeps
  <1>5. CASE Preprocess
    BY <1>5, PreprocessKeeps
  <1>6. CASE Parse
    BY <1>6, ParseKeeps
  <1>7. CASE CheckSanity
    BY <1>7, CheckSanityKeeps
  <1>8. CASE AssignAddresses
    <2>. DEFINE wrong == UNION {LineErrors(r) : r \in UNION {Reached(p) : p \in Programs}}
    <2>1. Take(Stage.SANITY) /\ Requeue(Stage.SANITY, wrong = {}, [u \in {Stage.ADDRESS} |-> <<Image>>])
          /\ UNCHANGED <<sections, registry>>
      BY <1>8 DEF AssignAddresses
    <2>2. <<Image>> \in Seq(Nat) /\ (wrong = {}) \in BOOLEAN
      BY DEF Image
    <2>. HIDE DEF wrong
    <2>3. 5 \in 5 .. 7 /\ Take(5) /\ Requeue(5, wrong = {}, [u \in {5 + 1} |-> <<Image>>])
      BY <2>1, StageNumbers
    <2>. QED
      BY <2>1, <2>2, <2>3, ImageKeeps
  <1>9. CASE PackImage
    <2>. DEFINE ok == TRUE
    <2>1. Take(Stage.ADDRESS) /\ Requeue(Stage.ADDRESS, ok, [u \in {Stage.PACK} |-> <<Image>>])
          /\ UNCHANGED <<sections, registry>>
      BY <1>9 DEF PackImage, text
    <2>2. <<Image>> \in Seq(Nat) /\ ok \in BOOLEAN
      BY DEF Image
    <2>. HIDE DEF ok
    <2>3. 6 \in 5 .. 7 /\ Take(6) /\ Requeue(6, ok, [u \in {6 + 1} |-> <<Image>>])
      BY <2>1, StageNumbers
    <2>. QED
      BY <2>1, <2>2, <2>3, ImageKeeps
  <1>10. CASE Finish
    <2>. DEFINE ok == TRUE
    <2>1. Take(Stage.PACK) /\ Requeue(Stage.PACK, ok, [u \in {Stage.FINISHED} |-> queue[Stage.PACK]])
          /\ UNCHANGED <<sections, registry>>
      BY <1>10 DEF Finish, text
    <2>2. queue[7] \in Seq(Nat) /\ ok \in BOOLEAN
      BY StageNumbers DEF AsmInv, DriverSound
    <2>. HIDE DEF ok
    <2>3. 7 \in 5 .. 7 /\ Take(7) /\ Requeue(7, ok, [u \in {7 + 1} |-> queue[7]])
      BY <2>1, StageNumbers
    <2>. QED
      BY <2>1, <2>2, <2>3, ImageKeeps
  <1>11. CASE UNCHANGED asmVars
    BY <1>11 DEF asmVars, text, layout, driver, AsmInv, SectionsSound, DriverSound, Sequence, IsText,
                 Stuck, Waiting, Expanding, Whole, Done, Own
  <1>. QED
    BY <1>1, <1>2, <1>3, <1>4, <1>5, <1>6, <1>7, <1>8, <1>9, <1>10, <1>11 DEF AsmNext, Returned

LEMMA AsmAlwaysSound == AsmSpec => []AsmInv
  BY AsmInitSound, AsmStepSound, PTL DEF AsmSpec

\* Whatever is assembled, from the parser on a stage finds the whole program before it:
\* none of its sections, however deep its macros are nested, is at another stage.
THEOREM StagesStayInStep == AsmSpec => []StagesInStep
  <1>1. ASSUME AsmInv PROVE StagesInStep
    <2>. SUFFICES ASSUME Waiting # {}, phase # "done", Lowest < target, Lowest \in {3, 4, 5}
                  PROVE  Range(queue[Lowest]) = Own
      BY StageNumbers DEF StagesInStep, Running
    <2>1. Lowest \in Stages /\ queue[Lowest] # << >> /\ \A u \in Stages : u < Lowest => queue[u] = << >>
      BY LowestIs
    <2>2. ~Stuck
      <3>1. Lowest \in 1 .. 8 /\ target \in 1 .. 8
        BY <1>1, <2>1, StageNumbers DEF AsmInv, DriverSound
      <3>2. Lowest \in Waiting
        BY <2>1 DEF Waiting
      <3>. QED
        BY <3>1, <3>2 DEF Stuck
    <2>3. ~Done
      BY <2>1 DEF Done
    <2>4. CASE Expanding
      <3>1. Lowest = 3
        BY <2>1, <2>4 DEF Expanding
      <3>2. queue[1] = << >> /\ queue[2] = << >>
        BY <2>1, <3>1, StageNumbers
      <3>3. Range(<< >>) = {}
        BY DEF Range
      <3>. QED
        BY <2>4, <3>1, <3>2, <3>3 DEF Expanding
    <2>5. CASE Whole
      BY <2>1, <2>5 DEF Whole
    <2>. QED
      BY <1>1, <2>2, <2>3, <2>4, <2>5 DEF AsmInv
  <1>. QED
    BY <1>1, AsmAlwaysSound, PTL

-----------------------------------------------------------------------------
(* Success means that nothing was wrong. *)

\* The sections there are keep their macros.
LEMMA SameMacros ==
    ASSUME OnlyForgotten, errors' = errors, ~failed' => ~failed,
           \A s \in DOMAIN sections : s \in DOMAIN sections' /\ Macros(sections'[s]) = Macros(sections[s])
    PROVE  OnlyForgotten'
  <1>. SUFFICES ASSUME ~failed', NEW e \in errors
                PROVE  /\ e.what = "parse" /\ e.section \in DOMAIN sections'
                       /\ \E i \in Macros(sections'[e.section]) : i > e.line
    BY DEF OnlyForgotten, Macros
  <1>. QED
    BY DEF OnlyForgotten

\* The last of some numbers up to n.
LEMMA Largest ==
    ASSUME NEW n \in Nat, NEW T \in SUBSET (0 .. n), T # {}
    PROVE  Max(T) \in T /\ \A m \in T : m <= Max(T)
  <1>. DEFINE up == {n - m : m \in T}
  <1>1. up \in SUBSET Nat /\ up # {}
    <2>1. ASSUME NEW m \in T PROVE n - m \in Nat
      <3>1. m \in 0 .. n
        OBVIOUS
      <3>. QED
        BY <3>1
    <2>2. up \subseteq Nat
      BY <2>1
    <2>3. PICK m \in T : TRUE
      OBVIOUS
    <2>4. n - m \in up
      OBVIOUS
    <2>. HIDE DEF up
    <2>. QED
      BY <2>2, <2>4
  <1>2. PICK k \in up : \A j \in up : k <= j
    <2>. HIDE DEF up
    <2>. QED
      BY <1>1, Least
  <1>3. PICK t \in T : k = n - t
    BY <1>2
  <1>4. ASSUME NEW m \in T PROVE t >= m
    <2>1. n - t <= n - m
      BY <1>2, <1>3
    <2>2. n \in Nat /\ t \in 0 .. n /\ m \in 0 .. n
      OBVIOUS
    <2>. QED
      BY <2>1, <2>2
  <1>5. Max(T) \in T /\ \A m \in T : Max(T) >= m
    BY <1>4 DEF Max
  <1>6. \A m \in T : m <= Max(T)
    <2>. SUFFICES ASSUME NEW m \in T PROVE m <= Max(T)
      OBVIOUS
    <2>1. m \in 0 .. n /\ Max(T) \in 0 .. n /\ Max(T) >= m
      BY <1>5
    <2>. HIDE DEF up
    <2>. QED
      BY <2>1
  <1>. QED
    BY <1>5, <1>6

\* In a section that is accepted a macro follows on whatever was rejected.
LEMMA AcceptedForgets ==
    ASSUME SectionsSound, NEW s \in DOMAIN sections, Accepted(s),
           NEW i \in DOMAIN sections[s].lines, Rejected(sections[s].lines[i])
    PROVE  \E m \in Macros(sections[s]) : m > i
  <1>. DEFINE lines == sections[s].lines
              macros == Macros(sections[s])
              last == Max({0} \cup macros)
  <1>1. DOMAIN lines = 1 .. Len(lines) /\ Len(lines) \in Nat
    BY Sequences DEF SectionsSound, IsText, Sequence
  <1>2. macros \subseteq 1 .. Len(lines) /\ i \in 1 .. Len(lines)
    BY <1>1 DEF Macros
  <1>3. last \in {0} \cup macros
    <2>1. {0} \cup macros \in SUBSET (0 .. Len(lines)) /\ {0} \cup macros # {}
      BY <1>1, <1>2
    <2>. HIDE DEF macros, lines
    <2>. QED
      BY <1>1, <2>1, Largest
  <1>4. ~(i > last)
    BY DEF Accepted
  <1>5. i # last
    <2>1. i \notin macros
      BY DEF Macros, Rejected
    <2>2. i # 0
      BY <1>1, <1>2
    <2>. QED
      BY <1>3, <2>1, <2>2
  <1>. HIDE DEF macros, lines, last
  <1>6. last > i
    <2>1. last \in Nat /\ i \in Nat
      BY <1>1, <1>2, <1>3
    <2>. QED
      BY <1>4, <1>5, <2>1
  <1>7. last # 0
    BY <1>1, <1>2, <1>6
  <1>. QED
    BY <1>3, <1>6, <1>7 DEF macros

LEMMA ForgottenStep ==
    ASSUME AsmInv, OnlyForgotten, [AsmNext]_asmVars
    PROVE  OnlyForgotten'
  <1>1. CASE Ignore \/ EndLoop \/ PackImage \/ Finish \/ UNCHANGED asmVars
    <2>1. ASSUME NEW st, NEW ok, NEW work, Requeue(st, ok, work) PROVE ~failed' => ~failed
      BY <2>1 DEF Requeue
    <2>2. CASE Ignore \/ EndLoop
      BY <2>2, SameMacros DEF Ignore, EndLoop, text
    <2>3. CASE PackImage
      BY <2>3, <2>1, SameMacros DEF PackImage, text
    <2>4. CASE Finish
      BY <2>4, <2>1, SameMacros DEF Finish, text
    <2>5. CASE UNCHANGED asmVars
      BY <2>5, SameMacros DEF asmVars, text, driver
    <2>. QED
      BY <1>1, <2>2, <2>3, <2>4, <2>5
  <1>2. CASE GiveUp
    BY <1>2 DEF GiveUp, OnlyForgotten
  <1>3. CASE Tokenize
    <2>. DEFINE batch == Range(queue[Stage.RAW])
                bad == UNION {{Error(s, i, "token") : i \in {i \in DOMAIN sections[s].lines :
                                sections[s].lines[i].kind = "bad"}} : s \in batch}
    <2>1. /\ failed' = (failed \/ ~(bad = {})) /\ errors' = errors \cup bad
          /\ sections' = [s \in DOMAIN sections |->
                 IF s \in batch
                 THEN [sections[s] EXCEPT !.lines = [i \in DOMAIN @ |-> Substituted(@[i], sections[s].args)]]
                 ELSE sections[s]]
      BY <1>3 DEF Tokenize, Requeue
    <2>. HIDE DEF batch, bad
    <2>2. ASSUME NEW s \in DOMAIN sections
          PROVE  s \in DOMAIN sections' /\ Macros(sections'[s]) = Macros(sections[s])
      <3>1. "lines" \in DOMAIN sections[s]
            /\ \A i \in DOMAIN sections[s].lines : "kind" \in DOMAIN sections[s].lines[i]
        BY DEF AsmInv, SectionsSound, IsText
      <3>2. \A i \in DOMAIN sections[s].lines : \A args :
                Substituted(sections[s].lines[i], args).kind = sections[s].lines[i].kind
        BY <3>1 DEF Substituted
      <3>. QED
        BY <2>1, <3>1, <3>2 DEF Macros
    <2>3. CASE bad = {}
      BY <2>1, <2>2, <2>3, SameMacros
    <2>4. CASE bad # {}
      BY <2>1, <2>4 DEF OnlyForgotten
    <2>. QED
      BY <2>3, <2>4
  <1>4. CASE Preprocess
    <2>1. PICK new, wrong, graph, opened : Opening(new, wrong, graph, opened)
      BY <1>4, PreprocessOpens
    <2>2. /\ failed' = (failed \/ ~(wrong = {})) /\ errors' = errors \cup wrong /\ phase' = phase
          /\ new \in Seq(Lower) /\ sections' = sections \o new /\ registry' = registry
      BY <2>1 DEF Opening, Requeue
    <2>3. \A s \in DOMAIN sections : s \in DOMAIN sections' /\ sections'[s] = sections[s]
      BY <2>2, LowerSound, TreeGrows DEF AsmInv
    <2>4. CASE wrong = {}
      BY <2>2, <2>3, <2>4, SameMacros
    <2>5. CASE wrong # {}
      BY <2>2, <2>5 DEF OnlyForgotten
    <2>. QED
      BY <2>4, <2>5
  <1>5. CASE Parse
    <2>. DEFINE here == Range(queue[Stage.PREPROCESS])
                ok == \A s \in here : Accepted(s)
                wrong == UNION {{Error(s, i, "parse") : i \in {i \in DOMAIN sections[s].lines :
                                    Rejected(sections[s].lines[i])}} : s \in here}
    <2>1. /\ failed' = (failed \/ ~ok) /\ errors' = errors \cup wrong /\ Take(Stage.PREPROCESS)
          /\ sections' = [s \in DOMAIN sections |->
                 IF s \in here THEN [sections[s] EXCEPT !.ir = Parsed(s)] ELSE sections[s]]
      BY <1>5 DEF Parse, Requeue
    <2>2. here \subseteq DOMAIN sections
      BY <2>1, Taken, StageNumbers DEF Expanding, Own
    <2>3. ASSUME NEW s \in DOMAIN sections
          PROVE  s \in DOMAIN sections' /\ Macros(sections'[s]) = Macros(sections[s])
      <3>1. {"top", "parent", "lines", "ir"} \subseteq DOMAIN sections[s]
        BY DEF AsmInv, SectionsSound
      <3>2. sections'[s].lines = sections[s].lines
        BY <2>1, <3>1
      <3>. QED
        BY <2>1, <3>2 DEF Macros
    <2>4. ASSUME ok, NEW e \in wrong
          PROVE  /\ e.what = "parse" /\ e.section \in DOMAIN sections
                 /\ \E i \in Macros(sections[e.section]) : i > e.line
      <3>1. PICK s \in here : \E i \in DOMAIN sections[s].lines :
                Rejected(sections[s].lines[i]) /\ e = Error(s, i, "parse")
        OBVIOUS
      <3>2. PICK i \in DOMAIN sections[s].lines : Rejected(sections[s].lines[i]) /\ e = Error(s, i, "parse")
        BY <3>1
      <3>3. e.what = "parse" /\ e.section = s /\ e.line = i
        BY <3>2 DEF Error
      <3>4. \E m \in Macros(sections[s]) : m > i
        BY <2>2, <2>4, <3>2, AcceptedForgets DEF AsmInv
      <3>. QED
        BY <2>2, <3>3, <3>4
    <2>. HIDE DEF here, ok, wrong
    <2>5. ASSUME ~failed', NEW e \in errors'
          PROVE  /\ e.what = "parse" /\ e.section \in DOMAIN sections'
                 /\ \E i \in Macros(sections'[e.section]) : i > e.line
      <3>1. /\ e.what = "parse" /\ e.section \in DOMAIN sections
            /\ \E i \in Macros(sections[e.section]) : i > e.line
        BY <2>1, <2>4, <2>5 DEF OnlyForgotten
      <3>. QED
        BY <2>3, <3>1
    <2>. QED
      BY <2>5 DEF OnlyForgotten, Macros
  <1>6. CASE CheckSanity
    <2>. DEFINE wrong == UNION {{Error(p, i, "sanity") : i \in Insane(p)} : p \in Programs}
    <2>1. /\ failed' = (failed \/ ~(wrong = {})) /\ errors' = errors \cup wrong
          /\ sections' = [s \in DOMAIN sections |-> [sections[s] EXCEPT !.ir = Checked(s)]]
      BY <1>6 DEF CheckSanity, Requeue
    <2>. HIDE DEF wrong
    <2>2. ASSUME NEW s \in DOMAIN sections
          PROVE  s \in DOMAIN sections' /\ Macros(sections'[s]) = Macros(sections[s])
      <3>1. {"top", "parent", "lines", "ir"} \subseteq DOMAIN sections[s]
        BY DEF AsmInv, SectionsSound
      <3>2. sections'[s].lines = sections[s].lines
        BY <2>1, <3>1
      <3>. QED
        BY <2>1, <3>2 DEF Macros
    <2>3. CASE wrong = {}
      BY <2>1, <2>2, <2>3, SameMacros
    <2>4. CASE wrong # {}
      BY <2>1, <2>4 DEF OnlyForgotten
    <2>. QED
      BY <2>3, <2>4
  <1>7. CASE AssignAddresses
    <2>. DEFINE wrong == UNION {LineErrors(r) : r \in UNION {Reached(p) : p \in Programs}}
    <2>1. /\ failed' = (failed \/ ~(wrong = {})) /\ errors' = errors \cup wrong /\ sections' = sections
      BY <1>7 DEF AssignAddresses, Requeue
    <2>. HIDE DEF wrong
    <2>2. CASE wrong = {}
      BY <2>1, <2>2, SameMacros
    <2>3. CASE wrong # {}
      BY <2>1, <2>3 DEF OnlyForgotten
    <2>. QED
      BY <2>2, <2>3
  <1>. QED
    BY <1>1, <1>2, <1>3, <1>4, <1>5, <1>6, <1>7 DEF AsmNext, Returned

\* If assembly succeeds, for whatever text, then each message logged on the way is one that
\* the parser forgets: it is about a line before a macro of the same section.
THEOREM SuccessIsClean == AsmSpec => [](Succeeded => errors \subseteq Forgotten)
  <1>1. AsmInit => OnlyForgotten
    BY DEF AsmInit, OnlyForgotten
  <1>2. AsmInv /\ OnlyForgotten /\ [AsmNext]_asmVars => OnlyForgotten'
    BY ForgottenStep
  <1>3. OnlyForgotten => (Succeeded => errors \subseteq Forgotten)
    BY DEF OnlyForgotten, Succeeded, Forgotten
  <1>. QED
    BY <1>1, <1>2, <1>3, AsmAlwaysSound, PTL DEF AsmSpec

-----------------------------------------------------------------------------
(* A circle is found before anything is parsed. *)

\* The sections there are at first: the programs, as they are given.
LEMMA FirstSections ==
    ASSUME AsmInit
    PROVE  /\ OS \in DOMAIN sections
           /\ \A s \in DOMAIN sections :
                 /\ {"line", "name", "args"} \subseteq DOMAIN sections[s]
                 /\ sections[s].parent = 0 /\ sections[s].name = "" /\ sections[s].args = << >>
                 /\ sections[s].ir = << >>
                 /\ \/ sections[s].top = OS /\ sections[s].lines = request.os
                    \/ sections[s].top = User /\ sections[s].lines = request.user
  <1>. DEFINE os == Section(OS, 0, 0, "", << >>, request.os)
              us == Section(User, 0, 0, "", << >>, request.user)
              user == IF request.user = << >> THEN << >> ELSE <<us>>
              T == {os, us}
  <1>1. sections = <<os>> \o user
    BY DEF AsmInit
  <1>2. \A x \in T : /\ {"line", "name", "args"} \subseteq DOMAIN x
                     /\ x.parent = 0 /\ x.name = "" /\ x.args = << >> /\ x.ir = << >>
                     /\ \/ x.top = OS /\ x.lines = request.os
                        \/ x.top = User /\ x.lines = request.user
    <2>1. /\ {"line", "name", "args"} \subseteq DOMAIN os /\ {"line", "name", "args"} \subseteq DOMAIN us
          /\ os.parent = 0 /\ os.name = "" /\ os.args = << >> /\ os.ir = << >>
          /\ us.parent = 0 /\ us.name = "" /\ us.args = << >> /\ us.ir = << >>
          /\ os.top = OS /\ os.lines = request.os /\ us.top = User /\ us.lines = request.user
      BY DEF Section
    <2>. HIDE DEF os, us
    <2>. QED
      BY <2>1
  <1>. HIDE DEF os, us
  <1>3. <<os>> \in Seq(T) /\ Len(<<os>>) = 1 /\ user \in Seq(T)
    <2>1. <<os>> \in Seq(T) /\ Len(<<os>>) = 1 /\ << >> \in Seq(T) /\ <<us>> \in Seq(T)
      OBVIOUS
    <2>. HIDE DEF T
    <2>. QED
      BY <2>1
  <1>. HIDE DEF T, user
  <1>4. sections \in Seq(T) /\ Len(sections) = 1 + Len(user) /\ Len(user) \in Nat
    BY <1>1, <1>3, ConcatProperties, LenProperties
  <1>5. DOMAIN sections = 1 .. 1 + Len(user) /\ \A s \in DOMAIN sections : sections[s] \in T
    BY <1>4, LenProperties, ElementOfSeq
  <1>6. OS \in DOMAIN sections
    BY <1>4, <1>5 DEF OS
  <1>. QED
    BY <1>2, <1>5, <1>6

LEMMA CircleInit ==
    ASSUME AsmInit, AsmInv
    PROVE  CircleInv
  <1>1. /\ edges = [p \in {OS, User} |-> {}]
        /\ queue = [st \in Stages |-> IF st = Stage.RAW THEN <<OS>> ELSE << >>]
    BY DEF AsmInit
  <1>2. \A s \in DOMAIN sections : sections[s].ir = << >>
    BY FirstSections
  <1>3. queue[1] # << >> /\ DOMAIN edges = {OS, User}
    BY <1>1, StageNumbers
  <1>. QED
    BY <1>2, <1>3 DEF CircleInv, Own

\* When nothing of the program is opened up any more the graph and the sections stay.
LEMMA CircleStays ==
    ASSUME AsmInv, CircleInv, edges' = edges, phase' = phase, ~Open', DOMAIN sections' = DOMAIN sections,
           \A s \in DOMAIN sections : sections'[s].top = sections[s].top
                                      /\ (sections[s].ir = << >> => sections'[s].ir = << >>)
    PROVE  CircleInv'
  <1>1. DOMAIN edges' = {OS, User}
    BY DEF CircleInv
  <1>2. \A s \in DOMAIN sections' : sections'[s].ir # << >> => ~Cyclic(edges'[sections'[s].top])
    BY DEF CircleInv
  <1>3. phase' = "os" => \A s \in DOMAIN sections' : sections'[s].top = User => sections'[s].ir = << >>
    BY DEF CircleInv
  <1>. QED
    BY <1>1, <1>2, <1>3 DEF CircleInv, Cyclic

LEMMA OwnIsSome ==
    ASSUME AsmInv, NEW st \in Stages, Take(st), st <= 5
    PROVE  Own # {}
  <1>1. queue[st] # << >> /\ queue[st] \in Seq(Nat)
    BY Taken DEF AsmInv, DriverSound
  <1>2. queue[st][1] \in Range(queue[st])
    <2>1. 1 \in DOMAIN queue[st]
      BY <1>1, EmptySeq, LenProperties
    <2>. QED
      BY <2>1 DEF Range
  <1>3. Range(queue[st]) \subseteq Own
    <2>1. st \in {1, 2, 3} \/ st \in {4, 5}
      BY StageNumbers
    <2>2. CASE st \in {1, 2, 3}
      BY <2>2, Taken DEF Expanding
    <2>3. CASE st \in {4, 5}
      BY <2>3, Taken
    <2>. QED
      BY <2>1, <2>2, <2>3
  <1>. QED
    BY <1>2, <1>3

\* What is taken up while a program is opened up is taken up before anything is parsed.
LEMMA TakenOpen ==
    ASSUME AsmInv, CircleInv, NEW st \in Stages, Take(st), st <= 3
    PROVE  Open /\ \A s \in Own : sections[s].ir = << >>
  <1>1. Open
    BY Taken DEF Open
  <1>. QED
    BY <1>1 DEF CircleInv

LEMMA EndLoopFindsCircles ==
    ASSUME AsmInv, CircleInv, EndLoop
    PROVE  CircleInv'
  <1>1. phase # "done" /\ Waiting = {} /\ UNCHANGED <<sections, registry, edges, failed>>
    BY DEF EndLoop, text
  <1>2. CASE phase = "os" /\ User \in Programs /\ ~failed
    <2>1. phase' = "user" /\ queue' = [queue EXCEPT ![Stage.RAW] = <<User>>]
      BY <1>2 DEF EndLoop
    <2>2. queue'[1] # << >>
      BY <2>1, StageNumbers DEF AsmInv, DriverSound
    <2>3. \A s \in Own' : sections'[s].ir = << >>
      BY <1>1, <1>2, <2>1 DEF CircleInv, Own
    <2>4. /\ DOMAIN edges' = {OS, User}
          /\ \A s \in DOMAIN sections' : sections'[s].ir # << >> => ~Cyclic(edges'[sections'[s].top])
      BY <1>1 DEF CircleInv
    <2>. QED
      BY <2>1, <2>2, <2>3, <2>4 DEF CircleInv, Cyclic
  <1>3. CASE ~(phase = "os" /\ User \in Programs /\ ~failed)
    <2>1. phase' = "done"
      BY <1>3 DEF EndLoop
    <2>2. /\ DOMAIN edges' = {OS, User}
          /\ \A s \in DOMAIN sections' : sections'[s].ir # << >> => ~Cyclic(edges'[sections'[s].top])
      BY <1>1 DEF CircleInv
    <2>. QED
      BY <2>1, <2>2 DEF CircleInv, Open, Cyclic
  <1>. QED
    BY <1>2, <1>3

LEMMA TokenizeFindsCircles ==
    ASSUME AsmInv, CircleInv, Tokenize
    PROVE  CircleInv'
  <1>. DEFINE batch == Range(queue[Stage.RAW])
              bad == UNION {{Error(s, i, "token") : i \in {i \in DOMAIN sections[s].lines :
                                sections[s].lines[i].kind = "bad"}} : s \in batch}
  <1>1. /\ Take(Stage.RAW) /\ Requeue(Stage.RAW, bad = {}, [u \in {Stage.TOKEN} |-> queue[Stage.RAW]])
        /\ sections' = [s \in DOMAIN sections |->
               IF s \in batch
               THEN [sections[s] EXCEPT !.lines = [i \in DOMAIN @ |-> Substituted(@[i], sections[s].args)]]
               ELSE sections[s]]
        /\ edges' = edges
    BY DEF Tokenize
  <1>. HIDE DEF bad, batch
  <1>2. /\ phase' = phase
        /\ bad # {} => Stuck'
        /\ bad = {} => queue'[2] = queue[2] \o queue[1]
    <2>1. (bad = {}) \in BOOLEAN /\ 1 \in Stages /\ 2 \in Stages \ {1} /\ queue[1] \in Seq(Nat)
      BY StageNumbers DEF AsmInv, DriverSound
    <2>2. Take(1) /\ Requeue(1, bad = {}, [u \in {2} |-> queue[1]])
      BY <1>1, StageNumbers
    <2>. QED
      BY <2>1, <2>2, Forwarded
  <1>3. \A s \in DOMAIN sections : sections'[s].top = sections[s].top /\ sections'[s].ir = sections[s].ir
    BY <1>1 DEF AsmInv, SectionsSound
  <1>4. DOMAIN sections' = DOMAIN sections
    BY <1>1
  <1>5. CASE bad # {}
    BY <1>1, <1>2, <1>3, <1>4, <1>5, CircleStays DEF Open
  <1>6. CASE bad = {}
    <2>1. queue'[2] # << >>
      <3>1. queue[1] # << >> /\ queue[1] \in Seq(Nat) /\ queue[2] \in Seq(Nat)
        BY <1>1, Taken, StageNumbers DEF AsmInv, DriverSound
      <3>2. Len(queue'[2]) = Len(queue[2]) + Len(queue[1]) /\ queue'[2] \in Seq(Nat)
        <4>1. queue'[2] = queue[2] \o queue[1]
          BY <1>2, <1>6
        <4>. QED
          BY <3>1, <4>1, ConcatProperties
      <3>3. Len(queue[1]) \in Nat \ {0} /\ Len(queue[2]) \in Nat
        BY <3>1, EmptySeq, LenProperties
      <3>4. Len(<< >>) = 0
        BY EmptySeq
      <3>5. \A a \in Nat \ {0} : \A b \in Nat : b + a # 0
        OBVIOUS
      <3>6. Len(queue[2]) + Len(queue[1]) # 0
        BY <3>3, <3>5
      <3>. QED
        BY <3>2, <3>4, <3>6
    <2>2. Own' = Own
      BY <1>2, <1>3, <1>4 DEF Own
    <2>3. \A s \in Own' : sections'[s].ir = << >>
      <3>1. \A s \in Own : sections[s].ir = << >> /\ s \in DOMAIN sections
        BY <1>1, TakenOpen, StageNumbers DEF Own
      <3>. QED
        BY <1>3, <2>2, <3>1
    <2>4. /\ DOMAIN edges' = {OS, User}
          /\ \A s \in DOMAIN sections' : sections'[s].ir # << >> => ~Cyclic(edges'[sections'[s].top])
          /\ phase' = "os" => \A s \in DOMAIN sections' : sections'[s].top = User => sections'[s].ir = << >>
      BY <1>1, <1>2, <1>3, <1>4 DEF CircleInv
    <2>. QED
      BY <2>1, <2>3, <2>4 DEF CircleInv, Cyclic
  <1>. QED
    BY <1>5, <1>6

LEMMA PreprocessFindsCircles ==
    ASSUME AsmInv, CircleInv, Preprocess
    PROVE  CircleInv'
  <1>1. PICK new, wrong, graph, opened : Opening(new, wrong, graph, opened)
    BY PreprocessOpens
  <1>. DEFINE added == [k \in DOMAIN new |-> Len(sections) + k]
              work == [u \in {Stage.RAW, Stage.PREPROCESS} |->
                          IF u = Stage.RAW THEN added ELSE queue[Stage.TOKEN]]
  <1>2. /\ Take(Stage.TOKEN) /\ Requeue(Stage.TOKEN, wrong = {}, work)
        /\ sections' = sections \o new /\ registry' = registry /\ new \in Seq(Lower)
        /\ edges' = [edges EXCEPT ![Current] = graph]
        /\ wrong = {} /\ Cyclic(graph) => new # << >>
    BY <1>1 DEF Preprocess, Opening
  <1>3. phase' = phase /\ SectionsSound
    BY <1>2 DEF Requeue, AsmInv
  <1>4. /\ Own' = Own \cup {Len(sections) + k : k \in DOMAIN new} /\ Len(sections) \in Nat
        /\ \A s \in DOMAIN sections : s \in DOMAIN sections' /\ sections'[s] = sections[s]
        /\ \A s \in DOMAIN sections' : s \in DOMAIN sections \/ sections'[s] \in Lower
    BY <1>2, <1>3, LowerSound, TreeGrows
  <1>5. \A s \in Own : sections[s].ir = << >>
    BY <1>2, TakenOpen, StageNumbers
  <1>6. Current' = Current /\ Current \in {OS, User} /\ OS # User
        /\ (phase = "os" => Current = OS)
    BY <1>3 DEF Current, OS, User
  <1>7. \A c \in Lower : c.top = Current /\ c.ir = << >>
    BY <1>3, LowerSound DEF Current
  <1>8. DOMAIN edges = {OS, User} /\ DOMAIN edges' = {OS, User} /\ edges'[Current] = graph
        /\ \A p \in {OS, User} : p # Current => edges'[p] = edges[p]
    BY <1>2, <1>6 DEF CircleInv
  <1>9. ASSUME NEW s \in DOMAIN sections', sections'[s].ir # << >>
        PROVE  s \in DOMAIN sections /\ sections'[s] = sections[s] /\ sections[s].top # Current
               /\ sections[s].top \in {OS, User}
    <2>1. s \in DOMAIN sections /\ sections'[s] = sections[s]
      BY <1>4, <1>7, <1>9
    <2>2. s \notin Own
      BY <1>5, <1>9, <2>1
    <2>. QED
      BY <1>3, <2>1, <2>2 DEF Own, Current, SectionsSound
  <1>10. \A s \in DOMAIN sections' : sections'[s].ir # << >> => ~Cyclic(edges'[sections'[s].top])
    BY <1>8, <1>9 DEF CircleInv
  <1>11. phase' = "os" => \A s \in DOMAIN sections' : sections'[s].top = User => sections'[s].ir = << >>
    BY <1>3, <1>9 DEF CircleInv
  <1>12. \A s \in Own' : sections'[s].ir = << >>
    BY <1>3, <1>9 DEF Own, Current
  <1>13. /\ wrong # {} => Stuck'
         /\ wrong = {} /\ new # << >> => queue'[1] # << >>
    <2>1. (wrong = {}) \in BOOLEAN /\ 2 \in Stages /\ Take(2) /\ Requeue(2, wrong = {}, work)
      BY <1>2, StageNumbers
    <2>2. /\ added \in Seq(Nat) /\ queue[2] \in Seq(Nat) /\ queue[1] \in Seq(Nat) /\ queue[1] = << >>
          /\ new # << >> => Len(added) # 0
      <3>1. DOMAIN new = 1 .. Len(new) /\ Len(new) \in Nat /\ (new # << >> => Len(new) # 0)
        BY <1>2, LenProperties, EmptySeq
      <3>2. added \in [1 .. Len(new) -> Nat]
        BY <1>4, <3>1
      <3>3. added \in Seq(Nat)
        <4>. HIDE DEF added
        <4>. QED
          BY <3>1, <3>2, SeqDef
      <3>4. new # << >> => Len(added) # 0
        <4>1. DOMAIN added = 1 .. Len(new) /\ DOMAIN added = 1 .. Len(added)
          BY <3>1, <3>3, LenProperties
        <4>2. Len(new) # 0 => 1 \in 1 .. Len(new)
          BY <3>1
        <4>. HIDE DEF added
        <4>. QED
          BY <3>1, <4>1, <4>2
      <3>. QED
        BY <2>1, <3>3, <3>4, Taken, StageNumbers DEF AsmInv, DriverSound
    <2>. HIDE DEF added
    <2>3. DOMAIN work = {1, 3} /\ work[1] = added /\ work[3] = queue[2]
      BY StageNumbers
    <2>. HIDE DEF work
    <2>4. \A u \in Stages \cap DOMAIN work : work[u] \in Seq(Nat)
      BY <2>2, <2>3
    <2>5. /\ wrong # {} => Stuck'
          /\ wrong = {} => \A u \in Stages : queue'[u] = (IF u = 2 THEN << >> ELSE queue[u])
                                              \o (IF u \in DOMAIN work THEN work[u] ELSE << >>)
      BY <2>1, <2>4, Requeued
    <2>6. wrong = {} => queue'[1] = queue[1] \o added
      BY <2>3, <2>5, StageNumbers
    <2>7. << >> \o added = added /\ Len(<< >>) = 0
      BY <2>2, EmptySeq
    <2>. QED
      BY <2>2, <2>5, <2>6, <2>7
  <1>14. ASSUME Open', Cyclic(graph)
         PROVE  queue'[1] # << >>
    <2>1. ~Stuck'
      BY <1>14 DEF Open
    <2>. QED
      BY <1>2, <1>13, <1>14, <2>1
  <1>15. edges'[Current'] = graph
    BY <1>6, <1>8
  <1>. QED
    BY <1>8, <1>10, <1>11, <1>12, <1>14, <1>15 DEF CircleInv, Cyclic

\* From the parser on nothing is opened up any more, nor after what is dropped.
LEMMA NoneOpened ==
    ASSUME AsmInv, Ignore \/ GiveUp \/ Parse \/ CheckSanity \/ AssignAddresses \/ PackImage \/ Finish
    PROVE  ~Open' /\ (phase' = phase \/ phase' = "done")
  <1>1. CASE Ignore
    BY <1>1, IgnoredIsStuck DEF Open, Ignore
  <1>2. CASE GiveUp
    BY <1>2 DEF Open, GiveUp
  <1>3. ASSUME NEW st \in 3 .. 7, Take(st), NEW ok, ok \in BOOLEAN, NEW batch \in Seq(Nat), batch # << >>,
               Requeue(st, ok, [u \in {st + 1} |-> batch])
        PROVE  phase' = phase /\ ~Open'
    <2>1. st \in Stages /\ st + 1 \in Stages \ {st} /\ st + 1 \in 4 .. 8
      BY StageNumbers
    <2>2. phase' = phase /\ (~ok => Stuck') /\ (ok => queue'[st + 1] = queue[st + 1] \o batch)
      BY <1>3, <2>1, Forwarded
    <2>3. queue[st + 1] \in Seq(Nat)
      BY <2>1 DEF AsmInv, DriverSound
    <2>4. queue[st + 1] \o batch # << >>
      <3>1. Len(queue[st + 1] \o batch) = Len(queue[st + 1]) + Len(batch)
        BY <2>3, ConcatProperties
      <3>2. Len(batch) \in Nat \ {0} /\ Len(queue[st + 1]) \in Nat /\ Len(<< >>) = 0
        BY <1>3, <2>3, EmptySeq, LenProperties
      <3>. QED
        BY <3>1, <3>2
    <2>. QED
      BY <2>1, <2>2, <2>4 DEF Open, Expanding
  <1>4. ASSUME NEW st \in 3 .. 7, Take(st) PROVE queue[st] \in Seq(Nat) /\ queue[st] # << >>
    <2>1. st \in Stages
      BY StageNumbers
    <2>. QED
      BY <1>4, <2>1, Taken DEF AsmInv, DriverSound
  <1>5. 3 \in 3 .. 7 /\ 4 \in 3 .. 7 /\ 5 \in 3 .. 7 /\ 6 \in 3 .. 7 /\ 7 \in 3 .. 7
        /\ 3 + 1 = 4 /\ 4 + 1 = 5 /\ 5 + 1 = 6 /\ 6 + 1 = 7 /\ 7 + 1 = 8
    OBVIOUS
  <1>6. <<Image>> \in Seq(Nat) /\ <<Image>> # << >>
    BY DEF Image
  <1>7. CASE Parse
    <2>. DEFINE ok == \A s \in Range(queue[Stage.PREPROCESS]) : Accepted(s)
    <2>1. /\ Take(Stage.PREPROCESS)
          /\ Requeue(Stage.PREPROCESS, ok, [u \in {Stage.SYMANTIC} |-> queue[Stage.PREPROCESS]])
          /\ ok \in BOOLEAN
      BY <1>7 DEF Parse
    <2>. HIDE DEF ok
    <2>2. Take(3) /\ Requeue(3, ok, [u \in {3 + 1} |-> queue[3]])
      BY <1>5, <2>1, StageNumbers
    <2>. QED
      BY <1>3, <1>4, <1>5, <2>1, <2>2
  <1>8. CASE CheckSanity
    <2>. DEFINE ok == UNION {{Error(p, i, "sanity") : i \in Insane(p)} : p \in Programs} = {}
    <2>1. /\ Take(Stage.SYMANTIC)
          /\ Requeue(Stage.SYMANTIC, ok, [u \in {Stage.SANITY} |-> queue[Stage.SYMANTIC]])
          /\ ok \in BOOLEAN
      BY <1>8 DEF CheckSanity
    <2>. HIDE DEF ok
    <2>2. Take(4) /\ Requeue(4, ok, [u \in {4 + 1} |-> queue[4]])
      BY <1>5, <2>1, StageNumbers
    <2>. QED
      BY <1>3, <1>4, <1>5, <2>1, <2>2
  <1>9. CASE AssignAddresses
    <2>. DEFINE ok == UNION {LineErrors(r) : r \in UNION {Reached(p) : p \in Programs}} = {}
    <2>1. Take(Stage.SANITY) /\ Requeue(Stage.SANITY, ok, [u \in {Stage.ADDRESS} |-> <<Image>>])
          /\ ok \in BOOLEAN
      BY <1>9 DEF AssignAddresses
    <2>. HIDE DEF ok
    <2>2. Take(5) /\ Requeue(5, ok, [u \in {5 + 1} |-> <<Image>>])
      BY <1>5, <2>1, StageNumbers
    <2>. QED
      BY <1>3, <1>5, <1>6, <2>1, <2>2
  <1>10. CASE PackImage
    <2>1. Take(Stage.ADDRESS) /\ Requeue(Stage.ADDRESS, TRUE, [u \in {Stage.PACK} |-> <<Image>>])
      BY <1>10 DEF PackImage
    <2>2. Take(6) /\ Requeue(6, TRUE, [u \in {6 + 1} |-> <<Image>>])
      BY <1>5, <2>1, StageNumbers
    <2>. QED
      BY <1>3, <1>5, <1>6, <2>2
  <1>11. CASE Finish
    <2>1. Take(Stage.PACK) /\ Requeue(Stage.PACK, TRUE, [u \in {Stage.FINISHED} |-> queue[Stage.PACK]])
      BY <1>11 DEF Finish
    <2>2. Take(7) /\ Requeue(7, TRUE, [u \in {7 + 1} |-> queue[7]])
      BY <1>5, <2>1, StageNumbers
    <2>. QED
      BY <1>3, <1>4, <1>5, <2>2
  <1>. QED
    BY <1>1, <1>2, <1>7, <1>8, <1>9, <1>10, <1>11

LEMMA ParseFindsCircles ==
    ASSUME AsmInv, CircleInv, Parse
    PROVE  CircleInv'
  <1>. DEFINE here == Range(queue[Stage.PREPROCESS])
  <1>1. /\ Take(Stage.PREPROCESS)
        /\ sections' = [s \in DOMAIN sections |->
               IF s \in here THEN [sections[s] EXCEPT !.ir = Parsed(s)] ELSE sections[s]]
        /\ edges' = edges
    BY DEF Parse
  <1>3. Open /\ queue[1] = << >> /\ queue[2] = << >> /\ queue[4] = << >> /\ queue[3] # << >>
        /\ queue[3] \in Seq(Nat) /\ here \subseteq Own
    <2>1. Open
      BY <1>1, TakenOpen, StageNumbers
    <2>. QED
      BY <1>1, <2>1, Taken, StageNumbers DEF Open, Expanding, AsmInv, DriverSound
  <1>4. ~Open' /\ phase' = phase
    BY NoneOpened DEF Parse, Requeue
  <1>5. ~Cyclic(edges[Current])
    BY <1>3 DEF CircleInv
  <1>6. DOMAIN sections' = DOMAIN sections
        /\ \A s \in DOMAIN sections : sections'[s].top = sections[s].top
              /\ (s \notin here => sections'[s] = sections[s])
    BY <1>1 DEF AsmInv, SectionsSound
  <1>7. \A s \in here : sections[s].top = Current
    BY <1>3 DEF Own, Current
  <1>8. \A s \in DOMAIN sections' : sections'[s].ir # << >> => ~Cyclic(edges'[sections'[s].top])
    BY <1>1, <1>5, <1>6, <1>7 DEF CircleInv
  <1>9. phase' = "os" => \A s \in DOMAIN sections' : sections'[s].top = User => sections'[s].ir = << >>
    BY <1>4, <1>6, <1>7 DEF CircleInv, Current, OS, User
  <1>. QED
    BY <1>1, <1>4, <1>8, <1>9 DEF CircleInv, Cyclic

LEMMA CircleStep ==
    ASSUME AsmInv, CircleInv, [AsmNext]_asmVars
    PROVE  CircleInv'
  <1>. DEFINE Same == DOMAIN sections' = DOMAIN sections
                      /\ \A s \in DOMAIN sections : sections'[s].top = sections[s].top
                             /\ (sections[s].ir = << >> => sections'[s].ir = << >>)
  <1>1. CASE Ignore
    <2>1. ~Open'
      BY <1>1, NoneOpened
    <2>. QED
      BY <1>1, <2>1, CircleStays DEF Ignore, text
  <1>2. CASE GiveUp
    <2>1. phase' = "done" /\ UNCHANGED <<sections, edges>>
      BY <1>2 DEF GiveUp, text
    <2>2. /\ DOMAIN edges' = {OS, User}
          /\ \A s \in DOMAIN sections' : sections'[s].ir # << >> => ~Cyclic(edges'[sections'[s].top])
      BY <2>1 DEF CircleInv
    <2>. QED
      BY <2>1, <2>2 DEF CircleInv, Open, Cyclic
  <1>3. CASE EndLoop
    BY <1>3, EndLoopFindsCircles
  <1>4. CASE Tokenize
    BY <1>4, TokenizeFindsCircles
  <1>5. CASE Preprocess
    BY <1>5, PreprocessFindsCircles
  <1>6. CASE Parse
    BY <1>6, ParseFindsCircles
  <1>7. CASE CheckSanity
    <2>. DEFINE Marked(s) == [sections[s] EXCEPT !.ir = Checked(s)]
    <2>1. edges' = edges /\ phase' = phase /\ sections' = [s \in DOMAIN sections |-> Marked(s)]
      BY <1>7 DEF CheckSanity, Requeue
    <2>2. ~Open'
      BY <1>7, NoneOpened
    <2>3. Same
      <3>1. ASSUME NEW s \in DOMAIN sections
            PROVE  /\ sections'[s].top = sections[s].top
                   /\ sections[s].ir = << >> => sections'[s].ir = << >>
        <4>1. {"top", "parent", "lines", "ir"} \subseteq DOMAIN sections[s]
          BY DEF AsmInv, SectionsSound
        <4>2. Marked(s).top = sections[s].top
          BY <4>1
        <4>3. ASSUME sections[s].ir = << >> PROVE Marked(s).ir = << >>
          <5>1. DOMAIN sections[s].ir = {}
            BY <4>3
          <5>. QED
            BY <4>1, <4>3, <5>1 DEF Checked
        <4>. HIDE DEF Marked
        <4>. QED
          BY <2>1, <4>2, <4>3
      <3>. HIDE DEF Marked
      <3>. QED
        BY <2>1, <3>1
    <2>. QED
      BY <2>1, <2>2, <2>3, CircleStays
  <1>8. CASE AssignAddresses \/ PackImage \/ Finish
    <2>1. UNCHANGED <<sections, edges, phase>>
      BY <1>8 DEF AssignAddresses, PackImage, Finish, Requeue, text
    <2>2. ~Open'
      BY <1>8, NoneOpened
    <2>. QED
      BY <2>1, <2>2, CircleStays
  <1>9. CASE UNCHANGED asmVars
    BY <1>9 DEF asmVars, text, layout, driver, CircleInv, Open, Stuck, Waiting, Expanding, Own, Current, Cyclic
  <1>. QED
    BY <1>1, <1>2, <1>3, <1>4, <1>5, <1>6, <1>7, <1>8, <1>9 DEF AsmNext, Returned

\* However macros are nested, and whatever arguments they are given, no section of a program
\* is parsed if the graph of what its macros invoke has a circle: the preprocessor, which looks
\* for one only before it opens a section, always has a section left at which it finds it.
THEOREM NothingCircularIsParsed ==
    AsmSpec => [](\A s \in DOMAIN sections : sections[s].ir # << >> => ~Cyclic(edges[sections[s].top]))
  <1>1. AsmInit /\ AsmInv => CircleInv
    BY CircleInit
  <1>2. AsmInv /\ CircleInv /\ [AsmNext]_asmVars => CircleInv'
    BY CircleStep
  <1>3. CircleInv => \A s \in DOMAIN sections : sections[s].ir # << >> => ~Cyclic(edges[sections[s].top])
    BY DEF CircleInv
  <1>. QED
    BY <1>1, <1>2, <1>3, AsmAlwaysSound, PTL DEF AsmSpec

-----------------------------------------------------------------------------
(* What invocations lead to: Closure, whose recursion ends as the words that can be    *)
(* arguments are finitely many, is the least set that is closed under Callees.         *)

\* The least set with some invocations that is closed under what they lead to.
Leads(cs) ==
    {x \in Calls : \A C \in SUBSET Calls : cs \subseteq C /\ (\A c \in C : Callees(c) \subseteq C) => x \in C}

LEMMA Typed ==
    /\ Words = Names \cup {""} /\ IsFiniteSet(Names) /\ "" \notin Names
    /\ \A l \in TextLine : /\ l \in [kind : Kinds, label : Words, name : Words, args : Seq(Words), n : Nat]
                           /\ l.kind \in {"scall", "uscall"} => l.name \notin {"", "$1", "$2"}
                           /\ (l.kind = "align" => l.n > 0) /\ (l.kind = "burn" => l.n < WordMod)
    /\ \A x \in DOMAIN CoreMacros : /\ x \in Names /\ CoreMacros[x].arity \in 0 .. 2
                                    /\ CoreMacros[x].lines \in Seq(TextLine)
    /\ Params = <<"$1", "$2">> /\ Params[1] = "$1" /\ Params[2] = "$2"
  <1>1. Params = <<"$1", "$2">> /\ Len(Params) = 2 /\ Range(Params) = {"$1", "$2"}
        /\ Params[1] = "$1" /\ Params[2] = "$2"
    BY DEF Params, Range
  <1>. HIDE DEF Params
  <1>2. Words = Names \cup {""} /\ IsFiniteSet(Names) /\ "" \notin Names
    BY AssemblerAssumption DEF Words
  <1>3. \A x \in DOMAIN CoreMacros : /\ x \in Names /\ CoreMacros[x].arity \in 0 .. 2
                                     /\ CoreMacros[x].lines \in Seq(TextLine)
    BY <1>1, AssemblerAssumption
  <1>. QED
    BY <1>1, <1>2, <1>3 DEF TextLine

\* Putting arguments in place of parameters leaves a text a text.
LEMMA SubstitutedLine ==
    ASSUME NEW l \in TextLine, NEW args \in Seq(Words), Len(args) <= 2
    PROVE  /\ Substituted(l, args) \in TextLine
           /\ Substituted(l, args).kind = l.kind /\ Substituted(l, args).n = l.n
           /\ args = << >> => Substituted(l, args) = l
           /\ Len(Substituted(l, args).args) = Len(l.args)
  <1>. DEFINE Put(word) == IF \E i \in DOMAIN args : word = Params[i]
                           THEN args[CHOOSE i \in DOMAIN args : word = Params[i]] ELSE word
              m == [l EXCEPT !.label = Put(l.label), !.name = Put(l.name),
                             !.args = [i \in DOMAIN l.args |-> Put(l.args[i])]]
  <1>1. Substituted(l, args) = m
    BY DEF Substituted
  <1>2. DOMAIN args = 1 .. Len(args) /\ Len(args) \in Nat /\ \A i \in DOMAIN args : args[i] \in Words
    BY LenProperties, ElementOfSeq
  <1>3. \A w \in Words : Put(w) \in Words
    BY <1>2
  <1>4. ASSUME NEW w, w \notin {"$1", "$2"} PROVE Put(w) = w
    <2>1. \A i \in DOMAIN args : i = 1 \/ i = 2
      BY <1>2
    <2>. QED
      BY <1>4, <2>1, Typed
  <1>5. args = << >> => \A w : Put(w) = w
    BY <1>2
  <1>6. /\ l \in [kind : Kinds, label : Words, name : Words, args : Seq(Words), n : Nat]
        /\ l.kind \in {"scall", "uscall"} => l.name \notin {"", "$1", "$2"}
        /\ (l.kind = "align" => l.n > 0) /\ (l.kind = "burn" => l.n < WordMod)
    BY Typed
  <1>. HIDE DEF Put
  <1>7. DOMAIN l.args = 1 .. Len(l.args) /\ Len(l.args) \in Nat /\ \A i \in DOMAIN l.args : l.args[i] \in Words
    <2>1. l.args \in Seq(Words)
      BY <1>6
    <2>. QED
      BY <2>1, LenProperties, ElementOfSeq
  <1>8. [i \in DOMAIN l.args |-> Put(l.args[i])] \in Seq(Words)
        /\ Len([i \in DOMAIN l.args |-> Put(l.args[i])]) = Len(l.args)
    <2>1. [i \in DOMAIN l.args |-> Put(l.args[i])] \in [1 .. Len(l.args) -> Words]
      BY <1>3, <1>7
    <2>. DEFINE a == [i \in DOMAIN l.args |-> Put(l.args[i])]
    <2>2. a \in Seq(Words) /\ DOMAIN a = 1 .. Len(l.args)
      <3>. HIDE DEF a
      <3>. QED
        BY <1>7, <2>1, SeqDef DEF a
    <2>. HIDE DEF a
    <2>3. Len(a) = Len(l.args)
      BY <1>7, <2>2, LenProperties
    <2>. QED
      BY <2>2, <2>3 DEF a
  <1>9. m \in [kind : Kinds, label : Words, name : Words, args : Seq(Words), n : Nat]
        /\ m.kind = l.kind /\ m.n = l.n /\ m.name = Put(l.name) /\ m.args = [i \in DOMAIN l.args |-> Put(l.args[i])]
    BY <1>3, <1>6, <1>8
  <1>10. m.kind \in {"scall", "uscall"} => m.name \notin {""} \cup Range(Params)
    <2>1. Range(Params) = {"$1", "$2"}
      BY DEF Range, Params
    <2>. QED
      BY <1>4, <1>6, <1>9, <2>1
  <1>11. m \in TextLine
    BY <1>6, <1>9, <1>10 DEF TextLine
  <1>12. args = << >> => m = l
    <2>. SUFFICES ASSUME args = << >> PROVE m = l
      OBVIOUS
    <2>1. [i \in DOMAIN l.args |-> Put(l.args[i])] = [i \in DOMAIN l.args |-> l.args[i]]
      BY <1>5
    <2>2. l.args \in [1 .. Len(l.args) -> Words]
      <3>1. l.args \in Seq(Words)
        BY <1>6
      <3>. QED
        BY <3>1, LenProperties
    <2>3. [i \in DOMAIN l.args |-> Put(l.args[i])] = l.args
      BY <2>1, <2>2
    <2>4. Put(l.label) = l.label /\ Put(l.name) = l.name
      BY <1>5
    <2>5. m = [l EXCEPT !.label = l.label, !.name = l.name, !.args = l.args]
      BY <2>3, <2>4
    <2>. QED
      BY <1>6, <2>5
  <1>. QED
    BY <1>1, <1>8, <1>9, <1>11, <1>12

LEMMA SubstitutedText ==
    ASSUME NEW t \in Seq(TextLine), NEW args \in Seq(Words), Len(args) <= 2
    PROVE  /\ [i \in DOMAIN t |-> Substituted(t[i], args)] \in Seq(TextLine)
           /\ args = << >> => [i \in DOMAIN t |-> Substituted(t[i], args)] = t
  <1>1. DOMAIN t = 1 .. Len(t) /\ Len(t) \in Nat /\ \A i \in DOMAIN t : t[i] \in TextLine
    BY LenProperties, ElementOfSeq
  <1>2. t \in [1 .. Len(t) -> TextLine]
    BY LenProperties
  <1>3. \A i \in DOMAIN t : Substituted(t[i], args) \in TextLine
                            /\ (args = << >> => Substituted(t[i], args) = t[i])
    BY <1>1, SubstitutedLine
  <1>4. [i \in DOMAIN t |-> Substituted(t[i], args)] \in [1 .. Len(t) -> TextLine]
    BY <1>1, <1>3
  <1>. QED
    BY <1>1, <1>2, <1>3, <1>4, SeqDef

LEMMA InvocationsAreCalls ==
    ASSUME NEW t, DOMAIN t = DOMAIN t, \A i \in DOMAIN t : t[i] \in TextLine
    PROVE  Invocations(t) \subseteq Calls
  <1>1. \A l \in Range(t) : l.args \in Seq(Words)
    BY Typed DEF Range
  <1>. QED
    BY <1>1 DEF Invocations, Calls

\* What an invocation leads to are invocations of macros that exist.
LEMMA CalleesAreCalls ==
    ASSUME NEW c \in Calls
    PROVE  Callees(c) \subseteq Calls
  <1>1. c[1] \in DOMAIN CoreMacros /\ c[2] \in Seq(Words) /\ CoreMacros[c[1]].arity = Len(c[2])
    BY DEF Calls
  <1>2. CoreMacros[c[1]].lines \in Seq(TextLine) /\ Len(c[2]) <= 2
    <2>1. CoreMacros[c[1]].arity \in 0 .. 2 /\ CoreMacros[c[1]].lines \in Seq(TextLine)
      BY <1>1, Typed
    <2>2. Len(c[2]) \in 0 .. 2
      BY <1>1, <2>1, Zenon
    <2>3. \A k \in 0 .. 2 : k <= 2
      OBVIOUS
    <2>. QED
      BY <2>1, <2>2, <2>3
  <1>. DEFINE t == [i \in DOMAIN CoreMacros[c[1]].lines |-> Substituted(CoreMacros[c[1]].lines[i], c[2])]
  <1>3. t \in Seq(TextLine)
    BY <1>1, <1>2, SubstitutedText
  <1>4. \A i \in DOMAIN t : t[i] \in TextLine
    <2>. HIDE DEF t
    <2>. QED
      BY <1>3, LenProperties, ElementOfSeq
  <1>5. Callees(c) = Invocations(t)
    BY DEF Callees
  <1>. HIDE DEF t
  <1>. QED
    BY <1>4, <1>5, InvocationsAreCalls

LEMMA ImageIsFinite ==
    ASSUME NEW S, IsFiniteSet(S), NEW f, DOMAIN f = S
    PROVE  IsFiniteSet({f[x] : x \in S})
  <1>. DEFINE T == {f[x] : x \in S}
              g == [x \in S |-> f[x]]
  <1>1. g \in [S -> T] /\ \A t \in T : \E x \in S : g[x] = t
    OBVIOUS
  <1>2. g \in Surjection(S, T)
    <2>. HIDE DEF g, T
    <2>. QED
      BY <1>1 DEF Surjection
  <1>. QED
    BY <1>2, FS_Surjection

\* There are finitely many.
LEMMA CallsAreFinite == IsFiniteSet(Calls)
  <1>. DEFINE Two == (Words \X Words)
              One == [p \in Two |-> <<p[1]>>]
              Both == [p \in Two |-> <<p[1], p[2]>>]
              Lists == {<< >>} \cup {One[p] : p \in Two} \cup {Both[p] : p \in Two}
  <1>1. IsFiniteSet(Words) /\ IsFiniteSet({<< >>})
    <2>1. IsFiniteSet({""}) /\ IsFiniteSet({<< >>})
      BY FS_Singleton
    <2>. QED
      BY <2>1, FS_Union, Typed
  <1>2. IsFiniteSet(Two)
    BY <1>1, FS_Product
  <1>. HIDE DEF Two
  <1>3. IsFiniteSet({One[p] : p \in Two}) /\ IsFiniteSet({Both[p] : p \in Two})
    <2>1. DOMAIN One = Two /\ DOMAIN Both = Two
      OBVIOUS
    <2>. HIDE DEF One, Both
    <2>. QED
      BY <1>2, <2>1, ImageIsFinite
  <1>4. /\ << >> \in Lists /\ \A p \in Two : <<p[1]>> \in Lists /\ <<p[1], p[2]>> \in Lists
    <2>1. \A p \in Two : One[p] = <<p[1]>> /\ Both[p] = <<p[1], p[2]>>
      OBVIOUS
    <2>2. \A p \in Two : One[p] \in Lists /\ Both[p] \in Lists
      <3>. HIDE DEF One, Both
      <3>. QED
        OBVIOUS
    <2>. HIDE DEF Lists, One, Both
    <2>3. \A p \in Two : <<p[1]>> \in Lists /\ <<p[1], p[2]>> \in Lists
      BY <2>1, <2>2
    <2>. QED
      BY <2>3 DEF Lists
  <1>5. IsFiniteSet(Lists)
    <2>. DEFINE A == {One[p] : p \in Two}
                B == {Both[p] : p \in Two}
    <2>. HIDE DEF A, B
    <2>1. IsFiniteSet(A) /\ IsFiniteSet(B)
      BY <1>3 DEF A, B
    <2>2. IsFiniteSet({<< >>} \cup A)
      BY <1>1, <2>1, FS_Union
    <2>3. IsFiniteSet(({<< >>} \cup A) \cup B)
      BY <2>1, <2>2, FS_Union
    <2>. QED
      BY <2>3 DEF A, B
  <1>. HIDE DEF Lists, One, Both
  <1>6. ASSUME NEW a \in Seq(Words), Len(a) \in 0 .. 2 PROVE a \in Lists
    <2>1. DOMAIN a = 1 .. Len(a) /\ \A i \in 1 .. Len(a) : a[i] \in Words
      BY LenProperties, ElementOfSeq
    <2>2. CASE Len(a) = 0
      BY <1>4, <2>2, EmptySeq
    <2>3. CASE Len(a) = 1
      <3>1. a[1] \in Words /\ a = <<a[1]>>
        BY <2>1, <2>3
      <3>2. <<a[1], a[1]>> \in Two
        BY <3>1 DEF Two
      <3>3. <<<<a[1], a[1]>>[1]>> \in Lists
        BY <1>4, <3>2
      <3>. QED
        BY <3>1, <3>3
    <2>4. CASE Len(a) = 2
      <3>1. a[1] \in Words /\ a[2] \in Words /\ a = <<a[1], a[2]>>
        BY <2>1, <2>4
      <3>2. <<a[1], a[2]>> \in Two
        BY <3>1 DEF Two
      <3>3. <<<<a[1], a[2]>>[1], <<a[1], a[2]>>[2]>> \in Lists
        BY <1>4, <3>2
      <3>. QED
        BY <3>1, <3>3
    <2>. QED
      BY <1>6, <2>2, <2>3, <2>4
  <1>7. Calls \subseteq Names \X Lists
    <2>1. \A c \in Calls : c \in (DOMAIN CoreMacros) \X Seq(Words) /\ CoreMacros[c[1]].arity = Len(c[2])
      BY DEF Calls
    <2>2. \A x \in DOMAIN CoreMacros : x \in Names /\ CoreMacros[x].arity \in 0 .. 2
      BY Typed
    <2>3. ASSUME NEW c \in Calls PROVE c \in Names \X Lists
      <3>1. c[1] \in DOMAIN CoreMacros /\ c[2] \in Seq(Words) /\ c = <<c[1], c[2]>>
            /\ CoreMacros[c[1]].arity = Len(c[2])
        BY <2>1
      <3>2. c[1] \in Names /\ c[2] \in Lists
        BY <1>6, <2>2, <3>1
      <3>. QED
        BY <3>1, <3>2
    <2>. QED
      BY <2>3
  <1>8. IsFiniteSet(Names \X Lists)
    BY <1>5, FS_Product, Typed
  <1>. QED
    BY <1>7, <1>8, FS_Subset

Closed(C) == \A c \in C : Callees(c) \subseteq C

LEMMA LeadsIsLeast ==
    ASSUME NEW cs \in SUBSET Calls
    PROVE  /\ cs \subseteq Leads(cs) /\ Leads(cs) \subseteq Calls /\ Closed(Leads(cs))
           /\ \A C \in SUBSET Calls : cs \subseteq C /\ Closed(C) => Leads(cs) \subseteq C
  <1>1. \A x : x \in Leads(cs) <=>
           x \in Calls /\ \A C \in SUBSET Calls : cs \subseteq C /\ Closed(C) => x \in C
    BY DEF Leads, Closed
  <1>2. ASSUME NEW c \in Leads(cs), NEW d \in Callees(c) PROVE d \in Leads(cs)
    <2>1. d \in Calls
      BY <1>1, CalleesAreCalls
    <2>2. ASSUME NEW C \in SUBSET Calls, cs \subseteq C, Closed(C) PROVE d \in C
      <3>1. c \in C
        BY <1>1, <2>2
      <3>. QED
        BY <2>2, <3>1 DEF Closed
    <2>. QED
      BY <1>1, <2>1, <2>2
  <1>. QED
    BY <1>1, <1>2 DEF Closed

LEMMA LeadsGrows ==
    ASSUME NEW cs \in SUBSET Calls, NEW ds \in SUBSET Calls, cs \subseteq Leads(ds)
    PROVE  Leads(cs) \subseteq Leads(ds)
  BY LeadsIsLeast

\* One step on, everything is still ahead.
LEMMA LeadsOn ==
    ASSUME NEW cs \in SUBSET Calls
    PROVE  LET more == cs \cup UNION {Callees(c) : c \in cs}
           IN  /\ more \in SUBSET Calls /\ Leads(more) = Leads(cs)
               /\ more = cs => Leads(cs) = cs
  <1>. DEFINE more == cs \cup UNION {Callees(c) : c \in cs}
  <1>1. more \in SUBSET Calls
    BY CalleesAreCalls
  <1>2. more \subseteq Leads(cs)
    BY LeadsIsLeast DEF Closed
  <1>3. cs \subseteq Leads(more)
    <2>1. cs \subseteq more
      OBVIOUS
    <2>. HIDE DEF more
    <2>. QED
      BY <1>1, <2>1, LeadsIsLeast
  <1>4. more = cs => Closed(cs)
    BY DEF Closed
  <1>. HIDE DEF more
  <1>5. Leads(more) = Leads(cs)
    BY <1>1, <1>2, <1>3, LeadsGrows
  <1>6. more = cs => Leads(cs) = cs
    BY <1>4, LeadsIsLeast
  <1>. QED
    BY <1>1, <1>5, <1>6 DEF more

\* The recursion ends, with the least closed set.
LEMMA ClosureIs ==
    ASSUME NEW start \in SUBSET Calls
    PROVE  Closure[start] = Leads(start)
  <1>. DEFINE More(cs) == cs \cup UNION {Callees(c) : c \in cs}
              Is(f) == f = [cs \in SUBSET Calls |-> IF More(cs) = cs THEN cs ELSE f[More(cs)]]
              g == [cs \in SUBSET Calls |-> Leads(cs)]
  <1>1. \A cs \in SUBSET Calls : /\ More(cs) \in SUBSET Calls /\ Leads(More(cs)) = Leads(cs)
                                 /\ More(cs) = cs => Leads(cs) = cs
    BY LeadsOn
  <1>2. Closure = CHOOSE f : Is(f)
    BY DEF Closure
  <1>. HIDE DEF More
  <1>3. Is(g)
    BY <1>1
  <1>4. Is(Closure)
    <2>. HIDE DEF Is
    <2>. QED
      BY <1>2, <1>3
  <1>5. \A cs \in SUBSET Calls : Closure[cs] = IF More(cs) = cs THEN cs ELSE Closure[More(cs)]
    BY <1>4
  <1>. HIDE DEF Is
  <1>. DEFINE Bad == {n \in Nat : \E cs \in SUBSET Calls :
                         Closure[cs] # Leads(cs) /\ Cardinality(Calls \ cs) = n}
  <1>. SUFFICES ASSUME Closure[start] # Leads(start) PROVE FALSE
    OBVIOUS
  <1>6. \A cs \in SUBSET Calls : IsFiniteSet(Calls \ cs) /\ Cardinality(Calls \ cs) \in Nat
    BY CallsAreFinite, FS_Subset, FS_CardinalityType
  <1>7. Bad # {}
    BY <1>6
  <1>8. PICK n \in Bad : \A m \in Bad : n <= m
    <2>1. Bad \subseteq Nat
      OBVIOUS
    <2>. HIDE DEF Bad
    <2>. QED
      BY <1>7, <2>1, Least
  <1>9. PICK cs \in SUBSET Calls : Closure[cs] # Leads(cs) /\ Cardinality(Calls \ cs) = n
    OBVIOUS
  <1>10. More(cs) # cs
    BY <1>1, <1>5, <1>9
  <1>11. Cardinality(Calls \ More(cs)) < n
    <2>1. cs \subseteq More(cs)
      BY DEF More
    <2>2. Calls \ More(cs) \subseteq Calls \ cs /\ Calls \ More(cs) # Calls \ cs
      BY <1>1, <1>10, <2>1
    <2>3. /\ Cardinality(Calls \ More(cs)) <= Cardinality(Calls \ cs)
          /\ Cardinality(Calls \ More(cs)) # Cardinality(Calls \ cs)
      <3>. DEFINE A == Calls \ cs
                  B == Calls \ More(cs)
      <3>1. IsFiniteSet(A) /\ B \in SUBSET A /\ A # B
        BY <1>6, <2>2
      <3>. HIDE DEF A, B
      <3>2. Cardinality(B) <= Cardinality(A) /\ Cardinality(A) # Cardinality(B)
        BY <3>1, FS_Subset
      <3>. QED
        BY <3>2 DEF A, B
    <2>4. Cardinality(Calls \ More(cs)) \in Nat
      BY <1>1, <1>6
    <2>. QED
      BY <1>9, <2>3, <2>4
  <1>12. Cardinality(Calls \ More(cs)) \notin Bad
    <2>1. ASSUME Cardinality(Calls \ More(cs)) \in Bad PROVE FALSE
      <3>1. n <= Cardinality(Calls \ More(cs)) /\ Cardinality(Calls \ More(cs)) \in Nat /\ n \in Nat
        BY <1>8, <2>1
      <3>. QED
        BY <1>11, <3>1
    <2>. QED
      BY <2>1
  <1>13. Closure[More(cs)] = Leads(More(cs))
    BY <1>1, <1>6, <1>12
  <1>. QED
    BY <1>1, <1>5, <1>9, <1>10, <1>13

\* If each of some macros invokes one of them, one leads back to itself.
LEMMA CircleInCore ==
    ASSUME NEW core \in SUBSET Calls, core # {}, \A c \in core : \E d \in core : d \in Callees(c)
    PROVE  \E c \in core : c \in Leads(Callees(c))
  <1>. DEFINE Ahead(c) == Leads(Callees(c))
              Sizes == {n \in Nat : \E c \in core : Cardinality(Ahead(c)) = n}
  <1>1. \A c \in Calls : /\ Callees(c) \in SUBSET Calls /\ Ahead(c) \subseteq Calls
                         /\ IsFiniteSet(Ahead(c)) /\ Cardinality(Ahead(c)) \in Nat
    <2>1. \A c \in Calls : Callees(c) \in SUBSET Calls
      BY CalleesAreCalls
    <2>2. \A c \in Calls : Ahead(c) \subseteq Calls
      BY <2>1, LeadsIsLeast
    <2>. QED
      BY <2>1, <2>2, CallsAreFinite, FS_Subset, FS_CardinalityType
  <1>2. Sizes # {}
    <2>. HIDE DEF Ahead
    <2>. QED
      BY <1>1
  <1>3. PICK n \in Sizes : \A m \in Sizes : n <= m
    <2>1. Sizes \subseteq Nat
      OBVIOUS
    <2>. HIDE DEF Sizes
    <2>. QED
      BY <1>2, <2>1, Least
  <1>4. PICK c \in core : Cardinality(Ahead(c)) = n
    OBVIOUS
  <1>5. PICK d \in core : d \in Callees(c)
    OBVIOUS
  <1>6. d \in Ahead(c)
    BY <1>1, <1>5, LeadsIsLeast
  <1>7. Ahead(d) \subseteq Ahead(c)
    <2>1. Callees(d) \subseteq Ahead(c)
      BY <1>1, <1>6, LeadsIsLeast DEF Closed
    <2>. QED
      BY <1>1, <2>1, LeadsGrows
  <1>8. n <= Cardinality(Ahead(d)) /\ n \in Nat /\ Cardinality(Ahead(d)) \in Nat
    <2>. HIDE DEF Ahead
    <2>. QED
      BY <1>1, <1>3
  <1>9. Ahead(d) = Ahead(c)
    <2>. HIDE DEF Ahead
    <2>1. /\ Cardinality(Ahead(d)) <= Cardinality(Ahead(c))
          /\ Cardinality(Ahead(c)) = Cardinality(Ahead(d)) => Ahead(c) = Ahead(d)
      BY <1>1, <1>7, FS_Subset
    <2>. QED
      BY <1>4, <1>8, <2>1
  <1>. QED
    BY <1>6, <1>9

\* A graph with all that some macros lead to is cyclic if one leads back to itself.
LEMMA CoreOfCircle ==
    ASSUME NEW cs \in SUBSET Calls, NEW c \in Leads(cs), c \in Leads(Callees(c)), NEW graph,
           \A x \in Leads(cs) : \A d \in Callees(x) : <<x, d>> \in graph
    PROVE  Cyclic(graph)
  <1>. DEFINE core == {x \in Leads(cs) : c \in Leads(Callees(x))}
              nodes == {e[1] : e \in graph} \cup {e[2] : e \in graph}
  <1>1. Leads(cs) \subseteq Calls /\ \A x \in Leads(cs) : Callees(x) \subseteq Leads(cs) /\ Callees(x) \in SUBSET Calls
    BY LeadsIsLeast, CalleesAreCalls DEF Closed
  <1>2. ASSUME NEW x \in core PROVE \E d \in core : d \in Callees(x)
    <2>1. CASE c \in Callees(x)
      BY <1>1, <2>1
    <2>2. CASE c \notin Callees(x)
      <3>. SUFFICES ASSUME \A d \in Callees(x) : c \notin Leads(Callees(d)) PROVE FALSE
        BY <1>1
      <3>. DEFINE C == Callees(x) \cup UNION {Leads(Callees(d)) : d \in Callees(x)}
      <3>1. \A d \in Callees(x) : Callees(d) \in SUBSET Calls
        BY <1>1, CalleesAreCalls
      <3>2. \A d \in Callees(x) : /\ Callees(d) \subseteq Leads(Callees(d))
                                  /\ Leads(Callees(d)) \subseteq Calls /\ Closed(Leads(Callees(d)))
        BY <3>1, LeadsIsLeast
      <3>3. C \in SUBSET Calls /\ Callees(x) \subseteq C
        BY <1>1, <3>2
      <3>4. Closed(C)
        BY <3>2 DEF Closed
      <3>5. c \in C
        <4>. HIDE DEF C
        <4>. QED
          BY <1>1, <3>3, <3>4, LeadsIsLeast
      <3>. QED
        BY <2>2, <3>5
    <2>. QED
      BY <2>1, <2>2
  <1>3. \A x \in core : \E d \in core : <<x, d>> \in graph
    BY <1>2
  <1>4. core \subseteq nodes
    <2>1. ASSUME NEW x \in core PROVE x \in nodes
      <3>1. PICK d \in core : <<x, d>> \in graph
        BY <1>3
      <3>2. <<x, d>>[1] = x
        OBVIOUS
      <3>. QED
        BY <3>1, <3>2
    <2>. QED
      BY <2>1
  <1>5. core # {}
    OBVIOUS
  <1>. HIDE DEF core
  <1>. QED
    BY <1>3, <1>4, <1>5 DEF Cyclic

-----------------------------------------------------------------------------
(* The texts of sections (TreeInv). *)

\* What is known of a section that fits.
LEMMA Fitting ==
    ASSUME AsmInv, RegistryFits, NEW s \in DOMAIN sections, SectionFits(s)
    PROVE  /\ Given(s) \in Seq(TextLine) /\ sections[s].args \in Seq(Words) /\ Len(sections[s].args) <= 2
           /\ sections[s].lines \in Seq(TextLine)
           /\ sections[s].parent = 0 => Tokenized(s) /\ sections[s].top = s
           /\ s \in Nat \ {0}
  <1>1. s \in Nat \ {0}
    <2>1. DOMAIN sections = 1 .. Len(sections) /\ Len(sections) \in Nat
      BY Sequences DEF AsmInv, SectionsSound
    <2>. QED
      BY <2>1
  <1>2. request.os \in Seq(TextLine) /\ request.user \in Seq(TextLine)
    BY GivenTexts DEF AsmInv, DriverSound
  <1>3. CASE sections[s].parent = 0
    <2>1. sections[s].args = << >> /\ Untouched(s) /\ Given(s) \in Seq(TextLine)
      BY <1>2, <1>3 DEF SectionFits, Given
    <2>2. << >> \in Seq(Words) /\ Len(<< >>) <= 2
      OBVIOUS
    <2>3. Tokenized(s)
      <3>1. [i \in DOMAIN Given(s) |-> Substituted(Given(s)[i], << >>)] = Given(s)
        BY <2>1, <2>2, SubstitutedText
      <3>. QED
        BY <2>1, <3>1 DEF Tokenized, Untouched
    <2>. QED
      BY <1>1, <1>3, <2>1, <2>2, <2>3 DEF Untouched, AsmInv, SectionsSound
  <1>4. CASE sections[s].parent # 0
    <2>. DEFINE x == sections[s].name
                a == sections[s].args
    <2>1. ForLine(s)
      BY <1>4 DEF SectionFits
    <2>2. x \in DOMAIN registry /\ registry[x].arity = Len(a)
      BY <2>1 DEF ForLine
    <2>3. registry[x].arity \in 0 .. 2 /\ registry[x].lines \in Seq(TextLine) /\ Given(s) = registry[x].lines
      BY <1>4, <2>2 DEF RegistryFits, Given
    <2>4. Len(a) <= 2
      <3>1. Len(a) \in 0 .. 2
        BY <2>2, <2>3, Zenon
      <3>2. \A k \in 0 .. 2 : k <= 2
        OBVIOUS
      <3>. QED
        BY <3>1, <3>2, Zenon
    <2>5. a \in Seq(Words)
      BY DEF SectionFits
    <2>. HIDE DEF a
    <2>6. /\ Given(s) \in Seq(TextLine)
          /\ [i \in DOMAIN Given(s) |-> Substituted(Given(s)[i], a)] \in Seq(TextLine)
      BY <2>3, <2>4, <2>5, SubstitutedText
    <2>7. sections[s].lines \in Seq(TextLine)
      BY <2>6 DEF SectionFits, Untouched, Tokenized, a
    <2>. QED
      BY <1>1, <1>4, <2>4, <2>5, <2>6, <2>7 DEF a
  <1>. QED
    BY <1>3, <1>4

\* The lines of a section that is tokenized now.
Reading(s) == [i \in DOMAIN sections[s].lines |-> Substituted(sections[s].lines[i], sections[s].args)]

\* Sections are tokenized, and macros registered, without harm to those that fit.
LEMMA TextsKept ==
    ASSUME AsmInv, RegistryFits, \A s \in DOMAIN sections : SectionFits(s), request' = request,
           \A x \in DOMAIN registry : x \in DOMAIN registry' /\ registry'[x] = registry[x],
           \A s \in DOMAIN sections :
              /\ s \in DOMAIN sections' /\ DOMAIN sections'[s] = DOMAIN sections[s]
              /\ sections'[s].top = sections[s].top /\ sections'[s].parent = sections[s].parent
              /\ sections'[s].line = sections[s].line /\ sections'[s].name = sections[s].name
              /\ sections'[s].args = sections[s].args
              /\ \/ sections'[s].lines = sections[s].lines
                 \/ Untouched(s) /\ sections'[s].lines = Reading(s)
    PROVE  \A s \in DOMAIN sections :
              /\ SectionFits(s)' /\ Given(s)' = Given(s)
              /\ Tokenized(s) => Tokenized(s)' /\ sections'[s].lines = sections[s].lines
              /\ Untouched(s) => \/ sections'[s].lines = sections[s].lines /\ Untouched(s)'
                                 \/ sections'[s].lines = Reading(s) /\ Tokenized(s)'
  <1>1. ASSUME NEW s \in DOMAIN sections PROVE Given(s)' = Given(s)
    <2>1. CASE sections[s].parent = 0
      <3>1. sections'[s].parent = 0
        BY <2>1
      <3>. QED
        BY <2>1, <3>1 DEF Given
    <2>2. CASE sections[s].parent # 0
      <3>1. sections[s].name \in DOMAIN registry
        BY <2>2 DEF SectionFits, ForLine
      <3>2. sections'[s].parent # 0 /\ sections'[s].name = sections[s].name
            /\ registry'[sections[s].name] = registry[sections[s].name]
        BY <2>2, <3>1
      <3>. QED
        BY <2>2, <3>2 DEF Given
    <2>. QED
      BY <2>1, <2>2
  <1>2. ASSUME NEW s \in DOMAIN sections, Untouched(s), sections'[s].lines = Reading(s)
        PROVE  Tokenized(s)'
    <2>1. Reading(s) = [i \in DOMAIN Given(s) |-> Substituted(Given(s)[i], sections[s].args)]
      BY <1>2 DEF Reading, Untouched
    <2>. QED
      BY <1>1, <1>2, <2>1 DEF Tokenized
  <1>3. ASSUME NEW s \in DOMAIN sections, Tokenized(s)
        PROVE  Tokenized(s)' /\ sections'[s].lines = sections[s].lines
    <2>1. sections'[s].lines = sections[s].lines
      <3>1. CASE Untouched(s) /\ sections'[s].lines = Reading(s)
        <4>1. Reading(s) = [i \in DOMAIN Given(s) |-> Substituted(Given(s)[i], sections[s].args)]
          BY <3>1 DEF Reading, Untouched
        <4>. QED
          BY <1>3, <3>1, <4>1 DEF Tokenized
      <3>. QED
        BY <3>1
    <2>. QED
      BY <1>1, <1>3, <2>1 DEF Tokenized
  <1>4. ASSUME NEW s \in DOMAIN sections, Untouched(s), sections'[s].lines = sections[s].lines
        PROVE  Untouched(s)'
    BY <1>1, <1>4 DEF Untouched
  <1>5. ASSUME NEW s \in DOMAIN sections, sections[s].parent # 0 PROVE ForLine(s)'
    <2>. PICK q : q = sections[s].parent
      OBVIOUS
    <2>1. /\ q \in DOMAIN sections /\ q < s /\ Tokenized(q)
          /\ sections[s].top = sections[q].top /\ sections[s].line \in Macros(sections[q])
          /\ sections[s].name = sections[q].lines[sections[s].line].name
          /\ sections[s].args = sections[q].lines[sections[s].line].args
          /\ sections[s].name \in DOMAIN registry
          /\ registry[sections[s].name].arity = Len(sections[s].args)
      BY <1>5 DEF SectionFits, ForLine
    <2>2. Tokenized(q)' /\ sections'[q].lines = sections[q].lines
      BY <1>3, <2>1
    <2>3. sections'[s].parent = q
      OBVIOUS
    <2>4. Macros(sections'[q]) = Macros(sections[q])
      BY <2>2 DEF Macros
    <2>5. /\ q \in DOMAIN sections' /\ sections'[s].top = sections'[q].top
          /\ sections'[s].line = sections[s].line /\ sections'[s].name = sections[s].name
          /\ sections'[s].args = sections[s].args /\ sections'[s].name \in DOMAIN registry'
          /\ registry'[sections'[s].name] = registry[sections[s].name]
      BY <2>1
    <2>6. Tokenized(sections[s].parent)'
      BY <2>2, <2>3 DEF Tokenized, Given
    <2>. QED
      BY <2>1, <2>2, <2>3, <2>4, <2>5, <2>6 DEF ForLine
  <1>6. ASSUME NEW s \in DOMAIN sections PROVE SectionFits(s)'
    <2>1. SectionFits(s)
      OBVIOUS
    <2>2. /\ {"line", "name", "args"} \subseteq DOMAIN sections'[s] /\ sections'[s].args \in Seq(Words)
          /\ sections'[s].top \in DOMAIN sections' /\ sections'[sections'[s].top].parent = 0
      <3>1. /\ {"line", "name", "args"} \subseteq DOMAIN sections[s] /\ sections[s].args \in Seq(Words)
            /\ sections[s].top \in DOMAIN sections /\ sections[sections[s].top].parent = 0
        BY <2>1 DEF SectionFits
      <3>. QED
        BY <3>1
    <2>3. Untouched(s)' \/ Tokenized(s)'
      BY <1>2, <1>3, <1>4, <2>1 DEF SectionFits
    <2>4. ASSUME sections[s].parent = 0
          PROVE  s \in {OS, User} /\ sections'[s].name = "" /\ sections'[s].args = << >> /\ Untouched(s)'
      <3>1. s \in {OS, User} /\ sections[s].name = "" /\ sections[s].args = << >> /\ Untouched(s)
            /\ Tokenized(s)
        BY <2>1, <2>4, Fitting DEF SectionFits
      <3>2. sections'[s].lines = sections[s].lines
        BY <1>3, <3>1
      <3>. QED
        BY <1>4, <3>1, <3>2
    <2>5. sections'[s].parent = sections[s].parent
      OBVIOUS
    <2>. QED
      BY <1>5, <2>2, <2>3, <2>4, <2>5 DEF SectionFits
  <1>. QED
    BY <1>1, <1>2, <1>3, <1>4, <1>6

LEMMA TreeInit ==
    ASSUME AsmInit, AsmInv
    PROVE  TreeInv
  <1>1. /\ registry = CoreMacros
        /\ queue = [st \in Stages |-> IF st = Stage.RAW THEN <<OS>> ELSE << >>]
    BY DEF AsmInit
  <1>2. ASSUME NEW s \in DOMAIN sections PROVE Untouched(s) /\ SectionFits(s)
    <2>1. /\ {"line", "name", "args"} \subseteq DOMAIN sections[s]
          /\ sections[s].parent = 0 /\ sections[s].name = "" /\ sections[s].args = << >>
          /\ \/ sections[s].top = OS /\ sections[s].lines = request.os
             \/ sections[s].top = User /\ sections[s].lines = request.user
      BY FirstSections
    <2>2. sections[s].top = s
      BY <2>1 DEF AsmInv, SectionsSound
    <2>3. Untouched(s) /\ s \in {OS, User}
      <3>1. OS # User
        BY DEF OS, User
      <3>2. CASE sections[s].top = OS /\ sections[s].lines = request.os
        BY <2>1, <2>2, <3>2 DEF Untouched, Given
      <3>3. CASE sections[s].top = User /\ sections[s].lines = request.user
        BY <2>1, <2>2, <3>1, <3>3 DEF Untouched, Given
      <3>. QED
        BY <2>1, <3>2, <3>3
    <2>4. << >> \in Seq(Words)
      OBVIOUS
    <2>. QED
      BY <2>1, <2>2, <2>3, <2>4 DEF SectionFits
  <1>3. RegistryFits
    BY <1>1, Typed DEF RegistryFits
  <1>4. /\ Range(queue[1]) \subseteq DOMAIN sections
        /\ Range(queue[2]) = {} /\ Range(queue[3]) = {}
    <2>1. queue[1] = <<OS>> /\ queue[2] = << >> /\ queue[3] = << >>
      BY <1>1, StageNumbers
    <2>2. Range(<<OS>>) = {OS} /\ Range(<< >>) = {}
      BY DEF Range
    <2>. QED
      BY <2>1, <2>2, FirstSections
  <1>. QED
    BY <1>2, <1>3, <1>4 DEF TreeInv

\* Where no text changes and nothing is opened up any more.
LEMMA TreeStays ==
    ASSUME AsmInv, TreeInv, UNCHANGED <<registry, request>>, DOMAIN sections' = DOMAIN sections,
           \A s \in DOMAIN sections :
              /\ DOMAIN sections'[s] = DOMAIN sections[s] /\ sections'[s].lines = sections[s].lines
              /\ sections'[s].top = sections[s].top /\ sections'[s].parent = sections[s].parent
              /\ sections'[s].line = sections[s].line /\ sections'[s].name = sections[s].name
              /\ sections'[s].args = sections[s].args
    PROVE  /\ RegistryFits' /\ \A s \in DOMAIN sections' : SectionFits(s)'
           /\ ~Open' => TreeInv'
           /\ \A s \in DOMAIN sections : Untouched(s) => Untouched(s)'
  <1>1. RegistryFits'
    BY DEF TreeInv, RegistryFits
  <1>2. /\ \A s \in DOMAIN sections' : SectionFits(s)'
        /\ \A s \in DOMAIN sections : Given(s)' = Given(s)
    BY TextsKept DEF TreeInv
  <1>3. \A s \in DOMAIN sections : Untouched(s) => Untouched(s)'
    BY <1>2 DEF Untouched
  <1>. QED
    BY <1>1, <1>2, <1>3 DEF TreeInv

LEMMA TreeEndLoop ==
    ASSUME AsmInv, TreeInv, EndLoop
    PROVE  TreeInv'
  <1>1. phase # "done" /\ UNCHANGED <<sections, registry, request>>
    BY DEF EndLoop, text
  <1>2. /\ RegistryFits' /\ \A s \in DOMAIN sections' : SectionFits(s)'
        /\ ~Open' => TreeInv'
        /\ \A s \in DOMAIN sections : Untouched(s) => Untouched(s)'
    BY <1>1, TreeStays
  <1>3. CASE phase = "os" /\ User \in Programs /\ ~failed
    <2>1. queue' = [queue EXCEPT ![Stage.RAW] = <<User>>] /\ Waiting = {}
      BY <1>3 DEF EndLoop
    <2>2. queue'[1] = <<User>> /\ queue'[2] = << >> /\ queue'[3] = << >>
      BY <2>1, StageNumbers DEF Waiting, AsmInv, DriverSound
    <2>3. Range(<<User>>) = {User} /\ Range(<< >>) = {}
      BY DEF Range
    <2>4. User \in DOMAIN sections /\ Untouched(User)
      BY <1>3 DEF Programs, TreeInv, SectionFits
    <2>5. Untouched(User)'
      BY <1>2, <2>4 DEF User
    <2>. QED
      BY <1>2, <2>2, <2>3, <2>5 DEF TreeInv
  <1>4. CASE ~(phase = "os" /\ User \in Programs /\ ~failed)
    <2>1. phase' = "done"
      BY <1>4 DEF EndLoop
    <2>. QED
      BY <1>2, <2>1 DEF Open
  <1>. QED
    BY <1>3, <1>4

\* What is known of a section.
LEMMA SectionFields ==
    ASSUME AsmInv, TreeInv, NEW s \in DOMAIN sections
    PROVE  {"top", "parent", "lines", "ir", "line", "name", "args"} \subseteq DOMAIN sections[s]
  <1>1. {"top", "parent", "lines", "ir"} \subseteq DOMAIN sections[s]
    BY DEF AsmInv, SectionsSound
  <1>2. SectionFits(s)
    BY DEF TreeInv
  <1>3. {"line", "name", "args"} \subseteq DOMAIN sections[s]
    BY <1>2 DEF SectionFits
  <1>. QED
    BY <1>1, <1>3

LEMMA TreeTokenize ==
    ASSUME AsmInv, TreeInv, Tokenize
    PROVE  TreeInv'
  <1>. DEFINE batch == Range(queue[Stage.RAW])
              bad == UNION {{Error(s, i, "token") : i \in {i \in DOMAIN sections[s].lines :
                                sections[s].lines[i].kind = "bad"}} : s \in batch}
              Now(s) == IF s \in batch
                        THEN [sections[s] EXCEPT !.lines =
                                 [i \in DOMAIN @ |-> Substituted(@[i], sections[s].args)]]
                        ELSE sections[s]
  <1>1. /\ Take(Stage.RAW) /\ Requeue(Stage.RAW, bad = {}, [u \in {Stage.TOKEN} |-> queue[Stage.RAW]])
        /\ sections' = [s \in DOMAIN sections |-> Now(s)] /\ registry' = registry
    BY DEF Tokenize
  <1>. HIDE DEF bad
  <1>2. /\ Open /\ batch = Range(queue[1]) /\ request' = request
        /\ queue[1] \in Seq(Nat) /\ queue[2] \in Seq(Nat)
    BY <1>1, Taken, StageNumbers DEF Open, Requeue, AsmInv, DriverSound
  <1>3. /\ bad # {} => Stuck'
        /\ bad = {} => /\ queue'[1] = << >> /\ queue'[2] = queue[2] \o queue[1] /\ queue'[3] = queue[3]
    <2>1. (bad = {}) \in BOOLEAN /\ 1 \in Stages /\ 2 \in Stages \ {1} /\ 3 \in Stages \ {1, 2}
      BY StageNumbers
    <2>2. Take(1) /\ Requeue(1, bad = {}, [u \in {2} |-> queue[1]])
      BY <1>1, StageNumbers
    <2>. QED
      BY <2>2, TokensForwarded
  <1>4. \A s \in batch : Untouched(s)
    BY <1>2 DEF TreeInv
  <1>5. ASSUME NEW s \in DOMAIN sections
        PROVE  /\ s \in DOMAIN sections' /\ DOMAIN sections'[s] = DOMAIN sections[s]
               /\ sections'[s].top = sections[s].top /\ sections'[s].parent = sections[s].parent
               /\ sections'[s].line = sections[s].line /\ sections'[s].name = sections[s].name
               /\ sections'[s].args = sections[s].args
               /\ s \notin batch => sections'[s].lines = sections[s].lines
               /\ s \in batch => sections'[s].lines = Reading(s)
    <2>1. {"top", "parent", "lines", "ir", "line", "name", "args"} \subseteq DOMAIN sections[s]
      BY SectionFields
    <2>2. CASE s \notin batch
      <3>1. sections'[s] = sections[s] /\ s \in DOMAIN sections'
        BY <1>1, <2>2
      <3>. QED
        BY <2>2, <3>1
    <2>3. CASE s \in batch
      <3>1. sections'[s] = [sections[s] EXCEPT !.lines = Reading(s)] /\ s \in DOMAIN sections'
        BY <1>1, <2>3 DEF Reading
      <3>. HIDE DEF batch
      <3>. QED
        BY <2>1, <2>3, <3>1
    <2>. QED
      BY <2>2, <2>3
  <1>. HIDE DEF Now, batch
  <1>6. \A x \in DOMAIN registry : x \in DOMAIN registry' /\ registry'[x] = registry[x]
    BY <1>1
  <1>7. \A s \in DOMAIN sections :
              /\ SectionFits(s)' /\ Given(s)' = Given(s)
              /\ Tokenized(s) => Tokenized(s)' /\ sections'[s].lines = sections[s].lines
              /\ Untouched(s) => \/ sections'[s].lines = sections[s].lines /\ Untouched(s)'
                                 \/ sections'[s].lines = Reading(s) /\ Tokenized(s)'
    BY <1>2, <1>4, <1>5, <1>6, TextsKept DEF TreeInv
  <1>8. DOMAIN sections' = DOMAIN sections
    BY <1>1
  <1>9. ASSUME NEW s \in batch PROVE Tokenized(s)'
    <2>1. s \in DOMAIN sections /\ Untouched(s) /\ sections'[s].lines = Reading(s)
      BY <1>2, <1>4, <1>5 DEF Open, Expanding, Own
    <2>2. Given(s)' = Given(s) /\ sections'[s].args = sections[s].args
      BY <1>5, <1>7, <2>1
    <2>3. Reading(s) = [i \in DOMAIN Given(s) |-> Substituted(Given(s)[i], sections[s].args)]
      BY <2>1 DEF Reading, Untouched
    <2>. QED
      BY <2>1, <2>2, <2>3 DEF Tokenized
  <1>10. RegistryFits'
    BY <1>1 DEF TreeInv, RegistryFits
  <1>11. ASSUME bad = {}
         PROVE  /\ Range(queue'[1]) = {}
                /\ \A s \in Range(queue'[2]) \cup Range(queue'[3]) : Tokenized(s)'
    <2>1. Range(queue'[2]) = Range(queue[2]) \cup Range(queue[1])
      <3>1. Range(queue[2] \o queue[1]) = Range(queue[2]) \cup Range(queue[1])
        BY <1>2, Joined
      <3>. QED
        BY <1>3, <1>11, <3>1
    <2>2. \A s \in Range(queue[2]) \cup Range(queue[3]) : s \in DOMAIN sections /\ Tokenized(s)
      BY <1>2 DEF TreeInv, Open, Expanding, Own
    <2>3. Range(<< >>) = {}
      BY DEF Range
    <2>. QED
      BY <1>2, <1>3, <1>7, <1>9, <1>11, <2>1, <2>2, <2>3
  <1>12. Open' => bad = {}
    BY <1>3 DEF Open
  <1>. QED
    BY <1>7, <1>8, <1>10, <1>11, <1>12 DEF TreeInv

\* The macros of system calls have no macros in them.
LEMMA SystemMacros ==
    ASSUME NEW line \in TextLine, line.kind \in {"scall", "uscall"}
    PROVE  LET m == SystemMacro(line)
           IN  /\ m.arity \in 0 .. 2 /\ m.lines \in Seq(TextLine)
               /\ \A i \in DOMAIN m.lines : m.lines[i].kind # "macro"
  <1>1. line.name \in Words /\ "$1" \in Words /\ "" \in Words
    <2>1. line.name \in Words /\ Words = Names \cup {""}
      BY Typed
    <2>2. Range(Params) \subseteq Names
      BY AssemblerAssumption
    <2>3. "$1" \in Range(Params)
      BY DEF Range, Params
    <2>. QED
      BY <2>1, <2>2, <2>3
  <1>2. \A x \in Words : \A k \in {"nonunary", "unary", "end"} :
            Word(k, x) \in TextLine /\ Word(k, x).kind # "macro"
    <2>. SUFFICES ASSUME NEW x \in Words, NEW k \in {"nonunary", "unary", "end"}
                  PROVE  Word(k, x) \in TextLine /\ Word(k, x).kind # "macro"
      OBVIOUS
    <2>1. "" \in Words
      BY <1>1
    <2>2. << >> \in Seq(Words) /\ 0 \in Nat
      OBVIOUS
    <2>3. k \in Kinds /\ k \notin {"scall", "uscall", "macro", "align", "burn"}
      BY DEF Kinds, Emitting
    <2>4. Word(k, x) = [kind |-> k, label |-> "", name |-> x, args |-> << >>, n |-> 0]
      BY DEF Word
    <2>5. Word(k, x) \in [kind : Kinds, label : Words, name : Words, args : Seq(Words), n : Nat]
      <3>1. [kind |-> k, label |-> "", name |-> x, args |-> << >>, n |-> 0]
                \in [kind : Kinds, label : Words, name : Words, args : Seq(Words), n : Nat]
        BY <2>1, <2>2, <2>3
      <3>. QED
        BY <2>4, <3>1
    <2>6. Word(k, x).kind = k
      BY DEF Word
    <2>7. Word(k, x).kind \notin {"scall", "uscall", "align", "burn"}
      BY <2>3, <2>6
    <2>. QED
      BY <2>3, <2>5, <2>6, <2>7 DEF TextLine
  <1>3. ASSUME NEW a, NEW b, NEW c, \A w \in {a, b, c} : w \in TextLine /\ w.kind # "macro"
        PROVE  <<a, b, c>> \in Seq(TextLine) /\ \A i \in DOMAIN <<a, b, c>> : <<a, b, c>>[i].kind # "macro"
    <2>1. \A i \in DOMAIN <<a, b, c>> : <<a, b, c>>[i] \in {a, b, c}
      OBVIOUS
    <2>. QED
      BY <1>3, <2>1
  <1>4. CASE line.kind = "scall"
    <2>1. SystemMacro(line) =
        [arity |-> 2, lines |-> <<Word("nonunary", line.name), Word("nonunary", "$1"), Word("end", "")>>]
      BY <1>4 DEF SystemMacro
    <2>2. \A w \in {Word("nonunary", line.name), Word("nonunary", "$1"), Word("end", "")} :
            w \in TextLine /\ w.kind # "macro"
      BY <1>1, <1>2
    <2>3. /\ <<Word("nonunary", line.name), Word("nonunary", "$1"), Word("end", "")>> \in Seq(TextLine)
          /\ \A i \in DOMAIN <<Word("nonunary", line.name), Word("nonunary", "$1"), Word("end", "")>> :
                <<Word("nonunary", line.name), Word("nonunary", "$1"), Word("end", "")>>[i].kind # "macro"
      BY <1>3, <2>2
    <2>. DEFINE t == <<Word("nonunary", line.name), Word("nonunary", "$1"), Word("end", "")>>
    <2>4. t \in Seq(TextLine) /\ \A i \in DOMAIN t : t[i].kind # "macro"
      BY <2>3
    <2>. HIDE DEF t
    <2>5. SystemMacro(line).arity = 2 /\ SystemMacro(line).lines = t
      <3>1. \A m : m = [arity |-> 2, lines |-> t] => m.arity = 2 /\ m.lines = t
        OBVIOUS
      <3>. QED
        BY <2>1, <3>1, Zenon DEF t
    <2>. QED
      BY <2>4, <2>5
  <1>5. CASE line.kind # "scall"
    <2>1. SystemMacro(line) =
        [arity |-> 0, lines |-> <<Word("nonunary", line.name), Word("unary", ""), Word("end", "")>>]
      BY <1>5 DEF SystemMacro
    <2>2. \A w \in {Word("nonunary", line.name), Word("unary", ""), Word("end", "")} :
            w \in TextLine /\ w.kind # "macro"
      BY <1>1, <1>2
    <2>3. /\ <<Word("nonunary", line.name), Word("unary", ""), Word("end", "")>> \in Seq(TextLine)
          /\ \A i \in DOMAIN <<Word("nonunary", line.name), Word("unary", ""), Word("end", "")>> :
                <<Word("nonunary", line.name), Word("unary", ""), Word("end", "")>>[i].kind # "macro"
      BY <1>3, <2>2
    <2>. DEFINE t == <<Word("nonunary", line.name), Word("unary", ""), Word("end", "")>>
    <2>4. t \in Seq(TextLine) /\ \A i \in DOMAIN t : t[i].kind # "macro"
      BY <2>3
    <2>. HIDE DEF t
    <2>5. SystemMacro(line).arity = 0 /\ SystemMacro(line).lines = t
      <3>1. \A m : m = [arity |-> 0, lines |-> t] => m.arity = 0 /\ m.lines = t
        OBVIOUS
      <3>. QED
        BY <2>1, <3>1, Zenon DEF t
    <2>. QED
      BY <2>4, <2>5
  <1>. QED
    BY <1>4, <1>5

LEMMA DeclaredFits ==
    ASSUME RegistryFits, NEW lines \in Seq(TextLine), registry' = Declared(registry, lines)
    PROVE  /\ RegistryFits'
           /\ \A x \in DOMAIN registry : x \in DOMAIN registry' /\ registry'[x] = registry[x]
  <1>. DEFINE declaring == {k \in DOMAIN lines : lines[k].kind \in {"scall", "uscall"}}
              Naming(x) == {k \in declaring : lines[k].name = x}
              First(x) == lines[Min(Naming(x))]
  <1>1. registry' =
            [x \in DOMAIN registry \cup {lines[k].name : k \in declaring} |->
                IF x \in DOMAIN registry THEN registry[x] ELSE SystemMacro(First(x))]
    BY DEF Declared
  <1>2. \A k \in DOMAIN lines : lines[k] \in TextLine /\ k \in Nat
    BY LenProperties, ElementOfSeq
  <1>3. ASSUME NEW x \in {lines[k].name : k \in declaring}
        PROVE  First(x) \in TextLine /\ First(x).kind \in {"scall", "uscall"} /\ x \in Names
    <2>1. Naming(x) # {} /\ Naming(x) \subseteq Nat
      BY <1>2
    <2>2. Min(Naming(x)) \in Naming(x)
      <3>. HIDE DEF Naming
      <3>. QED
        BY <2>1, Smallest
    <2>3. Min(Naming(x)) \in declaring /\ lines[Min(Naming(x))].name = x
      BY <2>2
    <2>. HIDE DEF Naming
    <2>4. First(x) \in TextLine /\ First(x).kind \in {"scall", "uscall"} /\ First(x).name = x
      BY <1>2, <2>3
    <2>5. x \in Words /\ x # ""
      <3>. HIDE DEF First
      <3>. QED
        BY <2>4, Typed
    <2>. QED
      BY <2>4, <2>5, Typed
  <1>. HIDE DEF First, declaring
  <1>4. \A x \in DOMAIN registry : x \in DOMAIN registry' /\ registry'[x] = registry[x]
    BY <1>1
  <1>5. ASSUME NEW x \in DOMAIN registry', x \notin DOMAIN registry
        PROVE  /\ x \in Names /\ registry'[x].arity \in 0 .. 2 /\ registry'[x].lines \in Seq(TextLine)
               /\ \A i \in DOMAIN registry'[x].lines : registry'[x].lines[i].kind # "macro"
    <2>1. x \in {lines[k].name : k \in declaring} /\ registry'[x] = SystemMacro(First(x))
      BY <1>1, <1>5
    <2>. QED
      BY <1>3, <2>1, SystemMacros
  <1>. QED
    BY <1>4, <1>5 DEF RegistryFits

\* The lines that become sections, and what they become.
Opens(s) == {i \in Macros(sections[s]) : Known(sections[s].lines[i])}
Sub(s, i) == Section(sections[s].top, s, i, sections[s].lines[i].name, sections[s].lines[i].args,
                     registry[sections[s].lines[i].name].lines)

LEMMA ChildrenAre ==
    ASSUME SectionsSound, NEW s \in DOMAIN sections
    PROVE  Range(Children(s)) = {Sub(s, i) : i \in Opens(s)}
  <1>. DEFINE lines == sections[s].lines
              Opened(i) == IF i \notin Macros(sections[s]) \/ ~Known(lines[i]) THEN << >> ELSE <<Sub(s, i)>>
              all == [i \in DOMAIN lines |-> Opened(i)]
              S == {Sub(s, i) : i \in Opens(s)}
  <1>1. Children(s) = FlattenSeq(all)
    BY DEF Children, Sub
  <1>2. DOMAIN lines = 1 .. Len(lines) /\ Len(lines) \in Nat /\ Macros(sections[s]) \subseteq DOMAIN lines
    BY Sequences DEF SectionsSound, Macros
  <1>3. ASSUME NEW i \in DOMAIN lines
        PROVE  /\ i \notin Opens(s) => Opened(i) = << >>
               /\ i \in Opens(s) => Opened(i) = <<Sub(s, i)>> /\ Sub(s, i) \in S
    BY DEF Opens
  <1>. HIDE DEF Opened, S
  <1>4. \A i \in DOMAIN lines : Opened(i) \in Seq(S)
    <2>1. << >> \in Seq(S) /\ \A x \in S : <<x>> \in Seq(S)
      OBVIOUS
    <2>. QED
      BY <1>3, <2>1
  <1>5. all \in Seq(Seq(S)) /\ DOMAIN all = DOMAIN lines /\ \A i \in DOMAIN lines : all[i] = Opened(i)
    <2>. HIDE DEF lines
    <2>1. all \in [1 .. Len(lines) -> Seq(S)]
      BY <1>2, <1>4
    <2>. QED
      BY <1>2, <2>1, SeqDef
  <1>. HIDE DEF all
  <1>6. Range(Children(s)) = UNION {Range(all[i]) : i \in DOMAIN all}
    BY <1>1, <1>5, FlattenedRange
  <1>7. Range(<< >>) = {} /\ \A x : Range(<<x>>) = {x}
    BY DEF Range
  <1>8. \A i \in DOMAIN lines : Range(all[i]) = IF i \in Opens(s) THEN {Sub(s, i)} ELSE {}
    BY <1>3, <1>5, <1>7
  <1>9. Opens(s) \subseteq DOMAIN lines
    BY <1>2 DEF Opens
  <1>10. UNION {Range(all[i]) : i \in DOMAIN all} = {Sub(s, i) : i \in Opens(s)}
    <2>1. UNION {Range(all[i]) : i \in DOMAIN lines} \subseteq {Sub(s, i) : i \in Opens(s)}
      BY <1>8
    <2>2. ASSUME NEW i \in Opens(s) PROVE Sub(s, i) \in UNION {Range(all[j]) : j \in DOMAIN lines}
      BY <1>8, <1>9
    <2>. QED
      BY <1>5, <2>1, <2>2
  <1>. QED
    BY <1>6, <1>10

\* A section that is new fits, if the one it comes from does and has been tokenized.
LEMMA TreePreprocess ==
    ASSUME AsmInv, TreeInv, Preprocess
    PROVE  TreeInv'
  <1>1. PICK new, wrong, graph, opened : Opening(new, wrong, graph, opened)
    BY PreprocessOpens
  <1>2. /\ Take(2) /\ request' = request /\ registry' = registry
        /\ opened \in Seq(Own) /\ Range(opened) \subseteq Range(queue[2])
        /\ Range(new) = UNION {Range(Children(s)) : s \in Range(opened)}
        /\ sections' = sections \o new /\ new \in Seq(Lower)
    BY <1>1, StageNumbers DEF Opening, Preprocess, Requeue
  <1>3. Open
    BY <1>2, Taken, StageNumbers DEF Open
  <1>4. /\ phase' = phase /\ Len(sections) \in Nat /\ SectionsSound
        /\ Own' = Own \cup {Len(sections) + k : k \in DOMAIN new}
        /\ wrong # {} => Stuck'
        /\ wrong = {} => /\ Range(queue'[1]) = {Len(sections) + k : k \in DOMAIN new}
                         /\ queue'[2] = << >> /\ Range(queue'[3]) = Range(queue[3]) \cup Range(queue[2])
    BY <1>1, PreprocessQueues DEF AsmInv
  <1>5. /\ \A s \in DOMAIN sections : s \in DOMAIN sections' /\ sections'[s] = sections[s]
        /\ \A s \in DOMAIN sections' : s \in DOMAIN sections \/
              (s > Len(sections) /\ s - Len(sections) \in DOMAIN new
               /\ sections'[s] = new[s - Len(sections)])
        /\ DOMAIN sections = 1 .. Len(sections) /\ DOMAIN sections' \subseteq Nat
        /\ \A k \in DOMAIN new : Len(sections) + k \in DOMAIN sections'
                                 /\ Len(sections) + k \notin DOMAIN sections
    <2>1. sections \in Seq(Range(sections)) /\ DOMAIN sections = 1 .. Len(sections)
      BY <1>4, Sequences DEF SectionsSound, Sequence
    <2>. DEFINE U == Range(sections) \cup Lower
    <2>2. sections \in Seq(U) /\ new \in Seq(U)
      BY <1>2, <2>1, SeqMonotonic
    <2>. HIDE DEF U
    <2>3. /\ sections' \in Seq(U) /\ Len(sections') = Len(sections) + Len(new) /\ Len(new) \in Nat
          /\ DOMAIN new = 1 .. Len(new) /\ DOMAIN sections' = 1 .. Len(sections')
          /\ \A i \in 1 .. Len(sections) + Len(new) :
                sections'[i] = IF i <= Len(sections) THEN sections[i] ELSE new[i - Len(sections)]
      <3>1. sections' \in Seq(U) /\ Len(sections') = Len(sections) + Len(new)
            /\ \A i \in 1 .. Len(sections) + Len(new) :
                  sections'[i] = IF i <= Len(sections) THEN sections[i] ELSE new[i - Len(sections)]
        BY <1>2, <2>2, ConcatProperties
      <3>. QED
        BY <2>2, <3>1, LenProperties
    <2>. QED
      BY <1>4, <2>1, <2>3
  <1>6. \A s \in DOMAIN sections : /\ SectionFits(s)' /\ Given(s)' = Given(s)
                                   /\ Tokenized(s) => Tokenized(s)'
    <2>1. \A x \in DOMAIN registry : x \in DOMAIN registry' /\ registry'[x] = registry[x]
      BY <1>2
    <2>. QED
      BY <1>2, <1>5, <2>1, TextsKept DEF TreeInv
  <1>7. RegistryFits'
    BY <1>2 DEF TreeInv, RegistryFits
  <1>8. ASSUME NEW t \in DOMAIN sections', t \notin DOMAIN sections
        PROVE  SectionFits(t)' /\ Untouched(t)'
    <2>1. t > Len(sections) /\ sections'[t] \in Range(new)
      BY <1>5, <1>8 DEF Range
    <2>2. PICK s \in Range(opened) : sections'[t] \in Range(Children(s))
      BY <1>2, <2>1
    <2>3. s \in Range(queue[2]) /\ s \in DOMAIN sections
      BY <1>2, <1>3, <2>2 DEF Open, Expanding, Own
    <2>4. Tokenized(s) /\ SectionFits(s)
      BY <1>3, <2>3 DEF TreeInv
    <2>5. PICK i \in Opens(s) : sections'[t] = Sub(s, i)
      BY <1>4, <2>2, <2>3, ChildrenAre
    <2>. PICK l : l = sections[s].lines[i]
      OBVIOUS
    <2>6. /\ i \in Macros(sections[s]) /\ l.name \in DOMAIN registry
          /\ registry[l.name].arity = Len(l.args)
      BY <2>5 DEF Opens, Known
    <2>7. s # 0 /\ s < t
      BY <1>4, <1>5, <1>8, <2>1, <2>3
    <2>8. /\ sections'[t].top = sections[s].top /\ sections'[t].parent = s /\ sections'[t].line = i
          /\ sections'[t].name = l.name /\ sections'[t].args = l.args
          /\ sections'[t].lines = registry[l.name].lines
          /\ {"line", "name", "args"} \subseteq DOMAIN sections'[t]
      <3>. PICK x : x = sections'[t]
        OBVIOUS
      <3>1. x = [top |-> sections[s].top, parent |-> s, line |-> i, name |-> l.name, args |-> l.args,
                 lines |-> registry[l.name].lines, ir |-> << >>]
        BY <2>5 DEF Sub, Section
      <3>2. /\ x.top = sections[s].top /\ x.parent = s /\ x.line = i
            /\ x.name = l.name /\ x.args = l.args
            /\ x.lines = registry[l.name].lines
            /\ {"line", "name", "args"} \subseteq DOMAIN x
        BY <3>1
      <3>. QED
        BY <3>2
    <2>9. Untouched(t)'
      BY <1>2, <2>7, <2>8 DEF Untouched, Given
    <2>10. l \in TextLine
      <3>1. sections[s].lines \in Seq(TextLine)
        BY <2>3, <2>4, Fitting DEF TreeInv
      <3>2. i \in DOMAIN sections[s].lines
        BY <2>6 DEF Macros
      <3>. QED
        BY <3>1, <3>2, LenProperties, ElementOfSeq
    <2>11. l.args \in Seq(Words)
      BY <2>10, Typed
    <2>12. sections'[s] = sections[s] /\ s \in DOMAIN sections' /\ Tokenized(s)'
      BY <1>5, <1>6, <2>3, <2>4
    <2>13. ForLine(t)'
      <3>1. sections'[sections'[t].parent] = sections[s] /\ sections'[t].parent = s
        BY <2>8, <2>12
      <3>2. Tokenized(sections[t].parent)'
        BY <2>12, <3>1 DEF Tokenized, Given
      <3>. QED
        BY <1>2, <2>6, <2>7, <2>8, <2>12, <3>1, <3>2 DEF ForLine
    <2>14. /\ sections'[t].top \in DOMAIN sections' /\ sections'[sections'[t].top].parent = 0
      <3>1. sections[s].top \in DOMAIN sections /\ sections[sections[s].top].parent = 0
        BY <2>4 DEF SectionFits
      <3>. QED
        BY <1>5, <2>8, <3>1
    <2>. QED
      BY <2>7, <2>8, <2>9, <2>11, <2>13, <2>14 DEF SectionFits
  <1>9. ASSUME Open'
        PROVE  /\ \A s \in Range(queue'[1]) : Untouched(s)'
               /\ \A s \in Range(queue'[2]) \cup Range(queue'[3]) : Tokenized(s)'
    <2>1. wrong = {}
      BY <1>4, <1>9 DEF Open
    <2>2. \A s \in Range(queue'[1]) : Untouched(s)'
      BY <1>4, <1>5, <1>8, <2>1
    <2>3. Range(<< >>) = {}
      BY DEF Range
    <2>4. \A s \in Range(queue[3]) \cup Range(queue[2]) : s \in DOMAIN sections /\ Tokenized(s)
      BY <1>3 DEF Open, Expanding, Own, TreeInv
    <2>. QED
      BY <1>4, <1>6, <2>1, <2>2, <2>3, <2>4
  <1>. QED
    BY <1>6, <1>7, <1>8, <1>9 DEF TreeInv

LEMMA TreeParse ==
    ASSUME AsmInv, TreeInv, Parse
    PROVE  TreeInv'
  <1>. DEFINE here == Range(queue[Stage.PREPROCESS])
              all == [k \in DOMAIN queue[Stage.PREPROCESS] |-> sections[queue[Stage.PREPROCESS][k]].lines]
              lines == FlattenSeq(all)
  <1>1. /\ Take(Stage.PREPROCESS) /\ request' = request
        /\ sections' = [s \in DOMAIN sections |->
               IF s \in here THEN [sections[s] EXCEPT !.ir = Parsed(s)] ELSE sections[s]]
        /\ registry' = Declared(registry, lines)
    BY DEF Parse, Requeue
  <1>2. /\ queue[3] \in Seq(Nat) /\ Range(queue[3]) \subseteq DOMAIN sections
    BY <1>1, Taken, StageNumbers DEF Expanding, Own, AsmInv, DriverSound
  <1>3. lines \in Seq(TextLine)
    <2>1. all \in Seq(Seq(TextLine))
      <3>1. all = [k \in DOMAIN queue[3] |-> sections[queue[3][k]].lines]
        BY StageNumbers
      <3>. HIDE DEF all
      <3>2. DOMAIN queue[3] = 1 .. Len(queue[3]) /\ Len(queue[3]) \in Nat
        BY <1>2, LenProperties
      <3>3. \A k \in 1 .. Len(queue[3]) : sections[queue[3][k]].lines \in Seq(TextLine)
        <4>1. \A k \in 1 .. Len(queue[3]) : queue[3][k] \in DOMAIN sections
          BY <1>2, <3>2 DEF Range
        <4>. QED
          BY <4>1, Fitting DEF TreeInv
      <3>4. all \in [1 .. Len(queue[3]) -> Seq(TextLine)]
        BY <3>1, <3>2, <3>3
      <3>. QED
        BY <3>2, <3>4, SeqDef
    <2>. HIDE DEF all
    <2>. QED
      BY <2>1, Flattened
  <1>4. /\ RegistryFits'
        /\ \A x \in DOMAIN registry : x \in DOMAIN registry' /\ registry'[x] = registry[x]
    <2>. HIDE DEF lines
    <2>. QED
      BY <1>1, <1>3, DeclaredFits DEF TreeInv
  <1>5. ASSUME NEW s \in DOMAIN sections
        PROVE  /\ s \in DOMAIN sections' /\ DOMAIN sections'[s] = DOMAIN sections[s]
               /\ sections'[s].top = sections[s].top /\ sections'[s].parent = sections[s].parent
               /\ sections'[s].line = sections[s].line /\ sections'[s].name = sections[s].name
               /\ sections'[s].args = sections[s].args /\ sections'[s].lines = sections[s].lines
    <2>. HIDE DEF here
    <2>1. s \in DOMAIN sections'
      BY <1>1
    <2>2. CASE s \in here
      <3>1. sections'[s] = [sections[s] EXCEPT !.ir = Parsed(s)]
        BY <1>1, <2>2
      <3>2. {"top", "parent", "lines", "ir"} \subseteq DOMAIN sections[s]
            /\ {"line", "name", "args"} \subseteq DOMAIN sections[s]
        BY SectionFields
      <3>. QED
        BY <2>1, <3>1, <3>2
    <2>3. CASE s \notin here
      BY <1>1, <2>1, <2>3
    <2>. QED
      BY <2>2, <2>3
  <1>6. DOMAIN sections' = DOMAIN sections
    BY <1>1
  <1>7. \A s \in DOMAIN sections : SectionFits(s)'
    BY <1>1, <1>4, <1>5, TextsKept DEF TreeInv
  <1>8. ~Open'
    BY NoneOpened
  <1>. QED
    BY <1>4, <1>6, <1>7, <1>8 DEF TreeInv

LEMMA TreeCheckSanity ==
    ASSUME AsmInv, TreeInv, CheckSanity
    PROVE  TreeInv'
  <1>. DEFINE Marked(s) == [sections[s] EXCEPT !.ir = Checked(s)]
  <1>1. UNCHANGED <<registry, request>> /\ sections' = [s \in DOMAIN sections |-> Marked(s)]
    BY DEF CheckSanity, Requeue
  <1>2. ~Open'
    BY NoneOpened
  <1>3. ASSUME NEW s \in DOMAIN sections
        PROVE  /\ DOMAIN sections'[s] = DOMAIN sections[s] /\ sections'[s].lines = sections[s].lines
               /\ sections'[s].top = sections[s].top /\ sections'[s].parent = sections[s].parent
               /\ sections'[s].line = sections[s].line /\ sections'[s].name = sections[s].name
               /\ sections'[s].args = sections[s].args
    <2>1. {"top", "parent", "lines", "ir"} \subseteq DOMAIN sections[s]
          /\ {"line", "name", "args"} \subseteq DOMAIN sections[s]
      BY SectionFields
    <2>2. /\ DOMAIN Marked(s) = DOMAIN sections[s] /\ Marked(s).lines = sections[s].lines
          /\ Marked(s).top = sections[s].top /\ Marked(s).parent = sections[s].parent
          /\ Marked(s).line = sections[s].line /\ Marked(s).name = sections[s].name
          /\ Marked(s).args = sections[s].args
      BY <2>1
    <2>3. sections'[s] = Marked(s)
      BY <1>1
    <2>. HIDE DEF Marked
    <2>. QED
      BY <2>2, <2>3
  <1>4. DOMAIN sections' = DOMAIN sections
    BY <1>1
  <1>. QED
    BY <1>1, <1>2, <1>3, <1>4, TreeStays

LEMMA TreeStep ==
    ASSUME AsmInv, TreeInv, [AsmNext]_asmVars
    PROVE  TreeInv'
  <1>1. CASE Tokenize
    BY <1>1, TreeTokenize
  <1>2. CASE Preprocess
    BY <1>2, TreePreprocess
  <1>3. CASE Parse
    BY <1>3, TreeParse
  <1>4. CASE CheckSanity
    BY <1>4, TreeCheckSanity
  <1>5. CASE EndLoop
    BY <1>5, TreeEndLoop
  <1>6. CASE Ignore \/ GiveUp \/ AssignAddresses \/ PackImage \/ Finish
    <2>1. UNCHANGED <<sections, registry, request>>
      BY <1>6 DEF Ignore, GiveUp, AssignAddresses, PackImage, Finish, Requeue, text, layout
    <2>2. ~Open'
      BY <1>6, NoneOpened
    <2>. QED
      BY <2>1, <2>2, TreeStays
  <1>7. CASE UNCHANGED asmVars
    <2>1. /\ sections' = sections /\ registry' = registry /\ request' = request /\ queue' = queue
          /\ phase' = phase /\ target' = target
      BY <1>7 DEF asmVars, text, layout, driver
    <2>2. Open' = Open
      BY <2>1 DEF Open, Stuck, Waiting, Expanding, Own
    <2>3. \A s : Tokenized(s)' = Tokenized(s) /\ Untouched(s)' = Untouched(s)
      BY <2>1 DEF Tokenized, Untouched, Given
    <2>4. RegistryFits' /\ \A s \in DOMAIN sections' : SectionFits(s)'
      BY <2>1, TreeStays
    <2>. QED
      BY <2>1, <2>2, <2>3, <2>4 DEF TreeInv
  <1>. QED
    BY <1>1, <1>2, <1>3, <1>4, <1>5, <1>6, <1>7 DEF AsmNext, Returned

LEMMA TreeAlways == AsmSpec => [](AsmInv /\ CircleInv /\ TreeInv)
  <1>1. AsmInit /\ AsmInv => CircleInv /\ TreeInv
    BY CircleInit, TreeInit
  <1>2. AsmInv /\ CircleInv /\ TreeInv /\ [AsmNext]_asmVars => CircleInv' /\ TreeInv'
    BY CircleStep, TreeStep
  <1>. QED
    BY <1>1, <1>2, AsmAlwaysSound, PTL DEF AsmSpec

-----------------------------------------------------------------------------
(* The graph of invocations and the texts (GraphInv). *)

\* A macro's section is an invocation, and once it is tokenized its lines invoke what that
\* leads to.
LEMMA MacroCalls ==
    ASSUME AsmInv, TreeInv, NEW s \in DOMAIN sections, sections[s].parent # 0,
           sections[s].name \in DOMAIN CoreMacros
    PROVE  /\ ClassOf(sections[s]) \in Calls
           /\ Tokenized(s) => Invocations(sections[s].lines) = Callees(ClassOf(sections[s]))
  <1>1. SectionFits(s) /\ ForLine(s)
    BY DEF TreeInv, SectionFits
  <1>. PICK x : x = sections[s].name
    OBVIOUS
  <1>. PICK a : a = sections[s].args
    OBVIOUS
  <1>2. registry[x] = CoreMacros[x] /\ registry[x].arity = Len(a) /\ a \in Seq(Words)
    BY <1>1 DEF ForLine, SectionFits, TreeInv, RegistryFits
  <1>3. ClassOf(sections[s]) = <<x, a>>
    BY DEF ClassOf
  <1>4. <<x, a>> \in Calls
    <2>1. <<x, a>> \in (DOMAIN CoreMacros) \X Seq(Words)
      BY <1>2
    <2>2. CoreMacros[<<x, a>>[1]].arity = Len(<<x, a>>[2])
      BY <1>2
    <2>. QED
      BY <2>1, <2>2 DEF Calls
  <1>5. Given(s) = CoreMacros[x].lines
    BY <1>2 DEF Given
  <1>6. Tokenized(s) => sections[s].lines = [i \in DOMAIN CoreMacros[x].lines |-> Substituted(CoreMacros[x].lines[i], a)]
    BY <1>5 DEF Tokenized
  <1>7. Callees(<<x, a>>) = Invocations([i \in DOMAIN CoreMacros[x].lines |-> Substituted(CoreMacros[x].lines[i], a)])
    BY DEF Callees
  <1>. QED
    BY <1>3, <1>4, <1>6, <1>7

\* Only a program and the macros that were registered beforehand invoke macros.
LEMMA WhoInvokes ==
    ASSUME AsmInv, TreeInv, NEW s \in DOMAIN sections, sections[s].parent # 0, Macros(sections[s]) # {}
    PROVE  sections[s].name \in DOMAIN CoreMacros
  <1>1. SectionFits(s) /\ ForLine(s)
    BY DEF TreeInv, SectionFits
  <1>. PICK x : x = sections[s].name
    OBVIOUS
  <1>2. x \in DOMAIN registry /\ Given(s) = registry[x].lines
    BY <1>1 DEF ForLine, Given
  <1>3. PICK i \in DOMAIN sections[s].lines : sections[s].lines[i].kind = "macro"
    BY DEF Macros
  <1>4. i \in DOMAIN Given(s) /\ Given(s)[i].kind = "macro"
    <2>1. CASE Untouched(s)
      BY <1>3, <2>1 DEF Untouched
    <2>2. CASE Tokenized(s)
      <3>1. /\ Given(s) \in Seq(TextLine) /\ sections[s].args \in Seq(Words) /\ Len(sections[s].args) <= 2
        BY <1>1, Fitting DEF TreeInv
      <3>2. i \in DOMAIN Given(s) /\ sections[s].lines[i] = Substituted(Given(s)[i], sections[s].args)
        BY <1>3, <2>2 DEF Tokenized
      <3>3. Given(s)[i] \in TextLine
        BY <3>1, <3>2, LenProperties, ElementOfSeq
      <3>4. Substituted(Given(s)[i], sections[s].args).kind = Given(s)[i].kind
        BY <3>1, <3>3, SubstitutedLine
      <3>. QED
        BY <1>3, <3>2, <3>4
    <2>. QED
      BY <1>1, <2>1, <2>2 DEF SectionFits
  <1>. QED
    BY <1>2, <1>4 DEF TreeInv, RegistryFits

\* A macro's section is there because the one above it invokes it.
LEMMA InvokedAbove ==
    ASSUME AsmInv, TreeInv, NEW s \in DOMAIN sections, sections[s].parent # 0,
           sections[s].name \in DOMAIN CoreMacros, NEW q, q = sections[s].parent
    PROVE  /\ q \in DOMAIN sections /\ q < s /\ sections[q].top = sections[s].top
           /\ ClassOf(sections[s]) \in Invocations(sections[q].lines)
           /\ sections[q].parent # 0 =>
                 /\ sections[q].name \in DOMAIN CoreMacros /\ ClassOf(sections[q]) \in Calls
                 /\ ClassOf(sections[s]) \in Callees(ClassOf(sections[q]))
  <1>1. SectionFits(s) /\ ForLine(s)
    BY DEF TreeInv, SectionFits
  <1>. PICK i : i = sections[s].line
    OBVIOUS
  <1>2. /\ q \in DOMAIN sections /\ q < s /\ Tokenized(q) /\ sections[q].top = sections[s].top
        /\ i \in Macros(sections[q])
    BY <1>1 DEF ForLine
  <1>. PICK l : l = sections[q].lines[i]
    OBVIOUS
  <1>3. /\ sections[s].name = l.name /\ sections[s].args = l.args
        /\ registry[l.name].arity = Len(l.args) /\ l.kind = "macro" /\ l \in Range(sections[q].lines)
    BY <1>1, <1>2 DEF ForLine, Macros, Range
  <1>4. CoreMacros[l.name].arity = Len(l.args)
    <2>1. registry[l.name] = CoreMacros[l.name]
      BY <1>3 DEF TreeInv, RegistryFits
    <2>. QED
      BY <1>3, <2>1
  <1>5. ClassOf(sections[s]) = <<l.name, l.args>>
    BY <1>3 DEF ClassOf
  <1>6. <<l.name, l.args>> \in Invocations(sections[q].lines)
    BY <1>3, <1>4 DEF Invocations
  <1>7. ASSUME sections[q].parent # 0
        PROVE  /\ sections[q].name \in DOMAIN CoreMacros /\ ClassOf(sections[q]) \in Calls
               /\ ClassOf(sections[s]) \in Callees(ClassOf(sections[q]))
    <2>1. sections[q].name \in DOMAIN CoreMacros
      BY <1>2, <1>7, WhoInvokes
    <2>. QED
      BY <1>2, <1>5, <1>6, <1>7, <2>1, MacroCalls
  <1>. QED
    BY <1>2, <1>5, <1>6, <1>7

\* What a text invokes are calls.
LEMMA SectionCalls ==
    ASSUME AsmInv, TreeInv, NEW s \in DOMAIN sections
    PROVE  Invocations(sections[s].lines) \in SUBSET Calls
  <1>1. sections[s].lines \in Seq(TextLine)
    BY Fitting DEF TreeInv
  <1>2. \A i \in DOMAIN sections[s].lines : sections[s].lines[i] \in TextLine
    BY <1>1, LenProperties, ElementOfSeq
  <1>. QED
    BY <1>2, InvocationsAreCalls

\* All sections of a program are what its lines lead to.
LEMMA ClassesLead ==
    ASSUME AsmInv, TreeInv
    PROVE  \A s \in DOMAIN sections : sections[s].parent # 0 /\ sections[s].name \in DOMAIN CoreMacros =>
              ClassOf(sections[s]) \in Leads(Invocations(sections[sections[s].top].lines))
  <1>. DEFINE Led(s) == ClassOf(sections[s]) \in Leads(Invocations(sections[sections[s].top].lines))
              Bad == {s \in DOMAIN sections : sections[s].parent # 0 /\ sections[s].name \in DOMAIN CoreMacros
                                              /\ ~Led(s)}
  <1>. SUFFICES ASSUME Bad # {} PROVE FALSE
    OBVIOUS
  <1>1. DOMAIN sections \subseteq Nat
    BY Sequences DEF AsmInv, SectionsSound
  <1>2. PICK s \in Bad : \A t \in Bad : s <= t
    <2>1. Bad \in SUBSET Nat
      BY <1>1
    <2>. HIDE DEF Bad
    <2>. QED
      BY <2>1, Least
  <1>3. s \in DOMAIN sections /\ sections[s].parent # 0 /\ sections[s].name \in DOMAIN CoreMacros /\ ~Led(s)
    OBVIOUS
  <1>. PICK q : q = sections[s].parent
    OBVIOUS
  <1>4. /\ q \in DOMAIN sections /\ q < s /\ sections[q].top = sections[s].top
        /\ ClassOf(sections[s]) \in Invocations(sections[q].lines)
        /\ sections[q].parent # 0 =>
              /\ sections[q].name \in DOMAIN CoreMacros /\ ClassOf(sections[q]) \in Calls
              /\ ClassOf(sections[s]) \in Callees(ClassOf(sections[q]))
    <2>. HIDE DEF Bad, Led
    <2>. QED
      BY <1>3, InvokedAbove
  <1>. PICK p : p = sections[s].top
    OBVIOUS
  <1>5. p \in DOMAIN sections
    BY <1>3 DEF TreeInv, SectionFits
  <1>6. LET cs == Invocations(sections[p].lines)
        IN  cs \in SUBSET Calls /\ cs \subseteq Leads(cs) /\ Closed(Leads(cs))
    BY <1>5, SectionCalls, LeadsIsLeast
  <1>7. CASE sections[q].parent = 0
    <2>1. q = p
      BY <1>4, <1>7 DEF AsmInv, SectionsSound
    <2>. QED
      BY <1>3, <1>4, <1>6, <2>1
  <1>8. CASE sections[q].parent # 0
    <2>1. q \notin Bad
      <3>1. q \in Nat /\ s \in Nat /\ ~(s <= q)
        BY <1>1, <1>3, <1>4
      <3>. HIDE DEF Bad
      <3>. QED
        BY <1>2, <3>1
    <2>2. Led(q)
      BY <1>4, <1>8, <2>1
    <2>3. ClassOf(sections[s]) \in Leads(Invocations(sections[p].lines))
      BY <1>4, <1>6, <1>8, <2>2 DEF Closed
    <2>. QED
      BY <1>3, <2>3
  <1>. QED
    BY <1>7, <1>8

\* What is circular, by what invocations lead to.
LEMMA CircularIs ==
    ASSUME AsmInv, TreeInv, NEW p \in DOMAIN sections
    PROVE  Circular(p) <=> \E c \in Leads(Invocations(sections[p].lines)) : c \in Leads(Callees(c))
  <1>1. Invocations(sections[p].lines) \in SUBSET Calls
    BY SectionCalls
  <1>2. Closure[Invocations(sections[p].lines)] = Leads(Invocations(sections[p].lines))
    BY <1>1, ClosureIs
  <1>3. ASSUME NEW c \in Leads(Invocations(sections[p].lines)) PROVE Closure[Callees(c)] = Leads(Callees(c))
    <2>1. c \in Calls
      BY <1>1, LeadsIsLeast
    <2>2. Callees(c) \in SUBSET Calls
      BY <2>1, CalleesAreCalls
    <2>. QED
      BY <2>2, ClosureIs
  <1>. QED
    BY <1>2, <1>3 DEF Circular

\* A circle in the graph of a program is one of its macros.
LEMMA CyclicIsCircular ==
    ASSUME AsmInv, TreeInv, EdgesSound, NEW p \in {OS, User}, Cyclic(edges[p])
    PROVE  p \in DOMAIN sections /\ Circular(p)
  <1>. DEFINE Leading == Leads(Invocations(sections[p].lines))
  <1>1. PICK core : /\ core # {} /\ \A c \in core : \E d \in core : <<c, d>> \in edges[p]
    BY DEF Cyclic
  <1>2. ASSUME NEW c, NEW d, <<c, d>> \in edges[p]
        PROVE  \E t \in DOMAIN sections : /\ sections[t].parent # 0 /\ sections[t].top = p
                   /\ c = ClassOf(sections[sections[t].parent]) /\ d = ClassOf(sections[t])
    <2>1. PICK t \in DOMAIN sections : /\ sections[t].parent # 0 /\ sections[t].top = p
              /\ <<c, d>> = <<ClassOf(sections[sections[t].parent]), ClassOf(sections[t])>>
      BY <1>2 DEF EdgesSound
    <2>. QED
      BY <2>1
  <1>3. p \in DOMAIN sections
    <2>1. PICK c \in core, d \in core : <<c, d>> \in edges[p]
      BY <1>1
    <2>2. PICK t \in DOMAIN sections : sections[t].top = p
      BY <1>2, <2>1
    <2>. QED
      BY <2>2 DEF TreeInv, SectionFits
  <1>4. ASSUME NEW c, NEW d, NEW e, <<c, d>> \in edges[p], <<d, e>> \in edges[p]
        PROVE  \E x \in DOMAIN CoreMacros : d[1] = x /\ d \in Leading
    <2>1. PICK t \in DOMAIN sections : sections[t].parent # 0 /\ sections[t].top = p /\ d = ClassOf(sections[t])
      BY <1>2, <1>4
    <2>2. PICK u \in DOMAIN sections : /\ sections[u].parent # 0 /\ d = ClassOf(sections[sections[u].parent])
                                       /\ sections[u].top = p
      BY <1>2, <1>4
    <2>. PICK q : q = sections[u].parent
      OBVIOUS
    <2>3. q \in DOMAIN sections /\ sections[u].line \in Macros(sections[q]) /\ sections[q].top = p
      BY <2>2 DEF TreeInv, SectionFits, ForLine
    <2>4. sections[t].name = sections[q].name /\ d[1] = sections[t].name
      BY <2>1, <2>2 DEF ClassOf
    <2>5. sections[t].name \in Names /\ "" \notin Names
      <3>1. sections[t].name \in DOMAIN registry
        BY <2>1 DEF TreeInv, SectionFits, ForLine
      <3>. QED
        BY <3>1, Typed DEF TreeInv, RegistryFits
    <2>6. sections[q].parent # 0
      BY <2>3, <2>4, <2>5 DEF TreeInv, SectionFits
    <2>7. sections[q].name \in DOMAIN CoreMacros
      BY <2>3, <2>6, WhoInvokes
    <2>8. d \in Leading
      BY <2>2, <2>3, <2>6, <2>7, ClassesLead
    <2>. QED
      BY <2>4, <2>7, <2>8
  <1>. DEFINE inner == {d \in core : \E c \in core : <<c, d>> \in edges[p]}
  <1>5. \A d \in inner : d \in Leading /\ d[1] \in DOMAIN CoreMacros
    <2>. SUFFICES ASSUME NEW d \in inner PROVE d \in Leading /\ d[1] \in DOMAIN CoreMacros
      OBVIOUS
    <2>1. PICK c \in core, e \in core : <<c, d>> \in edges[p] /\ <<d, e>> \in edges[p]
      BY <1>1
    <2>. HIDE DEF inner, Leading
    <2>. QED
      BY <1>4, <2>1
  <1>6. inner # {}
    BY <1>1
  <1>7. ASSUME NEW c \in inner PROVE \E d \in inner : d \in Callees(c)
    <2>1. PICK d \in core : <<c, d>> \in edges[p]
      BY <1>1
    <2>2. d \in inner
      BY <2>1
    <2>3. PICK t \in DOMAIN sections : /\ sections[t].parent # 0 /\ sections[t].top = p
              /\ c = ClassOf(sections[sections[t].parent]) /\ d = ClassOf(sections[t])
      BY <1>2, <2>1
    <2>. PICK q : q = sections[t].parent
      OBVIOUS
    <2>. HIDE DEF inner, Leading
    <2>4. sections[t].name \in DOMAIN CoreMacros
      BY <1>5, <2>2, <2>3 DEF ClassOf
    <2>5. q \in DOMAIN sections /\ (sections[q].parent # 0 => ClassOf(sections[t]) \in Callees(ClassOf(sections[q])))
      BY <2>3, <2>4, InvokedAbove
    <2>6. sections[q].parent # 0
      <3>1. sections[q].name \in Names /\ "" \notin Names
        BY <1>5, <2>3, Typed DEF ClassOf
      <3>. QED
        BY <2>5, <3>1 DEF TreeInv, SectionFits
    <2>. QED
      BY <2>2, <2>3, <2>5, <2>6
  <1>8. inner \in SUBSET Calls
    <2>. HIDE DEF inner
    <2>1. Leading \subseteq Calls
      BY <1>3, SectionCalls, LeadsIsLeast
    <2>. QED
      BY <1>5, <2>1
  <1>9. \E c \in inner : c \in Leads(Callees(c))
    <2>. HIDE DEF inner
    <2>. QED
      BY <1>6, <1>7, <1>8, CircleInCore
  <1>10. \E c \in Leading : c \in Leads(Callees(c))
    <2>. HIDE DEF inner, Leading
    <2>. QED
      BY <1>5, <1>9
  <1>. QED
    BY <1>3, <1>10, CircularIs

\* When all sections of a program are opened up its graph has every circle.
LEMMA CircularIsCyclic ==
    ASSUME AsmInv, TreeInv, Open, \A s \in Own : Complete(s) /\ Tokenized(s), Own # {}, Circular(Current)
    PROVE  Cyclic(edges[Current])
  <1>. PICK p : p = Current
    OBVIOUS
  <1>1. \A s \in Own : s \in DOMAIN sections /\ sections[s].top = p
    BY DEF Own, Current
  <1>2. p \in Own /\ p \in DOMAIN sections
    <2>1. PICK s \in Own : TRUE
      OBVIOUS
    <2>2. p \in DOMAIN sections /\ sections[p].parent = 0
      BY <1>1, <2>1 DEF TreeInv, SectionFits
    <2>3. sections[p].top = p
      BY <2>2 DEF AsmInv, SectionsSound
    <2>. QED
      BY <2>2, <2>3 DEF Own, Current
  <1>. DEFINE cs == Invocations(sections[p].lines)
              X == {x \in Calls : \E s \in Own : sections[s].parent # 0 /\ ClassOf(sections[s]) = x}
  <1>3. cs \in SUBSET Calls
    BY <1>2, SectionCalls
  <1>4. ASSUME NEW s \in Own, NEW c \in Invocations(sections[s].lines)
        PROVE  c \in X /\ <<ClassOf(sections[s]), c>> \in edges[p]
    <2>1. /\ <<ClassOf(sections[s]), c>> \in edges[p]
          /\ \E t \in DOMAIN sections : sections[t].parent = s /\ sections[t].top = p /\ ClassOf(sections[t]) = c
      BY <1>1, <1>4 DEF Complete
    <2>2. s # 0
      <3>1. s \in DOMAIN sections
        BY <1>1
      <3>. QED
        BY <3>1, Fitting DEF TreeInv
    <2>3. PICK t \in DOMAIN sections : sections[t].parent = s /\ sections[t].top = p /\ ClassOf(sections[t]) = c
      BY <2>1
    <2>4. t \in Own
      BY <2>3 DEF Own, Current
    <2>5. c \in Calls
      BY <1>1, <1>4, SectionCalls
    <2>. QED
      BY <2>1, <2>2, <2>3, <2>4, <2>5
  <1>5. ASSUME NEW x \in X, NEW d \in Callees(x) PROVE d \in X /\ <<x, d>> \in edges[p]
    <2>1. PICK s \in Own : sections[s].parent # 0 /\ ClassOf(sections[s]) = x
      OBVIOUS
    <2>2. sections[s].name \in DOMAIN CoreMacros
      <3>1. x \in (DOMAIN CoreMacros) \X Seq(Words)
        BY DEF Calls
      <3>2. x[1] \in DOMAIN CoreMacros /\ x = <<sections[s].name, sections[s].args>>
        BY <2>1, <3>1 DEF ClassOf
      <3>3. x[1] = sections[s].name
        BY <3>2
      <3>. QED
        BY <3>2, <3>3
    <2>3. s \in DOMAIN sections /\ Tokenized(s)
      BY <1>1
    <2>4. Invocations(sections[s].lines) = Callees(x)
      BY <2>1, <2>2, <2>3, MacroCalls
    <2>. HIDE DEF X
    <2>. QED
      BY <1>4, <2>1, <2>4
  <1>6. Leads(cs) \subseteq X
    <2>1. X \in SUBSET Calls
      OBVIOUS
    <2>2. cs \subseteq X
      <3>. HIDE DEF X
      <3>. QED
        BY <1>2, <1>4
    <2>3. Closed(X)
      <3>. HIDE DEF X
      <3>. QED
        BY <1>5 DEF Closed
    <2>. HIDE DEF X, cs
    <2>. QED
      BY <1>3, <2>1, <2>2, <2>3, LeadsIsLeast
  <1>7. PICK c \in Leads(cs) : c \in Leads(Callees(c))
    BY <1>2, CircularIs
  <1>8. \A x \in Leads(cs) : \A d \in Callees(x) : <<x, d>> \in edges[p]
    <2>. HIDE DEF X, cs
    <2>. QED
      BY <1>5, <1>6
  <1>9. Cyclic(edges[p])
    <2>. HIDE DEF cs
    <2>. QED
      BY <1>3, <1>7, <1>8, CoreOfCircle
  <1>. QED
    BY <1>9

\* The text of a program never changes, and so neither does whether it is circular.
LEMMA CircularStays ==
    ASSUME AsmInv, TreeInv, TreeInv', request' = request,
           \A s \in DOMAIN sections : /\ s \in DOMAIN sections' /\ sections'[s].top = sections[s].top
                                      /\ sections'[s].parent = sections[s].parent
    PROVE  \A s \in DOMAIN sections : Circular(sections[s].top)' <=> Circular(sections[s].top)
  <1>. SUFFICES ASSUME NEW s \in DOMAIN sections
                PROVE  Circular(sections[s].top)' <=> Circular(sections[s].top)
    OBVIOUS
  <1>. PICK p : p = sections[s].top
    OBVIOUS
  <1>1. p \in DOMAIN sections /\ sections[p].parent = 0
    BY DEF TreeInv, SectionFits
  <1>2. p \in DOMAIN sections' /\ sections'[p].parent = 0
    BY <1>1
  <1>3. Untouched(p) /\ Untouched(p)'
    BY <1>1, <1>2 DEF TreeInv, SectionFits
  <1>4. sections'[p].lines = sections[p].lines
    BY <1>1, <1>2, <1>3 DEF Untouched, Given
  <1>. QED
    BY <1>4 DEF Circular

\* What stays while no macro is opened up.
LEMMA GraphStays ==
    ASSUME AsmInv, TreeInv, GraphInv, TreeInv', request' = request, edges' = edges,
           DOMAIN sections' = DOMAIN sections,
           \A s \in DOMAIN sections :
              /\ sections'[s].top = sections[s].top /\ sections'[s].parent = sections[s].parent
              /\ sections'[s].name = sections[s].name /\ sections'[s].args = sections[s].args
              /\ sections'[s].ir # << >> => sections[s].ir # << >> \/ ~Circular(sections[s].top),
           \A e \in errors' \ errors : e.what # "circular",
           phase' = "os" => phase = "os"
    PROVE  /\ ~Open' => GraphInv'
           /\ EdgesSound' /\ CircularExactly' /\ (phase' = "os" => edges'[User] = {})
           /\ \A s \in DOMAIN sections : Complete(s) /\ sections'[s].lines = sections[s].lines => Complete(s)'
  <1>1. \A s \in DOMAIN sections : ClassOf(sections'[s]) = ClassOf(sections[s])
    BY DEF ClassOf
  <1>2. EdgesSound'
    <2>. SUFFICES ASSUME NEW p \in {OS, User}, NEW e \in edges[p]
                  PROVE  \E c \in DOMAIN sections' :
                            /\ sections'[c].parent # 0 /\ sections'[c].top = p
                            /\ e = <<ClassOf(sections'[sections'[c].parent]), ClassOf(sections'[c])>>
      BY DEF EdgesSound, OS, User
    <2>1. PICK c \in DOMAIN sections : /\ sections[c].parent # 0 /\ sections[c].top = p
                                       /\ e = <<ClassOf(sections[sections[c].parent]), ClassOf(sections[c])>>
      BY DEF GraphInv, EdgesSound
    <2>2. sections[c].parent \in DOMAIN sections
      BY <2>1 DEF TreeInv, SectionFits, ForLine
    <2>. QED
      BY <1>1, <2>1, <2>2
  <1>3. CircularExactly'
    <2>1. \A s \in DOMAIN sections : Circular(sections[s].top)' <=> Circular(sections[s].top)
      BY CircularStays
    <2>2. ASSUME NEW e \in errors', e.what = "circular"
          PROVE  e.section \in DOMAIN sections' /\ Circular(sections[e.section].top)'
      BY <2>1, <2>2 DEF GraphInv, CircularExactly
    <2>3. ASSUME NEW s \in DOMAIN sections', sections'[s].ir # << >>
          PROVE  ~Circular(sections[s].top)'
      BY <2>1, <2>3 DEF GraphInv, CircularExactly
    <2>. QED
      BY <2>2, <2>3 DEF CircularExactly
  <1>4. phase' = "os" => edges'[User] = {}
    BY DEF GraphInv, User
  <1>5. ASSUME NEW s \in DOMAIN sections, Complete(s), sections'[s].lines = sections[s].lines
        PROVE  Complete(s)'
    <2>. SUFFICES ASSUME NEW c \in Invocations(sections[s].lines)
                  PROVE  /\ <<ClassOf(sections[s]), c>> \in edges[sections[s].top]
                         /\ \E t \in DOMAIN sections : /\ sections'[t].parent = s
                               /\ sections'[t].top = sections[s].top /\ ClassOf(sections'[t]) = c
      BY <1>1, <1>5 DEF Complete
    <2>. QED
      BY <1>1, <1>5 DEF Complete
  <1>. QED
    BY <1>2, <1>3, <1>4, <1>5 DEF GraphInv

LEMMA GraphInit ==
    ASSUME AsmInit, AsmInv, CircleInv, TreeInv
    PROVE  GraphInv
  <1>1. /\ edges = [p \in {OS, User} |-> {}] /\ errors = {} /\ phase = "os"
        /\ queue = [st \in Stages |-> IF st = Stage.RAW THEN <<OS>> ELSE << >>]
    BY DEF AsmInit
  <1>2. queue[1] = <<OS>> /\ queue[2] = << >> /\ queue[3] = << >> /\ Current = OS /\ edges[Current] = {}
    BY <1>1, StageNumbers DEF Current
  <1>3. Range(<< >>) = {}
    BY DEF Range
  <1>4. Alone /\ \A s \in Range(queue[3]) : Complete(s)
    BY <1>2, <1>3 DEF Alone
  <1>5. EdgesSound
    BY <1>1 DEF EdgesSound
  <1>6. CircularExactly
    BY <1>1, FirstSections DEF CircularExactly
  <1>. QED
    BY <1>1, <1>4, <1>5, <1>6 DEF GraphInv

LEMMA GraphEndLoop ==
    ASSUME AsmInv, TreeInv, GraphInv, TreeInv', EndLoop
    PROVE  GraphInv'
  <1>1. /\ Waiting = {} /\ phase # "done" /\ sections' = sections /\ edges' = edges /\ errors' = errors
        /\ request' = request
    BY DEF EndLoop, text
  <1>2. phase' \in {"user", "done"}
    BY DEF EndLoop
  <1>3. /\ ~Open' => GraphInv'
        /\ EdgesSound' /\ CircularExactly' /\ (phase' = "os" => edges'[User] = {})
    BY <1>1, <1>2, GraphStays
  <1>4. CASE phase = "os" /\ User \in Programs /\ ~failed
    <2>1. queue' = [queue EXCEPT ![Stage.RAW] = <<User>>] /\ phase' = "user"
      BY <1>4 DEF EndLoop
    <2>2. queue'[1] = <<User>> /\ queue'[2] = << >> /\ queue'[3] = << >>
      BY <1>1, <2>1, StageNumbers DEF Waiting, AsmInv, DriverSound
    <2>3. Current' = User /\ edges'[User] = {}
      BY <1>1, <1>4, <2>1 DEF GraphInv, Current, User
    <2>4. Range(<< >>) = {}
      BY DEF Range
    <2>. QED
      BY <1>3, <2>2, <2>3, <2>4 DEF GraphInv, Alone
  <1>5. CASE ~(phase = "os" /\ User \in Programs /\ ~failed)
    <2>1. phase' = "done"
      BY <1>5 DEF EndLoop
    <2>. QED
      BY <1>3, <2>1 DEF Open
  <1>. QED
    BY <1>4, <1>5

LEMMA GraphTokenize ==
    ASSUME AsmInv, TreeInv, GraphInv, TreeInv', Tokenize
    PROVE  GraphInv'
  <1>. DEFINE batch == Range(queue[Stage.RAW])
              bad == UNION {{Error(s, i, "token") : i \in {i \in DOMAIN sections[s].lines :
                                sections[s].lines[i].kind = "bad"}} : s \in batch}
              Now(s) == IF s \in batch
                        THEN [sections[s] EXCEPT !.lines =
                                 [i \in DOMAIN @ |-> Substituted(@[i], sections[s].args)]]
                        ELSE sections[s]
  <1>1. /\ Take(Stage.RAW) /\ Requeue(Stage.RAW, bad = {}, [u \in {Stage.TOKEN} |-> queue[Stage.RAW]])
        /\ sections' = [s \in DOMAIN sections |-> Now(s)] /\ UNCHANGED <<registry, edges>>
        /\ errors' = errors \cup bad
    BY DEF Tokenize
  <1>2. \A e \in bad : e.what # "circular"
    BY DEF Error
  <1>. HIDE DEF bad
  <1>3. /\ Open /\ request' = request /\ phase' = phase
        /\ queue[1] \in Seq(Nat) /\ queue[2] \in Seq(Nat) /\ queue[1] # << >>
    BY <1>1, Taken, StageNumbers DEF Open, Requeue, AsmInv, DriverSound
  <1>4. /\ bad # {} => Stuck'
        /\ bad = {} => /\ queue'[1] = << >> /\ queue'[2] = queue[2] \o queue[1] /\ queue'[3] = queue[3]
    <2>1. (bad = {}) \in BOOLEAN /\ 1 \in Stages /\ 2 \in Stages \ {1} /\ 3 \in Stages \ {1, 2}
      BY StageNumbers
    <2>2. Take(1) /\ Requeue(1, bad = {}, [u \in {2} |-> queue[1]])
      BY <1>1, StageNumbers
    <2>. QED
      BY <2>2, TokensForwarded
  <1>5. ASSUME NEW s \in DOMAIN sections
        PROVE  /\ sections'[s].top = sections[s].top /\ sections'[s].parent = sections[s].parent
               /\ sections'[s].name = sections[s].name /\ sections'[s].args = sections[s].args
               /\ sections'[s].ir = sections[s].ir
    <2>1. {"top", "parent", "lines", "ir", "line", "name", "args"} \subseteq DOMAIN sections[s]
      BY SectionFields
    <2>2. sections'[s] = Now(s)
      BY <1>1
    <2>3. /\ Now(s).top = sections[s].top /\ Now(s).parent = sections[s].parent
          /\ Now(s).name = sections[s].name /\ Now(s).args = sections[s].args
          /\ Now(s).ir = sections[s].ir
      <3>. HIDE DEF batch
      <3>1. CASE s \in batch
        <4>. PICK t : t = [i \in DOMAIN sections[s].lines |-> Substituted(sections[s].lines[i], sections[s].args)]
          OBVIOUS
        <4>1. Now(s) = [sections[s] EXCEPT !.lines = t]
          BY <3>1
        <4>. HIDE DEF Now
        <4>. QED
          BY <2>1, <4>1
      <3>2. CASE s \notin batch
        BY <3>2
      <3>. QED
        BY <3>1, <3>2
    <2>. HIDE DEF Now
    <2>. QED
      BY <2>2, <2>3
  <1>6. DOMAIN sections' = DOMAIN sections
    BY <1>1
  <1>. HIDE DEF Now, batch
  <1>7. /\ ~Open' => GraphInv'
        /\ EdgesSound' /\ CircularExactly' /\ (phase' = "os" => edges'[User] = {})
        /\ \A s \in DOMAIN sections : Complete(s) /\ sections'[s].lines = sections[s].lines => Complete(s)'
    BY <1>1, <1>2, <1>3, <1>5, <1>6, GraphStays
  <1>8. CASE ~Open'
    BY <1>7, <1>8
  <1>9. CASE Open'
    <2>1. bad = {}
      BY <1>4, <1>9 DEF Open
    <2>2. ASSUME NEW s \in Range(queue[3]) PROVE Complete(s)'
      <3>1. Complete(s) /\ s \in DOMAIN sections /\ Tokenized(s)
        BY <1>3 DEF GraphInv, Open, Expanding, Own, TreeInv
      <3>2. Tokenized(s)'
        BY <1>4, <1>9, <2>1 DEF TreeInv
      <3>3. Given(s)' = Given(s)
        BY <1>1, <1>3, <1>5, <3>1 DEF Given
      <3>4. sections'[s].lines = sections[s].lines
        BY <1>5, <3>1, <3>2, <3>3 DEF Tokenized
      <3>. QED
        BY <1>7, <3>1, <3>4
    <2>3. Current' = Current
      BY <1>3 DEF Current
    <2>4. Alone'
      <3>1. queue'[1] = << >> /\ queue'[2] = queue[2] \o queue[1] /\ Range(<< >>) = {}
        <4>1. Range(<< >>) = {}
          BY DEF Range
        <4>. QED
          BY <1>4, <2>1, <4>1
      <3>2. ASSUME Current \in Range(queue'[2])
            PROVE  queue'[2] = <<Current>> /\ edges[Current] = {}
        <4>1. Current \in Range(queue[1]) \cup Range(queue[2])
          <5>1. Range(queue[2] \o queue[1]) = Range(queue[2]) \cup Range(queue[1])
            BY <1>3, Joined
          <5>. QED
            BY <3>1, <3>2, <5>1
        <4>2. Current \in Range(queue[1])
          BY <1>3, <4>1 DEF GraphInv, Alone
        <4>3. queue[1] = <<Current>> /\ queue[2] = << >> /\ edges[Current] = {}
          BY <1>3, <4>2 DEF GraphInv, Alone
        <4>4. << >> \o queue[1] = queue[1]
          BY <1>3
        <4>. QED
          BY <3>1, <4>3, <4>4
      <3>. QED
        BY <1>1, <2>3, <3>1, <3>2 DEF Alone
    <2>5. queue'[3] = queue[3]
      BY <1>4, <2>1
    <2>. QED
      BY <1>7, <2>2, <2>4, <2>5 DEF GraphInv
  <1>. QED
    BY <1>8, <1>9

\* A cycle in a program's graph is a circle of its macros.
CyclesAreCircular == \A p \in {OS, User} : Cyclic(edges[p]) => p \in DOMAIN sections /\ Circular(p)

LEMMA CyclesFit == AsmInv /\ TreeInv /\ EdgesSound => CyclesAreCircular
  BY CyclicIsCircular DEF CyclesAreCircular

LEMMA NextCyclic == (AsmInv /\ TreeInv /\ EdgesSound)' => CyclesAreCircular'
  BY CyclesFit, PTL

\* Where the sections are after the preprocessor, old and new.
LEMMA NewSections ==
    ASSUME AsmInv, NEW new, NEW N, new \in Seq(N), sections' = sections \o new
    PROVE  /\ \A s \in DOMAIN sections : s \in DOMAIN sections' /\ sections'[s] = sections[s]
           /\ \A s \in DOMAIN sections' : s \in DOMAIN sections \/
                 (s > Len(sections) /\ s - Len(sections) \in DOMAIN new
                  /\ sections'[s] = new[s - Len(sections)])
           /\ DOMAIN sections = 1 .. Len(sections) /\ DOMAIN sections' \subseteq Nat
           /\ \A k \in DOMAIN new : Len(sections) + k \in DOMAIN sections'
                                    /\ Len(sections) + k \notin DOMAIN sections
                                    /\ sections'[Len(sections) + k] = new[k]
           /\ \A x \in Range(new) : \E s \in DOMAIN sections' : sections'[s] = x
  <1>1. sections \in Seq(Range(sections)) /\ DOMAIN sections = 1 .. Len(sections) /\ Len(sections) \in Nat
    BY Sequences DEF AsmInv, SectionsSound, Sequence
  <1>. DEFINE U == Range(sections) \cup N
  <1>2. sections \in Seq(U) /\ new \in Seq(U)
    BY <1>1, SeqMonotonic
  <1>. HIDE DEF U
  <1>3. /\ sections' \in Seq(U) /\ Len(sections') = Len(sections) + Len(new) /\ Len(new) \in Nat
        /\ DOMAIN new = 1 .. Len(new) /\ DOMAIN sections' = 1 .. Len(sections')
        /\ \A i \in 1 .. Len(sections) + Len(new) :
              sections'[i] = IF i <= Len(sections) THEN sections[i] ELSE new[i - Len(sections)]
    <2>1. sections' \in Seq(U) /\ Len(sections') = Len(sections) + Len(new)
          /\ \A i \in 1 .. Len(sections) + Len(new) :
                sections'[i] = IF i <= Len(sections) THEN sections[i] ELSE new[i - Len(sections)]
      BY <1>2, ConcatProperties
    <2>. QED
      BY <1>2, <2>1, LenProperties
  <1>4. \A k \in DOMAIN new : Len(sections) + k \in DOMAIN sections'
                              /\ Len(sections) + k \notin DOMAIN sections
                              /\ sections'[Len(sections) + k] = new[k]
    BY <1>1, <1>3
  <1>5. \A x \in Range(new) : \E s \in DOMAIN sections' : sections'[s] = x
    BY <1>4 DEF Range
  <1>6. \A s \in DOMAIN sections : s \in DOMAIN sections' /\ sections'[s] = sections[s]
    BY <1>1, <1>3
  <1>7. \A s \in DOMAIN sections' : s \in DOMAIN sections \/
              (s > Len(sections) /\ s - Len(sections) \in DOMAIN new
               /\ sections'[s] = new[s - Len(sections)])
    BY <1>1, <1>3
  <1>8. DOMAIN sections = 1 .. Len(sections)
    BY <1>1
  <1>9. DOMAIN sections' \subseteq Nat
    BY <1>3
  <1>. QED
    BY <1>4, <1>5, <1>6, <1>7, <1>8, <1>9

LEMMA GraphPreprocess ==
    ASSUME AsmInv, CircleInv, TreeInv, GraphInv, AsmInv', TreeInv', Preprocess
    PROVE  GraphInv'
  <1>1. PICK new, wrong, graph, opened : Opening(new, wrong, graph, opened)
    BY PreprocessOpens
  <1>2. /\ Take(2) /\ request' = request /\ registry' = registry
        /\ Range(opened) \subseteq Range(queue[2])
        /\ Range(new) = UNION {Range(Children(s)) : s \in Range(opened)}
        /\ sections' = sections \o new /\ new \in Seq(Lower)
        /\ errors' = errors \cup wrong /\ edges' = [edges EXCEPT ![Current] = graph]
        /\ graph = edges[Current] \cup UNION {Edges(s) : s \in Range(opened)}
        /\ wrong = {} => Range(opened) = Range(queue[2])
        /\ \A e \in wrong : e.what = "circular" =>
              /\ Cyclic(graph)
              /\ \E k \in DOMAIN queue[2] : /\ e.section = sections[queue[2][k]].parent
                                            /\ k = 1 => Cyclic(edges[Current])
    BY <1>1, StageNumbers DEF Opening, Preprocess, Requeue
  <1>3. Open /\ SectionsSound
    BY <1>2, Taken, StageNumbers DEF Open, AsmInv
  <1>4. /\ phase' = phase /\ Len(sections) \in Nat
        /\ wrong # {} => Stuck'
        /\ wrong = {} => /\ Range(queue'[1]) = {Len(sections) + k : k \in DOMAIN new}
                         /\ queue'[2] = << >> /\ Range(queue'[3]) = Range(queue[3]) \cup Range(queue[2])
    BY <1>1, PreprocessQueues
  <1>5. /\ \A s \in DOMAIN sections : s \in DOMAIN sections' /\ sections'[s] = sections[s]
        /\ \A s \in DOMAIN sections' : s \in DOMAIN sections \/ sections'[s] \in Range(new)
        /\ \A k \in DOMAIN new : Len(sections) + k \notin DOMAIN sections
        /\ \A x \in Range(new) : \E s \in DOMAIN sections' : sections'[s] = x
    BY <1>2, NewSections DEF Range
  <1>6. Current' = Current /\ Current \in {OS, User} /\ OS # User
        /\ (phase = "os" => Current = OS)
    BY <1>4 DEF Current, OS, User
  <1>7. DOMAIN edges = {OS, User} /\ edges'[Current] = graph /\ DOMAIN edges' = {OS, User}
        /\ \A p \in {OS, User} : p # Current => edges'[p] = edges[p]
    BY <1>2, <1>6 DEF CircleInv
  <1>8. \A s \in Range(queue[2]) : s \in DOMAIN sections /\ sections[s].top = Current /\ Tokenized(s)
    BY <1>3 DEF Open, Expanding, Own, Current, TreeInv
  <1>9. ASSUME NEW s \in Range(opened), NEW i \in Opens(s)
        PROVE  \E t \in DOMAIN sections' :
                  /\ sections'[t].parent = s /\ sections'[t].top = Current
                  /\ ClassOf(sections'[t]) = <<sections[s].lines[i].name, sections[s].lines[i].args>>
                  /\ sections'[t] = Sub(s, i) /\ sections'[t] \in Range(Children(s))
    <2>1. s \in DOMAIN sections /\ sections[s].top = Current
      BY <1>2, <1>8
    <2>2. Sub(s, i) \in Range(Children(s))
      BY <1>3, <2>1, ChildrenAre
    <2>3. PICK t \in DOMAIN sections' : sections'[t] = Sub(s, i)
      BY <1>2, <1>5, <2>2
    <2>. PICK x : x = sections'[t]
      OBVIOUS
    <2>4. /\ x.parent = s /\ x.top = Current
          /\ x.name = sections[s].lines[i].name /\ x.args = sections[s].lines[i].args
      <3>1. x = [top |-> sections[s].top, parent |-> s, line |-> i, name |-> sections[s].lines[i].name,
                 args |-> sections[s].lines[i].args,
                 lines |-> registry[sections[s].lines[i].name].lines, ir |-> << >>]
        BY <2>3 DEF Sub, Section
      <3>. QED
        BY <2>1, <3>1
    <2>. QED
      BY <2>2, <2>3, <2>4 DEF ClassOf
  <1>10. ASSUME NEW s \in Range(opened), NEW e \in Edges(s)
         PROVE  \E i \in Opens(s) :
                   e = <<ClassOf(sections[s]), <<sections[s].lines[i].name, sections[s].lines[i].args>>>>
    <2>1. s \in DOMAIN sections
      BY <1>2, <1>8
    <2>2. PICK x \in Range(Children(s)) : e = <<ClassOf(sections[s]), ClassOf(x)>>
      BY DEF Edges
    <2>3. PICK i \in Opens(s) : x = Sub(s, i)
      BY <1>3, <2>1, <2>2, ChildrenAre
    <2>4. /\ x.name = sections[s].lines[i].name /\ x.args = sections[s].lines[i].args
      <3>1. x = [top |-> sections[s].top, parent |-> s, line |-> i, name |-> sections[s].lines[i].name,
                 args |-> sections[s].lines[i].args,
                 lines |-> registry[sections[s].lines[i].name].lines, ir |-> << >>]
        BY <2>3 DEF Sub, Section
      <3>. QED
        BY <3>1
    <2>. QED
      BY <2>2, <2>4 DEF ClassOf
  <1>11. EdgesSound'
    <2>. SUFFICES ASSUME NEW p \in {OS, User}, NEW e \in edges'[p]
                  PROVE  \E c \in DOMAIN sections' :
                            /\ sections'[c].parent # 0 /\ sections'[c].top = p
                            /\ e = <<ClassOf(sections'[sections'[c].parent]), ClassOf(sections'[c])>>
      BY DEF EdgesSound, OS, User
    <2>1. CASE e \in edges[p]
      <3>1. PICK c \in DOMAIN sections : /\ sections[c].parent # 0 /\ sections[c].top = p
                                         /\ e = <<ClassOf(sections[sections[c].parent]), ClassOf(sections[c])>>
        BY <2>1 DEF GraphInv, EdgesSound
      <3>2. sections[c].parent \in DOMAIN sections
        BY <3>1 DEF TreeInv, SectionFits, ForLine
      <3>. QED
        BY <1>5, <3>1, <3>2
    <2>2. CASE e \notin edges[p]
      <3>1. p = Current /\ \E s \in Range(opened) : e \in Edges(s)
        BY <1>2, <1>7, <2>2
      <3>2. PICK s \in Range(opened) : e \in Edges(s)
        BY <3>1
      <3>3. PICK i \in Opens(s) :
                e = <<ClassOf(sections[s]), <<sections[s].lines[i].name, sections[s].lines[i].args>>>>
        BY <1>10, <3>2
      <3>4. PICK t \in DOMAIN sections' :
                  /\ sections'[t].parent = s /\ sections'[t].top = Current
                  /\ ClassOf(sections'[t]) = <<sections[s].lines[i].name, sections[s].lines[i].args>>
        BY <1>9
      <3>5. s \in DOMAIN sections /\ s # 0
        BY <1>2, <1>8, Fitting DEF TreeInv
      <3>. QED
        BY <1>5, <3>1, <3>3, <3>4, <3>5
    <2>. QED
      BY <2>1, <2>2
  <1>12. phase' = "os" => edges'[User] = {}
    BY <1>4, <1>6, <1>7 DEF GraphInv
  <1>13. ASSUME NEW s \in DOMAIN sections, s \in Range(queue[3]), wrong = {} PROVE Complete(s)'
    <2>1. Complete(s) /\ sections[s].top = Current
      BY <1>3, <1>13 DEF GraphInv, Open, Expanding, Own, Current
    <2>2. edges[Current] \subseteq edges'[Current] /\ sections'[s] = sections[s]
      BY <1>2, <1>5, <1>7
    <2>3. \A t \in DOMAIN sections : t \in DOMAIN sections' /\ sections'[t] = sections[t]
      BY <1>5
    <2>. SUFFICES ASSUME NEW c \in Invocations(sections[s].lines)
                  PROVE  /\ <<ClassOf(sections[s]), c>> \in edges'[sections[s].top]
                         /\ \E t \in DOMAIN sections' : /\ sections'[t].parent = s
                               /\ sections'[t].top = sections[s].top /\ ClassOf(sections'[t]) = c
      BY <2>2 DEF Complete
    <2>. QED
      BY <2>1, <2>2, <2>3 DEF Complete
  <1>14. ASSUME NEW s \in Range(opened) PROVE Complete(s)'
    <2>1. s \in DOMAIN sections /\ sections[s].top = Current /\ sections'[s] = sections[s]
      BY <1>2, <1>5, <1>8
    <2>. SUFFICES ASSUME NEW c \in Invocations(sections[s].lines)
                  PROVE  /\ <<ClassOf(sections[s]), c>> \in edges'[Current]
                         /\ \E t \in DOMAIN sections' : /\ sections'[t].parent = s
                               /\ sections'[t].top = Current /\ ClassOf(sections'[t]) = c
      BY <2>1 DEF Complete
    <2>2. PICK l \in Range(sections[s].lines) :
              /\ c = <<l.name, l.args>> /\ l.kind = "macro" /\ l.name \in DOMAIN CoreMacros
              /\ CoreMacros[l.name].arity = Len(l.args)
      BY DEF Invocations
    <2>3. PICK i \in DOMAIN sections[s].lines : l = sections[s].lines[i]
      BY DEF Range
    <2>4. i \in Opens(s)
      BY <2>2, <2>3 DEF Opens, Macros, Known, TreeInv, RegistryFits
    <2>5. PICK t \in DOMAIN sections' :
                  /\ sections'[t].parent = s /\ sections'[t].top = Current
                  /\ ClassOf(sections'[t]) = c
                  /\ sections'[t] \in Range(Children(s))
      BY <1>9, <2>2, <2>3, <2>4
    <2>6. <<ClassOf(sections[s]), c>> \in Edges(s)
      BY <2>5 DEF Edges
    <2>7. <<ClassOf(sections[s]), c>> \in graph
      BY <1>2, <2>6
    <2>. QED
      BY <1>7, <2>5, <2>7
  <1>15. ASSUME Open' PROVE Alone' /\ \A s \in Range(queue'[3]) : Complete(s)'
    <2>1. wrong = {}
      BY <1>4, <1>15 DEF Open
    <2>2. \A s \in Range(queue'[3]) : Complete(s)'
      <3>1. Range(queue[3]) \subseteq DOMAIN sections
        BY <1>3 DEF Open, Expanding, Own
      <3>. QED
        BY <1>2, <1>4, <1>13, <1>14, <2>1, <3>1
    <2>3. Current \in DOMAIN sections
      <3>1. queue[2] # << >> /\ queue[2] \in Seq(Nat)
        BY <1>2, Taken, StageNumbers DEF AsmInv, DriverSound
      <3>2. 1 \in DOMAIN queue[2]
        BY <3>1, EmptySeq, LenProperties
      <3>3. queue[2][1] \in Range(queue[2])
        BY <3>2 DEF Range
      <3>. QED
        BY <1>8, <3>3 DEF TreeInv, SectionFits
    <2>4. Current \notin Range(queue'[1]) /\ Current \notin Range(queue'[2])
      <3>1. Range(<< >>) = {}
        BY DEF Range
      <3>. QED
        BY <1>4, <1>5, <2>1, <2>3, <3>1
    <2>. QED
      BY <1>6, <2>2, <2>4 DEF Alone
  <1>16. CircularExactly'
    <2>1. \A s \in DOMAIN sections : Circular(sections[s].top)' <=> Circular(sections[s].top)
      BY <1>2, <1>5, CircularStays
    <2>2. ASSUME NEW e \in wrong, e.what = "circular"
          PROVE  e.section \in DOMAIN sections' /\ Circular(sections[e.section].top)'
      <3>1. Cyclic(graph)
        BY <1>2, <2>2
      <3>. HIDE DEF Cyclic
      <3>2. PICK k \in DOMAIN queue[2] : /\ e.section = sections[queue[2][k]].parent
                                         /\ k = 1 => Cyclic(edges[Current])
        BY <1>2, <2>2
      <3>. PICK s : s = queue[2][k]
        OBVIOUS
      <3>3. s \in Range(queue[2])
        BY DEF Range
      <3>4. s \in DOMAIN sections /\ sections[s].top = Current
        BY <1>8, <3>3
      <3>5. sections[s].parent # 0
        <4>. SUFFICES ASSUME sections[s].parent = 0 PROVE FALSE
          OBVIOUS
        <4>1. s = Current
          BY <3>4 DEF AsmInv, SectionsSound
        <4>2. queue[2] = <<Current>> /\ edges[Current] = {}
          BY <1>3, <3>3, <4>1 DEF GraphInv, Alone
        <4>3. k = 1
          BY <4>2
        <4>. QED
          BY <3>2, <4>2, <4>3 DEF Cyclic
      <3>6. /\ sections[s].parent \in DOMAIN sections
            /\ sections[sections[s].parent].top = Current
        BY <3>4, <3>5 DEF TreeInv, SectionFits, ForLine
      <3>. PICK q : q = sections[s].parent
        OBVIOUS
      <3>7. Circular(Current)'
        <4>1. Cyclic(edges'[Current])
          BY <1>7, <3>1
        <4>2. CyclesAreCircular'
          BY <1>11, NextCyclic
        <4>3. \A p \in {OS, User} : Cyclic(edges'[p]) => Circular(p)'
          BY <4>2 DEF CyclesAreCircular, OS, User
        <4>4. \A p \in {OS, User} : p = Current => Circular(p)'
          BY <4>1, <4>3
        <4>. QED
          BY <1>6, <4>4
      <3>8. q \in DOMAIN sections' /\ sections'[q].top = Current /\ e.section = q
        BY <1>5, <3>2, <3>6
      <3>. QED
        BY <1>6, <3>7, <3>8
    <2>3. ASSUME NEW e \in errors', e.what = "circular"
          PROVE  e.section \in DOMAIN sections' /\ Circular(sections[e.section].top)'
      <3>1. CASE e \in wrong
        BY <2>2, <2>3, <3>1
      <3>2. CASE e \in errors
        BY <1>5, <2>1, <2>3, <3>2 DEF GraphInv, CircularExactly
      <3>. QED
        BY <1>2, <3>1, <3>2
    <2>4. ASSUME NEW s \in DOMAIN sections', sections'[s].ir # << >>
          PROVE  ~Circular(sections[s].top)'
      <3>1. s \in DOMAIN sections /\ sections[s].ir # << >>
        <4>1. \A x \in Range(new) : x.ir = << >>
          <5>1. \A x \in Lower : x.ir = << >>
            BY <1>3, LowerSound
          <5>. QED
            BY <1>2, <5>1, LenProperties, ElementOfSeq DEF Range
        <4>. QED
          BY <1>5, <2>4, <4>1
      <3>. QED
        BY <2>1, <3>1 DEF GraphInv, CircularExactly
    <2>. QED
      BY <2>3, <2>4 DEF CircularExactly
  <1>. QED
    BY <1>11, <1>12, <1>15, <1>16 DEF GraphInv

\* When the parser starts, the whole program is opened up, and its graph has no cycle.
LEMMA GraphParse ==
    ASSUME AsmInv, CircleInv, TreeInv, GraphInv, TreeInv', Parse
    PROVE  GraphInv'
  <1>. DEFINE here == Range(queue[Stage.PREPROCESS])
              wrong == UNION {{Error(s, i, "parse") : i \in {i \in DOMAIN sections[s].lines :
                                  Rejected(sections[s].lines[i])}} : s \in here}
  <1>1. /\ Take(Stage.PREPROCESS) /\ request' = request /\ edges' = edges
        /\ sections' = [s \in DOMAIN sections |->
               IF s \in here THEN [sections[s] EXCEPT !.ir = Parsed(s)] ELSE sections[s]]
        /\ errors' = errors \cup wrong
    BY DEF Parse, Requeue
  <1>2. \A e \in wrong : e.what # "circular"
    BY DEF Error
  <1>. HIDE DEF wrong
  <1>3. ~Open' /\ phase' = phase
    BY NoneOpened DEF Parse, Requeue
  <1>4. Open /\ queue[1] = << >> /\ queue[2] = << >> /\ here = Range(queue[3])
    <2>1. Open
      BY <1>1, TakenOpen, StageNumbers
    <2>. QED
      BY <1>1, <2>1, Taken, StageNumbers
  <1>5. here = Own
    <2>1. Range(<< >>) = {}
      BY DEF Range
    <2>. QED
      BY <1>4, <2>1 DEF Open, Expanding
  <1>6. ~Circular(Current)
    <2>1. ~Cyclic(edges[Current])
      BY <1>4 DEF CircleInv
    <2>2. \A s \in Own : Complete(s) /\ Tokenized(s)
      BY <1>4, <1>5 DEF GraphInv, TreeInv
    <2>3. Own # {}
      BY <1>1, OwnIsSome, StageNumbers
    <2>. QED
      BY <1>4, <2>1, <2>2, <2>3, CircularIsCyclic
  <1>. HIDE DEF here
  <1>7. ASSUME NEW s \in DOMAIN sections
        PROVE  /\ sections'[s].top = sections[s].top /\ sections'[s].parent = sections[s].parent
               /\ sections'[s].name = sections[s].name /\ sections'[s].args = sections[s].args
               /\ sections'[s].ir # << >> => sections[s].ir # << >> \/ ~Circular(sections[s].top)
    <2>1. {"top", "parent", "lines", "ir", "line", "name", "args"} \subseteq DOMAIN sections[s]
      BY SectionFields
    <2>2. CASE s \in here
      <3>1. sections'[s] = [sections[s] EXCEPT !.ir = Parsed(s)]
        BY <1>1, <2>2
      <3>2. sections[s].top = Current
        BY <1>5, <2>2 DEF Own, Current
      <3>. QED
        BY <1>6, <2>1, <3>1, <3>2
    <2>3. CASE s \notin here
      BY <1>1, <2>3
    <2>. QED
      BY <2>2, <2>3
  <1>8. DOMAIN sections' = DOMAIN sections
    BY <1>1
  <1>. QED
    BY <1>1, <1>2, <1>3, <1>7, <1>8, GraphStays

LEMMA GraphCheckSanity ==
    ASSUME AsmInv, TreeInv, GraphInv, TreeInv', CheckSanity
    PROVE  GraphInv'
  <1>. DEFINE Marked(s) == [sections[s] EXCEPT !.ir = Checked(s)]
              wrong == UNION {{Error(p, i, "sanity") : i \in Insane(p)} : p \in Programs}
  <1>1. /\ UNCHANGED <<edges, request, phase>> /\ sections' = [s \in DOMAIN sections |-> Marked(s)]
        /\ errors' = errors \cup wrong
    BY DEF CheckSanity, Requeue
  <1>2. ~Open'
    BY NoneOpened
  <1>3. \A e \in wrong : e.what # "circular"
    BY DEF Error
  <1>. HIDE DEF wrong
  <1>4. ASSUME NEW s \in DOMAIN sections
        PROVE  /\ sections'[s].top = sections[s].top /\ sections'[s].parent = sections[s].parent
               /\ sections'[s].name = sections[s].name /\ sections'[s].args = sections[s].args
               /\ sections'[s].ir # << >> => sections[s].ir # << >>
    <2>1. {"top", "parent", "lines", "ir", "line", "name", "args"} \subseteq DOMAIN sections[s]
      BY SectionFields
    <2>2. /\ Marked(s).top = sections[s].top /\ Marked(s).parent = sections[s].parent
          /\ Marked(s).name = sections[s].name /\ Marked(s).args = sections[s].args
      BY <2>1
    <2>3. ASSUME sections[s].ir = << >> PROVE Marked(s).ir = << >>
      <3>1. DOMAIN sections[s].ir = {}
        BY <2>3
      <3>. QED
        BY <2>1, <2>3, <3>1 DEF Checked
    <2>4. sections'[s] = Marked(s)
      BY <1>1
    <2>. HIDE DEF Marked
    <2>. QED
      BY <2>2, <2>3, <2>4
  <1>5. DOMAIN sections' = DOMAIN sections
    BY <1>1
  <1>. HIDE DEF Marked
  <1>. QED
    BY <1>1, <1>2, <1>3, <1>4, <1>5, GraphStays

LEMMA GraphStep ==
    ASSUME AsmInv, CircleInv, TreeInv, GraphInv, AsmInv', TreeInv', [AsmNext]_asmVars
    PROVE  GraphInv'
  <1>1. CASE Tokenize
    BY <1>1, GraphTokenize
  <1>2. CASE Preprocess
    BY <1>2, GraphPreprocess
  <1>3. CASE Parse
    BY <1>3, GraphParse
  <1>4. CASE CheckSanity
    BY <1>4, GraphCheckSanity
  <1>5. CASE EndLoop
    BY <1>5, GraphEndLoop
  <1>6. CASE Ignore \/ GiveUp \/ AssignAddresses \/ PackImage \/ Finish
    <2>1. /\ UNCHANGED <<sections, edges, request>>
          /\ AssignAddresses \/ errors' = errors
      BY <1>6 DEF Ignore, GiveUp, AssignAddresses, PackImage, Finish, Requeue, text, layout
    <2>2. ~Open' /\ (phase' = phase \/ phase' = "done")
      BY <1>6, NoneOpened
    <2>3. \A e \in errors' \ errors : e.what # "circular"
      <3>1. CASE AssignAddresses
        <4>1. errors' = errors \cup UNION {LineErrors(r) : r \in UNION {Reached(p) : p \in Programs}}
          BY <3>1 DEF AssignAddresses
        <4>2. ASSUME NEW r, NEW e \in LineErrors(r) PROVE e.what # "circular"
          <5>1. PICK w : w \in {"undefined", "multiple", "overflow"}
                         /\ e = Error(r.line[1], At(sections, r.line).source, w)
            BY DEF LineErrors, BadSymbols
          <5>. QED
            BY <5>1 DEF Error
        <4>. QED
          BY <4>1, <4>2
      <3>. QED
        BY <2>1, <3>1
    <2>. QED
      BY <2>1, <2>2, <2>3, GraphStays
  <1>7. CASE UNCHANGED asmVars
    <2>1. /\ sections' = sections /\ registry' = registry /\ request' = request /\ queue' = queue
          /\ phase' = phase /\ target' = target /\ errors' = errors /\ edges' = edges
      BY <1>7 DEF asmVars, text, layout, driver
    <2>2. Open' = Open /\ Alone' = Alone
      BY <2>1 DEF Open, Stuck, Waiting, Expanding, Own, Alone, Current
    <2>3. /\ EdgesSound' /\ CircularExactly' /\ (phase' = "os" => edges'[User] = {})
          /\ \A s \in DOMAIN sections : Complete(s) => Complete(s)'
      BY <2>1, GraphStays
    <2>4. Open => \A s \in Range(queue[3]) : Complete(s)' /\ Alone
      <3>1. Open => Range(queue[3]) \subseteq DOMAIN sections
        BY DEF Open, Expanding, Own
      <3>. QED
        BY <2>3, <3>1 DEF GraphInv
    <2>. QED
      BY <2>1, <2>2, <2>3, <2>4 DEF GraphInv
  <1>. QED
    BY <1>1, <1>2, <1>3, <1>4, <1>5, <1>6, <1>7 DEF AsmNext, Returned

\* The preprocessor is right about circles, whatever the programs and macros are: what it calls
\* circular is a program where some invocation does lead back to itself, macro and arguments,
\* and no program with such an invocation is parsed, however far below its own lines that is.
THEOREM CircularAlwaysExact == AsmSpec => []CircularExactly
  <1>1. AsmInit /\ AsmInv /\ CircleInv /\ TreeInv => GraphInv
    BY GraphInit
  <1>2. AsmInv /\ CircleInv /\ TreeInv /\ GraphInv /\ AsmInv' /\ TreeInv' /\ [AsmNext]_asmVars => GraphInv'
    BY GraphStep
  <1>3. GraphInv => CircularExactly
    BY DEF GraphInv
  <1>. QED
    BY <1>1, <1>2, <1>3, TreeAlways, PTL DEF AsmSpec

-----------------------------------------------------------------------------
(* Names: what a use, a definition and an export make of entries that fit. *)

LEMMA Tables2 ==
    /\ OS = 1 /\ User = 2 /\ Other(OS) = User /\ Other(User) = OS
    /\ \A t \in {OS, User} : Other(t) \in {OS, User} /\ Other(t) # t /\ Other(Other(t)) = t /\ t # 0
                             /\ {OS, User} = {t, Other(t)}
  BY DEF OS, User, Other

LEMMA EntriesAre ==
    /\ \A s, b, v : Rec(s, b, v) \in Table(<< >>)!Entry <=>
          /\ s \in {"kUndefined", "kSingle", "kMultiple", "kExternalMultiple"}
          /\ b \in {"absent", "kLocal", "kGlobal", "kImported"} /\ v \in {OS, User, 0}
    /\ \A e \in Table(<< >>)!Entry : e = Rec(e.state, e.binding, e.value)
    /\ \A s, b, v : Rec(s, b, v).state = s /\ Rec(s, b, v).binding = b /\ Rec(s, b, v).value = v
    /\ \A s, b, v, s2 : [Rec(s, b, v) EXCEPT !.state = s2] = Rec(s2, b, v)
    /\ Table(<< >>)!Absent = Rec("kUndefined", "absent", 0)
    /\ \A s, t : Table(<< >>)!Import(s, t) = Rec(s, "kImported", t)
  <1>1. Table(<< >>)!Absent = Rec("kUndefined", "absent", 0)
    BY DEF Table!Absent, Table!Local, Rec
  <1>2. \A s, t : Table(<< >>)!Import(s, t) = Rec(s, "kImported", t)
    BY DEF Table!Import, Rec
  <1>3. \A s, b, v : Rec(s, b, v) \in Table(<< >>)!Entry <=>
          /\ s \in {"kUndefined", "kSingle", "kMultiple", "kExternalMultiple"}
          /\ b \in {"absent", "kLocal", "kGlobal", "kImported"} /\ v \in {OS, User, 0}
    BY DEF Table!Entry, Table!States, Rec
  <1>4. \A e \in Table(<< >>)!Entry : e = Rec(e.state, e.binding, e.value)
    BY DEF Table!Entry, Table!States, Rec
  <1>5. \A s, b, v, s2 : [Rec(s, b, v) EXCEPT !.state = s2] = Rec(s2, b, v)
    BY DEF Rec
  <1>7. \A s, b, v : Rec(s, b, v).state = s /\ Rec(s, b, v).binding = b /\ Rec(s, b, v).value = v
    BY DEF Rec
  <1>. QED
    BY <1>1, <1>2, <1>3, <1>4, <1>5, <1>7

LEMMA MadeGlobal ==
    ASSUME NEW e \in Table(<< >>)!Entry, NEW s \in {"kUndefined", "kSingle", "kMultiple", "kExternalMultiple"}
    PROVE  [e EXCEPT !.binding = "kGlobal", !.state = s] = Rec(s, "kGlobal", e.value)
  <1>. PICK f : f = [e EXCEPT !.binding = "kGlobal", !.state = s]
    OBVIOUS
  <1>1. f \in Table(<< >>)!Entry /\ f.state = s /\ f.binding = "kGlobal" /\ f.value = e.value
    BY DEF Table!Entry, Table!States
  <1>. QED
    BY <1>1, EntriesAre

LEMMA ReferencedHere ==
    ASSUME NEW m, m \in [{OS, User} -> Table(<< >>)!Entry], NEW t \in {OS, User}
    PROVE  /\ m[Other(t)].binding = "kGlobal" =>
                 /\ Table(m)!OtherGlobals(t) = {Other(t)}
                 /\ Table(m)!Referenced(t) = Rec(m[Other(t)].state, "kImported", Other(t))
           /\ m[Other(t)].binding # "kGlobal" =>
                 /\ Table(m)!OtherGlobals(t) = {}
                 /\ Table(m)!Referenced(t) = IF m[t] = Rec("kUndefined", "absent", 0)
                                             THEN Rec("kUndefined", "kLocal", 0) ELSE m[t]
  <1>1. Table(m)!OtherGlobals(t) = IF m[Other(t)].binding = "kGlobal" THEN {Other(t)} ELSE {}
    BY Tables2 DEF Table!OtherGlobals
  <1>2. Table(m)!Absent = Rec("kUndefined", "absent", 0) /\ Table(m)!Local("kUndefined") = Rec("kUndefined", "kLocal", 0)
        /\ \A s : \A u : Table(m)!Import(s, u) = Rec(s, "kImported", u)
    BY DEF Table!Absent, Table!Local, Table!Import, Rec
  <1>3. CASE m[Other(t)].binding = "kGlobal"
    <2>1. Table(m)!OtherGlobals(t) = {Other(t)} /\ {Other(t)} # {}
      BY <1>1, <1>3
    <2>2. (CHOOSE g \in {Other(t)} : TRUE) = Other(t)
      OBVIOUS
    <2>3. Table(m)!Referenced(t) = Table(m)!Import(m[Other(t)].state, Other(t))
      BY <2>1, <2>2, Zenon DEF Table!Referenced
    <2>. QED
      BY <1>2, <1>3, <2>1, <2>3
  <1>4. CASE m[Other(t)].binding # "kGlobal"
    <2>1. Table(m)!OtherGlobals(t) = {}
      BY <1>1, <1>4
    <2>2. Table(m)!Referenced(t) = IF m[t] = Table(m)!Absent THEN Table(m)!Local("kUndefined") ELSE m[t]
      BY <2>1, Zenon DEF Table!Referenced
    <2>. QED
      BY <1>2, <1>4, <2>1, <2>2
  <1>. QED
    BY <1>3, <1>4


LEMMA CountedMore ==
    ASSUME NEW D, NEW a, a \notin D
    PROVE  Counted(D \cup {a}) = IF Counted(D) = "kUndefined" THEN "kSingle" ELSE "kMultiple"
  <1>1. CASE D = {}
    BY <1>1 DEF Counted
  <1>2. CASE D # {}
    <2>. PICK b \in D : TRUE
      BY <1>2
    <2>1. ASSUME NEW c \in D \cup {a}, D \cup {a} = {c} PROVE FALSE
      <3>1. a = c /\ b = c
        BY <2>1
      <3>. QED
        BY <3>1
    <2>2. D \cup {a} # {} /\ ~(\E c \in D \cup {a} : D \cup {a} = {c})
      BY <2>1
    <2>3. Counted(D) # "kUndefined"
      BY <1>2 DEF Counted
    <2>. QED
      BY <2>2, <2>3 DEF Counted
  <1>. QED
    BY <1>1, <1>2

\* A use of a name.
LEMMA UsedFits ==
    ASSUME NEW m, NEW d, NEW X, Fits(m, d, X), NEW t \in {OS, User}, NEW r, r = Table(m)!Referenced(t)
    PROVE  /\ r \in Table(<< >>)!Entry /\ r.binding # "absent"
           /\ Fits([m EXCEPT ![t] = r], d, X)
  <1>. PICK o : o = Other(t)
    OBVIOUS
  <1>. PICK e, f : e = m[t] /\ f = m[o]
    OBVIOUS
  <1>. DEFINE x == t \in X
              y == o \in X
  <1>1. {OS, User} = {t, o} /\ o # t /\ Other(o) = t /\ Other(t) = o /\ o # 0 /\ o \in {OS, User}
    BY Tables2
  <1>2. /\ m \in [{OS, User} -> Table(<< >>)!Entry] /\ X \subseteq {OS, User}
        /\ e \in Table(<< >>)!Entry /\ f \in Table(<< >>)!Entry
        /\ Side(e, f, d[t], x, y, o) /\ Side(f, e, d[o], y, x, t)
    BY <1>1 DEF Fits
  <1>3. /\ f.binding = "kGlobal" => r = Rec(f.state, "kImported", o)
        /\ f.binding # "kGlobal" => r = IF e = Rec("kUndefined", "absent", 0) THEN Rec("kUndefined", "kLocal", 0) ELSE e
    BY <1>1, <1>2, ReferencedHere
  <1>4. r \in Table(<< >>)!Entry /\ r.binding # "absent"
    BY <1>1, <1>2, <1>3, EntriesAre DEF Side
  <1>5. Side(r, f, d[t], x, y, o) /\ Side(f, r, d[o], y, x, t)
    BY <1>1, <1>2, <1>3, EntriesAre DEF Side, Counted
  <1>6. Fits([m EXCEPT ![t] = r], d, X)
    <2>. PICK n : n = [m EXCEPT ![t] = r]
      OBVIOUS
    <2>1. n \in [{OS, User} -> Table(<< >>)!Entry] /\ n[t] = r /\ n[o] = f
      BY <1>1, <1>2, <1>4
    <2>. QED
      BY <1>1, <1>2, <1>5, <2>1 DEF Fits
  <1>. QED
    BY <1>4, <1>6

\* One more definition of a name.
LEMMA DefinedFits ==
    ASSUME NEW m, NEW d, NEW X, Fits(m, d, X), NEW t \in {OS, User}, NEW D, NEW a, a \notin d[t],
           d \in [{OS, User} -> D]
    PROVE  Fits(Table(m)!Defined(t, Table(m)!Referenced(t)), [d EXCEPT ![t] = d[t] \cup {a}], X)
  <1>. PICK o : o = Other(t)
    OBVIOUS
  <1>. PICK r : r = Table(m)!Referenced(t)
    OBVIOUS
  <1>. PICK e, f : e = r /\ f = m[o]
    OBVIOUS
  <1>. PICK m2 : m2 = [m EXCEPT ![t] = r]
    OBVIOUS
  <1>. DEFINE x == t \in X
              y == o \in X
              s == IF r.binding = "kImported" THEN "kExternalMultiple" ELSE Table(m)!OnceMore(r.state)
              n == Table(m)!Defined(t, r)
  <1>1. {OS, User} = {t, o} /\ o # t /\ Other(o) = t /\ Other(t) = o /\ o # 0 /\ o \in {OS, User}
    BY Tables2
  <1>2. r \in Table(<< >>)!Entry /\ r.binding # "absent" /\ Fits(m2, d, X)
    BY UsedFits
  <1>3. m \in [{OS, User} -> Table(<< >>)!Entry]
    BY DEF Fits
  <1>4. m2[t] = r /\ m2[o] = f /\ f \in Table(<< >>)!Entry
    BY <1>1, <1>3
  <1>5. Side(r, f, d[t], x, y, o) /\ Side(f, r, d[o], y, x, t) /\ X \subseteq {OS, User}
    BY <1>1, <1>2, <1>4 DEF Fits
  <1>6. s = IF r.binding = "kImported" THEN "kExternalMultiple"
            ELSE IF r.state = "kUndefined" THEN "kSingle" ELSE IF r.state = "kSingle" THEN "kMultiple" ELSE r.state
    BY DEF Table!OnceMore
  <1>7. [r EXCEPT !.state = s] = Rec(s, r.binding, r.value)
    BY <1>2, EntriesAre
  <1>8. /\ n = [u \in {OS, User} |-> IF u = t THEN [r EXCEPT !.state = s]
                  ELSE IF r.binding = "kGlobal" /\ m[u].binding = "kImported" THEN Table(m)!Import(s, t)
                  ELSE m[u]]
        /\ Table(m)!Import(s, t) = Rec(s, "kImported", t)
    BY DEF Table!Defined, Table!Import, Rec
  <1>. HIDE DEF n, s
  <1>9. /\ n[t] = Rec(s, r.binding, r.value)
        /\ n[o] = IF r.binding = "kGlobal" /\ f.binding = "kImported" THEN Rec(s, "kImported", t) ELSE f
        /\ DOMAIN n = {OS, User} /\ n = [u \in {OS, User} |-> n[u]]
    BY <1>1, <1>7, <1>8
  <1>. PICK b, v, q : b = r.binding /\ v = r.value /\ q = r.state
    OBVIOUS
  <1>10. r = Rec(q, b, v) /\ q \in {"kUndefined", "kSingle", "kMultiple", "kExternalMultiple"}
         /\ b \in {"kLocal", "kGlobal", "kImported"} /\ v \in {OS, User, 0}
    BY <1>2, EntriesAre
  <1>11. Counted(d[t] \cup {a}) = (IF Counted(d[t]) = "kUndefined" THEN "kSingle" ELSE "kMultiple")
         /\ d[t] \cup {a} # {} /\ Counted(d[t]) \in {"kUndefined", "kSingle", "kMultiple"}
    BY CountedMore DEF Counted
  <1>12. n[t] \in Table(<< >>)!Entry /\ n[o] \in Table(<< >>)!Entry
    BY <1>1, <1>4, <1>6, <1>9, <1>10, EntriesAre
  <1>13. /\ Side(n[t], n[o], d[t] \cup {a}, x, y, o)
         /\ Side(n[o], n[t], d[o], y, x, t)
    <2>1. CASE b = "kImported"
      <3>1. n[t] = Rec("kExternalMultiple", "kImported", v) /\ n[o] = f
        BY <1>6, <1>9, <1>10, <2>1
      <3>. QED
        BY <1>1, <1>4, <1>5, <1>10, <1>11, <2>1, <3>1, EntriesAre DEF Side
    <2>2. CASE b = "kLocal"
      <3>1. n[t] = Rec(s, "kLocal", v) /\ n[o] = f
        BY <1>9, <1>10, <2>2
      <3>2. CASE x \/ y
        <4>1. q = "kExternalMultiple" /\ s = "kExternalMultiple"
          BY <1>5, <1>6, <1>10, <2>2, <3>2, EntriesAre DEF Side
        <4>. QED
          BY <1>1, <1>4, <1>5, <1>10, <1>11, <2>2, <3>1, <3>2, <4>1, EntriesAre DEF Side
      <3>3. CASE ~x /\ ~y
        <4>1. q = Counted(d[t]) /\ v = 0 /\ s = Counted(d[t] \cup {a})
          BY <1>5, <1>6, <1>10, <1>11, <2>2, <3>3, EntriesAre DEF Side
        <4>. QED
          BY <1>1, <1>4, <1>5, <1>10, <2>2, <3>1, <3>3, <4>1, EntriesAre DEF Side
      <3>. QED
        BY <3>2, <3>3
    <2>3. CASE b = "kGlobal"
      <3>1. n[t] = Rec(s, "kGlobal", v) /\ n[o] = IF f.binding = "kImported" THEN Rec(s, "kImported", t) ELSE f
        BY <1>9, <1>10, <2>3
      <3>2. x
        BY <1>5, <1>10, <2>3, EntriesAre DEF Side
      <3>3. CASE y
        <4>1. q = "kExternalMultiple" /\ s = "kExternalMultiple" /\ f.state = "kExternalMultiple"
          BY <1>5, <1>6, <1>10, <2>3, <3>2, <3>3, EntriesAre DEF Side
        <4>. QED
          BY <1>1, <1>4, <1>5, <1>10, <1>11, <2>3, <3>1, <3>2, <3>3, <4>1, EntriesAre DEF Side
      <3>4. CASE ~y
        <4>1. q = Counted(d[t]) /\ v = 0 /\ s = Counted(d[t] \cup {a})
          BY <1>5, <1>6, <1>10, <1>11, <2>3, <3>2, <3>4, EntriesAre DEF Side
        <4>2. Side(n[t], n[o], d[t] \cup {a}, x, y, o)
          BY <1>10, <3>1, <3>2, <3>4, <4>1, EntriesAre DEF Side
        <4>3. Side(n[o], n[t], d[o], y, x, t)
          BY <1>1, <1>4, <1>5, <1>10, <2>3, <3>1, <3>2, <3>4, EntriesAre DEF Side
        <4>. QED
          BY <4>2, <4>3
      <3>. QED
        BY <3>3, <3>4
    <2>. QED
      BY <1>10, <2>1, <2>2, <2>3
  <1>. PICK c : c = [d EXCEPT ![t] = d[t] \cup {a}]
    OBVIOUS
  <1>14. c[t] = d[t] \cup {a} /\ c[o] = d[o]
    BY <1>1
  <1>15. n \in [{OS, User} -> Table(<< >>)!Entry]
    BY <1>1, <1>9, <1>12
  <1>. QED
    BY <1>1, <1>5, <1>13, <1>14, <1>15 DEF Fits, n

\* An export of a name.
LEMMA ExportedFits ==
    ASSUME NEW m, NEW d, NEW X, Fits(m, d, X), NEW t \in {OS, User}
    PROVE  Fits(Table(m)!Exported(t, Table(m)!Referenced(t)), d, X \cup {t})
  <1>. PICK o : o = Other(t)
    OBVIOUS
  <1>. PICK r : r = Table(m)!Referenced(t)
    OBVIOUS
  <1>. PICK f : f = m[o]
    OBVIOUS
  <1>. PICK m2 : m2 = [m EXCEPT ![t] = r]
    OBVIOUS
  <1>. DEFINE x == t \in X
              y == o \in X
              s == IF f.binding = "kGlobal" THEN "kExternalMultiple" ELSE r.state
              n == Table(m)!Exported(t, r)
  <1>1. {OS, User} = {t, o} /\ o # t /\ Other(o) = t /\ Other(t) = o /\ o # 0 /\ o \in {OS, User}
    BY Tables2
  <1>2. r \in Table(<< >>)!Entry /\ r.binding # "absent" /\ Fits(m2, d, X)
    BY UsedFits
  <1>3. m \in [{OS, User} -> Table(<< >>)!Entry]
    BY DEF Fits
  <1>4. m2[t] = r /\ m2[o] = f /\ f \in Table(<< >>)!Entry
    BY <1>1, <1>3
  <1>5. Side(r, f, d[t], x, y, o) /\ Side(f, r, d[o], y, x, t) /\ X \subseteq {OS, User}
    BY <1>1, <1>2, <1>4 DEF Fits
  <1>6. Table(m)!OtherGlobals(t) = IF f.binding = "kGlobal" THEN {o} ELSE {}
    BY <1>3, ReferencedHere
  <1>7. /\ [r EXCEPT !.binding = "kGlobal", !.state = s] = Rec(s, "kGlobal", r.value)
        /\ s \in {"kUndefined", "kSingle", "kMultiple", "kExternalMultiple"}
    <2>1. r.state \in {"kUndefined", "kSingle", "kMultiple", "kExternalMultiple"}
      BY <1>2, EntriesAre
    <2>2. s \in {"kUndefined", "kSingle", "kMultiple", "kExternalMultiple"}
      BY <2>1
    <2>. HIDE DEF s
    <2>. QED
      BY <1>2, <2>2, MadeGlobal
  <1>8. (Table(m)!OtherGlobals(t) # {}) <=> f.binding = "kGlobal"
    BY <1>6
  <1>9. /\ n[t] = [r EXCEPT !.binding = "kGlobal", !.state = s]
        /\ n[o] = IF f.binding = "kGlobal" THEN [f EXCEPT !.state = "kExternalMultiple"]
                  ELSE IF f.binding = "kLocal" THEN Table(m)!Import(s, t) ELSE f
        /\ n = [u \in {OS, User} |-> n[u]]
    BY <1>1, <1>6, <1>8 DEF Table!Exported
  <1>10. /\ [f EXCEPT !.state = "kExternalMultiple"] = Rec("kExternalMultiple", f.binding, f.value)
         /\ Table(m)!Import(s, t) = Rec(s, "kImported", t)
    <2>1. Table(m)!Import(s, t) = Rec(s, "kImported", t)
      BY DEF Table!Import, Rec
    <2>. QED
      BY <1>4, <2>1, EntriesAre
  <1>. HIDE DEF n, s
  <1>11. /\ n[t] = Rec(s, "kGlobal", r.value)
         /\ n[o] = IF f.binding = "kGlobal" THEN Rec("kExternalMultiple", f.binding, f.value)
                   ELSE IF f.binding = "kLocal" THEN Rec(s, "kImported", t) ELSE f
    BY <1>7, <1>9, <1>10
  <1>12. n[t] \in Table(<< >>)!Entry /\ n[o] \in Table(<< >>)!Entry
    BY <1>1, <1>2, <1>4, <1>7, <1>11, EntriesAre
  <1>13. Side(n[t], n[o], d[t], TRUE, y, o) /\ Side(n[o], n[t], d[o], y, TRUE, t)
    BY <1>1, <1>2, <1>4, <1>5, <1>11, EntriesAre DEF Side, s
  <1>14. t \in X \cup {t} /\ ((o \in X \cup {t}) <=> y) /\ X \cup {t} \subseteq {OS, User}
    BY <1>1, <1>5
  <1>15. n \in [{OS, User} -> Table(<< >>)!Entry]
    BY <1>1, <1>9, <1>12
  <1>16. Side(n[t], n[o], d[t], t \in X \cup {t}, o \in X \cup {t}, o) /\ Side(n[o], n[t], d[o], o \in X \cup {t}, t \in X \cup {t}, t)
    BY <1>13, <1>14 DEF Side
  <1>. QED
    BY <1>1, <1>14, <1>15, <1>16 DEF Fits, n

-----------------------------------------------------------------------------
(* A line, and a text, entered into the symbols. *)

\* The greatest of numbers up to n.
LEMMA MaxIs ==
    ASSUME NEW i \in Nat, NEW s \in SUBSET (1 .. i), i \in s
    PROVE  Max(s) = i
  <1>1. \A y \in s : i >= y
    OBVIOUS
  <1>2. \A y \in s : y \in Nat
    OBVIOUS
  <1>3. Max(s) \in s /\ \A y \in s : Max(s) >= y
    BY <1>1, Zenon DEF Max
  <1>4. Max(s) >= i /\ i >= Max(s) /\ Max(s) \in Nat
    BY <1>1, <1>2, <1>3
  <1>. QED
    BY <1>4

\* The symbols are entered line by line.
LEMMA EnteredSteps ==
    ASSUME NEW lines, NEW n \in Nat, DOMAIN lines = 1 .. n, NEW t, NEW sy
    PROVE  \E F : /\ F[0] = sy /\ EnteredText(sy, lines, t) = F[n]
                  /\ \A i \in 1 .. n : F[i] = Entered(F[i - 1], lines[i], t)
  <1>. DEFINE next(g, s) == IF s = {} THEN sy ELSE Entered(g[s \ {Max(s)}], lines[Max(s)], t)
              Is(g) == g = [s \in SUBSET (1 .. n) |-> next(g, s)]
              It == CHOOSE g : Is(g)
              G == {k \in 0 .. n : \E g : g = [s \in SUBSET (1 .. k) |-> next(g, s)]}
  <1>1. EnteredText(sy, lines, t) = It[1 .. n]
    BY DEF EnteredText, FoldLeft, MapThenFoldSet
  <1>2. 0 \in G
    <2>. DEFINE g == [s \in SUBSET (1 .. 0) |-> sy]
    <2>1. \A s \in SUBSET (1 .. 0) : s = {}
      OBVIOUS
    <2>2. \A s \in SUBSET (1 .. 0) : next(g, s) = sy
      BY <2>1
    <2>. HIDE DEF next
    <2>3. g = [s \in SUBSET (1 .. 0) |-> next(g, s)]
      BY <2>2
    <2>4. 0 \in 0 .. n
      OBVIOUS
    <2>. HIDE DEF g
    <2>. QED
      BY <2>3, <2>4
  <1>3. ASSUME NEW i \in 1 .. n, i - 1 \in G PROVE i \in G
    <2>1. PICK g : g = [s \in SUBSET (1 .. i - 1) |-> next(g, s)]
      BY <1>3
    <2>. DEFINE h == [s \in SUBSET (1 .. i) |-> IF i \in s THEN Entered(g[s \ {i}], lines[i], t) ELSE g[s]]
    <2>2. ASSUME NEW s \in SUBSET (1 .. i) PROVE h[s] = next(h, s)
      <3>1. CASE i \in s
        <4>1. Max(s) = i /\ s # {}
          BY <3>1, MaxIs
        <4>2. s \ {i} \in SUBSET (1 .. i) /\ i \notin s \ {i}
          OBVIOUS
        <4>3. h[s \ {i}] = g[s \ {i}] /\ h[s] = Entered(g[s \ {i}], lines[i], t)
          BY <3>1, <4>2
        <4>. HIDE DEF h
        <4>4. next(h, s) = Entered(h[s \ {i}], lines[i], t)
          BY <4>1
        <4>. QED
          BY <4>3, <4>4
      <3>2. CASE i \notin s
        <4>1. s \in SUBSET (1 .. i - 1)
          BY <3>2
        <4>2. g[s] = next(g, s) /\ h[s] = g[s]
          <5>. HIDE DEF next
          <5>. QED
            BY <2>1, <3>2, <4>1
        <4>3. h[s \ {Max(s)}] = g[s \ {Max(s)}]
          <5>. PICK r : r = s \ {Max(s)}
            OBVIOUS
          <5>1. r \in SUBSET (1 .. i) /\ i \notin r
            BY <3>2
          <5>. QED
            BY <5>1
        <4>. HIDE DEF h
        <4>4. next(h, s) = next(g, s)
          BY <4>3
        <4>. QED
          BY <4>2, <4>4
      <3>. QED
        BY <3>1, <3>2
    <2>3. h = [s \in SUBSET (1 .. i) |-> next(h, s)]
      <3>1. h = [s \in SUBSET (1 .. i) |-> h[s]]
        OBVIOUS
      <3>. HIDE DEF h, next
      <3>. QED
        BY <2>2, <3>1
    <2>. HIDE DEF h, next
    <2>. QED
      BY <2>3
  <1>4. \E g : Is(g)
    <2>1. 0 .. n \subseteq G
      <3>. HIDE DEF G
      <3>. QED
        BY <1>2, <1>3, Upwards, Zenon
    <2>2. n \in 0 .. n
      OBVIOUS
    <2>. HIDE DEF next
    <2>. QED
      BY <2>1, <2>2
  <1>5. Is(It)
    <2>. HIDE DEF Is
    <2>. QED
      BY <1>4
  <1>. HIDE DEF It
  <1>6. \A s \in SUBSET (1 .. n) : It[s] = next(It, s)
    <2>. HIDE DEF next
    <2>. QED
      BY <1>5
  <1>. DEFINE F == [i \in 0 .. n |-> It[1 .. i]]
  <1>7. F[0] = sy
    <2>1. (1 .. 0) = {} /\ (1 .. 0) \in SUBSET (1 .. n) /\ 0 \in 0 .. n
      OBVIOUS
    <2>2. It[1 .. 0] = sy
      BY <1>6, <2>1
    <2>. QED
      BY <2>1, <2>2
  <1>8. F[n] = It[1 .. n]
    OBVIOUS
  <1>9. ASSUME NEW i \in 1 .. n PROVE F[i] = Entered(F[i - 1], lines[i], t)
    <2>1. (1 .. i) \in SUBSET (1 .. n) /\ (1 .. i) # {} /\ (1 .. i) \ {i} = 1 .. (i - 1) /\ i \in 1 .. i
      <3>1. i \in 1 .. i /\ \A j \in 1 .. i : j \in 1 .. n
        OBVIOUS
      <3>2. (1 .. i) \ {i} = 1 .. (i - 1)
        OBVIOUS
      <3>. QED
        BY <3>1, <3>2
    <2>2. Max(1 .. i) = i
      BY <2>1, MaxIs
    <2>3. It[1 .. i] = Entered(It[1 .. (i - 1)], lines[i], t)
      BY <1>6, <2>1, <2>2
    <2>4. i \in 0 .. n /\ i - 1 \in 0 .. n
      OBVIOUS
    <2>5. F[i] = It[1 .. i] /\ F[i - 1] = It[1 .. (i - 1)]
      BY <2>4
    <2>. HIDE DEF F
    <2>. QED
      BY <2>3, <2>5
  <1>. HIDE DEF F
  <1>. QED
    BY <1>1, <1>7, <1>8, <1>9


\* The places where program t defines a name once it does so at a.
With(d, t, a) == [d EXCEPT ![t] = d[t] \cup {a}]

\* What a line of program t at a makes of the places d of name x, and of its exporters X.
Placed(d, X, line, x, t, a) == IF line.label = x THEN With(d, t, a) ELSE d
Marked(d, X, line, x, t, a) == IF line.kind = "export" /\ line.name = x THEN X \cup {t} ELSE X

\* What a line does to the entries of one name.
LEMMA EnteredIs ==
    ASSUME NEW sy, DOMAIN sy = Names, NEW x \in Names, NEW line, NEW t
    PROVE  LET m1 == IF line.label = x THEN Table(sy[x])!Defined(t, Table(sy[x])!Referenced(t)) ELSE sy[x]
               m2 == IF line.name = x /\ line.kind \in Referring THEN [m1 EXCEPT ![t] = Table(m1)!Referenced(t)] ELSE m1
               m3 == IF line.name = x /\ line.kind = "export" THEN Table(m2)!Exported(t, Table(m2)!Referenced(t)) ELSE m2
           IN  DOMAIN Entered(sy, line, t) = Names /\ Entered(sy, line, t)[x] = m3
  <1>. DEFINE D(m) == Table(m)!Defined(t, Table(m)!Referenced(t))
              U(m) == [m EXCEPT ![t] = Table(m)!Referenced(t)]
              E(m) == Table(m)!Exported(t, Table(m)!Referenced(t))
              s1 == IF line.label = "" THEN sy ELSE [sy EXCEPT ![line.label] = D(sy[line.label])]
              s2 == IF line.name = "" \/ line.kind \notin Referring THEN s1 ELSE [s1 EXCEPT ![line.name] = U(s1[line.name])]
              s3 == IF line.kind # "export" THEN s2 ELSE [s2 EXCEPT ![line.name] = E(s2[line.name])]
  <1>1. Entered(sy, line, t) = s3
    BY DEF Entered, Used
  <1>. HIDE DEF D, U, E
  <1>2. x # ""
    BY AssemblerAssumption
  <1>3. DOMAIN s1 = Names /\ s1[x] = IF line.label = x THEN D(sy[x]) ELSE sy[x]
    BY <1>2
  <1>. HIDE DEF s1
  <1>4. DOMAIN s2 = Names /\ s2[x] = IF line.name = x /\ line.kind \in Referring THEN U(s1[x]) ELSE s1[x]
    BY <1>2, <1>3
  <1>. HIDE DEF s2
  <1>5. DOMAIN s3 = Names /\ s3[x] = IF line.name = x /\ line.kind = "export" THEN E(s2[x]) ELSE s2[x]
    BY <1>2, <1>4
  <1>. HIDE DEF s3
  <1>. QED
    BY <1>1, <1>3, <1>4, <1>5 DEF D, U, E

\* A line of program t at a keeps the entries of a name fitting.
LEMMA EnteredFits ==
    ASSUME NEW sy, DOMAIN sy = Names, NEW x \in Names, NEW line, NEW t \in {OS, User},
           NEW d, NEW X, Fits(sy[x], d, X), NEW L, d \in [{OS, User} -> L], NEW a, a \notin d[t]
    PROVE  /\ DOMAIN Entered(sy, line, t) = Names
           /\ Fits(Entered(sy, line, t)[x], Placed(d, X, line, x, t, a), Marked(d, X, line, x, t, a))
  <1>. DEFINE D(m) == Table(m)!Defined(t, Table(m)!Referenced(t))
              U(m) == [m EXCEPT ![t] = Table(m)!Referenced(t)]
              E(m) == Table(m)!Exported(t, Table(m)!Referenced(t))
              m1 == IF line.label = x THEN D(sy[x]) ELSE sy[x]
              m2 == IF line.name = x /\ line.kind \in Referring THEN U(m1) ELSE m1
              m3 == IF line.name = x /\ line.kind = "export" THEN E(m2) ELSE m2
              d1 == IF line.label = x THEN With(d, t, a) ELSE d
  <1>1. DOMAIN Entered(sy, line, t) = Names /\ Entered(sy, line, t)[x] = m3
    BY EnteredIs
  <1>2. Fits(D(sy[x]), With(d, t, a), X)
    BY DefinedFits DEF With
  <1>3. \A m, c : Fits(m, c, X) => Fits(U(m), c, X) /\ Fits(E(m), c, X \cup {t})
    BY UsedFits, ExportedFits
  <1>. HIDE DEF D, U, E
  <1>4. Fits(m1, d1, X)
    BY <1>2
  <1>. HIDE DEF m1, d1
  <1>5. Fits(m2, d1, X)
    BY <1>3, <1>4
  <1>. HIDE DEF m2
  <1>6. Fits(m3, d1, IF line.kind = "export" /\ line.name = x THEN X \cup {t} ELSE X)
    BY <1>3, <1>5
  <1>. HIDE DEF m3
  <1>. QED
    BY <1>1, <1>6 DEF d1, Placed, Marked

\* The same for n lines at the places pos.
Defining(lines, n, pos, x) == {pos[i] : i \in {i \in 1 .. n : lines[i].label = x}}
Exporting(lines, n, x, t) == {u \in {t} : \E i \in 1 .. n : lines[i].kind = "export" /\ lines[i].name = x}
WithAll(d, t, P) == [d EXCEPT ![t] = d[t] \cup P]

\* Lines of program t are at places pos, different ones, that are not yet among those in d.
Fresh(t, L, d, lines, n, pos) ==
    /\ d \in [{OS, User} -> SUBSET L] /\ n \in Nat /\ DOMAIN lines = 1 .. n
    /\ \A i \in 1 .. n : pos[i] \in L /\ pos[i] \notin d[t]
    /\ \A i, j \in 1 .. n : pos[i] = pos[j] => i = j

\* It is entered into tables that fit what is at the places d and exported by X.
Entering(sy, x, t, L, d, X, lines, n, pos) ==
    DOMAIN sy = Names /\ x \in Names /\ t \in {OS, User} /\ Fits(sy[x], d, X) /\ Fresh(t, L, d, lines, n, pos)

\* A text of program t, whose lines are at the places pos.
LEMMA TextFits ==
    ASSUME NEW sy, NEW x, NEW t, NEW L, NEW d, NEW X, NEW lines, NEW n, NEW pos,
           Entering(sy, x, t, L, d, X, lines, n, pos)
    PROVE  /\ DOMAIN EnteredText(sy, lines, t) = Names
           /\ Fits(EnteredText(sy, lines, t)[x], WithAll(d, t, Defining(lines, n, pos, x)),
                   X \cup Exporting(lines, n, x, t))
  <1>00. DOMAIN sy = Names /\ x \in Names /\ t \in {OS, User} /\ Fits(sy[x], d, X) /\ Fresh(t, L, d, lines, n, pos)
    BY DEF Entering
  <1>0. /\ d \in [{OS, User} -> SUBSET L] /\ n \in Nat /\ DOMAIN lines = 1 .. n
        /\ \A i \in 1 .. n : pos[i] \in L /\ pos[i] \notin d[t]
        /\ \A i, j \in 1 .. n : pos[i] = pos[j] => i = j
    BY <1>00 DEF Fresh
  <1>1. PICK F : /\ F[0] = sy /\ EnteredText(sy, lines, t) = F[n]
                 /\ \A i \in 1 .. n : F[i] = Entered(F[i - 1], lines[i], t)
    <2>1. n \in Nat /\ DOMAIN lines = 1 .. n
      BY <1>0
    <2>. QED
      BY <2>1, EnteredSteps
  <1>. USE <1>00, <1>0
  <1>. DEFINE all == EnteredText(sy, lines, t)
              P(k) == {pos[i] : i \in {i \in 1 .. k : lines[i].label = x}}
              c(k) == [d EXCEPT ![t] = d[t] \cup P(k)]
              Y(k) == X \cup {u \in {t} : \E i \in 1 .. k : lines[i].kind = "export" /\ lines[i].name = x}
  <1>. DEFINE G == {k \in 0 .. n : DOMAIN F[k] = Names /\ Fits(F[k][x], c(k), Y(k))}
  <1>. HIDE DEF all
  <1>2. 0 \in G
    <2>1. P(0) = {} /\ Y(0) = X
      OBVIOUS
    <2>2. c(0) = d
      <3>. HIDE DEF P
      <3>. QED
        BY <2>1
    <2>. HIDE DEF c, Y, P
    <2>. QED
      BY <1>1, <2>1, <2>2
  <1>3. ASSUME NEW i \in 1 .. n, i - 1 \in G PROVE i \in G
    <2>. DEFINE line == lines[i]
                a == pos[i]
    <2>1. P(i) = IF line.label = x THEN P(i - 1) \cup {a} ELSE P(i - 1)
      OBVIOUS
    <2>2. Y(i) = IF line.kind = "export" /\ line.name = x THEN Y(i - 1) \cup {t} ELSE Y(i - 1)
      OBVIOUS
    <2>3. a \notin P(i - 1) /\ a \notin d[t]
      OBVIOUS
    <2>4. P(i - 1) \in SUBSET L
      OBVIOUS
    <2>. HIDE DEF P, Y
    <2>5. c(i - 1) \in [{OS, User} -> SUBSET L] /\ c(i - 1)[t] = d[t] \cup P(i - 1)
      BY <2>4
    <2>6. c(i) = IF line.label = x THEN With(c(i - 1), t, a) ELSE c(i - 1)
      BY <2>1, <2>5 DEF With
    <2>. HIDE DEF c
    <2>7. DOMAIN F[i - 1] = Names /\ Fits(F[i - 1][x], c(i - 1), Y(i - 1))
      BY <1>3
    <2>8. DOMAIN F[i] = Names /\ Fits(F[i][x], c(i), Y(i))
      <3>1. F[i] = Entered(F[i - 1], line, t)
        BY <1>1
      <3>2. a \notin c(i - 1)[t]
        BY <2>3, <2>5
      <3>. PICK e, Z, b : e = c(i - 1) /\ Z = Y(i - 1) /\ b = a
        OBVIOUS
      <3>. PICK g : g = F[i - 1]
        OBVIOUS
      <3>3. e \in [{OS, User} -> SUBSET L] /\ b \notin e[t] /\ DOMAIN g = Names /\ Fits(g[x], e, Z)
        BY <2>5, <2>7, <3>2
      <3>4. /\ DOMAIN Entered(g, line, t) = Names
            /\ Fits(Entered(g, line, t)[x], Placed(e, Z, line, x, t, b), Marked(e, Z, line, x, t, b))
        <4>. HIDE DEF line, a
        <4>. QED
          BY <3>3, EnteredFits
      <3>5. c(i) = Placed(e, Z, line, x, t, b) /\ Y(i) = Marked(e, Z, line, x, t, b)
        BY <2>2, <2>6 DEF Placed, Marked
      <3>. HIDE DEF line, a
      <3>. QED
        BY <3>1, <3>4, <3>5
    <2>. QED
      BY <2>8
  <1>4. n \in G
    <2>. HIDE DEF G
    <2>1. 0 .. n \subseteq G
      BY <1>2, <1>3, Upwards, Zenon
    <2>. QED
      BY <2>1
  <1>. QED
    BY <1>1, <1>4 DEF all, WithAll, Defining, Exporting

-----------------------------------------------------------------------------
(* Where the lines of a sequence of texts end up when the texts are joined. *)

\* The elements of sequences that follow one another, x, have the places pos: the place <<i, j>>
\* is that of element j of sequence i.
Placing(x, ss, pos) ==
    /\ \A k \in 1 .. Len(x) : /\ pos[k] \in Nat \X Nat
                              /\ pos[k][1] \in DOMAIN ss /\ pos[k][2] \in DOMAIN ss[pos[k][1]]
                              /\ x[k] = ss[pos[k][1]][pos[k][2]]
    /\ \A k, l \in 1 .. Len(x) : pos[k] = pos[l] => k = l
    /\ \A i \in DOMAIN ss : \A j \in DOMAIN ss[i] : \E k \in 1 .. Len(x) : pos[k] = <<i, j>>

LEMMA FlattenedPlaces ==
    ASSUME NEW S, NEW ss \in Seq(Seq(S))
    PROVE  \E pos : Placing(FlattenSeq(ss), ss, pos)
  <1>. DEFINE n == Len(ss)
              Up(i) == [j \in 1 .. i |-> ss[j]]
  <1>1. n \in Nat /\ DOMAIN ss = 1 .. n /\ \A i \in 1 .. n : ss[i] \in Seq(S)
    BY LenProperties, ElementOfSeq
  <1>2. CASE n = 0
    <2>1. FlattenSeq(ss) = << >> /\ DOMAIN ss = {}
      <3>1. FlattenSeq(ss) = << >>
        BY <1>2, Flattened
      <3>. QED
        BY <1>1, <1>2, <3>1
    <2>2. Placing(<< >>, ss, << >>)
      BY <2>1 DEF Placing
    <2>. QED
      BY <2>1, <2>2
  <1>3. CASE n # 0
    <2>1. PICK L \in [1 .. n -> Seq(S)] :
             /\ FlattenSeq(ss) = L[n] /\ L[1] = ss[1]
             /\ \A i \in 2 .. n : L[i] = L[i - 1] \o ss[i]
      BY <1>3, FlattenedSteps
    <2>. DEFINE G == {i \in 0 .. n : i = 0 \/ \E pos : Placing(L[i], Up(i), pos)}
    <2>2. 0 \in G
      BY <1>1
    <2>3. ASSUME NEW i \in 1 .. n, i - 1 \in G PROVE i \in G
      <3>. HIDE DEF n
      <3>. DEFINE y == ss[i]
      <3>1. y \in Seq(S) /\ Len(y) \in Nat /\ DOMAIN y = 1 .. Len(y) /\ L[i] \in Seq(S) /\ i \in Nat
        BY <1>1, LenProperties
      <3>2. DOMAIN Up(i) = 1 .. i /\ Up(i)[i] = y
        BY <3>1
      <3>3. CASE i = 1
        <4>. DEFINE pos == [k \in 1 .. Len(y) |-> <<1, k>>]
        <4>1. L[i] = y
          BY <2>1, <3>3
        <4>2. \A k \in 1 .. Len(y) : pos[k] = <<1, k>> /\ pos[k] \in Nat \X Nat /\ pos[k][1] = 1 /\ pos[k][2] = k
          BY <3>1
        <4>. HIDE DEF pos, Up, y
        <4>3. DOMAIN Up(i) = {1} /\ Up(i)[1] = y
          BY <3>2, <3>3
        <4>4. Placing(y, Up(i), pos)
          <5>1. \A k, l \in 1 .. Len(y) : pos[k] = pos[l] => k = l
            BY <4>2
          <5>2. \A k \in 1 .. Len(y) : /\ pos[k] \in Nat \X Nat
                              /\ pos[k][1] \in DOMAIN Up(i) /\ pos[k][2] \in DOMAIN Up(i)[pos[k][1]]
                              /\ y[k] = Up(i)[pos[k][1]][pos[k][2]]
            BY <3>1, <4>2, <4>3
          <5>3. \A a \in DOMAIN Up(i) : \A j \in DOMAIN Up(i)[a] : \E k \in 1 .. Len(y) : pos[k] = <<a, j>>
            BY <3>1, <4>2, <4>3
          <5>. QED
            BY <5>1, <5>2, <5>3 DEF Placing
        <4>. QED
          BY <4>1, <4>4
      <3>4. CASE i # 1
        <4>. DEFINE x == L[i - 1]
                    m == Len(x)
        <4>1. i \in 2 .. n /\ i - 1 \in 1 .. n /\ i - 1 # 0
          BY <1>1, <3>4
        <4>2. x \in Seq(S) /\ m \in Nat /\ L[i] = x \o y
          BY <2>1, <4>1, LenProperties
        <4>3. PICK q : Placing(x, Up(i - 1), q)
          BY <2>3, <4>1
        <4>. DEFINE pos == [k \in 1 .. m + Len(y) |-> IF k <= m THEN q[k] ELSE <<i, k - m>>]
        <4>4. /\ Len(x \o y) = m + Len(y)
              /\ \A k \in 1 .. m + Len(y) : (x \o y)[k] = IF k <= m THEN x[k] ELSE y[k - m]
          BY <3>1, <4>2, ConcatProperties
        <4>5. DOMAIN Up(i - 1) = 1 .. i - 1 /\ \A a \in 1 .. i - 1 : Up(i)[a] = Up(i - 1)[a]
          BY <3>1
        <4>. HIDE DEF Up, y, x, m
        <4>6. /\ \A k \in 1 .. m : /\ q[k] \in Nat \X Nat /\ q[k][1] \in 1 .. i - 1 /\ q[k][2] \in DOMAIN Up(i)[q[k][1]]
                                   /\ x[k] = Up(i)[q[k][1]][q[k][2]]
              /\ \A k, l \in 1 .. m : q[k] = q[l] => k = l
              /\ \A a \in 1 .. i - 1 : \A j \in DOMAIN Up(i)[a] : \E k \in 1 .. m : q[k] = <<a, j>>
          BY <4>3, <4>5 DEF Placing, m
        <4>7. \A k \in 1 .. m + Len(y) : /\ k <= m => k \in 1 .. m /\ pos[k] = q[k]
                                         /\ ~(k <= m) => /\ k - m \in 1 .. Len(y) /\ pos[k] = <<i, k - m>>
                                                         /\ pos[k] \in Nat \X Nat /\ pos[k][1] = i /\ pos[k][2] = k - m
          BY <3>1, <4>2
        <4>. HIDE DEF pos
        <4>8. \A k \in 1 .. m + Len(y) : /\ pos[k] \in Nat \X Nat
                                         /\ pos[k][1] \in DOMAIN Up(i) /\ pos[k][2] \in DOMAIN Up(i)[pos[k][1]]
                                         /\ (x \o y)[k] = Up(i)[pos[k][1]][pos[k][2]]
          <5>. TAKE k \in 1 .. m + Len(y)
          <5>1. CASE k <= m
            <6>1. k \in 1 .. m /\ pos[k] = q[k] /\ (x \o y)[k] = x[k]
              BY <4>4, <4>7, <5>1
            <6>2. q[k][1] \in 1 .. i
              BY <4>6, <6>1
            <6>. QED
              BY <3>2, <4>6, <6>1, <6>2
          <5>2. CASE ~(k <= m)
            <6>1. (x \o y)[k] = y[k - m]
              BY <4>4, <5>2
            <6>2. i \in 1 .. i
              BY <3>1
            <6>. QED
              BY <3>1, <3>2, <4>7, <5>2, <6>1, <6>2
          <5>. QED
            BY <5>1, <5>2
        <4>9. ASSUME NEW k \in 1 .. m + Len(y), NEW l \in 1 .. m + Len(y), pos[k] = pos[l] PROVE k = l
          <5>1. CASE k <= m /\ l <= m
            BY <4>6, <4>7, <4>9, <5>1
          <5>2. CASE ~(k <= m) /\ ~(l <= m)
            <6>1. k - m = l - m
              BY <4>7, <4>9, <5>2
            <6>. QED
              BY <3>1, <4>2, <6>1
          <5>3. ASSUME NEW a \in 1 .. m + Len(y), NEW b \in 1 .. m + Len(y), a <= m, ~(b <= m), pos[a] = pos[b] PROVE FALSE
            <6>1. q[a][1] \in 1 .. i - 1 /\ pos[a] = q[a] /\ pos[b][1] = i
              BY <4>6, <4>7, <5>3
            <6>. QED
              BY <3>1, <5>3, <6>1
          <5>. QED
            BY <4>9, <5>1, <5>2, <5>3
        <4>10. ASSUME NEW a \in DOMAIN Up(i), NEW j \in DOMAIN Up(i)[a]
               PROVE  \E k \in 1 .. m + Len(y) : pos[k] = <<a, j>>
          <5>1. CASE a = i
            <6>1. j \in 1 .. Len(y)
              BY <3>1, <3>2, <5>1
            <6>2. m + j \in 1 .. m + Len(y) /\ ~(m + j <= m) /\ (m + j) - m = j
              BY <3>1, <4>2, <6>1
            <6>. QED
              BY <4>7, <5>1, <6>2
          <5>2. CASE a # i
            <6>1. a \in 1 .. i - 1
              BY <3>1, <3>2, <5>2
            <6>2. PICK k \in 1 .. m : q[k] = <<a, j>>
              BY <4>6, <6>1
            <6>3. k \in 1 .. m + Len(y) /\ k <= m
              BY <3>1, <4>2
            <6>. QED
              BY <4>7, <6>2, <6>3
          <5>. QED
            BY <5>1, <5>2
        <4>11. Placing(x \o y, Up(i), pos)
          <5>. PICK z : z = x \o y
            OBVIOUS
          <5>1. Len(z) = m + Len(y)
            BY <4>4
          <5>2. \A k \in 1 .. Len(z) : /\ pos[k] \in Nat \X Nat
                                      /\ pos[k][1] \in DOMAIN Up(i) /\ pos[k][2] \in DOMAIN Up(i)[pos[k][1]]
                                      /\ z[k] = Up(i)[pos[k][1]][pos[k][2]]
            BY <4>8, <5>1
          <5>3. \A k, l \in 1 .. Len(z) : pos[k] = pos[l] => k = l
            BY <4>9, <5>1
          <5>4. \A a \in DOMAIN Up(i) : \A j \in DOMAIN Up(i)[a] : \E k \in 1 .. Len(z) : pos[k] = <<a, j>>
            BY <4>10, <5>1
          <5>5. Placing(z, Up(i), pos)
            BY <5>2, <5>3, <5>4 DEF Placing
          <5>. QED
            BY <5>5
        <4>12. i \in 0 .. n /\ \E q2 : Placing(L[i], Up(i), q2)
          BY <1>1, <4>2, <4>11
        <4>. QED
          BY <4>12
      <3>. QED
        BY <3>3, <3>4
    <2>4. n \in G
      <3>1. 0 .. n \subseteq G
        <4>. HIDE DEF G
        <4>. QED
          BY <1>1, <2>2, <2>3, Upwards, Zenon
      <3>2. n \in 0 .. n
        BY <1>1
      <3>. HIDE DEF G
      <3>. QED
        BY <3>1, <3>2
    <2>5. Up(n) = ss
      BY <1>1
    <2>. QED
      BY <1>3, <2>1, <2>4, <2>5
  <1>. QED
    BY <1>2, <1>3

\* Sequences of one element each.
LEMMA FlattenedSingles ==
    ASSUME NEW S, NEW f \in Seq(S)
    PROVE  FlattenSeq([i \in DOMAIN f |-> <<f[i]>>]) = f
  <1>. DEFINE n == Len(f)
              ss == [i \in DOMAIN f |-> <<f[i]>>]
              Up(i) == [j \in 1 .. i |-> f[j]]
  <1>1. n \in Nat /\ DOMAIN f = 1 .. n /\ (\A i \in 1 .. n : f[i] \in S) /\ f = Up(n)
    BY LenProperties, ElementOfSeq
  <1>2. ss \in Seq(Seq(S)) /\ Len(ss) = n /\ \A i \in 1 .. n : ss[i] = <<f[i]>>
    <2>1. ss \in [1 .. n -> Seq(S)]
      <3>1. \A i \in 1 .. n : <<f[i]>> \in Seq(S)
        BY <1>1
      <3>. HIDE DEF n
      <3>. QED
        BY <1>1, <3>1
    <2>2. \A i \in 1 .. n : ss[i] = <<f[i]>>
      BY <1>1
    <2>3. DOMAIN ss = 1 .. n
      BY <1>1
    <2>4. ss \in Seq(Seq(S))
      <3>. HIDE DEF ss, n
      <3>. QED
        BY <1>1, <2>1, SeqDef
    <2>5. Len(ss) = n
      <3>. HIDE DEF ss
      <3>. QED
        BY <1>1, <2>3, <2>4, LenProperties
    <2>. HIDE DEF ss
    <2>. QED
      BY <2>2, <2>4, <2>5
  <1>. HIDE DEF ss
  <1>3. CASE n = 0
    <2>1. FlattenSeq(ss) = << >>
      BY <1>2, <1>3, Flattened
    <2>2. f = << >>
      BY <1>1, <1>3
    <2>. QED
      BY <2>1, <2>2 DEF ss
  <1>4. CASE n # 0
    <2>1. PICK L \in [1 .. n -> Seq(S)] :
             /\ FlattenSeq(ss) = L[n] /\ L[1] = ss[1]
             /\ \A i \in 2 .. n : L[i] = L[i - 1] \o ss[i]
      <3>. HIDE DEF n
      <3>. QED
        <4>1. ss \in Seq(Seq(S)) /\ Len(ss) = n /\ Len(ss) # 0
          BY <1>2, <1>4
        <4>2. \E L \in [1 .. Len(ss) -> Seq(S)] : /\ FlattenSeq(ss) = L[Len(ss)] /\ L[1] = ss[1]
                                                   /\ \A i \in 2 .. Len(ss) : L[i] = L[i - 1] \o ss[i]
          BY <4>1, FlattenedSteps
        <4>. QED
          BY <4>1, <4>2, Zenon
    <2>. DEFINE G == {i \in 0 .. n : i = 0 \/ L[i] = Up(i)}
    <2>2. 0 \in G
      BY <1>1
    <2>3. ASSUME NEW i \in 1 .. n, i - 1 \in G PROVE i \in G
      <3>. HIDE DEF n
      <3>1. CASE i = 1
        <4>1. L[i] = <<f[1]>>
          BY <1>1, <1>2, <2>1, <3>1
        <4>2. Up(1) = <<f[1]>>
          OBVIOUS
        <4>. QED
          BY <1>1, <3>1, <4>1, <4>2
      <3>2. CASE i # 1
        <4>1. i \in 2 .. n /\ i - 1 # 0 /\ i - 1 \in Nat /\ i \in Nat /\ \A j \in 1 .. i : f[j] \in S
          BY <1>1, <3>2
        <4>2. L[i] = Up(i - 1) \o <<f[i]>>
          BY <1>2, <2>1, <2>3, <4>1
        <4>3. Up(i - 1) \in Seq(S) /\ Len(Up(i - 1)) = i - 1 /\ <<f[i]>> \in Seq(S) /\ Len(<<f[i]>>) = 1
          <5>1. Up(i - 1) \in [1 .. i - 1 -> S]
            BY <4>1
          <5>. QED
            BY <4>1, <5>1, SeqDef, LenProperties
        <4>4. /\ Len(L[i]) = i /\ L[i] \in Seq(S)
              /\ \A j \in 1 .. i : L[i][j] = IF j <= i - 1 THEN Up(i - 1)[j] ELSE <<f[i]>>[j - (i - 1)]
          BY <4>1, <4>2, <4>3, ConcatProperties
        <4>5. \A j \in 1 .. i : L[i][j] = f[j]
          <5>1. \A j \in 1 .. i : j <= i - 1 => L[i][j] = f[j]
            BY <4>1, <4>4
          <5>2. \A j \in 1 .. i : ~(j <= i - 1) => j = i /\ j - (i - 1) = 1
            BY <4>1
          <5>3. L[i][i] = f[i]
            BY <4>1, <4>4, <5>2
          <5>. QED
            BY <5>1, <5>2, <5>3
        <4>6. L[i] = Up(i)
          BY <4>1, <4>4, <4>5, LenProperties
        <4>7. i \in 0 .. n
          BY <1>1, <4>1
        <4>. HIDE DEF Up
        <4>. QED
          BY <4>6, <4>7
      <3>. QED
        BY <3>1, <3>2
    <2>4. n \in G
      <3>1. 0 .. n \subseteq G
        <4>. HIDE DEF G
        <4>. QED
          BY <1>1, <2>2, <2>3, Upwards, Zenon
      <3>2. n \in 0 .. n
        BY <1>1
      <3>. HIDE DEF G
      <3>. QED
        BY <3>1, <3>2
    <2>. QED
      BY <1>1, <1>4, <2>1, <2>4 DEF ss
  <1>. QED
    BY <1>3, <1>4

-----------------------------------------------------------------------------
(* The sections there are (TidyInv), and what is known of the names once they are      *)
(* parsed (NameInv).                                                                   *)

\* No more is parsed of the sections tt than of ss.
Alike(r, q) ==
    /\ DOMAIN r = DOMAIN q /\ r.kind = q.kind /\ r.label = q.label /\ r.name = q.name
    /\ r.source = q.source /\ r.child = q.child
Keeps(ss, tt) ==
    /\ \A s \in DOMAIN ss :
          /\ s \in DOMAIN tt /\ tt[s].top = ss[s].top /\ tt[s].parent = ss[s].parent /\ tt[s].line = ss[s].line
          /\ DOMAIN tt[s].ir = DOMAIN ss[s].ir /\ DOMAIN tt[s].lines = DOMAIN ss[s].lines
          /\ \A i \in DOMAIN ss[s].ir : tt[s].lines[i] = ss[s].lines[i] /\ Alike(tt[s].ir[i], ss[s].ir[i])
    /\ \A s \in (DOMAIN tt) \ DOMAIN ss : DOMAIN tt[s].ir = {}

LEMMA KeepsPlaces ==
    ASSUME NEW ss, NEW tt, Keeps(ss, tt)
    PROVE  \A x : PlacesOf(tt, x) = PlacesOf(ss, x) /\ ExportedBy(tt, x) = ExportedBy(ss, x)
  <1>1. \A t : Seen(tt, t) = Seen(ss, t)
    <2>. TAKE t
    <2>1. ASSUME NEW l \in Seen(ss, t) PROVE l \in Seen(tt, t)
      BY DEF Seen, Keeps
    <2>2. ASSUME NEW l \in Seen(tt, t) PROVE l \in Seen(ss, t)
      <3>1. l \in (DOMAIN tt) \X Nat /\ tt[l[1]].top = t /\ l[2] \in DOMAIN tt[l[1]].ir
        BY DEF Seen
      <3>2. l[1] \in DOMAIN ss
        BY <3>1 DEF Keeps
      <3>. QED
        BY <3>1, <3>2 DEF Seen, Keeps
    <2>. QED
      BY <2>1, <2>2
  <1>2. ASSUME NEW t, NEW l \in Seen(ss, t) PROVE Alike(At(tt, l), At(ss, l))
    BY DEF Seen, Keeps, At
  <1>3. \A t, x : DefinedAt(tt, t, x) = DefinedAt(ss, t, x)
    BY <1>1, <1>2 DEF DefinedAt, Alike
  <1>4. \A x : ExportedBy(tt, x) = ExportedBy(ss, x)
    BY <1>1, <1>2 DEF ExportedBy, Alike
  <1>. QED
    BY <1>3, <1>4 DEF PlacesOf

LEMMA KeepsParsed ==
    ASSUME NEW ss, NEW tt, Keeps(ss, tt), NEW s \in DOMAIN ss
    PROVE  /\ Parses(ss, s) => Parses(tt, s)
           /\ DOMAIN ss[s].ir = {} => DOMAIN tt[s].ir = {}
  <1>1. ASSUME Parses(ss, s), NEW i \in DOMAIN ss[s].ir PROVE Reads(tt, s, i, tt[s].ir[i])
    <2>. PICK r, q : r = tt[s].ir[i] /\ q = ss[s].ir[i]
      OBVIOUS
    <2>1. Alike(r, q) /\ Reads(ss, s, i, q) /\ tt[s].lines[i] = ss[s].lines[i]
      BY <1>1 DEF Keeps, Parses
    <2>2. \A c \in DOMAIN ss : c \in DOMAIN tt /\ tt[c].parent = ss[c].parent /\ tt[c].line = ss[c].line
      BY DEF Keeps
    <2>3. Reads(tt, s, i, r)
      BY <2>1, <2>2 DEF Alike, Reads
    <2>. QED
      BY <2>3
  <1>. QED
    BY <1>1 DEF Parses, Keeps

\* What stays when nothing is parsed.
LEMMA NamesStay ==
    ASSUME NameInv, errors \subseteq errors', symbols' = symbols, errors = {} => Keeps(sections, sections')
    PROVE  /\ errors' = {} => Fitted' /\ AllRead' /\ errors = {}
           /\ errors' = {} => \A s \in DOMAIN sections : Parses(sections, s) => Parses(sections', s)
  <1>. SUFFICES ASSUME errors' = {}
                PROVE  Fitted' /\ AllRead' /\ errors = {}
                       /\ \A s \in DOMAIN sections : Parses(sections, s) => Parses(sections', s)
    OBVIOUS
  <1>1. errors = {} /\ Keeps(sections, sections') /\ Fitted /\ AllRead
    BY DEF NameInv
  <1>2. \A x : PlacesOf(sections', x) = PlacesOf(sections, x) /\ ExportedBy(sections', x) = ExportedBy(sections, x)
    BY <1>1, KeepsPlaces
  <1>3. \A s \in DOMAIN sections : /\ Parses(sections, s) => Parses(sections', s)
                                   /\ DOMAIN sections[s].ir = {} => DOMAIN sections'[s].ir = {}
    BY <1>1, KeepsParsed
  <1>4. Fitted'
    BY <1>1, <1>2 DEF Fitted
  <1>5. AllRead'
    BY <1>1, <1>3 DEF AllRead, Keeps
  <1>. QED
    BY <1>1, <1>3, <1>4, <1>5

-----------------------------------------------------------------------------
(* TidyInv is an invariant. *)

LEMMA ApartJoined ==
    ASSUME NEW S, NEW x \in Seq(S), NEW y \in Seq(S), Apart(x), Apart(y), Range(x) \cap Range(y) = {}
    PROVE  Apart(x \o y)
  <1>1. /\ x \o y \in Seq(S) /\ Len(x \o y) = Len(x) + Len(y)
        /\ \A i \in 1 .. Len(x) + Len(y) : (x \o y)[i] = IF i <= Len(x) THEN x[i] ELSE y[i - Len(x)]
    BY ConcatProperties
  <1>. PICK z : z = x \o y
    OBVIOUS
  <1>2. Len(x) \in Nat /\ Len(y) \in Nat /\ DOMAIN x = 1 .. Len(x) /\ DOMAIN y = 1 .. Len(y)
        /\ DOMAIN z = 1 .. Len(x) + Len(y)
    BY <1>1, LenProperties
  <1>3. ASSUME NEW i \in DOMAIN z
        PROVE  /\ i <= Len(x) => i \in DOMAIN x /\ z[i] = x[i] /\ z[i] \in Range(x)
               /\ ~(i <= Len(x)) => i - Len(x) \in DOMAIN y /\ z[i] = y[i - Len(x)] /\ z[i] \in Range(y)
    <2>1. i \in 1 .. Len(x) + Len(y)
      BY <1>2
    <2>2. i <= Len(x) => i \in DOMAIN x
      BY <1>2, <2>1
    <2>3. ~(i <= Len(x)) => i - Len(x) \in DOMAIN y
      BY <1>2, <2>1
    <2>. QED
      BY <1>1, <2>1, <2>2, <2>3 DEF Range
  <1>4. ASSUME NEW i \in DOMAIN z, NEW j \in DOMAIN z, z[i] = z[j] PROVE i = j
    <2>1. (i <= Len(x)) <=> (j <= Len(x))
      BY <1>3, <1>4
    <2>2. CASE i <= Len(x)
      BY <1>3, <1>4, <2>1, <2>2 DEF Apart
    <2>3. CASE ~(i <= Len(x))
      <3>1. i - Len(x) = j - Len(x)
        BY <1>3, <1>4, <2>1, <2>3 DEF Apart
      <3>. QED
        BY <1>2, <3>1
    <2>. QED
      BY <2>2, <2>3
  <1>. QED
    BY <1>4 DEF Apart

\* The sections below one are for different lines of it.
LEMMA ChildrenApart ==
    ASSUME SectionsSound, NEW s \in DOMAIN sections
    PROVE  /\ \A i \in DOMAIN Children(s) : Children(s)[i].parent = s
           /\ \A i, j \in DOMAIN Children(s) : Children(s)[i].line = Children(s)[j].line => i = j
  <1>. DEFINE lines == sections[s].lines
              Opened(i) == IF i \notin Macros(sections[s]) \/ ~Known(lines[i]) THEN << >> ELSE <<Sub(s, i)>>
              all == [i \in DOMAIN lines |-> Opened(i)]
              S == {Sub(s, i) : i \in DOMAIN lines}
  <1>1. Children(s) = FlattenSeq(all)
    BY DEF Children, Sub
  <1>2. DOMAIN lines = 1 .. Len(lines) /\ Len(lines) \in Nat
    BY Sequences DEF SectionsSound
  <1>3. \A i \in DOMAIN lines : Opened(i) = << >> \/ Opened(i) = <<Sub(s, i)>>
    OBVIOUS
  <1>4. \A i \in DOMAIN lines : Sub(s, i) \in S
    OBVIOUS
  <1>5. \A i \in DOMAIN lines : Sub(s, i).line = i /\ Sub(s, i).parent = s
    BY DEF Sub, Section
  <1>. HIDE DEF Opened, S
  <1>6. \A i \in DOMAIN lines : Opened(i) \in Seq(S)
    <2>1. << >> \in Seq(S) /\ \A x \in S : <<x>> \in Seq(S)
      OBVIOUS
    <2>. QED
      BY <1>3, <1>4, <2>1
  <1>7. all \in Seq(Seq(S)) /\ DOMAIN all = DOMAIN lines /\ \A i \in DOMAIN lines : all[i] = Opened(i)
    <2>. HIDE DEF lines
    <2>1. all \in [1 .. Len(lines) -> Seq(S)]
      BY <1>2, <1>6
    <2>. QED
      BY <1>2, <2>1, SeqDef
  <1>. HIDE DEF all
  <1>8. PICK pos : Placing(Children(s), all, pos)
    BY <1>1, <1>7, FlattenedPlaces
  <1>9. Children(s) \in Seq(S) /\ DOMAIN Children(s) = 1 .. Len(Children(s))
    <2>1. Children(s) \in Seq(S)
      BY <1>1, <1>7, Flattened
    <2>. QED
      BY <2>1, LenProperties
  <1>. PICK c : c = Children(s)
    OBVIOUS
  <1>10. ASSUME NEW k \in DOMAIN c PROVE c[k].parent = s /\ c[k].line = pos[k][1] /\ pos[k] = <<pos[k][1], 1>>
    <2>1. /\ pos[k] \in Nat \X Nat /\ pos[k][1] \in DOMAIN all /\ pos[k][2] \in DOMAIN all[pos[k][1]]
          /\ c[k] = all[pos[k][1]][pos[k][2]]
      BY <1>8, <1>9 DEF Placing
    <2>. PICK i, j : i = pos[k][1] /\ j = pos[k][2]
      OBVIOUS
    <2>2. i \in DOMAIN lines /\ (all[i] = << >> \/ all[i] = <<Sub(s, i)>>) /\ j \in DOMAIN all[i]
      BY <1>3, <1>7, <2>1
    <2>3. all[i] = <<Sub(s, i)>> /\ j = 1
      <3>1. DOMAIN << >> = {} /\ DOMAIN <<Sub(s, i)>> = {1}
        OBVIOUS
      <3>. QED
        BY <2>2, <3>1
    <2>4. c[k] = Sub(s, i)
      BY <2>1, <2>3
    <2>5. pos[k] = <<i, 1>>
      <3>1. \A q \in Nat \X Nat : q = <<q[1], q[2]>>
        OBVIOUS
      <3>2. pos[k] = <<i, j>>
        BY <2>1, <3>1
      <3>. QED
        BY <2>3, <3>2
    <2>. QED
      BY <1>5, <2>2, <2>4, <2>5
  <1>11. ASSUME NEW k \in DOMAIN c, NEW l \in DOMAIN c, c[k].line = c[l].line PROVE k = l
    <2>1. pos[k] = pos[l]
      BY <1>10, <1>11
    <2>. QED
      BY <1>8, <1>9, <2>1 DEF Placing
  <1>. QED
    BY <1>10, <1>11

\* The sections that the preprocessor adds are for different lines of those it opens.
LEMMA AddedApart ==
    ASSUME AsmInv, Preprocess, Apart(queue[2])
    PROVE  \E new : /\ new \in Seq(Lower) /\ sections' = sections \o new
                    /\ \A k \in DOMAIN new : new[k].parent \in Range(queue[2])
                    /\ \A k, l \in DOMAIN new : new[k].parent = new[l].parent /\ new[k].line = new[l].line => k = l
  <1>. DEFINE batch == queue[Stage.TOKEN]
              top == sections[batch[1]].top
              Before(k) == edges[top] \cup UNION {Edges(batch[j]) : j \in 1 .. k - 1}
              circular == {k \in DOMAIN batch : Cyclic(Before(k))}
              opened == SubSeq(batch, 1, Len(batch) - Cardinality(circular))
              all == [k \in DOMAIN opened |-> Children(opened[k])]
              new == FlattenSeq(all)
  <1>1. Take(Stage.TOKEN) /\ sections' = sections \o new
    BY DEF Preprocess
  <1>. HIDE DEF circular, top
  <1>2. Expanding /\ DriverSound /\ SectionsSound /\ batch = queue[2]
    BY <1>1, Taken, StageNumbers DEF AsmInv
  <1>3. /\ batch \in Seq(Nat) /\ Len(batch) \in Nat /\ DOMAIN batch = 1 .. Len(batch)
        /\ \A k \in 1 .. Len(batch) : batch[k] \in Own /\ batch[k] \in Range(queue[2])
    <2>1. batch \in Seq(Nat)
      BY <1>2, StageNumbers DEF DriverSound
    <2>2. Len(batch) \in Nat /\ DOMAIN batch = 1 .. Len(batch)
      BY <2>1, LenProperties
    <2>3. \A k \in 1 .. Len(batch) : batch[k] \in Range(queue[2])
      BY <1>2, <2>2 DEF Range
    <2>. QED
      BY <1>2, <2>1, <2>2, <2>3 DEF Expanding
  <1>4. Cardinality(circular) \in Nat
    <2>1. circular \subseteq 1 .. Len(batch)
      BY <1>3 DEF circular
    <2>2. IsFiniteSet(1 .. Len(batch))
      BY <1>3, FS_Interval
    <2>3. IsFiniteSet(circular)
      BY <2>1, <2>2, FS_Subset
    <2>. QED
      BY <2>3, FS_CardinalityType
  <1>. DEFINE m == Len(batch) - Cardinality(circular)
  <1>5. m \in Int /\ \A k \in 1 .. m : k \in 1 .. Len(batch)
    BY <1>3, <1>4
  <1>. HIDE DEF batch, m
  <1>6. opened = SubSeq(batch, 1, m)
    BY DEF m
  <1>7. /\ opened \in Seq(Own) /\ DOMAIN opened = 1 .. Len(opened) /\ Len(opened) \in Nat
        /\ \A k \in DOMAIN opened : k \in 1 .. Len(batch) /\ opened[k] = batch[k]
    <2>1. /\ SubSeq(batch, 1, m) \in Seq(Own)
          /\ Len(SubSeq(batch, 1, m)) = (IF 1 <= m THEN m - 1 + 1 ELSE 0)
          /\ \A i \in 1 .. m - 1 + 1 : SubSeq(batch, 1, m)[i] = batch[1 + i - 1]
      BY <1>3, <1>5, SubSeqProperties
    <2>. PICK o : o = SubSeq(batch, 1, m)
      OBVIOUS
    <2>2. o \in Seq(Own) /\ DOMAIN o = 1 .. Len(o) /\ Len(o) \in Nat /\ Len(o) = IF 1 <= m THEN m - 1 + 1 ELSE 0
      BY <2>1, LenProperties
    <2>3. ASSUME NEW k \in DOMAIN o PROVE k \in 1 .. m /\ k \in 1 .. m - 1 + 1 /\ 1 + k - 1 = k
      BY <1>5, <2>2
    <2>4. \A k \in DOMAIN o : k \in 1 .. Len(batch) /\ o[k] = batch[k]
      BY <1>5, <2>1, <2>3
    <2>. QED
      BY <1>6, <2>2, <2>4
  <1>. HIDE DEF opened
  <1>8. \A k \in DOMAIN opened : opened[k] \in Own /\ opened[k] \in DOMAIN sections /\ opened[k] \in Range(queue[2])
    BY <1>3, <1>7 DEF Own
  <1>9. \A k, l \in DOMAIN opened : opened[k] = opened[l] => k = l
    BY <1>2, <1>3, <1>7 DEF Apart
  <1>10. all \in Seq(Seq(Lower)) /\ DOMAIN all = DOMAIN opened /\ \A k \in DOMAIN opened : all[k] = Children(opened[k])
    <2>1. ASSUME NEW k \in DOMAIN opened PROVE Children(opened[k]) \in Seq(Lower)
      <3>1. Children(opened[k]) \in Seq(Below(opened[k])) /\ Below(opened[k]) \subseteq Lower
        BY <1>2, <1>8, ChildrenBelow DEF Lower
      <3>. QED
        BY <3>1, SeqMonotonic
    <2>2. all \in [1 .. Len(opened) -> Seq(Lower)]
      BY <1>7, <2>1
    <2>. QED
      BY <1>7, <2>2, SeqDef
  <1>. HIDE DEF all
  <1>11. new \in Seq(Lower)
    BY <1>10, Flattened
  <1>12. PICK pos : Placing(new, all, pos)
    BY <1>10, FlattenedPlaces
  <1>. HIDE DEF new
  <1>13. DOMAIN new = 1 .. Len(new)
    BY <1>11, LenProperties
  <1>14. ASSUME NEW k \in DOMAIN new
         PROVE  /\ pos[k] \in Nat \X Nat /\ pos[k][1] \in DOMAIN opened /\ pos[k][2] \in DOMAIN Children(opened[pos[k][1]])
                /\ new[k] = Children(opened[pos[k][1]])[pos[k][2]] /\ new[k].parent = opened[pos[k][1]]
    <2>1. /\ pos[k] \in Nat \X Nat /\ pos[k][1] \in DOMAIN opened /\ pos[k][2] \in DOMAIN Children(opened[pos[k][1]])
          /\ new[k] = Children(opened[pos[k][1]])[pos[k][2]]
      BY <1>10, <1>12, <1>13 DEF Placing
    <2>. QED
      BY <1>2, <1>8, <2>1, ChildrenApart
  <1>15. ASSUME NEW k \in DOMAIN new, NEW l \in DOMAIN new, new[k].parent = new[l].parent, new[k].line = new[l].line
         PROVE  k = l
    <2>1. pos[k][1] = pos[l][1]
      BY <1>9, <1>14, <1>15
    <2>. PICK s : s = opened[pos[k][1]]
      OBVIOUS
    <2>2. s \in DOMAIN sections /\ pos[k][2] \in DOMAIN Children(s) /\ pos[l][2] \in DOMAIN Children(s)
          /\ Children(s)[pos[k][2]].line = Children(s)[pos[l][2]].line
      BY <1>8, <1>14, <1>15, <2>1
    <2>3. pos[k][2] = pos[l][2]
      BY <1>2, <2>2, ChildrenApart
    <2>4. pos[k] = pos[l]
      BY <1>14, <2>1, <2>3
    <2>. QED
      BY <1>12, <1>13, <2>4 DEF Placing
  <1>. QED
    BY <1>1, <1>8, <1>11, <1>14, <1>15


\* What the tokenizer does.
LEMMA TokenizeIs ==
    ASSUME AsmInv, TreeInv, Tokenize
    PROVE  /\ Open /\ phase' = phase /\ UNCHANGED <<symbols, registry, places>> /\ DOMAIN sections' = DOMAIN sections
           /\ \A s \in DOMAIN sections :
                 /\ sections'[s].top = sections[s].top /\ sections'[s].parent = sections[s].parent
                 /\ sections'[s].line = sections[s].line /\ sections'[s].ir = sections[s].ir
                 /\ DOMAIN sections'[s].lines = DOMAIN sections[s].lines
                 /\ s \notin Range(queue[1]) => sections'[s] = sections[s]
           /\ errors \subseteq errors' /\ Take(1) /\ queue[1] \in Seq(Nat) /\ queue[2] \in Seq(Nat) /\ queue[1] # << >>
           /\ Open' \/ errors' = {} => /\ queue'[1] = << >> /\ queue'[2] = queue[2] \o queue[1]
                                       /\ queue'[3] = queue[3]
  <1>. DEFINE batch == Range(queue[Stage.RAW])
              bad == UNION {{Error(s, i, "token") : i \in {i \in DOMAIN sections[s].lines :
                                sections[s].lines[i].kind = "bad"}} : s \in batch}
              Now(s) == IF s \in batch
                        THEN [sections[s] EXCEPT !.lines =
                                 [i \in DOMAIN @ |-> Substituted(@[i], sections[s].args)]]
                        ELSE sections[s]
  <1>1. /\ Take(Stage.RAW) /\ Requeue(Stage.RAW, bad = {}, [u \in {Stage.TOKEN} |-> queue[Stage.RAW]])
        /\ sections' = [s \in DOMAIN sections |-> Now(s)] /\ UNCHANGED <<registry, symbols, places>>
        /\ errors' = errors \cup bad
    BY DEF Tokenize, layout
  <1>. HIDE DEF bad
  <1>2. /\ Take(1) /\ Open /\ phase' = phase
        /\ queue[1] \in Seq(Nat) /\ queue[2] \in Seq(Nat) /\ queue[1] # << >>
    BY <1>1, Taken, StageNumbers DEF Open, Requeue, AsmInv, DriverSound
  <1>3. /\ bad # {} => Stuck'
        /\ bad = {} => /\ queue'[1] = << >> /\ queue'[2] = queue[2] \o queue[1] /\ queue'[3] = queue[3]
    <2>1. (bad = {}) \in BOOLEAN /\ 1 \in Stages /\ 2 \in Stages \ {1} /\ 3 \in Stages \ {1, 2}
      BY StageNumbers
    <2>2. Requeue(1, bad = {}, [u \in {2} |-> queue[1]])
      BY <1>1, StageNumbers
    <2>. QED
      BY <1>2, <2>2, TokensForwarded
  <1>4. ASSUME NEW s \in DOMAIN sections
        PROVE  /\ sections'[s].top = sections[s].top /\ sections'[s].parent = sections[s].parent
               /\ sections'[s].line = sections[s].line /\ sections'[s].ir = sections[s].ir
               /\ DOMAIN sections'[s].lines = DOMAIN sections[s].lines
               /\ s \notin Range(queue[1]) => sections'[s] = sections[s]
    <2>1. {"top", "parent", "lines", "ir", "line", "name", "args"} \subseteq DOMAIN sections[s]
      BY SectionFields
    <2>2. sections'[s] = Now(s)
      BY <1>1
    <2>3. CASE s \in batch
      <3>. PICK t : t = [i \in DOMAIN sections[s].lines |-> Substituted(sections[s].lines[i], sections[s].args)]
        OBVIOUS
      <3>1. Now(s) = [sections[s] EXCEPT !.lines = t] /\ DOMAIN t = DOMAIN sections[s].lines /\ s \in Range(queue[1])
        BY <2>3, StageNumbers
      <3>. HIDE DEF Now
      <3>. QED
        BY <2>1, <2>2, <3>1
    <2>4. CASE s \notin batch
      BY <2>2, <2>4
    <2>. QED
      BY <2>3, <2>4
  <1>5. DOMAIN sections' = DOMAIN sections
    BY <1>1
  <1>. HIDE DEF Now, batch
  <1>6. Open' \/ errors' = {} => bad = {}
    BY <1>1, <1>3 DEF Open
  <1>. QED
    BY <1>1, <1>2, <1>3, <1>4, <1>5, <1>6

\* What the preprocessor does.
LEMMA PreprocessIs ==
    ASSUME AsmInv, TreeInv, Preprocess
    PROVE  /\ Open /\ phase' = phase /\ UNCHANGED <<symbols, registry, places>>
           /\ errors \subseteq errors' /\ Take(2) /\ queue[2] \in Seq(Nat) /\ queue[3] \in Seq(Nat) /\ queue[2] # << >>
           /\ \A s \in DOMAIN sections : s \in DOMAIN sections' /\ sections'[s] = sections[s]
           /\ \A s \in (DOMAIN sections') \ DOMAIN sections :
                 sections'[s].ir = << >> /\ sections'[s].parent # 0 /\ sections'[s].top = Current
           /\ Open' \/ errors' = {} =>
                 /\ queue'[1] \in Seq(Nat) /\ Apart(queue'[1]) /\ Range(queue'[1]) = (DOMAIN sections') \ DOMAIN sections
                 /\ queue'[2] = << >> /\ queue'[3] = queue[3] \o queue[2]
                 /\ \A s \in Range(queue[2]) : \A i \in Macros(sections[s]) :
                       \E c \in DOMAIN sections' : sections'[c].parent = s /\ sections'[c].line = i
  <1>1. PICK new, wrong, graph, opened : Opening(new, wrong, graph, opened)
    BY PreprocessOpens
  <1>. DEFINE added == [k \in DOMAIN new |-> Len(sections) + k]
              work == [u \in {Stage.RAW, Stage.PREPROCESS} |->
                          IF u = Stage.RAW THEN added ELSE queue[Stage.TOKEN]]
  <1>2. /\ Take(2) /\ Requeue(2, wrong = {}, work)
        /\ sections' = sections \o new /\ UNCHANGED <<symbols, registry, places>> /\ new \in Seq(Lower)
        /\ errors' = errors \cup wrong /\ Range(opened) \subseteq Range(queue[2])
        /\ Range(new) = UNION {Range(Children(s)) : s \in Range(opened)}
        /\ wrong = {} => Range(opened) = Range(queue[2]) /\ \A s \in Range(opened) : BadInvocations(s) = {}
    BY <1>1, StageNumbers DEF Opening, Preprocess, layout
  <1>3. /\ Open /\ queue[1] = << >> /\ queue[2] # << >> /\ queue[2] \in Seq(Nat) /\ queue[3] \in Seq(Nat) /\ SectionsSound
        /\ phase' = phase
    <2>1. Open /\ queue[1] = << >> /\ queue[2] # << >>
      BY <1>2, Taken, StageNumbers DEF Open
    <2>2. queue[2] \in Seq(Nat) /\ queue[3] \in Seq(Nat) /\ SectionsSound
      BY StageNumbers DEF AsmInv, DriverSound
    <2>3. phase' = phase
      BY <1>2 DEF Requeue
    <2>. QED
      BY <2>1, <2>2, <2>3
  <1>4. /\ \A s \in DOMAIN sections : s \in DOMAIN sections' /\ sections'[s] = sections[s]
        /\ \A s \in DOMAIN sections' : s \in DOMAIN sections \/
                 (s > Len(sections) /\ s - Len(sections) \in DOMAIN new
                  /\ sections'[s] = new[s - Len(sections)])
        /\ DOMAIN sections = 1 .. Len(sections) /\ DOMAIN sections' \subseteq Nat
        /\ \A k \in DOMAIN new : Len(sections) + k \in DOMAIN sections'
                                 /\ Len(sections) + k \notin DOMAIN sections
                                 /\ sections'[Len(sections) + k] = new[k]
    BY <1>2, NewSections
  <1>5. DOMAIN new = 1 .. Len(new) /\ Len(new) \in Nat /\ Len(sections) \in Nat /\ \A k \in DOMAIN new : new[k] \in Lower
    <2>1. Len(sections) \in Nat
      BY <1>1, PreprocessQueues
    <2>. QED
      BY <1>2, <2>1, LenProperties, ElementOfSeq
  <1>6. \A s \in (DOMAIN sections') \ DOMAIN sections :
                 sections'[s].ir = << >> /\ sections'[s].parent # 0 /\ sections'[s].top = Current
    BY <1>3, <1>4, <1>5, LowerSound DEF Current
  <1>7. added \in Seq(Nat) /\ Apart(added) /\ Range(added) = (DOMAIN sections') \ DOMAIN sections
    <2>1. added \in [1 .. Len(new) -> Nat]
      BY <1>5
    <2>2. added \in Seq(Nat)
      <3>. HIDE DEF added
      <3>. QED
        BY <1>5, <2>1, SeqDef
    <2>3. Apart(added)
      <3>1. \A k, l \in DOMAIN new : Len(sections) + k = Len(sections) + l => k = l
        BY <1>5
      <3>. QED
        BY <3>1 DEF Apart
    <2>4. ASSUME NEW s \in Range(added) PROVE s \in (DOMAIN sections') \ DOMAIN sections
      BY <1>4 DEF Range
    <2>5. ASSUME NEW s \in (DOMAIN sections') \ DOMAIN sections PROVE s \in Range(added)
      <3>1. s \in Nat /\ s - Len(sections) \in DOMAIN new /\ Len(sections) + (s - Len(sections)) = s
        BY <1>4, <1>5
      <3>2. added[s - Len(sections)] = s /\ DOMAIN added = DOMAIN new
        BY <3>1
      <3>. HIDE DEF added
      <3>. QED
        BY <3>1, <3>2 DEF Range
    <2>. HIDE DEF added
    <2>. QED
      BY <2>2, <2>3, <2>4, <2>5
  <1>. HIDE DEF added
  <1>8. DOMAIN work = {1, 3} /\ work[1] = added /\ work[3] = queue[2]
    BY StageNumbers
  <1>. HIDE DEF work
  <1>9. /\ wrong # {} => Stuck'
        /\ wrong = {} => queue'[1] = added /\ queue'[2] = << >> /\ queue'[3] = queue[3] \o queue[2]
    <2>1. (wrong = {}) \in BOOLEAN /\ 1 \in Stages /\ 2 \in Stages /\ 3 \in Stages
      BY StageNumbers
    <2>2. \A u \in Stages \cap DOMAIN work : work[u] \in Seq(Nat)
      BY <1>3, <1>7, <1>8
    <2>3. /\ ~(wrong = {}) => Stuck'
          /\ wrong = {} => \A u \in Stages : queue'[u] = (IF u = 2 THEN << >> ELSE queue[u])
                                              \o (IF u \in DOMAIN work THEN work[u] ELSE << >>)
      BY <1>2, <2>1, <2>2, Requeued
    <2>4. ASSUME wrong = {}
          PROVE  queue'[1] = << >> \o added /\ queue'[2] = << >> \o << >> /\ queue'[3] = queue[3] \o queue[2]
      <3>1. \A u \in Stages : queue'[u] = (IF u = 2 THEN << >> ELSE queue[u])
                                              \o (IF u \in DOMAIN work THEN work[u] ELSE << >>)
        BY <2>3, <2>4
      <3>2. 2 \notin DOMAIN work
        BY <1>8
      <3>3. queue'[1] = << >> \o added
        BY <1>3, <1>8, <2>1, <3>1
      <3>4. queue'[2] = << >> \o << >>
        BY <2>1, <3>1, <3>2
      <3>5. queue'[3] = queue[3] \o queue[2]
        <4>1. 3 \in DOMAIN work /\ 3 # 2
          BY <1>8
        <4>2. queue'[3] = (IF 3 = 2 THEN << >> ELSE queue[3]) \o (IF 3 \in DOMAIN work THEN work[3] ELSE << >>)
          BY <2>1, <3>1
        <4>. QED
          BY <1>8, <4>1, <4>2
      <3>. QED
        BY <3>3, <3>4, <3>5
    <2>5. << >> \o added = added /\ << >> \o << >> = << >>
      BY <1>7
    <2>. QED
      BY <2>3, <2>4, <2>5
  <1>10. ASSUME wrong = {}, NEW s \in Range(queue[2]), NEW i \in Macros(sections[s])
         PROVE  \E c \in DOMAIN sections' : sections'[c].parent = s /\ sections'[c].line = i
    <2>1. s \in Range(opened) /\ BadInvocations(s) = {} /\ s \in DOMAIN sections
      BY <1>2, <1>3, <1>10 DEF Open, Expanding, Own
    <2>2. Known(sections[s].lines[i])
      <3>1. Error(s, i, "invocation") \notin BadInvocations(s)
        BY <2>1
      <3>. QED
        BY <3>1 DEF BadInvocations
    <2>3. Sub(s, i) \in Range(new)
      <3>1. Sub(s, i) \in Range(Children(s))
        BY <1>3, <2>1, <2>2, ChildrenAre DEF Opens
      <3>. QED
        BY <1>2, <2>1, <3>1
    <2>4. PICK k \in DOMAIN new : new[k] = Sub(s, i)
      BY <2>3 DEF Range
    <2>5. Sub(s, i).parent = s /\ Sub(s, i).line = i
      BY DEF Sub, Section
    <2>. QED
      BY <1>4, <2>4, <2>5
  <1>11. Open' \/ errors' = {} => wrong = {}
    BY <1>2, <1>9 DEF Open
  <1>12. wrong = {} =>
                 /\ queue'[1] \in Seq(Nat) /\ Apart(queue'[1]) /\ Range(queue'[1]) = (DOMAIN sections') \ DOMAIN sections
                 /\ queue'[2] = << >> /\ queue'[3] = queue[3] \o queue[2]
    BY <1>7, <1>9
  <1>13. errors \subseteq errors'
    BY <1>2
  <1>. QED
    BY <1>2, <1>3, <1>4, <1>6, <1>10, <1>11, <1>12, <1>13


LEMMA TidyInit ==
    ASSUME AsmInit, AsmInv
    PROVE  TidyInv
  <1>1. /\ queue = [st \in Stages |-> IF st = Stage.RAW THEN <<OS>> ELSE << >>]
        /\ \A s \in DOMAIN sections : sections[s].parent = 0
    BY FirstSections DEF AsmInit
  <1>2. queue[1] = <<OS>> /\ queue[2] = << >> /\ queue[3] = << >>
    BY <1>1, StageNumbers
  <1>3. Range(<< >>) = {} /\ Range(<<OS>>) = {OS} /\ OS # 0
    BY DEF Range, OS
  <1>4. \A st \in 1 .. 3 : st = 1 \/ st = 2 \/ st = 3
    OBVIOUS
  <1>5. \A st \in 1 .. 3 : Apart(queue[st])
    BY <1>2, <1>4 DEF Apart
  <1>6. \A st, su \in 1 .. 3 : st # su => Range(queue[st]) \cap Range(queue[su]) = {}
    BY <1>2, <1>3, <1>4
  <1>7. Childless(OS)
    BY <1>1, <1>3 DEF Childless
  <1>8. Tidy
    BY <1>2, <1>3, <1>5, <1>6, <1>7 DEF Tidy
  <1>. QED
    BY <1>1, <1>8 DEF TidyInv, OneEach

LEMMA TidyStays ==
    ASSUME TidyInv, ~Open', DOMAIN sections' = DOMAIN sections,
           \A s \in DOMAIN sections : sections'[s].parent = sections[s].parent /\ sections'[s].line = sections[s].line
    PROVE  TidyInv'
  <1>1. OneEach'
    BY DEF TidyInv, OneEach
  <1>. QED
    BY <1>1 DEF TidyInv

LEMMA TidyEndLoop ==
    ASSUME AsmInv, TreeInv, TidyInv, EndLoop
    PROVE  TidyInv'
  <1>1. phase # "done" /\ Waiting = {} /\ sections' = sections
    BY DEF EndLoop, text
  <1>2. CASE phase = "os" /\ User \in Programs /\ ~failed
    <2>1. queue' = [queue EXCEPT ![Stage.RAW] = <<User>>]
      BY <1>2 DEF EndLoop
    <2>2. queue'[1] = <<User>> /\ queue'[2] = << >> /\ queue'[3] = << >>
      BY <1>1, <2>1, StageNumbers DEF Waiting, AsmInv, DriverSound
    <2>3. Range(<< >>) = {} /\ Range(<<User>>) = {User}
      BY DEF Range
    <2>4. \A st \in 1 .. 3 : st = 1 \/ st = 2 \/ st = 3
      OBVIOUS
    <2>5. \A st \in 1 .. 3 : Apart(queue'[st])
      BY <2>2, <2>4 DEF Apart
    <2>6. \A st, su \in 1 .. 3 : st # su => Range(queue'[st]) \cap Range(queue'[su]) = {}
      BY <2>2, <2>3, <2>4
    <2>7. \A c \in DOMAIN sections : sections[c].parent # User
      <3>. SUFFICES ASSUME NEW c \in DOMAIN sections, sections[c].parent = User PROVE FALSE
        OBVIOUS
      <3>1. User \in DOMAIN sections /\ sections[User].parent = 0 /\ sections[User].top = User
        BY <1>2 DEF Programs, AsmInv, SectionsSound
      <3>2. sections[c].parent # 0 /\ SectionFits(c)
        BY DEF User, TreeInv
      <3>3. sections[c].top = User
        BY <3>1, <3>2 DEF SectionFits, ForLine
      <3>4. c = User
        BY <1>2, <3>3 DEF AsmInv, SectionsSound
      <3>. QED
        BY <3>1, <3>2, <3>4
    <2>8. Tidy'
      BY <1>1, <2>2, <2>3, <2>5, <2>6, <2>7 DEF Tidy, Childless
    <2>. QED
      BY <1>1, <2>8 DEF TidyInv, OneEach
  <1>3. CASE ~(phase = "os" /\ User \in Programs /\ ~failed)
    <2>1. phase' = "done"
      BY <1>3 DEF EndLoop
    <2>. QED
      BY <1>1, <2>1, TidyStays DEF Open
  <1>. QED
    BY <1>2, <1>3

LEMMA TidyTokenize ==
    ASSUME AsmInv, TreeInv, TidyInv, Tokenize
    PROVE  TidyInv'
  <1>1. /\ Open /\ DOMAIN sections' = DOMAIN sections
        /\ \A s \in DOMAIN sections :
                 /\ sections'[s].parent = sections[s].parent /\ sections'[s].line = sections[s].line
                 /\ s \notin Range(queue[1]) => sections'[s] = sections[s]
        /\ errors \subseteq errors' /\ queue[1] \in Seq(Nat) /\ queue[2] \in Seq(Nat)
        /\ Open' => /\ queue'[1] = << >> /\ queue'[2] = queue[2] \o queue[1] /\ queue'[3] = queue[3]
    BY TokenizeIs
  <1>2. CASE ~Open'
    BY <1>1, <1>2, TidyStays
  <1>3. CASE Open'
    <2>1. Tidy
      BY <1>1 DEF TidyInv
    <2>2. /\ Apart(queue[1]) /\ Apart(queue[2]) /\ Apart(queue[3])
          /\ Range(queue[1]) \cap Range(queue[2]) = {} /\ Range(queue[2]) \cap Range(queue[1]) = {}
          /\ Range(queue[1]) \cap Range(queue[3]) = {} /\ Range(queue[2]) \cap Range(queue[3]) = {}
      <3>1. 1 \in 1 .. 3 /\ 2 \in 1 .. 3 /\ 3 \in 1 .. 3
        OBVIOUS
      <3>. QED
        BY <2>1, <3>1 DEF Tidy
    <2>3. Apart(<< >>) /\ Range(<< >>) = {}
      BY DEF Apart, Range
    <2>4. Apart(queue'[2]) /\ Range(queue'[2]) = Range(queue[2]) \cup Range(queue[1])
      <3>1. Apart(queue[2] \o queue[1])
        BY <1>1, <2>2, ApartJoined
      <3>2. Range(queue[2] \o queue[1]) = Range(queue[2]) \cup Range(queue[1])
        BY <1>1, Joined
      <3>. QED
        BY <1>1, <1>3, <3>1, <3>2
    <2>5. \A st \in 1 .. 3 : st = 1 \/ st = 2 \/ st = 3
      OBVIOUS
    <2>6. \A st \in 1 .. 3 : Apart(queue'[st])
      BY <1>1, <1>3, <2>2, <2>3, <2>4, <2>5
    <2>7. \A st, su \in 1 .. 3 : st # su => Range(queue'[st]) \cap Range(queue'[su]) = {}
      <3>1. Range(queue'[1]) = {} /\ Range(queue'[2]) \cap Range(queue'[3]) = {}
        BY <1>1, <1>3, <2>2, <2>3, <2>4
      <3>. QED
        BY <2>5, <3>1
    <2>8. ASSUME NEW s \in Range(queue'[1]) \cup Range(queue'[2]) PROVE Childless(s)'
      <3>1. Childless(s)
        BY <1>1, <1>3, <2>1, <2>3, <2>4 DEF Tidy
      <3>. QED
        BY <1>1, <3>1 DEF Childless
    <2>9. ASSUME NEW s \in Range(queue'[3]) PROVE OpenedUp(s)'
      <3>1. s \in Range(queue[3]) /\ OpenedUp(s)
        BY <1>1, <1>3, <2>1, <2>9 DEF Tidy
      <3>2. s \in DOMAIN sections /\ s \notin Range(queue[1])
        BY <1>1, <2>2, <3>1 DEF Open, Expanding, Own
      <3>3. sections'[s] = sections[s] /\ DOMAIN sections' = DOMAIN sections
        BY <1>1, <3>2
      <3>4. \A c \in DOMAIN sections : sections'[c].parent = sections[c].parent /\ sections'[c].line = sections[c].line
        BY <1>1
      <3>. QED
        BY <3>1, <3>3, <3>4 DEF OpenedUp, Macros
    <2>10. Tidy'
      BY <2>6, <2>7, <2>8, <2>9 DEF Tidy
    <2>11. OneEach'
      BY <1>1 DEF TidyInv, OneEach
    <2>. QED
      BY <2>10, <2>11 DEF TidyInv
  <1>. QED
    BY <1>2, <1>3

LEMMA TidyPreprocess ==
    ASSUME AsmInv, TreeInv, TidyInv, Preprocess
    PROVE  TidyInv'
  <1>1. /\ Open /\ errors \subseteq errors' /\ queue[2] \in Seq(Nat) /\ queue[3] \in Seq(Nat)
        /\ \A s \in DOMAIN sections : s \in DOMAIN sections' /\ sections'[s] = sections[s]
        /\ \A s \in (DOMAIN sections') \ DOMAIN sections : sections'[s].parent # 0
        /\ Open' =>
                 /\ Apart(queue'[1]) /\ Range(queue'[1]) = (DOMAIN sections') \ DOMAIN sections
                 /\ queue'[2] = << >> /\ queue'[3] = queue[3] \o queue[2]
                 /\ \A s \in Range(queue[2]) : \A i \in Macros(sections[s]) :
                       \E c \in DOMAIN sections' : sections'[c].parent = s /\ sections'[c].line = i
    BY PreprocessIs
  <1>2. Tidy
    BY <1>1 DEF TidyInv
  <1>3. /\ Apart(queue[2]) /\ Apart(queue[3])
        /\ Range(queue[3]) \cap Range(queue[2]) = {}
    <2>1. 2 \in 1 .. 3 /\ 3 \in 1 .. 3
      OBVIOUS
    <2>. QED
      BY <1>2, <2>1 DEF Tidy
  <1>4. Range(queue[2]) \subseteq DOMAIN sections /\ Range(queue[3]) \subseteq DOMAIN sections
    BY <1>1 DEF Open, Expanding, Own
  <1>5. PICK new : /\ new \in Seq(Lower) /\ sections' = sections \o new
                   /\ \A k \in DOMAIN new : new[k].parent \in Range(queue[2])
                   /\ \A k, l \in DOMAIN new : new[k].parent = new[l].parent /\ new[k].line = new[l].line => k = l
    BY <1>3, AddedApart
  <1>6. /\ \A s \in DOMAIN sections' : s \in DOMAIN sections \/
                 (s > Len(sections) /\ s - Len(sections) \in DOMAIN new
                  /\ sections'[s] = new[s - Len(sections)])
        /\ DOMAIN sections' \subseteq Nat /\ Len(sections) \in Nat
    <2>1. Len(sections) \in Nat
      BY Sequences DEF AsmInv, SectionsSound
    <2>. QED
      BY <1>5, <2>1, NewSections
  <1>7. \A c \in (DOMAIN sections') \ DOMAIN sections : sections'[c].parent \in Range(queue[2])
    BY <1>5, <1>6
  <1>8. \A c \in DOMAIN sections : sections[c].parent # 0 => sections[c].parent \in DOMAIN sections
    BY DEF TreeInv, SectionFits, ForLine
  <1>9. OneEach'
    <2>. SUFFICES ASSUME NEW c \in DOMAIN sections', NEW d \in DOMAIN sections', sections'[c].parent # 0,
                         sections'[c].parent = sections'[d].parent, sections'[c].line = sections'[d].line
                  PROVE  c = d
      BY DEF OneEach
    <2>1. CASE c \in DOMAIN sections /\ d \in DOMAIN sections
      BY <1>1, <2>1 DEF TidyInv, OneEach
    <2>2. CASE c \notin DOMAIN sections /\ d \notin DOMAIN sections
      <3>1. c - Len(sections) = d - Len(sections)
        BY <1>5, <1>6, <2>2
      <3>2. c \in Nat /\ d \in Nat
        BY <1>6
      <3>. QED
        BY <1>6, <3>1, <3>2
    <2>3. ASSUME NEW a \in DOMAIN sections, NEW b \in (DOMAIN sections') \ DOMAIN sections,
                 sections'[a].parent = sections'[b].parent
          PROVE  FALSE
      <3>1. sections[a].parent \in Range(queue[2])
        BY <1>1, <1>7, <2>3
      <3>. QED
        BY <1>2, <3>1 DEF Tidy, Childless
    <2>. QED
      BY <2>1, <2>2, <2>3
  <1>10. ASSUME Open' PROVE Tidy'
    <2>1. \A st \in 1 .. 3 : st = 1 \/ st = 2 \/ st = 3
      OBVIOUS
    <2>2. Apart(<< >>) /\ Range(<< >>) = {}
      BY DEF Apart, Range
    <2>3. Apart(queue'[3]) /\ Range(queue'[3]) = Range(queue[3]) \cup Range(queue[2])
      <3>1. Apart(queue[3] \o queue[2])
        BY <1>1, <1>3, ApartJoined
      <3>2. Range(queue[3] \o queue[2]) = Range(queue[3]) \cup Range(queue[2])
        BY <1>1, Joined
      <3>. QED
        BY <1>1, <1>10, <3>1, <3>2
    <2>4. \A st \in 1 .. 3 : Apart(queue'[st])
      BY <1>1, <1>10, <2>1, <2>2, <2>3
    <2>5. \A st, su \in 1 .. 3 : st # su => Range(queue'[st]) \cap Range(queue'[su]) = {}
      <3>1. Range(queue'[2]) = {} /\ Range(queue'[1]) \cap Range(queue'[3]) = {}
        BY <1>1, <1>4, <1>10, <2>2, <2>3
      <3>. QED
        BY <2>1, <3>1
    <2>6. ASSUME NEW s \in Range(queue'[1]) \cup Range(queue'[2]) PROVE Childless(s)'
      <3>1. s \in (DOMAIN sections') \ DOMAIN sections
        BY <1>1, <1>10, <2>2
      <3>. SUFFICES ASSUME NEW c \in DOMAIN sections', sections'[c].parent = s PROVE FALSE
        BY DEF Childless
      <3>2. CASE c \in DOMAIN sections
        <4>1. sections[c].parent = s /\ s # 0
          <5>1. s # 0
            BY <1>6, <3>1
          <5>. QED
            BY <1>1, <3>2, <5>1
        <4>. QED
          BY <1>8, <3>1, <3>2, <4>1
      <3>3. CASE c \notin DOMAIN sections
        BY <1>4, <1>7, <3>1, <3>3
      <3>. QED
        BY <3>2, <3>3
    <2>7. ASSUME NEW s \in Range(queue'[3]) PROVE OpenedUp(s)'
      <3>1. s \in DOMAIN sections /\ sections'[s] = sections[s]
        BY <1>1, <1>4, <2>3
      <3>2. CASE s \in Range(queue[2])
        BY <1>1, <1>10, <3>1, <3>2 DEF OpenedUp
      <3>3. CASE s \in Range(queue[3])
        <4>1. OpenedUp(s)
          BY <1>1, <1>2, <2>7, <3>3 DEF Tidy
        <4>. QED
          BY <1>1, <3>1, <4>1 DEF OpenedUp
      <3>. QED
        BY <2>3, <3>2, <3>3
    <2>. QED
      BY <2>4, <2>5, <2>6, <2>7 DEF Tidy
  <1>. QED
    BY <1>9, <1>10 DEF TidyInv

LEMMA TidyStep ==
    ASSUME AsmInv, TreeInv, TidyInv, [AsmNext]_asmVars
    PROVE  TidyInv'
  <1>1. CASE Tokenize
    BY <1>1, TidyTokenize
  <1>2. CASE Preprocess
    BY <1>2, TidyPreprocess
  <1>3. CASE EndLoop
    BY <1>3, TidyEndLoop
  <1>4. CASE Ignore \/ GiveUp \/ Parse \/ CheckSanity \/ AssignAddresses \/ PackImage \/ Finish
    <2>1. ~Open'
      BY <1>4, NoneOpened
    <2>2. /\ DOMAIN sections' = DOMAIN sections
          /\ \A s \in DOMAIN sections : sections'[s].parent = sections[s].parent /\ sections'[s].line = sections[s].line
      <3>1. CASE Parse
        <4>1. sections' = [s \in DOMAIN sections |->
                 IF s \in Range(queue[Stage.PREPROCESS]) THEN [sections[s] EXCEPT !.ir = Parsed(s)] ELSE sections[s]]
          BY <3>1 DEF Parse
        <4>2. \A s \in DOMAIN sections : {"parent", "line"} \subseteq DOMAIN sections[s]
          BY SectionFields
        <4>. QED
          BY <4>1, <4>2
      <3>2. CASE CheckSanity
        <4>. DEFINE Now(s) == [sections[s] EXCEPT !.ir = Checked(s)]
        <4>1. sections' = [s \in DOMAIN sections |-> Now(s)]
          BY <3>2 DEF CheckSanity
        <4>2. \A s \in DOMAIN sections : {"parent", "line"} \subseteq DOMAIN sections[s]
          BY SectionFields
        <4>3. \A s \in DOMAIN sections : Now(s).parent = sections[s].parent /\ Now(s).line = sections[s].line
          BY <4>2
        <4>. HIDE DEF Now
        <4>. QED
          BY <4>1, <4>3
      <3>3. CASE Ignore \/ GiveUp \/ AssignAddresses \/ PackImage \/ Finish
        BY <3>3 DEF Ignore, GiveUp, AssignAddresses, PackImage, Finish, text
      <3>. QED
        BY <1>4, <3>1, <3>2, <3>3
    <2>. QED
      BY <2>1, <2>2, TidyStays
  <1>5. CASE UNCHANGED asmVars
    <2>1. /\ sections' = sections /\ queue' = queue /\ phase' = phase /\ target' = target /\ errors' = errors
      BY <1>5 DEF asmVars, text, layout, driver
    <2>2. Open' = Open
      BY <2>1 DEF Open, Stuck, Waiting, Expanding, Own
    <2>3. OneEach' = OneEach
      BY <2>1 DEF OneEach
    <2>4. \A s : Childless(s)' = Childless(s) /\ OpenedUp(s)' = OpenedUp(s)
      BY <2>1 DEF Childless, OpenedUp
    <2>5. Tidy' = Tidy
      BY <2>1, <2>4 DEF Tidy
    <2>. QED
      BY <2>2, <2>3, <2>5 DEF TidyInv
  <1>. QED
    BY <1>1, <1>2, <1>3, <1>4, <1>5 DEF AsmNext, Returned

-----------------------------------------------------------------------------
(* NameInv is an invariant: the driver, and the transforms that enter no names. *)

LEMMA NameInit ==
    ASSUME AsmInit, AsmInv
    PROVE  NameInv
  <1>1. /\ queue = [st \in Stages |-> IF st = Stage.RAW THEN <<OS>> ELSE << >>]
        /\ symbols = [x \in Names |-> [t \in {OS, User} |-> Table(<< >>)!Absent]]
        /\ phase = "os" /\ places = << >> /\ failed = FALSE
    BY DEF AsmInit
  <1>2. \A s \in DOMAIN sections : sections[s].ir = << >>
    BY FirstSections
  <1>3. DOMAIN << >> = {}
    OBVIOUS
  <1>4. \A t : Seen(sections, t) = {}
    BY <1>2, <1>3 DEF Seen
  <1>5. \A x : PlacesOf(sections, x) = [t \in {OS, User} |-> {}] /\ ExportedBy(sections, x) = {}
    <2>1. \A t, x : DefinedAt(sections, t, x) = {}
      BY <1>4 DEF DefinedAt
    <2>2. \A x : ExportedBy(sections, x) = {}
      BY <1>4 DEF ExportedBy
    <2>. QED
      BY <2>1, <2>2 DEF PlacesOf
  <1>6. Fitted
    <2>1. DOMAIN symbols = Names /\ \A x \in Names : symbols[x] = [t \in {OS, User} |-> Rec("kUndefined", "absent", 0)]
      BY <1>1, EntriesAre
    <2>2. Rec("kUndefined", "absent", 0) \in Table(<< >>)!Entry
      BY EntriesAre
    <2>3. ASSUME NEW t \in {OS, User}
          PROVE  Side(Rec("kUndefined", "absent", 0), Rec("kUndefined", "absent", 0), {}, FALSE, FALSE, t)
      <3>1. Rec("kUndefined", "absent", 0).binding = "absent"
        BY EntriesAre
      <3>. QED
        BY <3>1 DEF Side
    <2>4. ASSUME NEW x \in Names PROVE Fits(symbols[x], PlacesOf(sections, x), ExportedBy(sections, x))
      <3>. PICK m, d : m = symbols[x] /\ d = PlacesOf(sections, x)
        OBVIOUS
      <3>1. /\ m \in [{OS, User} -> Table(<< >>)!Entry]
            /\ \A t \in {OS, User} : m[t] = Rec("kUndefined", "absent", 0) /\ d[t] = {}
        BY <1>5, <2>1, <2>2
      <3>2. \A t \in {OS, User} : Side(m[t], m[Other(t)], d[t], FALSE, FALSE, Other(t))
        BY <2>3, <3>1, Tables2
      <3>3. Fits(m, d, {})
        BY <3>1, <3>2 DEF Fits, Side
      <3>. QED
        BY <1>5, <3>3
    <2>. QED
      BY <2>1, <2>4 DEF Fitted
  <1>7. AllRead
    BY <1>2, <1>3 DEF AllRead
  <1>8. Passed
    <2>1. queue[1] # << >> /\ 1 \in 1 .. 3
      BY <1>1, StageNumbers
    <2>. QED
      BY <1>1, <2>1 DEF Passed
  <1>9. TargetFits
    <2>. DEFINE os == Section(OS, 0, 0, "", << >>, request.os)
                us == Section(User, 0, 0, "", << >>, request.user)
                user == IF request.user = << >> THEN << >> ELSE <<us>>
    <2>0. sections = <<os>> \o user /\ target = IF user = << >> THEN request.target ELSE Stage.SYMANTIC
      BY DEF AsmInit
    <2>. HIDE DEF os, us
    <2>1. CASE request.user = << >>
      <3>1. <<os>> \o << >> = <<os>>
        OBVIOUS
      <3>2. sections = <<os>>
        BY <2>0, <2>1, <3>1
      <3>3. DOMAIN sections = {1}
        BY <3>2
      <3>. QED
        BY <3>3 DEF TargetFits, Programs, User
    <2>2. CASE request.user # << >>
      <3>1. user # << >>
        BY <2>2
      <3>. HIDE DEF user
      <3>2. target = 4
        BY <2>0, <3>1, StageNumbers
      <3>. QED
        BY <3>2 DEF TargetFits
    <2>. QED
      BY <2>1, <2>2
  <1>. QED
    BY <1>1, <1>6, <1>7, <1>8, <1>9 DEF NameInv

\* What a transform does to the target.
LEMMA AimKept ==
    ASSUME AsmInv, NameInv, NEW st \in Stages, Take(st), NEW ok \in BOOLEAN, NEW work, Requeue(st, ok, work),
           User \in Programs' => User \in Programs
    PROVE  TargetFits' /\ (~failed' => ok) /\ ~failed /\ phase' = phase /\ (~failed' => target' = target)
  <1>1. /\ failed' = (failed \/ ~ok) /\ target' = (IF ok THEN target ELSE Min({target, st})) /\ phase' = phase
    BY DEF Requeue
  <1>2. ~failed /\ st < target /\ st \in 1 .. 8 /\ target \in 1 .. 8
    BY Taken, StageNumbers DEF AsmInv, DriverSound
  <1>3. Min({target, st}) <= target
    <2>1. {target, st} \in SUBSET Nat /\ {target, st} # {}
      BY <1>2
    <2>. QED
      BY <2>1, Smallest
  <1>4. (~ok => failed') /\ (ok => target' = target)
    BY <1>1
  <1>5. ~ok => target' \in 1 .. 8 /\ target' <= target
    <2>1. {target, st} \in SUBSET Nat /\ {target, st} # {}
      BY <1>2
    <2>2. Min({target, st}) \in {target, st}
      BY <2>1, Smallest
    <2>. QED
      BY <1>1, <1>2, <1>3, <2>2
  <1>6. TargetFits'
    <2>. SUFFICES ASSUME phase = "os", User \in Programs PROVE target' <= 4 /\ (~failed' => target' = 4)
      BY <1>1 DEF TargetFits
    <2>1. target <= 4 /\ target = 4
      BY <1>2 DEF NameInv, TargetFits
    <2>. QED
      BY <1>2, <1>4, <1>5, <2>1
  <1>. QED
    BY <1>1, <1>2, <1>4, <1>6

\* While the texts are looked at no line has a place.
LEMMA NotPlaced ==
    ASSUME AsmInv, NameInv, NEW st \in 1 .. 5, Take(st)
    PROVE  places = << >>
  <1>1. queue[st] # << >>
    <2>1. st \in Stages
      BY StageNumbers
    <2>. QED
      BY <2>1, Taken
  <1>. QED
    BY <1>1 DEF NameInv, Settled, Done

\* Where nothing changes but the driver.
LEMMA NamesSame ==
    ASSUME NameInv, UNCHANGED <<sections, symbols, errors, places>>, TargetFits', errors = {} => Passed',
           places # << >> => Done' /\ (phase' = "os" => User \notin Programs)
    PROVE  NameInv'
  <1>1. /\ Fitted' = Fitted /\ AllRead' = AllRead
    BY DEF Fitted, AllRead
  <1>2. ASSUME places # << >> PROVE Settled'
    <2>1. Settled
      BY <1>2 DEF NameInv
    <2>2. Programs' = Programs
      BY DEF Programs
    <2>3. \A r, t : BadSymbols(r, t)' = BadSymbols(r, t)
      BY DEF BadSymbols
    <2>. QED
      BY <1>2, <2>1, <2>2, <2>3 DEF Settled
  <1>. QED
    BY <1>1, <1>2 DEF NameInv

LEMMA NamesIgnore ==
    ASSUME AsmInv, NameInv, Ignore
    PROVE  NameInv'
  <1>1. /\ Running /\ Lowest >= target /\ queue' = [queue EXCEPT ![Lowest] = << >>]
        /\ sections' = sections /\ symbols' = symbols /\ errors' = errors /\ places' = places
        /\ target' = target /\ failed' = failed /\ phase' = phase
    BY DEF Ignore, text, layout
  <1>2. Programs' = Programs /\ Own' = Own
    BY <1>1 DEF Programs, Own
  <1>3. TargetFits'
    BY <1>1, <1>2 DEF NameInv, TargetFits
  <1>4. /\ Lowest \in Stages /\ queue[Lowest] # << >>
        /\ \A u \in Stages : u < Lowest => queue[u] = << >>
    BY <1>1, LowestIs DEF Running
  <1>5. \A u \in Stages : queue'[u] = IF u = Lowest THEN << >> ELSE queue[u]
    BY <1>1, <1>4 DEF AsmInv, DriverSound
  <1>6. ASSUME errors = {} PROVE Passed'
    <2>. SUFFICES ASSUME ~failed, phase # "done"
                  PROVE  /\ phase = "user" => \A s \in DOMAIN sections : sections[s].top = OS => Parses(sections, s)
                         /\ target < 4 \/ \A s \in Own : Parses(sections, s)
      BY <1>1, <1>2 DEF Passed
    <2>1. /\ phase = "user" => \A s \in DOMAIN sections : sections[s].top = OS => Parses(sections, s)
          /\ \/ \E st \in 1 .. 3 : queue[st] # << >>
             \/ target < 4
             \/ \A s \in Own : Parses(sections, s)
      BY <1>6 DEF NameInv, Passed
    <2>2. ASSUME NEW st \in 1 .. 3, queue[st] # << >> PROVE target < 4
      <3>1. st \in Stages /\ ~(st < Lowest) /\ Lowest \in 1 .. 8 /\ target \in 1 .. 8
        <4>1. st \in Stages
          BY StageNumbers
        <4>2. Lowest \in 1 .. 8 /\ target \in 1 .. 8
          BY <1>4, StageNumbers DEF AsmInv, DriverSound
        <4>. QED
          BY <1>4, <2>2, <4>1, <4>2
      <3>. QED
        BY <1>1, <3>1
    <2>. QED
      BY <2>1, <2>2
  <1>7. ASSUME places # << >> PROVE Done' /\ (phase' = "os" => User \notin Programs)
    <2>1. Done /\ (phase = "os" => User \notin Programs)
      BY <1>7 DEF NameInv, Settled
    <2>2. \A u \in 1 .. 5 : u \in Stages
      BY StageNumbers
    <2>. QED
      BY <1>1, <1>5, <2>1, <2>2 DEF Done
  <1>. QED
    BY <1>1, <1>3, <1>6, <1>7, NamesSame

LEMMA NamesGiveUp ==
    ASSUME AsmInv, NameInv, GiveUp
    PROVE  NameInv'
  <1>1. /\ Running /\ queue' = [queue EXCEPT ![Lowest] = << >>]
        /\ sections' = sections /\ symbols' = symbols /\ errors' = errors /\ places' = places
        /\ phase' = "done"
    BY DEF GiveUp, text, layout
  <1>2. TargetFits' /\ Passed'
    BY <1>1 DEF TargetFits, Passed
  <1>3. Lowest \in Stages
    BY <1>1, LowestIs DEF Running
  <1>4. \A u \in Stages : queue'[u] = IF u = Lowest THEN << >> ELSE queue[u]
    BY <1>1, <1>3 DEF AsmInv, DriverSound
  <1>5. ASSUME places # << >> PROVE Done'
    <2>1. Done
      BY <1>5 DEF NameInv, Settled
    <2>2. \A u \in 1 .. 5 : u \in Stages
      BY StageNumbers
    <2>. QED
      BY <1>4, <2>1, <2>2 DEF Done
  <1>. QED
    BY <1>1, <1>2, <1>5, NamesSame

LEMMA NamesEndLoop ==
    ASSUME AsmInv, NameInv, EndLoop
    PROVE  NameInv'
  <1>1. /\ phase # "done" /\ Waiting = {}
        /\ sections' = sections /\ symbols' = symbols /\ errors' = errors /\ places' = places /\ failed' = failed
    BY DEF EndLoop, text, layout
  <1>2. CASE phase = "os" /\ User \in Programs /\ ~failed
    <2>1. phase' = "user" /\ queue' = [queue EXCEPT ![Stage.RAW] = <<User>>]
      BY <1>2 DEF EndLoop
    <2>2. queue'[1] # << >> /\ 1 \in 1 .. 3
      BY <2>1, StageNumbers DEF AsmInv, DriverSound
    <2>3. TargetFits'
      BY <2>1 DEF TargetFits
    <2>4. ASSUME errors = {} PROVE Passed'
      <3>1. target = 4
        BY <1>2 DEF NameInv, TargetFits
      <3>2. \A st \in 1 .. 3 : queue[st] = << >>
        BY <1>1, StageNumbers DEF Waiting
      <3>3. \A s \in Own : Parses(sections, s)
        BY <1>2, <2>4, <3>1, <3>2 DEF NameInv, Passed
      <3>4. \A s \in DOMAIN sections : sections[s].top = OS => Parses(sections, s)
        BY <1>2, <3>3 DEF Own
      <3>. QED
        BY <1>1, <2>2, <3>4 DEF Passed
    <2>5. places = << >>
      BY <1>2 DEF NameInv, Settled
    <2>. QED
      BY <1>1, <2>3, <2>4, <2>5, NamesSame
  <1>3. CASE ~(phase = "os" /\ User \in Programs /\ ~failed)
    <2>1. phase' = "done" /\ queue' = queue
      BY <1>3 DEF EndLoop
    <2>2. TargetFits' /\ Passed'
      BY <2>1 DEF TargetFits, Passed
    <2>3. places # << >> => Done'
      BY <2>1 DEF NameInv, Settled, Done
    <2>. QED
      BY <1>1, <2>1, <2>2, <2>3, NamesSame
  <1>. QED
    BY <1>2, <1>3

\* After the parser a transform leaves what is parsed.
LEMMA PassedOn ==
    ASSUME AsmInv, NameInv, NEW st \in 4 .. 7, Take(st), errors = {}, phase' = phase,
           DOMAIN sections' = DOMAIN sections, \A s \in DOMAIN sections : sections'[s].top = sections[s].top,
           \A s \in DOMAIN sections : Parses(sections, s) => Parses(sections', s)
    PROVE  Passed' /\ \A s \in Own : Parses(sections, s)
  <1>1. st \in Stages /\ \A u \in 1 .. 3 : u \in Stages /\ u < st
    BY StageNumbers
  <1>2. ~failed /\ phase \in {"os", "user"} /\ st < target /\ \A u \in 1 .. 3 : queue[u] = << >>
    BY <1>1, Taken
  <1>3. ~(target < 4)
    <2>1. target \in 1 .. 8
      BY StageNumbers DEF AsmInv, DriverSound
    <2>. QED
      BY <1>2, <2>1
  <1>4. /\ phase = "user" => \A s \in DOMAIN sections : sections[s].top = OS => Parses(sections, s)
        /\ \A s \in Own : Parses(sections, s)
    BY <1>2, <1>3 DEF NameInv, Passed
  <1>5. Own' = Own
    BY DEF Own
  <1>6. \A s \in Own : Parses(sections', s)
    BY <1>4 DEF Own
  <1>. QED
    BY <1>4, <1>5, <1>6 DEF Passed


LEMMA JoinedSome ==
    ASSUME NEW x \in Seq(Nat), NEW y \in Seq(Nat), y # << >>
    PROVE  x \o y # << >>
  <1>1. Len(x \o y) = Len(x) + Len(y)
    BY ConcatProperties
  <1>2. Len(y) \in Nat \ {0} /\ Len(x) \in Nat /\ Len(<< >>) = 0
    BY EmptySeq, LenProperties
  <1>. QED
    BY <1>1, <1>2

LEMMA NamesTokenize ==
    ASSUME AsmInv, CircleInv, TreeInv, NameInv, Tokenize
    PROVE  NameInv'
  <1>1. /\ Open /\ phase' = phase /\ symbols' = symbols /\ places' = places /\ DOMAIN sections' = DOMAIN sections
        /\ \A s \in DOMAIN sections :
                 /\ sections'[s].top = sections[s].top /\ sections'[s].parent = sections[s].parent
                 /\ sections'[s].line = sections[s].line /\ sections'[s].ir = sections[s].ir
                 /\ DOMAIN sections'[s].lines = DOMAIN sections[s].lines
                 /\ s \notin Range(queue[1]) => sections'[s] = sections[s]
        /\ errors \subseteq errors' /\ Take(1) /\ queue[1] \in Seq(Nat) /\ queue[2] \in Seq(Nat) /\ queue[1] # << >>
        /\ errors' = {} => queue'[2] = queue[2] \o queue[1]
    BY TokenizeIs
  <1>2. \A s \in Own : sections[s].ir = << >>
    BY <1>1 DEF CircleInv
  <1>3. Keeps(sections, sections')
    <2>1. ASSUME NEW s \in DOMAIN sections, NEW i \in DOMAIN sections[s].ir
          PROVE  sections'[s].lines[i] = sections[s].lines[i] /\ Alike(sections'[s].ir[i], sections[s].ir[i])
      <3>1. s \notin Range(queue[1])
        <4>1. DOMAIN << >> = {}
          OBVIOUS
        <4>. QED
          BY <1>1, <1>2, <2>1, <4>1 DEF Open, Expanding
      <3>2. sections'[s] = sections[s]
        BY <1>1, <3>1
      <3>. QED
        BY <3>2 DEF Alike
    <2>. QED
      BY <1>1, <2>1 DEF Keeps
  <1>4. /\ errors' = {} => Fitted' /\ AllRead' /\ errors = {}
        /\ errors' = {} => \A s \in DOMAIN sections : Parses(sections, s) => Parses(sections', s)
    BY <1>1, <1>3, NamesStay
  <1>5. TargetFits' /\ ~failed /\ phase # "done"
    <2>. DEFINE bad == UNION {{Error(s, i, "token") : i \in {i \in DOMAIN sections[s].lines :
                                  sections[s].lines[i].kind = "bad"}} : s \in Range(queue[Stage.RAW])}
    <2>1. Requeue(Stage.RAW, bad = {}, [u \in {Stage.TOKEN} |-> queue[Stage.RAW]]) /\ (bad = {}) \in BOOLEAN
      BY DEF Tokenize
    <2>. HIDE DEF bad
    <2>2. Requeue(1, bad = {}, [u \in {2} |-> queue[1]]) /\ 1 \in Stages
      BY <2>1, StageNumbers
    <2>3. User \in Programs' => User \in Programs
      BY <1>1 DEF Programs
    <2>. QED
      BY <1>1, <2>1, <2>2, <2>3, AimKept DEF Open
  <1>6. ASSUME errors' = {} PROVE Passed'
    <2>1. 2 \in 1 .. 3 /\ queue'[2] # << >>
      <3>1. queue[2] \o queue[1] # << >>
        BY <1>1, JoinedSome
      <3>2. queue'[2] = queue[2] \o queue[1]
        BY <1>1, <1>6
      <3>. QED
        BY <3>1, <3>2
    <2>2. phase = "user" => \A s \in DOMAIN sections : sections[s].top = OS => Parses(sections, s)
      BY <1>4, <1>5, <1>6 DEF NameInv, Passed
    <2>. QED
      BY <1>1, <1>4, <1>6, <2>1, <2>2 DEF Passed
  <1>7. places' = << >>
    <2>1. 1 \in 1 .. 5
      OBVIOUS
    <2>. QED
      BY <1>1, <2>1, NotPlaced
  <1>. QED
    BY <1>4, <1>5, <1>6, <1>7 DEF NameInv

LEMMA NamesPreprocess ==
    ASSUME AsmInv, TreeInv, NameInv, Preprocess
    PROVE  NameInv'
  <1>1. /\ Open /\ phase' = phase /\ symbols' = symbols /\ places' = places
        /\ errors \subseteq errors' /\ Take(2) /\ queue[2] \in Seq(Nat) /\ queue[3] \in Seq(Nat) /\ queue[2] # << >>
        /\ \A s \in DOMAIN sections : s \in DOMAIN sections' /\ sections'[s] = sections[s]
        /\ \A s \in (DOMAIN sections') \ DOMAIN sections :
                 sections'[s].ir = << >> /\ sections'[s].parent # 0 /\ sections'[s].top = Current
        /\ errors' = {} => queue'[3] = queue[3] \o queue[2]
    BY PreprocessIs
  <1>2. Keeps(sections, sections')
    <2>1. DOMAIN << >> = {}
      OBVIOUS
    <2>. QED
      BY <1>1, <2>1 DEF Keeps, Alike
  <1>3. /\ errors' = {} => Fitted' /\ AllRead' /\ errors = {}
        /\ errors' = {} => \A s \in DOMAIN sections : Parses(sections, s) => Parses(sections', s)
    BY <1>1, <1>2, NamesStay
  <1>4. TargetFits' /\ ~failed /\ phase # "done"
    <2>1. PICK new, wrong, graph, opened : Opening(new, wrong, graph, opened)
      BY PreprocessOpens
    <2>. PICK work : work = [u \in {Stage.RAW, Stage.PREPROCESS} |->
                                IF u = Stage.RAW THEN [k \in DOMAIN new |-> Len(sections) + k] ELSE queue[Stage.TOKEN]]
      OBVIOUS
    <2>2. Requeue(Stage.TOKEN, wrong = {}, work) /\ (wrong = {}) \in BOOLEAN
      BY <2>1 DEF Opening
    <2>3. Requeue(2, wrong = {}, work) /\ 2 \in Stages
      BY <2>2, StageNumbers
    <2>4. User \in Programs' => User \in Programs
      BY <1>1 DEF Programs
    <2>. QED
      BY <1>1, <2>2, <2>3, <2>4, AimKept DEF Open
  <1>5. ASSUME errors' = {} PROVE Passed'
    <2>1. 3 \in 1 .. 3 /\ queue'[3] # << >>
      <3>1. queue[3] \o queue[2] # << >>
        BY <1>1, JoinedSome
      <3>2. queue'[3] = queue[3] \o queue[2]
        BY <1>1, <1>5
      <3>. QED
        BY <3>1, <3>2
    <2>2. phase = "user" => \A s \in DOMAIN sections : sections[s].top = OS => Parses(sections, s)
      BY <1>3, <1>4, <1>5 DEF NameInv, Passed
    <2>3. ASSUME phase = "user", NEW s \in DOMAIN sections', sections'[s].top = OS PROVE Parses(sections', s)
      <3>1. s \in DOMAIN sections
        BY <1>1, <2>3 DEF Current, OS, User
      <3>. QED
        BY <1>1, <1>3, <1>5, <2>2, <2>3, <3>1
    <2>. QED
      BY <1>1, <2>1, <2>3 DEF Passed
  <1>6. places' = << >>
    <2>1. 2 \in 1 .. 5
      OBVIOUS
    <2>. QED
      BY <1>1, <2>1, NotPlaced
  <1>. QED
    BY <1>3, <1>4, <1>5, <1>6 DEF NameInv

LEMMA NamesCheckSanity ==
    ASSUME AsmInv, TreeInv, NameInv, CheckSanity
    PROVE  NameInv'
  <1>. DEFINE wrong == UNION {{Error(p, i, "sanity") : i \in Insane(p)} : p \in Programs}
              Now(s) == [sections[s] EXCEPT !.ir = Checked(s)]
  <1>1. /\ Take(Stage.SYMANTIC)
        /\ Requeue(Stage.SYMANTIC, wrong = {}, [u \in {Stage.SANITY} |-> queue[Stage.SYMANTIC]])
        /\ sections' = [s \in DOMAIN sections |-> Now(s)] /\ errors' = errors \cup wrong
        /\ symbols' = symbols /\ places' = places
    BY DEF CheckSanity, layout
  <1>. HIDE DEF wrong
  <1>2. ASSUME NEW s \in DOMAIN sections
        PROVE  /\ sections'[s].top = sections[s].top /\ sections'[s].parent = sections[s].parent
               /\ sections'[s].line = sections[s].line /\ sections'[s].lines = sections[s].lines
               /\ DOMAIN sections'[s].ir = DOMAIN sections[s].ir
               /\ \A i \in DOMAIN sections[s].ir :
                     sections'[s].ir[i] = [sections[s].ir[i] EXCEPT !.emits = @ /\ ~Burned(s, i)]
    <2>1. {"top", "parent", "lines", "ir", "line"} \subseteq DOMAIN sections[s]
      BY SectionFields
    <2>2. /\ Now(s).top = sections[s].top /\ Now(s).parent = sections[s].parent
          /\ Now(s).line = sections[s].line /\ Now(s).lines = sections[s].lines
      BY <2>1
    <2>3. Now(s).ir = [i \in DOMAIN sections[s].ir |-> [sections[s].ir[i] EXCEPT !.emits = @ /\ ~Burned(s, i)]]
      <3>1. Now(s).ir = Checked(s)
        BY <2>1
      <3>. HIDE DEF Now
      <3>. QED
        BY <3>1 DEF Checked
    <2>4. sections'[s] = Now(s)
      BY <1>1
    <2>. HIDE DEF Now
    <2>. QED
      BY <2>2, <2>3, <2>4
  <1>3. DOMAIN sections' = DOMAIN sections
    BY <1>1
  <1>. HIDE DEF Now
  <1>4. ASSUME errors = {} PROVE Keeps(sections, sections')
    <2>1. ASSUME NEW s \in DOMAIN sections, NEW i \in DOMAIN sections[s].ir
          PROVE  Alike(sections'[s].ir[i], sections[s].ir[i])
      <3>. PICK q : q = sections[s].ir[i]
        OBVIOUS
      <3>1. {"kind", "label", "name", "source", "child"} \subseteq DOMAIN q
        <4>1. Parses(sections, s)
          BY <1>4, <2>1 DEF NameInv, AllRead
        <4>. QED
          BY <2>1, <4>1 DEF Parses, Reads
      <3>. PICK r : r = [q EXCEPT !.emits = @ /\ ~Burned(s, i)]
        OBVIOUS
      <3>2. /\ DOMAIN r = DOMAIN q /\ r.kind = q.kind /\ r.label = q.label /\ r.name = q.name
            /\ r.source = q.source /\ r.child = q.child
        BY <3>1
      <3>3. sections'[s].ir[i] = r
        BY <1>2
      <3>. QED
        BY <3>2, <3>3 DEF Alike
    <2>. QED
      BY <1>2, <1>3, <2>1 DEF Keeps
  <1>5. /\ errors' = {} => Fitted' /\ AllRead' /\ errors = {}
        /\ errors' = {} => \A s \in DOMAIN sections : Parses(sections, s) => Parses(sections', s)
    BY <1>1, <1>4, NamesStay
  <1>6. TargetFits' /\ Take(4) /\ phase' = phase
    <2>1. Requeue(4, wrong = {}, [u \in {5} |-> queue[4]]) /\ 4 \in Stages /\ (wrong = {}) \in BOOLEAN /\ Take(4)
      BY <1>1, StageNumbers
    <2>2. User \in Programs' => User \in Programs
      BY <1>2, <1>3 DEF Programs
    <2>. QED
      BY <1>1, <2>1, <2>2, AimKept
  <1>7. ASSUME errors' = {} PROVE Passed'
    <2>1. 4 \in 4 .. 7
      OBVIOUS
    <2>. QED
      BY <1>2, <1>3, <1>5, <1>6, <1>7, <2>1, PassedOn
  <1>8. places' = << >>
    <2>1. 4 \in 1 .. 5
      OBVIOUS
    <2>. QED
      BY <1>1, <1>6, <2>1, NotPlaced
  <1>. QED
    BY <1>5, <1>6, <1>7, <1>8 DEF NameInv

\* The image is packed, and written.
LEMMA NamesImage ==
    ASSUME AsmInv, NameInv, NEW st \in 6 .. 7, Take(st), NEW batch \in Seq(Nat), Requeue(st, TRUE, [u \in {st + 1} |-> batch]),
           sections' = sections, symbols' = symbols, errors' = errors, places' = places
    PROVE  NameInv'
  <1>1. st \in Stages /\ st + 1 \in Stages \ {st} /\ TRUE \in BOOLEAN /\ st \in 4 .. 7
    BY StageNumbers
  <1>2. TargetFits' /\ phase' = phase
    <2>1. User \in Programs' => User \in Programs
      BY DEF Programs
    <2>. QED
      BY <1>1, <2>1, AimKept
  <1>3. ASSUME errors = {} PROVE Passed'
    <2>1. DOMAIN sections' = DOMAIN sections /\ \A s \in DOMAIN sections : sections'[s].top = sections[s].top
      OBVIOUS
    <2>2. \A s \in DOMAIN sections : Parses(sections, s) => Parses(sections', s)
      OBVIOUS
    <2>. QED
      BY <1>1, <1>2, <1>3, <2>1, <2>2, PassedOn
  <1>4. ASSUME places # << >> PROVE Done' /\ (phase' = "os" => User \notin Programs)
    <2>1. Done /\ (phase = "os" => User \notin Programs)
      BY <1>4 DEF NameInv, Settled
    <2>2. \A u \in Stages \ {st, st + 1} : queue'[u] = queue[u]
      BY <1>1, Forwarded
    <2>3. \A u \in 1 .. 5 : u \in Stages \ {st, st + 1}
      BY StageNumbers
    <2>. QED
      BY <1>2, <2>1, <2>2, <2>3 DEF Done
  <1>. QED
    BY <1>2, <1>3, <1>4, NamesSame

-----------------------------------------------------------------------------
(* The parser. *)

\* A section none of whose lines are rejected, with its macros opened up, is read line by line.
LEMMA ParsedIs ==
    ASSUME AsmInv, TreeInv, NEW s \in DOMAIN sections, OpenedUp(s),
           \A i \in DOMAIN sections[s].lines : ~Rejected(sections[s].lines[i])
    PROVE  /\ DOMAIN Parsed(s) = DOMAIN sections[s].lines
           /\ \A i \in DOMAIN sections[s].lines : Reads(sections, s, i, Parsed(s)[i])
  <1>. DEFINE lines == sections[s].lines
              Child(i) == IF lines[i].kind = "macro" THEN ChildOf(s, i) ELSE 0
              Line(i) == AsRead(lines[i], i, Child(i))
              f == [i \in DOMAIN lines |-> Line(i)]
  <1>1. lines \in Seq(TextLine) /\ s \in Nat \ {0}
    BY Fitting DEF TreeInv
  <1>2. DOMAIN lines = 1 .. Len(lines) /\ Len(lines) \in Nat /\ \A i \in DOMAIN lines : lines[i] \in TextLine
    BY <1>1, LenProperties, ElementOfSeq
  <1>3. Parsed(s) = FlattenSeq([i \in DOMAIN lines |-> IF Rejected(lines[i]) THEN << >> ELSE <<Line(i)>>])
    BY DEF Parsed
  <1>4. \A i \in DOMAIN lines : ~Rejected(lines[i])
    OBVIOUS
  <1>. HIDE DEF Line
  <1>5. DOMAIN f = DOMAIN lines /\ \A i \in DOMAIN lines : f[i] = Line(i)
    OBVIOUS
  <1>6. f \in Seq(Range(f))
    <2>1. f \in [1 .. Len(lines) -> Range(f)]
      <3>1. f = [i \in 1 .. Len(lines) |-> f[i]] /\ \A i \in 1 .. Len(lines) : f[i] \in Range(f)
        BY <1>2, <1>5 DEF Range
      <3>. HIDE DEF f
      <3>. QED
        BY <3>1
    <2>. HIDE DEF f, lines
    <2>. QED
      BY <1>2, <2>1, SeqDef
  <1>7. [i \in DOMAIN lines |-> IF Rejected(lines[i]) THEN << >> ELSE <<Line(i)>>] = [i \in DOMAIN f |-> <<f[i]>>]
    BY <1>4, <1>5
  <1>8. Parsed(s) = f
    <2>. HIDE DEF f, lines
    <2>. QED
      BY <1>3, <1>6, <1>7, FlattenedSingles
  <1>9. ASSUME NEW i \in DOMAIN lines PROVE Reads(sections, s, i, f[i])
    <2>1. /\ {"kind", "label", "name", "source", "child"} \subseteq DOMAIN f[i]
          /\ f[i].kind = lines[i].kind /\ f[i].label = lines[i].label /\ f[i].name = lines[i].name
          /\ f[i].source = i /\ f[i].child = Child(i)
      <3>1. f[i] = AsRead(lines[i], i, Child(i))
        BY <1>5 DEF Line
      <3>. HIDE DEF Child, lines, f
      <3>. QED
        BY <3>1 DEF AsRead
    <2>2. ASSUME lines[i].kind = "macro"
          PROVE  Child(i) \in DOMAIN sections /\ sections[Child(i)].parent = s /\ sections[Child(i)].line = i
      <3>. DEFINE children == {c \in DOMAIN sections : /\ sections[c].parent = s /\ sections[c].line = i
                                                       /\ sections[c].name = sections[s].lines[i].name}
      <3>1. Child(i) = IF children = {} THEN 0 ELSE Min(children)
        BY <2>2 DEF ChildOf
      <3>2. i \in Macros(sections[s])
        BY <2>2 DEF Macros
      <3>3. PICK c \in DOMAIN sections : sections[c].parent = s /\ sections[c].line = i
        BY <3>2 DEF OpenedUp
      <3>4. sections[c].name = sections[s].lines[i].name
        BY <1>1, <3>3 DEF TreeInv, SectionFits, ForLine
      <3>5. children # {} /\ children \in SUBSET Nat
        <4>1. DOMAIN sections \subseteq Nat
          BY Fitting DEF TreeInv
        <4>. QED
          BY <3>3, <3>4, <4>1
      <3>6. Min(children) \in children
        <4>. HIDE DEF children
        <4>. QED
          BY <3>5, Smallest
      <3>. HIDE DEF Child
      <3>. QED
        BY <3>1, <3>5, <3>6
    <2>. HIDE DEF f, Child
    <2>. QED
      BY <2>1, <2>2 DEF Reads
  <1>. QED
    BY <1>5, <1>8, <1>9

\* What the parser does.
LEMMA ParseIs ==
    ASSUME AsmInv, CircleInv, TreeInv, TidyInv, Parse
    PROVE  /\ Take(3) /\ phase' = phase /\ places' = places /\ errors \subseteq errors' /\ phase # "done" /\ ~failed
           /\ DOMAIN sections' = DOMAIN sections
           /\ \A s \in DOMAIN sections :
                 /\ sections'[s].top = sections[s].top /\ sections'[s].parent = sections[s].parent
                 /\ sections'[s].line = sections[s].line /\ sections'[s].lines = sections[s].lines
                 /\ s \notin Own => sections'[s] = sections[s]
                 /\ s \in Own => sections[s].ir = << >>
           /\ queue[3] \in Seq(Nat) /\ Apart(queue[3]) /\ Range(queue[3]) = Own /\ Own # {}
           /\ symbols' = EnteredText(symbols, FlattenSeq([k \in DOMAIN queue[3] |-> sections[queue[3][k]].lines]), Current)
           /\ errors' = {} => \A s \in Own : Parses(sections', s)
  <1>. DEFINE here == Range(queue[Stage.PREPROCESS])
              wrong == UNION {{Error(s, i, "parse") : i \in {i \in DOMAIN sections[s].lines :
                                  Rejected(sections[s].lines[i])}} : s \in here}
              lines == FlattenSeq([k \in DOMAIN queue[3] |-> sections[queue[3][k]].lines])
  <1>1. /\ Take(Stage.PREPROCESS) /\ errors' = errors \cup wrong /\ places' = places /\ phase' = phase
        /\ sections' = [s \in DOMAIN sections |->
               IF s \in here THEN [sections[s] EXCEPT !.ir = Parsed(s)] ELSE sections[s]]
    BY DEF Parse, layout, Requeue
  <1>2. symbols' = EnteredText(symbols, lines, sections[queue[3][1]].top)
    BY StageNumbers DEF Parse
  <1>. HIDE DEF lines
  <1>3. /\ Take(3) /\ Open /\ ~failed /\ queue[1] = << >> /\ queue[2] = << >> /\ queue[3] # << >>
        /\ here = Range(queue[3]) /\ queue[3] \in Seq(Nat)
    <2>1. Open
      BY <1>1, TakenOpen, StageNumbers
    <2>2. 1 \in Stages /\ 2 \in Stages /\ 3 \in Stages /\ Take(3)
      BY <1>1, StageNumbers
    <2>. QED
      BY <2>1, <2>2, Taken, StageNumbers DEF AsmInv, DriverSound
  <1>4. here = Own
    <2>1. Range(<< >>) = {}
      BY DEF Range
    <2>. QED
      BY <1>3, <2>1 DEF Open, Expanding
  <1>. HIDE DEF here
  <1>5. \A s \in Own : sections[s].ir = << >> /\ s \in DOMAIN sections
    BY <1>3 DEF CircleInv, Own
  <1>6. DOMAIN sections' = DOMAIN sections
    BY <1>1
  <1>7. ASSUME NEW s \in DOMAIN sections
        PROVE  /\ sections'[s].top = sections[s].top /\ sections'[s].parent = sections[s].parent
               /\ sections'[s].line = sections[s].line /\ sections'[s].lines = sections[s].lines
               /\ s \notin Own => sections'[s] = sections[s]
               /\ s \in Own => sections'[s].ir = Parsed(s)
    <2>1. {"top", "parent", "lines", "ir", "line"} \subseteq DOMAIN sections[s]
      BY SectionFields
    <2>2. CASE s \in here
      <3>1. sections'[s] = [sections[s] EXCEPT !.ir = Parsed(s)]
        BY <1>1, <2>2
      <3>. QED
        BY <1>4, <2>1, <2>2, <3>1
    <2>3. CASE s \notin here
      BY <1>1, <1>4, <2>3
    <2>. QED
      BY <2>2, <2>3
  <1>8. Apart(queue[3])
    <2>1. 3 \in 1 .. 3
      OBVIOUS
    <2>. QED
      BY <1>3, <2>1 DEF TidyInv, Tidy
  <1>9. sections[queue[3][1]].top = Current
    <2>1. 1 \in DOMAIN queue[3]
      BY <1>3, EmptySeq, LenProperties
    <2>2. queue[3][1] \in Own
      BY <1>3, <1>4, <2>1 DEF Range
    <2>. QED
      BY <2>2 DEF Own, Current
  <1>10. ASSUME errors' = {}, NEW s \in Own PROVE Parses(sections', s)
    <2>1. OpenedUp(s)
      BY <1>1, <1>3, <1>4, <1>10 DEF TidyInv, Tidy
    <2>2. \A i \in DOMAIN sections[s].lines : ~Rejected(sections[s].lines[i])
      <3>1. wrong = {}
        BY <1>1, <1>10
      <3>2. \A i \in DOMAIN sections[s].lines : Rejected(sections[s].lines[i]) => Error(s, i, "parse") \in wrong
        BY <1>4
      <3>. QED
        BY <3>1, <3>2
    <2>3. /\ DOMAIN Parsed(s) = DOMAIN sections[s].lines
          /\ \A i \in DOMAIN sections[s].lines : Reads(sections, s, i, Parsed(s)[i])
      BY <1>5, <2>1, <2>2, ParsedIs
    <2>4. sections'[s].lines = sections[s].lines /\ sections'[s].ir = Parsed(s)
      BY <1>5, <1>7
    <2>5. ASSUME NEW i \in DOMAIN sections[s].lines PROVE Reads(sections', s, i, Parsed(s)[i])
      <3>. PICK r : r = Parsed(s)[i]
        OBVIOUS
      <3>1. Reads(sections, s, i, r)
        BY <2>3
      <3>2. \A c \in DOMAIN sections : c \in DOMAIN sections' /\ sections'[c].parent = sections[c].parent
                                       /\ sections'[c].line = sections[c].line
        BY <1>6, <1>7
      <3>3. Reads(sections', s, i, r)
        BY <2>4, <3>1, <3>2 DEF Reads
      <3>. QED
        BY <3>3
    <2>. QED
      BY <2>3, <2>4, <2>5 DEF Parses
  <1>11. Own # {}
    <2>1. 3 \in Stages
      BY StageNumbers
    <2>. QED
      BY <1>3, <2>1, OwnIsSome
  <1>12. phase # "done" /\ errors \subseteq errors'
    BY <1>1, <1>3 DEF Open
  <1>. QED
    BY <1>1, <1>2, <1>3, <1>4, <1>5, <1>6, <1>7, <1>8, <1>9, <1>10, <1>11, <1>12 DEF lines


LEMMA TextDomain ==
    ASSUME NEW sy, NEW t, NEW lines, NEW n \in Nat, DOMAIN lines = 1 .. n
    PROVE  DOMAIN EnteredText(sy, lines, t) = DOMAIN sy
  <1>1. PICK F : /\ F[0] = sy /\ EnteredText(sy, lines, t) = F[n]
                 /\ \A i \in 1 .. n : F[i] = Entered(F[i - 1], lines[i], t)
    BY EnteredSteps
  <1>2. \A m, line : DOMAIN Entered(m, line, t) = DOMAIN m
    BY DEF Entered
  <1>. DEFINE G == {k \in 0 .. n : DOMAIN F[k] = DOMAIN sy}
  <1>3. 0 \in G
    BY <1>1
  <1>4. ASSUME NEW i \in 1 .. n, i - 1 \in G PROVE i \in G
    BY <1>1, <1>2, <1>4
  <1>5. 0 .. n \subseteq G
    <2>. HIDE DEF G
    <2>. QED
      BY <1>3, <1>4, Upwards, Zenon
  <1>6. n \in G
    BY <1>5
  <1>. QED
    BY <1>1, <1>6

\* The parser makes the symbols fit the lines it has read.
LEMMA ParseFits ==
    ASSUME AsmInv, CircleInv, TreeInv, TidyInv, Parse, Fitted, errors' = {}
    PROVE  Fitted'
  <1>. DEFINE all == [k \in DOMAIN queue[3] |-> sections[queue[3][k]].lines]
              lines == FlattenSeq(all)
              t == Current
              L == Nat \X Nat
  <1>1. /\ DOMAIN sections' = DOMAIN sections
        /\ \A s \in DOMAIN sections :
                 /\ sections'[s].top = sections[s].top /\ sections'[s].lines = sections[s].lines
                 /\ s \notin Own => sections'[s] = sections[s]
                 /\ s \in Own => sections[s].ir = << >>
        /\ queue[3] \in Seq(Nat) /\ Apart(queue[3]) /\ Range(queue[3]) = Own
        /\ symbols' = EnteredText(symbols, lines, t)
        /\ \A s \in Own : Parses(sections', s)
    BY ParseIs
  <1>2. DOMAIN queue[3] = 1 .. Len(queue[3]) /\ Len(queue[3]) \in Nat
    BY <1>1, LenProperties
  <1>3. \A k \in DOMAIN queue[3] : queue[3][k] \in Own /\ queue[3][k] \in DOMAIN sections
    BY <1>1 DEF Range, Own
  <1>4. \A s \in DOMAIN sections : sections[s].lines \in Seq(TextLine) /\ s \in Nat
    BY Fitting DEF TreeInv
  <1>5. all \in Seq(Seq(TextLine)) /\ DOMAIN all = DOMAIN queue[3]
        /\ \A k \in DOMAIN all : all[k] = sections[queue[3][k]].lines
    <2>1. all \in [1 .. Len(queue[3]) -> Seq(TextLine)]
      BY <1>2, <1>3, <1>4
    <2>2. all \in Seq(Seq(TextLine))
      <3>. HIDE DEF all
      <3>. QED
        BY <1>2, <2>1, SeqDef
    <2>. QED
      BY <2>2
  <1>. HIDE DEF all
  <1>6. lines \in Seq(TextLine) /\ DOMAIN lines = 1 .. Len(lines) /\ Len(lines) \in Nat
    <2>1. lines \in Seq(TextLine)
      BY <1>5, Flattened
    <2>. HIDE DEF lines
    <2>. QED
      BY <2>1, LenProperties
  <1>7. PICK q : Placing(lines, all, q)
    BY <1>5, FlattenedPlaces
  <1>. HIDE DEF lines
  <1>. DEFINE n == Len(lines)
              pos == [k \in 1 .. n |-> <<queue[3][q[k][1]], q[k][2]>>]
  <1>8. ASSUME NEW k \in 1 .. n
        PROVE  /\ q[k] \in Nat \X Nat /\ q[k][1] \in DOMAIN queue[3] /\ pos[k] = <<queue[3][q[k][1]], q[k][2]>>
               /\ pos[k] \in L /\ pos[k][1] \in Own /\ pos[k][2] \in DOMAIN sections[pos[k][1]].lines
               /\ lines[k] = sections[pos[k][1]].lines[pos[k][2]]
    <2>1. /\ q[k] \in Nat \X Nat /\ q[k][1] \in DOMAIN all /\ q[k][2] \in DOMAIN all[q[k][1]]
          /\ lines[k] = all[q[k][1]][q[k][2]]
      BY <1>7 DEF Placing
    <2>2. pos[k] = <<queue[3][q[k][1]], q[k][2]>>
      OBVIOUS
    <2>3. pos[k][1] = queue[3][q[k][1]] /\ pos[k][2] = q[k][2]
      BY <2>2
    <2>. HIDE DEF pos
    <2>. QED
      BY <1>3, <1>4, <1>5, <2>1, <2>2, <2>3
  <1>9. ASSUME NEW k \in 1 .. n, NEW l \in 1 .. n, pos[k] = pos[l] PROVE k = l
    <2>1. queue[3][q[k][1]] = queue[3][q[l][1]] /\ q[k][2] = q[l][2]
      BY <1>8, <1>9
    <2>2. q[k][1] = q[l][1]
      BY <1>1, <1>8, <2>1 DEF Apart
    <2>3. q[k] = q[l]
      <3>1. \A p \in Nat \X Nat : p = <<p[1], p[2]>>
        OBVIOUS
      <3>. HIDE DEF pos
      <3>2. q[k] = <<q[k][1], q[k][2]>> /\ q[l] = <<q[l][1], q[l][2]>>
        BY <1>8, <3>1
      <3>. QED
        BY <2>1, <2>2, <3>2
    <2>. QED
      BY <1>7, <2>3 DEF Placing
  <1>10. ASSUME NEW s \in Own, NEW i \in DOMAIN sections[s].lines PROVE \E k \in 1 .. n : pos[k] = <<s, i>>
    <2>1. PICK a \in DOMAIN queue[3] : queue[3][a] = s
      BY <1>1 DEF Range
    <2>2. PICK k \in 1 .. n : q[k] = <<a, i>>
      <3>1. a \in DOMAIN all /\ i \in DOMAIN all[a]
        BY <1>5, <1>10, <2>1
      <3>. QED
        BY <1>7, <3>1 DEF Placing
    <2>3. q[k][1] = a /\ q[k][2] = i
      BY <2>2
    <2>. QED
      BY <2>1, <2>3
  <1>. HIDE DEF pos
  <1>11. t \in {OS, User} /\ Own = {s \in DOMAIN sections : sections[s].top = t}
    BY DEF Current, Own
  <1>. HIDE DEF t
  <1>12. Seen(sections, t) = {}
    <2>1. DOMAIN << >> = {}
      OBVIOUS
    <2>. QED
      BY <1>1, <1>11, <2>1 DEF Seen
  <1>13. \A o : o # t => Seen(sections', o) = Seen(sections, o) /\ \A l \in Seen(sections, o) : At(sections', l) = At(sections, l)
    <2>. TAKE o
    <2>. HAVE o # t
    <2>1. \A s \in DOMAIN sections : sections[s].top = o => s \notin Own
      BY <1>11
    <2>2. Seen(sections', o) = Seen(sections, o)
      BY <1>1, <2>1 DEF Seen
    <2>3. ASSUME NEW l \in Seen(sections, o) PROVE At(sections', l) = At(sections, l)
      <3>1. l[1] \in DOMAIN sections /\ sections[l[1]].top = o
        BY DEF Seen
      <3>. QED
        BY <1>1, <2>1, <3>1 DEF At
    <2>. QED
      BY <2>2, <2>3
  <1>14. ASSUME NEW k \in 1 .. n
         PROVE  /\ pos[k] \in Seen(sections', t) /\ At(sections', pos[k]).label = lines[k].label
                /\ At(sections', pos[k]).kind = lines[k].kind /\ At(sections', pos[k]).name = lines[k].name
    <2>. PICK s, i : s = pos[k][1] /\ i = pos[k][2]
      OBVIOUS
    <2>1. s \in Own /\ i \in DOMAIN sections[s].lines /\ lines[k] = sections[s].lines[i] /\ pos[k] \in L
      BY <1>8
    <2>2. s \in DOMAIN sections /\ sections[s].top = t /\ sections'[s].top = t /\ sections'[s].lines = sections[s].lines
      BY <1>1, <1>11, <2>1
    <2>3. i \in DOMAIN sections'[s].ir /\ Reads(sections', s, i, sections'[s].ir[i])
      BY <1>1, <2>1, <2>2 DEF Parses
    <2>4. pos[k] \in (DOMAIN sections) \X Nat
      BY <2>1, <2>2
    <2>5. pos[k] \in Seen(sections', t)
      BY <1>1, <2>2, <2>3, <2>4 DEF Seen
    <2>6. At(sections', pos[k]) = sections'[s].ir[i]
      BY DEF At
    <2>. PICK r : r = sections'[s].ir[i]
      OBVIOUS
    <2>7. r.label = lines[k].label /\ r.kind = lines[k].kind /\ r.name = lines[k].name
      BY <2>1, <2>2, <2>3 DEF Reads
    <2>. QED
      BY <2>5, <2>6, <2>7
  <1>15. ASSUME NEW l \in Seen(sections', t) PROVE \E k \in 1 .. n : pos[k] = l
    <2>. PICK s, i : s = l[1] /\ i = l[2]
      OBVIOUS
    <2>1. l \in (DOMAIN sections) \X Nat /\ sections'[s].top = t /\ i \in DOMAIN sections'[s].ir
      BY <1>1, <1>15 DEF Seen
    <2>2. l = <<s, i>> /\ s \in DOMAIN sections
      BY <2>1
    <2>3. s \in Own /\ DOMAIN sections'[s].ir = DOMAIN sections[s].lines
      BY <1>1, <1>11, <2>1, <2>2 DEF Parses
    <2>. QED
      BY <1>10, <2>1, <2>2, <2>3
  <1>16. ASSUME NEW x \in Names
         PROVE  /\ DOMAIN symbols' = Names
                /\ Fits(symbols'[x], PlacesOf(sections', x), ExportedBy(sections', x))
    <2>. PICK d, X : d = PlacesOf(sections, x) /\ X = ExportedBy(sections, x)
      OBVIOUS
    <2>1. d \in [{OS, User} -> SUBSET L] /\ d[t] = {}
      <3>1. \A o : DefinedAt(sections, o, x) \in SUBSET L
        <4>1. \A o : Seen(sections, o) \in SUBSET L
          BY <1>4 DEF Seen
        <4>. QED
          BY <4>1 DEF DefinedAt
      <3>2. DefinedAt(sections, t, x) = {}
        BY <1>12 DEF DefinedAt
      <3>. HIDE DEF L
      <3>. QED
        BY <1>11, <3>1, <3>2 DEF PlacesOf
    <2>2. DOMAIN symbols = Names /\ Fits(symbols[x], d, X)
      BY DEF Fitted
    <2>. DEFINE P == Defining(lines, n, pos, x)
                Y == Exporting(lines, n, x, t)
    <2>3. /\ DOMAIN EnteredText(symbols, lines, t) = Names
          /\ Fits(EnteredText(symbols, lines, t)[x], WithAll(d, t, P), X \cup Y)
      <3>1. \A i \in 1 .. n : pos[i] \in L /\ pos[i] \notin d[t]
        BY <1>8, <2>1
      <3>2. \A i, j \in 1 .. n : pos[i] = pos[j] => i = j
        BY <1>9
      <3>3. DOMAIN lines = 1 .. n /\ n \in Nat
        BY <1>6
      <3>. HIDE DEF n, L
      <3>4. Fresh(t, L, d, lines, n, pos)
        BY <2>1, <3>1, <3>2, <3>3 DEF Fresh
      <3>. HIDE DEF P, Y
      <3>. QED
        <4>1. t \in {OS, User} /\ x \in Names
          BY <1>11
        <4>2. /\ DOMAIN EnteredText(symbols, lines, t) = Names
              /\ Fits(EnteredText(symbols, lines, t)[x], WithAll(d, t, Defining(lines, n, pos, x)),
                      X \cup Exporting(lines, n, x, t))
          <5>1. Entering(symbols, x, t, L, d, X, lines, n, pos)
            BY <2>2, <3>4, <4>1 DEF Entering
          <5>. QED
            BY <5>1, TextFits
        <4>. QED
          BY <4>2 DEF P, Y
    <2>4. PlacesOf(sections', x) = WithAll(d, t, P)
      <3>1. DefinedAt(sections', t, x) = P
        BY <1>14, <1>15 DEF DefinedAt, Defining
      <3>2. \A o : o # t => DefinedAt(sections', o, x) = DefinedAt(sections, o, x)
        BY <1>13 DEF DefinedAt
      <3>. HIDE DEF P
      <3>. PICK e, f : e = PlacesOf(sections', x) /\ f = WithAll(d, t, P)
        OBVIOUS
      <3>3. DOMAIN e = {OS, User} /\ DOMAIN f = {OS, User} /\ f = [o \in DOMAIN f |-> f[o]] /\ e = [o \in DOMAIN e |-> e[o]]
        BY <2>1 DEF PlacesOf, WithAll
      <3>4. \A o \in {OS, User} : e[o] = f[o]
        BY <1>11, <2>1, <3>1, <3>2 DEF PlacesOf, WithAll
      <3>. QED
        BY <3>3, <3>4
    <2>5. ExportedBy(sections', x) = X \cup Y
      <3>1. ASSUME NEW o \in {OS, User}, o # t
            PROVE  /\ o \in ExportedBy(sections', x) <=> o \in X
                   /\ o \notin Y
        BY <1>13, <3>1 DEF ExportedBy, Exporting
      <3>2. t \notin X
        BY <1>12 DEF ExportedBy
      <3>3. t \in ExportedBy(sections', x) <=> t \in Y
        <4>1. t \in ExportedBy(sections', x) => t \in Y
          <5>. SUFFICES ASSUME t \in ExportedBy(sections', x) PROVE t \in Y
            OBVIOUS
          <5>1. PICK l \in Seen(sections', t) : At(sections', l).kind = "export" /\ At(sections', l).name = x
            BY DEF ExportedBy
          <5>2. PICK k \in 1 .. n : pos[k] = l
            BY <1>15
          <5>. QED
            BY <1>14, <5>1, <5>2 DEF Exporting
        <4>2. t \in Y => t \in ExportedBy(sections', x)
          BY <1>11, <1>14 DEF ExportedBy, Exporting
        <4>. QED
          BY <4>1, <4>2
      <3>4. ExportedBy(sections', x) \subseteq {OS, User} /\ X \subseteq {OS, User} /\ Y \subseteq {t}
        BY DEF ExportedBy, Exporting
      <3>. HIDE DEF Y
      <3>. QED
        BY <1>11, <3>1, <3>2, <3>3, <3>4
    <2>. QED
      BY <1>1, <2>3, <2>4, <2>5
  <1>17. DOMAIN symbols' = Names
    BY <1>1, <1>6, TextDomain DEF Fitted
  <1>. QED
    BY <1>16, <1>17 DEF Fitted

LEMMA NamesParse ==
    ASSUME AsmInv, CircleInv, TreeInv, TidyInv, NameInv, Parse
    PROVE  NameInv'
  <1>1. /\ Take(3) /\ phase' = phase /\ places' = places /\ errors \subseteq errors' /\ phase # "done" /\ ~failed
        /\ DOMAIN sections' = DOMAIN sections
        /\ \A s \in DOMAIN sections :
                 /\ sections'[s].top = sections[s].top /\ sections'[s].parent = sections[s].parent
                 /\ sections'[s].line = sections[s].line /\ sections'[s].lines = sections[s].lines
                 /\ s \notin Own => sections'[s] = sections[s]
        /\ errors' = {} => \A s \in Own : Parses(sections', s)
    BY ParseIs
  <1>2. ASSUME NEW s \in DOMAIN sections, s \notin Own, Parses(sections, s) PROVE Parses(sections', s)
    <2>1. sections'[s] = sections[s]
      BY <1>1, <1>2
    <2>2. ASSUME NEW i \in DOMAIN sections[s].ir PROVE Reads(sections', s, i, sections[s].ir[i])
      <3>. PICK r : r = sections[s].ir[i]
        OBVIOUS
      <3>1. Reads(sections, s, i, r)
        BY <1>2 DEF Parses
      <3>2. Reads(sections', s, i, r)
        BY <1>1, <2>1, <3>1 DEF Reads
      <3>. QED
        BY <3>2
    <2>. QED
      BY <1>2, <2>1, <2>2 DEF Parses
  <1>3. ASSUME errors' = {} PROVE Fitted' /\ AllRead' /\ Passed'
    <2>1. errors = {} /\ Fitted /\ AllRead /\ Passed
      BY <1>1, <1>3 DEF NameInv
    <2>2. Fitted'
      BY <1>3, <2>1, ParseFits
    <2>3. AllRead'
      <3>. SUFFICES ASSUME NEW s \in DOMAIN sections PROVE DOMAIN sections'[s].ir = {} \/ Parses(sections', s)
        BY <1>1 DEF AllRead
      <3>1. CASE s \in Own
        BY <1>1, <1>3, <3>1
      <3>2. CASE s \notin Own
        BY <1>1, <1>2, <2>1, <3>2 DEF AllRead
      <3>. QED
        BY <3>1, <3>2
    <2>4. Own' = Own
      BY <1>1 DEF Own
    <2>5. ASSUME phase = "user", NEW s \in DOMAIN sections, sections[s].top = OS PROVE Parses(sections', s)
      <3>1. Parses(sections, s) /\ s \notin Own
        BY <1>1, <2>1, <2>5 DEF Passed, Own, OS, User
      <3>. QED
        BY <1>2, <3>1
    <2>6. Passed'
      BY <1>1, <1>3, <2>4, <2>5 DEF Passed
    <2>. QED
      BY <2>2, <2>3, <2>6
  <1>4. TargetFits'
    <2>. DEFINE ok == \A s \in Range(queue[Stage.PREPROCESS]) : Accepted(s)
    <2>1. Requeue(Stage.PREPROCESS, ok, [u \in {Stage.SYMANTIC} |-> queue[Stage.PREPROCESS]]) /\ ok \in BOOLEAN
      BY DEF Parse
    <2>. HIDE DEF ok
    <2>2. Requeue(3, ok, [u \in {4} |-> queue[3]]) /\ 3 \in Stages
      BY <2>1, StageNumbers
    <2>3. User \in Programs' => User \in Programs
      BY <1>1 DEF Programs
    <2>. QED
      BY <1>1, <2>1, <2>2, <2>3, AimKept
  <1>5. places' = << >>
    <2>1. 3 \in 1 .. 5
      OBVIOUS
    <2>. QED
      BY <1>1, <2>1, NotPlaced
  <1>. QED
    BY <1>3, <1>4, <1>5 DEF NameInv

-----------------------------------------------------------------------------
(* The assignment of addresses looks at every line unless there is an error: a walk    *)
(* through a program goes through all its macros, and is broken off by an error only.  *)

\* F is what the cursor is after so many lines.
CursorRuns(p, lines, n, F) ==
    /\ F[0] = <<Start(p), {}>> /\ Cursor(p, lines) = F[n]
    /\ \A i \in 1 .. n : F[i] = Step(lines[i], Backward(p), F[i - 1][1], F[i - 1][2])

\* The cursor goes on line by line.
LEMMA CursorSteps ==
    ASSUME NEW p, NEW lines, NEW n \in Nat, DOMAIN lines = 1 .. n
    PROVE  \E F : CursorRuns(p, lines, n, F)
  <1>. DEFINE next(g, s) == IF s = {} THEN <<Start(p), {}>> ELSE Step(lines[Max(s)], Backward(p), g[s \ {Max(s)}][1], g[s \ {Max(s)}][2])
              Is(g) == g = [s \in SUBSET (1 .. n) |-> next(g, s)]
              It == CHOOSE g : Is(g)
              G == {k \in 0 .. n : \E g : g = [s \in SUBSET (1 .. k) |-> next(g, s)]}
  <1>1. Cursor(p, lines) = It[1 .. n]
    BY DEF Cursor, FoldLeft, MapThenFoldSet
  <1>2. 0 \in G
    <2>. DEFINE g == [s \in SUBSET (1 .. 0) |-> <<Start(p), {}>>]
    <2>1. \A s \in SUBSET (1 .. 0) : s = {}
      OBVIOUS
    <2>2. \A s \in SUBSET (1 .. 0) : next(g, s) = <<Start(p), {}>>
      BY <2>1
    <2>. HIDE DEF next
    <2>3. g = [s \in SUBSET (1 .. 0) |-> next(g, s)]
      BY <2>2
    <2>4. 0 \in 0 .. n
      OBVIOUS
    <2>. HIDE DEF g
    <2>. QED
      BY <2>3, <2>4
  <1>3. ASSUME NEW i \in 1 .. n, i - 1 \in G PROVE i \in G
    <2>1. PICK g : g = [s \in SUBSET (1 .. i - 1) |-> next(g, s)]
      BY <1>3
    <2>. DEFINE h == [s \in SUBSET (1 .. i) |-> IF i \in s THEN Step(lines[i], Backward(p), g[s \ {i}][1], g[s \ {i}][2]) ELSE g[s]]
    <2>2. ASSUME NEW s \in SUBSET (1 .. i) PROVE h[s] = next(h, s)
      <3>1. CASE i \in s
        <4>1. Max(s) = i /\ s # {}
          BY <3>1, MaxIs
        <4>2. s \ {i} \in SUBSET (1 .. i) /\ i \notin s \ {i}
          OBVIOUS
        <4>3. h[s \ {i}] = g[s \ {i}] /\ h[s] = Step(lines[i], Backward(p), g[s \ {i}][1], g[s \ {i}][2])
          BY <3>1, <4>2
        <4>. HIDE DEF h
        <4>4. next(h, s) = Step(lines[i], Backward(p), h[s \ {i}][1], h[s \ {i}][2])
          BY <4>1
        <4>. QED
          BY <4>3, <4>4
      <3>2. CASE i \notin s
        <4>1. s \in SUBSET (1 .. i - 1)
          BY <3>2
        <4>2. g[s] = next(g, s) /\ h[s] = g[s]
          <5>. HIDE DEF next
          <5>. QED
            BY <2>1, <3>2, <4>1
        <4>3. h[s \ {Max(s)}] = g[s \ {Max(s)}]
          <5>. PICK r : r = s \ {Max(s)}
            OBVIOUS
          <5>1. r \in SUBSET (1 .. i) /\ i \notin r
            BY <3>2
          <5>. QED
            BY <5>1
        <4>. HIDE DEF h
        <4>4. next(h, s) = next(g, s)
          BY <4>3
        <4>. QED
          BY <4>2, <4>4
      <3>. QED
        BY <3>1, <3>2
    <2>3. h = [s \in SUBSET (1 .. i) |-> next(h, s)]
      <3>1. h = [s \in SUBSET (1 .. i) |-> h[s]]
        OBVIOUS
      <3>. HIDE DEF h, next
      <3>. QED
        BY <2>2, <3>1
    <2>. HIDE DEF h, next
    <2>. QED
      BY <2>3
  <1>4. \E g : Is(g)
    <2>1. 0 .. n \subseteq G
      <3>. HIDE DEF G
      <3>. QED
        BY <1>2, <1>3, Upwards, Zenon
    <2>2. n \in 0 .. n
      OBVIOUS
    <2>. HIDE DEF next
    <2>. QED
      BY <2>1, <2>2
  <1>5. Is(It)
    <2>. HIDE DEF Is
    <2>. QED
      BY <1>4
  <1>. HIDE DEF It
  <1>6. \A s \in SUBSET (1 .. n) : It[s] = next(It, s)
    <2>. HIDE DEF next
    <2>. QED
      BY <1>5
  <1>. DEFINE F == [i \in 0 .. n |-> It[1 .. i]]
  <1>7. F[0] = <<Start(p), {}>>
    <2>1. (1 .. 0) = {} /\ (1 .. 0) \in SUBSET (1 .. n) /\ 0 \in 0 .. n
      OBVIOUS
    <2>2. It[1 .. 0] = <<Start(p), {}>>
      BY <1>6, <2>1
    <2>. QED
      BY <2>1, <2>2
  <1>8. F[n] = It[1 .. n]
    OBVIOUS
  <1>9. ASSUME NEW i \in 1 .. n PROVE F[i] = Step(lines[i], Backward(p), F[i - 1][1], F[i - 1][2])
    <2>1. (1 .. i) \in SUBSET (1 .. n) /\ (1 .. i) # {} /\ (1 .. i) \ {i} = 1 .. (i - 1) /\ i \in 1 .. i
      <3>1. i \in 1 .. i /\ \A j \in 1 .. i : j \in 1 .. n
        OBVIOUS
      <3>2. (1 .. i) \ {i} = 1 .. (i - 1)
        OBVIOUS
      <3>. QED
        BY <3>1, <3>2
    <2>2. Max(1 .. i) = i
      BY <2>1, MaxIs
    <2>3. It[1 .. i] = Step(lines[i], Backward(p), It[1 .. (i - 1)][1], It[1 .. (i - 1)][2])
      BY <1>6, <2>1, <2>2
    <2>4. i \in 0 .. n /\ i - 1 \in 0 .. n
      OBVIOUS
    <2>5. F[i] = It[1 .. i] /\ F[i - 1] = It[1 .. (i - 1)]
      BY <2>4
    <2>. HIDE DEF F
    <2>. QED
      BY <2>3, <2>5
  <1>. HIDE DEF F
  <1>. QED
    BY <1>1, <1>7, <1>8, <1>9 DEF CursorRuns

\* A line's place is what the lines before it leave.
LEMMA CursorNext ==
    ASSUME NEW p, NEW S, NEW walk \in Seq(S), NEW i \in 1 .. Len(walk)
    PROVE  Cursor(p, SubSeq(walk, 1, i)) =
               Step(walk[i], Backward(p), Cursor(p, SubSeq(walk, 1, i - 1))[1], Cursor(p, SubSeq(walk, 1, i - 1))[2])
  <1>. PICK x, y : x = SubSeq(walk, 1, i) /\ y = SubSeq(walk, 1, i - 1)
    OBVIOUS
  <1>1. /\ DOMAIN x = 1 .. i /\ DOMAIN y = 1 .. (i - 1) /\ i \in Nat /\ i - 1 \in Nat
        /\ \A j \in 1 .. i : x[j] = walk[j]
        /\ \A j \in 1 .. (i - 1) : y[j] = walk[j]
    <2>1. Len(walk) \in Nat /\ i \in Nat /\ i - 1 \in Nat
      BY LenProperties
    <2>2. DOMAIN x = 1 .. i /\ \A j \in 1 .. i : x[j] = walk[j]
      BY <2>1
    <2>3. DOMAIN y = 1 .. (i - 1) /\ \A j \in 1 .. (i - 1) : y[j] = walk[j]
      BY <2>1
    <2>. QED
      BY <2>1, <2>2, <2>3
  <1>2. PICK F : CursorRuns(p, x, i, F)
    BY <1>1, CursorSteps
  <1>3. PICK H : CursorRuns(p, y, i - 1, H)
    BY <1>1, CursorSteps
  <1>. DEFINE G == {j \in 0 .. (i - 1) : F[j] = H[j]}
  <1>4. 0 \in G
    <2>1. F[0] = H[0]
      BY <1>2, <1>3 DEF CursorRuns
    <2>2. 0 \in 0 .. (i - 1)
      BY <1>1
    <2>. QED
      BY <2>1, <2>2
  <1>5. ASSUME NEW j \in 1 .. (i - 1), j - 1 \in G PROVE j \in G
    <2>0. j \in 1 .. i /\ x[j] = walk[j]
      BY <1>1
    <2>1. F[j] = Step(walk[j], Backward(p), F[j - 1][1], F[j - 1][2])
      BY <1>2, <2>0, Zenon DEF CursorRuns
    <2>2. H[j] = Step(walk[j], Backward(p), H[j - 1][1], H[j - 1][2])
      BY <1>1, <1>3 DEF CursorRuns
    <2>. QED
      BY <1>5, <2>1, <2>2
  <1>6. 0 .. (i - 1) \subseteq G
    <2>. HIDE DEF G
    <2>. QED
      BY <1>1, <1>4, <1>5, Upwards, Zenon
  <1>7. F[i - 1] = H[i - 1]
    BY <1>1, <1>6
  <1>8. F[i] = Step(x[i], Backward(p), F[i - 1][1], F[i - 1][2]) /\ x[i] = walk[i]
    BY <1>1, <1>2 DEF CursorRuns
  <1>. QED
    BY <1>2, <1>3, <1>7, <1>8 DEF CursorRuns

\* No line that is reached fails.
NoneFails(p) == \A r \in Reached(p) : ~Fails(r.line, r.from, r.back)

\* If no line fails that is reached, all are reached.
LEMMA AllReached ==
    ASSUME NEW p, NoneFails(p), NEW walk \in Seq(Nat \X Nat), Walk(sections, Backward(p))[p] = walk
    PROVE  \A k \in DOMAIN walk : \E r \in Reached(p) : r.line = walk[k]
  <1>. DEFINE Before(k) == Cursor(p, SubSeq(walk, 1, k - 1))
              r(k) == [line |-> walk[k], from |-> Before(k)[1], back |-> Backward(p)]
              G == {k \in 0 .. Len(walk) : Cursor(p, SubSeq(walk, 1, k))[2] = {}}
  <1>1. Len(walk) \in Nat /\ DOMAIN walk = 1 .. Len(walk)
    BY LenProperties
  <1>2. \A k \in DOMAIN walk : Before(k)[2] = {} => r(k) \in Reached(p)
    BY DEF Reached
  <1>3. 0 \in G
    <2>. PICK x : x = SubSeq(walk, 1, 0)
      OBVIOUS
    <2>1. DOMAIN x = 1 .. 0 /\ 0 \in Nat
      BY <1>1
    <2>2. PICK F : CursorRuns(p, x, 0, F)
      BY <2>1, CursorSteps
    <2>4. Cursor(p, x) = <<Start(p), {}>>
      BY <2>2 DEF CursorRuns
    <2>3. 0 \in 0 .. Len(walk)
      BY <1>1
    <2>. QED
      BY <2>3, <2>4
  <1>4. ASSUME NEW k \in 1 .. Len(walk), k - 1 \in G PROVE k \in G
    <2>1. Before(k)[2] = {}
      BY <1>4
    <2>2. r(k) \in Reached(p)
      BY <1>1, <1>2, <2>1
    <2>3. ~Fails(walk[k], Before(k)[1], Backward(p))
      BY <2>2 DEF NoneFails
    <2>4. Cursor(p, SubSeq(walk, 1, k)) = Step(walk[k], Backward(p), Before(k)[1], Before(k)[2])
      BY CursorNext
    <2>. HIDE DEF Before
    <2>5. Step(walk[k], Backward(p), Before(k)[1], Before(k)[2])[2] = {}
      BY <2>1, <2>3 DEF Step
    <2>. QED
      BY <1>1, <2>4, <2>5
  <1>5. 0 .. Len(walk) \subseteq G
    <2>. HIDE DEF G
    <2>. QED
      BY <1>1, <1>3, <1>4, Upwards, Zenon
  <1>6. ASSUME NEW k \in DOMAIN walk PROVE r(k) \in Reached(p) /\ r(k).line = walk[k]
    <2>1. k - 1 \in 0 .. Len(walk)
      BY <1>1
    <2>2. Before(k)[2] = {}
      BY <1>5, <2>1
    <2>. QED
      BY <1>2, <2>2
  <1>. HIDE DEF r
  <1>. QED
    BY <1>6


\* A walk through a section, when W is the walk through those below it.
Order(s, back) == LET lines == [i \in DOMAIN sections[s].ir |-> <<s, i>>] IN IF back THEN Reverse(lines) ELSE lines
OpenedAt(W, l) == <<l>> \o IF At(sections, l).kind = "macro" THEN W[At(sections, l).child] ELSE << >>
Turns(W, s, back) == [k \in DOMAIN Order(s, back) |-> OpenedAt(W, Order(s, back)[k])]
WalkOf(W, s, back) == FlattenSeq(Turns(W, s, back))

\* The sections below a section come after it.
Descends ==
    /\ \E m \in Nat : DOMAIN sections = 1 .. m
    /\ \A s \in DOMAIN sections :
          /\ \E n \in Nat : DOMAIN sections[s].ir = 1 .. n
          /\ \A i \in DOMAIN sections[s].ir : sections[s].ir[i].kind = "macro" =>
                /\ sections[s].ir[i].child \in DOMAIN sections
                /\ s < sections[s].ir[i].child

LEMMA WalkIs ==
    ASSUME NEW back
    PROVE  Walk(sections, back) = CHOOSE W : W = [s \in DOMAIN sections |-> WalkOf(W, s, back)]
  BY DEF Walk, WalkOf, Turns, OpenedAt, Order

\* A section's lines are gone through from either end.
LEMMA OrderIs ==
    ASSUME Descends, NEW s \in DOMAIN sections, NEW back
    PROVE  /\ s \in Nat
           /\ \E n \in Nat : DOMAIN sections[s].ir = 1 .. n /\ DOMAIN Order(s, back) = 1 .. n
           /\ \A k \in DOMAIN Order(s, back) : \E i \in DOMAIN sections[s].ir : i \in Nat /\ Order(s, back)[k] = <<s, i>>
           /\ \A i \in DOMAIN sections[s].ir : \E k \in DOMAIN Order(s, back) : Order(s, back)[k] = <<s, i>>
  <1>1. PICK n \in Nat : DOMAIN sections[s].ir = 1 .. n
    BY DEF Descends
  <1>2. s \in Nat
    BY DEF Descends
  <1>. DEFINE lines == [i \in DOMAIN sections[s].ir |-> <<s, i>>]
  <1>3. DOMAIN lines = 1 .. n /\ \A i \in 1 .. n : lines[i] = <<s, i>>
    BY <1>1
  <1>4. lines \in Seq(Nat \X Nat)
    <2>1. lines \in [1 .. n -> Nat \X Nat]
      BY <1>1, <1>2
    <2>. HIDE DEF lines
    <2>. QED
      BY <2>1, SeqDef
  <1>. HIDE DEF lines
  <1>5. Len(lines) = n
    BY <1>3, <1>4, LenProperties
  <1>6. CASE back
    <2>1. Order(s, back) = [k \in 1 .. n |-> lines[(n - k) + 1]]
      BY <1>5, <1>6 DEF Order, Reverse, lines
    <2>2. \A k \in 1 .. n : (n - k) + 1 \in 1 .. n /\ (n - ((n - k) + 1)) + 1 = k
      OBVIOUS
    <2>3. DOMAIN Order(s, back) = 1 .. n /\ \A k \in 1 .. n : Order(s, back)[k] = <<s, (n - k) + 1>>
      BY <1>3, <2>1, <2>2
    <2>. QED
      BY <1>1, <1>2, <2>2, <2>3
  <1>7. CASE ~back
    <2>1. Order(s, back) = lines
      BY <1>7 DEF Order, lines
    <2>2. DOMAIN Order(s, back) = 1 .. n /\ \A k \in 1 .. n : Order(s, back)[k] = <<s, k>>
      BY <1>3, <2>1
    <2>3. \A k \in 1 .. n : k \in Nat
      OBVIOUS
    <2>. QED
      BY <1>1, <1>2, <2>2, <2>3
  <1>. QED
    BY <1>6, <1>7

\* A walk depends on those that come after it only.
LEMMA WalksAgree ==
    ASSUME Descends, NEW s \in DOMAIN sections, NEW back, NEW W, NEW V,
           \A c \in DOMAIN sections : s < c => W[c] = V[c]
    PROVE  WalkOf(W, s, back) = WalkOf(V, s, back)
  <1>1. ASSUME NEW k \in DOMAIN Order(s, back) PROVE OpenedAt(W, Order(s, back)[k]) = OpenedAt(V, Order(s, back)[k])
    <2>1. PICK i \in DOMAIN sections[s].ir : Order(s, back)[k] = <<s, i>>
      BY OrderIs
    <2>2. At(sections, <<s, i>>) = sections[s].ir[i]
      BY DEF At
    <2>3. OpenedAt(W, <<s, i>>) = OpenedAt(V, <<s, i>>)
      BY <2>2 DEF OpenedAt, Descends
    <2>. QED
      BY <2>1, <2>3
  <1>2. Turns(W, s, back) = Turns(V, s, back)
    BY <1>1 DEF Turns
  <1>. QED
    BY <1>2 DEF WalkOf

\* There is such a walk.
LEMMA WalkExists ==
    ASSUME Descends, NEW back
    PROVE  \E W : W = [s \in DOMAIN sections |-> WalkOf(W, s, back)]
  <1>1. PICK N \in Nat : DOMAIN sections = 1 .. N
    BY DEF Descends
  <1>. DEFINE Part(m, W) == W = [s \in 1 .. N |-> IF N - m < s THEN WalkOf(W, s, back) ELSE << >>]
              G == {m \in 0 .. N : \E W : Part(m, W)}
  <1>2. 0 \in G
    <2>. DEFINE W == [s \in 1 .. N |-> << >>]
    <2>1. \A s \in 1 .. N : ~(N - 0 < s)
      OBVIOUS
    <2>2. Part(0, W)
      BY <2>1
    <2>3. 0 \in 0 .. N
      OBVIOUS
    <2>. HIDE DEF Part
    <2>. QED
      BY <2>2, <2>3
  <1>3. ASSUME NEW m \in 1 .. N, m - 1 \in G PROVE m \in G
    <2>1. PICK W : Part(m - 1, W)
      BY <1>3
    <2>. DEFINE z == (N - m) + 1
                V == [s \in 1 .. N |-> IF s = z THEN WalkOf(W, z, back) ELSE W[s]]
    <2>2. z \in 1 .. N /\ N - (m - 1) = z
      OBVIOUS
    <2>3. \A s \in 1 .. N : /\ z < s => W[s] = WalkOf(W, s, back) /\ V[s] = W[s]
                            /\ N - m < s <=> s = z \/ z < s
                            /\ ~(N - m < s) => W[s] = << >> /\ V[s] = W[s]
      <3>1. \A s \in 1 .. N : W[s] = IF z < s THEN WalkOf(W, s, back) ELSE << >>
        BY <2>1, <2>2
      <3>2. \A s \in 1 .. N : N - m < s <=> s = z \/ z < s
        BY <2>2
      <3>3. \A s \in 1 .. N : s # z => V[s] = W[s]
        OBVIOUS
      <3>. QED
        BY <2>2, <3>1, <3>2, <3>3
    <2>4. V[z] = WalkOf(W, z, back)
      BY <2>2
    <2>5. V = [s \in 1 .. N |-> V[s]]
      OBVIOUS
    <2>. HIDE DEF V
    <2>6. ASSUME NEW s \in 1 .. N, s = z \/ z < s PROVE WalkOf(W, s, back) = WalkOf(V, s, back)
      <3>1. \A c \in DOMAIN sections : s < c => W[c] = V[c]
        BY <1>1, <2>2, <2>3, <2>6
      <3>. QED
        BY <1>1, <3>1, WalksAgree
    <2>7. \A s \in 1 .. N : V[s] = IF N - m < s THEN WalkOf(V, s, back) ELSE << >>
      <3>. HIDE DEF z
      <3>. QED
        BY <2>3, <2>4, <2>6
    <2>8. Part(m, V)
      BY <2>5, <2>7
    <2>. HIDE DEF Part
    <2>. QED
      BY <2>8
  <1>4. N \in G
    <2>. HIDE DEF G
    <2>1. 0 .. N \subseteq G
      BY <1>2, <1>3, Upwards, Zenon
    <2>. QED
      BY <2>1
  <1>5. PICK W : Part(N, W)
    BY <1>4
  <1>6. \A s \in 1 .. N : N - N < s
    OBVIOUS
  <1>7. W = [s \in 1 .. N |-> WalkOf(W, s, back)]
    BY <1>5, <1>6
  <1>. QED
    BY <1>1, <1>7

\* What a walk goes through.
LEMMA Walked ==
    ASSUME Descends, NEW back
    PROVE  \E W : /\ W = Walk(sections, back)
                  /\ \A s \in DOMAIN sections :
                        /\ W[s] \in Seq(Nat \X Nat)
                        /\ \A i \in DOMAIN sections[s].ir :
                              /\ <<s, i>> \in Range(W[s])
                              /\ sections[s].ir[i].kind = "macro" =>
                                    Range(W[sections[s].ir[i].child]) \subseteq Range(W[s])
  <1>. DEFINE Is(W) == W = [s \in DOMAIN sections |-> WalkOf(W, s, back)]
              It == CHOOSE W : Is(W)
              L == Nat \X Nat
  <1>1. Walk(sections, back) = It
    BY WalkIs
  <1>2. Is(It)
    <2>1. \E W : Is(W)
      BY WalkExists
    <2>. HIDE DEF Is
    <2>. QED
      BY <2>1
  <1>. HIDE DEF It
  <1>3. \A s \in DOMAIN sections : It[s] = WalkOf(It, s, back)
    BY <1>2
  <1>. HIDE DEF Is, L
  <1>4. PICK N \in Nat : DOMAIN sections = 1 .. N
    BY DEF Descends
  <1>5. ASSUME NEW s \in DOMAIN sections, \A c \in DOMAIN sections : s < c => It[c] \in Seq(L)
        PROVE  Turns(It, s, back) \in Seq(Seq(L))
    <2>1. PICK n \in Nat : DOMAIN Order(s, back) = 1 .. n
      BY OrderIs
    <2>2. ASSUME NEW k \in 1 .. n PROVE OpenedAt(It, Order(s, back)[k]) \in Seq(L)
      <3>1. PICK i \in DOMAIN sections[s].ir : i \in Nat /\ Order(s, back)[k] = <<s, i>>
        BY <2>1, OrderIs
      <3>2. s \in Nat /\ <<s, i>> \in L
        BY <3>1, OrderIs DEF L
      <3>3. <<(<<s, i>>)>> \in Seq(L) /\ << >> \in Seq(L)
        BY <3>2
      <3>4. At(sections, <<s, i>>) = sections[s].ir[i]
        BY DEF At
      <3>5. sections[s].ir[i].kind = "macro" => It[sections[s].ir[i].child] \in Seq(L)
        BY <1>5 DEF Descends
      <3>6. OpenedAt(It, <<s, i>>) \in Seq(L)
        <4>1. CASE sections[s].ir[i].kind = "macro"
          <5>1. OpenedAt(It, <<s, i>>) = <<(<<s, i>>)>> \o It[sections[s].ir[i].child]
            BY <3>4, <4>1 DEF OpenedAt
          <5>. QED
            BY <3>3, <3>5, <4>1, <5>1, ConcatProperties
        <4>2. CASE sections[s].ir[i].kind # "macro"
          <5>1. OpenedAt(It, <<s, i>>) = <<(<<s, i>>)>> \o << >>
            BY <3>4, <4>2 DEF OpenedAt
          <5>. QED
            BY <3>3, <5>1, ConcatProperties
        <4>. QED
          BY <4>1, <4>2
      <3>. QED
        BY <3>1, <3>6
    <2>3. Turns(It, s, back) \in [1 .. n -> Seq(L)]
      BY <2>1, <2>2 DEF Turns
    <2>. QED
      BY <2>3, SeqDef
  <1>6. \A s \in DOMAIN sections : It[s] \in Seq(L)
    <2>. DEFINE G == {m \in 0 .. N : \A s \in 1 .. N : N - m < s => It[s] \in Seq(L)}
    <2>1. 0 \in G
      OBVIOUS
    <2>2. ASSUME NEW m \in 1 .. N, m - 1 \in G PROVE m \in G
      <3>1. ASSUME NEW s \in 1 .. N, N - m < s PROVE It[s] \in Seq(L)
        <4>1. \A c \in DOMAIN sections : s < c => It[c] \in Seq(L)
          <5>1. \A c \in 1 .. N : s < c => N - (m - 1) < c
            BY <3>1
          <5>. QED
            BY <1>4, <2>2, <5>1
        <4>2. Turns(It, s, back) \in Seq(Seq(L))
          BY <1>4, <1>5, <4>1
        <4>3. WalkOf(It, s, back) \in Seq(L)
          BY <4>2, Flattened DEF WalkOf
        <4>. QED
          BY <1>3, <1>4, <4>3
      <3>. QED
        BY <3>1
    <2>3. N \in G
      <3>. HIDE DEF G
      <3>1. 0 .. N \subseteq G
        BY <2>1, <2>2, Upwards, Zenon
      <3>. QED
        BY <3>1
    <2>4. \A s \in 1 .. N : N - N < s
      OBVIOUS
    <2>. QED
      BY <1>4, <2>3, <2>4
  <1>7. ASSUME NEW s \in DOMAIN sections, NEW i \in DOMAIN sections[s].ir
        PROVE  /\ <<s, i>> \in Range(It[s])
               /\ sections[s].ir[i].kind = "macro" => Range(It[sections[s].ir[i].child]) \subseteq Range(It[s])
    <2>1. Turns(It, s, back) \in Seq(Seq(L))
      BY <1>5, <1>6
    <2>2. Range(It[s]) = UNION {Range(Turns(It, s, back)[k]) : k \in DOMAIN Turns(It, s, back)}
      BY <1>3, <2>1, FlattenedRange DEF WalkOf
    <2>3. PICK k \in DOMAIN Order(s, back) : Order(s, back)[k] = <<s, i>>
      BY OrderIs
    <2>4. k \in DOMAIN Turns(It, s, back) /\ Turns(It, s, back)[k] = OpenedAt(It, <<s, i>>)
      BY <2>3 DEF Turns
    <2>5. Range(OpenedAt(It, <<s, i>>)) \subseteq Range(It[s])
      BY <2>2, <2>4
    <2>6. i \in Nat /\ s \in Nat
      <3>1. \E n \in Nat : DOMAIN sections[s].ir = 1 .. n
        BY DEF Descends
      <3>. QED
        BY <3>1, OrderIs
    <2>7. <<(<<s, i>>)>> \in Seq(L) /\ << >> \in Seq(L) /\ <<s, i>> \in Range(<<(<<s, i>>)>>)
      <3>1. <<s, i>> \in L
        BY <2>6 DEF L
      <3>2. <<(<<s, i>>)>>[1] = <<s, i>> /\ 1 \in DOMAIN <<(<<s, i>>)>>
        OBVIOUS
      <3>. QED
        BY <3>1, <3>2 DEF Range
    <2>8. At(sections, <<s, i>>) = sections[s].ir[i]
      BY DEF At
    <2>9. CASE sections[s].ir[i].kind = "macro"
      <3>1. OpenedAt(It, <<s, i>>) = <<(<<s, i>>)>> \o It[sections[s].ir[i].child]
        BY <2>8, <2>9 DEF OpenedAt
      <3>2. It[sections[s].ir[i].child] \in Seq(L)
        BY <1>6, <2>9 DEF Descends
      <3>3. Range(OpenedAt(It, <<s, i>>)) = Range(<<(<<s, i>>)>>) \cup Range(It[sections[s].ir[i].child])
        <4>1. \A x, y \in Seq(L) : Range(x \o y) = Range(x) \cup Range(y)
          BY Joined
        <4>. HIDE DEF L
        <4>. QED
          BY <2>7, <3>1, <3>2, <4>1
      <3>. QED
        BY <2>5, <2>7, <3>3
    <2>10. CASE sections[s].ir[i].kind # "macro"
      <3>1. OpenedAt(It, <<s, i>>) = <<(<<s, i>>)>> \o << >>
        BY <2>8, <2>10 DEF OpenedAt
      <3>2. Range(OpenedAt(It, <<s, i>>)) = Range(<<(<<s, i>>)>>) \cup Range(<< >>)
        <4>1. \A x, y \in Seq(L) : Range(x \o y) = Range(x) \cup Range(y)
          BY Joined
        <4>. HIDE DEF L
        <4>. QED
          BY <2>7, <3>1, <4>1
      <3>. QED
        BY <2>5, <2>7, <2>10, <3>2
    <2>. QED
      BY <2>9, <2>10
  <1>. QED
    BY <1>1, <1>6, <1>7 DEF L

\* When all sections are parsed, a walk through a program goes through all its lines.
LEMMA ParsedDescends ==
    ASSUME AsmInv, TreeInv, \A s \in DOMAIN sections : Parses(sections, s)
    PROVE  Descends
  <1>1. PICK m \in Nat : DOMAIN sections = 1 .. m
    BY Sequences DEF AsmInv, SectionsSound
  <1>2. ASSUME NEW s \in DOMAIN sections
        PROVE  /\ \E n \in Nat : DOMAIN sections[s].ir = 1 .. n
               /\ \A i \in DOMAIN sections[s].ir : sections[s].ir[i].kind = "macro" =>
                     /\ sections[s].ir[i].child \in DOMAIN sections
                     /\ s < sections[s].ir[i].child
    <2>1. sections[s].lines \in Seq(TextLine) /\ s \in Nat \ {0}
      BY Fitting DEF TreeInv
    <2>2. DOMAIN sections[s].ir = DOMAIN sections[s].lines
      BY DEF Parses
    <2>3. \E n \in Nat : DOMAIN sections[s].lines = 1 .. n
      BY <2>1, LenProperties
    <2>4. ASSUME NEW i \in DOMAIN sections[s].ir, sections[s].ir[i].kind = "macro"
          PROVE  sections[s].ir[i].child \in DOMAIN sections /\ s < sections[s].ir[i].child
      <3>. PICK r : r = sections[s].ir[i]
        OBVIOUS
      <3>1. Reads(sections, s, i, r)
        BY DEF Parses
      <3>2. r.child \in DOMAIN sections /\ sections[r.child].parent = s
        BY <2>4, <3>1 DEF Reads
      <3>3. s < r.child
        BY <2>1, <3>2 DEF TreeInv, SectionFits, ForLine
      <3>. QED
        BY <3>2, <3>3
    <2>. QED
      BY <2>2, <2>3, <2>4
  <1>. QED
    BY <1>1, <1>2 DEF Descends

LEMMA AllWalked ==
    ASSUME AsmInv, TreeInv, OneEach, \A s \in DOMAIN sections : Parses(sections, s),
           NEW s \in DOMAIN sections, NEW i \in DOMAIN sections[s].ir
    PROVE  \A back : /\ Walk(sections, back)[sections[s].top] \in Seq(Nat \X Nat)
                     /\ <<s, i>> \in Range(Walk(sections, back)[sections[s].top])
  <1>. TAKE back
  <1>1. Descends
    BY ParsedDescends
  <1>2. PICK W : /\ W = Walk(sections, back)
                 /\ \A z \in DOMAIN sections :
                        /\ W[z] \in Seq(Nat \X Nat)
                        /\ \A j \in DOMAIN sections[z].ir :
                              /\ <<z, j>> \in Range(W[z])
                              /\ sections[z].ir[j].kind = "macro" =>
                                    Range(W[sections[z].ir[j].child]) \subseteq Range(W[z])
    BY <1>1, Walked
  <1>3. PICK N \in Nat : DOMAIN sections = 1 .. N
    BY <1>1 DEF Descends
  <1>. DEFINE G == {m \in 0 .. N : \A z \in 1 .. N : z <= m => Range(W[z]) \subseteq Range(W[sections[z].top])}
  <1>4. 0 \in G
    OBVIOUS
  <1>5. ASSUME NEW m \in 1 .. N, m - 1 \in G PROVE m \in G
    <2>1. ASSUME NEW z \in 1 .. N, z <= m PROVE Range(W[z]) \subseteq Range(W[sections[z].top])
      <3>0. z \in DOMAIN sections /\ SectionFits(z)
        BY <1>3 DEF TreeInv
      <3>1. CASE sections[z].parent = 0
        <4>1. sections[z].top = z
          BY <3>0, <3>1 DEF AsmInv, SectionsSound
        <4>. QED
          BY <4>1
      <3>2. CASE sections[z].parent # 0
        <4>1. PICK a : a = sections[z].parent
          OBVIOUS
        <4>2. PICK j : j = sections[z].line
          OBVIOUS
        <4>3. a \in DOMAIN sections /\ a < z /\ sections[z].top = sections[a].top /\ j \in Macros(sections[a])
          BY <3>0, <3>2, <4>1, <4>2 DEF SectionFits, ForLine
        <4>4. Range(W[a]) \subseteq Range(W[sections[a].top])
          <5>1. a \in 1 .. N /\ a <= m - 1
            BY <1>3, <2>1, <4>3
          <5>. QED
            BY <1>5, <5>1
        <4>5. Parses(sections, a) /\ j \in DOMAIN sections[a].lines /\ sections[a].lines[j].kind = "macro"
          BY <4>3 DEF Macros
        <4>. PICK r : r = sections[a].ir[j]
          OBVIOUS
        <4>6. j \in DOMAIN sections[a].ir /\ Reads(sections, a, j, r)
          BY <4>5 DEF Parses
        <4>7. r.kind = "macro" /\ r.child \in DOMAIN sections /\ sections[r.child].parent = a /\ sections[r.child].line = j
          BY <4>5, <4>6 DEF Reads
        <4>8. r.child = z
          BY <3>0, <3>2, <4>1, <4>2, <4>7 DEF OneEach
        <4>9. Range(W[z]) \subseteq Range(W[a])
          BY <1>2, <4>3, <4>6, <4>7, <4>8
        <4>. QED
          BY <4>3, <4>4, <4>9
      <3>. QED
        BY <3>1, <3>2
    <2>. QED
      BY <2>1
  <1>6. N \in G
    <2>. HIDE DEF G
    <2>1. 0 .. N \subseteq G
      BY <1>4, <1>5, Upwards, Zenon
    <2>. QED
      BY <2>1
  <1>7. s \in 1 .. N /\ s <= N
    BY <1>3
  <1>8. <<s, i>> \in Range(W[sections[s].top])
    BY <1>2, <1>6, <1>7
  <1>9. sections[s].top \in DOMAIN sections
    BY DEF TreeInv, SectionFits
  <1>. QED
    BY <1>2, <1>8, <1>9


\* Addresses are assigned to whole programs.
LEMMA AllParsed ==
    ASSUME AsmInv, TreeInv, NameInv, errors = {}, Take(5)
    PROVE  /\ phase = "os" => User \notin Programs
           /\ \A s \in DOMAIN sections : Parses(sections, s)
  <1>1. 5 \in Stages /\ 5 \in 4 .. 7
    BY StageNumbers
  <1>2. ~failed /\ phase \in {"os", "user"} /\ 5 < target
    BY <1>1, Taken
  <1>3. phase = "os" => User \notin Programs
    <2>1. target \in 1 .. 8
      BY StageNumbers DEF AsmInv, DriverSound
    <2>. QED
      BY <1>2, <2>1 DEF NameInv, TargetFits
  <1>4. /\ phase = "user" => \A s \in DOMAIN sections : sections[s].top = OS => Parses(sections, s)
        /\ \A s \in Own : Parses(sections, s)
    <2>1. \A u \in 1 .. 3 : queue[u] = << >>
      <3>1. \A u \in 1 .. 3 : u \in Stages /\ u < 5
        BY StageNumbers
      <3>. QED
        BY <1>1, <3>1, Taken
    <2>2. ~(target < 4)
      <3>1. target \in 1 .. 8
        BY StageNumbers DEF AsmInv, DriverSound
      <3>. QED
        BY <1>2, <3>1
    <2>. QED
      BY <1>2, <2>1, <2>2 DEF NameInv, Passed
  <1>5. ASSUME NEW s \in DOMAIN sections PROVE Parses(sections, s)
    <2>1. sections[s].top \in {OS, User} /\ sections[s].top \in Programs
      BY DEF AsmInv, SectionsSound, TreeInv, SectionFits, Programs
    <2>2. CASE phase = "user"
      BY <1>4, <2>1, <2>2 DEF Own
    <2>3. CASE phase = "os"
      <3>1. sections[s].top = OS
        BY <1>3, <2>1, <2>3
      <3>2. s \in Own
        BY <2>3, <3>1 DEF Own
      <3>. QED
        BY <1>4, <3>2
    <2>. QED
      BY <1>2, <2>2, <2>3
  <1>. QED
    BY <1>3, <1>5

\* If addresses are assigned without an error, every line was looked at.
LEMMA AllChecked ==
    ASSUME AsmInv, TreeInv, OneEach, \A s \in DOMAIN sections : Parses(sections, s),
           \A p \in Programs : \A r \in Reached(p) : LineErrors(r) = {},
           NEW s \in DOMAIN sections, NEW i \in DOMAIN sections[s].ir
    PROVE  BadSymbols(sections[s].ir[i], sections[s].top) = {}
  <1>. DEFINE p == sections[s].top
              walk == Walk(sections, Backward(p))[p]
  <1>1. p \in Programs
    BY DEF TreeInv, SectionFits, Programs
  <1>2. walk \in Seq(Nat \X Nat) /\ <<s, i>> \in Range(walk)
    BY AllWalked
  <1>3. ASSUME NEW r \in Reached(p)
        PROVE  ~Fails(r.line, r.from, r.back) /\ BadSymbols(At(sections, r.line), sections[r.line[1]].top) = {}
    <2>. DEFINE wrong == BadSymbols(At(sections, r.line), sections[r.line[1]].top)
                         \cup IF Fails(r.line, r.from, r.back) THEN {"overflow"} ELSE {}
    <2>1. LineErrors(r) = {}
      BY <1>1
    <2>2. LineErrors(r) = {Error(r.line[1], At(sections, r.line).source, e) : e \in wrong}
      BY DEF LineErrors
    <2>. HIDE DEF wrong
    <2>3. wrong = {}
      BY <2>1, <2>2
    <2>. QED
      BY <2>3 DEF wrong
  <1>4. PICK k \in DOMAIN walk : walk[k] = <<s, i>>
    BY <1>2 DEF Range
  <1>. HIDE DEF p
  <1>5. \A k1 \in DOMAIN walk : \E r \in Reached(p) : r.line = walk[k1]
    <2>1. NoneFails(p)
      BY <1>3 DEF NoneFails
    <2>2. PICK w : w = Walk(sections, Backward(p))[p]
      OBVIOUS
    <2>3. w = walk /\ w \in Seq(Nat \X Nat)
      BY <1>2, <2>2
    <2>4. \A k1 \in DOMAIN w : \E r \in Reached(p) : r.line = w[k1]
      BY <2>1, <2>2, <2>3, AllReached
    <2>. HIDE DEF walk
    <2>. QED
      BY <2>3, <2>4
  <1>6. PICK r \in Reached(p) : r.line = <<s, i>>
    BY <1>4, <1>5
  <1>7. At(sections, <<s, i>>) = sections[s].ir[i] /\ <<s, i>>[1] = s
    BY DEF At
  <1>. QED
    BY <1>3, <1>6, <1>7

LEMMA NamesAssign ==
    ASSUME AsmInv, TreeInv, TidyInv, NameInv, AssignAddresses
    PROVE  NameInv'
  <1>. DEFINE reached == UNION {Reached(p) : p \in Programs}
              wrong == UNION {LineErrors(r) : r \in reached}
  <1>1. /\ Take(5) /\ Requeue(5, wrong = {}, [u \in {6} |-> <<Image>>])
        /\ errors' = errors \cup wrong /\ sections' = sections /\ symbols' = symbols
    BY StageNumbers DEF AssignAddresses
  <1>. HIDE DEF wrong
  <1>2. 5 \in Stages /\ 6 \in Stages \ {5} /\ (wrong = {}) \in BOOLEAN /\ 5 \in 4 .. 7
    BY StageNumbers
  <1>3. TargetFits' /\ phase' = phase
    <2>1. User \in Programs' => User \in Programs
      BY <1>1 DEF Programs
    <2>. QED
      BY <1>1, <1>2, <2>1, AimKept
  <1>4. ASSUME errors' = {} PROVE errors = {} /\ wrong = {} /\ Fitted' /\ AllRead' /\ Passed'
    <2>1. errors = {} /\ wrong = {}
      BY <1>1, <1>4
    <2>2. Fitted' = Fitted /\ AllRead' = AllRead
      BY <1>1 DEF Fitted, AllRead
    <2>3. \A s \in DOMAIN sections : sections'[s].top = sections[s].top /\ (Parses(sections, s) => Parses(sections', s))
      BY <1>1
    <2>4. Passed'
      BY <1>1, <1>2, <1>3, <2>1, <2>3, PassedOn
    <2>. QED
      BY <2>1, <2>2, <2>4 DEF NameInv
  <1>5. Done'
    <2>1. \A u \in 1 .. 4 : u \in Stages /\ u < 5 /\ u # 5 /\ u # 6
      BY StageNumbers
    <2>2. \A u \in 1 .. 4 : queue[u] = << >>
      BY <1>1, <1>2, <2>1, Taken
    <2>3. queue' = [u \in Stages |-> (IF u = 5 THEN << >> ELSE queue[u])
                        \o (IF wrong = {} /\ u \in {6} THEN <<Image>> ELSE << >>)]
      <3>1. ASSUME NEW u \in {6} PROVE [v \in {6} |-> <<Image>>][u] = <<Image>>
        OBVIOUS
      <3>. QED
        BY <1>1, <3>1 DEF Requeue
    <2>4. << >> \o << >> = << >>
      OBVIOUS
    <2>5. \A u \in 1 .. 5 : queue'[u] = << >> \o << >>
      <3>1. \A u \in 1 .. 4 : queue'[u] = << >> \o << >>
        BY <2>1, <2>2, <2>3
      <3>2. queue'[5] = << >> \o << >>
        BY <1>2, <2>3
      <3>3. \A u \in 1 .. 5 : u \in 1 .. 4 \/ u = 5
        OBVIOUS
      <3>. QED
        BY <3>1, <3>2, <3>3
    <2>. QED
      BY <2>4, <2>5 DEF Done
  <1>6. phase' = "os" => User \notin Programs'
    <2>1. 5 < target /\ ~failed /\ target \in 1 .. 8
      BY <1>1, <1>2, Taken, StageNumbers DEF AsmInv, DriverSound
    <2>2. Programs' = Programs
      BY <1>1 DEF Programs
    <2>. QED
      BY <1>3, <2>1, <2>2 DEF NameInv, TargetFits
  <1>7. ASSUME errors' = {}
        PROVE  \A s \in DOMAIN sections : Parses(sections, s) /\
                  \A i \in DOMAIN sections[s].ir : BadSymbols(sections[s].ir[i], sections[s].top) = {}
    <2>1. errors = {} /\ wrong = {}
      BY <1>4, <1>7
    <2>2. \A s \in DOMAIN sections : Parses(sections, s)
      BY <1>1, <2>1, AllParsed
    <2>3. \A p \in Programs : \A r \in Reached(p) : LineErrors(r) = {}
      BY <2>1 DEF wrong
    <2>4. OneEach
      BY DEF TidyInv
    <2>. QED
      BY <2>2, <2>3, <2>4, AllChecked
  <1>8. Settled'
    <2>1. \A r, t : BadSymbols(r, t)' = BadSymbols(r, t)
      BY <1>1 DEF BadSymbols
    <2>2. ASSUME errors' = {}, NEW s \in DOMAIN sections'
          PROVE  /\ Parses(sections', s)
                 /\ \A i \in DOMAIN sections'[s].ir : BadSymbols(sections[s].ir[i], sections[s].top)' = {}
      <3>1. s \in DOMAIN sections /\ sections'[s] = sections[s]
        BY <1>1
      <3>2. Parses(sections, s) /\ \A i \in DOMAIN sections[s].ir : BadSymbols(sections[s].ir[i], sections[s].top) = {}
        BY <1>7, <2>2, <3>1
      <3>3. Parses(sections', s)
        BY <1>1, <3>2
      <3>4. ASSUME NEW i \in DOMAIN sections'[s].ir
            PROVE  BadSymbols(sections[s].ir[i], sections[s].top)' = {}
        <4>1. BadSymbols(sections[s].ir[i], sections[s].top) = {}
          BY <3>1, <3>2
        <4>. QED
          BY <1>1, <4>1 DEF BadSymbols
      <3>. QED
        BY <3>3, <3>4
    <2>. QED
      BY <1>5, <1>6, <2>2 DEF Settled
  <1>. QED
    BY <1>3, <1>4, <1>8 DEF NameInv

LEMMA NameStep ==
    ASSUME AsmInv, CircleInv, TreeInv, TidyInv, NameInv, [AsmNext]_asmVars
    PROVE  NameInv'
  <1>1. CASE Ignore
    BY <1>1, NamesIgnore
  <1>2. CASE GiveUp
    BY <1>2, NamesGiveUp
  <1>3. CASE EndLoop
    BY <1>3, NamesEndLoop
  <1>4. CASE Tokenize
    BY <1>4, NamesTokenize
  <1>5. CASE Preprocess
    BY <1>5, NamesPreprocess
  <1>6. CASE Parse
    BY <1>6, NamesParse
  <1>7. CASE CheckSanity
    BY <1>7, NamesCheckSanity
  <1>8. CASE AssignAddresses
    BY <1>8, NamesAssign
  <1>9. CASE PackImage
    <2>1. /\ Take(6) /\ sections' = sections /\ symbols' = symbols /\ errors' = errors /\ places' = places
      BY <1>9, StageNumbers DEF PackImage, text
    <2>5. Requeue(Stage.ADDRESS, TRUE, [u \in {Stage.PACK} |-> <<Image>>])
      BY <1>9 DEF PackImage
    <2>3. Requeue(6, TRUE, [u \in {7} |-> <<Image>>])
      BY <2>5, StageNumbers, Zenon
    <2>6. 6 + 1 = 7
      OBVIOUS
    <2>4. Requeue(6, TRUE, [u \in {6 + 1} |-> <<Image>>])
      BY <2>3, <2>6
    <2>2. <<Image>> \in Seq(Nat) /\ 6 \in 6 .. 7
      BY DEF Image
    <2>. QED
      BY <2>1, <2>2, <2>4, NamesImage
  <1>10. CASE Finish
    <2>1. /\ Take(7) /\ sections' = sections /\ symbols' = symbols /\ errors' = errors /\ places' = places
      BY <1>10, StageNumbers DEF Finish, text, layout
    <2>5. Requeue(Stage.PACK, TRUE, [u \in {Stage.FINISHED} |-> queue[Stage.PACK]])
      BY <1>10 DEF Finish
    <2>3. Requeue(7, TRUE, [u \in {8} |-> queue[7]])
      BY <2>5, StageNumbers, Zenon
    <2>6. 7 + 1 = 8
      OBVIOUS
    <2>4. Requeue(7, TRUE, [u \in {7 + 1} |-> queue[7]])
      BY <2>3, <2>6
    <2>2. queue[7] \in Seq(Nat) /\ 7 \in 6 .. 7
      BY StageNumbers DEF AsmInv, DriverSound
    <2>. QED
      BY <2>1, <2>2, <2>4, NamesImage
  <1>11. CASE UNCHANGED asmVars
    <2>1. /\ sections' = sections /\ symbols' = symbols /\ queue' = queue /\ phase' = phase /\ target' = target
          /\ errors' = errors /\ failed' = failed /\ places' = places
      BY <1>11 DEF asmVars, text, layout, driver
    <2>2. Own' = Own /\ Programs' = Programs /\ Done' = Done
      BY <2>1 DEF Own, Programs, Done
    <2>3. Passed' = Passed /\ TargetFits' = TargetFits
      BY <2>1, <2>2 DEF Passed, TargetFits
    <2>4. places # << >> => Done' /\ (phase' = "os" => User \notin Programs)
      BY <2>1, <2>2 DEF NameInv, Settled
    <2>. QED
      BY <2>1, <2>3, <2>4, NamesSame DEF NameInv
  <1>. QED
    BY <1>1, <1>2, <1>3, <1>4, <1>5, <1>6, <1>7, <1>8, <1>9, <1>10, <1>11 DEF AsmNext, Returned

-----------------------------------------------------------------------------
(* What follows for a success. *)

LEMMA NamesAlways == AsmSpec => [](AsmInv /\ CircleInv /\ TreeInv /\ TidyInv /\ NameInv)
  <1>1. AsmInit /\ AsmInv => TidyInv /\ NameInv
    BY TidyInit, NameInit
  <1>2. AsmInv /\ CircleInv /\ TreeInv /\ TidyInv /\ NameInv /\ [AsmNext]_asmVars => TidyInv' /\ NameInv'
    BY TidyStep, NameStep
  <1>. QED
    BY <1>1, <1>2, TreeAlways, PTL DEF AsmSpec

\* The program that defines a name.
Home(X, p) == IF X = {} THEN p ELSE CHOOSE q \in X : TRUE

\* The entries of a name fit, program p can use it, and where it is defined it is so once.
Usable(m, d, X, p) ==
    /\ Fits(m, d, X) /\ m[p].state # "kUndefined" /\ Cardinality(X) < 2
    /\ \A q \in {OS, User} : d[q] # {} => m[q].state \notin {"kMultiple", "kExternalMultiple"}

LEMMA OneDefined ==
    ASSUME NEW m, NEW d, NEW X, NEW p \in {OS, User}, Usable(m, d, X, p)
    PROVE  Home(X, p) \in {OS, User} /\ Cardinality(d[Home(X, p)]) = 1
  <1>0. /\ Fits(m, d, X) /\ m[p].state # "kUndefined" /\ Cardinality(X) < 2
        /\ \A q \in {OS, User} : d[q] # {} => m[q].state \notin {"kMultiple", "kExternalMultiple"}
    BY DEF Usable
  <1>1. /\ Other(p) \in {OS, User} /\ Other(p) # p /\ {OS, User} = {p, Other(p)} /\ Other(Other(p)) = p
    BY Tables2
  <1>2. X \subseteq {OS, User} /\ m \in [{OS, User} -> Table(<< >>)!Entry]
    BY <1>0 DEF Fits
  <1>3. ASSUME NEW t \in {OS, User} PROVE Side(m[t], m[Other(t)], d[t], t \in X, Other(t) \in X, Other(t))
    BY <1>0 DEF Fits
  <1>4. \A s, b, v : Rec(s, b, v).state = s /\ Rec(s, b, v).binding = b
    BY EntriesAre
  <1>5. ASSUME NEW t \in {OS, User}, Other(t) \notin X, m[t].state # "kUndefined" PROVE Cardinality(d[t]) = 1
    <2>1. m[t].binding # "absent"
      <3>1. m[t].binding = "absent" => m[t] = Rec("kUndefined", "absent", 0)
        BY <1>3 DEF Side
      <3>. QED
        BY <1>4, <1>5, <3>1
    <2>2. m[t].state = Counted(d[t])
      BY <1>3, <1>5, <2>1 DEF Side
    <2>3. d[t] # {} /\ \E a \in d[t] : d[t] = {a}
      BY <1>0, <1>5, <2>2 DEF Counted
    <2>. QED
      BY <2>3, FS_Singleton
  <1>6. X # {OS, User}
    <2>1. Cardinality({OS, User}) = 2
      <3>1. IsFiniteSet({OS}) /\ Cardinality({OS}) = 1 /\ User \notin {OS}
        BY FS_Singleton, Tables2
      <3>2. {OS} \cup {User} = {OS, User}
        OBVIOUS
      <3>3. Cardinality({OS} \cup {User}) = Cardinality({OS}) + 1
        BY <3>1, FS_AddElement
      <3>. QED
        BY <3>1, <3>2, <3>3
    <2>. QED
      BY <1>0, <2>1
  <1>7. CASE X = {}
    BY <1>0, <1>5, <1>7 DEF Home
  <1>8. CASE X = {p}
    <2>1. Home(X, p) = p
      BY <1>8 DEF Home
    <2>. QED
      BY <1>0, <1>1, <1>5, <1>8, <2>1
  <1>9. CASE X = {Other(p)}
    <2>1. Home(X, p) = Other(p)
      BY <1>9 DEF Home
    <2>2. \/ m[p].binding = "absent"
          \/ m[p] = Rec(m[Other(p)].state, "kImported", Other(p))
          \/ m[p] = Rec("kExternalMultiple", "kImported", Other(p)) /\ d[p] # {}
      BY <1>1, <1>3, <1>9 DEF Side
    <2>3. m[p].binding = "absent" => m[p] = Rec("kUndefined", "absent", 0)
      BY <1>3 DEF Side
    <2>4. m[Other(p)].state # "kUndefined"
      BY <1>0, <1>4, <2>2, <2>3
    <2>. QED
      BY <1>0, <1>1, <1>5, <1>9, <2>1, <2>4
  <1>. QED
    BY <1>1, <1>2, <1>6, <1>7, <1>8, <1>9

\* A line of program p was read.
IsRead(p, l) == \E s \in DOMAIN sections : \E i \in DOMAIN sections[s].ir :
    sections[s].top = p /\ sections[s].ir[i].kind = l.kind /\ sections[s].ir[i].name = l.name

\* When all is parsed the definitions and exports of the texts are those of the lines read.
LEMMA TextsAre ==
    ASSUME AsmInv, TreeInv, \A s \in DOMAIN sections : Parses(sections, s)
    PROVE  /\ \A q, x : Definitions(q, x) = DefinedAt(sections, q, x)
           /\ \A x : Exporters(x) = ExportedBy(sections, x)
           /\ Programs \subseteq {OS, User}
           /\ \A p : \A l \in Lines(p) : l.name \in Words /\ IsRead(p, l)
  <1>1. ASSUME NEW s \in DOMAIN sections
        PROVE  /\ DOMAIN sections[s].ir = DOMAIN sections[s].lines
               /\ \A i \in DOMAIN sections[s].ir :
                     /\ i \in Nat /\ sections[s].lines[i] \in TextLine
                     /\ sections[s].ir[i].kind = sections[s].lines[i].kind
                     /\ sections[s].ir[i].label = sections[s].lines[i].label
                     /\ sections[s].ir[i].name = sections[s].lines[i].name
    <2>1. sections[s].lines \in Seq(TextLine)
      BY Fitting DEF TreeInv
    <2>2. \A i \in DOMAIN sections[s].lines : i \in Nat /\ sections[s].lines[i] \in TextLine
      BY <2>1, LenProperties, ElementOfSeq
    <2>3. Parses(sections, s)
      OBVIOUS
    <2>. QED
      BY <2>2, <2>3 DEF Parses, Reads
  <1>2. ASSUME NEW q, NEW x PROVE Definitions(q, x) = DefinedAt(sections, q, x)
    <2>1. ASSUME NEW a \in Definitions(q, x) PROVE a \in DefinedAt(sections, q, x)
      <3>1. PICK s, i :
               s \in DOMAIN sections /\ i \in DOMAIN sections[s].lines /\ sections[s].top = q /\ sections[s].lines[i].label = x /\ a = <<s, i>>
        <4>. DEFINE In(s) == {<<s, i>> : i \in {i \in DOMAIN sections[s].lines : sections[s].lines[i].label = x}}
        <4>1. Definitions(q, x) = UNION {In(s) : s \in {s \in DOMAIN sections : sections[s].top = q}}
          BY DEF Definitions
        <4>. HIDE DEF In
        <4>2. PICK s \in DOMAIN sections : sections[s].top = q /\ a \in In(s)
          BY <4>1
        <4>3. PICK i \in DOMAIN sections[s].lines : sections[s].lines[i].label = x /\ a = <<s, i>>
          BY <4>2 DEF In
        <4>. QED
          BY <4>2, <4>3
      <3>2. i \in DOMAIN sections[s].ir /\ i \in Nat /\ sections[s].ir[i].label = x
        BY <1>1, <3>1
      <3>3. <<s, i>> \in DefinedAt(sections, q, x)
        BY <3>1, <3>2 DEF DefinedAt, Seen, At
      <3>. QED
        BY <3>1, <3>3
    <2>2. ASSUME NEW a \in DefinedAt(sections, q, x) PROVE a \in Definitions(q, x)
      <3>1. /\ a \in (DOMAIN sections) \X Nat /\ sections[a[1]].top = q /\ a[2] \in DOMAIN sections[a[1]].ir
            /\ sections[a[1]].ir[a[2]].label = x
        BY DEF DefinedAt, Seen, At
      <3>2. PICK s \in DOMAIN sections, i \in Nat : a = <<s, i>>
        BY <3>1
      <3>3. sections[s].top = q /\ i \in DOMAIN sections[s].lines /\ sections[s].lines[i].label = x
        BY <1>1, <3>1, <3>2
      <3>. QED
        BY <3>2, <3>3 DEF Definitions
    <2>. QED
      BY <2>1, <2>2
  <1>3. Programs \subseteq {OS, User}
    BY DEF Programs, AsmInv, SectionsSound
  <1>4. \A p : \A l : l \in Lines(p) <=> \E s \in DOMAIN sections : sections[s].top = p /\
                         \E i \in DOMAIN sections[s].lines : l = sections[s].lines[i]
    BY DEF Lines, Range
  <1>5. ASSUME NEW x PROVE Exporters(x) = ExportedBy(sections, x)
    <2>1. ASSUME NEW t \in Exporters(x) PROVE t \in ExportedBy(sections, x)
      <3>1. PICK l \in Lines(t) : l.kind = "export" /\ l.name = x
        BY DEF Exporters
      <3>2. PICK s, i :
               s \in DOMAIN sections /\ i \in DOMAIN sections[s].lines /\ sections[s].top = t /\ l = sections[s].lines[i]
        BY <1>4
      <3>3. /\ i \in DOMAIN sections[s].ir /\ i \in Nat
            /\ sections[s].ir[i].kind = "export" /\ sections[s].ir[i].name = x
        BY <1>1, <3>1, <3>2
      <3>4. <<s, i>> \in Seen(sections, t) /\ At(sections, <<s, i>>) = sections[s].ir[i]
        BY <3>2, <3>3 DEF Seen, At
      <3>5. t \in {OS, User}
        BY <1>3 DEF Exporters
      <3>. QED
        BY <3>3, <3>4, <3>5 DEF ExportedBy
    <2>2. ASSUME NEW t \in ExportedBy(sections, x) PROVE t \in Exporters(x)
      <3>1. PICK a \in Seen(sections, t) : sections[a[1]].ir[a[2]].kind = "export" /\ sections[a[1]].ir[a[2]].name = x
        BY DEF ExportedBy, At
      <3>2. PICK s \in DOMAIN sections, i \in Nat : a = <<s, i>> /\ sections[s].top = t /\ i \in DOMAIN sections[s].ir
        BY DEF Seen
      <3>3. i \in DOMAIN sections[s].lines /\ sections[s].lines[i].kind = "export" /\ sections[s].lines[i].name = x
        BY <1>1, <3>1, <3>2
      <3>4. sections[s].lines[i] \in Lines(t)
        BY <1>4, <3>2, <3>3
      <3>5. t \in Programs
        BY <3>2 DEF TreeInv, SectionFits, Programs
      <3>. QED
        BY <3>3, <3>4, <3>5 DEF Exporters
    <2>. QED
      BY <2>1, <2>2
  <1>6. ASSUME NEW p, NEW l \in Lines(p)
        PROVE  l.name \in Words /\ IsRead(p, l)
    <2>1. PICK s, i :
               s \in DOMAIN sections /\ i \in DOMAIN sections[s].lines /\ sections[s].top = p /\ l = sections[s].lines[i]
      BY <1>4
    <2>2. l \in TextLine
      BY <1>1, <2>1
    <2>3. l.name \in Words
      BY <2>2 DEF TextLine
    <2>. QED
      BY <1>1, <2>1, <2>3 DEF IsRead
  <1>. QED
    BY <1>2, <1>3, <1>5, <1>6

\* Line l of program p has an operand that not both programs export.
HasOperand(p, l) == /\ p \in Programs /\ l \in Lines(p) /\ l.kind \in Operands /\ l.name # ""
                    /\ Cardinality(Exporters(l.name)) < 2

\* After a success each operand has one definition.
LEMMA OperandsDefined ==
    ASSUME AsmInv, TreeInv, NameInv, places # << >>, errors = {}, NEW p, NEW l, HasOperand(p, l)
    PROVE  Cardinality(Definitions(Home(Exporters(l.name), p), l.name)) = 1
  <1>. PICK x : x = l.name
    OBVIOUS
  <1>1. \A s \in DOMAIN sections :
           Parses(sections, s) /\ \A i \in DOMAIN sections[s].ir : BadSymbols(sections[s].ir[i], sections[s].top) = {}
    BY DEF NameInv, Settled
  <1>2. /\ \A q : Definitions(q, x) = DefinedAt(sections, q, x)
        /\ Exporters(x) = ExportedBy(sections, x)
        /\ p \in {OS, User} /\ x \in Words /\ IsRead(p, l)
    BY <1>1, TextsAre DEF HasOperand
  <1>3. x \in Names
    BY <1>2 DEF Words, HasOperand
  <1>0. PICK m, d, X : m = symbols[x] /\ d = PlacesOf(sections, x) /\ X = ExportedBy(sections, x)
    OBVIOUS
  <1>4. Fits(m, d, X)
    BY <1>0, <1>3 DEF NameInv, Fitted
  <1>5. m[p].state # "kUndefined"
    <2>1. PICK s \in DOMAIN sections : \E i \in DOMAIN sections[s].ir :
             sections[s].top = p /\ sections[s].ir[i].kind = l.kind /\ sections[s].ir[i].name = l.name
      BY <1>2 DEF IsRead
    <2>3. PICK i \in DOMAIN sections[s].ir :
             sections[s].top = p /\ sections[s].ir[i].kind = l.kind /\ sections[s].ir[i].name = l.name
      BY <2>1
    <2>2. BadSymbols(sections[s].ir[i], p) = {}
      BY <1>1, <2>3
    <2>. QED
      BY <1>0, <2>2, <2>3 DEF BadSymbols, HasOperand
  <1>6. ASSUME NEW q \in {OS, User}, d[q] # {} PROVE m[q].state \notin {"kMultiple", "kExternalMultiple"}
    <2>1. PICK a \in DefinedAt(sections, q, x) : TRUE
      BY <1>0, <1>6 DEF PlacesOf
    <2>2. /\ a[1] \in DOMAIN sections /\ sections[a[1]].top = q /\ a[2] \in DOMAIN sections[a[1]].ir
          /\ sections[a[1]].ir[a[2]].label = x
      BY DEF DefinedAt, Seen, At
    <2>3. BadSymbols(sections[a[1]].ir[a[2]], q) = {}
      BY <1>1, <2>2
    <2>. QED
      BY <1>0, <2>2, <2>3 DEF BadSymbols, HasOperand
  <1>7. Cardinality(X) < 2
    BY <1>0, <1>2 DEF HasOperand
  <1>8. Home(X, p) \in {OS, User} /\ Cardinality(d[Home(X, p)]) = 1
    <2>1. Usable(m, d, X, p)
      BY <1>4, <1>5, <1>6, <1>7 DEF Usable
    <2>2. p \in {OS, User}
      BY <1>2
    <2>. QED
      BY <2>1, <2>2, OneDefined
  <1>9. d[Home(X, p)] = Definitions(Home(X, p), x)
    BY <1>0, <1>2, <1>8 DEF PlacesOf
  <1>. QED
    BY <1>0, <1>2, <1>8, <1>9

\* If assembly succeeds nothing was wrong, but for what the parser forgets; and when an image
\* was laid out without a message, each operand has one definition, in the program that
\* exports its name if there is one: over all macros of both programs, and whichever of
\* use, definition and export came first.
THEOREM SuccessAlwaysSound == AsmSpec => []SuccessIsSound
  <1>1. ASSUME AsmInv, TreeInv, NameInv, Succeeded => errors \subseteq Forgotten
        PROVE  SuccessIsSound
    <2>. SUFFICES ASSUME Succeeded, places # << >>, errors = {}, NEW p \in Programs, NEW l \in Lines(p),
                         l.kind \in Operands, l.name # "", Cardinality(Exporters(l.name)) < 2
                  PROVE  Cardinality(Definitions(Home(Exporters(l.name), p), l.name)) = 1
      BY <1>1 DEF SuccessIsSound, Home
    <2>. QED
      BY <1>1, OperandsDefined DEF HasOperand
  <1>. QED
    BY <1>1, NamesAlways, SuccessIsClean, PTL

-----------------------------------------------------------------------------
(* The symbol tables: the states of a name are right for any number of them.  The      *)
(* invariants are inductive together with what they say of bindings: only a table that *)
(* exported the name is global in it, a sole exporter is, once the name is exported    *)
(* some table is, and until then none is and none imports it.                          *)

Bindings ==
    /\ \A t \in Tables : entry[t].binding = "kGlobal" => t \in exports
    /\ \A t \in Tables : exports = {t} => entry[t].binding = "kGlobal"
    /\ exports # {} => \E t \in Tables : entry[t].binding = "kGlobal"
    /\ exports = {} => \A t \in Tables : entry[t].binding \in {"absent", "kLocal"}
    /\ \A t \in Tables : entry[t].binding = "absent" => entry[t] = Absent

\* As long as one table exports the name, only a definition of its own can mark an import.
ImportersKnown ==
    \A t \in Tables : exports = {t} =>
        \A u \in Tables \ {t} :
            \/ entry[u].binding = "absent"
            \/ entry[u] = Import(entry[t].state, t)
            \/ entry[u] = Import("kExternalMultiple", t) /\ defines[u] > 0

NamesInv == SymTypeOK /\ StatesCount /\ ImportersKnown /\ DuplicateExportsFlagged /\ Bindings

Present(t) == IF entry[t] = Absent THEN Local("kUndefined") ELSE entry[t]

\* The three outcomes of reference.
LEMMA ReferencedCases ==
    ASSUME NEW t \in Tables
    PROVE  \/ OtherGlobals(t) = {} /\ Referenced(t) = Present(t)
           \/ \E g \in OtherGlobals(t) :
                OtherGlobals(t) = {g} /\ Referenced(t) = Import(entry[g].state, g)
           \/ \E g, h \in OtherGlobals(t) :
                g # h /\ Referenced(t) = [Present(t) EXCEPT !.state = "kExternalMultiple"]
  <1> DEFINE c == CHOOSE g \in OtherGlobals(t) : TRUE
  <1>1. CASE OtherGlobals(t) = {}
    BY <1>1 DEF Referenced, Present
  <1>2. CASE OtherGlobals(t) # {}
    <2>1. c \in OtherGlobals(t)
      BY <1>2
    <2>2. CASE OtherGlobals(t) = {c}
      <3>1. Referenced(t) = Import(entry[c].state, c)
        BY <1>2, <2>2 DEF Referenced
      <3>. QED
        BY <2>1, <2>2, <3>1
    <2>3. CASE OtherGlobals(t) # {c}
      <3>1. Referenced(t) = [Present(t) EXCEPT !.state = "kExternalMultiple"]
        BY <1>2, <2>3 DEF Referenced, Present
      <3>2. PICK h \in OtherGlobals(t) : h # c
        BY <2>1, <2>3
      <3>. QED
        BY <2>1, <3>1, <3>2
    <2>. QED
      BY <2>2, <2>3
  <1>. QED
    BY <1>1, <1>2

\* What reference gives a table, whatever its outcome.
LEMMA ReferencedIs ==
    ASSUME NamesInv, NEW t \in Tables
    PROVE  /\ Referenced(t) \in Entry
           /\ Referenced(t).binding # "absent"
           /\ OtherGlobals(t) = {} => Referenced(t) = Present(t)
           /\ \A g \in Tables \ {t} : exports = {g} =>
                 OtherGlobals(t) = {g} /\ Referenced(t) = Import(entry[g].state, g)
           /\ \A g \in exports : g # t /\ OtherGlobals(t) # {}
                 /\ (t \in exports \/ exports # {g}) => Referenced(t).state = "kExternalMultiple"
           /\ Referenced(t).binding = "kGlobal" => entry[t].binding = "kGlobal"
           /\ entry[t].binding = "kGlobal" /\ Referenced(t).binding # "kGlobal" => OtherGlobals(t) # {}
           /\ Referenced(t).binding = "kLocal" /\ exports # {} => Referenced(t).state = "kExternalMultiple"
  <1>1. entry[t] \in Entry /\ Present(t) \in Entry /\ Present(t).binding # "absent"
        /\ (Present(t).binding = "kGlobal" <=> entry[t].binding = "kGlobal")
        /\ (entry[t].binding # "absent" => Present(t) = entry[t])
        /\ (entry[t].binding = "absent" => Present(t) = Local("kUndefined"))
    BY DEF NamesInv, SymTypeOK, Bindings, Present, Entry, States, Local, Absent
  <1>2. \A g \in OtherGlobals(t) : g \in Tables /\ g # t /\ g \in exports /\ entry[g] \in Entry
    BY DEF OtherGlobals, NamesInv, Bindings, SymTypeOK
  <1>3. \A g \in Tables \ {t} : exports = {g} => OtherGlobals(t) = {g}
    BY DEF OtherGlobals, NamesInv, Bindings
  <1>4. exports # {} /\ entry[t].binding # "kGlobal" => OtherGlobals(t) # {}
    BY DEF OtherGlobals, NamesInv, Bindings
  <1>5. CASE OtherGlobals(t) = {} /\ Referenced(t) = Present(t)
    <2>1. Referenced(t).binding = "kLocal" => exports = {}
      BY <1>1, <1>4, <1>5
    <2>. QED
      BY <1>1, <1>3, <1>5, <2>1
  <1>6. ASSUME NEW g \in OtherGlobals(t), OtherGlobals(t) = {g},
               Referenced(t) = Import(entry[g].state, g)
        PROVE  /\ Referenced(t) \in Entry
               /\ Referenced(t).binding = "kImported"
               /\ \A f \in exports : f # t /\ (t \in exports \/ exports # {f})
                     => Referenced(t).state = "kExternalMultiple"
    <2>1. Referenced(t) \in Entry /\ Referenced(t).binding = "kImported"
          /\ Referenced(t).state = entry[g].state
      BY <1>2, <1>6 DEF Import, Entry
    <2>2. ASSUME NEW f \in exports, f # t, t \in exports \/ exports # {f}
          PROVE  \E h \in exports : h # g
      BY <1>2, <2>2
    <2>3. (\E h \in exports : h # g) => entry[g].state = "kExternalMultiple"
      BY <1>2 DEF NamesInv, DuplicateExportsFlagged
    <2>. QED
      BY <2>1, <2>2, <2>3
  <1>7. ASSUME NEW g \in OtherGlobals(t), NEW h \in OtherGlobals(t), g # h,
               Referenced(t) = [Present(t) EXCEPT !.state = "kExternalMultiple"]
        PROVE  /\ Referenced(t) \in Entry
               /\ Referenced(t).binding = Present(t).binding
               /\ Referenced(t).state = "kExternalMultiple"
    BY <1>1, <1>7 DEF Entry, States
  <1>. QED
    <2>1. CASE \E g \in OtherGlobals(t) :
                 OtherGlobals(t) = {g} /\ Referenced(t) = Import(entry[g].state, g)
      BY <1>1, <1>3, <1>6, <2>1
    <2>2. CASE \E g, h \in OtherGlobals(t) :
                 g # h /\ Referenced(t) = [Present(t) EXCEPT !.state = "kExternalMultiple"]
      BY <1>1, <1>2, <1>3, <1>7, <2>2
    <2>. QED
      BY <1>5, <2>1, <2>2, ReferencedCases

\* Where two tables export the name, one of the two is marked by reference or was.
LEMMA ReferencedExporter ==
    ASSUME NamesInv, NEW t \in Tables, NEW g \in exports, g # t, t \in exports
    PROVE  Referenced(t).state = "kExternalMultiple"
  <1>1. entry[t].state = "kExternalMultiple" /\ entry[t].binding # "absent"
    BY DEF NamesInv, SymTypeOK, DuplicateExportsFlagged
  <1>2. Present(t) = entry[t]
    BY <1>1 DEF Present, Absent, Local
  <1>. QED
    BY <1>1, <1>2, ReferencedIs

\* What reference leaves alone in a table that no other exports the name to.
LEMMA ReferencedAlone ==
    ASSUME NamesInv, NEW t \in Tables, exports \subseteq {t}
    PROVE  /\ OtherGlobals(t) = {}
           /\ Referenced(t) = Present(t)
           /\ Referenced(t).state = CountState(defines[t])
           /\ Referenced(t).value = Empty
           /\ Referenced(t).binding = IF t \in exports THEN "kGlobal" ELSE "kLocal"
           /\ t \in exports => Referenced(t) = entry[t]
  <1>1. OtherGlobals(t) = {}
    BY DEF OtherGlobals, NamesInv, Bindings
  <1>2. Referenced(t) = Present(t)
    BY <1>1, ReferencedIs
  <1>3. CASE entry[t].binding = "absent"
    <2>1. entry[t] = Absent /\ defines[t] = 0 /\ t \notin exports
      BY <1>3 DEF NamesInv, SymTypeOK, Bindings
    <2>. QED
      BY <1>1, <1>2, <2>1 DEF Present, Local, CountState
  <1>4. CASE entry[t].binding # "absent"
    <2>1. Present(t) = entry[t]
      BY <1>4 DEF Present, Absent, Local
    <2>2. entry[t].state = CountState(defines[t]) /\ entry[t].value = Empty
      BY <1>4 DEF NamesInv, StatesCount
    <2>3. entry[t].binding = IF t \in exports THEN "kGlobal" ELSE "kLocal"
      BY <1>4 DEF NamesInv, Bindings
    <2>. QED
      BY <1>1, <1>2, <2>1, <2>2, <2>3
  <1>. QED
    BY <1>3, <1>4

LEMMA ReferenceKeeps == ASSUME NamesInv, NEW t \in Tables, Reference(t) PROVE NamesInv'
  <1> DEFINE r == Referenced(t)
  <1>1. /\ entry' = [entry EXCEPT ![t] = r]
        /\ exports' = exports /\ defines' = defines
        /\ entry \in [Tables -> Entry]
    BY DEF Reference, NamesInv, SymTypeOK
  <1>2. r \in Entry /\ r.binding # "absent"
    BY ReferencedIs
  <1>3. entry'[t] = r /\ \A u \in Tables \ {t} : entry'[u] = entry[u]
    BY <1>1
  <1> HIDE DEF r
  <1>4. SymTypeOK'
    BY <1>1, <1>2, <1>3 DEF NamesInv, SymTypeOK
  <1>5. StatesCount'
    <2>1. exports \subseteq {t} => r.state = CountState(defines[t]) /\ r.value = Empty
      BY ReferencedAlone DEF r
    <2>. QED
      BY <1>1, <1>3, <2>1 DEF NamesInv, StatesCount, CountState
  <1>6. ImportersKnown'
    <2>1. exports = {t} => r = entry[t]
      BY ReferencedAlone DEF r
    <2>2. \A g \in Tables \ {t} : exports = {g} => r = Import(entry[g].state, g)
      BY ReferencedIs DEF r
    <2>. QED
      BY <1>1, <1>3, <2>1, <2>2 DEF NamesInv, ImportersKnown, Import
  <1>7. DuplicateExportsFlagged'
    <2>1. \A g \in exports : g # t /\ t \in exports => r.state = "kExternalMultiple"
      BY ReferencedExporter DEF r
    <2>2. r.binding = "kLocal" /\ exports # {} => r.state = "kExternalMultiple"
      BY ReferencedIs DEF r
    <2>3. exports \subseteq Tables
      BY DEF NamesInv, SymTypeOK
    <2>. QED
      BY <1>1, <1>3, <2>1, <2>2, <2>3 DEF NamesInv, DuplicateExportsFlagged
  <1>8. Bindings'
    <2>1. r.binding = "kGlobal" => entry[t].binding = "kGlobal"
      BY ReferencedIs DEF r
    <2>2. entry[t].binding = "kGlobal" /\ r.binding # "kGlobal"
             => \E g \in Tables \ {t} : entry[g].binding = "kGlobal"
      BY ReferencedIs DEF r, OtherGlobals
    <2>3. exports \subseteq {t} => r.binding = IF t \in exports THEN "kGlobal" ELSE "kLocal"
      BY ReferencedAlone DEF r
    <2>. QED
      BY <1>1, <1>2, <1>3, <2>1, <2>2, <2>3 DEF NamesInv, Bindings
  <1>. QED
    BY <1>4, <1>5, <1>6, <1>7, <1>8 DEF NamesInv

LEMMA DefineKeeps == ASSUME NamesInv, NEW t \in Tables, Define(t) PROVE NamesInv'
  <1> DEFINE r == Referenced(t)
             s == IF r.binding = "kImported" THEN "kExternalMultiple" ELSE OnceMore(r.state)
  <1>1. r \in Entry /\ r.binding # "absent"
    BY ReferencedIs
  <1>2. /\ entry' = Defined(t, r)
        /\ exports' = exports
        /\ defines[t] < MaxDefines /\ defines' = [defines EXCEPT ![t] = @ + 1]
        /\ entry \in [Tables -> Entry]
    BY DEF Define, NamesInv, SymTypeOK
  <1>3. /\ entry'[t] = [r EXCEPT !.state = s]
        /\ \A u \in Tables \ {t} :
              entry'[u] = IF r.binding = "kGlobal" /\ entry[u].binding = "kImported"
                          THEN Import(s, t) ELSE entry[u]
        /\ DOMAIN entry' = Tables /\ entry' = [u \in Tables |-> entry'[u]]
    BY <1>2 DEF Defined
  <1> HIDE DEF r
  <1>4. s \in States
    BY <1>1 DEF States, Entry, OnceMore
  <1>5. /\ entry'[t] \in Entry /\ entry'[t].state = s
        /\ entry'[t].binding = r.binding /\ entry'[t].value = r.value
    BY <1>1, <1>3, <1>4 DEF Entry
  <1>6. r.binding = "kGlobal" => entry[t].binding = "kGlobal" /\ t \in exports
    BY ReferencedIs DEF r, NamesInv, Bindings
  <1>7. \A g \in exports : g # t /\ t \in exports => s = "kExternalMultiple"
    BY ReferencedExporter DEF r, OnceMore
  <1>8. /\ defines \in [Tables -> 0 .. MaxDefines] /\ MaxDefines \in Nat
        /\ defines'[t] = defines[t] + 1 /\ defines[t] \in Nat
        /\ \A u \in Tables \ {t} : defines'[u] = defines[u]
    BY <1>2, TablesAssumption DEF NamesInv, SymTypeOK
  <1> HIDE DEF s
  <1>9. Import(s, t) \in Entry /\ Import(s, t).binding = "kImported" /\ Import(s, t).state = s
    BY <1>4 DEF Import, Entry
  <1>10. SymTypeOK'
    <2>1. entry' \in [Tables -> Entry]
      BY <1>2, <1>3, <1>5, <1>9
    <2>2. defines' \in [Tables -> 0 .. MaxDefines]
      BY <1>2, <1>8
    <2>3. \A u \in Tables \ {t} : entry'[u].binding = "absent" => entry'[u] = entry[u]
      BY <1>3, <1>9
    <2>. QED
      BY <1>1, <1>2, <1>5, <1>8, <2>1, <2>2, <2>3 DEF NamesInv, SymTypeOK
  <1>11. StatesCount'
    <2>1. ASSUME exports \subseteq {t}
          PROVE  s = CountState(defines[t] + 1) /\ r.value = Empty
      <3>1. r.state = CountState(defines[t]) /\ r.value = Empty /\ r.binding # "kImported"
        BY <2>1, ReferencedAlone DEF r
      <3>. QED
        BY <1>8, <3>1 DEF s, OnceMore, CountState
    <2>2. \A u \in Tables \ {t} : exports \subseteq {u} => entry'[u] = entry[u]
      BY <1>3, <1>6
    <2>. QED
      BY <1>2, <1>5, <1>8, <2>1, <2>2 DEF NamesInv, StatesCount, CountState
  <1>12. ImportersKnown'
    <2>1. ASSUME exports = {t}, NEW u \in Tables \ {t}
          PROVE  entry'[u].binding = "absent" \/ entry'[u] = Import(entry'[t].state, t)
      <3>1. r.binding = "kGlobal"
        BY <2>1, ReferencedAlone DEF r
      <3>2. \A state : Import(state, t).binding = "kImported"
        BY DEF Import
      <3>3. entry[u].binding \in {"absent", "kImported"}
        BY <2>1, <3>2 DEF NamesInv, ImportersKnown
      <3>. QED
        BY <1>3, <1>5, <3>1, <3>3
    <2>2. ASSUME NEW g \in Tables \ {t}, exports = {g}
          PROVE  /\ entry'[t] = Import("kExternalMultiple", g)
                 /\ \A u \in Tables \ {t} : entry'[u] = entry[u]
      <3>1. r = Import(entry[g].state, g)
        BY <2>2, ReferencedIs DEF r
      <3>2. r.binding = "kImported" /\ s = "kExternalMultiple"
        BY <3>1 DEF Import, s
      <3>. QED
        BY <1>3, <3>1, <3>2 DEF Import
    <2>3. ASSUME NEW g \in Tables \ {t}, exports = {g}, NEW u \in Tables \ {g}
          PROVE  \/ entry'[u].binding = "absent"
                 \/ entry'[u] = Import(entry'[g].state, g)
                 \/ entry'[u] = Import("kExternalMultiple", g) /\ defines'[u] > 0
      BY <1>8, <2>2, <2>3 DEF NamesInv, ImportersKnown
    <2>. QED
      BY <1>2, <2>1, <2>3 DEF ImportersKnown
  <1>13. DuplicateExportsFlagged'
    <2>1. exports \subseteq Tables
      BY DEF NamesInv, SymTypeOK
    <2>2. ASSUME NEW u \in exports, NEW v \in exports, u # v
          PROVE  entry'[u].state = "kExternalMultiple"
      <3>1. CASE u = t
        BY <1>5, <1>7, <2>2, <3>1
      <3>2. CASE u # t
        <4>1. entry[u].state = "kExternalMultiple"
          BY <2>2 DEF NamesInv, DuplicateExportsFlagged
        <4>2. r.binding = "kGlobal" => s = "kExternalMultiple"
          BY <1>6, <1>7, <3>2
        <4>. QED
          BY <1>3, <1>9, <2>1, <3>2, <4>1, <4>2
      <3>. QED
        BY <3>1, <3>2
    <2>3. r.binding = "kLocal" /\ exports # {} => s = "kExternalMultiple"
      BY ReferencedIs DEF r, s, OnceMore
    <2>4. \A u \in Tables \ {t} : entry'[u].binding = "kLocal" => entry'[u] = entry[u]
      BY <1>3, <1>9
    <2>. QED
      BY <1>2, <1>5, <2>2, <2>3, <2>4 DEF NamesInv, DuplicateExportsFlagged
  <1>14. Bindings'
    <2>1. \A u \in Tables \ {t} : entry'[u].binding = entry[u].binding
      BY <1>3, <1>9
    <2>2. entry[t].binding = "kGlobal" /\ r.binding # "kGlobal"
             => \E g \in Tables \ {t} : entry[g].binding = "kGlobal"
      BY ReferencedIs DEF r, OtherGlobals
    <2>3. exports \subseteq {t} => r.binding = IF t \in exports THEN "kGlobal" ELSE "kLocal"
      BY ReferencedAlone DEF r
    <2>4. \A u \in Tables \ {t} : entry'[u].binding = "absent" => entry'[u] = entry[u]
      BY <1>3, <1>9
    <2>. QED
      BY <1>1, <1>2, <1>5, <1>6, <2>1, <2>2, <2>3, <2>4 DEF NamesInv, Bindings
  <1>. QED
    BY <1>10, <1>11, <1>12, <1>13, <1>14 DEF NamesInv

LEMMA MarkGlobalKeeps == ASSUME NamesInv, NEW t \in Tables, MarkGlobal(t) PROVE NamesInv'
  <1> DEFINE r == Referenced(t)
             s == IF OtherGlobals(t) # {} THEN "kExternalMultiple" ELSE r.state
  <1>1. r \in Entry /\ r.binding # "absent"
    BY ReferencedIs
  <1>2. /\ entry' = Exported(t, r)
        /\ exports' = exports \cup {t}
        /\ defines' = defines
        /\ entry \in [Tables -> Entry]
    BY DEF MarkGlobal, NamesInv, SymTypeOK
  <1>3. /\ entry'[t] = [r EXCEPT !.binding = "kGlobal", !.state = s]
        /\ \A u \in Tables \ {t} :
              entry'[u] = IF entry[u].binding = "kGlobal"
                            THEN [entry[u] EXCEPT !.state = "kExternalMultiple"]
                          ELSE IF entry[u].binding = "kLocal" THEN Import(s, t)
                          ELSE entry[u]
        /\ entry' = [u \in Tables |-> entry'[u]]
    <2> HIDE DEF r
    <2> DEFINE own == [r EXCEPT !.binding = "kGlobal", !.state = s]
               marked(u) == [entry[u] EXCEPT !.state = "kExternalMultiple"]
    <2>1. \A u \in Tables \ {t} : u \in OtherGlobals(t) <=> entry[u].binding = "kGlobal"
      BY DEF OtherGlobals
    <2>2. entry' = [u \in Tables |->
                      CASE u = t -> own
                        [] u \in OtherGlobals(t) -> marked(u)
                        [] u # t /\ entry[u].binding = "kLocal" -> Import(s, t)
                        [] OTHER -> entry[u]]
      BY <1>2, Zenon DEF Exported
    <2>3. t \notin OtherGlobals(t)
      BY DEF OtherGlobals
    <2> HIDE DEF s, own, marked
    <2>4. /\ entry'[t] = own
          /\ \A u \in Tables \ {t} :
                entry'[u] = IF entry[u].binding = "kGlobal" THEN marked(u)
                            ELSE IF entry[u].binding = "kLocal" THEN Import(s, t)
                            ELSE entry[u]
          /\ entry' = [u \in Tables |-> entry'[u]]
      BY <2>1, <2>2, <2>3
    <2>. QED
      BY <2>4 DEF own, marked
  <1> HIDE DEF r
  <1>4. s \in States
    BY <1>1 DEF States, Entry
  <1>5. /\ entry'[t] \in Entry /\ entry'[t].state = s
        /\ entry'[t].binding = "kGlobal" /\ entry'[t].value = r.value
    BY <1>1, <1>3, <1>4 DEF Entry
  <1>6. \A g \in exports : g # t => s = "kExternalMultiple"
    <2>1. SUFFICES ASSUME NEW g \in exports, g # t, OtherGlobals(t) = {}
                   PROVE  r.state = "kExternalMultiple"
      OBVIOUS
    <2>2. t \in exports
      BY <2>1 DEF NamesInv, Bindings, OtherGlobals
    <2>. QED
      BY <2>1, <2>2, ReferencedExporter DEF r
  <1> HIDE DEF s
  <1>7. /\ Import(s, t) \in Entry /\ Import(s, t).binding = "kImported"
        /\ Import(s, t).state = s
    BY <1>4 DEF Import, Entry
  <1>8. ASSUME NEW u \in Tables \ {t}
        PROVE  /\ entry'[u] \in Entry
               /\ entry[u].binding = "kGlobal" =>
                     entry'[u].binding = "kGlobal" /\ entry'[u].state = "kExternalMultiple"
               /\ entry[u].binding = "kLocal" => entry'[u] = Import(s, t)
               /\ entry[u].binding \in {"absent", "kImported"} => entry'[u] = entry[u]
               /\ entry[u].binding \in {"absent", "kLocal", "kGlobal", "kImported"}
    BY <1>2, <1>3, <1>7, <1>8 DEF Entry, States
  <1>9. SymTypeOK'
    <2>1. entry' \in [Tables -> Entry]
      BY <1>3, <1>5, <1>8
    <2>2. \A u \in Tables \ {t} : entry'[u].binding = "absent" => entry'[u] = entry[u]
      BY <1>7, <1>8
    <2>. QED
      BY <1>2, <1>5, <2>1, <2>2 DEF NamesInv, SymTypeOK
  <1>10. StatesCount'
    <2>1. exports \subseteq {t} => s = CountState(defines[t]) /\ r.value = Empty
      BY ReferencedAlone DEF r, s
    <2>. QED
      BY <1>2, <1>5, <2>1 DEF StatesCount, CountState
  <1>11. ImportersKnown'
    <2>1. SUFFICES ASSUME exports \subseteq {t}, NEW u \in Tables \ {t}
                   PROVE  \/ entry'[u].binding = "absent"
                          \/ entry'[u] = Import(entry'[t].state, t)
                          \/ entry'[u] = Import("kExternalMultiple", t) /\ defines'[u] > 0
      BY <1>2 DEF ImportersKnown
    <2>2. CASE exports = {}
      <3>1. entry[u].binding \in {"absent", "kLocal"}
        BY <2>2 DEF NamesInv, Bindings
      <3>. QED
        BY <1>5, <1>8, <3>1
    <2>3. CASE exports = {t}
      <3>1. entry[t].state = s
        BY <2>3, ReferencedAlone DEF r, s
      <3>2. \A state : Import(state, t).binding = "kImported"
        BY DEF Import
      <3>3. \/ entry[u].binding = "absent"
            \/ entry[u] = Import(s, t)
            \/ entry[u] = Import("kExternalMultiple", t) /\ defines[u] > 0
        BY <2>3, <3>1 DEF NamesInv, ImportersKnown
      <3>4. entry'[u] = entry[u]
        BY <1>8, <3>2, <3>3
      <3>. QED
        BY <1>2, <1>5, <3>3, <3>4
    <2>. QED
      BY <2>1, <2>2, <2>3
  <1>12. DuplicateExportsFlagged'
    <2>1. exports \subseteq Tables
      BY DEF NamesInv, SymTypeOK
    <2>2. ASSUME NEW u \in exports, u # t
          PROVE  entry'[u].state = "kExternalMultiple"
      <3>1. CASE entry[u].binding \in {"kGlobal", "kLocal"}
        BY <1>6, <1>7, <1>8, <2>1, <2>2, <3>1
      <3>2. CASE entry[u].binding \in {"absent", "kImported"}
        <4>1. exports # {u}
          BY <2>1, <3>2 DEF NamesInv, Bindings
        <4>2. PICK v \in exports : v # u
          BY <4>1
        <4>3. entry[u].state = "kExternalMultiple"
          BY <4>2 DEF NamesInv, DuplicateExportsFlagged
        <4>. QED
          BY <1>8, <2>1, <2>2, <3>2, <4>3
      <3>. QED
        BY <1>8, <2>1, <2>2, <3>1, <3>2
    <2>3. \A u, v \in exports' : u # v => entry'[u].state = "kExternalMultiple"
      BY <1>2, <1>5, <1>6, <2>2
    <2>4. \A u \in Tables : entry'[u].binding # "kLocal"
      BY <1>5, <1>7, <1>8
    <2>. QED
      BY <2>3, <2>4 DEF DuplicateExportsFlagged
  <1>13. Bindings'
    <2>1. \A u \in Tables \ {t} :
             /\ entry'[u].binding = "kGlobal" => entry[u].binding = "kGlobal"
             /\ entry'[u].binding = "absent" => entry'[u] = entry[u]
      BY <1>7, <1>8
    <2>. QED
      BY <1>2, <1>5, <2>1 DEF NamesInv, Bindings
  <1>. QED
    BY <1>9, <1>10, <1>11, <1>12, <1>13 DEF NamesInv

\* Every reachable state satisfies the invariant.
LEMMA Invariance == SymSpec => []NamesInv
  <1>1. SymInit => NamesInv
    BY TablesAssumption DEF SymInit, NamesInv, SymTypeOK, StatesCount, ImportersKnown,
       DuplicateExportsFlagged, Bindings, Absent, Local, Entry, States
  <1>2. NamesInv /\ [SymNext]_symVars => NamesInv'
    <2>1. ASSUME NamesInv, UNCHANGED symVars
          PROVE  NamesInv'
      BY <2>1 DEF symVars, NamesInv, SymTypeOK, StatesCount, ImportersKnown,
         DuplicateExportsFlagged, Bindings, CountState
    <2>. QED
      BY <2>1, ReferenceKeeps, DefineKeeps, MarkGlobalKeeps DEF SymNext
  <1>. QED
    BY <1>1, <1>2, PTL DEF SymSpec

\* Whatever the assembler asks of its tables, their entries have their types and a
\* table that defined or exported the name has one (LeafTable).
THEOREM SymbolTypesCorrect == SymSpec => []SymTypeOK
  BY Invariance, PTL DEF NamesInv

\* For any number of tables: as long as at most one exports the name, its state
\* counts its definitions (define).
THEOREM StatesAlwaysCount == SymSpec => []StatesCount
  BY Invariance, PTL DEF NamesInv

\* For any number of tables and in any order of uses, definitions and exports: the
\* tables that use a name only one exports, and do not define it, have its state.
THEOREM ImportersAlwaysFollow == SymSpec => []ImportersFollow
  <1>1. NamesInv => ImportersFollow
    BY DEF NamesInv, SymTypeOK, ImportersKnown, ImportersFollow
  <1>. QED
    BY <1>1, Invariance, PTL

\* For any number of tables: a name exported twice is marked in both for good.
THEOREM DuplicatesStayFlagged == SymSpec => []DuplicateExportsFlagged
  BY Invariance, PTL DEF NamesInv
=============================================================================
