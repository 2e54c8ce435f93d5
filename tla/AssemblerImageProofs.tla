------------------------- MODULE AssemblerImageProofs -------------------------
(***************************************************************************)
(* Where the lines of an image are, for every operating system, user       *)
(* program and set of macros: addresses are assigned line by line, in the  *)
(* one direction or the other, and the image is packed afterwards without  *)
(* looking at them; yet each line lies in it where its address says.       *)
(*                                                                         *)
(* The assignment is a path of addresses along the walk through a program  *)
(* (Laid), and the image one of positions along what is packed (Follow).   *)
(* Section by section, and from the innermost macro outwards, the second   *)
(* runs along the first (SectionBetween).                                  *)
(***************************************************************************)
EXTENDS AssemblerProofs

-----------------------------------------------------------------------------
(* Remainders and totals.                                                             *)

\* Remainders of what differs by multiples of the divisor.
LEMMA Quotients ==
    ASSUME NEW M \in Nat \ {0}, NEW x \in Int
    PROVE  /\ x = (M * (x \div M)) + (x % M) /\ x % M \in 0 .. M - 1 /\ x \div M \in Int
           /\ x \in 0 .. M - 1 => x % M = x
  OBVIOUS

\* A remainder is known by what it leaves.
LEMMA Remainders ==
    ASSUME NEW M \in Nat \ {0}, NEW q \in Int, NEW r \in 0 .. M - 1
    PROVE  ((M * q) + r) % M = r
  OBVIOUS

\* Adding the same keeps remainders equal.
LEMMA Shifted ==
    ASSUME NEW M \in Nat \ {0}, NEW x \in Int, NEW y \in Int, NEW c \in Int, x % M = y % M
    PROVE  (x + c) % M = (y + c) % M
  <1>. DEFINE r == (y + c) % M
              a == x \div M
              b == y \div M
              d == (y + c) \div M
  <1>1. x = (M * a) + (x % M) /\ y = (M * b) + (y % M) /\ a \in Int /\ b \in Int
    BY Quotients
  <1>2. y + c = (M * d) + r /\ d \in Int /\ r \in 0 .. M - 1
    <2>1. y + c \in Int
      OBVIOUS
    <2>. QED
      BY <2>1, Quotients
  <1>. HIDE DEF r, a, b, d
  <1>3. x + c = (M * (a - b)) + (M * d) + r
    <2>1. x - y = (M * a) - (M * b)
      BY <1>1
    <2>2. (M * a) - (M * b) = M * (a - b)
      BY <1>1
    <2>. QED
      BY <1>1, <1>2, <2>1, <2>2
  <1>4. (M * (a - b)) + (M * d) = M * ((a - b) + d)
    BY <1>1, <1>2
  <1>5. x + c = (M * ((a - b) + d)) + r /\ (a - b) + d \in Int
    BY <1>1, <1>2, <1>3, <1>4
  <1>. QED
    BY <1>2, <1>5, Remainders DEF r

\* Once round the address space is where one was.
LEMMA OnceRound ==
    ASSUME NEW M \in Nat \ {0}, NEW x \in Int
    PROVE  (x + M) % M = x % M /\ M % M = 0
  <1>1. M % M = 0 % M
    <2>1. M = (M * 1) + 0 /\ 0 \in 0 .. M - 1 /\ 1 \in Int
      OBVIOUS
    <2>2. ((M * 1) + 0) % M = 0
      BY <2>1, Remainders
    <2>3. 0 % M = 0
      BY <2>1, Quotients
    <2>. QED
      BY <2>1, <2>2, <2>3
  <1>2. (M + x) % M = (0 + x) % M
    <2>1. M \in Int /\ 0 \in Int
      OBVIOUS
    <2>. QED
      BY <1>1, <2>1, Shifted
  <1>3. 0 % M = 0
    BY Quotients
  <1>. QED
    BY <1>1, <1>2, <1>3

\* F is what the first so many lines add up to.
Sums(size, lines, n, F) ==
    F[0] = 0 /\ Total(size, lines) = F[n] /\ \A i \in 1 .. n : F[i] = F[i - 1] + size[lines[i]]

\* A total is added up line by line.
LEMMA TotalSteps ==
    ASSUME NEW size, NEW lines, NEW n \in Nat, DOMAIN lines = 1 .. n
    PROVE  \E F : Sums(size, lines, n, F)
  <1>. DEFINE next(g, s) == IF s = {} THEN 0 ELSE g[s \ {Max(s)}] + size[lines[Max(s)]]
              Is(g) == g = [s \in SUBSET (1 .. n) |-> next(g, s)]
              It == CHOOSE g : Is(g)
              G == {k \in 0 .. n : \E g : g = [s \in SUBSET (1 .. k) |-> next(g, s)]}
  <1>1. Total(size, lines) = It[1 .. n]
    BY DEF Total, FoldLeft, MapThenFoldSet
  <1>2. 0 \in G
    <2>. DEFINE g == [s \in SUBSET (1 .. 0) |-> 0]
    <2>1. \A s \in SUBSET (1 .. 0) : s = {}
      OBVIOUS
    <2>2. \A s \in SUBSET (1 .. 0) : next(g, s) = 0
      BY <2>1
    <2>. HIDE DEF next
    <2>3. g = [s \in SUBSET (1 .. 0) |-> next(g, s)]
      BY <2>2
    <2>4. 0 \in 0 .. n
      OBVIOUS
    <2>. HIDE DEF g
    <2>. QED
      BY <2>3, <2>4
  <1>3. ASSUME NEW i \in 1 .. n, i - 1 \in G PROVE i \in G
    <2>1. PICK g : g = [s \in SUBSET (1 .. i - 1) |-> next(g, s)]
      BY <1>3
    <2>. DEFINE h == [s \in SUBSET (1 .. i) |-> IF i \in s THEN g[s \ {i}] + size[lines[i]] ELSE g[s]]
    <2>2. ASSUME NEW s \in SUBSET (1 .. i) PROVE h[s] = next(h, s)
      <3>1. CASE i \in s
        <4>1. Max(s) = i /\ s # {}
          BY <3>1, MaxIs
        <4>2. s \ {i} \in SUBSET (1 .. i) /\ i \notin s \ {i}
          OBVIOUS
        <4>3. h[s \ {i}] = g[s \ {i}] /\ h[s] = g[s \ {i}] + size[lines[i]]
          BY <3>1, <4>2
        <4>. HIDE DEF h
        <4>4. next(h, s) = h[s \ {i}] + size[lines[i]]
          BY <4>1
        <4>. QED
          BY <4>3, <4>4
      <3>2. CASE i \notin s
        <4>1. s \in SUBSET (1 .. i - 1)
          BY <3>2
        <4>2. g[s] = next(g, s) /\ h[s] = g[s]
          <5>. HIDE DEF next
          <5>. QED
            BY <2>1, <3>2, <4>1
        <4>3. h[s \ {Max(s)}] = g[s \ {Max(s)}]
          <5>. PICK r : r = s \ {Max(s)}
            OBVIOUS
          <5>1. r \in SUBSET (1 .. i) /\ i \notin r
            BY <3>2
          <5>. QED
            BY <5>1
        <4>. HIDE DEF h
        <4>4. next(h, s) = next(g, s)
          BY <4>3
        <4>. QED
          BY <4>2, <4>4
      <3>. QED
        BY <3>1, <3>2
    <2>3. h = [s \in SUBSET (1 .. i) |-> next(h, s)]
      <3>1. h = [s \in SUBSET (1 .. i) |-> h[s]]
        OBVIOUS
      <3>. HIDE DEF h, next
      <3>. QED
        BY <2>2, <3>1
    <2>. HIDE DEF h, next
    <2>. QED
      BY <2>3
  <1>4. \E g : Is(g)
    <2>1. 0 .. n \subseteq G
      <3>. HIDE DEF G
      <3>. QED
        BY <1>2, <1>3, Upwards, Zenon
    <2>2. n \in 0 .. n
      OBVIOUS
    <2>. HIDE DEF next
    <2>. QED
      BY <2>1, <2>2
  <1>5. Is(It)
    <2>. HIDE DEF Is
    <2>. QED
      BY <1>4
  <1>. HIDE DEF It
  <1>6. \A s \in SUBSET (1 .. n) : It[s] = next(It, s)
    <2>. HIDE DEF next
    <2>. QED
      BY <1>5
  <1>. DEFINE F == [i \in 0 .. n |-> It[1 .. i]]
  <1>7. F[0] = 0
    <2>1. (1 .. 0) = {} /\ (1 .. 0) \in SUBSET (1 .. n) /\ 0 \in 0 .. n
      OBVIOUS
    <2>2. It[1 .. 0] = 0
      BY <1>6, <2>1
    <2>. QED
      BY <2>1, <2>2
  <1>8. F[n] = It[1 .. n]
    OBVIOUS
  <1>9. ASSUME NEW i \in 1 .. n PROVE F[i] = F[i - 1] + size[lines[i]]
    <2>1. (1 .. i) \in SUBSET (1 .. n) /\ (1 .. i) # {} /\ (1 .. i) \ {i} = 1 .. (i - 1) /\ i \in 1 .. i
      <3>1. i \in 1 .. i /\ \A j \in 1 .. i : j \in 1 .. n
        OBVIOUS
      <3>2. (1 .. i) \ {i} = 1 .. (i - 1)
        OBVIOUS
      <3>. QED
        BY <3>1, <3>2
    <2>2. Max(1 .. i) = i
      BY <2>1, MaxIs
    <2>3. It[1 .. i] = It[1 .. (i - 1)] + size[lines[i]]
      BY <1>6, <2>1, <2>2
    <2>4. i \in 0 .. n /\ i - 1 \in 0 .. n
      OBVIOUS
    <2>5. F[i] = It[1 .. i] /\ F[i - 1] = It[1 .. (i - 1)]
      BY <2>4
    <2>. HIDE DEF F
    <2>. QED
      BY <2>3, <2>5
  <1>. HIDE DEF F
  <1>. QED
    BY <1>1, <1>7, <1>8, <1>9 DEF Sums

\* Lines as long as those after the first d of others.
SameUpTo(size, x, d, other, y, k) == \A i \in 1 .. k : size[x[d + i]] = other[y[i]]

\* Of the sums of two sequences that begin alike each is that of the other.
LEMMA SumsAgree ==
    ASSUME NEW size, NEW other, NEW x, NEW y, NEW m \in Nat, NEW n \in Nat, NEW F, NEW H, NEW d \in Nat, NEW k \in Nat,
           NEW e \in Nat, Sums(size, x, m, F), Sums(other, y, n, H), k <= n, e = d + k, e <= m,
           SameUpTo(size, x, d, other, y, k), \A i \in 1 .. m : size[x[i]] \in Nat
    PROVE  F[d] \in Nat /\ H[k] \in Nat /\ F[e] = F[d] + H[k]
  <1>. DEFINE G == {j \in 0 .. m : F[j] \in Nat}
              E == {j \in 0 .. k : F[d + j] = F[d] + H[j] /\ H[j] \in Nat}
  <1>1. 0 .. m \subseteq G
    <2>1. 0 \in G
      BY DEF Sums
    <2>2. ASSUME NEW j \in 1 .. m, j - 1 \in G PROVE j \in G
      BY <2>2 DEF Sums
    <2>. HIDE DEF G
    <2>. QED
      BY <2>1, <2>2, Upwards, Zenon
  <1>2. F[d] \in Nat
    BY <1>1
  <1>3. 0 .. k \subseteq E
    <2>1. 0 \in E
      BY <1>2 DEF Sums
    <2>2. ASSUME NEW j \in 1 .. k, j - 1 \in E PROVE j \in E
      <3>1. H[j] = H[j - 1] + other[y[j]] /\ F[d + j] = F[(d + j) - 1] + size[x[d + j]]
        BY DEF Sums
      <3>2. F[d + (j - 1)] = F[d] + H[j - 1] /\ H[j - 1] \in Nat /\ (d + j) - 1 = d + (j - 1)
        BY <2>2
      <3>3. size[x[d + j]] = other[y[j]] /\ size[x[d + j]] \in Nat /\ j \in 0 .. k
        BY DEF SameUpTo
      <3>. QED
        BY <1>2, <3>1, <3>2, <3>3
    <2>. HIDE DEF E
    <2>. QED
      BY <2>1, <2>2, Upwards, Zenon
  <1>4. k \in E
    <2>. HIDE DEF E
    <2>. QED
      BY <1>3
  <1>. QED
    BY <1>2, <1>4

\* Totals of lines whose sizes are numbers.
LEMMA Totals ==
    ASSUME NEW S, NEW size, \A l \in S : size[l] \in Nat, NEW x \in Seq(S), NEW y \in Seq(S)
    PROVE  /\ Total(size, x) \in Nat /\ Total(size, << >>) = 0
           /\ Total(size, x \o y) = Total(size, x) + Total(size, y)
           /\ \A other : (\A i \in DOMAIN x : other[x[i]] = size[x[i]]) => Total(other, x) = Total(size, x)
           /\ \A F : Sums(size, x, Len(x), F) => \A k \in 0 .. Len(x) : Total(size, SubSeq(x, 1, k)) = F[k] /\ F[k] \in Nat
  <1>14. PICK m, n : m = Len(x) /\ n = Len(y)
    OBVIOUS
  <1>1. /\ m \in Nat /\ DOMAIN x = 1 .. m /\ n \in Nat /\ DOMAIN y = 1 .. n
        /\ \A i \in 1 .. m : size[x[i]] \in Nat
        /\ \A i \in 1 .. n : size[y[i]] \in Nat
    BY <1>14, LenProperties, ElementOfSeq
  <1>15. PICK z : z = x \o y
    OBVIOUS
  <1>2. /\ z \in Seq(S) /\ Len(z) = m + n /\ DOMAIN z = 1 .. m + n
        /\ \A i \in 1 .. m : z[0 + i] = x[i]
        /\ \A i \in 1 .. n : z[m + i] = y[i]
    BY <1>1, <1>14, <1>15
  <1>3. \A i \in 1 .. m + n : size[z[i]] \in Nat
    BY <1>2, ElementOfSeq
  <1>4. PICK F : Sums(size, x, m, F)
    BY <1>1, TotalSteps
  <1>5. PICK H : Sums(size, y, n, H)
    BY <1>1, TotalSteps
  <1>16. PICK e : e = m + n
    OBVIOUS
  <1>0. e \in Nat /\ 0 \in Nat /\ m <= m /\ n <= n /\ m = 0 + m /\ m <= e /\ e <= e /\ e = m + n
    BY <1>1, <1>16
  <1>6. PICK K : Sums(size, z, e, K)
    BY <1>0, <1>2, TotalSteps
  <1>7. K[0] \in Nat /\ F[m] \in Nat /\ K[m] = K[0] + F[m]
    <2>1. \A i \in 1 .. e : size[z[i]] \in Nat
      BY <1>0, <1>3
    <2>2. SameUpTo(size, z, 0, size, x, m)
      BY <1>2 DEF SameUpTo
    <2>. QED
      BY <1>0, <1>1, <1>4, <1>6, <2>1, <2>2, SumsAgree
  <1>8. K[m] \in Nat /\ H[n] \in Nat /\ K[e] = K[m] + H[n]
    <2>1. \A i \in 1 .. e : size[z[i]] \in Nat
      BY <1>0, <1>3
    <2>2. SameUpTo(size, z, m, size, y, n)
      BY <1>2 DEF SameUpTo
    <2>. QED
      BY <1>0, <1>1, <1>5, <1>6, <2>1, <2>2, SumsAgree
  <1>9. Total(size, z) = K[e] /\ Total(size, x) = F[m] /\ Total(size, y) = H[n] /\ K[0] = 0
    BY <1>4, <1>5, <1>6 DEF Sums
  <1>10. Total(size, << >>) = 0
    <2>1. DOMAIN << >> = 1 .. 0 /\ 0 \in Nat
      OBVIOUS
    <2>2. PICK E : Sums(size, << >>, 0, E)
      BY <2>1, TotalSteps
    <2>. QED
      BY <2>2 DEF Sums
  <1>11. ASSUME NEW other, \A i \in DOMAIN x : other[x[i]] = size[x[i]] PROVE Total(other, x) = Total(size, x)
    <2>1. PICK E : Sums(other, x, m, E)
      BY <1>1, TotalSteps
    <2>3. SameUpTo(size, x, 0, other, x, m)
      BY <1>1, <1>11 DEF SameUpTo
    <2>4. F[m] = F[0] + E[m] /\ E[m] \in Nat
      BY <1>0, <1>1, <1>4, <2>1, <2>3, SumsAgree
    <2>5. F[0] = 0 /\ Total(other, x) = E[m]
      BY <1>4, <2>1 DEF Sums
    <2>. QED
      BY <1>1, <1>9, <2>4, <2>5
  <1>12. ASSUME NEW E, Sums(size, x, m, E), NEW k \in 0 .. m PROVE Total(size, SubSeq(x, 1, k)) = E[k] /\ E[k] \in Nat
    <2>. PICK w : w = SubSeq(x, 1, k)
      OBVIOUS
    <2>1. DOMAIN w = 1 .. k /\ k \in Nat /\ \A i \in 1 .. k : w[i] = x[i]
      BY <1>1
    <2>2. PICK D : Sums(size, w, k, D)
      BY <2>1, TotalSteps
    <2>3. 0 \in Nat /\ k <= k /\ k = 0 + k /\ k <= m
      BY <1>1
    <2>4. SameUpTo(size, x, 0, size, w, k)
      BY <2>1 DEF SameUpTo
    <2>5. E[k] = E[0] + D[k] /\ D[k] \in Nat
      BY <1>1, <1>12, <2>1, <2>2, <2>3, <2>4, SumsAgree
    <2>6. E[0] = 0 /\ Total(size, w) = D[k]
      BY <1>12, <2>2 DEF Sums
    <2>. QED
      BY <2>1, <2>5, <2>6
  <1>13. Total(size, x \o y) = Total(size, x) + Total(size, y)
    BY <1>1, <1>7, <1>8, <1>9, <1>15
  <1>. QED
    BY <1>7, <1>9, <1>10, <1>11, <1>12, <1>13, <1>14

\* What fits into the width of an address.
Addresses == 0 .. WordMod - 1

\* Line l has its place where a is come to, and what is after it goes on from b.
PlacedAt(l, a, b, back) ==
    LET n == Bytes(sections, l, a, back)
    IN  /\ l \in DOMAIN places /\ places[l] = [at |-> BaseAddress(sections, l, a, back), n |-> n]
        /\ IF At(sections, l).kind = "macro" THEN b = a
           ELSE ~Overflows(a, n, back) /\ b = Advanced(a, n, back)

\* The lines of a walk have their places one after the other, from a to b.
Laid(w, a, b, back) ==
    \E F \in [0 .. Len(w) -> Addresses] :
        F[0] = a /\ F[Len(w)] = b /\ \A k \in 1 .. Len(w) : PlacedAt(w[k], F[k - 1], F[k], back)

\* What is laid in two parts.
LEMMA LaidSplit ==
    ASSUME NEW S, NEW x \in Seq(S), NEW y \in Seq(S), NEW a, NEW b, NEW back, Laid(x \o y, a, b, back)
    PROVE  \E m \in Addresses : Laid(x, a, m, back) /\ Laid(y, m, b, back)
  <1>1. PICK i, j : i = Len(x) /\ j = Len(y)
    OBVIOUS
  <1>2. PICK z : z = x \o y
    OBVIOUS
  <1>3. /\ i \in Nat /\ j \in Nat /\ Len(z) = i + j
        /\ \A k \in 1 .. i : z[k] = x[k]
        /\ \A k \in 1 .. j : z[i + k] = y[k]
    BY <1>1, <1>2, LenProperties
  <1>4. PICK F \in [0 .. i + j -> Addresses] :
            F[0] = a /\ F[i + j] = b /\ \A k \in 1 .. i + j : PlacedAt(z[k], F[k - 1], F[k], back)
    BY <1>2, <1>3 DEF Laid
  <1>5. F[i] \in Addresses
    BY <1>3, <1>4
  <1>6. Laid(x, a, F[i], back)
    <2>. DEFINE D == [k \in 0 .. i |-> F[k]]
    <2>1. D \in [0 .. i -> Addresses] /\ D[0] = a /\ D[i] = F[i]
      BY <1>3, <1>4
    <2>2. ASSUME NEW k \in 1 .. i PROVE PlacedAt(x[k], D[k - 1], D[k], back)
      <3>1. k \in 1 .. i + j /\ k - 1 \in 0 .. i /\ k \in 0 .. i
        BY <1>3
      <3>2. PlacedAt(z[k], F[k - 1], F[k], back) /\ z[k] = x[k]
        BY <1>3, <1>4, <3>1
      <3>3. D[k - 1] = F[k - 1] /\ D[k] = F[k]
        BY <3>1
      <3>. QED
        BY <3>2, <3>3
    <2>. HIDE DEF D
    <2>. QED
      BY <1>1, <2>1, <2>2 DEF Laid
  <1>7. Laid(y, F[i], b, back)
    <2>. DEFINE D == [k \in 0 .. j |-> F[i + k]]
    <2>1. D \in [0 .. j -> Addresses] /\ D[0] = F[i] /\ D[j] = b
      BY <1>3, <1>4
    <2>2. ASSUME NEW k \in 1 .. j PROVE PlacedAt(y[k], D[k - 1], D[k], back)
      <3>1. i + k \in 1 .. i + j /\ k - 1 \in 0 .. j /\ k \in 0 .. j /\ (i + k) - 1 = i + (k - 1)
        BY <1>3
      <3>2. PlacedAt(z[i + k], F[(i + k) - 1], F[i + k], back) /\ z[i + k] = y[k]
        BY <1>3, <1>4, <3>1
      <3>3. D[k - 1] = F[(i + k) - 1] /\ D[k] = F[i + k]
        BY <3>1
      <3>. QED
        BY <3>2, <3>3
    <2>. HIDE DEF D
    <2>. QED
      BY <1>1, <2>1, <2>2 DEF Laid
  <1>. QED
    BY <1>5, <1>6, <1>7

\* A stretch of a walk is laid between addresses.
LEMMA LaidBetween ==
    ASSUME NEW S, NEW w \in Seq(S), NEW a, NEW b, NEW back, Laid(w, a, b, back)
    PROVE  a \in Addresses /\ b \in Addresses
  <1>1. Len(w) \in Nat
    BY LenProperties
  <1>. QED
    BY <1>1 DEF Laid

\* No lines take no room.
LEMMA NothingLaid ==
    ASSUME NEW a, NEW b, NEW back, Laid(<< >>, a, b, back)
    PROVE  b = a /\ a \in Addresses
  BY DEF Laid

\* What is laid in many parts.
LEMMA LaidFlattened ==
    ASSUME NEW S, NEW r \in Seq(Seq(S)), NEW a, NEW b, NEW back, Laid(FlattenSeq(r), a, b, back)
    PROVE  \E M \in [0 .. Len(r) -> Addresses] :
              M[0] = a /\ M[Len(r)] = b /\ \A i \in 1 .. Len(r) : Laid(r[i], M[i - 1], M[i], back)
  <1>. DEFINE Chain(i, c) == \E M \in [0 .. i -> Addresses] :
                  M[0] = a /\ M[i] = c /\ \A j \in 1 .. i : Laid(r[j], M[j - 1], M[j], back)
  <1>1. Len(r) \in Nat /\ \A i \in 1 .. Len(r) : r[i] \in Seq(S)
    BY LenProperties, ElementOfSeq
  <1>2. CASE Len(r) = 0
    <2>1. FlattenSeq(r) = << >>
      BY <1>2, Flattened
    <2>2. b = a /\ a \in Addresses
      BY <2>1, NothingLaid
    <2>. DEFINE M == [i \in 0 .. 0 |-> a]
    <2>3. M \in [0 .. 0 -> Addresses] /\ M[0] = a
      BY <2>2
    <2>4. \A i \in 1 .. 0 : FALSE
      OBVIOUS
    <2>. HIDE DEF M
    <2>. QED
      BY <1>2, <2>2, <2>3, <2>4
  <1>3. CASE Len(r) # 0
    <2>1. PICK L \in [1 .. Len(r) -> Seq(S)] :
              /\ FlattenSeq(r) = L[Len(r)] /\ L[1] = r[1]
              /\ \A i \in 2 .. Len(r) : L[i] = L[i - 1] \o r[i]
      BY <1>3, FlattenedSteps
    <2>. DEFINE G == {i \in 0 .. Len(r) : i # 0 => \A c : Laid(L[i], a, c, back) => Chain(i, c)}
    <2>2. 0 \in G
      BY <1>1
    <2>3. ASSUME NEW i \in 1 .. Len(r), i - 1 \in G, NEW c, Laid(L[i], a, c, back) PROVE Chain(i, c)
      <3>1. CASE i = 1
        <4>1. Laid(r[1], a, c, back)
          BY <2>1, <2>3, <3>1
        <4>2. a \in Addresses /\ c \in Addresses
          BY <1>1, <3>1, <4>1, LaidBetween
        <4>. DEFINE M == [j \in 0 .. 1 |-> IF j = 0 THEN a ELSE c]
        <4>3. M \in [0 .. 1 -> Addresses] /\ M[0] = a /\ M[1] = c
          BY <4>2
        <4>4. \A j \in 1 .. 1 : j = 1 /\ j - 1 = 0
          OBVIOUS
        <4>. HIDE DEF M
        <4>. QED
          BY <3>1, <4>1, <4>3, <4>4
      <3>2. CASE i # 1
        <4>1. i \in 2 .. Len(r) /\ i - 1 \in 1 .. Len(r) /\ i - 1 # 0
          BY <1>1, <3>2
        <4>2. Laid(L[i - 1] \o r[i], a, c, back)
          BY <2>1, <2>3, <4>1
        <4>3. PICK m \in Addresses : Laid(L[i - 1], a, m, back) /\ Laid(r[i], m, c, back)
          BY <1>1, <2>1, <4>1, <4>2, LaidSplit
        <4>4. Chain(i - 1, m)
          BY <2>3, <4>1, <4>3
        <4>5. PICK N \in [0 .. i - 1 -> Addresses] :
                  N[0] = a /\ N[i - 1] = m /\ \A j \in 1 .. i - 1 : Laid(r[j], N[j - 1], N[j], back)
          BY <4>4
        <4>6. c \in Addresses
          BY <1>1, <4>3, LaidBetween
        <4>. DEFINE M == [j \in 0 .. i |-> IF j = i THEN c ELSE N[j]]
        <4>7. M \in [0 .. i -> Addresses] /\ M[i] = c /\ \A j \in 0 .. i - 1 : M[j] = N[j]
          BY <4>1, <4>5, <4>6
        <4>8. ASSUME NEW j \in 1 .. i PROVE Laid(r[j], M[j - 1], M[j], back)
          <5>1. M[j - 1] = N[j - 1]
            BY <4>1, <4>7
          <5>2. CASE j = i
            BY <4>3, <4>5, <4>7, <5>1, <5>2
          <5>3. CASE j # i
            <6>1. j \in 1 .. i - 1 /\ M[j] = N[j]
              BY <4>1, <4>7, <5>3
            <6>. QED
              BY <4>5, <5>1, <6>1
          <5>. QED
            BY <5>2, <5>3
        <4>9. M[0] = a
          BY <4>1, <4>5, <4>7
        <4>. HIDE DEF M
        <4>. QED
          BY <4>7, <4>8, <4>9
      <3>. QED
        BY <3>1, <3>2
    <2>. HIDE DEF Chain
    <2>4. ASSUME NEW i \in 1 .. Len(r), i - 1 \in G PROVE i \in G
      BY <2>3, <2>4
    <2>5. 0 .. Len(r) \subseteq G
      <3>. HIDE DEF G
      <3>. QED
        BY <1>1, <2>2, <2>4, Upwards, Zenon
    <2>7. Len(r) \in G
      <3>. HIDE DEF G
      <3>. QED
        BY <1>1, <2>5
    <2>6. Chain(Len(r), b)
      BY <1>3, <2>1, <2>7
    <2>. QED
      BY <2>6 DEF Chain
  <1>. QED
    BY <1>2, <1>3

-----------------------------------------------------------------------------
\* A position in an image stands for an address: forward it is this one, backward it
\* is the one after it, up to the size of the address space.
Stands(x, a, back) == IF back THEN x % WordMod = (a + 1) % WordMod ELSE x = a

\* Line l takes up an image from x to y.
Follows(l, x, y, back) ==
    /\ l \in DOMAIN places /\ places[l].n \in Nat /\ y = x + places[l].n
    /\ At(sections, l).kind # "align" => places[l].at = x % WordMod /\ places[l].n = Size(At(sections, l))
    /\ ~back /\ At(sections, l).kind = "align" => y % At(sections, l).n = 0

\* So do some lines one after the other, from G[0] on.
Follow(q, G, back) ==
    G \in [0 .. Len(q) -> Nat] /\ \A k \in 1 .. Len(q) : Follows(q[k], G[k - 1], G[k], back)

\* The lines of an image lie between what stands for u and what stands for v.
Spans(q, u, v, back) ==
    \A x \in Nat : Stands(x, u, back) => \E G : Follow(q, G, back) /\ G[0] = x /\ Stands(G[Len(q)], v, back)

\* The same of what is packed: nothing spans nothing ...
LEMMA SpansNothing == \A u, back : Spans(<< >>, u, u, back)
  <1>. SUFFICES ASSUME NEW u, NEW back, NEW x \in Nat, Stands(x, u, back)
                PROVE  \E G : Follow(<< >>, G, back) /\ G[0] = x /\ Stands(G[0], u, back)
    BY DEF Spans
  <1>. DEFINE G == [i \in 0 .. 0 |-> x]
  <1>1. G \in [0 .. 0 -> Nat] /\ G[0] = x
    OBVIOUS
  <1>2. \A k \in 1 .. 0 : FALSE
    OBVIOUS
  <1>. HIDE DEF G
  <1>. QED
    BY <1>1, <1>2 DEF Follow

\* ... two stretches that meet span both ...
LEMMA SpansJoined ==
    ASSUME NEW S, NEW q \in Seq(S), NEW r \in Seq(S), NEW u, NEW v, NEW w, NEW back,
           Spans(q, u, v, back), Spans(r, v, w, back)
    PROVE  Spans(q \o r, u, w, back)
  <1>1. PICK i, j : i = Len(q) /\ j = Len(r)
    OBVIOUS
  <1>2. PICK z : z = q \o r
    OBVIOUS
  <1>3. /\ i \in Nat /\ j \in Nat /\ Len(z) = i + j
        /\ \A k \in 1 .. i : z[k] = q[k]
        /\ \A k \in 1 .. j : z[i + k] = r[k]
    BY <1>1, <1>2, LenProperties
  <1>. SUFFICES ASSUME NEW x \in Nat, Stands(x, u, back)
                PROVE  \E G : Follow(z, G, back) /\ G[0] = x /\ Stands(G[Len(z)], w, back)
    BY <1>2 DEF Spans
  <1>4. PICK G : Follow(q, G, back) /\ G[0] = x /\ Stands(G[i], v, back)
    BY <1>1 DEF Spans
  <1>5. G \in [0 .. i -> Nat] /\ G[i] \in Nat
    BY <1>1, <1>3, <1>4 DEF Follow
  <1>6. PICK H : Follow(r, H, back) /\ H[0] = G[i] /\ Stands(H[j], w, back)
    BY <1>1, <1>4, <1>5 DEF Spans
  <1>7. H \in [0 .. j -> Nat]
    BY <1>1, <1>6 DEF Follow
  <1>. DEFINE K == [k \in 0 .. i + j |-> IF k <= i THEN G[k] ELSE H[k - i]]
  <1>8. K \in [0 .. i + j -> Nat]
    BY <1>3, <1>5, <1>7
  <1>9. \A k \in 0 .. i : K[k] = G[k]
    BY <1>3
  <1>10. ASSUME NEW k \in 0 .. j PROVE K[i + k] = H[k]
    <2>1. CASE k = 0
      BY <1>3, <1>6, <2>1
    <2>2. CASE k # 0
      BY <1>3, <2>2
    <2>. QED
      BY <2>1, <2>2
  <1>. HIDE DEF K
  <1>11. ASSUME NEW k \in 1 .. i + j PROVE Follows(z[k], K[k - 1], K[k], back)
    <2>1. CASE k <= i
      <3>1. k \in 1 .. i /\ k \in 0 .. i /\ k - 1 \in 0 .. i
        BY <1>3, <2>1
      <3>2. Follows(q[k], G[k - 1], G[k], back)
        BY <1>1, <1>4, <3>1 DEF Follow
      <3>. QED
        BY <1>3, <1>9, <3>1, <3>2
    <2>2. CASE ~(k <= i)
      <3>1. PICK h : h = k - i
        OBVIOUS
      <3>2. h \in 1 .. j /\ h \in 0 .. j /\ h - 1 \in 0 .. j /\ k = i + h /\ k - 1 = i + (h - 1)
        BY <1>3, <2>2, <3>1
      <3>3. Follows(r[h], H[h - 1], H[h], back)
        BY <1>1, <1>6, <3>2 DEF Follow
      <3>4. z[k] = r[h] /\ K[k] = H[h] /\ K[k - 1] = H[h - 1]
        BY <1>3, <1>10, <3>2
      <3>. QED
        BY <3>3, <3>4
    <2>. QED
      BY <2>1, <2>2
  <1>12. Follow(z, K, back)
    BY <1>3, <1>8, <1>11 DEF Follow
  <1>13. K[0] = x /\ K[i + j] = H[j]
    BY <1>3, <1>4, <1>9, <1>10
  <1>. QED
    BY <1>3, <1>6, <1>12, <1>13

\* ... and so do any number of them.
LEMMA SpansFlattened ==
    ASSUME NEW S, NEW r \in Seq(Seq(S)), NEW G, NEW back,
           \A i \in 1 .. Len(r) : Spans(r[i], G[i - 1], G[i], back)
    PROVE  Spans(FlattenSeq(r), G[0], G[Len(r)], back)
  <1>1. Len(r) \in Nat /\ \A i \in 1 .. Len(r) : r[i] \in Seq(S)
    BY LenProperties, ElementOfSeq
  <1>2. CASE Len(r) = 0
    <2>1. FlattenSeq(r) = << >>
      BY <1>2, Flattened
    <2>. QED
      BY <1>2, <2>1, SpansNothing
  <1>3. CASE Len(r) # 0
    <2>1. PICK L \in [1 .. Len(r) -> Seq(S)] :
              /\ FlattenSeq(r) = L[Len(r)] /\ L[1] = r[1]
              /\ \A i \in 2 .. Len(r) : L[i] = L[i - 1] \o r[i]
      BY <1>3, FlattenedSteps
    <2>. DEFINE E == {i \in 0 .. Len(r) : i # 0 => Spans(L[i], G[0], G[i], back)}
    <2>2. 0 \in E
      BY <1>1
    <2>3. ASSUME NEW i \in 1 .. Len(r), i - 1 \in E PROVE i \in E
      <3>1. CASE i = 1
        <4>1. Spans(r[1], G[1 - 1], G[1], back) /\ 1 - 1 = 0
          BY <3>1
        <4>. QED
          BY <2>1, <3>1, <4>1
      <3>2. CASE i # 1
        <4>1. i \in 2 .. Len(r) /\ i - 1 \in 1 .. Len(r) /\ i - 1 # 0
          BY <1>1, <3>2
        <4>2. Spans(L[i - 1], G[0], G[i - 1], back) /\ Spans(r[i], G[i - 1], G[i], back)
          BY <2>3, <4>1
        <4>3. Spans(L[i - 1] \o r[i], G[0], G[i], back)
          BY <1>1, <2>1, <4>1, <4>2, SpansJoined
        <4>4. L[i] = L[i - 1] \o r[i]
          BY <2>1, <4>1
        <4>5. Spans(L[i], G[0], G[i], back)
          BY <4>3, <4>4
        <4>. QED
          BY <1>1, <4>5
      <3>. QED
        BY <3>1, <3>2
    <2>4. 0 .. Len(r) \subseteq E
      <3>. HIDE DEF E
      <3>. QED
        BY <1>1, <2>2, <2>3, Upwards, Zenon
    <2>5. Len(r) \in E
      <3>. HIDE DEF E
      <3>. QED
        BY <1>1, <2>4
    <2>. QED
      BY <1>3, <2>1, <2>5
  <1>. QED
    BY <1>2, <1>3

\* Lines lie between a and b, in the direction in which addresses are assigned.
Between(q, a, b, back) == IF back THEN Spans(q, b, a, TRUE) ELSE Spans(q, a, b, FALSE)

\* The assumption on the width of an address, as it is used.
LEMMA Words0 == WordMod \in Nat \ {0} /\ Addresses = 0 .. WordMod - 1 /\ \A a \in Addresses : a \in Nat /\ a % WordMod = a
  <1>1. WordMod \in Nat \ {0}
    BY AssemblerAssumption
  <1>2. \A a \in 0 .. WordMod - 1 : a % WordMod = a
    BY <1>1, Quotients
  <1>. QED
    BY <1>1, <1>2 DEF Addresses

\* Padding goes up to a multiple.
LEMMA PaddedUp ==
    ASSUME NEW v \in Nat \ {0}, NEW a \in Nat
    PROVE  (v - (a % v)) % v \in Nat /\ (a + ((v - (a % v)) % v)) % v = 0
  <1>. DEFINE q == a \div v
              m == a % v
  <1>1. a = (v * q) + m /\ m \in 0 .. v - 1 /\ q \in Int
    BY Quotients
  <1>. HIDE DEF q, m
  <1>2. CASE m = 0
    <2>1. (v - m) % v = 0 /\ 0 \in Nat
      BY <1>2, OnceRound
    <2>2. a + ((v - m) % v) = (v * q) + 0 /\ 0 \in 0 .. v - 1
      BY <1>1, <1>2, <2>1
    <2>3. ((v * q) + 0) % v = 0
      BY <1>1, <2>2, Remainders
    <2>. QED
      BY <2>1, <2>2, <2>3 DEF m
  <1>3. CASE m # 0
    <2>1. v - m \in 0 .. v - 1 /\ v - m \in Nat
      BY <1>1, <1>3
    <2>2. (v - m) % v = v - m
      BY <2>1, Quotients
    <2>3. a + (v - m) = (v * (q + 1)) + 0 /\ 0 \in 0 .. v - 1 /\ q + 1 \in Int
      BY <1>1
    <2>4. ((v * (q + 1)) + 0) % v = 0
      BY <2>3, Remainders
    <2>. QED
      BY <2>1, <2>2, <2>3, <2>4 DEF m
  <1>. QED
    BY <1>2, <1>3

\* What a line is long.
LEMMA BytesAre ==
    ASSUME NEW l, NEW a \in Addresses, NEW back, At(sections, l).n \in Nat,
           At(sections, l).kind = "align" => At(sections, l).n > 0, At(sections, l).kind # "macro"
    PROVE  /\ Bytes(sections, l, a, back) \in Nat
           /\ Size(At(sections, l)) \in Nat
           /\ At(sections, l).kind # "align" => Bytes(sections, l, a, back) = Size(At(sections, l))
           /\ At(sections, l).kind \notin Emitting => Bytes(sections, l, a, back) = 0 /\ Size(At(sections, l)) = 0
           /\ At(sections, l).kind = "align" => Size(At(sections, l)) = 0
           /\ ~back /\ At(sections, l).kind = "align" => (a + Bytes(sections, l, a, back)) % At(sections, l).n = 0
  <1>1. PICK r : r = At(sections, l)
    OBVIOUS
  <1>2. r.n \in Nat /\ (r.kind = "align" => r.n > 0) /\ r.kind # "macro"
    BY <1>1
  <1>3. Size(r) \in Nat /\ (r.kind = "align" \/ r.kind \notin Emitting => Size(r) = 0)
    BY <1>2 DEF Size, Emitting
  <1>4. r.kind = "align" => Bytes(sections, l, a, back) = AlignSpan(r.n, a, back)
    BY <1>1 DEF Bytes
  <1>5. r.kind # "align" => Bytes(sections, l, a, back) = Size(r)
    BY <1>1, <1>2 DEF Bytes
  <1>6. r.kind \notin Emitting => r.kind # "align"
    BY DEF Emitting
  <1>7. ASSUME r.kind = "align"
        PROVE  AlignSpan(r.n, a, back) \in Nat /\ (~back => (a + AlignSpan(r.n, a, back)) % r.n = 0)
    <2>0. PICK v : v = r.n
      OBVIOUS
    <2>1. v \in Nat \ {0} /\ a \in Nat /\ a \in Int
      BY <1>2, <1>7, <2>0, Words0
    <2>2. a % v \in Nat
      BY <2>1, Quotients
    <2>3. (v - (a % v)) % v \in Nat /\ (a + ((v - (a % v)) % v)) % v = 0
      BY <2>1, PaddedUp
    <2>. QED
      BY <2>0, <2>2, <2>3 DEF AlignSpan
  <1>. QED
    BY <1>1, <1>3, <1>4, <1>5, <1>6, <1>7

\* Backward arithmetic.
LEMMA GoneBack ==
    ASSUME NEW a \in Addresses, NEW n \in Int, NEW b \in Addresses, NEW x \in Int, x % WordMod = (b + 1) % WordMod
    PROVE  /\ b = (a + WordMod - n) % WordMod => (x + n) % WordMod = (a + 1) % WordMod
           /\ (x + n) % WordMod = (a + 1) % WordMod => x % WordMod = (a + 1 + WordMod - n) % WordMod
  <1>1. WordMod \in Nat \ {0} /\ a \in Nat /\ b \in Nat /\ b % WordMod = b
    BY Words0
  <1>2. ASSUME b = (a + WordMod - n) % WordMod PROVE (x + n) % WordMod = (a + 1) % WordMod
    <2>1. PICK c \in Int : c = a + WordMod - n
      BY <1>1
    <2>2. (b + 1) % WordMod = (c + 1) % WordMod
      <3>1. b % WordMod = c % WordMod /\ b \in Int /\ 1 \in Int
        BY <1>1, <1>2, <2>1
      <3>2. WordMod \in Nat \ {0} /\ c \in Int
        BY <1>1, <2>1
      <3>. QED
        BY <3>1, <3>2, Shifted, Zenon
    <2>3. (x + n) % WordMod = ((c + 1) + n) % WordMod
      <3>1. x % WordMod = (c + 1) % WordMod /\ c + 1 \in Int
        BY <2>1, <2>2
      <3>2. WordMod \in Nat \ {0}
        BY <1>1
      <3>. QED
        BY <3>1, <3>2, Shifted, Zenon
    <2>4. (c + 1) + n = (a + 1) + WordMod /\ a + 1 \in Int
      BY <1>1, <2>1
    <2>5. ((a + 1) + WordMod) % WordMod = (a + 1) % WordMod
      BY <1>1, <2>4, OnceRound
    <2>. QED
      BY <2>3, <2>4, <2>5
  <1>3. ASSUME (x + n) % WordMod = (a + 1) % WordMod PROVE x % WordMod = (a + 1 + WordMod - n) % WordMod
    <2>1. PICK c \in Int : c = WordMod - n
      BY <1>1
    <2>2. x + n \in Int /\ a + 1 \in Int
      BY <1>1
    <2>3. ((x + n) + c) % WordMod = ((a + 1) + c) % WordMod
      <3>1. WordMod \in Nat \ {0} /\ c \in Int
        BY <1>1, <2>1
      <3>. QED
        BY <1>3, <2>2, <3>1, Shifted, Zenon
    <2>4. (x + n) + c = x + WordMod /\ (a + 1) + c = a + 1 + WordMod - n
      BY <1>1, <2>1
    <2>5. (x + WordMod) % WordMod = x % WordMod
      BY <1>1, OnceRound
    <2>. QED
      BY <2>3, <2>4, <2>5
  <1>. QED
    BY <1>2, <1>3

\* A line that takes up addresses lies where it has its place.
LEMMA LineBetween ==
    ASSUME NEW l, NEW a \in Addresses, NEW b \in Addresses, NEW back \in BOOLEAN, At(sections, l).n \in Nat,
           At(sections, l).kind = "align" => At(sections, l).n > 0, At(sections, l).kind # "macro",
           PlacedAt(l, a, b, back)
    PROVE  Between(<<l>>, a, b, back)
  <1>1. PICK n : n = Bytes(sections, l, a, back)
    OBVIOUS
  <1>2. /\ n \in Nat /\ (~back /\ At(sections, l).kind = "align" => (a + n) % At(sections, l).n = 0)
        /\ At(sections, l).kind # "align" => n = Size(At(sections, l))
    BY <1>1, BytesAre
  <1>3. l \in DOMAIN places /\ places[l].at = BaseAddress(sections, l, a, back) /\ places[l].n = n
        /\ ~Overflows(a, n, back) /\ b = Advanced(a, n, back)
    BY <1>1 DEF PlacedAt
  <1>4. WordMod \in Nat \ {0} /\ a \in Nat /\ a % WordMod = a
    BY Words0
  <1>5. CASE ~back
    <2>1. b = a + n
      BY <1>3, <1>5 DEF Advanced
    <2>2. places[l].at = a
      BY <1>3, <1>5 DEF BaseAddress
    <2>3. Follows(l, a, b, FALSE)
      BY <1>2, <1>3, <1>4, <1>5, <2>1, <2>2 DEF Follows
    <2>4. Spans(<<l>>, a, b, FALSE)
      <3>. SUFFICES ASSUME NEW x \in Nat, x = a
                    PROVE  \E G : Follow(<<l>>, G, FALSE) /\ G[0] = x /\ G[1] = b
        BY DEF Spans, Stands
      <3>. DEFINE G == [i \in 0 .. 1 |-> IF i = 0 THEN a ELSE b]
      <3>1. G \in [0 .. 1 -> Nat] /\ G[0] = a /\ G[1] = b
        BY <1>2, <1>4, <2>1
      <3>2. \A k \in 1 .. 1 : k = 1 /\ k - 1 = 0
        OBVIOUS
      <3>. HIDE DEF G
      <3>3. Follow(<<l>>, G, FALSE)
        <4>1. ASSUME NEW k \in 1 .. 1 PROVE Follows(<<l>>[k], G[k - 1], G[k], FALSE)
          <5>1. <<l>>[k] = l /\ G[k - 1] = a /\ G[k] = b
            BY <3>1, <3>2
          <5>. QED
            BY <2>3, <5>1
        <4>. QED
          BY <3>1, <4>1 DEF Follow
      <3>. QED
        BY <3>1, <3>3
    <2>. QED
      BY <1>5, <2>4 DEF Between
  <1>6. CASE back
    <2>1. b = (a + WordMod - n) % WordMod
      BY <1>3, <1>6 DEF Advanced
    <2>2. At(sections, l).kind # "align" => places[l].at = (a + 1 + WordMod - n) % WordMod
      BY <1>1, <1>3, <1>6 DEF BaseAddress
    <2>3. Spans(<<l>>, b, a, TRUE)
      <3>. SUFFICES ASSUME NEW x \in Nat, x % WordMod = (b + 1) % WordMod
                    PROVE  \E G : Follow(<<l>>, G, TRUE) /\ G[0] = x /\ G[1] % WordMod = (a + 1) % WordMod
        BY DEF Spans, Stands
      <3>. DEFINE G == [i \in 0 .. 1 |-> IF i = 0 THEN x ELSE x + n]
      <3>1. G \in [0 .. 1 -> Nat] /\ G[0] = x /\ G[1] = x + n
        BY <1>2
      <3>2. \A k \in 1 .. 1 : k = 1 /\ k - 1 = 0
        OBVIOUS
      <3>. HIDE DEF G
      <3>3. (x + n) % WordMod = (a + 1) % WordMod
        BY <1>2, <2>1, GoneBack
      <3>4. x % WordMod = (a + 1 + WordMod - n) % WordMod
        BY <1>2, <3>3, GoneBack
      <3>5. Follows(l, x, x + n, TRUE)
        BY <1>2, <1>3, <2>2, <3>4 DEF Follows
      <3>6. Follow(<<l>>, G, TRUE)
        <4>1. ASSUME NEW k \in 1 .. 1 PROVE Follows(<<l>>[k], G[k - 1], G[k], TRUE)
          <5>1. <<l>>[k] = l /\ G[k - 1] = x /\ G[k] = x + n
            BY <3>1, <3>2
          <5>. QED
            BY <3>5, <5>1
        <4>. QED
          BY <3>1, <4>1 DEF Follow
      <3>. QED
        BY <3>1, <3>3, <3>6
    <2>. QED
      BY <1>6, <2>3 DEF Between
  <1>. QED
    BY <1>5, <1>6

\* Other lines take up none.
LEMMA IdleLine ==
    ASSUME NEW l, NEW a \in Addresses, NEW b, NEW back \in BOOLEAN, At(sections, l).n \in Nat,
           At(sections, l).kind \notin Emitting, PlacedAt(l, a, b, back)
    PROVE  b = a
  <1>1. At(sections, l).kind # "macro" /\ At(sections, l).kind # "align"
    BY DEF Emitting
  <1>2. Bytes(sections, l, a, back) = 0
    BY <1>1, BytesAre
  <1>3. b = Advanced(a, 0, back)
    BY <1>1, <1>2 DEF PlacedAt
  <1>4. WordMod \in Nat \ {0} /\ a \in Nat /\ a % WordMod = a
    BY Words0
  <1>5. (a + WordMod - 0) % WordMod = a
    <2>1. a + WordMod - 0 = a + WordMod /\ a \in Int
      BY <1>4
    <2>. QED
      BY <1>4, <2>1, OnceRound
  <1>. QED
    BY <1>3, <1>4, <1>5 DEF Advanced

\* What the stages rely on of a section's lines ...
ReadWell(s) ==
    /\ \E n \in Nat : DOMAIN sections[s].ir = 1 .. n
    /\ \A i \in DOMAIN sections[s].ir :
          LET r == sections[s].ir[i]
          IN  /\ r.n \in Nat /\ r.source \in Nat
              /\ r.kind = "align" => r.n > 0
              /\ r.kind = "burn" => r.n < WordMod
              /\ r.kind = "macro" => /\ r.child \in DOMAIN sections /\ s < r.child
                                     /\ sections[r.child].parent = s /\ sections[r.child].line = r.source
              /\ \A j \in DOMAIN sections[s].ir : j < i => sections[s].ir[j].source < r.source

\* ... and of where it hangs.
Hangs(s) ==
    sections[s].parent # 0 =>
        /\ sections[s].parent \in DOMAIN sections /\ sections[s].parent < s
        /\ sections[s].line \in Nat /\ sections[s].top = sections[sections[s].parent].top

\* The tree of sections.
Tree == /\ \E m \in Nat : DOMAIN sections = 1 .. m
        /\ \A s \in DOMAIN sections : ReadWell(s) /\ Hangs(s)

\* All lines of all sections.
AllLines == {l \in Nat \X Nat : l[1] \in DOMAIN sections /\ l[2] \in DOMAIN sections[l[1]].ir}

\* The line that is gone through as the k-th of n.
Index(n, k, back) == IF back THEN (n - k) + 1 ELSE k

\* What a walk goes through for a line, and what is packed for it.
Turn(s, i, back) ==
    <<<<s, i>>>> \o IF sections[s].ir[i].kind = "macro" THEN Walk(sections, back)[sections[s].ir[i].child] ELSE << >>
Part(s, i) ==
    IF ~sections[s].ir[i].emits THEN << >>
    ELSE IF sections[s].ir[i].kind = "macro" THEN Packed(sections)[sections[s].ir[i].child] ELSE <<<<s, i>>>>

\* What holds of a section if it does of all that come after it, holds of all.
LEMMA Downwards ==
    ASSUME NEW m \in Nat, NEW X, \A s \in 1 .. m : (\A c \in 1 .. m : s < c => c \in X) => s \in X
    PROVE  1 .. m \subseteq X
  <1>. DEFINE G == {k \in 0 .. m : \A c \in 1 .. m : m - k < c => c \in X}
  <1>1. 0 \in G
    OBVIOUS
  <1>2. ASSUME NEW k \in 1 .. m, k - 1 \in G PROVE k \in G
    <2>. SUFFICES ASSUME NEW c \in 1 .. m, m - k < c PROVE c \in X
      OBVIOUS
    <2>1. \A d \in 1 .. m : c < d => d \in X
      BY <1>2
    <2>. QED
      BY <2>1
  <1>3. 0 .. m \subseteq G
    <2>. HIDE DEF G
    <2>. QED
      BY <1>1, <1>2, Upwards, Zenon
  <1>4. m \in G
    <2>. HIDE DEF G
    <2>. QED
      BY <1>3
  <1>. QED
    BY <1>4

\* Macros are below the sections that invoke them.
LEMMA TreeDescends ==
    ASSUME Tree
    PROVE  Descends
  BY DEF Tree, ReadWell, Descends

\* The order in which a section's lines are gone through, forward or backward.
LEMMA OrderExactly ==
    ASSUME Tree, NEW s \in DOMAIN sections, NEW n \in Nat, DOMAIN sections[s].ir = 1 .. n, NEW back \in BOOLEAN
    PROVE  /\ DOMAIN Order(s, back) = 1 .. n
           /\ \A k \in 1 .. n : Order(s, back)[k] = <<s, Index(n, k, back)>> /\ Index(n, k, back) \in 1 .. n
  <1>2. s \in Nat
    BY DEF Tree
  <1>. DEFINE lines == [i \in DOMAIN sections[s].ir |-> <<s, i>>]
  <1>3. DOMAIN lines = 1 .. n /\ \A i \in 1 .. n : lines[i] = <<s, i>>
    OBVIOUS
  <1>4. lines \in Seq(Nat \X Nat)
    <2>1. lines \in [1 .. n -> Nat \X Nat]
      BY <1>2
    <2>. HIDE DEF lines
    <2>. QED
      BY <2>1, SeqDef
  <1>. HIDE DEF lines
  <1>5. Len(lines) = n
    BY <1>3, <1>4, LenProperties
  <1>6. CASE back
    <2>1. Order(s, back) = [k \in 1 .. n |-> lines[(n - k) + 1]]
      BY <1>5, <1>6 DEF Order, Reverse, lines
    <2>2. \A k \in 1 .. n : (n - k) + 1 \in 1 .. n
      OBVIOUS
    <2>3. DOMAIN Order(s, back) = 1 .. n /\ \A k \in 1 .. n : Order(s, back)[k] = <<s, (n - k) + 1>>
      BY <1>3, <2>1, <2>2
    <2>. QED
      BY <1>6, <2>2, <2>3 DEF Index
  <1>7. CASE ~back
    <2>1. Order(s, back) = lines
      BY <1>7 DEF Order, lines
    <2>. QED
      BY <1>3, <1>7, <2>1 DEF Index
  <1>. QED
    BY <1>6, <1>7

\* A walk through a section is made of its turns.
LEMMA WalkOpens ==
    ASSUME Tree, NEW back \in BOOLEAN, NEW s \in DOMAIN sections
    PROVE  /\ Walk(sections, back)[s] \in Seq(AllLines)
           /\ \A n \in Nat : DOMAIN sections[s].ir = 1 .. n =>
                 \E turns \in Seq(Seq(AllLines)) :
                    /\ Len(turns) = n /\ Walk(sections, back)[s] = FlattenSeq(turns)
                    /\ \A k \in 1 .. n : turns[k] = Turn(s, Index(n, k, back), back)
  <1>. DEFINE Is(V) == V = [c \in DOMAIN sections |-> WalkOf(V, c, back)]
              It == CHOOSE V : Is(V)
  <1>1. PICK W : W = It
    OBVIOUS
  <1>2. Walk(sections, back) = W
    BY <1>1, WalkIs
  <1>3. Is(W)
    <2>1. \E V : Is(V)
      BY TreeDescends, WalkExists
    <2>. HIDE DEF Is
    <2>. QED
      BY <1>1, <2>1
  <1>. HIDE DEF It
  <1>4. \A c \in DOMAIN sections : W[c] = FlattenSeq(Turns(W, c, back))
    BY <1>3 DEF WalkOf
  <1>. HIDE DEF Is
  <1>5. PICK m \in Nat : DOMAIN sections = 1 .. m
    BY DEF Tree
  <1>6. ASSUME NEW c \in DOMAIN sections, NEW n \in Nat, DOMAIN sections[c].ir = 1 .. n, NEW k \in 1 .. n
        PROVE  /\ DOMAIN Turns(W, c, back) = 1 .. n
               /\ Turns(W, c, back)[k] = Turn(c, Index(n, k, back), back) /\ Index(n, k, back) \in 1 .. n
    <2>1. DOMAIN Order(c, back) = 1 .. n /\ Order(c, back)[k] = <<c, Index(n, k, back)>> /\ Index(n, k, back) \in 1 .. n
      BY <1>6, OrderExactly
    <2>2. PICK i : i = Index(n, k, back)
      OBVIOUS
    <2>3. At(sections, <<c, i>>) = sections[c].ir[i]
      BY DEF At
    <2>4. OpenedAt(W, <<c, i>>) = Turn(c, i, back)
      BY <1>2, <2>3 DEF OpenedAt, Turn
    <2>5. DOMAIN Turns(W, c, back) = 1 .. n /\ Turns(W, c, back)[k] = OpenedAt(W, Order(c, back)[k])
      BY <2>1 DEF Turns
    <2>. QED
      BY <2>1, <2>2, <2>4, <2>5
  <1>7. ASSUME NEW c \in DOMAIN sections, NEW n \in Nat, DOMAIN sections[c].ir = 1 .. n PROVE DOMAIN Turns(W, c, back) = 1 .. n
    <2>1. DOMAIN Order(c, back) = 1 .. n
      BY <1>7, OrderExactly
    <2>. QED
      BY <2>1 DEF Turns
  <1>. DEFINE X == {c \in DOMAIN sections : W[c] \in Seq(AllLines)}
  <1>8. ASSUME NEW c \in DOMAIN sections, NEW n \in Nat, DOMAIN sections[c].ir = 1 .. n, NEW i \in 1 .. n,
               \A d \in DOMAIN sections : c < d => d \in X
        PROVE  Turn(c, i, back) \in Seq(AllLines)
    <2>1. <<c, i>> \in AllLines
      <3>1. c \in Nat /\ i \in Nat
        BY <1>5
      <3>. QED
        BY <1>8, <3>1 DEF AllLines
    <2>2. <<<<c, i>>>> \in Seq(AllLines) /\ << >> \in Seq(AllLines)
      BY <2>1
    <2>3. sections[c].ir[i].kind = "macro" => W[sections[c].ir[i].child] \in Seq(AllLines)
      BY <1>8 DEF Tree, ReadWell
    <2>. DEFINE rest == IF sections[c].ir[i].kind = "macro" THEN W[sections[c].ir[i].child] ELSE << >>
    <2>4. rest \in Seq(AllLines)
      BY <2>2, <2>3
    <2>5. Turn(c, i, back) = <<<<c, i>>>> \o rest
      BY <1>2 DEF Turn
    <2>. HIDE DEF rest
    <2>. QED
      BY <2>2, <2>4, <2>5
  <1>. HIDE DEF X
  <1>9. ASSUME NEW c \in DOMAIN sections, NEW n \in Nat, DOMAIN sections[c].ir = 1 .. n,
               \A d \in DOMAIN sections : c < d => d \in X
        PROVE  Turns(W, c, back) \in Seq(Seq(AllLines)) /\ Len(Turns(W, c, back)) = n
    <2>1. PICK t : t = Turns(W, c, back)
      OBVIOUS
    <2>2. \A k \in 1 .. n : t[k] \in Seq(AllLines)
      BY <1>6, <1>8, <1>9, <2>1
    <2>3. t = [k \in 1 .. n |-> t[k]]
      <3>1. t = [k \in DOMAIN t |-> t[k]]
        BY <2>1 DEF Turns
      <3>. QED
        BY <1>7, <1>9, <2>1, <3>1
    <2>4. t \in [1 .. n -> Seq(AllLines)]
      BY <2>2, <2>3
    <2>5. t \in Seq(Seq(AllLines))
      BY <2>4, SeqDef
    <2>6. Len(t) = n
      BY <2>4, <2>5, LenProperties
    <2>. QED
      BY <2>1, <2>5, <2>6
  <1>10. ASSUME NEW c \in 1 .. m, \A d \in 1 .. m : c < d => d \in X PROVE c \in X
    <2>1. PICK n \in Nat : DOMAIN sections[c].ir = 1 .. n
      BY <1>5 DEF Tree, ReadWell
    <2>2. Turns(W, c, back) \in Seq(Seq(AllLines))
      BY <1>5, <1>9, <1>10, <2>1
    <2>. QED
      BY <1>4, <1>5, <2>2, Flattened DEF X
  <1>11. 1 .. m \subseteq X
    BY <1>10, Downwards, Zenon
  <1>12. ASSUME NEW n \in Nat, DOMAIN sections[s].ir = 1 .. n
         PROVE  \E turns \in Seq(Seq(AllLines)) :
                    /\ Len(turns) = n /\ Walk(sections, back)[s] = FlattenSeq(turns)
                    /\ \A k \in 1 .. n : turns[k] = Turn(s, Index(n, k, back), back)
    <2>1. Turns(W, s, back) \in Seq(Seq(AllLines)) /\ Len(Turns(W, s, back)) = n
      BY <1>5, <1>9, <1>11, <1>12
    <2>2. \A k \in 1 .. n : Turns(W, s, back)[k] = Turn(s, Index(n, k, back), back)
      BY <1>6, <1>12
    <2>3. Walk(sections, back)[s] = FlattenSeq(Turns(W, s, back))
      BY <1>2, <1>4
    <2>. QED
      BY <2>1, <2>2, <2>3
  <1>13. Walk(sections, back)[s] \in Seq(AllLines)
    BY <1>2, <1>5, <1>11 DEF X
  <1>. QED
    BY <1>12, <1>13

\* What is packed for a line, and for a section, when P is what is for those below it.
PackAt(P, l) == IF ~At(sections, l).emits THEN << >>
                ELSE IF At(sections, l).kind = "macro" THEN P[At(sections, l).child] ELSE <<l>>
PackOf(P, s) == FlattenSeq([i \in DOMAIN sections[s].ir |-> PackAt(P, <<s, i>>)])

\* What is packed is defined by recursion: it is what a function with this property is ...
LEMMA PackedIs == Packed(sections) = CHOOSE P : P = [s \in DOMAIN sections |-> PackOf(P, s)]
  BY DEF Packed, PackOf, PackAt

\* ... which depends on the macros of a section only ...
LEMMA PacksAgree ==
    ASSUME Tree, NEW s \in DOMAIN sections, NEW P, NEW Q, \A c \in DOMAIN sections : s < c => P[c] = Q[c]
    PROVE  PackOf(P, s) = PackOf(Q, s)
  <1>1. ASSUME NEW i \in DOMAIN sections[s].ir PROVE PackAt(P, <<s, i>>) = PackAt(Q, <<s, i>>)
    <2>1. At(sections, <<s, i>>) = sections[s].ir[i]
      BY DEF At
    <2>. QED
      BY <2>1 DEF PackAt, Tree, ReadWell
  <1>2. [i \in DOMAIN sections[s].ir |-> PackAt(P, <<s, i>>)] = [i \in DOMAIN sections[s].ir |-> PackAt(Q, <<s, i>>)]
    BY <1>1
  <1>. QED
    BY <1>2 DEF PackOf

\* ... and so there is one.
LEMMA PackExists ==
    ASSUME Tree
    PROVE  \E P : P = [s \in DOMAIN sections |-> PackOf(P, s)]
  <1>1. PICK N \in Nat : DOMAIN sections = 1 .. N
    BY DEF Tree
  <1>. DEFINE Some(m, P) == P = [s \in 1 .. N |-> IF N - m < s THEN PackOf(P, s) ELSE << >>]
              G == {m \in 0 .. N : \E P : Some(m, P)}
  <1>2. 0 \in G
    <2>. DEFINE P == [s \in 1 .. N |-> << >>]
    <2>1. \A s \in 1 .. N : ~(N - 0 < s)
      OBVIOUS
    <2>2. Some(0, P)
      BY <2>1
    <2>3. 0 \in 0 .. N
      OBVIOUS
    <2>. HIDE DEF Some
    <2>. QED
      BY <2>2, <2>3
  <1>3. ASSUME NEW m \in 1 .. N, m - 1 \in G PROVE m \in G
    <2>1. PICK P : Some(m - 1, P)
      BY <1>3
    <2>. DEFINE z == (N - m) + 1
                Q == [s \in 1 .. N |-> IF s = z THEN PackOf(P, z) ELSE P[s]]
    <2>2. z \in 1 .. N /\ N - (m - 1) = z
      OBVIOUS
    <2>3. \A s \in 1 .. N : /\ z < s => P[s] = PackOf(P, s) /\ Q[s] = P[s]
                            /\ N - m < s <=> s = z \/ z < s
                            /\ ~(N - m < s) => P[s] = << >> /\ Q[s] = P[s]
      <3>1. \A s \in 1 .. N : P[s] = IF z < s THEN PackOf(P, s) ELSE << >>
        BY <2>1, <2>2
      <3>2. \A s \in 1 .. N : N - m < s <=> s = z \/ z < s
        BY <2>2
      <3>3. \A s \in 1 .. N : s # z => Q[s] = P[s]
        OBVIOUS
      <3>. QED
        BY <2>2, <3>1, <3>2, <3>3
    <2>4. Q[z] = PackOf(P, z)
      BY <2>2
    <2>5. Q = [s \in 1 .. N |-> Q[s]]
      OBVIOUS
    <2>. HIDE DEF Q
    <2>6. ASSUME NEW s \in 1 .. N, s = z \/ z < s PROVE PackOf(P, s) = PackOf(Q, s)
      <3>1. \A c \in DOMAIN sections : s < c => P[c] = Q[c]
        BY <1>1, <2>2, <2>3, <2>6
      <3>. QED
        BY <1>1, <3>1, PacksAgree
    <2>7. \A s \in 1 .. N : Q[s] = IF N - m < s THEN PackOf(Q, s) ELSE << >>
      <3>. HIDE DEF z
      <3>. QED
        BY <2>3, <2>4, <2>6
    <2>8. Some(m, Q)
      BY <2>5, <2>7
    <2>. HIDE DEF Some
    <2>. QED
      BY <2>8
  <1>4. N \in G
    <2>. HIDE DEF G
    <2>1. 0 .. N \subseteq G
      BY <1>2, <1>3, Upwards, Zenon
    <2>. QED
      BY <2>1
  <1>5. PICK P : Some(N, P)
    BY <1>4
  <1>6. \A s \in 1 .. N : N - N < s
    OBVIOUS
  <1>7. P = [s \in 1 .. N |-> PackOf(P, s)]
    BY <1>5, <1>6
  <1>. QED
    BY <1>1, <1>7

\* What is packed for a section is made of its parts.
LEMMA PackedOpens ==
    ASSUME Tree, NEW s \in DOMAIN sections
    PROVE  /\ Packed(sections)[s] \in Seq(AllLines)
           /\ \A n \in Nat : DOMAIN sections[s].ir = 1 .. n =>
                 \E parts \in Seq(Seq(AllLines)) :
                    /\ Len(parts) = n /\ Packed(sections)[s] = FlattenSeq(parts)
                    /\ \A i \in 1 .. n : parts[i] = Part(s, i)
  <1>. DEFINE Is(V) == V = [c \in DOMAIN sections |-> PackOf(V, c)]
              It == CHOOSE V : Is(V)
  <1>1. PICK P : P = It
    OBVIOUS
  <1>2. Packed(sections) = P
    BY <1>1, PackedIs
  <1>3. Is(P)
    <2>1. \E V : Is(V)
      BY PackExists
    <2>. HIDE DEF Is
    <2>. QED
      BY <1>1, <2>1
  <1>. HIDE DEF It
  <1>. DEFINE Parts(c) == [i \in DOMAIN sections[c].ir |-> PackAt(P, <<c, i>>)]
  <1>4. \A c \in DOMAIN sections : P[c] = FlattenSeq(Parts(c))
    BY <1>3 DEF PackOf
  <1>. HIDE DEF Is
  <1>5. PICK m \in Nat : DOMAIN sections = 1 .. m
    BY DEF Tree
  <1>6. ASSUME NEW c \in DOMAIN sections, NEW i \in DOMAIN sections[c].ir
        PROVE  Parts(c)[i] = Part(c, i)
    <2>1. At(sections, <<c, i>>) = sections[c].ir[i]
      BY DEF At
    <2>2. PackAt(P, <<c, i>>) = Part(c, i)
      BY <1>2, <2>1 DEF PackAt, Part
    <2>. QED
      BY <2>2
  <1>. DEFINE X == {c \in DOMAIN sections : P[c] \in Seq(AllLines)}
  <1>8. ASSUME NEW c \in DOMAIN sections, NEW n \in Nat, DOMAIN sections[c].ir = 1 .. n, NEW i \in 1 .. n,
               \A d \in DOMAIN sections : c < d => d \in X
        PROVE  Part(c, i) \in Seq(AllLines)
    <2>1. <<c, i>> \in AllLines
      <3>1. c \in Nat /\ i \in Nat
        BY <1>5
      <3>. QED
        BY <1>8, <3>1 DEF AllLines
    <2>2. <<<<c, i>>>> \in Seq(AllLines) /\ << >> \in Seq(AllLines)
      BY <2>1
    <2>3. sections[c].ir[i].kind = "macro" => P[sections[c].ir[i].child] \in Seq(AllLines)
      BY <1>8 DEF Tree, ReadWell
    <2>. QED
      BY <1>2, <2>2, <2>3 DEF Part
  <1>. HIDE DEF X
  <1>9. ASSUME NEW c \in DOMAIN sections, NEW n \in Nat, DOMAIN sections[c].ir = 1 .. n,
               \A d \in DOMAIN sections : c < d => d \in X
        PROVE  Parts(c) \in Seq(Seq(AllLines)) /\ Len(Parts(c)) = n
    <2>1. PICK t : t = Parts(c)
      OBVIOUS
    <2>2. \A k \in 1 .. n : t[k] \in Seq(AllLines)
      <3>. HIDE DEF Parts
      <3>. QED
        BY <1>6, <1>8, <1>9, <2>1
    <2>3. t = [k \in 1 .. n |-> t[k]]
      BY <1>9, <2>1
    <2>4. t \in [1 .. n -> Seq(AllLines)]
      <3>. HIDE DEF Parts
      <3>. QED
        BY <2>2, <2>3
    <2>5. t \in Seq(Seq(AllLines))
      BY <2>4, SeqDef
    <2>6. Len(t) = n
      <3>. HIDE DEF Parts
      <3>. QED
        BY <2>4, <2>5, LenProperties
    <2>. QED
      BY <2>1, <2>5, <2>6
  <1>. HIDE DEF Parts
  <1>10. ASSUME NEW c \in 1 .. m, \A d \in 1 .. m : c < d => d \in X PROVE c \in X
    <2>1. PICK n \in Nat : DOMAIN sections[c].ir = 1 .. n
      BY <1>5 DEF Tree, ReadWell
    <2>2. Parts(c) \in Seq(Seq(AllLines))
      BY <1>5, <1>9, <1>10, <2>1
    <2>. QED
      BY <1>4, <1>5, <2>2, Flattened DEF X
  <1>11. 1 .. m \subseteq X
    BY <1>10, Downwards, Zenon
  <1>12. ASSUME NEW n \in Nat, DOMAIN sections[s].ir = 1 .. n
         PROVE  \E parts \in Seq(Seq(AllLines)) :
                    /\ Len(parts) = n /\ Packed(sections)[s] = FlattenSeq(parts)
                    /\ \A i \in 1 .. n : parts[i] = Part(s, i)
    <2>1. Parts(s) \in Seq(Seq(AllLines)) /\ Len(Parts(s)) = n
      BY <1>5, <1>9, <1>11, <1>12
    <2>2. \A i \in 1 .. n : Parts(s)[i] = Part(s, i)
      BY <1>6, <1>12
    <2>3. Packed(sections)[s] = FlattenSeq(Parts(s))
      BY <1>2, <1>4
    <2>. QED
      BY <2>1, <2>2, <2>3
  <1>13. Packed(sections)[s] \in Seq(AllLines)
    BY <1>2, <1>5, <1>11 DEF X
  <1>. QED
    BY <1>12, <1>13

-----------------------------------------------------------------------------
\* The line of its program that a line belongs to is found section by section.
TopOf(T, l) == IF sections[l[1]].parent = 0 THEN l[2] ELSE T[<<sections[l[1]].parent, sections[l[1]].line>>]

\* The same argument as for what is packed.
LEMMA TopIs == TopLine(sections) = CHOOSE T : T = [l \in (DOMAIN sections) \X Nat |-> TopOf(T, l)]
  BY DEF TopLine, TopOf

\* The function is made section by section.
LEMMA TopExists ==
    ASSUME Tree
    PROVE  \E T : T = [l \in (DOMAIN sections) \X Nat |-> TopOf(T, l)]
  <1>1. PICK N \in Nat : DOMAIN sections = 1 .. N
    BY DEF Tree
  <1>. DEFINE D == (1 .. N) \X Nat
              Some(m, T) == T = [l \in D |-> IF l[1] <= m THEN TopOf(T, l) ELSE 0]
              G == {m \in 0 .. N : \E T : Some(m, T)}
  <1>2. 0 \in G
    <2>. DEFINE T == [l \in D |-> 0]
    <2>1. \A l \in D : ~(l[1] <= 0)
      OBVIOUS
    <2>2. Some(0, T)
      BY <2>1
    <2>3. 0 \in 0 .. N
      OBVIOUS
    <2>. HIDE DEF Some
    <2>. QED
      BY <2>2, <2>3
  <1>3. ASSUME NEW m \in 1 .. N, m - 1 \in G PROVE m \in G
    <2>1. PICK T : Some(m - 1, T)
      BY <1>3
    <2>. DEFINE Q == [l \in D |-> IF l[1] = m THEN TopOf(T, l) ELSE T[l]]
    <2>2. \A l \in D : T[l] = IF l[1] <= m - 1 THEN TopOf(T, l) ELSE 0
      BY <2>1
    <2>3. \A l \in D : Q[l] = IF l[1] = m THEN TopOf(T, l) ELSE T[l]
      OBVIOUS
    <2>4. Q = [l \in D |-> Q[l]]
      OBVIOUS
    <2>. HIDE DEF Q
    <2>5. ASSUME NEW l \in D, l[1] <= m PROVE TopOf(T, l) = TopOf(Q, l)
      <3>1. CASE sections[l[1]].parent = 0
        BY <3>1 DEF TopOf
      <3>2. CASE sections[l[1]].parent # 0
        <4>. PICK k : k = <<sections[l[1]].parent, sections[l[1]].line>>
          OBVIOUS
        <4>1. k \in D /\ k[1] < l[1]
          BY <1>1, <3>2 DEF Tree, Hangs
        <4>2. l[1] \in 1 .. N /\ k[1] \in 1 .. N
          BY <4>1
        <4>3. Q[k] = T[k]
          BY <2>3, <2>5, <4>1, <4>2
        <4>. QED
          BY <3>2, <4>3 DEF TopOf
      <3>. QED
        BY <3>1, <3>2
    <2>6. ASSUME NEW l \in D PROVE Q[l] = IF l[1] <= m THEN TopOf(Q, l) ELSE 0
      <3>. PICK s \in 1 .. N : s = l[1]
        OBVIOUS
      <3>1. CASE s = m
        <4>1. l[1] = m /\ l[1] <= m
          BY <3>1
        <4>2. TopOf(T, l) = TopOf(Q, l)
          BY <2>5, <4>1
        <4>3. Q[l] = TopOf(T, l)
          BY <2>3, <4>1
        <4>. QED
          BY <4>1, <4>2, <4>3
      <3>2. CASE s < m
        <4>1. s <= m - 1 /\ s # m /\ s <= m
          BY <3>2
        <4>. QED
          BY <2>2, <2>3, <2>5, <4>1
      <3>3. CASE m < s
        <4>1. ~(s <= m - 1) /\ s # m /\ ~(s <= m)
          BY <3>3
        <4>. QED
          BY <2>2, <2>3, <4>1
      <3>. QED
        BY <3>1, <3>2, <3>3
    <2>7. Some(m, Q)
      BY <2>4, <2>6
    <2>. HIDE DEF Some
    <2>. QED
      BY <2>7
  <1>4. N \in G
    <2>. HIDE DEF G
    <2>1. 0 .. N \subseteq G
      BY <1>2, <1>3, Upwards, Zenon
    <2>. QED
      BY <2>1
  <1>5. PICK T : Some(N, T)
    BY <1>4
  <1>6. \A l \in D : l[1] <= N
    OBVIOUS
  <1>7. T = [l \in D |-> TopOf(T, l)]
    <2>. HIDE DEF D
    <2>. QED
      BY <1>5, <1>6
  <1>. QED
    BY <1>1, <1>7

\* It does what its definition says.
LEMMA TopLines ==
    ASSUME Tree, NEW s \in DOMAIN sections, NEW i \in Nat
    PROVE  TopLine(sections)[<<s, i>>] = IF sections[s].parent = 0 THEN i
                                         ELSE TopLine(sections)[<<sections[s].parent, sections[s].line>>]
  <1>. DEFINE Is(T) == T = [l \in (DOMAIN sections) \X Nat |-> TopOf(T, l)]
              It == CHOOSE T : Is(T)
  <1>1. PICK T : T = It
    OBVIOUS
  <1>2. TopLine(sections) = T
    BY <1>1, TopIs
  <1>3. Is(T)
    <2>1. \E V : Is(V)
      BY TopExists
    <2>. HIDE DEF Is
    <2>. QED
      BY <1>1, <2>1
  <1>. HIDE DEF It
  <1>4. T[<<s, i>>] = TopOf(T, <<s, i>>)
    BY <1>3
  <1>. QED
    BY <1>2, <1>4 DEF TopOf

\* All lines of a section go into the image that produce bytes.
Clear(s) == \A i \in DOMAIN sections[s].ir : sections[s].ir[i].emits <=> sections[s].ir[i].kind \in Emitting

\* So it is in a macro if the macro's line does.
Handed == \A s \in DOMAIN sections : \A i \in DOMAIN sections[s].ir :
    sections[s].ir[i].kind = "macro" /\ sections[s].ir[i].emits => Clear(sections[s].ir[i].child)

\* One line is laid.
LEMMA LaidOne ==
    ASSUME NEW l, NEW a, NEW b, NEW back, Laid(<<l>>, a, b, back)
    PROVE  PlacedAt(l, a, b, back) /\ a \in Addresses /\ b \in Addresses
  <1>1. Len(<<l>>) = 1 /\ <<l>>[1] = l
    OBVIOUS
  <1>2. PICK F \in [0 .. 1 -> Addresses] :
            F[0] = a /\ F[1] = b /\ \A k \in 1 .. 1 : PlacedAt(<<l>>[k], F[k - 1], F[k], back)
    BY <1>1 DEF Laid
  <1>3. PlacedAt(<<l>>[1], F[1 - 1], F[1], back) /\ 1 - 1 = 0
    BY <1>2
  <1>. QED
    BY <1>1, <1>2, <1>3

\* What a line's turn is made of.
LEMMA TurnSplit ==
    ASSUME Tree, NEW back \in BOOLEAN, NEW s \in DOMAIN sections, NEW i \in DOMAIN sections[s].ir, NEW a, NEW b,
           Laid(Turn(s, i, back), a, b, back)
    PROVE  /\ At(sections, <<s, i>>) = sections[s].ir[i]
           /\ a \in Addresses /\ b \in Addresses
           /\ \E m \in Addresses :
                 /\ PlacedAt(<<s, i>>, a, m, back)
                 /\ sections[s].ir[i].kind # "macro" => b = m
                 /\ sections[s].ir[i].kind = "macro" =>
                       m = a /\ Laid(Walk(sections, back)[sections[s].ir[i].child], a, b, back)
  <1>1. At(sections, <<s, i>>) = sections[s].ir[i]
    BY DEF At
  <1>2. PICK rest : rest = IF sections[s].ir[i].kind = "macro"
                           THEN Walk(sections, back)[sections[s].ir[i].child] ELSE << >>
    OBVIOUS
  <1>3. PICK l : l = <<s, i>>
    OBVIOUS
  <1>4. l \in AllLines
    <2>1. s \in Nat /\ i \in Nat
      BY DEF Tree, ReadWell
    <2>. QED
      BY <1>3, <2>1 DEF AllLines
  <1>5. rest \in Seq(AllLines)
    <2>1. CASE sections[s].ir[i].kind = "macro"
      <3>1. sections[s].ir[i].child \in DOMAIN sections
        BY <2>1 DEF Tree, ReadWell
      <3>. QED
        BY <1>2, <2>1, <3>1, WalkOpens
    <2>2. CASE sections[s].ir[i].kind # "macro"
      BY <1>2, <2>2
    <2>. QED
      BY <2>1, <2>2
  <1>6. <<l>> \in Seq(AllLines) /\ Laid(<<l>> \o rest, a, b, back)
    BY <1>2, <1>3, <1>4 DEF Turn
  <1>7. PICK m \in Addresses : Laid(<<l>>, a, m, back) /\ Laid(rest, m, b, back)
    BY <1>5, <1>6, LaidSplit
  <1>8. PlacedAt(l, a, m, back) /\ a \in Addresses
    BY <1>7, LaidOne
  <1>9. b \in Addresses
    BY <1>5, <1>7, LaidBetween
  <1>10. sections[s].ir[i].kind # "macro" => b = m
    BY <1>2, <1>7, NothingLaid
  <1>11. sections[s].ir[i].kind = "macro" => m = a /\ rest = Walk(sections, back)[sections[s].ir[i].child]
    BY <1>1, <1>2, <1>3, <1>8 DEF PlacedAt
  <1>. QED
    BY <1>1, <1>3, <1>7, <1>8, <1>9, <1>10, <1>11

\* What is packed for a line lies between the addresses it was assigned.
LEMMA TurnBetween ==
    ASSUME Tree, NEW back \in BOOLEAN, NEW s \in DOMAIN sections, NEW i \in DOMAIN sections[s].ir, NEW a, NEW b,
           Laid(Turn(s, i, back), a, b, back),
           sections[s].ir[i].emits <=> sections[s].ir[i].kind \in Emitting,
           sections[s].ir[i].kind = "macro" =>
               \A u, v : Laid(Walk(sections, back)[sections[s].ir[i].child], u, v, back)
                             => Between(Packed(sections)[sections[s].ir[i].child], u, v, back)
    PROVE  Between(Part(s, i), a, b, back)
  <1>1. PICK r : r = sections[s].ir[i]
    OBVIOUS
  <1>2. At(sections, <<s, i>>) = r /\ r.n \in Nat /\ (r.kind = "align" => r.n > 0)
    BY <1>1, TurnSplit DEF Tree, ReadWell
  <1>3. a \in Addresses /\ b \in Addresses
    BY TurnSplit
  <1>4. PICK m \in Addresses : /\ PlacedAt(<<s, i>>, a, m, back)
                               /\ r.kind # "macro" => b = m
                               /\ r.kind = "macro" => m = a /\ Laid(Walk(sections, back)[r.child], a, b, back)
    BY <1>1, TurnSplit
  <1>5. CASE r.kind \notin Emitting
    <2>1. Part(s, i) = << >>
      BY <1>1, <1>5 DEF Part
    <2>2. b = a
      <3>1. r.kind # "macro"
        BY <1>5 DEF Emitting
      <3>2. m = a
        BY <1>2, <1>3, <1>4, <1>5, IdleLine
      <3>. QED
        BY <1>4, <3>1, <3>2
    <2>. QED
      BY <2>1, <2>2, SpansNothing DEF Between
  <1>6. CASE r.kind \in Emitting /\ r.kind = "macro"
    <2>1. Part(s, i) = Packed(sections)[r.child]
      BY <1>1, <1>6 DEF Part
    <2>2. Laid(Walk(sections, back)[r.child], a, b, back)
      BY <1>4, <1>6
    <2>. QED
      BY <1>1, <1>6, <2>1, <2>2
  <1>7. CASE r.kind \in Emitting /\ r.kind # "macro"
    <2>1. Part(s, i) = <<<<s, i>>>>
      BY <1>1, <1>7 DEF Part
    <2>2. PlacedAt(<<s, i>>, a, b, back)
      BY <1>4, <1>7
    <2>. QED
      BY <1>2, <1>3, <1>7, <2>1, <2>2, LineBetween
  <1>. QED
    BY <1>5, <1>6, <1>7

\* What is packed for one line after the other lies between where they begin and end.
LEMMA PartsBetween ==
    ASSUME NEW S, NEW parts \in Seq(Seq(S)), NEW n \in Nat, Len(parts) = n, NEW M, NEW back \in BOOLEAN,
           \A k \in 1 .. n : Between(parts[Index(n, k, back)], M[k - 1], M[k], back)
    PROVE  Between(FlattenSeq(parts), M[0], M[n], back)
  <1>1. CASE ~back
    <2>1. \A k \in 1 .. Len(parts) : Spans(parts[k], M[k - 1], M[k], back)
      BY <1>1 DEF Between, Index
    <2>2. Spans(FlattenSeq(parts), M[0], M[n], back)
      BY <2>1, SpansFlattened
    <2>. QED
      BY <1>1, <2>2 DEF Between
  <1>2. CASE back
    <2>. DEFINE G == [i \in 0 .. n |-> M[n - i]]
    <2>1. ASSUME NEW i \in 1 .. n PROVE Spans(parts[i], G[i - 1], G[i], back)
      <3>1. PICK k : k = (n - i) + 1
        OBVIOUS
      <3>2. k \in 1 .. n /\ (n - k) + 1 = i /\ k - 1 = n - i /\ n - (i - 1) = k
        BY <3>1
      <3>3. Between(parts[Index(n, k, back)], M[k - 1], M[k], back) /\ Index(n, k, back) = i
        BY <1>2, <3>2 DEF Index
      <3>4. G[i] = M[k - 1] /\ G[i - 1] = M[k]
        BY <3>2
      <3>. QED
        BY <1>2, <3>3, <3>4 DEF Between
    <2>2. G[0] = M[n] /\ G[n] = M[0]
      OBVIOUS
    <2>. HIDE DEF G
    <2>3. Spans(FlattenSeq(parts), G[0], G[n], back)
      BY <2>1, SpansFlattened
    <2>. QED
      BY <1>2, <2>2, <2>3 DEF Between
  <1>. QED
    BY <1>1, <1>2

\* Addresses from a to b between which the first n of some turns are laid.
Legs(turns, n, a, b, back, M) ==
    /\ M \in [0 .. n -> Addresses] /\ M[0] = a /\ M[n] = b
    /\ \A k \in 1 .. n : Laid(turns[k], M[k - 1], M[k], back)

\* A section is laid turn by turn.
LEMMA LaidTurns ==
    ASSUME NEW turns \in Seq(Seq(AllLines)), NEW n, Len(turns) = n, NEW w, w = FlattenSeq(turns),
           NEW a, NEW b, NEW back, Laid(w, a, b, back)
    PROVE  \E M : Legs(turns, n, a, b, back, M)
  <1>1. Laid(FlattenSeq(turns), a, b, back)
    OBVIOUS
  <1>2. \E M \in [0 .. Len(turns) -> Addresses] :
              M[0] = a /\ M[Len(turns)] = b /\ \A i \in 1 .. Len(turns) : Laid(turns[i], M[i - 1], M[i], back)
    BY <1>1, LaidFlattened
  <1>. QED
    BY <1>2 DEF Legs

\* The same of a whole section, if it is so of those below it.
LEMMA SectionStep ==
    ASSUME Tree, Handed, NEW back \in BOOLEAN, NEW s \in DOMAIN sections, Clear(s),
           NEW a, NEW b, Laid(Walk(sections, back)[s], a, b, back),
           \A c \in DOMAIN sections : s < c /\ Clear(c) =>
              \A u, v : Laid(Walk(sections, back)[c], u, v, back) => Between(Packed(sections)[c], u, v, back)
    PROVE  Between(Packed(sections)[s], a, b, back)
  <1>1. PICK n \in Nat : DOMAIN sections[s].ir = 1 .. n
    BY DEF Tree, ReadWell
  <1>2. PICK turns \in Seq(Seq(AllLines)) :
            /\ Len(turns) = n /\ Walk(sections, back)[s] = FlattenSeq(turns)
            /\ \A k \in 1 .. n : turns[k] = Turn(s, Index(n, k, back), back)
    BY <1>1, WalkOpens
  <1>3. PICK parts \in Seq(Seq(AllLines)) :
            /\ Len(parts) = n /\ Packed(sections)[s] = FlattenSeq(parts)
            /\ \A i \in 1 .. n : parts[i] = Part(s, i)
    BY <1>1, PackedOpens
  <1>4. PICK M : Legs(turns, n, a, b, back, M)
    BY <1>2, LaidTurns
  <1>5. ASSUME NEW k \in 1 .. n PROVE Between(parts[Index(n, k, back)], M[k - 1], M[k], back)
    <2>1. PICK i : i = Index(n, k, back)
      OBVIOUS
    <2>2. i \in DOMAIN sections[s].ir /\ i \in 1 .. n
      BY <1>1, <2>1, OrderExactly
    <2>3. Laid(Turn(s, i, back), M[k - 1], M[k], back)
      BY <1>2, <1>4, <2>1 DEF Legs
    <2>4. sections[s].ir[i].emits <=> sections[s].ir[i].kind \in Emitting
      BY <2>2 DEF Clear
    <2>5. ASSUME sections[s].ir[i].kind = "macro"
          PROVE  \A u, v : Laid(Walk(sections, back)[sections[s].ir[i].child], u, v, back)
                              => Between(Packed(sections)[sections[s].ir[i].child], u, v, back)
      <3>1. sections[s].ir[i].child \in DOMAIN sections /\ s < sections[s].ir[i].child
        BY <2>2, <2>5 DEF Tree, ReadWell
      <3>2. Clear(sections[s].ir[i].child)
        BY <2>2, <2>4, <2>5 DEF Handed, Emitting
      <3>. QED
        BY <3>1, <3>2
    <2>6. Between(Part(s, i), M[k - 1], M[k], back)
      BY <2>2, <2>3, <2>4, <2>5, TurnBetween
    <2>. QED
      BY <1>3, <2>1, <2>2, <2>6
  <1>6. Between(FlattenSeq(parts), M[0], M[n], back)
    BY <1>3, <1>5, PartsBetween
  <1>. QED
    BY <1>3, <1>4, <1>6 DEF Legs

\* What is packed for a whole section lies between its addresses.
LEMMA SectionBetween ==
    ASSUME Tree, Handed, NEW back \in BOOLEAN
    PROVE  \A s \in DOMAIN sections : Clear(s) =>
              \A a, b : Laid(Walk(sections, back)[s], a, b, back) => Between(Packed(sections)[s], a, b, back)
  <1>. DEFINE X == {s \in DOMAIN sections : Clear(s) =>
                        \A a, b : Laid(Walk(sections, back)[s], a, b, back) => Between(Packed(sections)[s], a, b, back)}
  <1>1. PICK m \in Nat : DOMAIN sections = 1 .. m
    BY DEF Tree
  <1>2. ASSUME NEW s \in 1 .. m, \A c \in 1 .. m : s < c => c \in X PROVE s \in X
    BY <1>1, <1>2, SectionStep
  <1>3. 1 .. m \subseteq X
    <2>. HIDE DEF X
    <2>. QED
      BY <1>2, Downwards, Zenon
  <1>. QED
    BY <1>1, <1>3

\* The total of one line.
LEMMA TotalOne == \A size, l : size[l] \in Nat => Total(size, <<l>>) = size[l]
  <1>. SUFFICES ASSUME NEW size, NEW l, size[l] \in Nat PROVE Total(size, <<l>>) = size[l]
    OBVIOUS
  <1>1. DOMAIN <<l>> = 1 .. 1 /\ <<l>>[1] = l
    OBVIOUS
  <1>2. PICK F : Sums(size, <<l>>, 1, F)
    BY <1>1, TotalSteps
  <1>3. F[0] = 0 /\ Total(size, <<l>>) = F[1] /\ F[1] = F[1 - 1] + size[<<l>>[1]]
    BY <1>2 DEF Sums
  <1>4. F[1 - 1] = F[0] /\ size[<<l>>[1]] = size[l]
    BY <1>1
  <1>. QED
    BY <1>3, <1>4

\* The total of two stretches.
LEMMA TotalJoined ==
    ASSUME NEW S, NEW size, \A l \in S : size[l] \in Nat
    PROVE  \A x, y \in Seq(S) : /\ Total(size, x) \in Nat /\ Total(size, y) \in Nat
                                 /\ Total(size, x \o y) = Total(size, x) + Total(size, y)
  <1>. SUFFICES ASSUME NEW x \in Seq(S), NEW y \in Seq(S)
                PROVE  /\ Total(size, x) \in Nat /\ Total(size, y) \in Nat
                       /\ Total(size, x \o y) = Total(size, x) + Total(size, y)
    OBVIOUS
  <1>1. Total(size, x) \in Nat
    BY Totals
  <1>2. Total(size, y) \in Nat
    BY Totals
  <1>3. Total(size, x \o y) = Total(size, x) + Total(size, y)
    BY Totals
  <1>. QED
    BY <1>1, <1>2, <1>3

\* Sequences made of equally long pieces are equally long.
LEMMA FlattenedTotals ==
    ASSUME NEW S, NEW size, \A l \in S : size[l] \in Nat, NEW x \in Seq(Seq(S)), NEW y \in Seq(Seq(S)), Len(x) = Len(y),
           \A i \in 1 .. Len(x) : Total(size, x[i]) = Total(size, y[i])
    PROVE  Total(size, FlattenSeq(x)) = Total(size, FlattenSeq(y))
  <1>1. Len(x) \in Nat /\ \A i \in 1 .. Len(x) : x[i] \in Seq(S) /\ y[i] \in Seq(S)
    BY LenProperties, ElementOfSeq
  <1>. DEFINE Adds(u, v) == Total(size, u \o v) = Total(size, u) + Total(size, v)
  <1>4. \A u, v \in Seq(S) : Adds(u, v)
    BY TotalJoined
  <1>2. CASE Len(x) = 0
    <2>1. FlattenSeq(x) = << >> /\ FlattenSeq(y) = << >>
      BY <1>2, Flattened
    <2>. QED
      BY <2>1
  <1>3. CASE Len(x) # 0
    <2>1. PICK L \in [1 .. Len(x) -> Seq(S)] :
              /\ FlattenSeq(x) = L[Len(x)] /\ L[1] = x[1]
              /\ \A i \in 2 .. Len(x) : L[i] = L[i - 1] \o x[i]
      BY <1>3, FlattenedSteps
    <2>2. PICK R \in [1 .. Len(y) -> Seq(S)] :
              /\ FlattenSeq(y) = R[Len(y)] /\ R[1] = y[1]
              /\ \A i \in 2 .. Len(y) : R[i] = R[i - 1] \o y[i]
      BY <1>3, FlattenedSteps
    <2>. DEFINE E == {i \in 0 .. Len(x) : i # 0 => Total(size, L[i]) = Total(size, R[i])}
    <2>3. 0 \in E
      BY <1>1
    <2>4. ASSUME NEW i \in 1 .. Len(x), i - 1 \in E PROVE i \in E
      <3>1. CASE i = 1
        BY <1>1, <2>1, <2>2, <3>1
      <3>2. CASE i # 1
        <4>1. i \in 2 .. Len(x) /\ i - 1 \in 1 .. Len(x) /\ i - 1 # 0
          BY <1>1, <3>2
        <4>2. Total(size, L[i - 1]) = Total(size, R[i - 1]) /\ Total(size, x[i]) = Total(size, y[i])
          BY <2>4, <4>1
        <4>3. /\ L[i - 1] \in Seq(S) /\ R[i - 1] \in Seq(S) /\ x[i] \in Seq(S) /\ y[i] \in Seq(S)
              /\ L[i] = L[i - 1] \o x[i] /\ R[i] = R[i - 1] \o y[i]
          BY <1>1, <2>1, <2>2, <4>1
        <4>4. Adds(L[i - 1], x[i]) /\ Adds(R[i - 1], y[i])
          <5>. HIDE DEF Adds
          <5>. QED
            BY <1>4, <4>3
        <4>5. Total(size, L[i]) = Total(size, R[i])
          BY <4>2, <4>3, <4>4
        <4>. QED
          BY <1>1, <4>5
      <3>. QED
        BY <3>1, <3>2
    <2>5. 0 .. Len(x) \subseteq E
      <3>. HIDE DEF E
      <3>. QED
        BY <1>1, <2>3, <2>4, Upwards, Zenon
    <2>6. Len(x) \in E
      <3>. HIDE DEF E
      <3>. QED
        BY <1>1, <2>5
    <2>. QED
      BY <1>3, <2>1, <2>2, <2>6
  <1>. QED
    BY <1>2, <1>3

\* What the lines are long before the .ALIGNs have their place.
Sizes == [l \in AllLines |-> Size(At(sections, l))]

\* Sizes are numbers.
LEMMA SizesAre ==
    ASSUME Tree, NEW l \in AllLines
    PROVE  /\ Sizes[l] = Size(At(sections, l)) /\ Sizes[l] \in Nat
           /\ At(sections, l).kind \notin Emitting \ {"align", "macro"} => Sizes[l] = 0
  <1>1. At(sections, l).n \in Nat
    BY DEF Tree, ReadWell, AllLines, At
  <1>2. PICK r : r = At(sections, l)
    OBVIOUS
  <1>3. Size(r) \in Nat /\ (r.kind \notin Emitting \ {"align", "macro"} => Size(r) = 0)
    BY <1>1, <1>2 DEF Size, Emitting
  <1>. QED
    BY <1>2, <1>3 DEF Sizes

\* What is packed for a line is as long as what a walk goes through for it.
LEMMA TurnWeighs ==
    ASSUME Tree, NEW s \in DOMAIN sections, NEW i \in DOMAIN sections[s].ir,
           sections[s].ir[i].emits <=> sections[s].ir[i].kind \in Emitting,
           sections[s].ir[i].kind = "macro" =>
               Total(Sizes, Walk(sections, FALSE)[sections[s].ir[i].child]) = Total(Sizes, Packed(sections)[sections[s].ir[i].child])
    PROVE  Total(Sizes, Turn(s, i, FALSE)) = Total(Sizes, Part(s, i))
  <1>1. PICK l, r : l = <<s, i>> /\ r = sections[s].ir[i]
    OBVIOUS
  <1>2. l \in AllLines /\ At(sections, l) = r
    <2>1. s \in Nat /\ i \in Nat
      BY DEF Tree, ReadWell
    <2>. QED
      BY <1>1, <2>1 DEF AllLines, At
  <1>3. <<l>> \in Seq(AllLines) /\ << >> \in Seq(AllLines)
    BY <1>2
  <1>4. \A k \in AllLines : Sizes[k] \in Nat
    BY SizesAre
  <1>5. Total(Sizes, <<l>>) = Sizes[l] /\ Sizes[l] \in Nat /\ Total(Sizes, << >>) = 0
    BY <1>2, <1>3, <1>4, TotalOne, Totals
  <1>6. CASE r.kind # "macro"
    <2>1. Turn(s, i, FALSE) = <<l>>
      BY <1>1, <1>6 DEF Turn
    <2>2. r.kind \notin Emitting => Part(s, i) = << >> /\ Sizes[l] = 0
      BY <1>1, <1>2, SizesAre DEF Part
    <2>3. r.kind \in Emitting => Part(s, i) = <<l>>
      BY <1>1, <1>6 DEF Part
    <2>. QED
      BY <1>5, <2>1, <2>2, <2>3
  <1>7. CASE r.kind = "macro"
    <2>1. PICK w : w = Walk(sections, FALSE)[r.child]
      OBVIOUS
    <2>2. w \in Seq(AllLines)
      BY <1>1, <1>7, <2>1, WalkOpens DEF Tree, ReadWell
    <2>3. Turn(s, i, FALSE) = <<l>> \o w
      BY <1>1, <1>7, <2>1 DEF Turn
    <2>4. Part(s, i) = Packed(sections)[r.child]
      BY <1>1, <1>7 DEF Part, Emitting
    <2>5. Sizes[l] = 0
      BY <1>2, <1>7, SizesAre
    <2>6. Total(Sizes, <<l>> \o w) = Total(Sizes, <<l>>) + Total(Sizes, w) /\ Total(Sizes, w) \in Nat
      BY <1>3, <1>4, <2>2, TotalJoined
    <2>7. Total(Sizes, w) = Total(Sizes, Part(s, i))
      BY <1>1, <1>7, <2>1, <2>4
    <2>8. Total(Sizes, Turn(s, i, FALSE)) = Total(Sizes, w)
      <3>1. PICK x \in Nat : x = Total(Sizes, w)
        BY <2>6
      <3>2. Total(Sizes, <<l>> \o w) = 0 + x
        BY <1>5, <2>5, <2>6, <3>1
      <3>3. 0 + x = x
        OBVIOUS
      <3>. QED
        BY <2>3, <3>1, <3>2, <3>3, Zenon
    <2>. QED
      BY <2>7, <2>8
  <1>. QED
    BY <1>6, <1>7

\* What is packed for a section is as long as its macro's line says.
LEMMA SectionWeighs ==
    ASSUME Tree, Handed, NEW s \in DOMAIN sections, Clear(s),
           \A c \in DOMAIN sections : s < c /\ Clear(c) =>
              Total(Sizes, Walk(sections, FALSE)[c]) = Total(Sizes, Packed(sections)[c])
    PROVE  Total(Sizes, Walk(sections, FALSE)[s]) = Total(Sizes, Packed(sections)[s])
  <1>1. PICK n \in Nat : DOMAIN sections[s].ir = 1 .. n
    BY DEF Tree, ReadWell
  <1>2. PICK turns \in Seq(Seq(AllLines)) :
            /\ Len(turns) = n /\ Walk(sections, FALSE)[s] = FlattenSeq(turns)
            /\ \A k \in 1 .. n : turns[k] = Turn(s, Index(n, k, FALSE), FALSE)
    BY <1>1, WalkOpens
  <1>3. PICK parts \in Seq(Seq(AllLines)) :
            /\ Len(parts) = n /\ Packed(sections)[s] = FlattenSeq(parts)
            /\ \A i \in 1 .. n : parts[i] = Part(s, i)
    BY <1>1, PackedOpens
  <1>4. ASSUME NEW i \in 1 .. n PROVE Total(Sizes, turns[i]) = Total(Sizes, parts[i])
    <2>1. i \in DOMAIN sections[s].ir /\ Index(n, i, FALSE) = i
      BY <1>1 DEF Index
    <2>2. sections[s].ir[i].emits <=> sections[s].ir[i].kind \in Emitting
      BY <2>1 DEF Clear
    <2>3. ASSUME sections[s].ir[i].kind = "macro"
          PROVE  Total(Sizes, Walk(sections, FALSE)[sections[s].ir[i].child]) = Total(Sizes, Packed(sections)[sections[s].ir[i].child])
      <3>1. sections[s].ir[i].child \in DOMAIN sections /\ s < sections[s].ir[i].child
        BY <2>1, <2>3 DEF Tree, ReadWell
      <3>2. Clear(sections[s].ir[i].child)
        BY <2>1, <2>2, <2>3 DEF Handed, Emitting
      <3>. QED
        BY <3>1, <3>2
    <2>4. Total(Sizes, Turn(s, i, FALSE)) = Total(Sizes, Part(s, i))
      BY <2>1, <2>2, <2>3, TurnWeighs
    <2>. QED
      BY <1>2, <1>3, <2>1, <2>4
  <1>5. \A k \in AllLines : Sizes[k] \in Nat
    BY SizesAre
  <1>6. Total(Sizes, FlattenSeq(turns)) = Total(Sizes, FlattenSeq(parts))
    <2>1. Len(turns) = Len(parts) /\ \A i \in 1 .. Len(turns) : Total(Sizes, turns[i]) = Total(Sizes, parts[i])
      BY <1>2, <1>3, <1>4
    <2>. QED
      BY <1>5, <2>1, FlattenedTotals
  <1>. QED
    BY <1>2, <1>3, <1>6

\* A macro's line is given the size of what is below it.
LEMMA MacroWeighs ==
    ASSUME Tree, Handed
    PROVE  \A s \in DOMAIN sections : Clear(s) => MacroSize(sections, s) = Total(Sizes, Packed(sections)[s])
  <1>. DEFINE X == {s \in DOMAIN sections : Clear(s) =>
                        Total(Sizes, Walk(sections, FALSE)[s]) = Total(Sizes, Packed(sections)[s])}
  <1>1. PICK m \in Nat : DOMAIN sections = 1 .. m
    BY DEF Tree
  <1>2. ASSUME NEW s \in 1 .. m, \A c \in 1 .. m : s < c => c \in X PROVE s \in X
    BY <1>1, <1>2, SectionWeighs
  <1>3. 1 .. m \subseteq X
    <2>. HIDE DEF X
    <2>. QED
      BY <1>2, Downwards, Zenon
  <1>4. ASSUME NEW s \in DOMAIN sections PROVE MacroSize(sections, s) = Total(Sizes, Walk(sections, FALSE)[s])
    <2>1. PICK w \in Seq(AllLines) : w = Walk(sections, FALSE)[s]
      BY WalkOpens
    <2>2. PICK other : other = [l \in Range(w) |-> Size(At(sections, l))]
      OBVIOUS
    <2>3. \A i \in DOMAIN w : w[i] \in AllLines /\ other[w[i]] = Sizes[w[i]]
      <3>1. \A i \in DOMAIN w : w[i] \in AllLines /\ w[i] \in Range(w)
        BY ElementOfSeq, Sequences DEF Range
      <3>. QED
        BY <2>2, <3>1, SizesAre
    <2>4. \A k \in AllLines : Sizes[k] \in Nat
      BY SizesAre
    <2>5. Total(other, w) = Total(Sizes, w)
      BY <2>3, <2>4, Totals
    <2>. QED
      BY <2>1, <2>2, <2>5 DEF MacroSize
  <1>. QED
    BY <1>1, <1>3, <1>4

\* The line of its program that a line belongs to.
Top(l) == TopLine(sections)[<<l[1], At(sections, l).source>>]

\* What is packed for a line is part of what is packed for its section.
LEMMA PackedParts ==
    ASSUME Tree, NEW s \in DOMAIN sections
    PROVE  \A l : l \in Range(Packed(sections)[s]) <=> \E i \in DOMAIN sections[s].ir : l \in Range(Part(s, i))
  <1>1. PICK n \in Nat : DOMAIN sections[s].ir = 1 .. n
    BY DEF Tree, ReadWell
  <1>2. PICK parts \in Seq(Seq(AllLines)) :
            /\ Len(parts) = n /\ Packed(sections)[s] = FlattenSeq(parts)
            /\ \A i \in 1 .. n : parts[i] = Part(s, i)
    BY <1>1, PackedOpens
  <1>3. DOMAIN parts = 1 .. n
    BY <1>2, LenProperties
  <1>4. Range(FlattenSeq(parts)) = UNION {Range(parts[i]) : i \in DOMAIN parts}
    BY <1>2, FlattenedRange
  <1>5. ASSUME NEW l PROVE l \in Range(FlattenSeq(parts)) <=> \E i \in 1 .. n : l \in Range(Part(s, i))
    BY <1>2, <1>3, <1>4
  <1>. QED
    BY <1>1, <1>2, <1>5

\* It belongs to the same line of the program.
LEMMA PartTop ==
    ASSUME Tree, NEW s \in DOMAIN sections, NEW i \in DOMAIN sections[s].ir, NEW l, l \in Range(Part(s, i)),
           sections[s].ir[i].kind = "macro" =>
               \A k \in Range(Packed(sections)[sections[s].ir[i].child]) :
                   Top(k) = TopLine(sections)[<<sections[sections[s].ir[i].child].parent, sections[sections[s].ir[i].child].line>>]
    PROVE  Top(l) = TopLine(sections)[<<s, sections[s].ir[i].source>>]
  <1>1. CASE ~sections[s].ir[i].emits
    BY <1>1 DEF Part, Range
  <1>2. CASE sections[s].ir[i].emits /\ sections[s].ir[i].kind # "macro"
    <2>1. PICK k : k = <<s, i>>
      OBVIOUS
    <2>2. Part(s, i) = <<k>>
      BY <1>2, <2>1 DEF Part
    <2>3. l = k
      BY <2>2 DEF Range
    <2>4. l[1] = s /\ At(sections, l).source = sections[s].ir[i].source
      BY <2>1, <2>3 DEF At
    <2>. QED
      BY <2>4 DEF Top
  <1>3. CASE sections[s].ir[i].emits /\ sections[s].ir[i].kind = "macro"
    <2>1. Part(s, i) = Packed(sections)[sections[s].ir[i].child]
      BY <1>3 DEF Part
    <2>2. sections[sections[s].ir[i].child].parent = s /\ sections[sections[s].ir[i].child].line = sections[s].ir[i].source
      BY <1>3 DEF Tree, ReadWell
    <2>. QED
      BY <1>3, <2>1, <2>2
  <1>. QED
    BY <1>1, <1>2, <1>3

\* All that is packed for a section belongs to the line its macro is for.
LEMMA SectionTop ==
    ASSUME Tree, NEW s \in DOMAIN sections, sections[s].parent # 0, NEW l \in Range(Packed(sections)[s]),
           \A c \in DOMAIN sections : s < c /\ sections[c].parent # 0 =>
               \A k \in Range(Packed(sections)[c]) : Top(k) = TopLine(sections)[<<sections[c].parent, sections[c].line>>]
    PROVE  Top(l) = TopLine(sections)[<<sections[s].parent, sections[s].line>>]
  <1>1. PICK i \in DOMAIN sections[s].ir : l \in Range(Part(s, i))
    BY PackedParts
  <1>2. ASSUME sections[s].ir[i].kind = "macro", NEW k \in Range(Packed(sections)[sections[s].ir[i].child])
        PROVE  Top(k) = TopLine(sections)[<<sections[sections[s].ir[i].child].parent, sections[sections[s].ir[i].child].line>>]
    <2>1. PICK c : c = sections[s].ir[i].child
      OBVIOUS
    <2>2. c \in DOMAIN sections /\ s < c /\ sections[c].parent = s /\ s # 0
      BY <1>2, <2>1 DEF Tree, ReadWell
    <2>. QED
      BY <1>2, <2>1, <2>2
  <1>3. Top(l) = TopLine(sections)[<<s, sections[s].ir[i].source>>]
    BY <1>1, <1>2, PartTop
  <1>4. sections[s].ir[i].source \in Nat
    BY DEF Tree, ReadWell
  <1>. QED
    BY <1>3, <1>4, TopLines

\* What is packed for a line of a program belongs to that line.
LEMMA PackedTop ==
    ASSUME Tree
    PROVE  \A s \in DOMAIN sections : sections[s].parent # 0 =>
               \A l \in Range(Packed(sections)[s]) : Top(l) = TopLine(sections)[<<sections[s].parent, sections[s].line>>]
  <1>. DEFINE X == {s \in DOMAIN sections : sections[s].parent # 0 =>
                      \A l \in Range(Packed(sections)[s]) : Top(l) = TopLine(sections)[<<sections[s].parent, sections[s].line>>]}
  <1>1. PICK m \in Nat : DOMAIN sections = 1 .. m
    BY DEF Tree
  <1>2. ASSUME NEW s \in 1 .. m, \A c \in 1 .. m : s < c => c \in X PROVE s \in X
    BY <1>1, <1>2, SectionTop
  <1>3. 1 .. m \subseteq X
    <2>. HIDE DEF X
    <2>. QED
      BY <1>2, Downwards, Zenon
  <1>. QED
    BY <1>1, <1>3

\* So what is packed for a line of a program belongs to it.
LEMMA ProgramTop ==
    ASSUME Tree, NEW p \in DOMAIN sections, sections[p].parent = 0, NEW i \in DOMAIN sections[p].ir, NEW l \in Range(Part(p, i))
    PROVE  Top(l) = sections[p].ir[i].source
  <1>1. ASSUME sections[p].ir[i].kind = "macro", NEW k \in Range(Packed(sections)[sections[p].ir[i].child])
        PROVE  Top(k) = TopLine(sections)[<<sections[sections[p].ir[i].child].parent, sections[sections[p].ir[i].child].line>>]
    <2>1. PICK c : c = sections[p].ir[i].child
      OBVIOUS
    <2>2. c \in DOMAIN sections /\ sections[c].parent = p /\ p # 0
      BY <1>1, <2>1 DEF Tree, ReadWell
    <2>. QED
      BY <1>1, <2>1, <2>2, PackedTop
  <1>2. Top(l) = TopLine(sections)[<<p, sections[p].ir[i].source>>]
    BY <1>1, PartTop
  <1>3. sections[p].ir[i].source \in Nat
    BY DEF Tree, ReadWell
  <1>. QED
    BY <1>2, <1>3, TopLines

-----------------------------------------------------------------------------
\* What the lines take in an image.
Lengths == [l \in DOMAIN places |-> places[l].n]

\* Lines that follow one another are together as long as that takes them.
LEMMA FollowExtent ==
    ASSUME NEW q \in Seq(AllLines), NEW G, NEW back, Follow(q, G, back)
    PROVE  \A k \in 0 .. Len(q) : Total(Lengths, SubSeq(q, 1, k)) \in Nat /\ G[k] = G[0] + Total(Lengths, SubSeq(q, 1, k))
  <1>1. PICK n \in Nat : n = Len(q) /\ DOMAIN q = 1 .. n
    BY LenProperties
  <1>2. G \in [0 .. n -> Nat] /\ \A k \in 1 .. n : Follows(q[k], G[k - 1], G[k], back)
    BY <1>1 DEF Follow
  <1>3. \A k \in 1 .. n : Lengths[q[k]] \in Nat /\ G[k] = G[k - 1] + Lengths[q[k]]
    BY <1>2 DEF Follows, Lengths
  <1>4. PICK F : Sums(Lengths, q, n, F)
    BY <1>1, TotalSteps
  <1>5. q \in Seq(Range(q)) /\ \A l \in Range(q) : Lengths[l] \in Nat
    <2>1. Sequence(q)
      BY Sequences
    <2>. QED
      BY <1>1, <1>3, <2>1 DEF Range, Sequence
  <1>6. \A k \in 0 .. n : Total(Lengths, SubSeq(q, 1, k)) = F[k] /\ F[k] \in Nat
    BY <1>1, <1>4, <1>5, Totals
  <1>. DEFINE E == {k \in 0 .. n : G[k] = G[0] + F[k]}
  <1>7. 0 \in E
    <2>1. G[0] \in Nat /\ F[0] = 0
      BY <1>2, <1>4 DEF Sums
    <2>. QED
      BY <2>1
  <1>8. ASSUME NEW k \in 1 .. n, k - 1 \in E PROVE k \in E
    <2>1. PICK x, y, z, w : x = G[k] /\ y = G[k - 1] /\ z = F[k - 1] /\ w = Lengths[q[k]]
      OBVIOUS
    <2>2. x = y + w /\ w \in Nat /\ F[k] = z + w
      BY <1>3, <1>4, <2>1 DEF Sums
    <2>3. y = G[0] + z /\ z \in Nat /\ G[0] \in Nat
      BY <1>2, <1>6, <1>8, <2>1
    <2>4. x = G[0] + (z + w)
      BY <2>2, <2>3
    <2>5. G[k] = G[0] + F[k]
      <3>. HIDE DEF E
      <3>. QED
        BY <2>1, <2>2, <2>4
    <2>. QED
      BY <2>5
  <1>9. 0 .. n \subseteq E
    <2>. HIDE DEF E
    <2>. QED
      BY <1>7, <1>8, Upwards, Zenon
  <1>. QED
    BY <1>1, <1>6, <1>9

\* A section's own lines that go into the image.
Emitters(s) == {i \in DOMAIN sections[s].ir : sections[s].ir[i].emits}

\* The first line that goes into an image.
LEMMA FirstEmits ==
    ASSUME Tree, NEW p \in DOMAIN sections, Packed(sections)[p] # << >>
    PROVE  \E i \in DOMAIN sections[p].ir :
              /\ i = Min(Emitters(p)) /\ Emitters(p) # {} /\ sections[p].ir[i].emits
              /\ \A j \in DOMAIN sections[p].ir : j < i => ~sections[p].ir[j].emits
  <1>1. PICK n \in Nat : DOMAIN sections[p].ir = 1 .. n
    BY DEF Tree, ReadWell
  <1>2. PICK q \in Seq(AllLines) : q = Packed(sections)[p]
    BY PackedOpens
  <1>3. q[1] \in Range(q)
    <2>1. 1 \in DOMAIN q
      BY <1>2, EmptySeq, LenProperties
    <2>. QED
      BY <2>1 DEF Range
  <1>4. PICK j \in DOMAIN sections[p].ir : q[1] \in Range(Part(p, j))
    BY <1>2, <1>3, PackedParts
  <1>5. j \in Emitters(p)
    BY <1>4 DEF Emitters, Part, Range
  <1>6. Emitters(p) \subseteq Nat
    BY <1>1 DEF Emitters
  <1>7. Min(Emitters(p)) \in Emitters(p) /\ \A k \in Emitters(p) : Min(Emitters(p)) <= k
    BY <1>5, <1>6, Smallest
  <1>8. PICK i : i = Min(Emitters(p))
    OBVIOUS
  <1>9. i \in DOMAIN sections[p].ir /\ sections[p].ir[i].emits
    BY <1>7, <1>8 DEF Emitters
  <1>10. ASSUME NEW k \in DOMAIN sections[p].ir, k < i PROVE ~sections[p].ir[k].emits
    <2>1. k \in Emitters(p) => i <= k
      BY <1>7, <1>8
    <2>2. k \notin Emitters(p)
      BY <1>1, <1>9, <1>10, <2>1
    <2>. QED
      BY <2>2 DEF Emitters
  <1>. QED
    BY <1>5, <1>8, <1>9, <1>10

\* Laid out upwards from 0 an image begins there.
LEMMA ForwardFollows ==
    ASSUME Tree, Handed, NEW p \in DOMAIN sections, Clear(p), NEW b, Laid(Walk(sections, FALSE)[p], 0, b, FALSE),
           Packed(sections)[p] # << >>, NEW i \in DOMAIN sections[p].ir, i = Min(Emitters(p)), Emitters(p) # {},
           \A j \in DOMAIN sections[p].ir : j < i => ~sections[p].ir[j].emits
    PROVE  BaseOf(p) = 0 /\ \E G : Follow(Packed(sections)[p], G, FALSE) /\ G[0] = 0
  <1>1. PICK n \in Nat : DOMAIN sections[p].ir = 1 .. n
    BY DEF Tree, ReadWell
  <1>2. PICK turns \in Seq(Seq(AllLines)) :
            /\ Len(turns) = n /\ Walk(sections, FALSE)[p] = FlattenSeq(turns)
            /\ \A k \in 1 .. n : turns[k] = Turn(p, Index(n, k, FALSE), FALSE)
    BY <1>1, WalkOpens
  <1>3. PICK M : Legs(turns, n, 0, b, FALSE, M)
    BY <1>2, LaidTurns
  <1>4. \A k \in 1 .. n : Laid(Turn(p, k, FALSE), M[k - 1], M[k], FALSE)
    BY <1>2, <1>3 DEF Legs, Index
  <1>. DEFINE E == {k \in 0 .. n : k < i => M[k] = 0}
  <1>5. 0 \in E
    BY <1>3 DEF Legs
  <1>6. ASSUME NEW k \in 1 .. n, k - 1 \in E PROVE k \in E
    <2>. SUFFICES ASSUME k < i PROVE M[k] = 0
      BY <1>1
    <2>1. M[k - 1] = 0
      BY <1>1, <1>6
    <2>2. k \in DOMAIN sections[p].ir /\ sections[p].ir[k].kind \notin Emitting /\ sections[p].ir[k].kind # "macro"
      BY <1>1 DEF Clear, Emitting
    <2>3. Laid(Turn(p, k, FALSE), M[k - 1], M[k], FALSE)
      BY <1>4
    <2>4. PICK m \in Addresses :
              PlacedAt(<<p, k>>, M[k - 1], m, FALSE) /\ M[k] = m /\ M[k - 1] \in Addresses /\ At(sections, <<p, k>>) = sections[p].ir[k]
      BY <2>2, <2>3, TurnSplit
    <2>5. At(sections, <<p, k>>).n \in Nat
      BY <2>2, <2>4 DEF Tree, ReadWell
    <2>6. m = M[k - 1]
      BY <2>2, <2>4, <2>5, IdleLine
    <2>. QED
      BY <2>1, <2>4, <2>6
  <1>7. 0 .. n \subseteq E
    <2>. HIDE DEF E
    <2>. QED
      BY <1>5, <1>6, Upwards, Zenon
  <1>8. M[i - 1] = 0
    BY <1>1, <1>7
  <1>9. places[<<p, i>>].at = 0
    <2>1. Laid(Turn(p, i, FALSE), M[i - 1], M[i], FALSE)
      BY <1>1, <1>4
    <2>2. PICK m : PlacedAt(<<p, i>>, M[i - 1], m, FALSE)
      BY <2>1, TurnSplit
    <2>. QED
      BY <1>8, <2>2 DEF PlacedAt, BaseAddress
  <1>10. BaseOf(p) = 0
    BY <1>9 DEF BaseOf, Emitters
  <1>11. Between(Packed(sections)[p], 0, b, FALSE)
    BY SectionBetween
  <1>12. Spans(Packed(sections)[p], 0, b, FALSE) /\ Stands(0, 0, FALSE)
    BY <1>11 DEF Between, Stands
  <1>13. \E G : Follow(Packed(sections)[p], G, FALSE) /\ G[0] = 0
    BY <1>12 DEF Spans
  <1>. QED
    BY <1>10, <1>13

\* Without padding what is packed for a section takes up what its macro's line says.
LEMMA UnpaddedExtent ==
    ASSUME Tree, Handed, NEW s \in DOMAIN sections, Clear(s), NEW G, NEW back, Follow(Packed(sections)[s], G, back),
           \A l \in Range(Packed(sections)[s]) : At(sections, l).kind # "align"
    PROVE  MacroSize(sections, s) \in Nat /\ G[Len(Packed(sections)[s])] = G[0] + MacroSize(sections, s)
  <1>1. PICK q \in Seq(AllLines) : q = Packed(sections)[s]
    BY PackedOpens
  <1>2. PICK n \in Nat : n = Len(q) /\ DOMAIN q = 1 .. n
    BY LenProperties
  <1>3. SubSeq(q, 1, n) = q
    BY <1>2, SubSeqFull
  <1>4. Total(Lengths, q) \in Nat /\ G[n] = G[0] + Total(Lengths, q)
    <2>1. \A k \in 0 .. Len(q) : Total(Lengths, SubSeq(q, 1, k)) \in Nat /\ G[k] = G[0] + Total(Lengths, SubSeq(q, 1, k))
      BY <1>1, FollowExtent
    <2>2. n \in 0 .. Len(q)
      BY <1>2
    <2>. QED
      BY <1>3, <2>1, <2>2
  <1>5. \A i \in DOMAIN q : q[i] \in AllLines /\ Lengths[q[i]] = Sizes[q[i]]
    <2>. SUFFICES ASSUME NEW i \in 1 .. n PROVE q[i] \in AllLines /\ Lengths[q[i]] = Sizes[q[i]]
      BY <1>2
    <2>1. q[i] \in AllLines /\ q[i] \in Range(q)
      BY <1>2, ElementOfSeq DEF Range
    <2>2. Follows(q[i], G[i - 1], G[i], back)
      BY <1>1, <1>2 DEF Follow
    <2>3. Lengths[q[i]] = Size(At(sections, q[i]))
      BY <1>1, <2>1, <2>2 DEF Follows, Lengths
    <2>. QED
      BY <2>1, <2>3, SizesAre
  <1>6. \A l \in AllLines : Sizes[l] \in Nat
    BY SizesAre
  <1>7. Total(Lengths, q) = Total(Sizes, q)
    <2>1. PICK other : other = Lengths
      OBVIOUS
    <2>2. \A i \in DOMAIN q : q[i] \in AllLines /\ other[q[i]] = Sizes[q[i]]
      BY <1>5, <2>1
    <2>3. Total(other, q) = Total(Sizes, q)
      BY <1>6, <2>2, Totals
    <2>. QED
      BY <2>1, <2>3
  <1>8. MacroSize(sections, s) = Total(Sizes, q)
    BY <1>1, MacroWeighs
  <1>. QED
    BY <1>1, <1>2, <1>4, <1>7, <1>8

\* Laid out downwards an image begins where its first line has its place, unless that is padded.
LEMMA BackwardBase ==
    ASSUME Tree, Handed, NEW p \in DOMAIN sections, NEW i \in DOMAIN sections[p].ir,
           sections[p].ir[i].emits, sections[p].ir[i].kind \in Emitting,
           \A l \in Range(Part(p, i)) : At(sections, l).kind # "align",
           NEW c, NEW e, Laid(Turn(p, i, TRUE), c, e, TRUE)
    PROVE  places[<<p, i>>].at \in Nat /\ places[<<p, i>>].at % WordMod = (e + 1) % WordMod
  <1>1. PICK l, r : l = <<p, i>> /\ r = sections[p].ir[i]
    OBVIOUS
  <1>2. /\ At(sections, l) = r /\ c \in Addresses /\ e \in Addresses
        /\ \E m \in Addresses :
              /\ PlacedAt(l, c, m, TRUE)
              /\ r.kind # "macro" => e = m
              /\ r.kind = "macro" => m = c /\ Laid(Walk(sections, TRUE)[r.child], c, e, TRUE)
    BY <1>1, TurnSplit
  <1>3. r.n \in Nat /\ (r.kind = "align" => r.n > 0)
    BY <1>1 DEF Tree, ReadWell
  <1>4. PICK n : n = Bytes(sections, l, c, TRUE)
    OBVIOUS
  <1>5. WordMod \in Nat \ {0} /\ c \in Nat /\ e \in Nat
    BY <1>2, Words0
  <1>6. r.kind # "align"
    <2>. SUFFICES ASSUME r.kind = "align" PROVE FALSE
      OBVIOUS
    <2>1. Part(p, i) = <<l>>
      BY <1>1 DEF Part
    <2>2. l \in Range(Part(p, i))
      BY <2>1 DEF Range
    <2>. QED
      BY <1>2, <2>2
  <1>7. places[l].at = (c + 1 + WordMod - n) % WordMod
    BY <1>2, <1>4, <1>6 DEF PlacedAt, BaseAddress
  <1>8. n \in Nat /\ (e + 1) % WordMod = (c + 1 + WordMod - n) % WordMod
    <2>1. CASE r.kind # "macro"
      <3>1. n \in Nat
        BY <1>2, <1>3, <1>4, <2>1, BytesAre
      <3>2. e = (c + WordMod - n) % WordMod
        BY <1>2, <1>4, <2>1 DEF PlacedAt, Advanced
      <3>3. PICK x \in Nat : x = e + 1
        BY <1>5
      <3>4. (x + n) % WordMod = (c + 1) % WordMod
        BY <1>2, <3>1, <3>2, <3>3, GoneBack
      <3>5. x % WordMod = (c + 1 + WordMod - n) % WordMod
        BY <1>2, <3>1, <3>3, <3>4, GoneBack
      <3>. QED
        BY <3>1, <3>3, <3>5
    <2>2. CASE r.kind = "macro"
      <3>1. n = MacroSize(sections, r.child)
        BY <1>2, <1>4, <2>2 DEF Bytes
      <3>2. r.child \in DOMAIN sections /\ Clear(r.child)
        BY <1>1, <2>2 DEF Tree, ReadWell, Handed
      <3>3. PICK q : q = Packed(sections)[r.child]
        OBVIOUS
      <3>4. Part(p, i) = q
        BY <1>1, <2>2, <3>3 DEF Part
      <3>5. Between(q, c, e, TRUE)
        BY <1>2, <2>2, <3>2, <3>3, SectionBetween
      <3>6. PICK x \in Nat : x = e + 1
        BY <1>5
      <3>7. PICK G : Follow(q, G, TRUE) /\ G[0] = x /\ Stands(G[Len(q)], c, TRUE)
        BY <3>5, <3>6 DEF Between, Spans, Stands
      <3>8. n \in Nat /\ G[Len(q)] = x + n
        <4>1. /\ Follow(Packed(sections)[r.child], G, TRUE)
              /\ \A k \in Range(Packed(sections)[r.child]) : At(sections, k).kind # "align"
          BY <3>3, <3>4, <3>7
        <4>2. /\ MacroSize(sections, r.child) \in Nat
              /\ G[Len(Packed(sections)[r.child])] = G[0] + MacroSize(sections, r.child)
          BY <3>2, <4>1, UnpaddedExtent
        <4>. QED
          BY <3>1, <3>3, <3>7, <4>2
      <3>9. (x + n) % WordMod = (c + 1) % WordMod
        BY <3>7, <3>8 DEF Stands
      <3>10. x % WordMod = (c + 1 + WordMod - n) % WordMod
        BY <1>2, <3>6, <3>8, <3>9, GoneBack
      <3>. QED
        BY <3>6, <3>8, <3>10
    <2>. QED
      BY <2>1, <2>2
  <1>9. (e + 1) % WordMod \in 0 .. WordMod - 1 /\ ((e + 1) % WordMod) % WordMod = (e + 1) % WordMod
    <2>1. PICK x \in Int : x = e + 1
      BY <1>5
    <2>2. x % WordMod \in 0 .. WordMod - 1
      BY <1>5, <2>1, Quotients
    <2>3. PICK y \in 0 .. WordMod - 1 : y = x % WordMod
      BY <2>2
    <2>4. y % WordMod = y
      <3>1. y \in Int /\ y \in 0 .. WordMod - 1
        BY <1>5
      <3>. QED
        BY <1>5, <3>1, Quotients
    <2>. QED
      BY <2>1, <2>3, <2>4
  <1>. QED
    BY <1>1, <1>7, <1>8, <1>9

\* The operating system's image, if it does not begin with padding.
LEMMA BackwardFollows ==
    ASSUME Tree, Handed, NEW p \in DOMAIN sections, NEW a, NEW b, Laid(Walk(sections, TRUE)[p], a, b, TRUE),
           NEW i \in DOMAIN sections[p].ir, i = Min(Emitters(p)), Emitters(p) # {}, sections[p].ir[i].emits,
           \A j \in DOMAIN sections[p].ir : j < i => ~sections[p].ir[j].emits,
           \A j \in DOMAIN sections[p].ir : i <= j => (sections[p].ir[j].emits <=> sections[p].ir[j].kind \in Emitting),
           \A l \in Range(Part(p, i)) : At(sections, l).kind # "align"
    PROVE  \E G : /\ Follow(Packed(sections)[p], G, TRUE) /\ G[0] = BaseOf(p)
                  /\ G[Len(Packed(sections)[p])] % WordMod = (a + 1) % WordMod
  <1>1. PICK n \in Nat : DOMAIN sections[p].ir = 1 .. n
    BY DEF Tree, ReadWell
  <1>2. PICK turns \in Seq(Seq(AllLines)) :
            /\ Len(turns) = n /\ Walk(sections, TRUE)[p] = FlattenSeq(turns)
            /\ \A k \in 1 .. n : turns[k] = Turn(p, Index(n, k, TRUE), TRUE)
    BY <1>1, WalkOpens
  <1>3. PICK M : Legs(turns, n, a, b, TRUE, M)
    BY <1>2, LaidTurns
  <1>4. PICK parts \in Seq(Seq(AllLines)) :
            /\ Len(parts) = n /\ Packed(sections)[p] = FlattenSeq(parts)
            /\ \A j \in 1 .. n : parts[j] = Part(p, j)
    BY <1>1, PackedOpens
  <1>5. PICK z \in 1 .. n : z = (n - i) + 1 /\ (n - z) + 1 = i
    BY <1>1
  <1>6. PICK e : e = M[z]
    OBVIOUS
  <1>7. Laid(Turn(p, i, TRUE), M[z - 1], e, TRUE)
    BY <1>2, <1>3, <1>5, <1>6 DEF Legs, Index
  <1>8. PICK N : N = [k \in 0 .. n |-> IF k <= z THEN M[k] ELSE e]
    OBVIOUS
  <1>9. ASSUME NEW k \in 1 .. n PROVE Between(parts[Index(n, k, TRUE)], N[k - 1], N[k], TRUE)
    <2>1. PICK j \in 1 .. n : j = (n - k) + 1 /\ j = Index(n, k, TRUE)
      BY DEF Index
    <2>2. parts[j] = Part(p, j) /\ j \in DOMAIN sections[p].ir /\ k \in 0 .. n /\ k - 1 \in 0 .. n
      BY <1>1, <1>4
    <2>3. CASE k <= z
      <3>1. i <= j /\ k - 1 <= z
        BY <1>5, <2>1, <2>3
      <3>2. N[k - 1] = M[k - 1] /\ N[k] = M[k]
        BY <1>8, <2>2, <2>3, <3>1
      <3>3. Laid(Turn(p, j, TRUE), M[k - 1], M[k], TRUE)
        BY <1>2, <1>3, <2>1 DEF Legs
      <3>4. sections[p].ir[j].emits <=> sections[p].ir[j].kind \in Emitting
        BY <2>2, <3>1
      <3>5. ASSUME sections[p].ir[j].kind = "macro"
            PROVE  \A u, v : Laid(Walk(sections, TRUE)[sections[p].ir[j].child], u, v, TRUE)
                                => Between(Packed(sections)[sections[p].ir[j].child], u, v, TRUE)
        <4>1. sections[p].ir[j].child \in DOMAIN sections
          BY <2>2, <3>5 DEF Tree, ReadWell
        <4>2. Clear(sections[p].ir[j].child)
          BY <2>2, <3>4, <3>5 DEF Handed, Emitting
        <4>. QED
          BY <4>1, <4>2, SectionBetween
      <3>6. Between(Part(p, j), M[k - 1], M[k], TRUE)
        BY <2>2, <3>3, <3>4, <3>5, TurnBetween
      <3>. QED
        BY <2>1, <2>2, <3>2, <3>6
    <2>4. CASE ~(k <= z)
      <3>1. j < i /\ z <= k - 1
        BY <1>5, <2>1, <2>4
      <3>2. N[k] = e /\ N[k - 1] = e
        BY <1>6, <1>8, <2>2, <2>4, <3>1
      <3>3. Part(p, j) = << >>
        BY <2>2, <3>1 DEF Part
      <3>. QED
        BY <2>1, <2>2, <3>2, <3>3, SpansNothing DEF Between
    <2>. QED
      BY <2>3, <2>4
  <1>10. Between(FlattenSeq(parts), N[0], N[n], TRUE)
    BY <1>4, <1>9, PartsBetween
  <1>11. N[0] = a /\ N[n] = e
    <2>1. N[0] = M[0]
      BY <1>5, <1>8
    <2>2. N[n] = e
      <3>1. n \in 0 .. n /\ (n <= z => n = z)
        BY <1>5
      <3>2. N[n] = IF n <= z THEN M[n] ELSE e
        BY <1>8, <3>1
      <3>. QED
        BY <1>6, <3>1, <3>2
    <2>. QED
      BY <1>3, <2>1, <2>2 DEF Legs
  <1>12. Spans(Packed(sections)[p], e, a, TRUE)
    BY <1>4, <1>10, <1>11 DEF Between
  <1>13. places[<<p, i>>].at \in Nat /\ places[<<p, i>>].at % WordMod = (e + 1) % WordMod
    <2>1. i <= i /\ i \in Nat
      BY <1>1
    <2>2. sections[p].ir[i].kind \in Emitting
      BY <2>1
    <2>. QED
      BY <1>7, <2>2, BackwardBase
  <1>14. BaseOf(p) = places[<<p, i>>].at
    BY DEF BaseOf, Emitters
  <1>15. PICK x \in Nat : x = BaseOf(p) /\ x % WordMod = (e + 1) % WordMod
    BY <1>13, <1>14
  <1>16. Stands(x, e, TRUE)
    BY <1>15 DEF Stands
  <1>17. PICK G : Follow(Packed(sections)[p], G, TRUE) /\ G[0] = x /\ Stands(G[Len(Packed(sections)[p])], a, TRUE)
    BY <1>12, <1>16 DEF Spans
  <1>. QED
    BY <1>15, <1>17 DEF Stands

\* What the checks of the whole program leave: lines that go into the image, and programs
\* with one end and the .BURNs they should have.
Sane ==
    /\ \A s \in DOMAIN sections : \A i \in DOMAIN sections[s].ir :
          sections[s].ir[i].emits <=> sections[s].ir[i].kind \in Emitting /\ ~Burned(s, i)
    /\ \A p \in Programs : Insane(p) = {}

\* The assignment of addresses went through all lines of all programs.
LaidOut == \A p \in Programs : \E b : Laid(Walk(sections, Backward(p))[p], Start(p), b, Backward(p))

\* What is packed.
PackedUp == image = [p \in Programs |-> [at |-> BaseOf(p), lines |-> Packed(sections)[p]]]

\* A program is its own.
Tops == \A s \in DOMAIN sections : sections[s].top \in {OS, User} /\ (sections[s].parent = 0 => sections[s].top = s)

\* What lies below a macro that goes into the image goes into it too.
LEMMA HandedDown ==
    ASSUME Tree, Sane
    PROVE  Handed
  <1>. SUFFICES ASSUME NEW s \in DOMAIN sections, NEW i \in DOMAIN sections[s].ir,
                       sections[s].ir[i].kind = "macro", sections[s].ir[i].emits
                PROVE  Clear(sections[s].ir[i].child)
    BY DEF Handed
  <1>1. PICK c : c = sections[s].ir[i].child
    OBVIOUS
  <1>2. PICK x : x = sections[s].ir[i].source
    OBVIOUS
  <1>3. /\ c \in DOMAIN sections /\ sections[c].parent = s /\ sections[c].line = x /\ x \in Nat /\ s # 0
        /\ sections[c].top = sections[s].top
    BY <1>1, <1>2 DEF Tree, ReadWell, Hangs
  <1>4. ~Burned(s, i)
    BY DEF Sane
  <1>5. ASSUME NEW j \in DOMAIN sections[c].ir PROVE ~Burned(c, j)
    <2>1. PICK y : y = sections[c].ir[j].source
      OBVIOUS
    <2>2. y \in Nat
      BY <1>3, <2>1 DEF Tree, ReadWell
    <2>3. TopLine(sections)[<<c, y>>] = TopLine(sections)[<<s, x>>]
      BY <1>3, <2>2, TopLines
    <2>. QED
      BY <1>2, <1>3, <1>4, <2>1, <2>3 DEF Burned
  <1>. QED
    BY <1>1, <1>3, <1>5 DEF Sane, Clear

\* A user program has no .BURN, and all its lines go into its image.
LEMMA UserForward ==
    ASSUME Tree, Sane, Tops, User \in Programs
    PROVE  Clear(User) /\ ~Backward(User) /\ Start(User) = 0
  <1>1. User \in DOMAIN sections /\ sections[User].top = User
    BY DEF Programs, Tops
  <1>2. \A i : ~Burned(User, i)
    BY <1>1 DEF Burned, OS, User
  <1>3. Clear(User)
    BY <1>1, <1>2 DEF Clear, Sane
  <1>4. Insane(User) = {}
    BY DEF Sane
  <1>5. Sources(User, {"burn"}) = {}
    <2>1. Sources(User, {"burn"}) \subseteq Sources(User, {"burn", "input", "output"})
      BY DEF Sources
    <2>. QED
      BY <1>4, <2>1 DEF Insane, OS, User
  <1>. QED
    BY <1>3, <1>5 DEF Backward, Start

\* An operating system has.
LEMMA SystemBackward ==
    ASSUME Tree, Sane, OS \in Programs
    PROVE  Backward(OS) /\ Start(OS) = sections[OS].ir[CHOOSE i \in DOMAIN sections[OS].ir : sections[OS].ir[i].kind = "burn"].n
  <1>1. Insane(OS) = {}
    BY DEF Sane
  <1>2. Sources(OS, {"burn"}) # {}
    BY <1>1 DEF Insane, OS, User
  <1>. QED
    BY <1>2 DEF Backward, Start

\* Its lines from the first on that goes into the image all do, if they produce bytes.
LEMMA FromThereOn ==
    ASSUME Tree, Sane, Tops, OS \in Programs, NEW i \in DOMAIN sections[OS].ir, sections[OS].ir[i].emits,
           NEW j \in DOMAIN sections[OS].ir, i <= j
    PROVE  sections[OS].ir[j].emits <=> sections[OS].ir[j].kind \in Emitting
  <1>1. OS \in DOMAIN sections /\ sections[OS].parent = 0
    BY DEF Programs
  <1>2. PICK n \in Nat : DOMAIN sections[OS].ir = 1 .. n
    BY <1>1 DEF Tree, ReadWell
  <1>3. PICK x, y : x = sections[OS].ir[i].source /\ y = sections[OS].ir[j].source
    OBVIOUS
  <1>4. x \in Nat /\ y \in Nat
    BY <1>1, <1>3 DEF Tree, ReadWell
  <1>5. x <= y
    <2>1. CASE i = j
      BY <1>3, <1>4, <2>1
    <2>2. CASE i # j
      <3>1. i < j
        BY <1>2, <2>2
      <3>2. x < y
        BY <1>1, <1>3, <3>1 DEF Tree, ReadWell
      <3>. QED
        BY <1>4, <3>2
    <2>. QED
      BY <2>1, <2>2
  <1>6. TopLine(sections)[<<OS, x>>] = x /\ TopLine(sections)[<<OS, y>>] = y
    BY <1>1, <1>4, TopLines
  <1>7. ~Burned(OS, i)
    BY <1>1 DEF Sane
  <1>8. ~Burned(OS, j)
    <2>. SUFFICES ASSUME Burned(OS, j) PROVE FALSE
      OBVIOUS
    <2>1. PICK burns : burns = Sources(OS, {"burn"})
      OBVIOUS
    <2>2. sections[OS].top = OS /\ burns # {} /\ y < Min(burns)
      BY <1>3, <1>6, <2>1 DEF Burned
    <2>3. ~(x < Min(burns))
      BY <1>3, <1>6, <1>7, <2>1, <2>2 DEF Burned
    <2>4. Min(burns) \in Nat
      <3>1. burns \subseteq Nat
        BY <1>1, <2>1 DEF Sources, Tree, ReadWell
      <3>. QED
        BY <2>2, <3>1, Smallest
    <2>. QED
      BY <1>4, <1>5, <2>2, <2>3, <2>4
  <1>. QED
    BY <1>1, <1>8 DEF Sane

-----------------------------------------------------------------------------
\* What is shown of a program's image, in terms of where its lines begin in it.
InPlace(p, back, a) ==
    \E G : /\ Follow(Packed(sections)[p], G, back) /\ G[0] = BaseOf(p)
           /\ IF back THEN G[Len(Packed(sections)[p])] % WordMod = (a + 1) % WordMod ELSE G[0] = 0

\* A user program's image is in its place ...
LEMMA UserInPlace ==
    ASSUME Tree, Sane, Tops, LaidOut, User \in Programs, Packed(sections)[User] # << >>
    PROVE  InPlace(User, FALSE, 0)
  <1>1. Clear(User) /\ Backward(User) = FALSE /\ Start(User) = 0
    BY UserForward DEF Backward
  <1>2. User \in DOMAIN sections
    BY DEF Programs
  <1>3. PICK b : Laid(Walk(sections, FALSE)[User], 0, b, FALSE)
    BY <1>1 DEF LaidOut
  <1>4. PICK i \in DOMAIN sections[User].ir :
            /\ i = Min(Emitters(User)) /\ Emitters(User) # {} /\ sections[User].ir[i].emits
            /\ \A j \in DOMAIN sections[User].ir : j < i => ~sections[User].ir[j].emits
    BY <1>2, FirstEmits
  <1>5. BaseOf(User) = 0 /\ \E G : Follow(Packed(sections)[User], G, FALSE) /\ G[0] = 0
    BY <1>1, <1>2, <1>3, <1>4, HandedDown, ForwardFollows
  <1>. QED
    BY <1>5 DEF InPlace

\* ... and an operating system's.
LEMMA SystemInPlace ==
    ASSUME Tree, Sane, Tops, LaidOut, PackedUp, OS \in Programs, Packed(sections)[OS] # << >>, ~StartsPadded(OS)
    PROVE  InPlace(OS, TRUE, Start(OS))
  <1>1. Backward(OS) = TRUE
    BY SystemBackward DEF Backward
  <1>2. OS \in DOMAIN sections /\ sections[OS].parent = 0
    BY DEF Programs
  <1>3. PICK b : Laid(Walk(sections, TRUE)[OS], Start(OS), b, TRUE)
    BY <1>1 DEF LaidOut
  <1>4. PICK i \in DOMAIN sections[OS].ir :
            /\ i = Min(Emitters(OS)) /\ Emitters(OS) # {} /\ sections[OS].ir[i].emits
            /\ \A j \in DOMAIN sections[OS].ir : j < i => ~sections[OS].ir[j].emits
    BY <1>2, FirstEmits
  <1>5. \A j \in DOMAIN sections[OS].ir : i <= j => (sections[OS].ir[j].emits <=> sections[OS].ir[j].kind \in Emitting)
    BY <1>4, FromThereOn
  <1>6. ASSUME NEW l \in Range(Part(OS, i)), At(sections, l).kind = "align" PROVE FALSE
    <2>1. l \in Range(Packed(sections)[OS])
      BY <1>2, PackedParts
    <2>2. image[OS].lines = Packed(sections)[OS]
      BY DEF PackedUp
    <2>3. TopLine(sections)[<<l[1], At(sections, l).source>>] = sections[OS].ir[i].source
      BY <1>2, ProgramTop DEF Top
    <2>. QED
      BY <1>4, <1>6, <2>1, <2>2, <2>3 DEF StartsPadded
  <1>7. \E G : /\ Follow(Packed(sections)[OS], G, TRUE) /\ G[0] = BaseOf(OS)
               /\ G[Len(Packed(sections)[OS])] % WordMod = (Start(OS) + 1) % WordMod
    BY <1>2, <1>3, <1>4, <1>5, <1>6, HandedDown, BackwardFollows
  <1>. QED
    BY <1>7 DEF InPlace

\* So everything packed is in its place.
LEMMA AllInPlace ==
    ASSUME Tree, Sane, Tops, LaidOut, PackedUp
    PROVE  ImageInPlace
  <1>. SUFFICES ASSUME NEW p \in Programs, image[p].lines # << >>, p = OS => ~StartsPadded(OS)
                PROVE  /\ p = OS => (image[p].at + Extent(p, Len(image[p].lines))) % WordMod
                                        = (sections[OS].ir[CHOOSE i \in DOMAIN sections[OS].ir : sections[OS].ir[i].kind = "burn"].n + 1) % WordMod
                       /\ \A k \in DOMAIN image[p].lines :
                             LET line == At(sections, image[p].lines[k])
                             IN  /\ line.kind # "align" =>
                                       places[image[p].lines[k]].at = (image[p].at + Extent(p, k - 1)) % WordMod
                                 /\ p = User /\ line.kind = "align" => Extent(p, k) % line.n = 0
    BY DEF ImageInPlace
  <1>1. image[p].at = BaseOf(p) /\ image[p].lines = Packed(sections)[p]
    BY DEF PackedUp
  <1>2. p \in {OS, User} /\ p \in DOMAIN sections
    BY DEF Programs, Tops
  <1>3. PICK q \in Seq(AllLines) : q = Packed(sections)[p]
    BY <1>2, PackedOpens
  <1>4. PICK back, a : back \in BOOLEAN /\ InPlace(p, back, a) /\ (back <=> p = OS) /\ (p = OS => a = Start(OS))
    BY <1>1, <1>2, UserInPlace, SystemInPlace DEF OS, User
  <1>5. PICK G : /\ Follow(q, G, back) /\ G[0] = BaseOf(p)
                 /\ IF back THEN G[Len(q)] % WordMod = (a + 1) % WordMod ELSE G[0] = 0
    BY <1>3, <1>4 DEF InPlace
  <1>6. PICK n \in Nat : n = Len(q) /\ DOMAIN q = 1 .. n
    BY <1>3, LenProperties
  <1>7. \A k \in 0 .. n : Extent(p, k) = Total(Lengths, SubSeq(q, 1, k))
    BY <1>1, <1>3 DEF Extent, Lengths
  <1>8. \A k \in 0 .. n : Extent(p, k) \in Nat /\ G[k] = G[0] + Extent(p, k)
    BY <1>5, <1>6, <1>7, FollowExtent
  <1>9. ASSUME p = OS
        PROVE  (image[p].at + Extent(p, Len(image[p].lines))) % WordMod
                  = (sections[OS].ir[CHOOSE i \in DOMAIN sections[OS].ir : sections[OS].ir[i].kind = "burn"].n + 1) % WordMod
    <2>1. Start(OS) = sections[OS].ir[CHOOSE i \in DOMAIN sections[OS].ir : sections[OS].ir[i].kind = "burn"].n
      BY <1>9, SystemBackward
    <2>2. G[n] % WordMod = (a + 1) % WordMod /\ a = Start(OS)
      BY <1>4, <1>5, <1>6, <1>9
    <2>3. G[n] = image[p].at + Extent(p, Len(image[p].lines))
      <3>1. n \in 0 .. n
        OBVIOUS
      <3>. QED
        BY <1>1, <1>3, <1>5, <1>6, <1>8, <3>1
    <2>. QED
      BY <2>1, <2>2, <2>3
  <1>10. ASSUME NEW k \in 1 .. n
         PROVE  LET line == At(sections, q[k])
                IN  /\ line.kind # "align" => places[q[k]].at = (image[p].at + Extent(p, k - 1)) % WordMod
                    /\ p = User /\ line.kind = "align" => Extent(p, k) % line.n = 0
    <2>1. Follows(q[k], G[k - 1], G[k], back)
      BY <1>5, <1>6 DEF Follow
    <2>2. k - 1 \in 0 .. n /\ k \in 0 .. n
      OBVIOUS
    <2>3. G[k - 1] = image[p].at + Extent(p, k - 1)
      BY <1>1, <1>5, <1>8, <2>2
    <2>4. At(sections, q[k]).kind # "align" => places[q[k]].at = (image[p].at + Extent(p, k - 1)) % WordMod
      BY <2>1, <2>3 DEF Follows
    <2>5. ASSUME p = User, At(sections, q[k]).kind = "align" PROVE Extent(p, k) % At(sections, q[k]).n = 0
      <3>1. ~back
        BY <1>4, <2>5 DEF OS, User
      <3>2. G[k] % At(sections, q[k]).n = 0
        BY <2>1, <2>5, <3>1 DEF Follows
      <3>3. G[0] = 0
        BY <1>5, <3>1
      <3>4. G[k] = Extent(p, k)
        BY <1>8, <2>2, <3>3
      <3>. QED
        BY <3>2, <3>4
    <2>. QED
      BY <2>4, <2>5
  <1>. QED
    BY <1>1, <1>3, <1>6, <1>9, <1>10

\* A line is gone through in a walk in the turn of one of the section's lines.
LEMMA WalkTurns ==
    ASSUME Tree, NEW back \in BOOLEAN, NEW s \in DOMAIN sections
    PROVE  \A l : l \in Range(Walk(sections, back)[s]) <=> \E i \in DOMAIN sections[s].ir : l \in Range(Turn(s, i, back))
  <1>1. PICK n \in Nat : DOMAIN sections[s].ir = 1 .. n
    BY DEF Tree, ReadWell
  <1>2. PICK turns \in Seq(Seq(AllLines)) :
            /\ Len(turns) = n /\ Walk(sections, back)[s] = FlattenSeq(turns)
            /\ \A k \in 1 .. n : turns[k] = Turn(s, Index(n, k, back), back)
    BY <1>1, WalkOpens
  <1>3. DOMAIN turns = 1 .. n
    BY <1>2, LenProperties
  <1>4. Range(FlattenSeq(turns)) = UNION {Range(turns[k]) : k \in DOMAIN turns}
    BY <1>2, FlattenedRange
  <1>5. \A k \in 1 .. n : Index(n, k, back) \in 1 .. n /\ Index(n, Index(n, k, back), back) = k
    BY DEF Index
  <1>6. ASSUME NEW l PROVE l \in Range(FlattenSeq(turns)) <=> \E i \in 1 .. n : l \in Range(Turn(s, i, back))
    <2>1. ASSUME NEW k \in 1 .. n, l \in Range(turns[k]) PROVE \E i \in 1 .. n : l \in Range(Turn(s, i, back))
      BY <1>2, <1>5, <2>1
    <2>2. ASSUME NEW i \in 1 .. n, l \in Range(Turn(s, i, back)) PROVE \E k \in 1 .. n : l \in Range(turns[k])
      <3>1. PICK k : k = Index(n, i, back)
        OBVIOUS
      <3>2. k \in 1 .. n /\ turns[k] = Turn(s, i, back)
        BY <1>2, <1>5, <3>1
      <3>. QED
        BY <2>2, <3>2
    <2>. QED
      BY <1>3, <1>4, <2>1, <2>2
  <1>. QED
    BY <1>1, <1>2, <1>6

\* It is that line, or one its macro stands for.
LEMMA TurnRange ==
    ASSUME Tree, NEW back \in BOOLEAN, NEW s \in DOMAIN sections, NEW i \in DOMAIN sections[s].ir
    PROVE  \A l : l \in Range(Turn(s, i, back)) <=>
                    \/ l = <<s, i>>
                    \/ sections[s].ir[i].kind = "macro" /\ l \in Range(Walk(sections, back)[sections[s].ir[i].child])
  <1>1. PICK k, rest : k = <<s, i>> /\ rest = IF sections[s].ir[i].kind = "macro"
                           THEN Walk(sections, back)[sections[s].ir[i].child] ELSE << >>
    OBVIOUS
  <1>2. Turn(s, i, back) = <<k>> \o rest
    BY <1>1 DEF Turn
  <1>3. k \in AllLines
    <2>1. s \in Nat /\ i \in Nat
      BY DEF Tree, ReadWell
    <2>. QED
      BY <1>1, <2>1 DEF AllLines
  <1>4. rest \in Seq(AllLines)
    <2>1. CASE sections[s].ir[i].kind = "macro"
      <3>1. sections[s].ir[i].child \in DOMAIN sections
        BY <2>1 DEF Tree, ReadWell
      <3>. QED
        BY <1>1, <2>1, <3>1, WalkOpens
    <2>2. CASE sections[s].ir[i].kind # "macro"
      BY <1>1, <2>2
    <2>. QED
      BY <2>1, <2>2
  <1>5. <<k>> \in Seq(AllLines) /\ Range(<<k>>) = {k}
    BY <1>3 DEF Range
  <1>6. Range(<<k>> \o rest) = {k} \cup Range(rest)
    <2>1. PICK one \in Seq(AllLines) : one = <<k>>
      BY <1>5
    <2>2. Range(one \o rest) = Range(one) \cup Range(rest)
      BY <1>4, Joined
    <2>. QED
      BY <1>5, <2>1, <2>2
  <1>7. sections[s].ir[i].kind # "macro" => Range(rest) = {}
    BY <1>1 DEF Range
  <1>. QED
    BY <1>1, <1>2, <1>6, <1>7

\* A walk through section c comes to lines of section x.
ComesTo(c, x, back) == \E i : <<x, i>> \in Range(Walk(sections, back)[c])

\* Section x lies in c, as part of its program, and c's walk comes to the section around x too.
LiesIn(c, x, back) ==
    /\ x \in DOMAIN sections /\ c <= x /\ sections[x].top = sections[c].top
    /\ x = c \/ (sections[x].parent # 0 /\ ComesTo(c, sections[x].parent, back))

\* A walk stays in the sections below the one it begins with.
LEMMA WalkStays ==
    ASSUME Tree, NEW back \in BOOLEAN
    PROVE  \A c \in DOMAIN sections : \A x : ComesTo(c, x, back) => LiesIn(c, x, back)
  <1>. DEFINE X == {c \in DOMAIN sections : \A x : ComesTo(c, x, back) => LiesIn(c, x, back)}
  <1>1. PICK m \in Nat : DOMAIN sections = 1 .. m
    BY DEF Tree
  <1>2. ASSUME NEW s \in 1 .. m, \A c \in 1 .. m : s < c => c \in X PROVE s \in X
    <2>. SUFFICES ASSUME NEW x, ComesTo(s, x, back) PROVE LiesIn(s, x, back)
      BY <1>1
    <2>1. PICK j : <<x, j>> \in Range(Walk(sections, back)[s])
      BY DEF ComesTo
    <2>2. s \in DOMAIN sections
      BY <1>1
    <2>3. PICK i \in DOMAIN sections[s].ir : <<x, j>> \in Range(Turn(s, i, back))
      BY <2>1, <2>2, WalkTurns
    <2>4. CASE <<x, j>> = <<s, i>>
      <3>1. x = s
        BY <2>4
      <3>. QED
        BY <1>1, <2>2, <3>1 DEF LiesIn
    <2>5. CASE <<x, j>> # <<s, i>>
      <3>1. PICK c : c = sections[s].ir[i].child
        OBVIOUS
      <3>2. sections[s].ir[i].kind = "macro" /\ <<x, j>> \in Range(Walk(sections, back)[c])
        BY <2>2, <2>3, <2>5, <3>1, TurnRange
      <3>3. c \in 1 .. m /\ s < c /\ sections[c].parent = s /\ s # 0 /\ sections[c].top = sections[s].top
        BY <1>1, <2>2, <3>1, <3>2 DEF Tree, ReadWell, Hangs
      <3>4. LiesIn(c, x, back)
        BY <1>2, <3>2, <3>3 DEF ComesTo
      <3>5. \A l \in Range(Walk(sections, back)[c]) : l \in Range(Walk(sections, back)[s])
        BY <2>2, <3>1, <3>2, TurnRange, WalkTurns
      <3>6. ComesTo(s, s, back)
        <4>1. <<s, i>> \in Range(Walk(sections, back)[s])
          BY <2>2, TurnRange, WalkTurns
        <4>. QED
          BY <4>1 DEF ComesTo
      <3>7. \A y : ComesTo(c, y, back) => ComesTo(s, y, back)
        BY <3>5 DEF ComesTo
      <3>8. x \in 1 .. m /\ s <= x
        BY <1>1, <3>3, <3>4 DEF LiesIn
      <3>. QED
        BY <1>1, <3>3, <3>4, <3>6, <3>7, <3>8 DEF LiesIn
    <2>. QED
      BY <2>4, <2>5
  <1>3. 1 .. m \subseteq X
    <2>. HIDE DEF X
    <2>. QED
      BY <1>2, Downwards, Zenon
  <1>. QED
    BY <1>1, <1>3

\* It lies in one of the sections below a section only.
LEMMA LiesInOne ==
    ASSUME Tree, NEW back \in BOOLEAN, NEW c \in DOMAIN sections, NEW d \in DOMAIN sections,
           sections[c].parent # 0, sections[c].parent = sections[d].parent
    PROVE  \A x : ComesTo(c, x, back) /\ ComesTo(d, x, back) => c = d
  <1>1. PICK m \in Nat : DOMAIN sections = 1 .. m
    BY DEF Tree
  <1>2. PICK a : a = sections[c].parent /\ a = sections[d].parent
    OBVIOUS
  <1>3. a \in 1 .. m /\ a < c /\ a < d /\ c \in 1 .. m /\ d \in 1 .. m
    BY <1>1, <1>2 DEF Tree, Hangs
  <1>. DEFINE G == {k \in 0 .. m : \A y \in 1 .. k : ComesTo(c, y, back) /\ ComesTo(d, y, back) => c = d}
  <1>4. 0 \in G
    OBVIOUS
  <1>5. ASSUME NEW k \in 1 .. m, k - 1 \in G PROVE k \in G
    <2>1. ASSUME ComesTo(c, k, back), ComesTo(d, k, back), c # d PROVE FALSE
      <3>1. LiesIn(c, k, back) /\ LiesIn(d, k, back)
        BY <2>1, WalkStays
      <3>2. ~ComesTo(c, a, back) /\ ~ComesTo(d, a, back)
        <4>1. ~(c <= a) /\ ~(d <= a)
          BY <1>3
        <4>. QED
          BY <4>1, WalkStays DEF LiesIn
      <3>3. k # c /\ k # d
        BY <1>2, <2>1, <3>1, <3>2 DEF LiesIn
      <3>4. PICK z : z = sections[k].parent
        OBVIOUS
      <3>5. z # 0 /\ ComesTo(c, z, back) /\ ComesTo(d, z, back)
        BY <3>1, <3>3, <3>4 DEF LiesIn
      <3>6. z \in 1 .. (k - 1)
        <4>1. z \in 1 .. m /\ z < k
          BY <1>1, <3>4, <3>5 DEF Tree, Hangs
        <4>. QED
          BY <4>1
      <3>. QED
        BY <1>5, <2>1, <3>5, <3>6
    <2>2. \A y \in 1 .. k : y = k \/ y \in 1 .. (k - 1)
      OBVIOUS
    <2>. QED
      BY <1>5, <2>1, <2>2
  <1>6. 0 .. m \subseteq G
    <2>. HIDE DEF G
    <2>. QED
      BY <1>4, <1>5, Upwards, Zenon
  <1>7. m \in G
    <2>. HIDE DEF G
    <2>. QED
      BY <1>6
  <1>8. ASSUME NEW x, ComesTo(c, x, back), ComesTo(d, x, back) PROVE c = d
    <2>1. x \in 1 .. m
      BY <1>1, <1>8, WalkStays DEF LiesIn
    <2>. QED
      BY <1>7, <1>8, <2>1
  <1>. QED
    BY <1>8

\* A walk comes to no line twice.
LEMMA WalkApartStep ==
    ASSUME Tree, NEW back \in BOOLEAN, NEW s \in DOMAIN sections,
           \A c \in DOMAIN sections : s < c => Apart(Walk(sections, back)[c])
    PROVE  Apart(Walk(sections, back)[s])
  <1>1. PICK n \in Nat : DOMAIN sections[s].ir = 1 .. n
    BY DEF Tree, ReadWell
  <1>2. PICK turns \in Seq(Seq(AllLines)) :
            /\ Len(turns) = n /\ Walk(sections, back)[s] = FlattenSeq(turns)
            /\ \A k \in 1 .. n : turns[k] = Turn(s, Index(n, k, back), back)
    BY <1>1, WalkOpens
  <1>3. DOMAIN turns = 1 .. n /\ \A k \in 1 .. n : turns[k] \in Seq(AllLines)
    BY <1>2, LenProperties, ElementOfSeq
  <1>4. \A k \in 1 .. n : Index(n, k, back) \in 1 .. n /\ Index(n, Index(n, k, back), back) = k
    BY DEF Index
  <1>5. ASSUME NEW i \in 1 .. n, NEW l, l \in Range(Turn(s, i, back)), l # <<s, i>>
        PROVE  \E c \in DOMAIN sections : /\ c = sections[s].ir[i].child /\ s < c /\ sections[c].parent = s
                                          /\ sections[c].line = sections[s].ir[i].source /\ l \in Range(Walk(sections, back)[c])
                                          /\ sections[s].ir[i].kind = "macro"
    <2>1. i \in DOMAIN sections[s].ir
      BY <1>1
    <2>2. sections[s].ir[i].kind = "macro" /\ l \in Range(Walk(sections, back)[sections[s].ir[i].child])
      BY <1>5, <2>1, TurnRange
    <2>3. PICK c : c = sections[s].ir[i].child
      OBVIOUS
    <2>4. c \in DOMAIN sections /\ s < c /\ sections[c].parent = s /\ sections[c].line = sections[s].ir[i].source
      BY <2>1, <2>2, <2>3 DEF Tree, ReadWell
    <2>. QED
      BY <2>2, <2>3, <2>4
  <1>6. ASSUME NEW c \in DOMAIN sections, NEW l, l \in Range(Walk(sections, back)[c])
        PROVE  ComesTo(c, l[1], back) /\ c <= l[1]
    <2>1. l \in AllLines
      <3>1. Walk(sections, back)[c] \in Seq(AllLines)
        BY WalkOpens
      <3>. QED
        BY <1>6, <3>1, Sequences, ElementOfSeq DEF Range
    <2>2. l = <<l[1], l[2]>>
      BY <2>1 DEF AllLines
    <2>3. ComesTo(c, l[1], back)
      BY <1>6, <2>2 DEF ComesTo
    <2>. QED
      BY <2>3, WalkStays DEF LiesIn
  <1>7. s # 0 /\ s \in Nat /\ \A c \in DOMAIN sections : c \in Nat
    BY DEF Tree
  <1>8. ASSUME NEW i \in 1 .. n, NEW j \in 1 .. n, NEW l, l \in Range(Turn(s, i, back)), l \in Range(Turn(s, j, back))
        PROVE  i = j
    <2>1. CASE l = <<s, i>> \/ l = <<s, j>>
      <3>1. l[1] = s
        BY <2>1
      <3>2. l = <<s, i>>
        <4>. SUFFICES ASSUME l # <<s, i>> PROVE FALSE
          OBVIOUS
        <4>1. PICK c \in DOMAIN sections : s < c /\ l \in Range(Walk(sections, back)[c])
          BY <1>5, <1>8
        <4>2. c <= s
          BY <1>6, <3>1, <4>1
        <4>. QED
          BY <1>7, <4>1, <4>2
      <3>3. l = <<s, j>>
        <4>. SUFFICES ASSUME l # <<s, j>> PROVE FALSE
          OBVIOUS
        <4>1. PICK c \in DOMAIN sections : s < c /\ l \in Range(Walk(sections, back)[c])
          BY <1>5, <1>8
        <4>2. c <= s
          BY <1>6, <3>1, <4>1
        <4>. QED
          BY <1>7, <4>1, <4>2
      <3>. QED
        BY <3>2, <3>3
    <2>2. CASE l # <<s, i>> /\ l # <<s, j>>
      <3>1. PICK c \in DOMAIN sections : /\ sections[c].parent = s /\ sections[c].line = sections[s].ir[i].source
                                         /\ l \in Range(Walk(sections, back)[c])
        BY <1>5, <1>8, <2>2
      <3>2. PICK d \in DOMAIN sections : /\ sections[d].parent = s /\ sections[d].line = sections[s].ir[j].source
                                         /\ l \in Range(Walk(sections, back)[d])
        BY <1>5, <1>8, <2>2
      <3>3. c = d
        BY <1>6, <1>7, <3>1, <3>2, LiesInOne
      <3>4. PICK x, y : x = sections[s].ir[i].source /\ y = sections[s].ir[j].source
        OBVIOUS
      <3>5. x = y /\ x \in Nat /\ (i < j => x < y) /\ (j < i => y < x)
        BY <1>1, <3>1, <3>2, <3>3, <3>4 DEF Tree, ReadWell
      <3>. QED
        BY <3>5
    <2>. QED
      BY <2>1, <2>2
  <1>9. ASSUME NEW i \in 1 .. n PROVE Apart(Turn(s, i, back))
    <2>1. PICK k, rest : k = <<s, i>> /\ rest = IF sections[s].ir[i].kind = "macro"
                             THEN Walk(sections, back)[sections[s].ir[i].child] ELSE << >>
      OBVIOUS
    <2>2. k \in AllLines /\ k[1] = s
      BY <1>1, <1>7, <2>1 DEF AllLines
    <2>3. rest \in Seq(AllLines) /\ Apart(rest) /\ k \notin Range(rest)
      <3>1. CASE sections[s].ir[i].kind = "macro"
        <4>1. PICK c : c = sections[s].ir[i].child
          OBVIOUS
        <4>2. c \in DOMAIN sections /\ s < c
          BY <1>1, <3>1, <4>1 DEF Tree, ReadWell
        <4>3. ~(c <= s)
          BY <1>7, <4>2
        <4>. QED
          BY <1>6, <2>1, <2>2, <3>1, <4>1, <4>2, <4>3, WalkOpens
      <3>2. CASE sections[s].ir[i].kind # "macro"
        BY <2>1, <3>2 DEF Apart, Range
      <3>. QED
        BY <3>1, <3>2
    <2>4. PICK one \in Seq(AllLines) : one = <<k>>
      <3>1. <<k>> \in Seq(AllLines)
        BY <2>2
      <3>. QED
        BY <3>1
    <2>5. Apart(one) /\ Range(one) = {k}
      BY <2>4 DEF Apart, Range
    <2>6. Apart(one \o rest)
      BY <2>3, <2>5, ApartJoined
    <2>. QED
      BY <2>1, <2>4, <2>6 DEF Turn
  <1>10. PICK w \in Seq(AllLines) : w = FlattenSeq(turns)
    BY <1>2, Flattened
  <1>11. PICK pos : Placing(w, turns, pos)
    BY <1>2, <1>10, FlattenedPlaces
  <1>12. DOMAIN w = 1 .. Len(w)
    BY LenProperties
  <1>13. ASSUME NEW k \in 1 .. Len(w), NEW l \in 1 .. Len(w), w[k] = w[l] PROVE k = l
    <2>1. PICK i, a, j, b : i = pos[k][1] /\ a = pos[k][2] /\ j = pos[l][1] /\ b = pos[l][2]
      OBVIOUS
    <2>2. /\ i \in 1 .. n /\ j \in 1 .. n /\ a \in DOMAIN turns[i] /\ b \in DOMAIN turns[j]
          /\ w[k] = turns[i][a] /\ w[l] = turns[j][b] /\ pos[k] = <<i, a>> /\ pos[l] = <<j, b>>
      <3>1. \A q \in Nat \X Nat : q = <<q[1], q[2]>>
        OBVIOUS
      <3>2. /\ pos[k] \in Nat \X Nat /\ i \in DOMAIN turns /\ a \in DOMAIN turns[i] /\ w[k] = turns[i][a]
        BY <1>11, <2>1 DEF Placing
      <3>3. /\ pos[l] \in Nat \X Nat /\ j \in DOMAIN turns /\ b \in DOMAIN turns[j] /\ w[l] = turns[j][b]
        BY <1>11, <2>1 DEF Placing
      <3>4. pos[k] = <<i, a>> /\ pos[l] = <<j, b>>
        BY <2>1, <3>1, <3>2, <3>3
      <3>. QED
        BY <1>3, <3>2, <3>3, <3>4
    <2>3. PICK x, y : x = Index(n, i, back) /\ y = Index(n, j, back)
      OBVIOUS
    <2>4. turns[i] = Turn(s, x, back) /\ turns[j] = Turn(s, y, back) /\ x \in 1 .. n /\ y \in 1 .. n
      BY <1>2, <1>4, <2>2, <2>3
    <2>5. w[k] \in Range(Turn(s, x, back)) /\ w[k] \in Range(Turn(s, y, back))
      BY <1>13, <2>2, <2>4 DEF Range
    <2>6. x = y
      BY <1>8, <2>4, <2>5
    <2>7. i = j
      BY <1>4, <2>2, <2>3, <2>6
    <2>8. a = b
      <3>1. Apart(turns[i])
        BY <1>9, <2>4
      <3>2. turns[i][a] = turns[i][b] /\ a \in DOMAIN turns[i] /\ b \in DOMAIN turns[i]
        BY <1>13, <2>2, <2>7
      <3>. QED
        BY <3>1, <3>2 DEF Apart
    <2>. QED
      <3>1. pos[k] = pos[l]
        BY <2>2, <2>7, <2>8
      <3>. QED
        BY <1>11, <3>1 DEF Placing
  <1>14. Apart(w)
    BY <1>12, <1>13 DEF Apart
  <1>. QED
    BY <1>2, <1>10, <1>14

\* A walk comes to a line once.
LEMMA WalkApart ==
    ASSUME Tree, NEW back \in BOOLEAN
    PROVE  \A s \in DOMAIN sections : Apart(Walk(sections, back)[s])
  <1>. DEFINE X == {s \in DOMAIN sections : Apart(Walk(sections, back)[s])}
  <1>1. PICK m \in Nat : DOMAIN sections = 1 .. m
    BY DEF Tree
  <1>2. ASSUME NEW s \in 1 .. m, \A c \in 1 .. m : s < c => c \in X PROVE s \in X
    BY <1>1, <1>2, WalkApartStep
  <1>3. 1 .. m \subseteq X
    <2>. HIDE DEF X
    <2>. QED
      BY <1>2, Downwards, Zenon
  <1>. QED
    BY <1>1, <1>3

\* Assignment begins at an address.
LEMMA StartIs ==
    ASSUME Tree, NEW p \in DOMAIN sections
    PROVE  Start(p) \in Addresses
  <1>1. WordMod \in Nat \ {0} /\ Addresses = 0 .. WordMod - 1
    BY Words0
  <1>2. CASE Backward(p)
    <2>1. \E i \in DOMAIN sections[p].ir : sections[p].ir[i].kind = "burn"
      BY <1>2 DEF Backward, Sources
    <2>2. PICK i : i = CHOOSE j \in DOMAIN sections[p].ir : sections[p].ir[j].kind = "burn"
      OBVIOUS
    <2>3. i \in DOMAIN sections[p].ir /\ sections[p].ir[i].kind = "burn"
      BY <2>1, <2>2
    <2>4. sections[p].ir[i].n \in Nat /\ sections[p].ir[i].n < WordMod
      BY <2>3 DEF Tree, ReadWell
    <2>5. Start(p) = sections[p].ir[i].n
      BY <1>2, <2>2 DEF Start
    <2>. QED
      BY <1>1, <2>4, <2>5
  <1>3. CASE ~Backward(p)
    BY <1>1, <1>3 DEF Start
  <1>. QED
    BY <1>2, <1>3

\* A line of program p is reached once, at a, and the next one at b.
Moves(p, l, a, b) ==
    /\ \E r \in Reached(p) : r.line = l
    /\ \A r \in Reached(p) : r.line = l => r.from = a /\ r.back = Backward(p)
    /\ IF At(sections, l).kind = "macro" THEN b = a
       ELSE ~Overflows(a, Bytes(sections, l, a, Backward(p)), Backward(p))
            /\ b = Advanced(a, Bytes(sections, l, a, Backward(p)), Backward(p))

\* From an address the next line is at an address.
LEMMA AdvancedIs ==
    ASSUME NEW a \in Addresses, NEW n \in Nat, NEW back, ~Overflows(a, n, back)
    PROVE  Advanced(a, n, back) \in Addresses
  <1>1. WordMod \in Nat \ {0} /\ Addresses = 0 .. WordMod - 1 /\ a \in Nat
    BY Words0
  <1>2. CASE back
    <2>1. PICK x \in Int : x = a + WordMod - n
      BY <1>1
    <2>2. x % WordMod \in 0 .. WordMod - 1
      BY <1>1, <2>1, Quotients
    <2>. QED
      BY <1>1, <1>2, <2>1, <2>2 DEF Advanced
  <1>3. CASE ~back
    BY <1>1, <1>3 DEF Advanced, Overflows
  <1>. QED
    BY <1>2, <1>3

\* The cursor moves from line to line as they are laid.
LEMMA CursorLays ==
    ASSUME Tree, NEW p \in DOMAIN sections, NoneFails(p), NEW walk \in Seq(AllLines), walk = Walk(sections, Backward(p))[p]
    PROVE  \E F \in [0 .. Len(walk) -> Addresses] :
              F[0] = Start(p) /\ \A k \in 1 .. Len(walk) : Moves(p, walk[k], F[k - 1], F[k])
  <1>1. PICK n \in Nat : n = Len(walk) /\ DOMAIN walk = 1 .. n
    BY LenProperties
  <1>2. PICK C : C = [k \in 0 .. n |-> Cursor(p, SubSeq(walk, 1, k))]
    OBVIOUS
  <1>3. PICK back \in BOOLEAN : back = Backward(p)
    BY DEF Backward
  <1>4. C[0] = <<Start(p), {}>>
    <2>1. PICK x : x = SubSeq(walk, 1, 0)
      OBVIOUS
    <2>2. DOMAIN x = 1 .. 0 /\ 0 \in Nat
      BY <1>1, <2>1
    <2>3. PICK F : CursorRuns(p, x, 0, F)
      BY <2>2, CursorSteps
    <2>4. Cursor(p, x) = <<Start(p), {}>>
      BY <2>3 DEF CursorRuns
    <2>5. C[0] = Cursor(p, SubSeq(walk, 1, 0))
      BY <1>1, <1>2
    <2>. QED
      BY <2>1, <2>4, <2>5
  <1>5. \A k \in 1 .. n : C[k] = Step(walk[k], back, C[k - 1][1], C[k - 1][2])
    <2>. SUFFICES ASSUME NEW k \in 1 .. n PROVE C[k] = Step(walk[k], back, C[k - 1][1], C[k - 1][2])
      OBVIOUS
    <2>1. C[k] = Cursor(p, SubSeq(walk, 1, k)) /\ C[k - 1] = Cursor(p, SubSeq(walk, 1, k - 1))
      BY <1>1, <1>2
    <2>2. Cursor(p, SubSeq(walk, 1, k)) =
               Step(walk[k], Backward(p), Cursor(p, SubSeq(walk, 1, k - 1))[1], Cursor(p, SubSeq(walk, 1, k - 1))[2])
      BY <1>1, CursorNext
    <2>. QED
      BY <1>3, <2>1, <2>2
  <1>6. Reached(p) = {[line |-> walk[k], from |-> C[k - 1][1], back |-> back] :
                         k \in {k \in 1 .. n : Enclosing(sections)[walk[k][1]] \cap C[k - 1][2] = {}}}
    <2>1. \A k \in 1 .. n : C[k - 1] = Cursor(p, SubSeq(walk, 1, k - 1))
      BY <1>1, <1>2
    <2>2. Reached(p) = {[line |-> walk[k], from |-> Cursor(p, SubSeq(walk, 1, k - 1))[1], back |-> back] :
                         k \in {k \in 1 .. n : Enclosing(sections)[walk[k][1]] \cap Cursor(p, SubSeq(walk, 1, k - 1))[2] = {}}}
      BY <1>1, <1>3 DEF Reached
    <2>. QED
      BY <2>1, <2>2
  <1>. DEFINE r(k) == [line |-> walk[k], from |-> C[k - 1][1], back |-> back]
              E == {k \in 0 .. n : C[k] = <<C[k][1], {}>> /\ C[k][1] \in Addresses}
              Next1(k, a) == IF At(sections, walk[k]).kind = "macro" THEN C[k] = <<a, {}>>
                             ELSE ~Overflows(a, Bytes(sections, walk[k], a, back), back)
                                  /\ C[k] = <<Advanced(a, Bytes(sections, walk[k], a, back), back), {}>>
  <1>7. 0 \in E
    BY <1>1, <1>4, StartIs
  <1>8. ASSUME NEW k \in 1 .. n, k - 1 \in E
        PROVE  r(k) \in Reached(p) /\ Next1(k, C[k - 1][1])
    <2>1. C[k - 1][2] = {}
      BY <1>8
    <2>2. r(k) \in Reached(p)
      BY <1>6, <2>1
    <2>3. ~Fails(walk[k], C[k - 1][1], back)
      BY <2>2 DEF NoneFails
    <2>4. C[k] = Step(walk[k], back, C[k - 1][1], {})
      BY <1>5, <2>1
    <2>5. Next1(k, C[k - 1][1])
      BY <2>3, <2>4 DEF Step, Fails
    <2>. QED
      BY <2>2, <2>5
  <1>9. ASSUME NEW k \in 1 .. n, k - 1 \in E PROVE k \in E
    <2>1. PICK a \in Addresses : a = C[k - 1][1]
      BY <1>9
    <2>2. Next1(k, a)
      BY <1>8, <1>9, <2>1
    <2>3. CASE At(sections, walk[k]).kind = "macro"
      BY <2>1, <2>2, <2>3
    <2>4. CASE At(sections, walk[k]).kind # "macro"
      <3>1. PICK b : b = Bytes(sections, walk[k], a, back)
        OBVIOUS
      <3>2. b \in Nat
        <4>1. walk[k] \in AllLines
          BY <1>1, ElementOfSeq
        <4>2. At(sections, walk[k]).n \in Nat /\ (At(sections, walk[k]).kind = "align" => At(sections, walk[k]).n > 0)
          BY <4>1 DEF AllLines, At, Tree, ReadWell
        <4>. QED
          BY <2>4, <3>1, <4>2, BytesAre
      <3>3. ~Overflows(a, b, back) /\ C[k] = <<Advanced(a, b, back), {}>>
        BY <2>2, <2>4, <3>1
      <3>4. Advanced(a, b, back) \in Addresses
        BY <3>2, <3>3, AdvancedIs
      <3>. QED
        BY <3>3, <3>4
    <2>. QED
      BY <2>3, <2>4
  <1>10. 0 .. n \subseteq E
    <2>. HIDE DEF E
    <2>. QED
      BY <1>7, <1>9, Upwards, Zenon
  <1>. DEFINE F == [k \in 0 .. n |-> C[k][1]]
  <1>11. F \in [0 .. n -> Addresses] /\ F[0] = Start(p)
    BY <1>4, <1>10
  <1>12. Apart(walk)
    BY <1>3, WalkApart
  <1>13. ASSUME NEW k \in 1 .. n PROVE Moves(p, walk[k], F[k - 1], F[k])
    <2>1. k - 1 \in E /\ k - 1 \in 0 .. n /\ k \in 0 .. n
      <3>1. k - 1 \in 0 .. n /\ k \in 0 .. n
        OBVIOUS
      <3>. HIDE DEF E
      <3>. QED
        BY <1>10, <3>1
    <2>2. r(k) \in Reached(p) /\ Next1(k, C[k - 1][1])
      BY <1>8, <2>1
    <2>3. F[k] = C[k][1] /\ F[k - 1] = C[k - 1][1]
      BY <2>1
    <2>4. ASSUME NEW s \in Reached(p), s.line = walk[k] PROVE s.from = C[k - 1][1] /\ s.back = Backward(p)
      <3>1. PICK j \in 1 .. n : s = r(j)
        BY <1>6
      <3>2. walk[j] = walk[k]
        BY <2>4, <3>1
      <3>3. j = k
        BY <1>1, <1>12, <3>2 DEF Apart
      <3>. QED
        BY <1>3, <3>1, <3>3
    <2>5. r(k).line = walk[k]
      OBVIOUS
    <2>. HIDE DEF r, F, E
    <2>6. IF At(sections, walk[k]).kind = "macro" THEN F[k] = F[k - 1]
          ELSE ~Overflows(F[k - 1], Bytes(sections, walk[k], F[k - 1], back), back)
               /\ F[k] = Advanced(F[k - 1], Bytes(sections, walk[k], F[k - 1], back), back)
      BY <2>2, <2>3
    <2>. QED
      BY <1>3, <2>2, <2>3, <2>4, <2>5, <2>6 DEF Moves
  <1>. HIDE DEF F
  <1>. QED
    BY <1>1, <1>11, <1>13

\* What is reached of a program belongs to it.
LEMMA ReachedOwn ==
    ASSUME Tree, Tops, NEW p \in Programs, NEW r \in Reached(p)
    PROVE  sections[r.line[1]].top = p
  <1>1. p \in DOMAIN sections /\ sections[p].top = p
    BY DEF Programs, Tops
  <1>2. PICK back \in BOOLEAN : back = Backward(p)
    BY DEF Backward
  <1>3. PICK walk \in Seq(AllLines) : walk = Walk(sections, back)[p]
    BY <1>1, WalkOpens
  <1>4. PICK k \in DOMAIN walk : r.line = walk[k]
    BY <1>2, <1>3 DEF Reached
  <1>5. walk[k] \in AllLines /\ walk[k] \in Range(walk)
    BY Sequences, ElementOfSeq DEF Range
  <1>6. walk[k] = <<walk[k][1], walk[k][2]>>
    BY <1>5 DEF AllLines
  <1>7. ComesTo(p, walk[k][1], back)
    BY <1>3, <1>5, <1>6 DEF ComesTo
  <1>. QED
    BY <1>1, <1>4, <1>7, WalkStays DEF LiesIn

\* Addresses that are assigned without an error are assigned to all lines one after the other.
LEMMA AssignedLaid ==
    ASSUME Tree, Tops, AssignAddresses, \A p \in Programs : NoneFails(p)
    PROVE  LaidOut'
  <1>. DEFINE reached == UNION {Reached(p) : p \in Programs}
              Place(r) == [at |-> BaseAddress(sections, r.line, r.from, r.back),
                           n |-> Bytes(sections, r.line, r.from, r.back)]
  <1>1. places' = [l \in {r.line : r \in reached} |-> Place(CHOOSE r \in reached : r.line = l)] /\ sections' = sections
    BY DEF AssignAddresses
  <1>2. Programs' = Programs /\ \A p : Backward(p)' = Backward(p) /\ Start(p)' = Start(p)
    BY <1>1 DEF Programs, Backward, Start, Sources
  <1>. SUFFICES ASSUME NEW p \in Programs
                PROVE  \E b : Laid(Walk(sections, Backward(p))[p], Start(p), b, Backward(p))'
    BY <1>1, <1>2 DEF LaidOut
  <1>3. p \in DOMAIN sections
    BY DEF Programs
  <1>4. PICK back \in BOOLEAN : back = Backward(p)
    BY DEF Backward
  <1>5. PICK walk \in Seq(AllLines) : walk = Walk(sections, back)[p]
    BY <1>3, WalkOpens
  <1>6. PICK n \in Nat : n = Len(walk) /\ DOMAIN walk = 1 .. n
    BY LenProperties
  <1>7. PICK F \in [0 .. n -> Addresses] :
            F[0] = Start(p) /\ \A k \in 1 .. n : Moves(p, walk[k], F[k - 1], F[k])
    BY <1>3, <1>4, <1>5, <1>6, CursorLays
  <1>8. ASSUME NEW k \in 1 .. n PROVE PlacedAt(walk[k], F[k - 1], F[k], back)'
    <2>. PICK l, a, b : l = walk[k] /\ a = F[k - 1] /\ b = F[k]
      OBVIOUS
    <2>1. Moves(p, l, a, b)
      BY <1>7
    <2>2. PICK q \in Reached(p) : q.line = l
      BY <2>1 DEF Moves
    <2>3. q \in reached
      OBVIOUS
    <2>4. ASSUME NEW r \in reached, r.line = l PROVE r.from = a /\ r.back = back
      <3>1. PICK o \in Programs : r \in Reached(o)
        OBVIOUS
      <3>2. o = p
        BY <2>2, <2>4, <3>1, ReachedOwn
      <3>. QED
        BY <1>4, <2>1, <2>4, <3>1, <3>2 DEF Moves
    <2>5. PICK r : r = CHOOSE t \in reached : t.line = l
      OBVIOUS
    <2>6. r \in reached /\ r.line = l
      BY <2>2, <2>3, <2>5
    <2>7. Place(r) = [at |-> BaseAddress(sections, l, a, back), n |-> Bytes(sections, l, a, back)]
      BY <2>4, <2>6
    <2>. HIDE DEF reached, Place
    <2>8. l \in DOMAIN places' /\ places'[l] = [at |-> BaseAddress(sections, l, a, back), n |-> Bytes(sections, l, a, back)]
      BY <1>1, <2>5, <2>6, <2>7
    <2>9. IF At(sections, l).kind = "macro" THEN b = a
          ELSE ~Overflows(a, Bytes(sections, l, a, back), back) /\ b = Advanced(a, Bytes(sections, l, a, back), back)
      BY <1>4, <2>1 DEF Moves
    <2>. QED
      BY <1>1, <2>8, <2>9 DEF PlacedAt
  <1>9. Laid(walk, Start(p), F[n], back)'
    BY <1>6, <1>7, <1>8, <1>1, <1>2 DEF Laid
  <1>. QED
    BY <1>1, <1>2, <1>4, <1>5, <1>9

-----------------------------------------------------------------------------
(* The invariant, and how the steps of the driver keep it.                            *)

\* The parser leaves a section's lines well read ...
WellRead == \A s \in DOMAIN sections :
    /\ ReadWell(s)
    /\ \A i \in DOMAIN sections[s].ir : {"kind", "n", "source", "child", "emits"} \subseteq DOMAIN sections[s].ir[i]

\* ... and whether they go into the image is as they say, until the program is checked.
Unchecked == \A s \in DOMAIN sections : \A i \in DOMAIN sections[s].ir :
    sections[s].ir[i].emits <=> sections[s].ir[i].kind \in Emitting
\* The driver has its program still to check.
ToBeChecked == Open \/ queue[4] # << >> \/ (phase = "os" /\ User \in Programs)

\* An image is assembled, after everything has been checked.
Assembled == queue[6] # << >> \/ image # << >>

\* The inductive invariant.
ImageInv ==
    /\ WellRead
    /\ ToBeChecked => Unchecked
    /\ queue[5] # << >> /\ ~failed => Sane
    /\ Assembled => Done /\ (phase = "os" => User \notin Programs) /\ (~failed => Sane /\ LaidOut)
    /\ image # << >> /\ ~failed => PackedUp

\* With what is known of the texts, the sections are a tree.
LEMMA TreeIs ==
    ASSUME AsmInv, TreeInv, WellRead
    PROVE  Tree /\ Tops
  <1>1. DOMAIN sections = 1 .. Len(sections) /\ Len(sections) \in Nat
    BY Sequences DEF AsmInv, SectionsSound
  <1>2. Tops
    BY DEF AsmInv, SectionsSound, Tops
  <1>3. ASSUME NEW s \in DOMAIN sections PROVE Hangs(s)
    <2>. SUFFICES ASSUME sections[s].parent # 0
                  PROVE  /\ sections[s].parent \in DOMAIN sections /\ sections[s].parent < s
                         /\ sections[s].line \in Nat /\ sections[s].top = sections[sections[s].parent].top
      BY DEF Hangs
    <2>1. ForLine(s)
      BY DEF TreeInv, SectionFits
    <2>. PICK a : a = sections[s].parent
      OBVIOUS
    <2>2. a \in DOMAIN sections /\ a < s /\ sections[s].top = sections[a].top /\ sections[s].line \in DOMAIN sections[a].lines
      BY <2>1 DEF ForLine, Macros
    <2>3. DOMAIN sections[a].lines = 1 .. Len(sections[a].lines)
      BY <2>2, Sequences DEF AsmInv, SectionsSound, IsText, Sequence
    <2>4. Len(sections[a].lines) \in Nat
      BY <2>2, Sequences DEF AsmInv, SectionsSound, IsText, Sequence
    <2>. QED
      BY <2>2, <2>3, <2>4
  <1>. QED
    BY <1>1, <1>2, <1>3 DEF Tree, WellRead

\* Lines that are the same but for what goes into the image.
Like(r, q) == /\ DOMAIN r = DOMAIN q /\ r.kind = q.kind /\ r.n = q.n /\ r.source = q.source /\ r.child = q.child

\* Where nothing is parsed.
LEMMA StaysRead ==
    ASSUME WellRead,
           \A s \in DOMAIN sections :
               /\ s \in DOMAIN sections' /\ sections'[s].parent = sections[s].parent /\ sections'[s].line = sections[s].line
               /\ DOMAIN sections'[s].ir = DOMAIN sections[s].ir
               /\ \A i \in DOMAIN sections[s].ir : Like(sections'[s].ir[i], sections[s].ir[i]),
           \A s \in (DOMAIN sections') \ DOMAIN sections : sections'[s].ir = << >>
    PROVE  WellRead'
  <1>1. ASSUME NEW s \in DOMAIN sections', s \notin DOMAIN sections
        PROVE  ReadWell(s)' /\ DOMAIN sections'[s].ir = {}
    <2>1. DOMAIN sections'[s].ir = {} /\ {} = 1 .. 0 /\ 0 \in Nat
      BY <1>1
    <2>. QED
      BY <2>1 DEF ReadWell
  <1>2. ASSUME NEW s \in DOMAIN sections
        PROVE  /\ ReadWell(s)'
               /\ \A i \in DOMAIN sections'[s].ir :
                     {"kind", "n", "source", "child", "emits"} \subseteq DOMAIN sections'[s].ir[i]
    <2>1. ReadWell(s)
      BY DEF WellRead
    <2>2. ASSUME NEW i \in DOMAIN sections'[s].ir
          PROVE  LET r == sections'[s].ir[i]
                 IN  /\ r.n \in Nat /\ r.source \in Nat
                     /\ r.kind = "align" => r.n > 0
                     /\ r.kind = "burn" => r.n < WordMod
                     /\ r.kind = "macro" => /\ r.child \in DOMAIN sections' /\ s < r.child
                                            /\ sections'[r.child].parent = s /\ sections'[r.child].line = r.source
                     /\ \A j \in DOMAIN sections'[s].ir : j < i => sections'[s].ir[j].source < r.source
                     /\ {"kind", "n", "source", "child", "emits"} \subseteq DOMAIN r
      <3>. PICK r, q : r = sections'[s].ir[i] /\ q = sections[s].ir[i]
        OBVIOUS
      <3>1. i \in DOMAIN sections[s].ir /\ Like(r, q) /\ {"kind", "n", "source", "child", "emits"} \subseteq DOMAIN q
        BY DEF WellRead
      <3>2. /\ r.n \in Nat /\ r.source \in Nat
            /\ r.kind = "align" => r.n > 0
            /\ r.kind = "burn" => r.n < WordMod
        BY <2>1, <3>1 DEF ReadWell, Like
      <3>3. r.kind = "macro" => /\ r.child \in DOMAIN sections' /\ s < r.child
                                /\ sections'[r.child].parent = s /\ sections'[r.child].line = r.source
        BY <2>1, <3>1 DEF ReadWell, Like
      <3>4. ASSUME NEW j \in DOMAIN sections'[s].ir, j < i PROVE sections'[s].ir[j].source < r.source
        <4>1. j \in DOMAIN sections[s].ir /\ sections[s].ir[j].source < q.source
          BY <2>1, <3>1, <3>4 DEF ReadWell
        <4>2. Like(sections'[s].ir[j], sections[s].ir[j])
          BY <4>1
        <4>. QED
          BY <3>1, <4>1, <4>2 DEF Like
      <3>5. {"kind", "n", "source", "child", "emits"} \subseteq DOMAIN r
        BY <3>1 DEF Like
      <3>. QED
        BY <3>2, <3>3, <3>4, <3>5
    <2>3. \E n \in Nat : DOMAIN sections'[s].ir = 1 .. n
      BY <2>1 DEF ReadWell
    <2>. QED
      BY <2>2, <2>3 DEF ReadWell
  <1>. QED
    BY <1>1, <1>2 DEF WellRead

\* Elements that come from places in order, none beyond the n-th.
UpTo(x, n) == \A k \in DOMAIN x : /\ x[k].source \in 1 .. n
                                  /\ \A j \in DOMAIN x : j < k => x[j].source < x[k].source

\* One more element from a place further on.
LEMMA UpToOne ==
    ASSUME NEW S, NEW x \in Seq(S), NEW y \in Seq(S), NEW i \in Nat \ {0}, UpTo(x, i - 1),
           NEW a \in S, a.source = i, y = << >> \/ y = <<a>>
    PROVE  UpTo(x \o y, i)
  <1>1. Len(x) \in Nat /\ DOMAIN x = 1 .. Len(x) /\ x \o << >> = x
    BY LenProperties
  <1>2. \A k \in DOMAIN x : x[k].source \in 1 .. i /\ x[k].source < i
    BY DEF UpTo
  <1>3. CASE y = << >>
    BY <1>1, <1>2, <1>3 DEF UpTo
  <1>4. CASE y = <<a>>
    <2>1. PICK z \in Seq(S) : z = x \o y
      BY ConcatProperties
    <2>2. DOMAIN z = 1 .. Len(x) + 1 /\ \A k \in 1 .. Len(x) + 1 : z[k] = IF k <= Len(x) THEN x[k] ELSE a
      <3>1. Len(y) = 1 /\ y[1] = a
        BY <1>4
      <3>2. Len(z) = Len(x) + Len(y) /\ \A k \in 1 .. Len(x) + Len(y) : z[k] = IF k <= Len(x) THEN x[k] ELSE y[k - Len(x)]
        BY <2>1, ConcatProperties
      <3>3. \A k \in 1 .. Len(x) + 1 : ~(k <= Len(x)) => k - Len(x) = 1
        BY <1>1
      <3>4. DOMAIN z = 1 .. Len(z)
        BY LenProperties
      <3>. QED
        BY <3>1, <3>2, <3>3, <3>4
    <2>3. ASSUME NEW k \in DOMAIN z
          PROVE  /\ z[k].source \in 1 .. i
                 /\ \A j \in DOMAIN z : j < k => z[j].source < z[k].source
      <3>1. CASE k <= Len(x)
        <4>1. k \in DOMAIN x /\ z[k] = x[k]
          BY <1>1, <2>2, <3>1
        <4>2. \A j \in DOMAIN z : j < k => j \in DOMAIN x /\ z[j] = x[j]
          BY <1>1, <2>2, <3>1
        <4>. QED
          BY <1>2, <4>1, <4>2 DEF UpTo
      <3>2. CASE ~(k <= Len(x))
        <4>1. z[k] = a /\ k = Len(x) + 1
          BY <1>1, <2>2, <3>2
        <4>2. \A j \in DOMAIN z : j < k => j \in DOMAIN x /\ z[j] = x[j]
          BY <1>1, <2>2, <4>1
        <4>. QED
          BY <1>2, <1>4, <4>1, <4>2
      <3>. QED
        BY <3>1, <3>2
    <2>. QED
      BY <2>1, <2>3 DEF UpTo
  <1>. QED
    BY <1>3, <1>4

\* L is what the first so many sequences make.
Runs(ss, L) == FlattenSeq(ss) = L[Len(ss)] /\ L[1] = ss[1] /\ \A i \in 2 .. Len(ss) : L[i] = L[i - 1] \o ss[i]

\* As FlattenedSteps says.
LEMMA FlattenedRuns ==
    ASSUME NEW S, NEW ss \in Seq(Seq(S)), Len(ss) # 0
    PROVE  \E L : Runs(ss, L) /\ \A i \in 1 .. Len(ss) : L[i] \in Seq(S)
  <1>1. PICK L \in [1 .. Len(ss) -> Seq(S)] :
            /\ FlattenSeq(ss) = L[Len(ss)] /\ L[1] = ss[1]
            /\ \A i \in 2 .. Len(ss) : L[i] = L[i - 1] \o ss[i]
    BY FlattenedSteps
  <1>2. Runs(ss, L) /\ \A i \in 1 .. Len(ss) : L[i] \in Seq(S)
    BY <1>1 DEF Runs
  <1>. QED
    BY <1>2

\* What is flattened keeps the order of its places.
LEMMA FlattenedOrder ==
    ASSUME NEW S, NEW ss \in Seq(Seq(S)),
           NEW f, \A i \in DOMAIN ss : f[i] \in S /\ f[i].source = i /\ (ss[i] = << >> \/ ss[i] = <<f[i]>>)
    PROVE  UpTo(FlattenSeq(ss), Len(ss))
  <1>1. Len(ss) \in Nat /\ DOMAIN ss = 1 .. Len(ss) /\ \A i \in 1 .. Len(ss) : ss[i] \in Seq(S)
    BY LenProperties, ElementOfSeq
  <1>2. CASE Len(ss) = 0
    <2>1. FlattenSeq(ss) = << >>
      BY <1>2, Flattened
    <2>. QED
      BY <2>1 DEF UpTo
  <1>3. CASE Len(ss) # 0
    <2>1. PICK L : Runs(ss, L) /\ \A i \in 1 .. Len(ss) : L[i] \in Seq(S)
      BY <1>3, FlattenedRuns
    <2>2. PICK n \in Nat : n = Len(ss)
      BY <1>1
    <2>. DEFINE F(i) == IF i = 0 THEN << >> ELSE L[i]
                G == {i \in 0 .. n : UpTo(F(i), i)}
    <2>3. 0 \in G
      BY DEF UpTo
    <2>4. ASSUME NEW i \in 1 .. n PROVE F(i - 1) \in Seq(S) /\ F(i) = F(i - 1) \o ss[i]
      <3>1. CASE i = 1
        <4>1. F(i - 1) = << >> /\ F(i) = ss[1] /\ ss[1] \in Seq(S) /\ << >> \in Seq(S)
          BY <1>1, <2>1, <2>2, <3>1 DEF Runs
        <4>2. << >> \o ss[1] = ss[1]
          BY <4>1
        <4>. QED
          BY <3>1, <4>1, <4>2
      <3>2. CASE i # 1
        <4>1. i - 1 \in 1 .. n /\ i \in 2 .. n /\ i - 1 # 0 /\ i # 0
          BY <3>2
        <4>2. F(i) = L[i] /\ F(i - 1) = L[i - 1]
          BY <4>1
        <4>. QED
          BY <2>1, <2>2, <4>1, <4>2 DEF Runs
      <3>. QED
        BY <3>1, <3>2
    <2>5. ASSUME NEW i \in 1 .. n, i - 1 \in G PROVE i \in G
      <3>1. UpTo(F(i - 1), i - 1)
        BY <2>5
      <3>. HIDE DEF F
      <3>2. i \in DOMAIN ss /\ ss[i] \in Seq(S) /\ i \in Nat \ {0}
        BY <1>1, <2>2
      <3>3. UpTo(F(i - 1) \o ss[i], i)
        <4>. PICK x \in Seq(S), y \in Seq(S), a \in S : x = F(i - 1) /\ y = ss[i] /\ a = f[i]
          BY <2>4, <3>2
        <4>1. a.source = i /\ (y = << >> \/ y = <<a>>) /\ UpTo(x, i - 1)
          BY <3>1, <3>2
        <4>2. UpTo(x \o y, i)
          BY <3>2, <4>1, UpToOne
        <4>. QED
          BY <4>2
      <3>4. i \in 0 .. n /\ UpTo(F(i), i)
        <4>1. F(i) = F(i - 1) \o ss[i]
          BY <2>4
        <4>2. i \in 0 .. n
          OBVIOUS
        <4>. QED
          BY <3>3, <4>1, <4>2
      <3>. QED
        BY <3>4
    <2>6. n \in G
      <3>. HIDE DEF G
      <3>1. 0 .. n \subseteq G
        BY <2>3, <2>5, Upwards, Zenon
      <3>. QED
        BY <3>1
    <2>. QED
      BY <1>3, <2>1, <2>2, <2>6 DEF Runs
  <1>. QED
    BY <1>2, <1>3

\* What the parser makes of a section whose macros were opened up is well read, whatever
\* lines it rejects.
LEMMA ParsedWell ==
    ASSUME AsmInv, TreeInv, NEW s \in DOMAIN sections, OpenedUp(s)
    PROVE  /\ \E n \in Nat : DOMAIN Parsed(s) = 1 .. n
           /\ \A k \in DOMAIN Parsed(s) :
                 LET r == Parsed(s)[k]
                 IN  /\ {"kind", "n", "source", "child", "emits"} \subseteq DOMAIN r
                     /\ r.n \in Nat /\ r.source \in Nat /\ (r.emits <=> r.kind \in Emitting)
                     /\ r.kind = "align" => r.n > 0
                     /\ r.kind = "burn" => r.n < WordMod
                     /\ r.kind = "macro" => /\ r.child \in DOMAIN sections /\ s < r.child
                                            /\ sections[r.child].parent = s /\ sections[r.child].line = r.source
                     /\ \A j \in DOMAIN Parsed(s) : j < k => Parsed(s)[j].source < r.source
  <1>. DEFINE lines == sections[s].lines
              Child(i) == IF lines[i].kind = "macro" THEN ChildOf(s, i) ELSE 0
              Line(i) == AsRead(lines[i], i, Child(i))
              S == {Line(i) : i \in DOMAIN lines}
              ss == [i \in DOMAIN lines |-> IF Rejected(lines[i]) THEN << >> ELSE <<Line(i)>>]
  <1>1. lines \in Seq(TextLine) /\ s \in Nat \ {0}
    BY Fitting DEF TreeInv
  <1>2. DOMAIN lines = 1 .. Len(lines) /\ Len(lines) \in Nat /\ \A i \in DOMAIN lines : lines[i] \in TextLine
    BY <1>1, LenProperties, ElementOfSeq
  <1>3. Parsed(s) = FlattenSeq(ss)
    BY DEF Parsed
  <1>4. ASSUME NEW i \in DOMAIN lines
        PROVE  /\ {"kind", "n", "source", "child", "emits"} \subseteq DOMAIN Line(i)
               /\ Line(i).kind = lines[i].kind /\ Line(i).n = lines[i].n
               /\ Line(i).source = i /\ Line(i).child = Child(i) /\ (Line(i).emits <=> lines[i].kind \in Emitting)
    <2>. HIDE DEF Child, lines
    <2>. QED
      BY DEF AsRead
  <1>5. ASSUME NEW i \in DOMAIN lines, lines[i].kind = "macro"
        PROVE  Child(i) \in DOMAIN sections /\ sections[Child(i)].parent = s /\ sections[Child(i)].line = i /\ s < Child(i)
    <2>. DEFINE children == {c \in DOMAIN sections : /\ sections[c].parent = s /\ sections[c].line = i
                                                     /\ sections[c].name = sections[s].lines[i].name}
    <2>1. Child(i) = IF children = {} THEN 0 ELSE Min(children)
      BY <1>5 DEF ChildOf
    <2>2. i \in Macros(sections[s])
      BY <1>5 DEF Macros
    <2>3. PICK c \in DOMAIN sections : sections[c].parent = s /\ sections[c].line = i
      BY <2>2 DEF OpenedUp
    <2>4. sections[c].name = sections[s].lines[i].name
      BY <1>1, <2>3 DEF TreeInv, SectionFits, ForLine
    <2>5. children # {} /\ children \in SUBSET Nat
      <3>1. DOMAIN sections \subseteq Nat
        BY Fitting DEF TreeInv
      <3>. QED
        BY <2>3, <2>4, <3>1
    <2>6. Min(children) \in children
      <3>. HIDE DEF children
      <3>. QED
        BY <2>5, Smallest
    <2>. PICK d : d = Child(i)
      OBVIOUS
    <2>7. d \in DOMAIN sections /\ sections[d].parent = s /\ sections[d].line = i
      <3>1. d \in children
        <4>. HIDE DEF Child, children
        <4>. QED
          BY <2>1, <2>5, <2>6
      <3>. QED
        BY <3>1
    <2>8. s < d
      BY <1>1, <2>7 DEF TreeInv, SectionFits, ForLine
    <2>. QED
      BY <2>7, <2>8
  <1>. HIDE DEF Child
  <1>6. ss \in Seq(Seq(S)) /\ Len(ss) = Len(lines) /\ DOMAIN ss = DOMAIN lines
        /\ \A i \in DOMAIN lines : (ss[i] = << >> \/ ss[i] = <<Line(i)>>) /\ Line(i) \in S
    <2>. HIDE DEF Line
    <2>1. \A i \in DOMAIN lines : (ss[i] = << >> \/ ss[i] = <<Line(i)>>) /\ Line(i) \in S
      OBVIOUS
    <2>2. DOMAIN ss = DOMAIN lines /\ ss = [i \in DOMAIN lines |-> ss[i]]
      OBVIOUS
    <2>. HIDE DEF ss, S, lines
    <2>3. \A i \in DOMAIN lines : ss[i] \in Seq(S)
      <3>1. << >> \in Seq(S) /\ \A x \in S : <<x>> \in Seq(S)
        OBVIOUS
      <3>. QED
        BY <2>1, <3>1
    <2>4. ss \in [1 .. Len(lines) -> Seq(S)]
      BY <1>2, <2>2, <2>3
    <2>. QED
      BY <1>2, <2>1, <2>2, <2>4, SeqDef, LenProperties
  <1>7. PICK f : f = Parsed(s)
    OBVIOUS
  <1>. HIDE DEF ss
  <1>8. UpTo(f, Len(lines))
    <2>. DEFINE g == [i \in DOMAIN lines |-> Line(i)]
    <2>2. \A i \in DOMAIN lines : g[i] = Line(i)
      OBVIOUS
    <2>. HIDE DEF g
    <2>1. \A i \in DOMAIN ss : g[i] \in S /\ g[i].source = i /\ (ss[i] = << >> \/ ss[i] = <<g[i]>>)
      BY <1>4, <1>6, <2>2
    <2>. HIDE DEF S, lines, Line
    <2>3. ss \in Seq(Seq(S)) /\ Len(ss) = Len(lines)
      BY <1>6
    <2>4. UpTo(FlattenSeq(ss), Len(ss))
      BY <2>1, <2>3, FlattenedOrder
    <2>. QED
      BY <1>3, <1>7, <2>3, <2>4
  <1>9. f \in Seq(S)
    <2>. HIDE DEF S
    <2>. QED
      BY <1>3, <1>6, <1>7, Flattened
  <1>10. DOMAIN f = 1 .. Len(f) /\ Len(f) \in Nat /\ \A k \in DOMAIN f : f[k] \in S
    <2>. HIDE DEF S
    <2>. QED
      BY <1>9, LenProperties, ElementOfSeq
  <1>11. ASSUME NEW k \in DOMAIN f
         PROVE  /\ {"kind", "n", "source", "child", "emits"} \subseteq DOMAIN f[k]
                /\ f[k].n \in Nat /\ f[k].source \in Nat /\ (f[k].emits <=> f[k].kind \in Emitting)
                /\ f[k].kind = "align" => f[k].n > 0
                /\ f[k].kind = "burn" => f[k].n < WordMod
                /\ f[k].kind = "macro" => /\ f[k].child \in DOMAIN sections /\ s < f[k].child
                                          /\ sections[f[k].child].parent = s /\ sections[f[k].child].line = f[k].source
    <2>1. PICK i \in DOMAIN lines : f[k] = Line(i)
      BY <1>10
    <2>2. PICK r : r = Line(i)
      OBVIOUS
    <2>3. /\ {"kind", "n", "source", "child", "emits"} \subseteq DOMAIN r
          /\ r.kind = lines[i].kind /\ r.n = lines[i].n
          /\ r.source = i /\ r.child = Child(i) /\ (r.emits <=> lines[i].kind \in Emitting)
      BY <1>4, <2>2
    <2>4. /\ lines[i].n \in Nat /\ (lines[i].kind = "align" => lines[i].n > 0)
          /\ (lines[i].kind = "burn" => lines[i].n < WordMod) /\ i \in Nat
      <3>1. lines[i] \in TextLine /\ i \in Nat
        BY <1>2
      <3>. HIDE DEF lines
      <3>. QED
        BY <3>1, Typed
    <2>. HIDE DEF Line, lines
    <2>5. r.kind = "macro" => /\ r.child \in DOMAIN sections /\ s < r.child
                              /\ sections[r.child].parent = s /\ sections[r.child].line = r.source
      BY <1>5, <2>3
    <2>6. f[k] = r
      BY <2>1, <2>2
    <2>. QED
      BY <2>3, <2>4, <2>5, <2>6
  <1>. QED
    BY <1>7, <1>8, <1>10, <1>11 DEF UpTo

\* All of this is as it was where the sections are ...
LEMMA SectionsStay ==
    ASSUME sections' = sections
    PROVE  /\ WellRead' = WellRead /\ Unchecked' = Unchecked /\ Sane' = Sane /\ Programs' = Programs
           /\ places' = places => LaidOut' = LaidOut /\ \A p : BaseOf(p)' = BaseOf(p)
           /\ places' = places /\ image' = image => PackedUp' = PackedUp
  <1>1. /\ WellRead' = WellRead /\ Unchecked' = Unchecked /\ Programs' = Programs
        /\ \A p, k : Sources(p, k)' = Sources(p, k)
    BY DEF WellRead, ReadWell, Unchecked, Programs, Sources
  <1>2. (\A s, i : Burned(s, i)' = Burned(s, i)) /\ \A p : Insane(p)' = Insane(p) /\ Backward(p)' = Backward(p) /\ Start(p)' = Start(p)
    BY <1>1 DEF Burned, Insane, Backward, Start
  <1>3. Sane' = Sane
    BY <1>1, <1>2 DEF Sane
  <1>4. ASSUME places' = places PROVE LaidOut' = LaidOut /\ \A p : BaseOf(p)' = BaseOf(p)
    <2>1. \A l, a, b, back : PlacedAt(l, a, b, back)' = PlacedAt(l, a, b, back)
      BY <1>4 DEF PlacedAt
    <2>2. \A lines, a, b, back : Laid(lines, a, b, back)' = Laid(lines, a, b, back)
      BY <1>4, <2>1 DEF Laid
    <2>3. \A p : BaseOf(p)' = BaseOf(p)
      BY <1>4 DEF BaseOf
    <2>. QED
      BY <1>1, <1>2, <2>2, <2>3 DEF LaidOut
  <1>5. ASSUME places' = places, image' = image PROVE PackedUp' = PackedUp
    BY <1>1, <1>4, <1>5 DEF PackedUp
  <1>. QED
    BY <1>1, <1>3, <1>4, <1>5

\* ... and nothing more is waiting.
LEMMA ImageStays ==
    ASSUME AsmInv, ImageInv, UNCHANGED <<sections, places, image>>, ToBeChecked' => Unchecked,
           queue'[5] # << >> => queue[5] # << >>, queue'[6] # << >> => queue[6] # << >>,
           failed => failed', Assembled => Done' /\ (phase' = "os" => User \notin Programs)
    PROVE  ImageInv'
  <1>1. /\ WellRead' = WellRead /\ Unchecked' = Unchecked /\ Sane' = Sane /\ Programs' = Programs
        /\ LaidOut' = LaidOut /\ PackedUp' = PackedUp
    BY SectionsStay
  <1>2. Assembled' => Assembled
    BY DEF Assembled
  <1>3. WellRead' /\ (ToBeChecked' => Unchecked') /\ (queue'[5] # << >> /\ ~failed' => Sane')
    BY <1>1 DEF ImageInv
  <1>4. Assembled' => Done' /\ (phase' = "os" => User \notin Programs') /\ (~failed' => Sane' /\ LaidOut')
    BY <1>1, <1>2 DEF ImageInv
  <1>5. image' # << >> /\ ~failed' => PackedUp'
    BY <1>1 DEF ImageInv
  <1>. QED
    BY <1>3, <1>4, <1>5 DEF ImageInv

\* What waits after a stage waited before it, or was handed on.
LEMMA HandedOn ==
    ASSUME AsmInv, NEW st \in Stages, NEW ok \in BOOLEAN, NEW work, Requeue(st, ok, work),
           NEW u \in Stages, ~ok \/ u \notin DOMAIN work, queue'[u] # << >>
    PROVE  u # st /\ queue[u] # << >>
  <1>1. queue'[u] = (IF u = st THEN << >> ELSE queue[u]) \o << >>
    BY DEF Requeue
  <1>2. << >> \o << >> = << >> /\ queue[u] \in Seq(Nat) /\ \A x \in Seq(Nat) : x \o << >> = x
    BY DEF AsmInv, DriverSound
  <1>3. u # st => queue'[u] = queue[u]
    BY <1>1, <1>2
  <1>. QED
    BY <1>1, <1>2, <1>3

\* A stage that texts are opened up or parsed in comes before any check.
LEMMA BeforeChecks ==
    ASSUME AsmInv, CircleInv, ImageInv, NEW st \in 1 .. 3, Take(st), NEW ok \in BOOLEAN, NEW work,
           DOMAIN work \subseteq 1 .. 4, Requeue(st, ok, work), image' = image
    PROVE  /\ Unchecked /\ Open /\ ~Assembled' /\ image' = << >> /\ queue'[5] = << >>
  <1>1. st \in Stages /\ 5 \in Stages /\ 6 \in Stages
    BY StageNumbers
  <1>2. Open /\ queue[5] = << >> /\ queue[6] = << >> /\ queue[st] # << >>
    <2>1. Open
      BY <1>1, TakenOpen
    <2>. QED
      BY <1>1, <2>1, Taken DEF Open, Expanding
  <1>3. ~Assembled
    BY <1>2 DEF ImageInv, Done
  <1>4. queue'[5] = << >> /\ queue'[6] = << >>
    BY <1>1, <1>2, HandedOn
  <1>5. Unchecked
    BY <1>2 DEF ImageInv, ToBeChecked
  <1>. QED
    BY <1>2, <1>3, <1>4, <1>5 DEF Assembled

\* Once its program is checked the driver does not have the other still to do.
LEMMA BeyondChecks ==
    ASSUME NameInv, NEW st \in 4 .. 8, st < target, target \in Nat
    PROVE  phase = "os" => User \notin Programs
  BY DEF NameInv, TargetFits

\* The driver's own steps.
LEMMA ImageDriver ==
    ASSUME AsmInv, ImageInv, Ignore \/ GiveUp \/ EndLoop \/ UNCHANGED asmVars
    PROVE  ImageInv'
  <1>1. CASE Ignore \/ GiveUp
    <2>1. /\ Running /\ queue' = [queue EXCEPT ![Lowest] = << >>] /\ UNCHANGED <<sections, places, image>>
          /\ failed => failed'
      BY <1>1 DEF Ignore, GiveUp, text, layout
    <2>2. ASSUME NEW u \in Stages PROVE queue'[u] = queue[u] \/ queue'[u] = << >>
      BY <2>1 DEF AsmInv, DriverSound
    <2>3. \A u \in 1 .. 8 : u \in Stages
      BY StageNumbers
    <2>4. ~Open' /\ (failed => failed') /\ (phase' = "os" => phase = "os")
      <3>1. ~Open' /\ (phase' = phase \/ phase' = "done")
        BY <1>1, NoneOpened
      <3>. QED
        BY <2>1, <3>1
    <2>5. Done => Done'
      BY <2>2, <2>3 DEF Done
    <2>6. ToBeChecked' => ToBeChecked
      <3>1. queue'[4] # << >> => queue[4] # << >>
        BY <2>2, <2>3
      <3>2. Programs' = Programs
        BY <2>1 DEF Programs
      <3>. QED
        BY <2>4, <3>1, <3>2 DEF ToBeChecked
    <2>7. (queue'[5] # << >> => queue[5] # << >>) /\ (queue'[6] # << >> => queue[6] # << >>)
      BY <2>2, <2>3
    <2>8. (ToBeChecked' => Unchecked) /\ (Assembled => Done' /\ (phase' = "os" => User \notin Programs))
      BY <2>4, <2>5, <2>6 DEF ImageInv
    <2>. QED
      BY <2>1, <2>4, <2>7, <2>8, ImageStays
  <1>2. CASE EndLoop
    <2>1. phase # "done" /\ UNCHANGED <<sections, places, image, failed>>
      BY <1>2 DEF EndLoop, text, layout
    <2>2. CASE phase = "os" /\ User \in Programs /\ ~failed
      <3>1. queue' = [queue EXCEPT ![1] = <<User>>]
        BY <1>2, <2>2, StageNumbers DEF EndLoop
      <3>2. \A u \in 5 .. 6 : queue'[u] = queue[u]
        BY <3>1, StageNumbers DEF AsmInv, DriverSound
      <3>3. Unchecked /\ ~Assembled
        BY <2>2 DEF ImageInv, ToBeChecked
      <3>. QED
        BY <2>1, <3>2, <3>3, ImageStays
    <2>3. CASE ~(phase = "os" /\ User \in Programs /\ ~failed)
      <3>1. phase' = "done" /\ queue' = queue
        BY <1>2, <2>3 DEF EndLoop
      <3>2. (ToBeChecked' => Unchecked) /\ (Assembled => Done')
        BY <3>1 DEF ImageInv, ToBeChecked, Open, Done
      <3>. QED
        BY <2>1, <3>1, <3>2, ImageStays
    <2>. QED
      BY <2>2, <2>3
  <1>3. CASE UNCHANGED asmVars
    <2>1. UNCHANGED <<sections, places, image, queue, phase, failed, target>>
      BY <1>3 DEF asmVars, text, layout, driver
    <2>2. Open' = Open /\ Done' = Done /\ Programs' = Programs
      BY <2>1 DEF Open, Stuck, Waiting, Expanding, Own, Done, Programs
    <2>3. (ToBeChecked' => Unchecked) /\ (Assembled => Done' /\ (phase' = "os" => User \notin Programs))
      BY <2>1, <2>2 DEF ImageInv, ToBeChecked
    <2>. QED
      BY <2>1, <2>3, ImageStays
  <1>. QED
    BY <1>1, <1>2, <1>3

\* A line is like itself.
LEMMA LikeItself == \A r : Like(r, r)
  BY DEF Like

\* The tokenizer reads a text that is not parsed.
LEMMA ImageTokenize ==
    ASSUME AsmInv, CircleInv, TreeInv, ImageInv, Tokenize
    PROVE  ImageInv'
  <1>. DEFINE ok == UNION {{Error(s, i, "token") : i \in {i \in DOMAIN sections[s].lines :
                               sections[s].lines[i].kind = "bad"}} : s \in Range(queue[Stage.RAW])} = {}
  <1>1. Take(1) /\ Requeue(1, ok, [u \in {2} |-> queue[1]]) /\ image' = image /\ ok \in BOOLEAN
    BY StageNumbers DEF Tokenize, layout
  <1>. HIDE DEF ok
  <1>2. Unchecked /\ ~Assembled' /\ image' = << >> /\ queue'[5] = << >>
    <2>1. DOMAIN [u \in {2} |-> queue[1]] \subseteq 1 .. 4 /\ 1 \in 1 .. 3
      OBVIOUS
    <2>. QED
      BY <1>1, <2>1, BeforeChecks
  <1>3. /\ DOMAIN sections' = DOMAIN sections
        /\ \A s \in DOMAIN sections : /\ sections'[s].parent = sections[s].parent
                                      /\ sections'[s].line = sections[s].line /\ sections'[s].ir = sections[s].ir
    BY TokenizeIs
  <1>4. WellRead'
    BY <1>3, LikeItself, StaysRead DEF ImageInv
  <1>5. Unchecked'
    BY <1>2, <1>3 DEF Unchecked
  <1>. QED
    BY <1>2, <1>4, <1>5 DEF ImageInv

\* The preprocessor adds sections that are not parsed.
LEMMA ImagePreprocess ==
    ASSUME AsmInv, CircleInv, TreeInv, ImageInv, Preprocess
    PROVE  ImageInv'
  <1>1. PICK new, wrong, graph, opened : Opening(new, wrong, graph, opened)
    BY PreprocessOpens
  <1>. DEFINE work == [u \in {Stage.RAW, Stage.PREPROCESS} |->
                          IF u = Stage.RAW THEN [k \in DOMAIN new |-> Len(sections) + k] ELSE queue[Stage.TOKEN]]
  <1>2. Take(2) /\ Requeue(2, wrong = {}, work) /\ image' = image /\ (wrong = {}) \in BOOLEAN
    BY <1>1, StageNumbers DEF Opening, Preprocess, layout
  <1>3. DOMAIN work \subseteq 1 .. 4 /\ 2 \in 1 .. 3
    BY StageNumbers
  <1>. HIDE DEF work
  <1>4. Unchecked /\ ~Assembled' /\ image' = << >> /\ queue'[5] = << >>
    BY <1>2, <1>3, BeforeChecks
  <1>5. /\ \A s \in DOMAIN sections : s \in DOMAIN sections' /\ sections'[s] = sections[s]
        /\ \A s \in (DOMAIN sections') \ DOMAIN sections : sections'[s].ir = << >>
    BY PreprocessIs
  <1>6. WellRead'
    BY <1>5, LikeItself, StaysRead DEF ImageInv
  <1>7. Unchecked'
    <2>1. DOMAIN << >> = {}
      OBVIOUS
    <2>. QED
      BY <1>4, <1>5, <2>1 DEF Unchecked
  <1>. QED
    BY <1>4, <1>6, <1>7 DEF ImageInv

\* The parser leaves lines well read, and not yet checked.
LEMMA ImageParse ==
    ASSUME AsmInv, CircleInv, TreeInv, TidyInv, ImageInv, Parse
    PROVE  ImageInv'
  <1>. DEFINE ok == \A s \in Range(queue[Stage.PREPROCESS]) : Accepted(s)
  <1>1. /\ Take(3) /\ Requeue(3, ok, [u \in {4} |-> queue[3]]) /\ image' = image /\ ok \in BOOLEAN
        /\ sections' = [s \in DOMAIN sections |->
               IF s \in Range(queue[3]) THEN [sections[s] EXCEPT !.ir = Parsed(s)] ELSE sections[s]]
    BY StageNumbers DEF Parse, layout
  <1>. HIDE DEF ok
  <1>2. Unchecked /\ Open /\ ~Assembled' /\ image' = << >> /\ queue'[5] = << >>
    <2>1. DOMAIN [u \in {4} |-> queue[3]] \subseteq 1 .. 4 /\ 3 \in 1 .. 3
      OBVIOUS
    <2>. QED
      BY <1>1, <2>1, BeforeChecks
  <1>3. DOMAIN sections' = DOMAIN sections
    BY <1>1
  <1>4. ASSUME NEW s \in DOMAIN sections
        PROVE  /\ sections'[s].parent = sections[s].parent /\ sections'[s].line = sections[s].line
               /\ sections'[s].ir = IF s \in Range(queue[3]) THEN Parsed(s) ELSE sections[s].ir
    <2>1. {"top", "parent", "lines", "ir", "line"} \subseteq DOMAIN sections[s]
      BY SectionFields
    <2>. QED
      BY <1>1, <2>1
  <1>5. ASSUME NEW s \in DOMAIN sections
        PROVE  /\ ReadWell(s)'
               /\ \A i \in DOMAIN sections'[s].ir :
                     /\ {"kind", "n", "source", "child", "emits"} \subseteq DOMAIN sections'[s].ir[i]
                     /\ sections'[s].ir[i].emits <=> sections'[s].ir[i].kind \in Emitting
    <2>1. CASE s \in Range(queue[3])
      <3>1. OpenedUp(s)
        BY <1>2, <2>1 DEF TidyInv, Tidy
      <3>. PICK f : f = Parsed(s)
        OBVIOUS
      <3>2. /\ \E n \in Nat : DOMAIN f = 1 .. n
            /\ \A k \in DOMAIN f :
                 /\ {"kind", "n", "source", "child", "emits"} \subseteq DOMAIN f[k]
                 /\ f[k].n \in Nat /\ f[k].source \in Nat /\ (f[k].emits <=> f[k].kind \in Emitting)
                 /\ f[k].kind = "align" => f[k].n > 0
                 /\ f[k].kind = "burn" => f[k].n < WordMod
                 /\ f[k].kind = "macro" => /\ f[k].child \in DOMAIN sections /\ s < f[k].child
                                           /\ sections[f[k].child].parent = s /\ sections[f[k].child].line = f[k].source
                 /\ \A j \in DOMAIN f : j < k => f[j].source < f[k].source
        BY <3>1, ParsedWell
      <3>3. sections'[s].ir = f
        BY <1>4, <2>1
      <3>4. \A c \in DOMAIN sections : sections'[c].parent = sections[c].parent /\ sections'[c].line = sections[c].line
        BY <1>4
      <3>. QED
        BY <1>3, <3>2, <3>3, <3>4 DEF ReadWell
    <2>2. CASE s \notin Range(queue[3])
      <3>1. sections'[s].ir = sections[s].ir
        BY <1>4, <2>2
      <3>2. \A c \in DOMAIN sections : sections'[c].parent = sections[c].parent /\ sections'[c].line = sections[c].line
        BY <1>4
      <3>. QED
        BY <1>2, <1>3, <3>1, <3>2 DEF ImageInv, WellRead, ReadWell, Unchecked
    <2>. QED
      BY <2>1, <2>2
  <1>. QED
    BY <1>2, <1>3, <1>5 DEF ImageInv, WellRead, Unchecked

\* The checks of the whole program.
LEMMA ImageCheckSanity ==
    ASSUME AsmInv, TreeInv, NameInv, ImageInv, CheckSanity
    PROVE  ImageInv'
  <1>. DEFINE wrong == UNION {{Error(p, i, "sanity") : i \in Insane(p)} : p \in Programs}
  <1>1. /\ Take(4) /\ Requeue(4, wrong = {}, [u \in {5} |-> queue[4]]) /\ image' = image /\ (wrong = {}) \in BOOLEAN
        /\ sections' = [s \in DOMAIN sections |-> [sections[s] EXCEPT !.ir = Checked(s)]]
    BY StageNumbers DEF CheckSanity, layout
  <1>2. wrong = {} => \A p \in Programs : Insane(p) = {}
    OBVIOUS
  <1>. HIDE DEF wrong
  <1>3. 4 \in Stages /\ 5 \in Stages /\ 6 \in Stages /\ DOMAIN [u \in {5} |-> queue[4]] = {5}
    BY StageNumbers
  <1>4. /\ queue[4] # << >> /\ (\A u \in Stages \ {4} : queue[u] = << >>) /\ ~failed
        /\ 4 < target /\ target \in Nat /\ phase' = phase
    <2>1. Take(4)
      BY <1>1
    <2>2. /\ queue[4] # << >> /\ (\A u \in Stages \ {4} : queue[u] = << >>) /\ ~failed /\ 4 < target
      BY <1>3, <2>1, Taken
    <2>3. target \in Nat
      BY StageNumbers DEF AsmInv, DriverSound
    <2>4. phase' = phase
      BY <1>1 DEF Requeue
    <2>. QED
      BY <2>2, <2>3, <2>4
  <1>5. Unchecked /\ ~Assembled
    BY <1>4 DEF ImageInv, ToBeChecked, Done
  <1>6. queue'[4] = << >> /\ ~Assembled'
    <2>0. PICK ok, work : ok \in BOOLEAN /\ ok = (wrong = {}) /\ work = [u \in {5} |-> queue[4]]
      BY <1>1
    <2>1. queue'[4] = << >> /\ queue'[6] = << >>
      <3>1. Requeue(4, ok, work) /\ DOMAIN work = {5}
        BY <1>1, <1>3, <2>0
      <3>3. ok \in BOOLEAN
        BY <2>0
      <3>2. ASSUME NEW u \in Stages, u # 5, queue'[u] # << >> PROVE u # 4 /\ queue[u] # << >>
        <4>1. u \notin DOMAIN work
          BY <3>1, <3>2
        <4>2. 4 \in Stages
          BY <1>3
        <4>3. Requeue(4, ok, work)
          BY <3>1
        <4>. QED
          BY <3>2, <3>3, <4>1, <4>2, <4>3, HandedOn
      <3>. QED
        BY <1>3, <1>4, <3>2
    <2>. QED
      BY <1>1, <1>5, <2>1 DEF Assembled
  <1>7. DOMAIN sections' = DOMAIN sections
    BY <1>1
  <1>8. ASSUME NEW s \in DOMAIN sections
        PROVE  /\ sections'[s].top = sections[s].top /\ sections'[s].parent = sections[s].parent
               /\ sections'[s].line = sections[s].line /\ sections'[s].ir = Checked(s)
    <2>1. {"top", "parent", "lines", "ir", "line"} \subseteq DOMAIN sections[s]
      BY SectionFields
    <2>. PICK c : c = Checked(s)
      OBVIOUS
    <2>. QED
      BY <1>1, <2>1
  <1>9. ASSUME NEW s \in DOMAIN sections
        PROVE  /\ DOMAIN sections'[s].ir = DOMAIN sections[s].ir
               /\ \A i \in DOMAIN sections[s].ir :
                     /\ Like(sections'[s].ir[i], sections[s].ir[i])
                     /\ sections'[s].ir[i].emits <=> sections[s].ir[i].emits /\ ~Burned(s, i)
    <2>1. sections'[s].ir = [i \in DOMAIN sections[s].ir |-> [sections[s].ir[i] EXCEPT !.emits = @ /\ ~Burned(s, i)]]
      BY <1>8 DEF Checked
    <2>2. ASSUME NEW i \in DOMAIN sections[s].ir
          PROVE  /\ Like(sections'[s].ir[i], sections[s].ir[i])
                 /\ sections'[s].ir[i].emits <=> sections[s].ir[i].emits /\ ~Burned(s, i)
      <3>. PICK q : q = sections[s].ir[i]
        OBVIOUS
      <3>1. {"kind", "n", "source", "child", "emits"} \subseteq DOMAIN q
        BY DEF ImageInv, WellRead
      <3>. PICK e \in BOOLEAN : e = (q.emits /\ ~Burned(s, i))
        BY Zenon
      <3>2. sections'[s].ir[i] = [q EXCEPT !.emits = e]
        BY <2>1
      <3>. PICK r : r = [q EXCEPT !.emits = e]
        OBVIOUS
      <3>3. Like(r, q) /\ r.emits = e
        BY <3>1 DEF Like
      <3>. QED
        BY <3>2, <3>3
    <2>. QED
      BY <2>1, <2>2
  <1>10. WellRead'
    BY <1>7, <1>8, <1>9, StaysRead DEF ImageInv
  <1>11. Programs' = Programs
    BY <1>7, <1>8 DEF Programs
  <1>12. \A p \in DOMAIN sections : \A k : Sources(p, k)' = Sources(p, k)
    <2>1. ASSUME NEW p \in DOMAIN sections, NEW k PROVE Sources(p, k)' = Sources(p, k)
      BY <1>9 DEF Sources, Like
    <2>. QED
      BY <2>1
  <1>13. TopLine(sections') = TopLine(sections)
    <2>. DEFINE D == (DOMAIN sections) \X Nat
                Now(T, l) == IF sections'[l[1]].parent = 0 THEN l[2] ELSE T[<<sections'[l[1]].parent, sections'[l[1]].line>>]
                Was(T, l) == IF sections[l[1]].parent = 0 THEN l[2] ELSE T[<<sections[l[1]].parent, sections[l[1]].line>>]
    <2>1. TopLine(sections') = CHOOSE T : T = [l \in D |-> Now(T, l)]
      BY <1>7 DEF TopLine
    <2>2. TopLine(sections) = CHOOSE T : T = [l \in D |-> Was(T, l)]
      BY DEF TopLine
    <2>3. ASSUME NEW T PROVE [l \in D |-> Now(T, l)] = [l \in D |-> Was(T, l)]
      BY <1>8
    <2>. HIDE DEF D, Now, Was
    <2>4. \A T : (T = [l \in D |-> Now(T, l)]) <=> (T = [l \in D |-> Was(T, l)])
      BY <2>3
    <2>. QED
      BY <2>1, <2>2, <2>4, Zenon
  <1>14. ASSUME wrong = {} PROVE Sane'
    <2>1. ASSUME NEW s \in DOMAIN sections, NEW i \in DOMAIN sections[s].ir
          PROVE  Burned(s, i)' <=> Burned(s, i)
      <3>1. sections'[s].ir[i].source = sections[s].ir[i].source
        BY <1>9 DEF Like
      <3>2. Sources(OS, {"burn"})' = Sources(OS, {"burn"})
        <4>1. OS \in DOMAIN sections
          <5>1. DOMAIN sections = 1 .. Len(sections) /\ Len(sections) \in Nat
            BY Sequences DEF AsmInv, SectionsSound
          <5>. QED
            BY <5>1 DEF OS
        <4>. QED
          BY <1>12, <4>1
      <3>. QED
        BY <1>8, <1>13, <3>1, <3>2 DEF Burned
    <2>2. ASSUME NEW p \in Programs PROVE Insane(p)' = {}
      <3>1. p \in DOMAIN sections
        BY DEF Programs
      <3>2. Insane(p) = {}
        BY <1>2, <1>14
      <3>3. Sources(p, {"end"}) # {}
        <4>. SUFFICES ASSUME Sources(p, {"end"}) = {} PROVE FALSE
          OBVIOUS
        <4>. QED
          BY <3>2 DEF Insane
      <3>4. Insane(p)' = Insane(p)
        BY <1>12, <3>1, <3>3 DEF Insane
      <3>. QED
        BY <3>2, <3>4
    <2>3. ASSUME NEW s \in DOMAIN sections', NEW i \in DOMAIN sections'[s].ir
          PROVE  (sections'[s].ir[i].emits <=> sections'[s].ir[i].kind \in Emitting /\ ~Burned(s, i)')
      <3>1. s \in DOMAIN sections /\ i \in DOMAIN sections[s].ir
        BY <1>7, <1>9
      <3>. QED
        BY <1>5, <1>9, <2>1, <3>1 DEF Unchecked, Like
    <2>. QED
      BY <1>11, <2>2, <2>3 DEF Sane
  <1>15. ~ToBeChecked'
    <2>1. ~Open'
      BY NoneOpened
    <2>2. phase = "os" => User \notin Programs
      <3>1. 4 \in 4 .. 8
        OBVIOUS
      <3>. QED
        BY <1>4, <3>1, BeyondChecks
    <2>. QED
      BY <1>4, <1>6, <1>11, <2>1, <2>2 DEF ToBeChecked
  <1>16. ~failed' => wrong = {}
    BY <1>1 DEF Requeue
  <1>. QED
    BY <1>6, <1>10, <1>14, <1>15, <1>16 DEF ImageInv, Assembled

\* The assignment of addresses.
LEMMA ImageAssign ==
    ASSUME AsmInv, TreeInv, NameInv, ImageInv, AssignAddresses
    PROVE  ImageInv'
  <1>. DEFINE reached == UNION {Reached(p) : p \in Programs}
              wrong == UNION {LineErrors(r) : r \in reached}
  <1>1. /\ Take(5) /\ Requeue(5, wrong = {}, [u \in {6} |-> <<Image>>]) /\ UNCHANGED <<sections, image>>
    BY StageNumbers DEF AssignAddresses
  <1>2. ASSUME wrong = {}, NEW p \in Programs, NEW r \in Reached(p) PROVE ~Fails(r.line, r.from, r.back)
    <2>. DEFINE bad == BadSymbols(At(sections, r.line), sections[r.line[1]].top)
                       \cup IF Fails(r.line, r.from, r.back) THEN {"overflow"} ELSE {}
    <2>1. LineErrors(r) = {}
      BY <1>2
    <2>2. LineErrors(r) = {Error(r.line[1], At(sections, r.line).source, e) : e \in bad}
      BY DEF LineErrors
    <2>. HIDE DEF bad
    <2>3. bad = {}
      BY <2>1, <2>2
    <2>. QED
      BY <2>3 DEF bad
  <1>. HIDE DEF wrong
  <1>3. PICK ok, work : ok \in BOOLEAN /\ ok = (wrong = {}) /\ work = [u \in {6} |-> <<Image>>]
    OBVIOUS
  <1>4. 5 \in Stages /\ DOMAIN work = {6} /\ Requeue(5, ok, work) /\ \A u \in 1 .. 8 : u \in Stages
    BY <1>1, <1>3, StageNumbers
  <1>5. /\ queue[5] # << >> /\ (\A u \in Stages \ {5} : queue[u] = << >>) /\ ~failed
        /\ 5 < target /\ target \in Nat /\ phase' = phase
    <2>1. Take(5) /\ 5 \in Stages
      BY <1>1, <1>4
    <2>2. /\ queue[5] # << >> /\ (\A u \in Stages \ {5} : queue[u] = << >>) /\ ~failed /\ 5 < target
      BY <2>1, Taken
    <2>3. target \in Nat
      BY StageNumbers DEF AsmInv, DriverSound
    <2>4. phase' = phase
      BY <1>4 DEF Requeue
    <2>. QED
      BY <2>2, <2>3, <2>4
  <1>6. \A u \in 1 .. 8 : u # 6 => queue'[u] = << >>
    <2>1. ok \in BOOLEAN
      BY <1>3
    <2>2. \A u \in Stages : u # 6 /\ queue'[u] # << >> => u # 5 /\ queue[u] # << >>
      BY <1>4, <2>1, HandedOn
    <2>. QED
      BY <1>4, <1>5, <2>2
  <1>7. Sane /\ ~Assembled /\ image' = << >>
    BY <1>1, <1>4, <1>5 DEF ImageInv, Done, Assembled
  <1>8. WellRead' /\ Sane' /\ Programs' = Programs
    BY <1>1, <1>7, SectionsStay DEF ImageInv
  <1>9. phase' = "os" => User \notin Programs'
    <2>1. 5 \in 4 .. 8
      OBVIOUS
    <2>. QED
      BY <1>5, <1>8, <2>1, BeyondChecks
  <1>10. ~ToBeChecked'
    <2>1. ~Open'
      BY NoneOpened
    <2>. QED
      BY <1>6, <1>9, <2>1 DEF ToBeChecked
  <1>11. ASSUME ~failed' PROVE LaidOut'
    <2>1. wrong = {}
      BY <1>3, <1>4, <1>11 DEF Requeue
    <2>2. \A p \in Programs : NoneFails(p)
      BY <1>2, <2>1 DEF NoneFails
    <2>3. Tree /\ Tops
      BY TreeIs DEF ImageInv
    <2>. QED
      BY <2>2, <2>3, AssignedLaid
  <1>12. Done' /\ queue'[5] = << >>
    BY <1>6 DEF Done
  <1>. QED
    BY <1>7, <1>8, <1>9, <1>10, <1>11, <1>12 DEF ImageInv

\* The packing of the image, and what comes after it.
LEMMA ImagePack ==
    ASSUME AsmInv, NameInv, ImageInv, PackImage \/ Finish
    PROVE  ImageInv'
  <1>1. PICK st, work : st \in 6 .. 7 /\ Take(st) /\ Requeue(st, TRUE, work) /\ DOMAIN work = {st + 1}
    <2>1. CASE PackImage
      <3>1. Take(6) /\ Requeue(6, TRUE, [u \in {7} |-> <<Image>>])
        BY <2>1, StageNumbers DEF PackImage
      <3>2. 6 \in 6 .. 7 /\ DOMAIN [u \in {7} |-> <<Image>>] = {6 + 1}
        OBVIOUS
      <3>. QED
        BY <3>1, <3>2
    <2>2. CASE Finish
      <3>1. Take(7) /\ Requeue(7, TRUE, [u \in {8} |-> queue[7]])
        BY <2>2, StageNumbers DEF Finish
      <3>2. 7 \in 6 .. 7 /\ DOMAIN [u \in {8} |-> queue[7]] = {7 + 1}
        OBVIOUS
      <3>. QED
        BY <3>1, <3>2
    <2>. QED
      BY <2>1, <2>2
  <1>2. UNCHANGED <<sections, places>> /\ (image' = image \/ PackImage)
    BY DEF PackImage, Finish, text, layout
  <1>3. st \in Stages /\ \A u \in 1 .. 8 : u \in Stages
    BY <1>1, StageNumbers
  <1>4. ~failed /\ Done /\ queue[st] # << >> /\ st < target /\ target \in Nat /\ phase' = phase
    <2>1. phase' = phase
      BY <1>1 DEF Requeue
    <2>2. target \in Nat
      BY StageNumbers DEF AsmInv, DriverSound
    <2>3. st >= 6
      BY <1>1
    <2>4. ~failed /\ Done /\ queue[st] # << >> /\ st < target
      BY <1>1, <1>3, <2>3, Taken
    <2>. QED
      BY <2>1, <2>2, <2>4
  <1>5. \A u \in 1 .. 6 : queue'[u] # << >> => queue[u] # << >> /\ u # st
    <2>1. \A u \in Stages : u # st + 1 /\ queue'[u] # << >> => u # st /\ queue[u] # << >>
      BY <1>1, <1>3, HandedOn
    <2>. QED
      BY <1>1, <1>3, <2>1
  <1>6. Done' /\ queue'[4] = << >> /\ queue'[5] = << >> /\ (queue'[6] # << >> => queue[6] # << >>)
    BY <1>4, <1>5 DEF Done
  <1>7. phase = "os" => User \notin Programs
    <2>1. st \in 4 .. 8
      BY <1>1
    <2>. QED
      BY <1>4, <2>1, BeyondChecks
  <1>8. /\ WellRead' /\ Sane' = Sane /\ Programs' = Programs /\ LaidOut' = LaidOut
        /\ \A p : BaseOf(p)' = BaseOf(p)
    BY <1>2, SectionsStay DEF ImageInv
  <1>9. ~ToBeChecked'
    <2>1. ~Open'
      BY NoneOpened
    <2>. QED
      BY <1>4, <1>6, <1>7, <1>8, <2>1 DEF ToBeChecked
  <1>10. ASSUME PackImage PROVE Assembled /\ PackedUp'
    <2>1. Take(6) /\ image' = [p \in Programs |-> [at |-> BaseOf(p), lines |-> Packed(sections)[p]]]
      BY <1>10, StageNumbers DEF PackImage
    <2>2. queue[6] # << >>
      BY <1>3, <2>1, Taken
    <2>. QED
      BY <1>2, <1>8, <2>1, <2>2 DEF Assembled, PackedUp
  <1>11. ASSUME image' = image PROVE (Assembled' => Assembled) /\ (image' # << >> => PackedUp')
    <2>1. PackedUp' = PackedUp
      BY <1>2, <1>11, SectionsStay
    <2>. QED
      BY <1>4, <1>6, <1>11, <2>1 DEF Assembled, ImageInv
  <1>12. Assembled' => Assembled /\ Sane /\ LaidOut
    BY <1>2, <1>4, <1>10, <1>11 DEF ImageInv
  <1>. QED
    BY <1>2, <1>4, <1>6, <1>7, <1>8, <1>9, <1>10, <1>11, <1>12 DEF ImageInv

\* The invariant is kept by every step ...
LEMMA ImageStep ==
    ASSUME AsmInv, CircleInv, TreeInv, TidyInv, NameInv, ImageInv, [AsmNext]_asmVars
    PROVE  ImageInv'
  <1>1. CASE Ignore \/ GiveUp \/ EndLoop \/ UNCHANGED asmVars
    BY <1>1, ImageDriver
  <1>2. CASE Tokenize
    BY <1>2, ImageTokenize
  <1>3. CASE Preprocess
    BY <1>3, ImagePreprocess
  <1>4. CASE Parse
    BY <1>4, ImageParse
  <1>5. CASE CheckSanity
    BY <1>5, ImageCheckSanity
  <1>6. CASE AssignAddresses
    BY <1>6, ImageAssign
  <1>7. CASE PackImage \/ Finish
    BY <1>7, ImagePack
  <1>. QED
    BY <1>1, <1>2, <1>3, <1>4, <1>5, <1>6, <1>7 DEF AsmNext, Returned

\* ... and holds at the start.
LEMMA ImageInit ==
    ASSUME AsmInit
    PROVE  ImageInv
  <1>1. \A s \in DOMAIN sections : sections[s].ir = << >>
    BY FirstSections
  <1>2. WellRead /\ Unchecked
    <2>1. DOMAIN << >> = {} /\ {} = 1 .. 0 /\ 0 \in Nat
      OBVIOUS
    <2>. QED
      BY <1>1, <2>1 DEF WellRead, ReadWell, Unchecked
  <1>3. queue[5] = << >> /\ queue[6] = << >> /\ image = << >>
    <2>1. queue = [st \in Stages |-> IF st = Stage.RAW THEN <<OS>> ELSE << >>] /\ image = << >>
      BY DEF AsmInit
    <2>2. 5 \in Stages /\ 6 \in Stages /\ Stage.RAW = 1
      BY StageNumbers
    <2>. QED
      BY <2>1, <2>2
  <1>. QED
    BY <1>2, <1>3 DEF ImageInv, Assembled

\* Whatever is assembled, and whichever macros with .ALIGNs in them it is made of, an
\* image that is packed holds each line at the address assigned to it (masm/backend's
\* two passes and Packed's of masm/elf agree).
THEOREM ImageAlwaysInPlace == AsmSpec => []ImageInPlace
  <1>1. AsmInit => ImageInv
    BY ImageInit
  <1>2. AsmInv /\ CircleInv /\ TreeInv /\ TidyInv /\ NameInv /\ ImageInv /\ [AsmNext]_asmVars => ImageInv'
    BY ImageStep
  <1>3. AsmInv /\ TreeInv /\ ImageInv => ImageInPlace
    <2>. SUFFICES ASSUME AsmInv, TreeInv, ImageInv, Succeeded, image # << >> PROVE ImageInPlace
      BY DEF ImageInPlace
    <2>1. Sane /\ LaidOut /\ PackedUp
      BY DEF ImageInv, Assembled, Succeeded
    <2>2. Tree /\ Tops
      BY TreeIs DEF ImageInv
    <2>. QED
      BY <2>1, <2>2, AllInPlace
  <1>. QED
    BY <1>1, <1>2, <1>3, NamesAlways, PTL DEF AsmSpec
=============================================================================
