--------------------------- MODULE Pep10AluProofs ---------------------------
(***************************************************************************)
(* The arithmetic is right on words of every width, not only the short     *)
(* ones the model checker enumerates; and the decoding table, which is     *)
(* filled by binary search, inverts the encoder.                           *)
(***************************************************************************)
EXTENDS Pep10IsaMC, SequenceTheorems, TLAPS, WellFoundedInduction

\* Reducing a number below twice the modulus subtracts the modulus at most once.
LEMMA ModTwice ==
    ASSUME NEW M \in Nat \ {0}, NEW x \in 0 .. 2 * M - 1
    PROVE  x % M = IF x < M THEN x ELSE x - M
  <1>1. x < M => x % M = x
    OBVIOUS
  <1>2. x >= M => x % M = x - M
    OBVIOUS
  <1>. QED
    BY <1>1, <1>2

\* The operands of the arithmetic are words and the carry is a bit.
OperandsOK == reg \in Word /\ op \in Word /\ carry \in BOOLEAN

\* The modulus, as the provers need it.
LEMMA Modulus == Sign \in Nat \ {0} /\ WordMod \in Nat \ {0} /\ WordMod = 2 * Sign
  BY BitsAssumption

\* Sums and negations of words are words.
LEMMA PlusIsSum ==
    ASSUME NEW a \in Word, NEW b \in Word
    PROVE  /\ Plus(a, b) \in Word
           /\ Plus(a, b) = IF a + b < WordMod THEN a + b ELSE a + b - WordMod
  <1>. DEFINE s == a + b
  <1>1. s \in 0 .. 2 * WordMod - 1
    BY Modulus DEF Word
  <1>2. s % WordMod = IF s < WordMod THEN s ELSE s - WordMod
    <2>. HIDE DEF s
    <2>. QED  BY <1>1, ModTwice, Modulus
  <1>3. Plus(a, b) = IF s < WordMod THEN s ELSE s - WordMod
    BY <1>2 DEF Plus
  <1>. QED
    BY <1>1, <1>3, Modulus DEF Word

\* Negation is subtraction from zero.
LEMMA NegateIsMinus ==
    ASSUME NEW w \in Word
    PROVE  /\ Negate(w) \in Word
           /\ Negate(w) = IF w = 0 THEN 0 ELSE WordMod - w
  <1>. DEFINE s == Complement(w) + 1
  <1>1. s \in 0 .. 2 * WordMod - 1 /\ s = WordMod - w
    BY Modulus DEF Word, Complement
  <1>2. s % WordMod = IF s < WordMod THEN s ELSE s - WordMod
    <2>. HIDE DEF s
    <2>. QED  BY <1>1, ModTwice, Modulus
  <1>3. Negate(w) = IF s < WordMod THEN s ELSE s - WordMod
    BY <1>2 DEF Negate
  <1>. QED
    BY <1>1, <1>3, Modulus DEF Word

\* The operands stay words (the type invariant of AluSpec).
THEOREM OperandsAlwaysOK == AluSpec => []OperandsOK
  <1>1. AluInit => OperandsOK
    BY DEF AluInit, OperandsOK
  <1>2. OperandsOK /\ [AluNext]_operands => OperandsOK'
    <2>. SUFFICES ASSUME OperandsOK, [AluNext]_operands PROVE OperandsOK'
      OBVIOUS
    <2>1. CASE UNCHANGED operands
      BY <2>1 DEF OperandsOK, operands
    <2>2. CASE AluNext
      <3>1. (reg + 1) % WordMod \in Word /\ (op + 1) % WordMod \in Word
        BY Modulus DEF OperandsOK, Word
      <3>2. carry' \in BOOLEAN
        BY <2>2 DEF AluNext
      <3>. QED
        BY <2>2, <3>1, <3>2 DEF AluNext, OperandsOK
    <2>. QED
      BY <2>1, <2>2
  <1>. QED
    BY <1>1, <1>2, PTL DEF AluSpec

\* ADD sets N, Z, V and C as the sum of the operands requires, whatever the width.
THEOREM AddAlwaysSums == AluSpec => []AddIsSum
  <1>1. OperandsOK => AddIsSum
    <2>. SUFFICES ASSUME OperandsOK PROVE AddIsSum
      OBVIOUS
    <2>. DEFINE res == Plus(reg, op)
    <2>1. reg \in Word /\ op \in Word
      BY DEF OperandsOK
    <2>2. res \in Word /\ res = IF reg + op < WordMod THEN reg + op ELSE reg + op - WordMod
      <3>. HIDE DEF res
      <3>1. Plus(reg, op) \in Word
        BY <2>1, PlusIsSum
      <3>2. Plus(reg, op) = IF reg + op < WordMod THEN reg + op ELSE reg + op - WordMod
        BY <2>1, PlusIsSum, Zenon
      <3>. QED
        BY <3>1, <3>2 DEF res
    <2>3. res = (reg + op) % WordMod
      BY DEF Plus
    <2>4. Add(reg, op).word = res
      BY DEF Add, WithVC, Result
    <2>5. /\ Add(reg, op).csr.N = Negative(res) /\ Add(reg, op).csr.Z = (res = 0)
          /\ Add(reg, op).csr.V = SignRule(reg, op, res)
          /\ Add(reg, op).csr.C = (res < reg \/ res < op)
      BY DEF Add, WithVC, Result
    <2>. HIDE DEF res
    <2>6. NZRight(Add(reg, op))
      <3>1. Negative(res) <=> Signed(res) < 0
        BY <2>2, Modulus DEF Negative, Signed, Word
      <3>. QED
        BY <3>1, <2>4, <2>5, Zenon DEF NZRight
    <2>7. SignRule(reg, op, res) <=> ~Fits(Signed(reg) + Signed(op))
      BY <2>1, <2>2, Modulus DEF SignRule, Fits, Negative, Signed, Word
    <2>8. ~SignRule(reg, op, res) => Signed(res) = Signed(reg) + Signed(op)
      BY <2>1, <2>2, Modulus DEF SignRule, Negative, Signed, Word
    <2>9. (res < reg \/ res < op) <=> reg + op >= WordMod
      BY <2>1, <2>2, Modulus DEF Word
    <2>. QED
      BY <2>3, <2>4, <2>5, <2>6, <2>7, <2>8, <2>9 DEF AddIsSum
  <1>. QED
    BY <1>1, OperandsAlwaysOK, PTL

\* Reducing a difference adds the modulus at most once.
LEMMA ModDifference ==
    ASSUME NEW M \in Nat \ {0}, NEW x \in -M .. M - 1
    PROVE  x % M = IF x < 0 THEN x + M ELSE x
  <1>1. x >= 0 => x % M = x
    OBVIOUS
  <1>2. x < 0 => x % M = x + M
    OBVIOUS
  <1>. QED
    BY <1>1, <1>2

\* SUB computes the difference modulo the words, with C the absence of a borrow; the
\* comparisons find equality, of words and of low bytes.
THEOREM SubAlwaysSubtracts == AluSpec => []SubIsDifference
  <1>1. OperandsOK => SubIsDifference
    <2>. SUFFICES ASSUME OperandsOK PROVE SubIsDifference
      OBVIOUS
    <2>. DEFINE neg == Negate(op)
                res == Plus(reg, neg)
                dif == reg - op
    <2>1. reg \in Word /\ op \in Word
      BY DEF OperandsOK
    <2>2. neg \in Word /\ neg = IF op = 0 THEN 0 ELSE WordMod - op
      BY <2>1, NegateIsMinus
    <2>3. res \in Word /\ res = IF reg + neg < WordMod THEN reg + neg ELSE reg + neg - WordMod
      <3>. HIDE DEF neg
      <3>. QED
        BY <2>1, <2>2, PlusIsSum
    <2>4. dif \in -WordMod .. WordMod - 1 /\ reg \in Nat /\ op \in Nat
      BY <2>1, Modulus DEF Word
    <2>5. dif % WordMod = IF dif < 0 THEN dif + WordMod ELSE dif
      <3>. HIDE DEF dif
      <3>. QED
        BY <2>4, Modulus, ModDifference
    <2>6. Sub(reg, op).word = res /\ Sub(reg, op).csr.C = (res < reg \/ res < neg)
      BY DEF Sub, WithVC, Result
    <2>7. CompareWord(reg, op).Z = (res = 0)
      BY DEF CompareWord, Sub, WithVC, Result
    <2>8. CompareByte(reg, op, 4).Z = (res % 4 = 0)
      BY DEF CompareByte
    <2>. HIDE DEF neg, res
    <2>9. res = IF op <= reg THEN reg - op ELSE reg - op + WordMod
      BY <2>2, <2>3, <2>4, Modulus DEF Word
    <2>10. res = (reg - op) % WordMod
      BY <2>4, <2>5, <2>9
    <2>11. res = 0 <=> reg = op
      BY <2>1, <2>4, <2>9, Modulus DEF Word
    <2>12. (res < reg \/ res < neg) <=> op # 0 /\ reg >= op
      BY <2>1, <2>2, <2>4, <2>9, Modulus DEF Word
    <2>13. res % 4 = 0 <=> reg % 4 = op % 4
      <3>1. PICK q \in Nat : WordMod = 4 * q
        <4>1. PICK q : q = 2 ^ (Bits - 2)
          OBVIOUS
        <4>2. q \in Nat /\ WordMod = 4 * q
          BY <4>1, BitsAssumption
        <4>. QED
          BY <4>2
      <3>. QED
        BY <3>1, <2>4, <2>9
    <2>. QED
      BY <2>6, <2>7, <2>8, <2>10, <2>11, <2>12, <2>13 DEF SubIsDifference
  <1>. QED
    BY <1>1, OperandsAlwaysOK, PTL

-----------------------------------------------------------------------------
(* The unary instructions. *)

\* What the signed reading of a word is.
LEMMA SignedWord ==
    ASSUME NEW w \in Word
    PROVE  /\ w \in Nat /\ w < WordMod
           /\ Negative(w) <=> Sign <= w
           /\ Signed(w) = IF Sign <= w THEN w - WordMod ELSE w
           /\ Signed(w) < 0 <=> Sign <= w
  BY Modulus DEF Word, Negative, Signed

\* N and Z of a result that takes them from its word.
LEMMA NZOfWord ==
    ASSUME NEW r, r.word \in Word, r.csr.N = Negative(r.word), r.csr.Z = (r.word = 0)
    PROVE  NZRight(r)
  <1>1. Negative(r.word) <=> Signed(r.word) < 0
    BY SignedWord
  <1>. QED
    BY <1>1, Zenon DEF NZRight

\* The complement of a word is a word, and an involution.
LEMMA ComplementTwice ==
    ASSUME NEW w \in Word
    PROVE  Complement(w) \in Word /\ Complement(Complement(w)) = w
  BY Modulus DEF Word, Complement

\* NEG and NOT.
LEMMA NegExact == OperandsOK => NegIsNegative
  <1>. SUFFICES ASSUME OperandsOK PROVE NegIsNegative
    OBVIOUS
  <1>. DEFINE r == Neg(reg)
              n == Not(reg)
              res == Negate(reg)
  <1>1. reg \in Word
    BY DEF OperandsOK
  <1>2. res \in Word /\ res = IF reg = 0 THEN 0 ELSE WordMod - reg
    BY <1>1, NegateIsMinus
  <1>3. r.word = res /\ r.csr.N = Negative(res) /\ r.csr.Z = (res = 0) /\ r.csr.V = (res = Sign)
    BY DEF Neg, Result
  <1>4. /\ n.word = Complement(reg) /\ n.csr.N = Negative(Complement(reg))
        /\ n.csr.Z = (Complement(reg) = 0) /\ Not(n.word).word = Complement(n.word)
    BY DEF Not, Result, NZ
  <1>. HIDE DEF r, n, res
  <1>5. NZRight(r)
    BY <1>2, <1>3, NZOfWord
  <1>6. Complement(reg) \in Word /\ Complement(Complement(reg)) = reg
    BY <1>1, ComplementTwice
  <1>7. NZRight(n)
    BY <1>4, <1>6, NZOfWord
  <1>8. res = Sign <=> ~Fits(0 - Signed(reg))
    BY <1>1, <1>2, Modulus, SignedWord DEF Fits
  <1>9. res # Sign => Signed(res) = 0 - Signed(reg)
    BY <1>1, <1>2, Modulus, SignedWord
  <1>. QED
    BY <1>3, <1>4, <1>5, <1>6, <1>7, <1>8, <1>9 DEF NegIsNegative, r, n

\* Twice a word, reduced.
LEMMA Doubled ==
    ASSUME NEW w \in Word
    PROVE  /\ (2 * w) % WordMod \in Word
           /\ (2 * w) % WordMod = IF w < Sign THEN 2 * w ELSE 2 * w - WordMod
  <1>. DEFINE s == 2 * w
  <1>1. s \in 0 .. 2 * WordMod - 1 /\ w \in Nat
    BY Modulus DEF Word
  <1>2. s % WordMod = IF s < WordMod THEN s ELSE s - WordMod
    <2>. HIDE DEF s
    <2>. QED  BY <1>1, ModTwice, Modulus
  <1>. QED
    BY <1>1, <1>2, Modulus DEF Word

\* Quotient and remainder by two.
LEMMA ByTwo ==
    ASSUME NEW w \in Int, NEW q \in Int, NEW r \in {0, 1}, w = 2 * q + r
    PROVE  w \div 2 = q /\ w % 2 = r
  OBVIOUS

\* A word, halved.
LEMMA Halved ==
    ASSUME NEW w \in Word
    PROVE  \E q \in Nat, r \in {0, 1} :
              q < Sign /\ w = 2 * q + r /\ w \div 2 = q /\ w % 2 = r
  <1>. DEFINE q == w \div 2
              r == w % 2
  <1>1. w \in Nat /\ w < 2 * Sign /\ Sign \in Nat
    BY Modulus DEF Word
  <1>2. r \in {0, 1} /\ q \in Int /\ r = w - 2 * q
    BY <1>1, Z3
  <1>3. q \in Nat /\ q < Sign /\ w = 2 * q + r
    <2>. HIDE DEF q, r
    <2>. QED
      BY <1>1, <1>2
  <1>. QED
    BY <1>2, <1>3

\* ASL and ASR.
LEMMA ShiftsExact == OperandsOK => ShiftsScale
  <1>. SUFFICES ASSUME OperandsOK PROVE ShiftsScale
    OBVIOUS
  <1>. DEFINE l == ShiftLeft(reg)
              r == ShiftRight(reg)
              dbl == (2 * reg) % WordMod
              half == reg \div 2
              hlv == half + (IF Negative(reg) THEN Sign ELSE 0)
  <1>1. reg \in Word
    BY DEF OperandsOK
  <1>2. dbl \in Word /\ dbl = IF reg < Sign THEN 2 * reg ELSE 2 * reg - WordMod
    BY <1>1, Doubled
  <1>3. PICK q \in Nat, b \in {0, 1} :
           q < Sign /\ reg = 2 * q + b /\ half = q /\ reg % 2 = b
    BY <1>1, Halved
  <1>4. /\ l.word = dbl /\ l.csr.N = Negative(dbl) /\ l.csr.Z = (dbl = 0)
        /\ l.csr.V = (Negative(reg) # Negative(dbl)) /\ l.csr.C = Negative(reg)
    BY DEF ShiftLeft, WithVC, Result
  <1>5. /\ r.word = hlv /\ r.csr.N = Negative(hlv) /\ r.csr.Z = (hlv = 0)
        /\ r.csr.C = (reg % 2 = 1)
    BY DEF ShiftRight, Result
  <1>6. hlv = IF Sign <= reg THEN half + Sign ELSE half
    BY <1>1, SignedWord
  <1>. HIDE DEF l, r, dbl, half, hlv
  <1>7. hlv \in Word
    BY <1>1, <1>3, <1>6, Modulus, SignedWord DEF Word
  <1>8. NZRight(l) /\ NZRight(r)
    BY <1>2, <1>4, <1>5, <1>7, NZOfWord
  <1>9. (Negative(reg) # Negative(dbl)) <=> ~Fits(2 * Signed(reg))
    <2>1. reg \in Nat /\ reg < WordMod /\ WordMod = 2 * Sign /\ Sign \in Nat \ {0}
      BY <1>1, Modulus, SignedWord
    <2>2. (Negative(reg) # Negative(dbl)) <=> ~ (Sign <= reg <=> Sign <= dbl)
      BY DEF Negative
    <2>3. Fits(2 * Signed(reg)) <=> IF Sign <= reg THEN 3 * Sign <= 2 * reg ELSE 2 * reg < Sign
      BY <2>1, <1>1, SignedWord DEF Fits
    <2>. QED
      BY <1>2, <2>1, <2>2, <2>3
  <1>10. Negative(reg) = Negative(dbl) => Signed(dbl) = 2 * Signed(reg)
    BY <1>1, <1>2, Modulus, SignedWord
  <1>11. Negative(reg) <=> 2 * reg >= WordMod
    BY <1>1, Modulus, SignedWord
  <1>12. Signed(hlv) = (IF Sign <= reg THEN q - Sign ELSE q) /\ Signed(hlv) \in Int
    BY <1>1, <1>3, <1>6, <1>7, Modulus, SignedWord
  <1>13. Signed(reg) = 2 * Signed(hlv) + b /\ Signed(reg) \in Int
    BY <1>1, <1>3, <1>12, Modulus, SignedWord
  <1>14. Signed(hlv) = Signed(reg) \div 2
    BY <1>12, <1>13, ByTwo
  <1>15. reg % 2 = 1 <=> Signed(hlv) * 2 # Signed(reg)
    BY <1>3, <1>12, <1>13
  <1>. QED
    BY <1>4, <1>5, <1>8, <1>9, <1>10, <1>11, <1>14, <1>15 DEF ShiftsScale, l, r

\* ROL and ROR.
LEMMA RotationsExact == OperandsOK => RotationsInvert
  <1>. SUFFICES ASSUME OperandsOK PROVE RotationsInvert
    OBVIOUS
  <1>. DEFINE l == RotateLeft(reg, carry)
              r == RotateRight(reg, carry)
              low == IF carry THEN 1 ELSE 0
              high == IF carry THEN Sign ELSE 0
              left == ((2 * reg) % WordMod) + low
              right == reg \div 2 + high
  <1>1. reg \in Word /\ carry \in BOOLEAN
    BY DEF OperandsOK
  <1>2. l.word = left /\ l.csr.C = Negative(reg) /\ r.word = right /\ r.csr.C = (reg % 2 = 1)
    BY DEF RotateLeft, RotateRight, Result
  <1>3. low \in {0, 1} /\ (low = 1 <=> carry) /\ high = IF low = 1 THEN Sign ELSE 0
    BY <1>1
  <1>4. (2 * reg) % WordMod = IF reg < Sign THEN 2 * reg ELSE 2 * reg - WordMod
    BY <1>1, Doubled
  <1>5. PICK q \in Nat, b \in {0, 1} :
           q < Sign /\ reg = 2 * q + b /\ reg \div 2 = q /\ reg % 2 = b
    BY <1>1, Halved
  <1>. HIDE DEF l, r, low, high, left, right
  <1>6. RotateRight(l.word, l.csr.C) = Result(reg, [C |-> carry])
    <2>1. PICK d : d = IF reg < Sign THEN reg ELSE reg - Sign
      OBVIOUS
    <2>2. d \in Int /\ (2 * reg) % WordMod = 2 * d
      BY <2>1, <1>1, <1>4, Modulus, SignedWord
    <2>3. left = 2 * d + low /\ left \in Int
      BY <2>2, <1>3 DEF left
    <2>4. left \div 2 = d /\ left % 2 = low
      BY <2>2, <2>3, <1>3, ByTwo
    <2>5. d + (IF Negative(reg) THEN Sign ELSE 0) = reg
      BY <2>1, <1>1, Modulus, SignedWord
    <2>6. (left % 2 = 1) = carry
      BY <2>4, <1>1, <1>3
    <2>. QED
      BY <2>4, <2>5, <2>6, <1>2 DEF RotateRight
  <1>7. RotateLeft(r.word, r.csr.C) = Result(reg, [C |-> carry])
    <2>1. right = q + (IF low = 1 THEN Sign ELSE 0)
      BY <1>3, <1>5 DEF right
    <2>2. right \in Word /\ (Sign <= right <=> low = 1)
      BY <2>1, <1>3, <1>5, Modulus DEF Word
    <2>3. (2 * right) % WordMod = IF right < Sign THEN 2 * right ELSE 2 * right - WordMod
      BY <2>2, Doubled
    <2>4. (2 * right) % WordMod = 2 * q
      BY <2>1, <2>3, <1>3, <1>5, Modulus
    <2>5. ((2 * right) % WordMod) + (IF reg % 2 = 1 THEN 1 ELSE 0) = reg
      BY <2>4, <1>5
    <2>6. Negative(right) = carry
      BY <2>2, <1>1, <1>3 DEF Negative
    <2>. QED
      BY <2>5, <2>6, <1>2 DEF RotateLeft
  <1>. QED
    BY <1>6, <1>7 DEF RotationsInvert, l, r

\* The unary instructions compute what their names say, whatever the width.
THEOREM UnariesAlwaysExact == AluSpec => []UnariesExact
  <1>1. OperandsOK => UnariesExact
    BY NegExact, ShiftsExact, RotationsExact DEF UnariesExact
  <1>. QED
    BY <1>1, OperandsAlwaysOK, PTL

-----------------------------------------------------------------------------
(* Decoding.  The instruction list is a concatenation of ten; Filled says what its     *)
(* entries are.  The search over it is a recursive function on ranges: SearchFinds     *)
(* shows that such a function exists, and that any is the one that finds Above(v).     *)

Elements(s) == {s[i] : i \in DOMAIN s}

\* A table that ends in some entries.
Table(s, n, bits, class, names) ==
    /\ s \in Seq(Elements(s)) /\ Len(s) = n

LEMMA EntriesAre ==
    ASSUME NEW n \in Nat, NEW bits, NEW class, NEW names, DOMAIN names = 1 .. n,
           NEW e, e = Entry(bits, class, names)
    PROVE  /\ e \in Seq(Elements(e)) /\ Len(e) = n
           /\ \A i \in 1 .. n : e[i] = [bits |-> bits[i], class |-> class, mnemonic |-> names[i]]
  <1>1. DOMAIN e = 1 .. n
        /\ \A i \in 1 .. n : e[i] = [bits |-> bits[i], class |-> class, mnemonic |-> names[i]]
    BY DEF Entry
  <1>2. e = [i \in 1 .. n |-> e[i]]
    BY <1>1 DEF Entry
  <1>3. e \in [1 .. n -> Elements(e)]
    BY <1>1, <1>2 DEF Elements
  <1>4. e \in Seq(Elements(e)) /\ Len(e) = n
    BY <1>1, <1>3, SeqDef, LenProperties
  <1>. QED
    BY <1>1, <1>4

LEMMA JoinedAre ==
    ASSUME NEW s, NEW t, s \in Seq(Elements(s)), t \in Seq(Elements(t))
    PROVE  /\ s \o t \in Seq(Elements(s \o t)) /\ Len(s \o t) = Len(s) + Len(t)
           /\ \A i \in 1 .. Len(s) : (s \o t)[i] = s[i]
           /\ \A i \in 1 .. Len(t) : (s \o t)[Len(s) + i] = t[i]
  <1>. DEFINE S == Elements(s) \cup Elements(t)
  <1>1. s \in Seq(S) /\ t \in Seq(S)
    BY SeqMonotonic
  <1>. HIDE DEF S
  <1>2. PICK u : u = s \o t
    OBVIOUS
  <1>3. /\ u \in Seq(S) /\ Len(u) = Len(s) + Len(t) /\ Len(s) \in Nat /\ Len(t) \in Nat
        /\ \A i \in 1 .. Len(s) + Len(t) : u[i] = IF i <= Len(s) THEN s[i] ELSE t[i - Len(s)]
    BY <1>1, <1>2, ConcatProperties, LenProperties
  <1>4. u \in [1 .. Len(u) -> Elements(u)] /\ DOMAIN u = 1 .. Len(u) /\ Len(u) \in Nat
    <2>1. u \in [1 .. Len(u) -> S] /\ DOMAIN u = 1 .. Len(u) /\ Len(u) \in Nat
      BY <1>3, LenProperties
    <2>. QED
      BY <2>1 DEF Elements
  <1>5. u \in Seq(Elements(u))
    BY <1>4, SeqDef
  <1>6. \A i \in 1 .. Len(t) : Len(s) + i \in 1 .. Len(s) + Len(t) /\ ~(Len(s) + i <= Len(s))
                               /\ Len(s) + i - Len(s) = i
    BY <1>3
  <1>7. \A i \in 1 .. Len(s) : u[i] = s[i]
    BY <1>3
  <1>8. \A i \in 1 .. Len(t) : u[Len(s) + i] = t[i]
    BY <1>3, <1>6
  <1>. QED
    BY <1>2, <1>3, <1>5, <1>7, <1>8

\* The instructions one by one.
BitsOf(i) == IF i <= 10 THEN i - 1 ELSE IF i <= 22 THEN i + 5 ELSE IF i <= 32 THEN 2 * i - 18 ELSE 8 * i - 216
ClassOf(i) ==
    IF i <= 9 THEN "U_none" ELSE IF i = 10 THEN "Invalid" ELSE IF i <= 22 THEN "R_none"
    ELSE IF i <= 32 THEN "A_ix" ELSE IF i = 33 THEN "AAA_all" ELSE IF i = 34 THEN "AAA_i"
    ELSE IF i <= 38 THEN "RAAA_all" ELSE IF i <= 42 THEN "RAAA_noi"
    ELSE IF i <= 56 THEN "RAAA_all" ELSE "AAA_all"
Mnemonics ==
    <<"RET", "SRET", "MOVSPA", "MOVASP", "MOVFLGA", "MOVAFLG", "MOVTA", "USCALL", "NOP", "UNIMPL",
      "NOTA", "NOTX", "NEGA", "NEGX", "ASLA", "ASLX", "ASRA", "ASRX", "ROLA", "ROLX", "RORA", "RORX",
      "BR", "BRLE", "BRLT", "BREQ", "BRNE", "BRGE", "BRGT", "BRV", "BRC", "CALL", "SCALL", "LDWT",
      "LDWA", "LDWX", "LDBA", "LDBX", "STWA", "STWX", "STBA", "STBX",
      "CPWA", "CPWX", "CPBA", "CPBX", "ADDA", "ADDX", "SUBA", "SUBX",
      "ANDA", "ANDX", "ORA", "ORX", "XORA", "XORX", "ADDSP", "SUBSP">>

LEMMA MnemonicsDiffer ==
    \A i, j \in 1 .. 58 : Mnemonics[i] = Mnemonics[j] => i = j
  BY DEF Mnemonics

\* A table with the first n instructions.
Filled(s, n) ==
    /\ s \in Seq(Elements(s)) /\ Len(s) = n
    /\ \A i \in 1 .. n : s[i] = [bits |-> BitsOf(i), class |-> ClassOf(i), mnemonic |-> Mnemonics[i]]

\* Entries that come next in the table.
Following(n, m, bits, class, names) ==
    /\ DOMAIN names = 1 .. m
    /\ \A i \in 1 .. m : /\ bits[i] = BitsOf(n + i) /\ class = ClassOf(n + i)
                         /\ names[i] = Mnemonics[n + i]

LEMMA Extended ==
    ASSUME NEW n \in Nat, NEW m \in Nat, NEW s, Filled(s, n), NEW bits, NEW class, NEW names,
           Following(n, m, bits, class, names)
    PROVE  Filled(s \o Entry(bits, class, names), n + m)
  <1>. PICK e : e = Entry(bits, class, names)
    OBVIOUS
  <1>1. /\ e \in Seq(Elements(e)) /\ Len(e) = m
        /\ \A i \in 1 .. m : e[i] = [bits |-> bits[i], class |-> class, mnemonic |-> names[i]]
    BY m \in Nat, EntriesAre DEF Following
  <1>2. \A i \in 1 .. m : e[i] = [bits |-> BitsOf(n + i), class |-> ClassOf(n + i), mnemonic |-> Mnemonics[n + i]]
    BY <1>1 DEF Following
  <1>3. /\ s \o e \in Seq(Elements(s \o e)) /\ Len(s \o e) = n + m
        /\ \A i \in 1 .. n : (s \o e)[i] = s[i]
        /\ \A i \in 1 .. m : (s \o e)[n + i] = e[i]
    <2>1. s \in Seq(Elements(s)) /\ Len(s) = n
      BY DEF Filled
    <2>2. /\ s \o e \in Seq(Elements(s \o e)) /\ Len(s \o e) = Len(s) + Len(e)
          /\ \A i \in 1 .. Len(s) : (s \o e)[i] = s[i]
          /\ \A i \in 1 .. Len(e) : (s \o e)[Len(s) + i] = e[i]
      <3>1. e \in Seq(Elements(e))
        BY <1>1
      <3>. QED
        BY <2>1, <3>1, JoinedAre
    <2>. QED
      BY <1>1, <2>1, <2>2
  <1>4. ASSUME NEW i \in 1 .. n + m
        PROVE  (s \o e)[i] = [bits |-> BitsOf(i), class |-> ClassOf(i), mnemonic |-> Mnemonics[i]]
    <2>1. CASE i \in 1 .. n
      BY <1>3, <2>1 DEF Filled
    <2>2. CASE i \notin 1 .. n
      <3>1. i - n \in 1 .. m /\ n + (i - n) = i
        BY <2>2
      <3>. QED
        BY <1>2, <1>3, <3>1
    <2>. QED
      BY <2>1, <2>2
  <1>. QED
    BY <1>3, <1>4 DEF Filled

LEMMA InstructionsAre == Filled(Instructions, 58)
  <1>. DEFINE b1 == <<0, 1, 2, 3, 4, 5, 6, 7, 8>>
              n1 == <<"RET", "SRET", "MOVSPA", "MOVASP", "MOVFLGA", "MOVAFLG", "MOVTA", "USCALL", "NOP">>
              s1 == Entry(b1, "U_none", n1)
              b2 == <<9>>
              n2 == <<"UNIMPL">>
              s2 == s1 \o Entry(b2, "Invalid", n2)
              b3 == [i \in 1 .. 12 |-> 15 + i]
              n3 == <<"NOTA", "NOTX", "NEGA", "NEGX", "ASLA", "ASLX", "ASRA", "ASRX",
                      "ROLA", "ROLX", "RORA", "RORX">>
              s3 == s2 \o Entry(b3, "R_none", n3)
              b4 == [i \in 1 .. 10 |-> 26 + 2 * i]
              n4 == <<"BR", "BRLE", "BRLT", "BREQ", "BRNE", "BRGE", "BRGT", "BRV", "BRC", "CALL">>
              s4 == s3 \o Entry(b4, "A_ix", n4)
              b5 == <<48>>
              n5 == <<"SCALL">>
              s5 == s4 \o Entry(b5, "AAA_all", n5)
              b6 == <<56>>
              n6 == <<"LDWT">>
              s6 == s5 \o Entry(b6, "AAA_i", n6)
              b7 == [i \in 1 .. 4 |-> 56 + 8 * i]
              n7 == <<"LDWA", "LDWX", "LDBA", "LDBX">>
              s7 == s6 \o Entry(b7, "RAAA_all", n7)
              b8 == [i \in 1 .. 4 |-> 88 + 8 * i]
              n8 == <<"STWA", "STWX", "STBA", "STBX">>
              s8 == s7 \o Entry(b8, "RAAA_noi", n8)
              b9 == [i \in 1 .. 14 |-> 120 + 8 * i]
              n9 == <<"CPWA", "CPWX", "CPBA", "CPBX", "ADDA", "ADDX", "SUBA", "SUBX",
                      "ANDA", "ANDX", "ORA", "ORX", "XORA", "XORX">>
              s9 == s8 \o Entry(b9, "RAAA_all", n9)
              b10 == <<240, 248>>
              n10 == <<"ADDSP", "SUBSP">>
              s10 == s9 \o Entry(b10, "AAA_all", n10)
  <1>1. Following(0, 9, b1, "U_none", n1)
    <2>1. DOMAIN n1 = 1 .. 9
      OBVIOUS
    <2>2. \A i \in 1 .. 9 : b1[i] = BitsOf(0 + i) /\ "U_none" = ClassOf(0 + i)
      BY DEF BitsOf, ClassOf
    <2>3. \A i \in 1 .. 9 : n1[i] = Mnemonics[0 + i]
      BY DEF Mnemonics
    <2>. HIDE DEF b1, n1
    <2>. QED
      BY <2>1, <2>2, <2>3 DEF Following
  <1>2. Following(9, 1, b2, "Invalid", n2)
    <2>1. DOMAIN n2 = 1 .. 1
      OBVIOUS
    <2>2. \A i \in 1 .. 1 : b2[i] = BitsOf(9 + i) /\ "Invalid" = ClassOf(9 + i)
      BY DEF BitsOf, ClassOf
    <2>3. \A i \in 1 .. 1 : n2[i] = Mnemonics[9 + i]
      BY DEF Mnemonics
    <2>. HIDE DEF b2, n2
    <2>. QED
      BY <2>1, <2>2, <2>3 DEF Following
  <1>3. Following(10, 12, b3, "R_none", n3)
    <2>1. DOMAIN n3 = 1 .. 12
      OBVIOUS
    <2>2. \A i \in 1 .. 12 : b3[i] = BitsOf(10 + i) /\ "R_none" = ClassOf(10 + i)
      BY DEF BitsOf, ClassOf
    <2>3. \A i \in 1 .. 12 : n3[i] = Mnemonics[10 + i]
      BY DEF Mnemonics
    <2>. HIDE DEF b3, n3
    <2>. QED
      BY <2>1, <2>2, <2>3 DEF Following
  <1>4. Following(22, 10, b4, "A_ix", n4)
    <2>1. DOMAIN n4 = 1 .. 10
      OBVIOUS
    <2>2. \A i \in 1 .. 10 : b4[i] = BitsOf(22 + i) /\ "A_ix" = ClassOf(22 + i)
      BY DEF BitsOf, ClassOf
    <2>3. \A i \in 1 .. 10 : n4[i] = Mnemonics[22 + i]
      BY DEF Mnemonics
    <2>. HIDE DEF b4, n4
    <2>. QED
      BY <2>1, <2>2, <2>3 DEF Following
  <1>5. Following(32, 1, b5, "AAA_all", n5)
    <2>1. DOMAIN n5 = 1 .. 1
      OBVIOUS
    <2>2. \A i \in 1 .. 1 : b5[i] = BitsOf(32 + i) /\ "AAA_all" = ClassOf(32 + i)
      BY DEF BitsOf, ClassOf
    <2>3. \A i \in 1 .. 1 : n5[i] = Mnemonics[32 + i]
      BY DEF Mnemonics
    <2>. HIDE DEF b5, n5
    <2>. QED
      BY <2>1, <2>2, <2>3 DEF Following
  <1>6. Following(33, 1, b6, "AAA_i", n6)
    <2>1. DOMAIN n6 = 1 .. 1
      OBVIOUS
    <2>2. \A i \in 1 .. 1 : b6[i] = BitsOf(33 + i) /\ "AAA_i" = ClassOf(33 + i)
      BY DEF BitsOf, ClassOf
    <2>3. \A i \in 1 .. 1 : n6[i] = Mnemonics[33 + i]
      BY DEF Mnemonics
    <2>. HIDE DEF b6, n6
    <2>. QED
      BY <2>1, <2>2, <2>3 DEF Following
  <1>7. Following(34, 4, b7, "RAAA_all", n7)
    <2>1. DOMAIN n7 = 1 .. 4
      OBVIOUS
    <2>2. \A i \in 1 .. 4 : b7[i] = BitsOf(34 + i) /\ "RAAA_all" = ClassOf(34 + i)
      BY DEF BitsOf, ClassOf
    <2>3. \A i \in 1 .. 4 : n7[i] = Mnemonics[34 + i]
      BY DEF Mnemonics
    <2>. HIDE DEF b7, n7
    <2>. QED
      BY <2>1, <2>2, <2>3 DEF Following
  <1>8. Following(38, 4, b8, "RAAA_noi", n8)
    <2>1. DOMAIN n8 = 1 .. 4
      OBVIOUS
    <2>2. \A i \in 1 .. 4 : b8[i] = BitsOf(38 + i) /\ "RAAA_noi" = ClassOf(38 + i)
      BY DEF BitsOf, ClassOf
    <2>3. \A i \in 1 .. 4 : n8[i] = Mnemonics[38 + i]
      BY DEF Mnemonics
    <2>. HIDE DEF b8, n8
    <2>. QED
      BY <2>1, <2>2, <2>3 DEF Following
  <1>9. Following(42, 14, b9, "RAAA_all", n9)
    <2>1. DOMAIN n9 = 1 .. 14
      OBVIOUS
    <2>2. \A i \in 1 .. 14 : b9[i] = BitsOf(42 + i) /\ "RAAA_all" = ClassOf(42 + i)
      BY DEF BitsOf, ClassOf
    <2>3. \A i \in 1 .. 14 : n9[i] = Mnemonics[42 + i]
      BY DEF Mnemonics
    <2>. HIDE DEF b9, n9
    <2>. QED
      BY <2>1, <2>2, <2>3 DEF Following
  <1>10. Following(56, 2, b10, "AAA_all", n10)
    <2>1. DOMAIN n10 = 1 .. 2
      OBVIOUS
    <2>2. \A i \in 1 .. 2 : b10[i] = BitsOf(56 + i) /\ "AAA_all" = ClassOf(56 + i)
      BY DEF BitsOf, ClassOf
    <2>3. \A i \in 1 .. 2 : n10[i] = Mnemonics[56 + i]
      BY DEF Mnemonics
    <2>. HIDE DEF b10, n10
    <2>. QED
      BY <2>1, <2>2, <2>3 DEF Following
  <1>. HIDE DEF b1, n1, b2, n2, b3, n3, b4, n4, b5, n5, b6, n6, b7, n7, b8, n8, b9, n9, b10, n10
  <1>11. Filled(s1, 9)
    <2>1. \A i \in 1 .. 9 : 0 + i = i
      OBVIOUS
    <2>. HIDE DEF s1
    <2>2. DOMAIN n1 = 1 .. 9 /\ 9 \in Nat
      BY <1>1 DEF Following
    <2>3. /\ s1 \in Seq(Elements(s1)) /\ Len(s1) = 9
          /\ \A i \in 1 .. 9 : s1[i] = [bits |-> b1[i], class |-> "U_none", mnemonic |-> n1[i]]
      <3>1. s1 = Entry(b1, "U_none", n1)
        BY DEF s1
      <3>2. ASSUME NEW n \in Nat, NEW c, DOMAIN n1 = 1 .. n, s1 = Entry(b1, c, n1)
            PROVE  /\ s1 \in Seq(Elements(s1)) /\ Len(s1) = n
                   /\ \A i \in 1 .. n : s1[i] = [bits |-> b1[i], class |-> c, mnemonic |-> n1[i]]
        BY <3>2, EntriesAre
      <3>. QED
        BY <2>2, <3>1, <3>2
    <2>4. \A i \in 1 .. 9 : b1[i] = BitsOf(i) /\ "U_none" = ClassOf(i) /\ n1[i] = Mnemonics[i]
      BY <1>1, <2>1 DEF Following
    <2>. QED
      BY <2>3, <2>4 DEF Filled
  <1>12. Filled(s2, 10)
    <2>. HIDE DEF s1
    <2>1. 9 + 1 = 10 /\ 9 \in Nat /\ 1 \in Nat
      OBVIOUS
    <2>. QED
      BY <1>2, <1>11, <2>1, Extended
  <1>13. Filled(s3, 22)
    <2>. HIDE DEF s2
    <2>1. 10 + 12 = 22 /\ 10 \in Nat /\ 12 \in Nat
      OBVIOUS
    <2>. QED
      BY <1>3, <1>12, <2>1, Extended
  <1>14. Filled(s4, 32)
    <2>. HIDE DEF s3
    <2>1. 22 + 10 = 32 /\ 22 \in Nat /\ 10 \in Nat
      OBVIOUS
    <2>. QED
      BY <1>4, <1>13, <2>1, Extended
  <1>15. Filled(s5, 33)
    <2>. HIDE DEF s4
    <2>1. 32 + 1 = 33 /\ 32 \in Nat /\ 1 \in Nat
      OBVIOUS
    <2>. QED
      BY <1>5, <1>14, <2>1, Extended
  <1>16. Filled(s6, 34)
    <2>. HIDE DEF s5
    <2>1. 33 + 1 = 34 /\ 33 \in Nat /\ 1 \in Nat
      OBVIOUS
    <2>. QED
      BY <1>6, <1>15, <2>1, Extended
  <1>17. Filled(s7, 38)
    <2>. HIDE DEF s6
    <2>1. 34 + 4 = 38 /\ 34 \in Nat /\ 4 \in Nat
      OBVIOUS
    <2>. QED
      BY <1>7, <1>16, <2>1, Extended
  <1>18. Filled(s8, 42)
    <2>. HIDE DEF s7
    <2>1. 38 + 4 = 42 /\ 38 \in Nat /\ 4 \in Nat
      OBVIOUS
    <2>. QED
      BY <1>8, <1>17, <2>1, Extended
  <1>19. Filled(s9, 56)
    <2>. HIDE DEF s8
    <2>1. 42 + 14 = 56 /\ 42 \in Nat /\ 14 \in Nat
      OBVIOUS
    <2>. QED
      BY <1>9, <1>18, <2>1, Extended
  <1>20. Filled(s10, 58)
    <2>. HIDE DEF s9
    <2>1. 56 + 2 = 58 /\ 56 \in Nat /\ 2 \in Nat
      OBVIOUS
    <2>. QED
      BY <1>10, <1>19, <2>1, Extended
  <1>21. Instructions = s10
    BY DEF Instructions, b1, n1, b2, n2, b3, n3, b4, n4, b5, n5, b6, n6, b7, n7, b8, n8, b9, n9, b10, n10
  <1>. HIDE DEF s10
  <1>. QED
    BY <1>20, <1>21

\* Induction, as the provers can use it: a nonempty set of naturals has a least element.
LEMMA Least ==
    ASSUME NEW T \in SUBSET Nat, T # {}
    PROVE  \E n \in T : \A m \in T : n <= m
  <1>. DEFINE R == {ss \in Nat \X Nat : ss[1] < ss[2]}
  <1>1. IsWellFoundedOn(R, Nat)
    BY NatLessThanWellFounded DEF OpToRel
  <1>2. PICK n \in T : \A m \in T : ~ (<<m, n>> \in R)
    <2>. HIDE DEF R
    <2>. QED
      BY <1>1, WFMin
  <1>3. ASSUME NEW m \in T PROVE n <= m
    <2>1. <<m, n>> \in R <=> m < n
      BY Zenon
    <2>. QED
      BY <2>1, <1>2
  <1>. QED
    BY <1>3

\* The first instruction above an instruction byte.
Above(v) == IF v <= 9 THEN v + 2 ELSE IF v < 16 THEN 11 ELSE IF v < 28 THEN v - 4
            ELSE IF v < 48 THEN 24 + (v - 28) \div 2 ELSE 34 + (v - 48) \div 8

\* Where the bit patterns of the instructions are an instruction byte lies.
LEMMA AboveIs ==
    ASSUME NEW v \in 0 .. 255
    PROVE  /\ Above(v) \in 2 .. 59
           /\ \A i \in 1 .. 58 : /\ Instructions[i].bits \in Nat
                                 /\ v < Instructions[i].bits <=> Above(v) <= i
  <1>1. \A i \in 1 .. 58 : Instructions[i].bits = BitsOf(i)
    <2>1. \A i \in 1 .. 58 :
             Instructions[i] = [bits |-> BitsOf(i), class |-> ClassOf(i), mnemonic |-> Mnemonics[i]]
      BY InstructionsAre DEF Filled
    <2>2. ASSUME NEW i \in 1 .. 58 PROVE Instructions[i].bits = BitsOf(i)
      <3>. PICK e : e = Instructions[i]
        OBVIOUS
      <3>1. e = [bits |-> BitsOf(i), class |-> ClassOf(i), mnemonic |-> Mnemonics[i]]
        BY <2>1
      <3>. QED
        BY <3>1
    <2>. QED
      BY <2>2
  <1>2. Above(v) \in 2 .. 59 /\ \A i \in 1 .. 58 : BitsOf(i) \in Nat /\ (v < BitsOf(i) <=> Above(v) <= i)
    <2>1. CASE v < 28
      BY <2>1 DEF Above, BitsOf
    <2>2. CASE 28 <= v /\ v < 48
      <3>. PICK q : q = (v - 28) \div 2
        OBVIOUS
      <3>1. q \in Int /\ 2 * q <= v - 28 /\ v - 28 < 2 * q + 2
        OBVIOUS
      <3>2. Above(v) = 24 + q
        BY <2>2 DEF Above
      <3>. QED
        BY <2>2, <3>1, <3>2 DEF BitsOf
    <2>3. CASE 48 <= v
      <3>. PICK q : q = (v - 48) \div 8
        OBVIOUS
      <3>1. q \in Int /\ 8 * q <= v - 48 /\ v - 48 < 8 * q + 8
        OBVIOUS
      <3>2. Above(v) = 34 + q
        BY <2>3 DEF Above
      <3>. QED
        BY <2>3, <3>1, <3>2 DEF BitsOf
    <2>. QED
      BY <2>1, <2>2, <2>3
  <1>. QED
    BY <1>1, <1>2

\* The binary search ends at the first entry above, or at the end of its range that is nearer.
LEMMA SearchFinds ==
    ASSUME NEW v \in 0 .. 255
    PROVE  UpperBound(v) = Above(v)
  <1>. DEFINE n == Len(Instructions)
              D == {r \in (1 .. n + 1) \X (0 .. n) : r[1] + r[2] <= n + 1}
              Is(g) == g = [r \in D |->
                                IF r[2] = 0 THEN r[1]
                                ELSE IF v < Instructions[r[1] + (r[2] \div 2)].bits THEN g[<<r[1], r[2] \div 2>>]
                                ELSE g[<<r[1] + (r[2] \div 2) + 1, r[2] - (r[2] \div 2) - 1>>]]
              Search == CHOOSE g : Is(g)
              a == Above(v)
              Found(r) == IF a < r[1] THEN r[1] ELSE IF r[1] + r[2] < a THEN r[1] + r[2] ELSE a
  <1>1. UpperBound(v) = Search[<<1, n>>]
    BY DEF UpperBound
  <1>2. n = 58 /\ a \in 2 .. 59 /\ \A i \in 1 .. 58 : v < Instructions[i].bits <=> a <= i
    BY AboveIs, InstructionsAre DEF Filled
  <1>. HIDE DEF n, a
  <1>3. \A r \in D : r[1] \in 1 .. 59 /\ r[2] \in 0 .. 58 /\ r[1] + r[2] <= 59 /\ r = <<r[1], r[2]>>
    BY <1>2
  <1>4. \A x \in 1 .. 59, y \in 0 .. 58 : x + y <= 59 => <<x, y>> \in D
    BY <1>2
  <1>5. \A x \in 1 .. 59, y \in 0 .. 58 : Found(<<x, y>>) = IF a < x THEN x ELSE IF x + y < a THEN x + y ELSE a
    OBVIOUS
  \* Halving a range that is not empty.
  <1>6. ASSUME NEW r \in D, r[2] # 0
        PROVE  LET h == r[2] \div 2
               IN  /\ h \in 0 .. 58 /\ h < r[2] /\ r[1] + h \in 1 .. 58 /\ <<r[1], h>> \in D
                   /\ r[1] + h + 1 \in 1 .. 59 /\ r[2] - h - 1 \in 0 .. 58 /\ r[2] - h - 1 < r[2]
                   /\ <<r[1] + h + 1, r[2] - h - 1>> \in D
                   /\ v < Instructions[r[1] + h].bits => Found(r) = Found(<<r[1], h>>)
                   /\ ~(v < Instructions[r[1] + h].bits) => Found(r) = Found(<<r[1] + h + 1, r[2] - h - 1>>)
    <2>0. PICK h, x, y : h = r[2] \div 2 /\ x = r[1] /\ y = r[2]
      OBVIOUS
    <2>1. x \in 1 .. 59 /\ y \in 1 .. 58 /\ x + y <= 59 /\ r = <<x, y>>
      BY <1>3, <1>6, <2>0
    <2>2. h = y \div 2
      BY <2>0
    <2>3. /\ h \in 0 .. 58 /\ h < y /\ x + h \in 1 .. 58 /\ x + h <= 59
          /\ x + h + 1 \in 1 .. 59 /\ y - h - 1 \in 0 .. 58 /\ y - h - 1 < y
          /\ (x + h + 1) + (y - h - 1) = x + y
      <3>. HIDE DEF Is, Search, Found, D
      <3>. QED
        <4>1. h \in Int /\ 0 <= h /\ h < y
          BY <2>1, <2>2
        <4>. QED
          BY <2>1, <4>1
    <2>4. <<x, h>> \in D /\ <<x + h + 1, y - h - 1>> \in D
      BY <1>4, <2>1, <2>2, <2>3
    <2>5. v < Instructions[x + h].bits <=> a <= x + h
      BY <1>2, <2>3
    <2>6. Found(r) = IF a < x THEN x ELSE IF x + y < a THEN x + y ELSE a
      BY <1>5, <2>1
    <2>7. Found(<<x, h>>) = IF a < x THEN x ELSE IF x + h < a THEN x + h ELSE a
      BY <1>5, <2>1, <2>3
    <2>8. Found(<<x + h + 1, y - h - 1>>) = IF a < x + h + 1 THEN x + h + 1 ELSE IF x + y < a THEN x + y ELSE a
      BY <1>5, <2>3
    <2>9. a <= x + h => Found(r) = Found(<<x, h>>)
      <3>. HIDE DEF Found
      <3>. QED
        BY <1>2, <2>1, <2>3, <2>6, <2>7
    <2>10. ~(a <= x + h) => Found(r) = Found(<<x + h + 1, y - h - 1>>)
      <3>. HIDE DEF Found
      <3>. QED
        BY <1>2, <2>1, <2>3, <2>6, <2>8
    <2>. HIDE DEF Found, D
    <2>. QED
      BY <2>0, <2>3, <2>4, <2>5, <2>9, <2>10
  <1>7. ASSUME NEW r \in D, r[2] = 0 PROVE Found(r) = r[1]
    <2>1. r[1] \in 1 .. 59
      BY <1>3
    <2>. QED
      BY <1>2, <1>7, <2>1
  <1>. HIDE DEF Found, D
  <1>8. Is([r \in D |-> Found(r)])
    <2>. PICK f : f = [r \in D |-> Found(r)]
      OBVIOUS
    <2>1. ASSUME NEW r \in D
          PROVE  Found(r) = IF r[2] = 0 THEN r[1]
                            ELSE IF v < Instructions[r[1] + (r[2] \div 2)].bits THEN f[<<r[1], r[2] \div 2>>]
                            ELSE f[<<r[1] + (r[2] \div 2) + 1, r[2] - (r[2] \div 2) - 1>>]
      BY <1>6, <1>7
    <2>. QED
      BY <2>1
  <1>9. Is(Search)
    <2>. HIDE DEF Is
    <2>. QED
      BY <1>8
  <1>. HIDE DEF Search
  <1>10. \A r \in D : Search[r] = Found(r)
    <2>. DEFINE Bad == {c \in Nat : \E r \in D : r[2] = c /\ Search[r] # Found(r)}
    <2>. SUFFICES ASSUME Bad # {} PROVE FALSE
      <3>1. \A r \in D : r[2] \in Nat
        BY <1>3
      <3>. QED
        BY <3>1
    <2>1. PICK c \in Bad : \A b \in Bad : c <= b
      <3>1. Bad \subseteq Nat
        OBVIOUS
      <3>. HIDE DEF Bad
      <3>. QED
        BY <3>1, Least
    <2>2. PICK r \in D : r[2] = c /\ Search[r] # Found(r)
      OBVIOUS
    <2>3. ASSUME NEW u \in D, u[2] < r[2] PROVE Search[u] = Found(u)
      <3>1. u[2] \in Nat /\ r[2] \in Nat /\ ~(r[2] <= u[2])
        BY <1>3, <2>3
      <3>. QED
        BY <2>1, <2>2, <3>1
    <2>4. Search[r] = IF r[2] = 0 THEN r[1]
                      ELSE IF v < Instructions[r[1] + (r[2] \div 2)].bits THEN Search[<<r[1], r[2] \div 2>>]
                      ELSE Search[<<r[1] + (r[2] \div 2) + 1, r[2] - (r[2] \div 2) - 1>>]
      <3>. PICK f : f = Search
        OBVIOUS
      <3>1. Is(f)
        BY <1>9
      <3>2. f[r] = IF r[2] = 0 THEN r[1]
                   ELSE IF v < Instructions[r[1] + (r[2] \div 2)].bits THEN f[<<r[1], r[2] \div 2>>]
                   ELSE f[<<r[1] + (r[2] \div 2) + 1, r[2] - (r[2] \div 2) - 1>>]
        BY <3>1
      <3>. QED
        BY <3>2
    <2>5. CASE r[2] = 0
      BY <1>7, <2>2, <2>4, <2>5
    <2>6. CASE r[2] # 0
      <3>. PICK h : h = r[2] \div 2
        OBVIOUS
      <3>1. /\ <<r[1], h>> \in D /\ <<r[1], h>>[2] < r[2]
            /\ <<r[1] + h + 1, r[2] - h - 1>> \in D /\ <<r[1] + h + 1, r[2] - h - 1>>[2] < r[2]
            /\ v < Instructions[r[1] + h].bits => Found(r) = Found(<<r[1], h>>)
            /\ ~(v < Instructions[r[1] + h].bits) => Found(r) = Found(<<r[1] + h + 1, r[2] - h - 1>>)
        BY <1>6, <2>6
      <3>2. Search[r] = IF v < Instructions[r[1] + h].bits THEN Search[<<r[1], h>>]
                        ELSE Search[<<r[1] + h + 1, r[2] - h - 1>>]
        BY <2>4, <2>6
      <3>. HIDE DEF Is
      <3>. QED
        BY <2>2, <2>3, <3>1, <3>2
    <2>. QED
      BY <2>5, <2>6
  <1>11. <<1, n>> \in D /\ Found(<<1, n>>) = a
    <2>1. n = 58 /\ 1 \in 1 .. 59 /\ 58 \in 0 .. 58 /\ 1 + 58 <= 59
      BY <1>2
    <2>2. <<1, 58>> \in D /\ Found(<<1, 58>>) = IF a < 1 THEN 1 ELSE IF 1 + 58 < a THEN 1 + 58 ELSE a
      BY <1>4, <1>5, <2>1
    <2>3. ~(a < 1) /\ ~(1 + 58 < a)
      BY <1>2
    <2>. QED
      BY <2>1, <2>2, <2>3
  <1>. QED
    BY <1>1, <1>10, <1>11 DEF a

\* An instruction found by its mnemonic.
LEMMA ByMnemonic ==
    ASSUME NEW k \in 1 .. 58
    PROVE  (CHOOSE i \in DOMAIN Instructions : Instructions[i].mnemonic = Mnemonics[k]) = k
  <1>1. DOMAIN Instructions = 1 .. 58 /\ \A i \in 1 .. 58 : Instructions[i].mnemonic = Mnemonics[i]
    <2>1. DOMAIN Instructions = 1 .. 58
      BY InstructionsAre, LenProperties DEF Filled
    <2>2. \A i \in 1 .. 58 :
             Instructions[i] = [bits |-> BitsOf(i), class |-> ClassOf(i), mnemonic |-> Mnemonics[i]]
      BY InstructionsAre DEF Filled
    <2>3. ASSUME NEW i \in 1 .. 58 PROVE Instructions[i].mnemonic = Mnemonics[i]
      <3>. PICK e : e = Instructions[i]
        OBVIOUS
      <3>1. e = [bits |-> BitsOf(i), class |-> ClassOf(i), mnemonic |-> Mnemonics[i]]
        BY <2>2
      <3>. QED
        BY <3>1
    <2>. QED
      BY <2>1, <2>3
  <1>. QED
    BY <1>1, MnemonicsDiffer

\* The class of the instruction at or below an instruction byte says how far below it can be.
LEMMA Offsets ==
    ASSUME NEW v \in 0 .. 255, NEW k, k = Above(v) - 1, NEW d, d = v - BitsOf(k)
    PROVE  /\ k \in 1 .. 58 /\ d \in 0 .. 7
           /\ ClassOf(k) \in {"U_none", "R_none"} => d = 0
           /\ ClassOf(k) = "A_ix" => d \in 0 .. 1
  <1>1. CASE v < 28
    BY <1>1 DEF Above, BitsOf, ClassOf
  <1>2. CASE 28 <= v /\ v < 48
    <2>. PICK q : q = (v - 28) \div 2
      OBVIOUS
    <2>1. q \in Int /\ 2 * q <= v - 28 /\ v - 28 < 2 * q + 2
      OBVIOUS
    <2>2. k = 23 + q /\ q \in 0 .. 9 /\ k \in 23 .. 32
      BY <1>2, <2>1 DEF Above
    <2>3. BitsOf(k) = 2 * k - 18 /\ ClassOf(k) = "A_ix"
      BY <2>2 DEF BitsOf, ClassOf
    <2>4. BitsOf(k) = 28 + 2 * q
      BY <2>1, <2>2, <2>3
    <2>5. d \in 0 .. 1
      <3>1. d = v - BitsOf(k) /\ BitsOf(k) \in Int
        BY <2>1, <2>4
      <3>. HIDE DEF BitsOf
      <3>. QED
        BY <2>1, <2>4, <3>1
    <2>. QED
      BY <2>2, <2>3, <2>5
  <1>3. CASE 48 <= v
    <2>. PICK q : q = (v - 48) \div 8
      OBVIOUS
    <2>1. q \in Int /\ 8 * q <= v - 48 /\ v - 48 < 8 * q + 8
      OBVIOUS
    <2>2. k = 33 + q /\ q \in 0 .. 25 /\ k \in 33 .. 58
      BY <1>3, <2>1 DEF Above
    <2>3. d \in 0 .. 7 /\ k \in 33 .. 58
      <3>1. k \in 33 .. 58
        BY <2>2
      <3>2. BitsOf(k) = 8 * k - 216
        BY <3>1 DEF BitsOf
      <3>3. BitsOf(k) = 48 + 8 * q
        BY <2>1, <2>2, <3>2
      <3>. QED
        BY <2>1, <3>1, <3>3
    <2>4. ClassOf(k) \notin {"U_none", "R_none", "A_ix"}
      BY <2>3 DEF ClassOf
    <2>. QED
      BY <2>3, <2>4
  <1>. QED
    BY <1>1, <1>2, <1>3

\* How far above the instruction the encoder goes for a mode.
Offset(c, mode) == IF mode = "NONE" THEN 0 ELSE IF c = "A_ix" /\ mode = "X" THEN 1
                   ELSE (CHOOSE i \in DOMAIN ModeOffsets : ModeOffsets[i] = mode) - 1

\* The encoder goes as far up as the mode was decoded from.
LEMMA ModesDiffer ==
    ASSUME NEW c, NEW f \in 0 .. 7, c \in {"U_none", "R_none"} => f = 0, c = "A_ix" => f \in 0 .. 1,
           ModeAt(c, f) # "INVALID"
    PROVE  Offset(c, ModeAt(c, f)) = f
  <1>1. /\ DOMAIN ModeOffsets = 1 .. 8
        /\ \A i, j \in 1 .. 8 : ModeOffsets[i] = ModeOffsets[j] => i = j
        /\ \A i \in 1 .. 8 : ModeOffsets[i] # "NONE"
        /\ ModeOffsets[1] = "I"
    BY DEF ModeOffsets
  <1>2. ASSUME NEW i \in 1 .. 8, NEW mode, mode = ModeOffsets[i], ~(c = "A_ix" /\ mode = "X")
        PROVE  Offset(c, mode) = i - 1
    <2>1. (CHOOSE j \in DOMAIN ModeOffsets : ModeOffsets[j] = mode) = i
      BY <1>1, <1>2
    <2>2. mode # "NONE"
      BY <1>1, <1>2
    <2>. QED
      BY <1>2, <2>1, <2>2 DEF Offset
  <1>3. CASE c \in {"U_none", "R_none"}
    BY <1>3 DEF ModeAt, Offset
  <1>4. CASE c = "A_ix"
    <2>1. f \in {0, 1} /\ ModeAt(c, f) = <<"I", "X">>[f + 1]
      BY <1>4 DEF ModeAt
    <2>2. <<"I", "X">>[0 + 1] = "I" /\ <<"I", "X">>[1 + 1] = "X"
      OBVIOUS
    <2>3. CASE f = 0
      <3>1. ModeAt(c, f) = "I"
        BY <2>1, <2>2, <2>3
      <3>. QED
        BY <1>1, <1>2, <2>3, <3>1
    <2>4. CASE f = 1
      <3>1. ModeAt(c, f) = "X"
        BY <2>1, <2>2, <2>4
      <3>. QED
        BY <1>4, <2>4, <3>1 DEF Offset
    <2>. QED
      BY <2>1, <2>3, <2>4
  <1>5. CASE c \in {"AAA_all", "RAAA_all"} \/ (c = "RAAA_noi" /\ f # 0)
    <2>1. ModeAt(c, f) = ModeOffsets[f + 1] /\ f + 1 \in 1 .. 8 /\ c # "A_ix" /\ f + 1 - 1 = f
      BY <1>5 DEF ModeAt
    <2>. QED
      BY <1>2, <2>1
  <1>6. CASE c \notin {"U_none", "R_none", "A_ix", "AAA_all", "RAAA_all"} /\ ~(c = "RAAA_noi" /\ f # 0)
    <2>1. f = 0 /\ ModeAt(c, f) = ModeOffsets[1] /\ c # "A_ix" /\ 1 - 1 = 0 /\ 1 \in 1 .. 8
      BY <1>1, <1>6 DEF ModeAt
    <2>. QED
      BY <1>2, <2>1
  <1>. QED
    BY <1>3, <1>4, <1>5, <1>6

\* Every instruction byte decodes to what it encodes.
LEMMA DecodedIs ==
    ASSUME NEW v \in 0 .. 255
    PROVE  LET d == Riproll[v]
               below == {i \in DOMAIN Instructions : Instructions[i].bits <= v}
               nearest == CHOOSE i \in below : \A j \in below : Instructions[j].bits <= Instructions[i].bits
           IN  /\ d.mnemonic = Instructions[nearest].mnemonic
               /\ d.mode # "INVALID" => Opcode(d.mnemonic, d.mode) = v
  <1>. DEFINE below == {i \in DOMAIN Instructions : Instructions[i].bits <= v}
  <1>. PICK k : k = Above(v) - 1
    OBVIOUS
  <1>. PICK f : f = v - BitsOf(k)
    OBVIOUS
  <1>. PICK c : c = ClassOf(k)
    OBVIOUS
  <1>1. /\ k \in 1 .. 58 /\ f \in 0 .. 7
        /\ c \in {"U_none", "R_none"} => f = 0
        /\ c = "A_ix" => f \in 0 .. 1
    BY Offsets
  <1>2. DOMAIN Instructions = 1 .. 58
    BY InstructionsAre, LenProperties DEF Filled
  <1>3. Instructions[k].bits = BitsOf(k) /\ Instructions[k].class = c /\ Instructions[k].mnemonic = Mnemonics[k]
    <2>. PICK e : e = Instructions[k]
      OBVIOUS
    <2>1. e = [bits |-> BitsOf(k), class |-> ClassOf(k), mnemonic |-> Mnemonics[k]]
      BY <1>1, InstructionsAre DEF Filled
    <2>. QED
      BY <2>1
  <1>4. BitsOf(k) \in Nat /\ v = BitsOf(k) + f
    BY <1>1 DEF BitsOf
  <1>5. Riproll[v] = [mnemonic |-> Mnemonics[k], mode |-> ModeAt(c, f)]
    <2>1. UpperBound(v) - 1 = k
      BY SearchFinds
    <2>2. Riproll[v] = [mnemonic |-> Instructions[UpperBound(v) - 1].mnemonic,
                        mode |-> ModeAt(Instructions[UpperBound(v) - 1].class,
                                        v - Instructions[UpperBound(v) - 1].bits)]
      BY DEF Riproll
    <2>. QED
      BY <1>3, <2>1, <2>2
  <1>6. (CHOOSE i \in below : \A j \in below : Instructions[j].bits <= Instructions[i].bits) = k
    <2>1. \A i \in 1 .. 58 : Instructions[i].bits = BitsOf(i) /\ (v < Instructions[i].bits <=> k < i)
      <3>1. \A i \in 1 .. 58 : v < Instructions[i].bits <=> Above(v) <= i
        BY AboveIs
      <3>2. Above(v) \in 2 .. 59
        BY AboveIs
      <3>3. ASSUME NEW i \in 1 .. 58 PROVE Instructions[i].bits = BitsOf(i)
        <4>. PICK e : e = Instructions[i]
          OBVIOUS
        <4>1. e = [bits |-> BitsOf(i), class |-> ClassOf(i), mnemonic |-> Mnemonics[i]]
          BY InstructionsAre DEF Filled
        <4>. QED
          BY <4>1
      <3>. QED
        <4>1. ASSUME NEW i \in 1 .. 58 PROVE Above(v) <= i <=> k < i
          BY <3>2
        <4>. QED
          BY <3>1, <3>3, <4>1
    <2>2. \A i \in 1 .. 58 : i \in below <=> i <= k
      <3>1. \A i \in 1 .. 58 : Instructions[i].bits \in Nat
        <4>1. \A i \in 1 .. 58 : BitsOf(i) \in Nat
          BY DEF BitsOf
        <4>. QED
          BY <2>1, <4>1
      <3>. SUFFICES ASSUME NEW i \in 1 .. 58 PROVE i \in below <=> i <= k
        OBVIOUS
      <3>. PICK b : b = Instructions[i].bits
        OBVIOUS
      <3>2. i \in below <=> b <= v
        BY <1>2
      <3>3. b \in Nat /\ (v < b <=> k < i)
        BY <2>1, <3>1
      <3>. HIDE DEF below
      <3>. QED
        BY <1>1, <3>2, <3>3
    <2>3. \A i, j \in 1 .. 58 : i < j => BitsOf(i) < BitsOf(j)
      BY DEF BitsOf
    <2>4. \A i \in 1 .. 58 : BitsOf(i) \in Nat
      BY DEF BitsOf
    <2>5. below \subseteq 1 .. 58
      BY <1>2
    <2>. HIDE DEF below
    <2>6. k \in below /\ \A j \in below : Instructions[j].bits <= Instructions[k].bits
      <3>1. k \in below
        BY <1>1, <2>2
      <3>2. ASSUME NEW j \in below PROVE Instructions[j].bits <= Instructions[k].bits
        <4>1. j \in 1 .. 58 /\ j <= k
          BY <2>2, <2>5
        <4>2. BitsOf(j) <= BitsOf(k)
          BY <1>1, <2>3, <2>4, <4>1
        <4>. QED
          BY <1>3, <2>1, <4>1, <4>2
      <3>. QED
        BY <3>1, <3>2
    <2>7. ASSUME NEW i \in below, \A j \in below : Instructions[j].bits <= Instructions[i].bits PROVE i = k
      <3>1. i \in 1 .. 58 /\ i <= k
        BY <2>2, <2>5
      <3>2. BitsOf(k) <= BitsOf(i)
        BY <1>3, <2>1, <2>6, <2>7, <3>1
      <3>. QED
        BY <1>1, <2>3, <2>4, <3>1, <3>2
    <2>. QED
      BY <2>6, <2>7
  <1>7. ASSUME ModeAt(c, f) # "INVALID" PROVE Opcode(Mnemonics[k], ModeAt(c, f)) = v
    <2>. PICK i : i = CHOOSE j \in DOMAIN Instructions : Instructions[j].mnemonic = Mnemonics[k]
      OBVIOUS
    <2>1. i = k
      <3>1. k \in 1 .. 58
        BY <1>1
      <3>2. (CHOOSE j \in DOMAIN Instructions : Instructions[j].mnemonic = Mnemonics[k]) = k
        BY <3>1, ByMnemonic
      <3>. QED
        BY <3>2
    <2>2. Opcode(Mnemonics[k], ModeAt(c, f)) = Instructions[i].bits + Offset(Instructions[i].class, ModeAt(c, f))
      BY DEF Opcode, Offset
    <2>3. Offset(c, ModeAt(c, f)) = f
      BY <1>1, <1>7, ModesDiffer
    <2>. QED
      BY <1>3, <1>4, <2>1, <2>2, <2>3
  <1>8. Riproll[v].mnemonic = Mnemonics[k] /\ Riproll[v].mode = ModeAt(c, f)
    <2>. PICK r : r = Riproll[v]
      OBVIOUS
    <2>. QED
      BY <1>5
  <1>. QED
    BY <1>3, <1>6, <1>7, <1>8

\* The table that riproll is filled with by binary search is the instruction list read downwards from
\* each byte, and the assembler's encoding of what the processor decodes is that byte: for each of the
\* 256, of whatever operands.
THEOREM DecodingAlwaysExact == AluSpec => []DecodingExact
  <1>1. OperandsOK => DecodingExact
    <2>. SUFFICES ASSUME OperandsOK PROVE DecodingExact
      OBVIOUS
    <2>1. opcode \in 0 .. 255
      <3>1. reg \in Nat /\ op \in Nat /\ WordMod \in Nat
        BY Modulus DEF OperandsOK, Word
      <3>2. WordMod * op \in Nat
        BY <3>1
      <3>. PICK s : s = reg + WordMod * op
        OBVIOUS
      <3>3. s \in Nat
        BY <3>1, <3>2
      <3>4. s % 256 \in 0 .. 255
        BY <3>3
      <3>. QED
        BY <3>4 DEF opcode
    <2>. QED
      BY <2>1, DecodedIs DEF DecodingExact
  <1>. QED
    BY <1>1, OperandsAlwaysOK, PTL
=============================================================================
