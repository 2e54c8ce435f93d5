----------------------------- MODULE Pep10AluMC ------------------------------
(***************************************************************************)
(* The arithmetic against unbounded integers, for every pair of operands   *)
(* and carry on short words.                                               *)
(***************************************************************************)
EXTENDS Pep10Alu, Integers

VARIABLES reg, op, carry

operands == <<reg, op, carry>>

AluInit == reg \in Word /\ op \in Word /\ carry \in BOOLEAN

\* The next operands in counting order.
AluNext ==
    /\ reg' = (reg + 1) % WordMod
    /\ op' = IF reg' = 0 THEN (op + 1) % WordMod ELSE op
    /\ carry' = (carry # (reg' = 0 /\ op' = 0))

AluSpec == AluInit /\ [][AluNext]_operands

\* The signed reading of a word, and whether an integer has one.
Signed(w) == IF Negative(w) THEN w - WordMod ELSE w
Fits(i) == 0 - Sign <= i /\ i < Sign

\* A result's N and Z describe its word.
NZRight(r) == (r.csr.N <=> Signed(r.word) < 0) /\ (r.csr.Z <=> r.word = 0)

\* ADD: V and C are exactly signed overflow and carry out of the sum.
AddIsSum ==
    LET r == Add(reg, op)
    IN  /\ NZRight(r)
        /\ r.word = (reg + op) % WordMod
        /\ r.csr.V <=> ~Fits(Signed(reg) + Signed(op))
        /\ ~r.csr.V => Signed(r.word) = Signed(reg) + Signed(op)
        /\ r.csr.C <=> reg + op >= WordMod

\* NEG and NOT: V is set exactly where the operand has no negative, and NOT is an
\* involution one off NEG.
NegIsNegative ==
    LET r == Neg(reg)
    IN  /\ NZRight(r) /\ NZRight(Not(reg))
        /\ r.csr.V <=> ~Fits(0 - Signed(reg))
        /\ ~r.csr.V => Signed(r.word) = 0 - Signed(reg)
        /\ Not(Not(reg).word).word = reg

\* The shifts double and halve the signed value, with C the bit shifted out and V
\* (of ASL) signed overflow.
ShiftsScale ==
    LET l == ShiftLeft(reg)
        r == ShiftRight(reg)
    IN  /\ NZRight(l) /\ NZRight(r)
        /\ l.csr.V <=> ~Fits(2 * Signed(reg))
        /\ ~l.csr.V => Signed(l.word) = 2 * Signed(reg)
        /\ l.csr.C <=> 2 * reg >= WordMod
        /\ Signed(r.word) = Signed(reg) \div 2
        /\ r.csr.C <=> Signed(r.word) * 2 # Signed(reg)

\* A rotation through the carry loses nothing: ROR undoes ROL and ROL undoes ROR.
RotationsInvert ==
    LET l == RotateLeft(reg, carry)
        r == RotateRight(reg, carry)
    IN  /\ RotateRight(l.word, l.csr.C) = Result(reg, [C |-> carry])
        /\ RotateLeft(r.word, r.csr.C) = Result(reg, [C |-> carry])

\* The unary instructions compute what their names say, on every word and both
\* carries, and report it in the status bits (local_processor.tpp:331).
UnariesExact == NegIsNegative /\ ShiftsScale /\ RotationsInvert

\* SUB subtracts, CPW and CPB set Z exactly for equal words and equal low bytes, and
\* C says that a nonzero operand was not above the register.
SubIsDifference ==
    /\ Sub(reg, op).word = (reg - op) % WordMod
    /\ CompareWord(reg, op).Z <=> reg = op
    /\ CompareByte(reg, op, 4).Z <=> reg % 4 = op % 4
    /\ Sub(reg, op).csr.C <=> op # 0 /\ reg >= op

\* SUB sets V on signed overflow: "RTL: A <- A - Oprnd ; ... V <- {overflow}"
\* (SUBA,i.cpp:20), "There is a signed overflow iff ..." (local_processor.tpp:618).
SubOverflow == Sub(reg, op).csr.V <=> ~Fits(Signed(reg) - Signed(op))
=============================================================================
