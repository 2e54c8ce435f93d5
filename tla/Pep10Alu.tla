------------------------------ MODULE Pep10Alu ------------------------------
(***************************************************************************)
(* The arithmetic of the Pep/10 processor (local_processor.tpp): what each *)
(* instruction computes, and the status bits it sets, on words of Bits     *)
(* bits.  An operation returns the result and the status bits it writes;   *)
(* bits that are not in the domain of "csr" stay as they are.              *)
(***************************************************************************)
EXTENDS Naturals

CONSTANT Bits       \* 16 in the program

WordMod == 2 ^ Bits
Sign == 2 ^ (Bits - 1)

\* The other conjuncts are arithmetic, spelled out for the proofs.
ASSUME BitsAssumption ==
    /\ Bits \in Nat \ {0, 1}
    /\ Sign \in Nat \ {0} /\ WordMod = 2 * Sign
    /\ 2 ^ (Bits - 2) \in Nat \ {0} /\ Sign = 2 * 2 ^ (Bits - 2)

Word == 0 .. WordMod - 1

Negative(w) == w >= Sign                            \* w & 0x8000
Complement(w) == WordMod - 1 - w                    \* ~w
Negate(w) == (Complement(w) + 1) % WordMod          \* ~w + 1
Plus(a, b) == (a + b) % WordMod

Result(w, csr) == [word |-> w, csr |-> csr]
NZ(w) == [N |-> Negative(w), Z |-> w = 0]

\* (~(reg ^ op) & (reg ^ res)) >> 15
SignRule(reg, op, res) ==
    Negative(reg) = Negative(op) /\ Negative(reg) # Negative(res)

WithVC(w, v, c) == Result(w, [N |-> Negative(w), Z |-> w = 0, V |-> v, C |-> c])

\* Mutant of Add: the carry is compared with one operand and is not strict.
AddCarryLoose(reg, op) ==
    LET res == Plus(reg, op)
    IN  WithVC(res, SignRule(reg, op, res), res <= reg)

\* ADDA, ADDX
Add(reg, op) ==
    LET res == Plus(reg, op)
    IN  WithVC(res, SignRule(reg, op, res), res < reg \/ res < op)

\* Mutant of Sub: the operand is complemented, not negated.
SubComplement(reg, op) ==
    LET res == Plus(reg, Complement(op))
    IN  WithVC(res, SignRule(reg, op, res), res < reg \/ res < Complement(op))

\* SUBA, SUBX
Sub(reg, op) ==
    LET res == Plus(reg, Negate(op))
    IN  WithVC(res, SignRule(reg, op, res), res < reg \/ res < Negate(op))

\* CPWA, CPWX: SUB without the result, N inverted where V is set.
CompareWord(reg, op) ==
    LET sub == Sub(reg, op).csr
    IN  [sub EXCEPT !.N = sub.N # sub.V]

\* CPBA, CPBX
CompareByte(reg, op, byteMod) ==
    LET res == Plus(reg, Negate(op)) % byteMod
    IN  [N |-> res >= byteMod \div 2, Z |-> res = 0, V |-> FALSE, C |-> FALSE]

\* NOTA, NOTX
Not(reg) == Result(Complement(reg), NZ(Complement(reg)))

\* NEGA, NEGX
Neg(reg) ==
    LET res == Negate(reg)
    IN  Result(res, [N |-> Negative(res), Z |-> res = 0, V |-> res = Sign])

\* ASLA, ASLX
ShiftLeft(reg) ==
    LET res == (2 * reg) % WordMod
    IN  WithVC(res, Negative(reg) # Negative(res), Negative(reg))

\* Mutant of ShiftRight: no sign extension.
ShiftRightUnsigned(reg) ==
    Result(reg \div 2, [N |-> FALSE, Z |-> reg \div 2 = 0, C |-> reg % 2 = 1])

\* ASRA, ASRX
ShiftRight(reg) ==
    LET res == reg \div 2 + (IF Negative(reg) THEN Sign ELSE 0)
    IN  Result(res, [N |-> Negative(res), Z |-> res = 0, C |-> reg % 2 = 1])

\* ROLA, ROLX
RotateLeft(reg, carry) ==
    Result(((2 * reg) % WordMod) + (IF carry THEN 1 ELSE 0), [C |-> Negative(reg)])

\* RORA, RORX
RotateRight(reg, carry) ==
    Result(reg \div 2 + (IF carry THEN Sign ELSE 0), [C |-> reg % 2 = 1])

\* Bit i of w, and the word whose bit i is set if "ones" has the number of ones among
\* bit i of a and bit i of b.
Bit(w, i) == (w \div 2 ^ i) % 2
BitMap(ones, a, b) ==
    LET Below[i \in 0 .. Bits] ==
            IF i = 0 THEN 0
            ELSE Below[i - 1] + (IF Bit(a, i - 1) + Bit(b, i - 1) \in ones THEN 2 ^ (i - 1) ELSE 0)
    IN  Below[Bits]

Logic(w) == Result(w, NZ(w))

\* ANDA, ANDX; ORA, ORX; XORA, XORX
And(reg, op) == Logic(BitMap({2}, reg, op))
Or(reg, op) == Logic(BitMap({1, 2}, reg, op))
Xor(reg, op) == Logic(BitMap({1}, reg, op))
=============================================================================
