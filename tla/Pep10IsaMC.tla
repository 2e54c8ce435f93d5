----------------------------- MODULE Pep10IsaMC ------------------------------
(***************************************************************************)
(* The decoding table against the instruction list, for all 256            *)
(* instruction bytes, alongside the arithmetic for all operands.           *)
(***************************************************************************)
EXTENDS Pep10Isa, Pep10AluMC

\* An instruction byte: as the operands count up, all of them come around.
opcode == (reg + WordMod * op) % 256

\* The binary search over a map in mnemonic order finds the nearest instruction at
\* or below the opcode, so the enumeration and the bit patterns are in one order; and
\* what the assembler encodes is what the processor decodes: encoding the instruction
\* and mode a legal opcode decodes to gives the opcode.
DecodingExact ==
    LET d == Riproll[opcode]
        below == {i \in DOMAIN Instructions : Instructions[i].bits <= opcode}
        nearest == CHOOSE i \in below : \A j \in below : Instructions[j].bits <= Instructions[i].bits
    IN  /\ d.mnemonic = Instructions[nearest].mnemonic
        /\ d.mode # "INVALID" => Opcode(d.mnemonic, d.mode) = opcode
=============================================================================
