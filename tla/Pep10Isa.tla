------------------------------ MODULE Pep10Isa ------------------------------
(***************************************************************************)
(* The Pep/10 instruction set (isa/pep10/pep10): the table of instructions *)
(* and the decoding table, riproll, computed from it at start-up.          *)
(***************************************************************************)
EXTENDS Naturals, Sequences

Entry(bits, class, names) ==
    [i \in DOMAIN names |-> [bits |-> bits[i], class |-> class, mnemonic |-> names[i]]]

\* instr_list, in the order of the enumeration instruction_mnemonic: isa_map is
\* keyed by mnemonic, and the search below walks it in key order.
Instructions ==
    Entry(<<0, 1, 2, 3, 4, 5, 6, 7, 8>>, "U_none",
          <<"RET", "SRET", "MOVSPA", "MOVASP", "MOVFLGA", "MOVAFLG", "MOVTA", "USCALL", "NOP">>)
    \o Entry(<<9>>, "Invalid", <<"UNIMPL">>)
    \o Entry([i \in 1 .. 12 |-> 15 + i], "R_none",
          <<"NOTA", "NOTX", "NEGA", "NEGX", "ASLA", "ASLX", "ASRA", "ASRX",
            "ROLA", "ROLX", "RORA", "RORX">>)
    \o Entry([i \in 1 .. 10 |-> 26 + 2 * i], "A_ix",
          <<"BR", "BRLE", "BRLT", "BREQ", "BRNE", "BRGE", "BRGT", "BRV", "BRC", "CALL">>)
    \o Entry(<<48>>, "AAA_all", <<"SCALL">>)
    \o Entry(<<56>>, "AAA_i", <<"LDWT">>)
    \o Entry([i \in 1 .. 4 |-> 56 + 8 * i], "RAAA_all", <<"LDWA", "LDWX", "LDBA", "LDBX">>)
    \o Entry([i \in 1 .. 4 |-> 88 + 8 * i], "RAAA_noi", <<"STWA", "STWX", "STBA", "STBX">>)
    \o Entry([i \in 1 .. 14 |-> 120 + 8 * i], "RAAA_all",
          <<"CPWA", "CPWX", "CPBA", "CPBX", "ADDA", "ADDX", "SUBA", "SUBX",
            "ANDA", "ANDX", "ORA", "ORX", "XORA", "XORX">>)
    \o Entry(<<240, 248>>, "AAA_all", <<"ADDSP", "SUBSP">>)

\* std::upper_bound: the first of the entries from first on, count of them, whose
\* bit pattern exceeds v (one past them if there is none).
UpperBound(v) ==
    LET n == Len(Instructions)
        Search[r \in {r \in (1 .. n + 1) \X (0 .. n) : r[1] + r[2] <= n + 1}] ==
            LET first == r[1]
                count == r[2]
                half == count \div 2
            IN  IF count = 0 THEN first
                ELSE IF v < Instructions[first + half].bits THEN Search[<<first, half>>]
                ELSE Search[<<first + half + 1, count - half - 1>>]
    IN  Search[<<1, n>>]

ModeOffsets == <<"I", "D", "N", "S", "SF", "X", "SX", "SFX">>

\* The addressing mode an opcode selects, offset opcodes after its instruction's.
ModeAt(class, offset) ==
    IF class \in {"U_none", "R_none"} THEN "NONE"
    ELSE IF class = "A_ix" THEN <<"I", "X">>[offset + 1]
    ELSE IF class \in {"AAA_all", "RAAA_all"} \/ (class = "RAAA_noi" /\ offset # 0)
         THEN ModeOffsets[offset + 1]
    ELSE IF class = "AAA_i" /\ offset = 0 THEN "I"
    ELSE "INVALID"

\* Mutant of Riproll: the search returns the entry it stops at, not the one before.
RiprollLate ==
    [opcode \in 0 .. 255 |->
        LET i == UpperBound(opcode)
            e == Instructions[IF i > Len(Instructions) THEN i - 1 ELSE i]
        IN  [mnemonic |-> e.mnemonic,
             mode |-> ModeAt(e.class, IF opcode < e.bits THEN 0 ELSE opcode - e.bits)]]

Riproll ==
    [opcode \in 0 .. 255 |->
        LET e == Instructions[UpperBound(opcode) - 1]
        IN  [mnemonic |-> e.mnemonic, mode |-> ModeAt(e.class, opcode - e.bits)]]

\* The table's is_unary, which the processor goes by: SCALL counts as unary.
UnaryOpcode(mnemonic) ==
    \E i \in DOMAIN Instructions :
        /\ Instructions[i].mnemonic = mnemonic
        /\ Instructions[i].class \in {"U_none", "R_none", "Invalid"} \/ mnemonic = "SCALL"

IsStore(mnemonic) == mnemonic \in {"STWA", "STWX", "STBA", "STBX"}

\* opcode, the encoder the assembler uses.
Opcode(mnemonic, mode) ==
    LET e == Instructions[CHOOSE i \in DOMAIN Instructions : Instructions[i].mnemonic = mnemonic]
        offset == IF mode = "NONE" THEN 0
                  ELSE IF e.class = "A_ix" /\ mode = "X" THEN 1
                  ELSE (CHOOSE i \in DOMAIN ModeOffsets : ModeOffsets[i] = mode) - 1
    IN  e.bits + offset

=============================================================================
