---------------------------- MODULE Pep10Processor ---------------------------
(***************************************************************************)
(* One instruction of the Pep/10 processor (isa/pep10/local_processor) on  *)
(* the memory map construct_memory_map builds: ports first, then the ROM   *)
(* of the operating system (writes ignored), then RAM.                     *)
(*                                                                         *)
(* An instruction is a composition of operators on a machine record m:     *)
(* each returns the machine after the call, with the value the call        *)
(* returned in m.val and the error it returned in m.fault.                 *)
(***************************************************************************)
EXTENDS Pep10Isa, Integers, SequencesExt

CONSTANTS MaxOffset,        \* the highest address: 16#FFFF in the program
          CharIn,           \* address of the input port
          CharOut, PwrOff,  \* addresses of the output ports
          RomStart          \* first address of the operating system

Alu == INSTANCE Pep10Alu WITH Bits <- 16

Word == Alu!Word
W(i) == i % Alu!WordMod
Byte == 0 .. 255
Address == 0 .. MaxOffset
OutputPorts == {CharOut, PwrOff}
Registers == {"A", "X", "SP", "PC", "IS", "OS", "TR"}
Status == {"N", "Z", "V", "C"}

ASSUME MapAssumption ==
    /\ MaxOffset \in Word /\ RomStart \in Nat /\ RomStart + 11 <= MaxOffset
    /\ {CharIn, CharOut, PwrOff} \subseteq 0 .. RomStart - 1
    /\ CharIn # CharOut /\ CharIn # PwrOff /\ CharOut # PwrOff

Change(i, old, new) == [at |-> i, old |-> old, new |-> new]

Value(m, v) == [m EXCEPT !.val = v]
Fail(m, fault) == [m EXCEPT !.fault = fault]

\* What the call after the one that left the machine at m makes of it; a failed call
\* is the last.
Then(m, next) == IF m.fault = "none" THEN next ELSE m

-----------------------------------------------------------------------------
\* Registers and status bits: blocks of storage with a vector of changes.
\* Mutant of WriteRegister: a second change of a register is not recorded.
WriteRegisterOnce(m, r, v) ==
    [m EXCEPT !.regs[r] = v,
              !.delta.regs = IF \E i \in DOMAIN @ : @[i].at = r THEN @
                             ELSE Append(@, Change(r, m.regs[r], v))]

WriteRegister(m, r, v) ==
    [m EXCEPT !.regs[r] = v, !.delta.regs = Append(@, Change(r, m.regs[r], v))]

WriteCsr(m, b, v) ==
    [m EXCEPT !.csrs[b] = v, !.delta.csrs = Append(@, Change(b, m.csrs[b], v))]

WriteStatus(m, csr) ==
    LET Write(s, b) == IF b \in DOMAIN csr THEN WriteCsr(s, b, csr[b]) ELSE s
    IN  Write(Write(Write(Write(m, "N"), "Z"), "V"), "C")

PackedNZVC(m) ==
    LET bit(b, weight) == IF m.csrs[b] THEN weight ELSE 0
    IN  bit("N", 8) + bit("Z", 4) + bit("V", 2) + bit("C", 1)

WritePackedNZVC(m, v) ==
    WriteStatus(m, [N |-> (v \div 8) % 2 = 1, Z |-> (v \div 4) % 2 = 1,
                    V |-> (v \div 2) % 2 = 1, C |-> v % 2 = 1])

\* The position of an endpoint that clear has left on a removed chain.
Stale == -1

\* Input::read: the read is counted whether or not there is input.
ReadInput(m) ==
    LET counted == [m EXCEPT !.delta.reads = @ + 1]
    IN  IF m.at = Len(m.input) THEN Fail(counted, "NoMMInput")
        ELSE [counted EXCEPT !.at = @ + 1, !.val = (<<0>> \o m.input)[m.at + 2]]

ReadByte(m, a) ==
    CASE a > MaxOffset -> Fail(m, "OOBRead")
      [] a = CharIn -> ReadInput(m)
      [] a \in OutputPorts -> Value(m, m.cache[a])
      [] OTHER -> Value(m, m.ram[a])

ReadWord(m, a) ==
    LET hi == ReadByte(m, a)
        lo == ReadByte(hi, W(a + 1))
    IN  Then(hi, Then(lo, Value(lo, 256 * hi.val + lo.val)))

\* Mutant of WriteByte: the change is recorded after the byte is stored.
WriteByteLate(m, a, v) ==
    CASE a > MaxOffset -> Fail(m, "OOBWrite")
      [] a = CharIn -> Fail(m, "Unwritable")
      [] a \in OutputPorts -> [m EXCEPT !.log[a] = Append(@, v), !.cache[a] = v,
                                        !.delta.writes[a] = @ + 1]
      [] a \in RomStart .. MaxOffset -> m
      [] OTHER -> [m EXCEPT !.ram[a] = v, !.delta.ram = Append(@, Change(a, v, v))]

WriteByte(m, a, v) ==
    CASE a > MaxOffset -> Fail(m, "OOBWrite")
      [] a = CharIn -> Fail(m, "Unwritable")
      [] a \in OutputPorts -> [m EXCEPT !.log[a] = Append(@, v), !.cache[a] = v,
                                        !.delta.writes[a] = @ + 1]
      [] a \in RomStart .. MaxOffset -> m
      [] OTHER -> [m EXCEPT !.ram[a] = v, !.delta.ram = Append(@, Change(a, m.ram[a], v))]

WriteWord(m, a, w) ==
    LET hi == WriteByte(m, a, w \div 256)
    IN  Then(hi, WriteByte(hi, W(a + 1), w % 256))

\* address_from_vector
Vector(name) ==
    MaxOffset - [SystemStack |-> 9, Dispatcher |-> 5, TrapHandler |-> 1][name]

-----------------------------------------------------------------------------
\* Operands.  An X form works on register X, every other instruction on A.
Target(name) ==
    IF name \in {"NOTX", "NEGX", "ASLX", "ASRX", "ROLX", "RORX", "LDWX", "LDBX", "STWX", "STBX",
                 "CPWX", "CPBX", "ADDX", "SUBX", "ANDX", "ORX", "XORX"}
    THEN "X" ELSE "A"

EffectiveAddress(m, mode, os) ==
    LET sp == m.regs.SP
        x == m.regs.X
        deferred == ReadWord(m, W(os + sp))
    IN  CASE mode = "D" -> Value(m, os)
          [] mode = "N" -> ReadWord(m, os)
          [] mode = "S" -> Value(m, W(os + sp))
          [] mode = "X" -> Value(m, W(os + x))
          [] mode = "SX" -> Value(m, W(os + sp + x))
          [] mode = "SF" -> deferred
          [] mode = "SFX" -> Then(deferred, Value(deferred, W(deferred.val + x)))
          [] OTHER -> Fail(m, "throw")

ByteOperand(name) == name \in {"CPBA", "CPBX", "LDBA", "LDBX"}

LoadOperand(m, name, mode, os) ==
    IF mode = "I" THEN Value(m, IF ByteOperand(name) THEN os % 256 ELSE os)
    ELSE LET e == EffectiveAddress(m, mode, os)
         IN  Then(e, IF ByteOperand(name) THEN ReadByte(e, e.val) ELSE ReadWord(e, e.val))

StoreOperand(m, mode, os) ==
    IF mode = "I" THEN Fail(m, "IllegalAddressingMode") ELSE EffectiveAddress(m, mode, os)

-----------------------------------------------------------------------------
\* A word is written below a stack, and a register popped off one.
Push(m, a, w) == Then(m, WriteWord(m, a, w))

Pop(m, a, r) ==
    LET e == ReadWord(m, a)
    IN  Then(m, Then(e, WriteRegister(e, r, e.val)))

\* SCALL and USCALL push the processor's state below the system stack.
SystemCall(m, is) ==
    LET t == ReadWord(m, Vector("SystemStack"))
        To(n) == W(t.val - n)
        words == Push(Push(Push(Push(WriteByte(t, To(1), is),
                     To(3), m.regs.SP), To(5), m.regs.PC), To(7), m.regs.X), To(9), m.regs.A)
        pushed == Then(words, WriteByte(words, To(10), PackedNZVC(words)))
        h == ReadWord(WriteRegister(pushed, "SP", To(10)), Vector("TrapHandler"))
    IN  Then(t, Then(pushed, Then(h, WriteRegister(h, "PC", h.val))))

\* Mutant of SystemReturn: X and A are popped in the order they were pushed.
SystemReturnSwapped(m) ==
    LET sp == m.regs.SP
        e == ReadByte(m, sp)
        flags == Then(e, WritePackedNZVC(e, e.val))
    IN  Pop(Pop(Pop(Pop(flags, W(sp + 1), "X"), W(sp + 3), "A"), W(sp + 5), "PC"), W(sp + 7), "SP")

\* SRET: each register is written before the next is read.
SystemReturn(m) ==
    LET sp == m.regs.SP
        e == ReadByte(m, sp)
        flags == Then(e, WritePackedNZVC(e, e.val))
    IN  Pop(Pop(Pop(Pop(flags, W(sp + 1), "A"), W(sp + 3), "X"), W(sp + 5), "PC"), W(sp + 7), "SP")

Return(m) ==
    LET e == ReadWord(m, m.regs.SP)
    IN  Then(e, WriteRegister(WriteRegister(e, "PC", e.val), "SP", W(m.regs.SP + 2)))

Call(m, target) ==
    LET sp == W(m.regs.SP - 2)
        c == WriteWord(m, sp, m.regs.PC)
    IN  Then(c, WriteRegister(WriteRegister(c, "PC", target), "SP", sp))

\* Store an arithmetic result in a register, then its status bits.
Compute(m, r, alu) == WriteStatus(WriteRegister(m, r, alu.word), alu.csr)

UnaryDispatch(m, is, name) ==
    LET r == Target(name)
        w == m.regs[r]
    IN  CASE name = "RET" -> Return(m)
          [] name = "SRET" -> SystemReturn(m)
          [] name = "MOVSPA" -> WriteRegister(m, "A", m.regs.SP)
          [] name = "MOVASP" -> WriteRegister(m, "SP", m.regs.A)
          [] name = "MOVFLGA" -> WriteRegister(m, "A", PackedNZVC(m))
          [] name = "MOVAFLG" -> WritePackedNZVC(m, m.regs.A)
          [] name = "MOVTA" -> WriteRegister(m, "A", m.regs.TR)
          [] name = "NOP" -> m
          [] name \in {"NOTA", "NOTX"} -> Compute(m, r, Alu!Not(w))
          [] name \in {"NEGA", "NEGX"} -> Compute(m, r, Alu!Neg(w))
          [] name \in {"ASLA", "ASLX"} -> Compute(m, r, Alu!ShiftLeft(w))
          [] name \in {"ASRA", "ASRX"} -> Compute(m, r, Alu!ShiftRight(w))
          [] name \in {"ROLA", "ROLX"} -> Compute(m, r, Alu!RotateLeft(w, m.csrs.C))
          [] name \in {"RORA", "RORX"} -> Compute(m, r, Alu!RotateRight(w, m.csrs.C))
          [] name \in {"SCALL", "USCALL"} -> SystemCall(m, is)
          [] OTHER -> Fail(m, "IllegalUnaryInstruction")

Taken(name, csr) ==
    CASE name = "BR" -> TRUE
      [] name = "BRLE" -> csr.N \/ csr.Z
      [] name = "BRLT" -> csr.N
      [] name = "BREQ" -> csr.Z
      [] name = "BRNE" -> ~csr.Z
      [] name = "BRGE" -> ~csr.N
      [] name = "BRGT" -> ~csr.N /\ ~csr.Z
      [] name = "BRV" -> csr.V
      [] name = "BRC" -> csr.C

Branches == {"BR", "BRLE", "BRLT", "BREQ", "BRNE", "BRGE", "BRGT", "BRV", "BRC"}

\* A nonunary instruction whose operand m.val has been decoded.
Perform(m, name) ==
    LET r == Target(name)
        w == m.regs[r]
        op == m.val
    IN  CASE name \in Branches -> IF Taken(name, m.csrs) THEN WriteRegister(m, "PC", op) ELSE m
          [] name = "CALL" -> Call(m, op)
          [] name = "ADDSP" -> WriteRegister(m, "SP", W(m.regs.SP + op))
          [] name = "SUBSP" -> WriteRegister(m, "SP", W(m.regs.SP - op))
          [] name \in {"ADDA", "ADDX"} -> Compute(m, r, Alu!Add(w, op))
          [] name \in {"SUBA", "SUBX"} -> Compute(m, r, Alu!Sub(w, op))
          [] name \in {"ANDA", "ANDX"} -> Compute(m, r, Alu!And(w, op))
          [] name \in {"ORA", "ORX"} -> Compute(m, r, Alu!Or(w, op))
          [] name \in {"XORA", "XORX"} -> Compute(m, r, Alu!Xor(w, op))
          [] name \in {"CPWA", "CPWX"} ->
                WriteStatus(WriteStatus(m, Alu!Sub(w, op).csr), [N |-> Alu!CompareWord(w, op).N])
          [] name \in {"CPBA", "CPBX"} -> WriteStatus(m, Alu!CompareByte(w, op, 256))
          [] name = "LDWT" -> WriteRegister(m, "TR", op)
          [] name \in {"LDWA", "LDWX"} ->
                WriteStatus(WriteRegister(m, r, op), [N |-> Alu!Negative(op), Z |-> op = 0])
          [] name \in {"LDBA", "LDBX"} ->
                WriteStatus(WriteRegister(m, r, op), [N |-> FALSE, Z |-> op = 0])
          [] name \in {"STWA", "STWX"} -> WriteWord(m, op, w)
          [] name \in {"STBA", "STBX"} -> WriteByte(m, op, w % 256)
          [] OTHER -> Fail(m, "IllegalNonunaryInstruction")

NonunaryDispatch(m, name, mode) ==
    LET d == IF IsStore(name) THEN StoreOperand(m, mode, m.regs.OS)
             ELSE LoadOperand(m, name, mode, m.regs.OS)
    IN  Then(d, Perform(d, name))

\* The instruction specifier at pc is in IS and PC is past it; instr is what it
\* decodes to.
Dispatch(m, pc, instr) ==
    IF UnaryOpcode(instr.mnemonic) THEN UnaryDispatch(m, m.regs.IS, instr.mnemonic)
    ELSE LET o == ReadWord(m, W(pc + 1))
         IN  IF o.fault # "none" THEN Fail(o, "operand fetch")
             ELSE NonunaryDispatch(
                    WriteRegister(WriteRegister(o, "OS", o.val), "PC", W(pc + 3)),
                    instr.mnemonic, instr.mode)

\* Fetch, decode and execute one instruction.
Execute(m) ==
    LET pc == m.regs.PC
        f == ReadByte(m, pc)
    IN  Then(f, Dispatch(WriteRegister(WriteRegister(f, "IS", f.val), "PC", W(pc + 1)), pc,
                         Riproll[f.val]))
=============================================================================
