--------------------------- MODULE Pep10MachineMC ----------------------------
(***************************************************************************)
(* Programs for the Pep/10 machine in 48 bytes of memory: the program at   *)
(* 0, the ports at 27 to 29, the operating system from 32 with a trap      *)
(* handler that returns, and the vectors from 36.                          *)
(***************************************************************************)
EXTENDS Pep10Machine

RAM == 32
BytesOf(w) == <<w \div 256, w % 256>>
Op(name, mode, w) == <<Opcode(name, mode)>> \o BytesOf(w)

\* The operating system, whose system stack ends below stack.
Rom(stack) ==
    Op("LDWA", "I", 5) \o <<Opcode("SRET", "NONE")>>
    \o BytesOf(RAM) \o BytesOf(stack) \o BytesOf(PwrOff) \o BytesOf(0) \o BytesOf(0) \o BytesOf(RAM)

Memory(program, stack) ==
    [a \in Address |->
        IF a < Len(program) THEN program[a + 1]
        ELSE IF a >= RAM THEN Rom(stack)[a - RAM + 1] ELSE 0]

\* Copy input to output for ever.
Echo == Op("LDBA", "D", CharIn) \o Op("STBA", "D", CharOut) \o Op("BR", "I", 0)

\* Two bytes of input at once, where the second may be missing.
Pair == Op("LDWA", "D", CharIn - 1) \o Op("LDBA", "D", CharIn) \o Op("BR", "I", 3)

\* Write to the power-off port, and to the input port after it.
PowerOff == Op("LDWA", "I", 257) \o Op("STWA", "D", PwrOff) \o Op("STBA", "D", PwrOff)

\* A system call, a subroutine that calls it again, then power off.
Calls ==
    Op("LDWX", "I", 258) \o <<Opcode("USCALL", "NONE")>> \o Op("CALL", "I", 10)
    \o Op("STBX", "D", PwrOff) \o <<Opcode("NEGX", "NONE"), Opcode("RET", "NONE")>>

\* Count down with a comparison and a loop, storing on the stack.
Count ==
    Op("LDWX", "I", 2) \o Op("STWX", "SX", 65532) \o Op("SUBX", "I", 1)
    \o Op("BRNE", "I", 3) \o <<Opcode("UNIMPL", "NONE")>>

\* Branch to where there is no memory, and to where an instruction's operand has none.
Astray == Op("BR", "I", 60)
NoOperand == Op("BR", "I", MaxOffset)

\* Return from a system call that never was, popping registers off memory from sp on.
Pops(sp) == Op("LDWA", "I", sp) \o <<Opcode("MOVASP", "NONE"), Opcode("SRET", "NONE")>>

\* Store immediate, which throws, and go on behind it.
Thrown == <<Opcode("STWA", "D") - 1>> \o BytesOf(20) \o Op("STWA", "D", 20) \o Op("SUBA", "I", 1)

\* One instruction per opcode, with an operand in the middle of memory.
Single(opcode) == <<opcode>> \o BytesOf(20) \o <<8>>

\* With its stack below 34 a system call fails at the input port, after two of its bytes
\* went to the ROM and one to memory.  Pops(24) runs into the input port after it popped the
\* status bits, A and X, and Pops(41) into the end of memory after it popped PC too.
Programs ==
    {Memory(p, 26) : p \in {Echo, Pair, PowerOff, Calls, Count, Astray, NoOperand, Pops(24), Pops(41), Thrown}}
    \cup {Memory(Calls, 34)}
Reading == {Memory(Pair, 26)}

\* One memory per opcode.
Opcodes == {Memory(Single(o), 26) : o \in 0 .. 255}

\* The host points the stack and an index at memory, writes through the machine to
\* memory and to a port, and loads over the end of memory and over a port.
Pokes == {[at |-> "X", val |-> 65535]}
Writes == {[at |-> CharOut, val |-> 1], [at |-> 0, val |-> 18]}
Loadings == {[offset |-> 46, bytes |-> <<0, 20, 7>>], [offset |-> CharIn - 2, bytes |-> <<9, 9, 9, 9>>]}
=============================================================================
