-------------------------- MODULE Pep10MachineProofs --------------------------
(***************************************************************************)
(* The processor and its machine, whatever the programs, the memory map    *)
(* and the bounds are: step and run report what Stepping promises; run     *)
(* stops in time; what every access keeps, every instruction keeps, and so *)
(* registers, memory, ports and deltas keep their types; SRET takes back   *)
(* what a system call did; and the history undoes and redoes exactly.      *)
(***************************************************************************)
EXTENDS Pep10Machine, SequenceTheorems, TLAPS, WellFoundedInduction

\* What step reports of an instruction that completed, and of one that failed.
LEMMA OutcomeCompletes == ASSUME NEW m PROVE Outcome(m) \in Promises!Completed
  <1>1. CASE Halted(m)
    BY <1>1 DEF Outcome, Promises!Completed
  <1>2. CASE ~Halted(m) /\ m.regs.PC \in breakpoints
    BY <1>2 DEF Outcome, Promises!Completed
  <1>3. CASE ~Halted(m) /\ m.regs.PC \notin breakpoints
    BY <1>3 DEF Outcome, Promises!Completed
  <1>. QED
    BY <1>1, <1>2, <1>3

\* A failed instruction is reported as a failure.
LEMMA FailureFails == ASSUME NEW fault PROVE Failure(fault) \subseteq Promises!Failed
  <1>1. CASE fault = "NoMMInput"
    BY <1>1 DEF Failure, Promises!Failed
  <1>2. CASE fault = "throw"
    BY <1>2 DEF Failure, Promises!Failed
  <1>3. CASE fault = "operand fetch"
    BY <1>3 DEF Failure, Promises!Failed
  <1>4. CASE fault \notin {"NoMMInput", "throw", "operand fetch"}
    BY <1>4 DEF Failure, Promises!Failed
  <1>. QED
    BY <1>1, <1>2, <1>3, <1>4

\* An instruction counts exactly when it completes.
LEMMA StepCounts == ProcessorStep => Promises!Instruction
  <1>. SUFFICES ASSUME ProcessorStep PROVE Promises!Instruction
    OBVIOUS
  <1>. DEFINE m == Execute(Machine)
  <1>1. CASE cycles' = cycles + 1 /\ result' = Outcome(m)
    BY <1>1, OutcomeCompletes DEF Promises!Instruction
  <1>2. CASE cycles' = cycles /\ result' \in Failure(m.fault)
    BY <1>2, FailureFails DEF Promises!Instruction
  <1>. QED
    BY <1>1, <1>2 DEF ProcessorStep, Finish

\* Every call of the host other than step and run leaves the count or resets it.
LEMMA HostCallIsOther ==
    ASSUME HostCall, cycles' \in {0, cycles}
    PROVE  Promises!OtherCall
  BY DEF HostCall, Promises!OtherCall

\* Every behaviour of the machine is a behaviour of Stepping, for every memory map,
\* every program, every input and every order of the host's calls.
THEOREM MachineImplementsStepping == MachineSpec => ImplementsStepping
  <1>1. MachineInit => Promises!SteppingInit
    BY DEF MachineInit, Promises!SteppingInit, Idle, Promises!Idle
  <1>2. [MachineNext]_vars => [Promises!SteppingNext]_(Promises!steppingVars)
    <2>. SUFFICES ASSUME [MachineNext]_vars
                  PROVE  [Promises!SteppingNext]_(Promises!steppingVars)
      OBVIOUS
    <2>1. CASE UNCHANGED vars
      BY <2>1 DEF vars, Promises!steppingVars
    <2>2. CASE Step
      <3>1. Promises!Step
        BY <2>2, StepCounts DEF Step, HasRoom, Promises!Step
      <3>. QED
        BY <3>1 DEF Promises!SteppingNext
    <2>3. CASE RunStep
      <3>1. Promises!RunStep
        BY <2>3, StepCounts DEF RunStep, Promises!RunStep, Goes, Promises!Goes, Idle, Promises!Idle
      <3>. QED
        BY <3>1 DEF Promises!SteppingNext
    <2>4. ASSUME NEW l \in Limits, BeginRun(l)
          PROVE  Promises!SteppingNext
      <3>1. Promises!BeginRun(l)
        BY <2>4 DEF BeginRun, HasRoom, Promises!BeginRun
      <3>. QED
        BY <3>1 DEF Promises!SteppingNext
    <2>5. CASE BeginSimulation
      BY <2>5, HostCallIsOther DEF BeginSimulation, Promises!SteppingNext
    <2>6. CASE ClearAll
      BY <2>6, HostCallIsOther DEF ClearAll, Promises!SteppingNext
    <2>7. ASSUME NEW l \in Loads, LoadBytes(l)
          PROVE  Promises!SteppingNext
      BY <2>7, HostCallIsOther DEF LoadBytes, Promises!SteppingNext
    <2>8. ASSUME NEW w \in HostWrites, HostWriteMemory(w)
          PROVE  Promises!SteppingNext
      BY <2>8, HostCallIsOther DEF HostWriteMemory, Promises!SteppingNext
    <2>9. ASSUME NEW w \in RegisterWrites, HostWriteRegister(w)
          PROVE  Promises!SteppingNext
      BY <2>9, HostCallIsOther DEF HostWriteRegister, Promises!SteppingNext
    <2>10. ASSUME NEW b \in InputBytes, BufferInput(b)
           PROVE  Promises!SteppingNext
      BY <2>10, HostCallIsOther DEF BufferInput, Promises!SteppingNext
    <2>11. ASSUME NEW new, SetBreakpoints(new)
           PROVE  Promises!SteppingNext
      BY <2>11, HostCallIsOther DEF SetBreakpoints, Promises!SteppingNext
    <2>12. CASE RemoveAllBreakpoints
      BY <2>12, <2>11 DEF RemoveAllBreakpoints
    <2>13. ASSUME NEW a \in Breakable, AddBreakpoint(a) \/ RemoveBreakpoint(a)
           PROVE  Promises!SteppingNext
      BY <2>13, <2>11 DEF AddBreakpoint, RemoveBreakpoint
    <2>. QED
      BY <2>1, <2>2, <2>3, <2>4, <2>5, <2>6, <2>7, <2>8, <2>9, <2>10, <2>12, <2>13
      DEF MachineNext
  <1>. QED
    BY <1>1, <1>2, PTL DEF MachineSpec, ImplementsStepping, Promises!SteppingSpec

(***************************************************************************)
(* What Stepping promises.                                                 *)
(***************************************************************************)

\* The state of a call to run: it has one of the limits, and no step of a run takes the
\* count beyond the bound the host keeps to.  The last follows only together with
\* RunOnlyNominal and the state before the first step.
RunHasBudget ==
    /\ Promises!SteppingTypeOK
    /\ Promises!RunOnlyNominal
    /\ run.mode = "first" => cycles < MaxCycles

\* A run keeps to its budget, whatever the instructions do.
THEOREM RunsKeepBudget == Promises!SteppingSpec => []RunHasBudget
  <1>. USE DEF Promises!Completed, Promises!Failed
  <1>1. MaxCycles \in Nat /\ Limits \subseteq 0 .. MaxCycles
    BY MachineAssumption
  <1>2. Promises!SteppingInit => RunHasBudget
    BY <1>1 DEF Promises!SteppingInit, RunHasBudget, Promises!SteppingTypeOK,
        Promises!RunOnlyNominal, Promises!Idle
  <1>3. RunHasBudget /\ [Promises!SteppingNext]_(Promises!steppingVars) => RunHasBudget'
    <2>. SUFFICES ASSUME RunHasBudget, [Promises!SteppingNext]_(Promises!steppingVars)
                  PROVE  RunHasBudget'
      OBVIOUS
    <2>. USE DEF RunHasBudget, Promises!SteppingTypeOK, Promises!RunOnlyNominal
    <2>1. CASE UNCHANGED Promises!steppingVars
      BY <2>1 DEF Promises!steppingVars
    <2>2. CASE Promises!Step
      <3>1. cycles' \in 0 .. MaxCycles /\ result' \in Promises!Completed \cup Promises!Failed
        BY <1>1, <2>2 DEF Promises!Step, Promises!Instruction
      <3>2. run' = run /\ run.mode = "idle"
        BY <2>2 DEF Promises!Step
      <3>. QED
        BY <3>1, <3>2
    <2>3. ASSUME NEW l \in Limits, Promises!BeginRun(l)
          PROVE  RunHasBudget'
      BY <2>3 DEF Promises!BeginRun
    <2>4. CASE Promises!RunStep
      <3>1. run \in [mode: {"first", "going"}, limit: Limits] /\ cycles < MaxCycles
        BY <1>1, <2>4 DEF Promises!RunStep, Promises!Idle
      <3>2. cycles' \in 0 .. MaxCycles /\ result' \in Promises!Completed \cup Promises!Failed
        BY <1>1, <2>4, <3>1 DEF Promises!RunStep, Promises!Instruction
      <3>3. CASE Promises!Goes(result', cycles')
        <4>1. run' = [mode |-> "going", limit |-> run.limit]
          BY <2>4, <3>1, <3>3 DEF Promises!RunStep
        <4>2. result' = "kNominal" /\ cycles' < run'.limit
          BY <3>3, <4>1 DEF Promises!Goes
        <4>. QED
          BY <3>1, <3>2, <4>1, <4>2
      <3>4. CASE ~Promises!Goes(result', cycles')
        <4>1. run' = Promises!Idle
          BY <2>4, <3>4 DEF Promises!RunStep
        <4>. QED
          BY <3>2, <4>1 DEF Promises!Idle
      <3>. QED
        BY <3>3, <3>4
    <2>5. CASE Promises!OtherCall
      BY <1>1, <2>5 DEF Promises!OtherCall
    <2>. QED
      BY <2>1, <2>2, <2>3, <2>4, <2>5 DEF Promises!SteppingNext
  <1>. QED
    BY <1>2, <1>3, PTL DEF Promises!SteppingSpec

\* A run of the machine stops at the first thing it has to report and within its limit.
THEOREM RunsOnlyOnNominal == MachineSpec => []Promises!RunOnlyNominal
  BY MachineImplementsStepping, RunsKeepBudget, PTL DEF RunHasBudget, ImplementsStepping

\* The calls, the count and the result keep the types a caller of the machine sees.
THEOREM SteppingTypeCorrect == MachineSpec => []Promises!SteppingTypeOK
  BY MachineImplementsStepping, RunsKeepBudget, PTL DEF RunHasBudget, ImplementsStepping

\* A run does not step on from a breakpoint, a halt or its limit: what it goes on from
\* is the state it has just looked at, with the breakpoints and the power-off port as
\* the instruction left them.
THEOREM RunsStopInTime == MachineSpec => []RunStopsInTime
  <1>1. MachineInit => RunStopsInTime
    BY DEF MachineInit, Idle, RunStopsInTime
  <1>2. RunStopsInTime /\ [MachineNext]_vars => RunStopsInTime'
    <2>. SUFFICES ASSUME RunStopsInTime, [MachineNext]_vars PROVE RunStopsInTime'
      OBVIOUS
    <2>1. CASE UNCHANGED vars
      BY <2>1 DEF vars, RunStopsInTime, Halted, Machine
    <2>2. CASE RunStep
      <3>. SUFFICES ASSUME run'.mode = "going"
                    PROVE  regs'.PC \notin breakpoints' /\ ~Halted(Machine)' /\ cycles' < run'.limit
        BY DEF RunStopsInTime
      <3>. DEFINE m == Execute(Machine)
      <3>1. result' = "kNominal" /\ cycles' < run.limit /\ run' = [run EXCEPT !.mode = "going"]
        BY <2>2 DEF RunStep, Goes, Idle
      <3>2. Finish(m) /\ breakpoints' = breakpoints /\ started' = started
        BY <2>2 DEF RunStep, ProcessorStep
      <3>. HIDE DEF m
      <3>3. result' \notin Failure(m.fault)
        BY <3>1, FailureFails DEF Promises!Failed
      <3>4. Become([m EXCEPT !.delta = NoDelta]) /\ Outcome(m) = "kNominal"
        BY <3>1, <3>2, <3>3 DEF Finish
      <3>5. ~Halted(m) /\ m.regs.PC \notin breakpoints
        BY <3>4 DEF Outcome
      <3>6. regs' = m.regs /\ cache' = m.cache
        BY <3>4 DEF Become
      <3>7. ~Halted(Machine)'
        BY <3>2, <3>5, <3>6 DEF Halted, Machine
      <3>8. run'.limit = run.limit
        BY <3>1
      <3>. QED
        BY <3>1, <3>2, <3>5, <3>6, <3>7, <3>8
    <2>3. CASE Step
      BY <2>3 DEF Step, RunStopsInTime
    <2>4. ASSUME NEW l \in Limits, BeginRun(l)
          PROVE  RunStopsInTime'
      BY <2>4 DEF BeginRun, RunStopsInTime
    <2>5. CASE HostCall
      BY <2>5 DEF HostCall, RunStopsInTime
    <2>6. MachineNext => Step \/ RunStep \/ HostCall \/ \E l \in Limits : BeginRun(l)
      BY DEF MachineNext, BeginSimulation, ClearAll, LoadBytes, HostWriteMemory, HostWriteRegister,
             BufferInput, AddBreakpoint, RemoveBreakpoint, RemoveAllBreakpoints, SetBreakpoints
    <2>. QED
      BY <2>1, <2>2, <2>3, <2>4, <2>5, <2>6
  <1>. QED
    BY <1>1, <1>2, PTL DEF MachineSpec
-----------------------------------------------------------------------------
(***************************************************************************)
(* The types of the machine.  An instruction is built from operators on a  *)
(* machine record, each of which is shown once to keep the record's type;  *)
(* its status is that of the port at every call.                           *)
(***************************************************************************)

Faults ==
    {"none", "NoMMInput", "OOBRead", "OOBWrite", "Unwritable", "IllegalAddressingMode",
     "IllegalUnaryInstruction", "IllegalNonunaryInstruction", "operand fetch", "throw"}

MachineRec ==
    [regs: [Registers -> Word], csrs: [Status -> BOOLEAN], ram: [Address -> Byte],
     cache: [OutputPorts -> Byte], log: [OutputPorts -> Seq(Byte)],
     input: {input} \cap Seq(Byte), at: {Stale} \cup 0 .. Len(input), delta: StepDelta, val: Word, fault: Faults]

\* The width of words and bytes.
LEMMA Widths ==
    \E M \in Nat :
        /\ M = 256 * 256 /\ M = Alu!WordMod
        /\ \A x : x \in Byte <=> x \in Nat /\ x < 256
        /\ \A x : x \in Word <=> x \in Nat /\ x < M
  <1>1. PICK M : M = Alu!WordMod
    OBVIOUS
  <1>2. M = 256 * 256 /\ M \in Nat
    BY <1>1 DEF Alu!WordMod
  <1>3. \A x : x \in Byte <=> x \in Nat /\ x < 256
    BY DEF Byte
  <1>4. Word = 0 .. M - 1
    BY <1>1 DEF Word, Alu!Word
  <1>5. \A x : x \in 0 .. M - 1 <=> x \in Nat /\ x < M
    <2>1. M \in Nat
      BY <1>2
    <2>. QED
      BY <2>1
  <1>6. \A x : x \in Word <=> x \in Nat /\ x < M
    BY <1>4, <1>5, Zenon
  <1>. QED
    BY <1>1, <1>2, <1>3, <1>6

\* A byte is a word, and a word a number.
LEMMA BytesAreWords == Byte \subseteq Word /\ Word \subseteq Nat
  BY Widths

\* Addresses wrap around at the width of a word.
LEMMA Wraps == \A n \in Int : W(n) \in Word
  BY Widths DEF W

\* The addresses, and what is at them.
LEMMA Numbers ==
    /\ MaxOffset \in Nat /\ Address = 0 .. MaxOffset /\ Address \subseteq Word
    /\ OutputPorts \subseteq Address /\ CharIn \in Address /\ CharIn \notin OutputPorts
    /\ RomStart \in Nat /\ CharIn < RomStart /\ \A p \in OutputPorts : p < RomStart
  <1>1. MaxOffset \in Word
    BY MapAssumption
  <1>2. Address \subseteq Word /\ MaxOffset \in Nat
    BY <1>1, Widths DEF Address
  <1>3. {CharIn, CharOut, PwrOff} \subseteq Address
    BY <1>2, MapAssumption DEF Address
  <1>. QED
    BY <1>2, <1>3, MapAssumption DEF OutputPorts, Address

\* A word is made of two bytes.
LEMMA BytesOfWord ==
    /\ \A h, l \in Byte : 256 * h + l \in Word
    /\ \A w \in Word : /\ w \div 256 \in Byte /\ w % 256 \in Byte
                       /\ 256 * (w \div 256) + (w % 256) = w
  <1>1. \A h, l \in Byte : 256 * h + l \in Word
    BY Widths
  <1>2. ASSUME NEW w \in Word
        PROVE  /\ w \div 256 \in Byte /\ w % 256 \in Byte
               /\ 256 * (w \div 256) + (w % 256) = w
    <2>1. w \div 256 \in Int /\ w % 256 \in Byte
      BY Widths
    <2>2. w % 256 = w - 256 * (w \div 256)
      BY Widths, Z3
    <2>3. PICK q, r : q = w \div 256 /\ r = w % 256
      OBVIOUS
    <2>4. q \in Byte
      BY <2>1, <2>2, <2>3, Widths
    <2>5. 256 * q + r = w
      BY <2>1, <2>2, <2>3, Widths
    <2>6. 256 * (w \div 256) + (w % 256) = w
      BY <2>3, <2>5, Zenon
    <2>. QED
      BY <2>1, <2>3, <2>4, <2>6
  <1>. QED
    BY <1>1, <1>2

\* The components of a machine record.
LEMMA Fields ==
    ASSUME NEW m \in MachineRec
    PROVE  /\ m.regs \in [Registers -> Word] /\ m.csrs \in [Status -> BOOLEAN]
           /\ m.ram \in [Address -> Byte] /\ m.cache \in [OutputPorts -> Byte]
           /\ m.log \in [OutputPorts -> Seq(Byte)] /\ m.input = input /\ input \in Seq(Byte)
           /\ m.at \in {Stale} \cup 0 .. Len(input) /\ m.delta \in StepDelta
           /\ m.val \in Word /\ m.fault \in Faults
           /\ m.delta.regs \in Seq(ChangeOf(Registers, Word))
           /\ m.delta.csrs \in Seq(ChangeOf(Status, BOOLEAN))
           /\ m.delta.ram \in Seq(ChangeOf(Address, Byte))
           /\ m.delta.reads \in Nat /\ m.delta.writes \in [OutputPorts -> Nat]
  BY DEF MachineRec, StepDelta

\* A change of a block's element.
LEMMA Recorded ==
    ASSUME NEW I, NEW V, NEW s \in Seq(ChangeOf(I, V)), NEW i \in I, NEW old \in V, NEW new \in V
    PROVE  Append(s, Change(i, old, new)) \in Seq(ChangeOf(I, V))
  <1>1. Change(i, old, new) \in ChangeOf(I, V)
    BY DEF Change, ChangeOf
  <1>. QED
    BY <1>1, AppendProperties

\* Returning a value or an error.
LEMMA Returns ==
    ASSUME NEW m \in MachineRec
    PROVE  /\ \A v \in Word : /\ Value(m, v) \in MachineRec
                              /\ Value(m, v).val = v /\ Value(m, v).fault = m.fault
           /\ \A f \in Faults : Fail(m, f) \in MachineRec /\ Fail(m, f).fault = f
  BY DEF MachineRec, Value, Fail

\* A register and a status bit are written.
LEMMA RegisterWritten ==
    ASSUME NEW m \in MachineRec, NEW r \in Registers, NEW v \in Word
    PROVE  /\ WriteRegister(m, r, v) \in MachineRec
           /\ WriteRegister(m, r, v).val = m.val /\ WriteRegister(m, r, v).fault = m.fault
  <1>. DEFINE changes == Append(m.delta.regs, Change(r, m.regs[r], v))
              n == WriteRegister(m, r, v)
  <1>1. changes \in Seq(ChangeOf(Registers, Word))
    BY Fields, Recorded
  <1>2. n = [m EXCEPT !.regs = [m.regs EXCEPT ![r] = v], !.delta = [m.delta EXCEPT !.regs = changes]]
    BY DEF WriteRegister, MachineRec, StepDelta
  <1>. HIDE DEF changes, n
  <1>3. [m.regs EXCEPT ![r] = v] \in [Registers -> Word]
    BY Fields
  <1>4. [m.delta EXCEPT !.regs = changes] \in StepDelta
    BY <1>1, Fields DEF StepDelta
  <1>. QED
    BY <1>2, <1>3, <1>4 DEF MachineRec, n

\* A status bit is written, and the change is recorded.
LEMMA CsrWritten ==
    ASSUME NEW m \in MachineRec, NEW b \in Status, NEW v \in BOOLEAN
    PROVE  /\ WriteCsr(m, b, v) \in MachineRec
           /\ WriteCsr(m, b, v).val = m.val /\ WriteCsr(m, b, v).fault = m.fault
  <1>. DEFINE changes == Append(m.delta.csrs, Change(b, m.csrs[b], v))
              n == WriteCsr(m, b, v)
  <1>1. changes \in Seq(ChangeOf(Status, BOOLEAN))
    <2>1. m.csrs[b] \in BOOLEAN /\ m.delta.csrs \in Seq(ChangeOf(Status, BOOLEAN))
      BY Fields
    <2>. QED
      BY <2>1, Recorded
  <1>2. n = [m EXCEPT !.csrs = [m.csrs EXCEPT ![b] = v], !.delta = [m.delta EXCEPT !.csrs = changes]]
    BY DEF WriteCsr, MachineRec, StepDelta
  <1>. HIDE DEF changes, n
  <1>3. [m.csrs EXCEPT ![b] = v] \in [Status -> BOOLEAN]
    BY Fields
  <1>4. [m.delta EXCEPT !.csrs = changes] \in StepDelta
    BY <1>1, Fields DEF StepDelta
  <1>. QED
    BY <1>2, <1>3, <1>4 DEF MachineRec, n

\* Some of the status bits are written.
Flags(csr) == \A b \in Status : b \in DOMAIN csr => csr[b] \in BOOLEAN

\* So are all the bits an instruction names.
LEMMA StatusWritten ==
    ASSUME NEW m \in MachineRec, NEW csr, Flags(csr)
    PROVE  /\ WriteStatus(m, csr) \in MachineRec
           /\ WriteStatus(m, csr).val = m.val /\ WriteStatus(m, csr).fault = m.fault
  <1>. DEFINE Write(s, b) == IF b \in DOMAIN csr THEN WriteCsr(s, b, csr[b]) ELSE s
  <1>1. ASSUME NEW s \in MachineRec, NEW b \in Status
        PROVE  Write(s, b) \in MachineRec /\ Write(s, b).val = s.val /\ Write(s, b).fault = s.fault
    <2>1. b \in DOMAIN csr => csr[b] \in BOOLEAN
      BY DEF Flags
    <2>. QED
      BY <2>1, CsrWritten
  <1>2. WriteStatus(m, csr) = Write(Write(Write(Write(m, "N"), "Z"), "V"), "C")
    BY DEF WriteStatus
  <1>3. "N" \in Status /\ "Z" \in Status /\ "V" \in Status /\ "C" \in Status
    BY DEF Status
  <1>. DEFINE n == Write(m, "N")
              z == Write(n, "Z")
              v == Write(z, "V")
              c == Write(v, "C")
  <1>4. WriteStatus(m, csr) = c
    BY <1>2
  <1>. HIDE DEF Write
  <1>5. n \in MachineRec /\ n.val = m.val /\ n.fault = m.fault
    BY <1>1, <1>3
  <1>. HIDE DEF n
  <1>6. z \in MachineRec /\ z.val = m.val /\ z.fault = m.fault
    BY <1>1, <1>3, <1>5
  <1>. HIDE DEF z
  <1>7. v \in MachineRec /\ v.val = m.val /\ v.fault = m.fault
    BY <1>1, <1>3, <1>6
  <1>. HIDE DEF v
  <1>8. c \in MachineRec /\ c.val = m.val /\ c.fault = m.fault
    BY <1>1, <1>3, <1>7
  <1>. QED
    BY <1>4, <1>8

\* The status bits packed into a byte, and unpacked.
LEMMA StatusPacked ==
    ASSUME NEW m \in MachineRec
    PROVE  /\ PackedNZVC(m) \in Byte /\ PackedNZVC(m) \in Word
           /\ \A v : WritePackedNZVC(m, v) \in MachineRec
  <1>1. PackedNZVC(m) \in 0 .. 15
    BY DEF PackedNZVC
  <1>2. ASSUME NEW v PROVE WritePackedNZVC(m, v) \in MachineRec
    <2>1. Flags([N |-> (v \div 8) % 2 = 1, Z |-> (v \div 4) % 2 = 1,
                 V |-> (v \div 2) % 2 = 1, C |-> v % 2 = 1])
      <3>1. \A n, z, o, c \in BOOLEAN : Flags([N |-> n, Z |-> z, V |-> o, C |-> c])
        BY DEF Flags, Status
      <3>. QED
        BY <3>1
    <2>. QED
      BY <2>1, StatusWritten DEF WritePackedNZVC
  <1>3. PackedNZVC(m) \in Byte
    BY <1>1, Widths
  <1>. QED
    BY <1>2, <1>3, BytesAreWords

\* Reading the input port.
LEMMA InputRead ==
    ASSUME NEW m \in MachineRec
    PROVE  /\ ReadInput(m) \in MachineRec
           /\ ReadInput(m).fault = "none" => ReadInput(m).val \in Byte
  <1>. DEFINE counted == [m EXCEPT !.delta.reads = @ + 1]
              read == (<<0>> \o m.input)[m.at + 2]
  <1>1. counted = [m EXCEPT !.delta = [m.delta EXCEPT !.reads = m.delta.reads + 1]]
    BY DEF MachineRec, StepDelta
  <1>2. counted \in MachineRec /\ counted.at = m.at /\ counted.fault = m.fault
    <2>1. m.delta.reads + 1 \in Nat /\ m.delta \in StepDelta
      BY Fields
    <2>2. [m.delta EXCEPT !.reads = m.delta.reads + 1] \in StepDelta
      BY <2>1 DEF StepDelta
    <2>. HIDE DEF counted
    <2>. QED
      BY <1>1, <2>2 DEF MachineRec
  <1>3. CASE m.at = Len(m.input)
    <2>1. ReadInput(m) = Fail(counted, "NoMMInput")
      BY <1>3 DEF ReadInput
    <2>2. "NoMMInput" \in Faults /\ "NoMMInput" # "none"
      BY DEF Faults
    <2>. HIDE DEF counted
    <2>3. Fail(counted, "NoMMInput") \in MachineRec /\ Fail(counted, "NoMMInput").fault = "NoMMInput"
      BY <1>2, <2>2, Returns
    <2>. QED
      BY <2>1, <2>2, <2>3, Zenon
  <1>4. CASE m.at # Len(m.input)
    <2>1. ReadInput(m) = [counted EXCEPT !.at = m.at + 1, !.val = read]
      BY <1>2, <1>4 DEF ReadInput
    <2>2. m.input = input /\ m.at \in {Stale} \cup 0 .. Len(input) /\ input \in Seq(Byte)
      BY Fields
    <2>3. Len(input) \in Nat /\ m.at + 1 \in 0 .. Len(input)
      BY <1>4, <2>2, LenProperties DEF Stale
    <2>4. read \in Byte
      <3>1. <<0>> \in Seq(Byte) /\ Len(<<0>>) = 1 /\ 0 \in Byte
        BY Widths
      <3>2. Len(<<0>> \o input) = 1 + Len(input) /\ <<0>> \o input \in Seq(Byte)
        BY <2>2, <3>1, ConcatProperties
      <3>3. m.at + 2 \in 1 .. Len(<<0>> \o input)
        BY <2>2, <2>3, <3>2 DEF Stale
      <3>. QED
        BY <2>2, <3>2, <3>3, ElementOfSeq
    <2>. HIDE DEF counted, read
    <2>5. [counted EXCEPT !.at = m.at + 1, !.val = read] \in MachineRec
      BY <1>2, <2>3, <2>4, BytesAreWords DEF MachineRec
    <2>6. [counted EXCEPT !.at = m.at + 1, !.val = read].val = read
      BY <1>2 DEF MachineRec
    <2>. QED
      BY <2>1, <2>4, <2>5, <2>6
  <1>. QED
    BY <1>3, <1>4

\* A byte is read.
LEMMA ByteRead ==
    ASSUME NEW m \in MachineRec, NEW a \in Word
    PROVE  /\ ReadByte(m, a) \in MachineRec
           /\ ReadByte(m, a).fault = "none" => ReadByte(m, a).val \in Byte
  <1>1. /\ a \in Nat /\ MaxOffset \in Nat /\ (~(a > MaxOffset) => a \in Address)
        /\ a > MaxOffset => a # CharIn /\ a \notin OutputPorts
        /\ a = CharIn => a \notin OutputPorts
    BY Numbers, BytesAreWords
  <1>2. CASE a > MaxOffset
    <2>1. ReadByte(m, a) = Fail(m, "OOBRead")
      BY <1>1, <1>2 DEF ReadByte
    <2>. QED
      <3>1. "OOBRead" \in Faults /\ "OOBRead" # "none"
        BY DEF Faults
      <3>2. Fail(m, "OOBRead") \in MachineRec /\ Fail(m, "OOBRead").fault = "OOBRead"
        BY <3>1, Returns
      <3>. QED
        BY <2>1, <3>1, <3>2
  <1>3. CASE ~(a > MaxOffset) /\ a = CharIn
    <2>1. ReadByte(m, a) = ReadInput(m)
      BY <1>1, <1>3 DEF ReadByte
    <2>. QED
      BY <2>1, InputRead
  <1>4. CASE ~(a > MaxOffset) /\ a # CharIn /\ a \in OutputPorts
    <2>1. ReadByte(m, a) = Value(m, m.cache[a])
      BY <1>1, <1>4 DEF ReadByte
    <2>2. m.cache[a] \in Byte /\ m.cache[a] \in Word
      BY <1>4, Fields, BytesAreWords
    <2>. QED
      BY <2>1, <2>2, Returns
  <1>5. CASE ~(a > MaxOffset) /\ a # CharIn /\ a \notin OutputPorts
    <2>1. ReadByte(m, a) = Value(m, m.ram[a])
      BY <1>1, <1>5 DEF ReadByte
    <2>2. m.ram[a] \in Byte /\ m.ram[a] \in Word
      BY <1>1, <1>5, Fields, BytesAreWords
    <2>. QED
      BY <2>1, <2>2, Returns
  <1>. QED
    BY <1>2, <1>3, <1>4, <1>5

\* A word is read.
LEMMA WordRead ==
    ASSUME NEW m \in MachineRec, NEW a \in Word
    PROVE  ReadWord(m, a) \in MachineRec
  <1>. DEFINE hi == ReadByte(m, a)
              lo == ReadByte(hi, W(a + 1))
  <1>1. hi \in MachineRec /\ (hi.fault = "none" => hi.val \in Byte)
    BY ByteRead
  <1>2. W(a + 1) \in Word
    BY Wraps, BytesAreWords
  <1>3. lo \in MachineRec /\ (lo.fault = "none" => lo.val \in Byte)
    <2>. HIDE DEF hi
    <2>. QED
      BY <1>1, <1>2, ByteRead
  <1>4. /\ hi.fault # "none" => ReadWord(m, a) = hi
        /\ hi.fault = "none" /\ lo.fault # "none" => ReadWord(m, a) = lo
        /\ hi.fault = "none" /\ lo.fault = "none" => ReadWord(m, a) = Value(lo, 256 * hi.val + lo.val)
    BY DEF ReadWord, Then
  <1>. HIDE DEF hi, lo
  <1>5. hi.fault = "none" /\ lo.fault = "none" => 256 * hi.val + lo.val \in Word
    <2>1. \A h, l \in Byte : 256 * h + l \in Word
      BY BytesOfWord
    <2>. SUFFICES ASSUME hi.fault = "none", lo.fault = "none" PROVE 256 * hi.val + lo.val \in Word
      OBVIOUS
    <2>2. PICK h, l : h = hi.val /\ l = lo.val
      OBVIOUS
    <2>3. h \in Byte /\ l \in Byte
      BY <1>1, <1>3, <2>2
    <2>4. 256 * h + l \in Word
      BY <2>1, <2>3, Zenon
    <2>. QED
      BY <2>2, <2>4, Zenon
  <1>6. hi.fault = "none" /\ lo.fault = "none" => Value(lo, 256 * hi.val + lo.val) \in MachineRec
    BY <1>3, <1>5, Returns
  <1>. QED
    BY <1>1, <1>3, <1>4, <1>6

\* An error leaves the value.
LEMMA FailKeeps == ASSUME NEW m \in MachineRec, NEW f PROVE Fail(m, f).val = m.val
  BY DEF Fail, MachineRec

\* A byte is written.
LEMMA ByteWritten ==
    ASSUME NEW m \in MachineRec, NEW a \in Word, NEW v \in Byte
    PROVE  WriteByte(m, a, v) \in MachineRec /\ WriteByte(m, a, v).val = m.val
  <1>. DEFINE n == WriteByte(m, a, v)
  <1>. SUFFICES n \in MachineRec /\ n.val = m.val
    OBVIOUS
  <1>1. /\ a \in Nat /\ MaxOffset \in Nat /\ (~(a > MaxOffset) => a \in Address)
        /\ a > MaxOffset => a # CharIn /\ a \notin OutputPorts /\ a \notin RomStart .. MaxOffset
        /\ a = CharIn => a \notin OutputPorts /\ a \notin RomStart .. MaxOffset
        /\ a \in OutputPorts => a \notin RomStart .. MaxOffset
    BY Numbers, BytesAreWords
  <1>2. CASE a > MaxOffset
    <2>1. n = Fail(m, "OOBWrite")
      BY <1>1, <1>2 DEF WriteByte
    <2>2. "OOBWrite" \in Faults
      BY DEF Faults
    <2>. HIDE DEF n
    <2>. QED
      BY <2>1, <2>2, Returns, FailKeeps
  <1>3. CASE ~(a > MaxOffset) /\ a = CharIn
    <2>1. n = Fail(m, "Unwritable")
      BY <1>1, <1>3 DEF WriteByte
    <2>2. "Unwritable" \in Faults
      BY DEF Faults
    <2>. HIDE DEF n
    <2>. QED
      BY <2>1, <2>2, Returns, FailKeeps
  <1>4. CASE ~(a > MaxOffset) /\ a # CharIn /\ a \in OutputPorts
    <2>. DEFINE written == Append(m.log[a], v)
    <2>1. n = [m EXCEPT !.log = [m.log EXCEPT ![a] = written], !.cache = [m.cache EXCEPT ![a] = v],
                        !.delta = [m.delta EXCEPT !.writes =
                                      [m.delta.writes EXCEPT ![a] = m.delta.writes[a] + 1]]]
      BY <1>1, <1>4 DEF WriteByte, MachineRec, StepDelta
    <2>2. written \in Seq(Byte)
      BY <1>4, Fields, AppendProperties
    <2>. HIDE DEF written, n
    <2>3. [m.log EXCEPT ![a] = written] \in [OutputPorts -> Seq(Byte)]
      BY <1>4, <2>2, Fields
    <2>4. [m.cache EXCEPT ![a] = v] \in [OutputPorts -> Byte]
      BY <1>4, Fields
    <2>5. [m.delta.writes EXCEPT ![a] = m.delta.writes[a] + 1] \in [OutputPorts -> Nat]
      BY <1>4, Fields
    <2>6. [m.delta EXCEPT !.writes = [m.delta.writes EXCEPT ![a] = m.delta.writes[a] + 1]] \in StepDelta
      BY <2>5, Fields DEF StepDelta
    <2>. QED
      BY <2>1, <2>3, <2>4, <2>6 DEF MachineRec
  <1>5. CASE ~(a > MaxOffset) /\ a # CharIn /\ a \notin OutputPorts /\ a \in RomStart .. MaxOffset
    <2>1. n = m
      BY <1>1, <1>5 DEF WriteByte
    <2>. HIDE DEF n
    <2>. QED
      BY <2>1
  <1>6. CASE ~(a > MaxOffset) /\ a # CharIn /\ a \notin OutputPorts /\ a \notin RomStart .. MaxOffset
    <2>. DEFINE changes == Append(m.delta.ram, Change(a, m.ram[a], v))
    <2>1. n = [m EXCEPT !.ram = [m.ram EXCEPT ![a] = v], !.delta = [m.delta EXCEPT !.ram = changes]]
      BY <1>1, <1>6 DEF WriteByte, MachineRec, StepDelta
    <2>2. changes \in Seq(ChangeOf(Address, Byte))
      BY <1>1, <1>6, Fields, Recorded
    <2>. HIDE DEF changes, n
    <2>3. [m.ram EXCEPT ![a] = v] \in [Address -> Byte]
      BY <1>1, <1>6, Fields
    <2>4. [m.delta EXCEPT !.ram = changes] \in StepDelta
      BY <2>2, Fields DEF StepDelta
    <2>. QED
      BY <2>1, <2>3, <2>4 DEF MachineRec
  <1>. QED
    BY <1>2, <1>3, <1>4, <1>5, <1>6, Zenon

\* The vectors are in memory.
LEMMA VectorIsAddress ==
    \A name \in {"SystemStack", "Dispatcher", "TrapHandler"} :
        Vector(name) \in RomStart .. MaxOffset - 1 /\ Vector(name) \in Word
  <1>1. RomStart \in Nat /\ RomStart + 11 <= MaxOffset /\ MaxOffset \in Nat
    BY MapAssumption, Numbers, Zenon
  <1>2. \A name \in {"SystemStack", "Dispatcher", "TrapHandler"} :
           Vector(name) \in RomStart .. MaxOffset - 1 /\ Vector(name) \in Address
    BY <1>1 DEF Vector, Address
  <1>. QED
    BY <1>2, Numbers

\* The registers are words.
LEMMA RegistersAreWords ==
    ASSUME NEW m \in MachineRec
    PROVE  /\ \A r \in Registers : m.regs[r] \in Word /\ m.regs[r] \in Int
           /\ {"A", "X", "SP", "PC", "IS", "OS", "TR"} \subseteq Registers
           /\ m.val \in Word /\ m.val \in Int
  <1>1. \A w \in Word : w \in Int
    BY BytesAreWords
  <1>2. \A r \in Registers : m.regs[r] \in Word
    BY Fields
  <1>3. m.val \in Word
    BY Fields
  <1>4. {"A", "X", "SP", "PC", "IS", "OS", "TR"} \subseteq Registers
    BY DEF Registers
  <1>. QED
    BY <1>1, <1>2, <1>3, <1>4

(***************************************************************************)
(* The arithmetic on words of 16 bits.                                     *)
(***************************************************************************)

\* Induction, as the provers can use it: a nonempty set of naturals has a least element.
LEMMA Least ==
    ASSUME NEW T \in SUBSET Nat, T # {}
    PROVE  \E n \in T : \A m \in T : n <= m
  <1>. DEFINE R == {ss \in Nat \X Nat : ss[1] < ss[2]}
  <1>1. IsWellFoundedOn(R, Nat)
    BY NatLessThanWellFounded DEF OpToRel
  <1>2. PICK n \in T : \A m \in T : ~ (<<m, n>> \in R)
    <2>. HIDE DEF R
    <2>. QED
      BY <1>1, WFMin
  <1>3. ASSUME NEW m \in T PROVE n <= m
    <2>1. <<m, n>> \in R <=> m < n
      BY Zenon
    <2>. QED
      BY <2>1, <1>2
  <1>. QED
    BY <1>3

\* What holds at 0 and, with i - 1, at i, holds up to n.
LEMMA Upwards ==
    ASSUME NEW n \in Nat, NEW G, 0 \in G, \A i \in 1 .. n : i - 1 \in G => i \in G
    PROVE  0 .. n \subseteq G
  <1>. DEFINE Bad == {i \in 0 .. n : i \notin G}
  <1>. SUFFICES ASSUME Bad # {} PROVE FALSE
    OBVIOUS
  <1>1. PICK i \in Bad : \A j \in Bad : i <= j
    <2>1. Bad \subseteq Nat
      OBVIOUS
    <2>. HIDE DEF Bad
    <2>. QED
      BY <2>1, Least
  <1>2. i \in 1 .. n
    OBVIOUS
  <1>3. i - 1 \in 0 .. n /\ i - 1 \notin Bad
    <2>1. ~(i <= i - 1)
      BY <1>2
    <2>. HIDE DEF Bad
    <2>. QED
      BY <1>1, <1>2, <2>1
  <1>. QED
    BY <1>2, <1>3

\* A loop that goes n times through its body computes a value of V.
Loop(n, base, op, f) == f = [i \in 0 .. n |-> IF i = 0 THEN base ELSE op[i][f[i - 1]]]

\* A recursive function over 0 .. n exists for every base and every step.
LEMMA LoopExists ==
    ASSUME NEW n \in Nat, NEW V, NEW base \in V, NEW op \in [1 .. n -> [V -> V]]
    PROVE  \E f \in [0 .. n -> V] : Loop(n, base, op, f)
  <1>. DEFINE G == {k \in 0 .. n : \E f \in [0 .. k -> V] : Loop(k, base, op, f)}
  <1>1. 0 \in G
    <2>1. Loop(0, base, op, [i \in 0 .. 0 |-> base])
      BY DEF Loop
    <2>2. [i \in 0 .. 0 |-> base] \in [0 .. 0 -> V]
      OBVIOUS
    <2>. QED
      BY <2>1, <2>2
  <1>2. ASSUME NEW k \in 1 .. n, k - 1 \in G
        PROVE  k \in G
    <2>1. PICK f \in [0 .. k - 1 -> V] : Loop(k - 1, base, op, f)
      BY <1>2
    <2>. DEFINE g == [i \in 0 .. k |-> IF i = k THEN op[k][f[k - 1]] ELSE f[i]]
    <2>2. ASSUME NEW i \in 0 .. k
          PROVE  g[i] = IF i = 0 THEN base ELSE op[i][g[i - 1]]
      <3>1. CASE i = k
        BY <3>1
      <3>2. CASE i # k
        <4>1. f[i] = IF i = 0 THEN base ELSE op[i][f[i - 1]]
          BY <2>1, <3>2 DEF Loop
        <4>. QED
          BY <3>2, <4>1
      <3>. QED
        BY <3>1, <3>2
    <2>3. Loop(k, base, op, g)
      <3>1. g = [i \in 0 .. k |-> g[i]]
        OBVIOUS
      <3>. HIDE DEF g
      <3>. QED
        BY <3>1, <2>2 DEF Loop
    <2>4. g \in [0 .. k -> V]
      OBVIOUS
    <2>. QED
      BY <2>3, <2>4
  <1>3. 0 .. n \subseteq G
    <2>. HIDE DEF G
    <2>. QED
      BY <1>1, <1>2, Upwards
  <1>. QED
    BY <1>3

\* Powers of two up to the width of a word.
Doubles(i) == 2 ^ i \in Nat \ {0} /\ (i # 0 => 2 ^ i = 2 * 2 ^ (i - 1))

\* The powers of two up to the width of a word.
LEMMA Powers == \A i \in 0 .. 16 : Doubles(i)
  <1>1. Doubles(0) /\ Doubles(1) /\ Doubles(2) /\ Doubles(3) /\ Doubles(4) /\ Doubles(5)
    BY DEF Doubles
  <1>2. Doubles(6) /\ Doubles(7) /\ Doubles(8) /\ Doubles(9) /\ Doubles(10) /\ Doubles(11)
    BY DEF Doubles
  <1>3. Doubles(12) /\ Doubles(13) /\ Doubles(14) /\ Doubles(15) /\ Doubles(16)
    BY DEF Doubles
  <1>4. ASSUME NEW i \in 0 .. 16
        PROVE  \/ i \in {0, 1, 2, 3, 4, 5} \/ i \in {6, 7, 8, 9, 10, 11} \/ i \in {12, 13, 14, 15, 16}
    OBVIOUS
  <1>. QED
    BY <1>1, <1>2, <1>3, <1>4

\* The ALU's words are the words of the machine.
LEMMA AluWidths ==
    /\ Alu!WordMod \in Nat \ {0} /\ Alu!Sign \in Nat \ {0} /\ Alu!WordMod = 2 * Alu!Sign
    /\ Alu!WordMod = 2 ^ 16
    /\ \A w : w \in Word <=> w \in Nat /\ w < Alu!WordMod
  <1>1. Doubles(16) /\ Doubles(15)
    BY Powers
  <1>2. /\ Alu!WordMod \in Nat \ {0} /\ Alu!Sign \in Nat \ {0} /\ Alu!WordMod = 2 * Alu!Sign
        /\ Alu!WordMod = 2 ^ 16
    BY <1>1 DEF Doubles, Alu!WordMod, Alu!Sign
  <1>3. \A w : w \in Word <=> w \in Nat /\ w < Alu!WordMod
    BY <1>2 DEF Word, Alu!Word
  <1>. QED
    BY <1>2, <1>3

\* What an arithmetic instruction stores.
Computes(alu) == alu.word \in Word /\ Flags(alu.csr)

\* The word computed bit by bit.
LEMMA BitsMapped ==
    ASSUME NEW ones, NEW a \in Word, NEW b \in Word
    PROVE  Alu!BitMap(ones, a, b) \in Word
  <1>. DEFINE d(i) == IF Alu!Bit(a, i - 1) + Alu!Bit(b, i - 1) \in ones THEN 2 ^ (i - 1) ELSE 0
              Is(g) == g = [i \in 0 .. 16 |-> IF i = 0 THEN 0 ELSE g[i - 1] + d(i)]
              W16 == CHOOSE g : Is(g)
              op == [i \in 1 .. 16 |-> [v \in Nat |-> v + d(i)]]
  <1>1. ASSUME NEW i \in 1 .. 16
        PROVE  /\ 2 ^ (i - 1) \in Nat \ {0} /\ 2 ^ i = 2 * 2 ^ (i - 1)
               /\ d(i) \in {0, 2 ^ (i - 1)} /\ d(i) \in Nat
    <2>1. i \in 0 .. 16 /\ i - 1 \in 0 .. 16 /\ i # 0
      OBVIOUS
    <2>2. Doubles(i) /\ Doubles(i - 1)
      BY <2>1, Powers
    <2>3. 2 ^ (i - 1) \in Nat \ {0} /\ 2 ^ i = 2 * 2 ^ (i - 1)
      BY <2>1, <2>2 DEF Doubles
    <2>. QED
      BY <2>3
  <1>. HIDE DEF d, W16
  <1>2. \E g : Is(g)
    <2>1. op \in [1 .. 16 -> [Nat -> Nat]]
      <3>1. ASSUME NEW i \in 1 .. 16, NEW v \in Nat PROVE v + d(i) \in Nat
        BY <1>1
      <3>. QED
        BY <3>1
    <2>2. PICK g \in [0 .. 16 -> Nat] : Loop(16, 0, op, g)
      <3>. HIDE DEF op
      <3>. QED
        BY <2>1, LoopExists
    <2>3. ASSUME NEW i \in 0 .. 16
          PROVE  g[i] = IF i = 0 THEN 0 ELSE g[i - 1] + d(i)
      <3>1. g[i] = IF i = 0 THEN 0 ELSE op[i][g[i - 1]]
        <4>. HIDE DEF op
        <4>. QED
          BY <2>2 DEF Loop
      <3>2. CASE i # 0
        <4>1. i \in 1 .. 16 /\ g[i - 1] \in Nat
          BY <3>2, <2>2
        <4>. QED
          BY <3>1, <4>1
      <3>. QED
        BY <3>1, <3>2
    <2>4. g = [i \in 0 .. 16 |-> g[i]]
      BY <2>2
    <2>5. Is(g)
      BY <2>3, <2>4
    <2>. QED
      BY <2>5
  <1>3. Is(W16)
    <2>. HIDE DEF Is
    <2>. QED
      BY <1>2 DEF W16
  <1>4. Alu!BitMap(ones, a, b) = W16[16]
    BY DEF Alu!BitMap, d, W16
  <1>. DEFINE G == {i \in 0 .. 16 : W16[i] \in Nat /\ W16[i] < 2 ^ i}
  <1>5. 0 \in G
    <2>1. W16[0] = 0
      BY <1>3
    <2>2. Doubles(0)
      BY Powers
    <2>. QED
      BY <2>1, <2>2 DEF Doubles
  <1>6. ASSUME NEW i \in 1 .. 16, i - 1 \in G
        PROVE  i \in G
    <2>1. W16[i] = W16[i - 1] + d(i)
      <3>1. i \in 0 .. 16 /\ i # 0
        OBVIOUS
      <3>. HIDE DEF d
      <3>. QED
        BY <1>3, <3>1
    <2>2. PICK p \in Nat, t \in Nat, v \in Nat : p = 2 ^ (i - 1) /\ t = d(i) /\ v = W16[i - 1]
      BY <1>1, <1>6
    <2>3. t <= p /\ v < p
      <3>1. W16[i - 1] < 2 ^ (i - 1)
        BY <1>6
      <3>2. d(i) = 0 \/ d(i) = 2 ^ (i - 1)
        BY DEF d
      <3>. QED
        BY <3>1, <3>2, <2>2
    <2>4. W16[i] = v + t /\ 2 ^ i = 2 * p
      BY <1>1, <2>1, <2>2
    <2>. QED
      BY <2>3, <2>4
  <1>7. 0 .. 16 \subseteq G
    <2>. HIDE DEF G
    <2>. QED
      BY <1>5, <1>6, Upwards
  <1>8. W16[16] \in Nat /\ W16[16] < 2 ^ 16
    BY <1>7
  <1>. QED
    BY <1>4, <1>8, AluWidths

\* Sums, negations, complements, shifts and halves of words.
LEMMA WordArithmetic ==
    ASSUME NEW a \in Word, NEW b \in Word
    PROVE  /\ Alu!Plus(a, b) \in Word /\ Alu!Complement(a) \in Word /\ Alu!Negate(a) \in Word
           /\ (2 * a) % Alu!WordMod \in Word
           /\ ((2 * a) % Alu!WordMod) + 1 \in Word
           /\ a \div 2 \in Word /\ (a \div 2) + Alu!Sign \in Word
  <1>. PICK M \in Nat \ {0}, S \in Nat \ {0} : M = Alu!WordMod /\ S = Alu!Sign /\ M = 2 * S
    BY AluWidths
  <1>1. a \in Nat /\ b \in Nat /\ a < M /\ b < M /\ \A w : w \in Word <=> w \in Nat /\ w < M
    BY AluWidths
  <1>2. \A n \in Int : n % M \in Nat /\ n % M < M
    OBVIOUS
  <1>3. Alu!Plus(a, b) \in Word /\ Alu!Complement(a) \in Word /\ Alu!Negate(a) \in Word
    <2>1. (a + b) % M \in Word /\ (M - 1 - a + 1) % M \in Word /\ M - 1 - a \in Word
      <3>1. a + b \in Int /\ M - 1 - a + 1 \in Int
        BY <1>1
      <3>2. \A n \in Int : n % M \in Word
        BY <1>1, <1>2
      <3>3. M - 1 - a \in Word
        BY <1>1
      <3>. QED
        BY <3>1, <3>2, <3>3
    <2>. QED
      BY <2>1 DEF Alu!Plus, Alu!Complement, Alu!Negate
  <1>4. (2 * a) % M \in Word /\ ((2 * a) % M) + 1 \in Word
    <2>1. CASE a < S
      <3>1. (2 * a) % M = 2 * a
        BY <1>1, <2>1
      <3>. QED
        BY <1>1, <2>1, <3>1
    <2>2. CASE ~(a < S)
      <3>1. (2 * a) % M = 2 * a - M
        BY <1>1, <2>2
      <3>. QED
        BY <1>1, <2>2, <3>1
    <2>. QED
      BY <1>1, <2>1, <2>2
  <1>5. a \div 2 \in Word /\ (a \div 2) + S \in Word
    <2>1. PICK q \in Int : q = a \div 2 /\ 2 * q <= a /\ a < 2 * q + 2
      BY <1>1
    <2>. QED
      BY <1>1, <2>1
  <1>. QED
    BY <1>3, <1>4, <1>5

\* The result of every arithmetic instruction is a word and some status bits.
LEMMA ArithmeticComputes ==
    ASSUME NEW a \in Word, NEW b \in Word, NEW c \in BOOLEAN
    PROVE  /\ Computes(Alu!Add(a, b)) /\ Computes(Alu!Sub(a, b)) /\ Computes(Alu!Not(a))
           /\ Computes(Alu!Neg(a)) /\ Computes(Alu!ShiftLeft(a)) /\ Computes(Alu!ShiftRight(a))
           /\ Computes(Alu!RotateLeft(a, c)) /\ Computes(Alu!RotateRight(a, c))
           /\ Computes(Alu!And(a, b)) /\ Computes(Alu!Or(a, b)) /\ Computes(Alu!Xor(a, b))
  <1>1. \A w \in Word : \A n, z, v, o \in BOOLEAN :
           /\ Computes(Alu!Result(w, [N |-> n, Z |-> z, V |-> v, C |-> o]))
           /\ Computes(Alu!Result(w, [N |-> n, Z |-> z, V |-> v]))
           /\ Computes(Alu!Result(w, [N |-> n, Z |-> z, C |-> o]))
           /\ Computes(Alu!Result(w, [N |-> n, Z |-> z]))
           /\ Computes(Alu!Result(w, [C |-> o]))
    BY DEF Computes, Flags, Status, Alu!Result
  <1>2. \A w, x, y : Alu!Negative(w) \in BOOLEAN /\ Alu!SignRule(w, x, y) \in BOOLEAN
    BY DEF Alu!Negative, Alu!SignRule
  <1>3. ASSUME NEW w \in Word, NEW v \in BOOLEAN, NEW o \in BOOLEAN
        PROVE  Computes(Alu!WithVC(w, v, o)) /\ Computes(Alu!Logic(w))
    BY <1>1, <1>2 DEF Alu!WithVC, Alu!Logic, Alu!NZ
  <1>4. Computes(Alu!Add(a, b)) /\ Computes(Alu!Sub(a, b))
    <2>1. Alu!Negate(b) \in Word
      BY WordArithmetic
    <2>2. Alu!Plus(a, b) \in Word /\ Alu!Plus(a, Alu!Negate(b)) \in Word
      BY <2>1, WordArithmetic
    <2>. QED
      BY <1>2, <1>3, <2>2 DEF Alu!Add, Alu!Sub
  <1>5. Computes(Alu!Not(a)) /\ Computes(Alu!Neg(a))
    <2>1. Alu!Complement(a) \in Word /\ Alu!Negate(a) \in Word
      BY WordArithmetic
    <2>. QED
      BY <1>1, <1>2, <2>1 DEF Alu!Not, Alu!Neg, Alu!NZ
  <1>6. Computes(Alu!ShiftLeft(a)) /\ Computes(Alu!RotateLeft(a, c))
    <2>1. (2 * a) % Alu!WordMod \in Word /\ ((2 * a) % Alu!WordMod) + 1 \in Word
      BY WordArithmetic
    <2>2. ((2 * a) % Alu!WordMod) + (IF c THEN 1 ELSE 0) \in Word
      <3>1. PICK x : x = (2 * a) % Alu!WordMod
        OBVIOUS
      <3>2. x \in Int /\ x \in Word /\ x + 1 \in Word
        BY <2>1, <3>1, BytesAreWords
      <3>3. x + (IF c THEN 1 ELSE 0) \in Word
        BY <3>2
      <3>. QED
        BY <3>1, <3>3, Zenon
    <2>. QED
      BY <1>1, <1>2, <1>3, <2>1, <2>2 DEF Alu!ShiftLeft, Alu!RotateLeft
  <1>7. Computes(Alu!ShiftRight(a)) /\ Computes(Alu!RotateRight(a, c))
    <2>1. a \div 2 \in Word /\ (a \div 2) + Alu!Sign \in Word /\ a \div 2 \in Int
      BY WordArithmetic, BytesAreWords
    <2>2. (a \div 2) + (IF c THEN Alu!Sign ELSE 0) \in Word
      BY <2>1
    <2>3. (a \div 2) + (IF Alu!Negative(a) THEN Alu!Sign ELSE 0) \in Word
      BY <2>1
    <2>. QED
      <3>1. Computes(Alu!ShiftRight(a))
        <4>1. PICK w : w = (a \div 2) + (IF Alu!Negative(a) THEN Alu!Sign ELSE 0)
          OBVIOUS
        <4>2. PICK n, z, o : n = Alu!Negative(w) /\ z = (w = 0) /\ o = (a % 2 = 1)
          OBVIOUS
        <4>3. w \in Word
          BY <2>3, <4>1
        <4>4. n \in BOOLEAN /\ z \in BOOLEAN /\ o \in BOOLEAN
          BY <4>2 DEF Alu!Negative
        <4>5. Alu!ShiftRight(a) = Alu!Result(w, [N |-> n, Z |-> z, C |-> o])
          BY <4>1, <4>2 DEF Alu!ShiftRight
        <4>6. Computes(Alu!Result(w, [N |-> n, Z |-> z, C |-> o]))
          BY <1>1, <4>3, <4>4, Zenon
        <4>. QED
          BY <4>5, <4>6, Zenon
      <3>2. Computes(Alu!RotateRight(a, c))
        BY <1>1, <1>2, <2>2 DEF Alu!RotateRight
      <3>. QED
        BY <3>1, <3>2
  <1>8. Computes(Alu!And(a, b)) /\ Computes(Alu!Or(a, b)) /\ Computes(Alu!Xor(a, b))
    BY <1>3, BitsMapped DEF Alu!And, Alu!Or, Alu!Xor
  <1>. QED
    BY <1>4, <1>5, <1>6, <1>7, <1>8

(***************************************************************************)
(* Instructions.                                                           *)
(***************************************************************************)

\* Every instruction works on a register.
LEMMA TargetIsRegister == \A name : Target(name) \in Registers
  BY DEF Target, Registers

\* The flags of the compare and load instructions.
LEMMA FlagsOfLoads ==
    ASSUME NEW w \in Word, NEW o \in Word
    PROVE  /\ Flags(Alu!Sub(w, o).csr) /\ Flags([N |-> Alu!CompareWord(w, o).N])
           /\ Flags(Alu!CompareByte(w, o, 256))
           /\ Flags([N |-> Alu!Negative(o), Z |-> o = 0]) /\ Flags([N |-> FALSE, Z |-> o = 0])
  <1>1. \A n, z, v, c \in BOOLEAN : /\ Flags([N |-> n, Z |-> z, V |-> v, C |-> c])
                                    /\ Flags([N |-> n, Z |-> z]) /\ Flags([N |-> n])
    BY DEF Flags, Status
  <1>2. Alu!Negative(o) \in BOOLEAN
    BY DEF Alu!Negative
  <1>3. Flags([N |-> Alu!CompareWord(w, o).N])
    <2>. DEFINE sub == Alu!Sub(w, o).csr
    <2>1. "N" \in DOMAIN sub
      BY DEF Alu!Sub, Alu!WithVC, Alu!Result
    <2>2. Alu!CompareWord(w, o) = [sub EXCEPT !.N = (sub.N # sub.V)]
      BY DEF Alu!CompareWord
    <2>. HIDE DEF sub
    <2>3. Alu!CompareWord(w, o).N = (sub.N # sub.V)
      BY <2>1, <2>2
    <2>4. (sub.N # sub.V) \in BOOLEAN
      OBVIOUS
    <2>. QED
      BY <1>1, <2>3, <2>4
  <1>4. Flags(Alu!CompareByte(w, o, 256))
    <2>1. PICK r : r = Alu!Plus(w, Alu!Negate(o)) % 256
      OBVIOUS
    <2>2. PICK n, z : n = (r >= 256 \div 2) /\ z = (r = 0)
      OBVIOUS
    <2>3. n \in BOOLEAN /\ z \in BOOLEAN /\ FALSE \in BOOLEAN
      BY <2>2
    <2>4. Alu!CompareByte(w, o, 256) = [N |-> n, Z |-> z, V |-> FALSE, C |-> FALSE]
      BY <2>1, <2>2 DEF Alu!CompareByte
    <2>5. Flags([N |-> n, Z |-> z, V |-> FALSE, C |-> FALSE])
      BY <1>1, <2>3, Zenon
    <2>. QED
      BY <2>4, <2>5, Zenon
  <1>5. Flags(Alu!Sub(w, o).csr)
    BY ArithmeticComputes DEF Computes
  <1>. QED
    BY <1>1, <1>2, <1>3, <1>4, <1>5

\* The two registers that every instruction writes first.
LEMMA Fetched ==
    ASSUME NEW m \in MachineRec, NEW b \in Byte, NEW pc \in Word
    PROVE  LET f == WriteRegister(WriteRegister(m, "IS", b), "PC", pc)
           IN  f \in MachineRec /\ f.regs.IS \in Byte
  <1>. DEFINE g == WriteRegister(m, "IS", b)
              f == WriteRegister(g, "PC", pc)
  <1>1. "IS" \in Registers /\ "PC" \in Registers /\ b \in Word
    BY BytesAreWords DEF Registers
  <1>2. g \in MachineRec
    BY <1>1, RegisterWritten
  <1>3. g.regs["IS"] = b
    BY <1>1 DEF WriteRegister, MachineRec
  <1>. HIDE DEF g
  <1>4. f \in MachineRec
    BY <1>1, <1>2, RegisterWritten
  <1>5. f.regs = [g.regs EXCEPT !["PC"] = pc]
    BY <1>2 DEF WriteRegister, MachineRec
  <1>6. g.regs \in [Registers -> Word]
    BY <1>2, Fields
  <1>7. f.regs["IS"] = b
    BY <1>1, <1>3, <1>5, <1>6
  <1>. QED
    BY <1>4, <1>7 DEF g

\* Addresses a little below a word.
LEMMA Below ==
    ASSUME NEW top \in Word
    PROVE  /\ \A i, j \in 1 .. 10 : i # j => W(top - i) # W(top - j)
           /\ \A i \in 2 .. 10 : W(W(top - i) + 1) = W(top - (i - 1))
           /\ \A i \in 1 .. 9 : W(W(top - 10) + i) = W(top - (10 - i))
  <1>1. PICK M \in Nat \ {0} : M = Alu!WordMod /\ M > 20 /\ top \in Nat /\ top < M
    BY Widths
  <1>2. \A x \in -10 .. -1 : x % M = x + M
    BY <1>1
  <1>3. \A x \in 0 .. M - 1 : x % M = x
    OBVIOUS
  <1>4. M % M = 0
    OBVIOUS
  <1>5. \A x : W(x) = x % M
    BY <1>1 DEF W
  <1>6. ASSUME NEW i \in 1 .. 10
        PROVE  W(top - i) = IF i <= top THEN top - i ELSE top - i + M
    <2>1. CASE i <= top
      <3>1. top - i \in 0 .. M - 1
        BY <1>1, <2>1
      <3>. QED
        BY <1>3, <1>5, <2>1, <3>1
    <2>2. CASE ~(i <= top)
      <3>1. top - i \in -10 .. -1
        BY <1>1, <2>2
      <3>. QED
        BY <1>2, <1>5, <2>2, <3>1
    <2>. QED
      BY <2>1, <2>2
  <1>7. \A i, j \in 1 .. 10 : i # j => W(top - i) # W(top - j)
    <2>. SUFFICES ASSUME NEW i \in 1 .. 10, NEW j \in 1 .. 10, i # j PROVE W(top - i) # W(top - j)
      OBVIOUS
    <2>1. /\ W(top - i) = IF i <= top THEN top - i ELSE top - i + M
          /\ W(top - j) = IF j <= top THEN top - j ELSE top - j + M
      BY <1>6
    <2>. QED
      BY <1>1, <2>1
  <1>8. ASSUME NEW i \in 1 .. 10, NEW k \in 1 .. 9, k < i
        PROVE  W(W(top - i) + k) = W(top - (i - k))
    <2>1. i - k \in 1 .. 10
      BY <1>8
    <2>2. W(top - (i - k)) = IF i - k <= top THEN top - (i - k) ELSE top - (i - k) + M
      BY <1>6, <2>1
    <2>3. CASE i <= top
      <3>1. W(top - i) + k = top - (i - k) /\ top - (i - k) \in 0 .. M - 1
        BY <1>1, <1>6, <1>8, <2>3
      <3>2. W(W(top - i) + k) = top - (i - k)
        BY <1>3, <1>5, <3>1
      <3>3. i - k <= top
        BY <1>1, <2>3
      <3>. QED
        BY <2>2, <3>2, <3>3
    <2>4. CASE ~(i <= top)
      <3>1. W(top - i) + k = top - (i - k) + M
        BY <1>1, <1>6, <2>4
      <3>2. CASE i - k <= top
        <4>1. PICK y \in 0 .. M - 1 : y = top - (i - k) /\ W(top - i) + k = y + M
          <5>1. top - (i - k) \in 0 .. M - 1
            BY <1>1, <2>1, <3>2
          <5>2. W(top - i) + k = (top - (i - k)) + M
            BY <3>1
          <5>. QED
            BY <5>1, <5>2
        <4>2. (y + M) % M = y
          OBVIOUS
        <4>. QED
          BY <1>5, <2>2, <3>2, <4>1, <4>2
      <3>3. CASE ~(i - k <= top)
        BY <1>1, <1>3, <1>5, <2>1, <2>2, <3>1, <3>3
      <3>. QED
        BY <3>2, <3>3
    <2>. QED
      BY <2>3, <2>4
  <1>9. \A i \in 2 .. 10 : W(W(top - i) + 1) = W(top - (i - 1))
    BY <1>8
  <1>10. \A i \in 1 .. 9 : W(W(top - 10) + i) = W(top - (10 - i))
    BY <1>8
  <1>. QED
    BY <1>7, <1>9, <1>10

(***************************************************************************)
(* What an instruction keeps.  A property of the machine that every single *)
(* access keeps is kept by every instruction.  K is a set of machines that *)
(* reading does not leave, F[R][S] holds machines in an instruction that   *)
(* has written the registers and status bits R and the addresses S, and E  *)
(* those at its end.  An instruction writes none of them twice but PC,     *)
(* and N as its last access.                                               *)
(***************************************************************************)

Names == Registers \cup Status

Reads(K) ==
    /\ K \subseteq MachineRec
    /\ \A m \in K : /\ \A v \in Word : Value(m, v) \in K
                    /\ \A f \in Faults \ {"none"} : Fail(m, f) \in K
                    /\ \A a \in Word : ReadByte(m, a) \in K

Follows(E, F) ==
    /\ E \subseteq MachineRec
    /\ \A R \in SUBSET Names, S \in SUBSET Word :
          /\ Reads(F[R][S]) /\ F[R][S] \subseteq E
          /\ \A m \in F[R][S] : m.fault = "none" =>
                /\ \A r \in Registers, v \in Word :
                      r \notin R \ {"PC"} => WriteRegister(m, r, v) \in F[R \cup {r}][S]
                /\ \A b \in Status, v \in BOOLEAN : b \notin R => WriteCsr(m, b, v) \in F[R \cup {b}][S]
                /\ \A a \in Word, v \in Byte : a \notin S => WriteByte(m, a, v) \in F[R][S \cup {a}]
                /\ \A v \in BOOLEAN : WriteCsr(m, "N", v) \in E

\* What an instruction writes once it has been fetched.
Free == Status \cup {"A", "X", "SP", "TR"}

\* Where an instruction stands after a call: if the call succeeded, in F[R][S].
Stands(n, E, F, R, S) == n \in E /\ (n.fault = "none" => n \in F[R][S])

\* No call has failed, and the last one left m.
Going(m, F, R, S) == m \in F[R][S] /\ m.fault = "none"

\* Reading.
LEMMA ReadsKeep ==
    ASSUME NEW K, Reads(K), NEW m \in K
    PROVE  /\ m \in MachineRec
           /\ \A v \in Word : Value(m, v) \in K
           /\ \A f \in Faults \ {"none"} : Fail(m, f) \in K
           /\ \A a \in Word : ReadByte(m, a) \in K
  BY DEF Reads

\* The sets an instruction goes through.
LEMMA FollowsReads ==
    ASSUME NEW E, NEW F, Follows(E, F), NEW R \in SUBSET Names, NEW S \in SUBSET Word
    PROVE  E \subseteq MachineRec /\ Reads(F[R][S]) /\ F[R][S] \subseteq E
  BY DEF Follows

\* A register is written while the instruction may still fail.
LEMMA FollowsRegister ==
    ASSUME NEW E, NEW F, Follows(E, F), NEW R \in SUBSET Names, NEW S \in SUBSET Word,
           NEW m, Going(m, F, R, S), NEW r \in Registers, NEW v \in Word, r \notin R \ {"PC"}
    PROVE  Going(WriteRegister(m, r, v), F, R \cup {r}, S)
  <1>1. WriteRegister(m, r, v) \in F[R \cup {r}][S]
    BY DEF Follows, Going
  <1>2. m \in MachineRec /\ m.fault = "none"
    BY FollowsReads, ReadsKeep DEF Going
  <1>3. WriteRegister(m, r, v).fault = m.fault
    BY <1>2, RegisterWritten
  <1>. QED
    BY <1>1, <1>2, <1>3 DEF Going

\* A status bit is.
LEMMA FollowsCsr ==
    ASSUME NEW E, NEW F, Follows(E, F), NEW R \in SUBSET Names, NEW S \in SUBSET Word,
           NEW m, Going(m, F, R, S), NEW b \in Status, NEW v \in BOOLEAN, b \notin R
    PROVE  Going(WriteCsr(m, b, v), F, R \cup {b}, S)
  <1>1. WriteCsr(m, b, v) \in F[R \cup {b}][S]
    BY DEF Follows, Going
  <1>2. m \in MachineRec /\ m.fault = "none"
    BY FollowsReads, ReadsKeep DEF Going
  <1>3. WriteCsr(m, b, v).fault = m.fault
    BY <1>2, CsrWritten
  <1>. QED
    BY <1>1, <1>2, <1>3 DEF Going

\* A byte of memory or of a port is.
LEMMA FollowsByte ==
    ASSUME NEW E, NEW F, Follows(E, F), NEW R \in SUBSET Names, NEW S \in SUBSET Word,
           NEW m \in F[R][S], m.fault = "none", NEW a \in Word, NEW v \in Byte, a \notin S
    PROVE  /\ S \cup {a} \in SUBSET Word
           /\ Stands(WriteByte(m, a, v), E, F, R, S \cup {a})
  <1>1. WriteByte(m, a, v) \in F[R][S \cup {a}]
    BY DEF Follows
  <1>2. S \cup {a} \in SUBSET Word
    OBVIOUS
  <1>3. F[R][S \cup {a}] \subseteq E
    BY <1>2, FollowsReads
  <1>. QED
    BY <1>1, <1>2, <1>3 DEF Stands

\* A word is read.
LEMMA WordReadIn ==
    ASSUME NEW K, Reads(K), NEW m \in K, NEW a \in Word
    PROVE  ReadWord(m, a) \in K
  <1>. DEFINE hi == ReadByte(m, a)
              lo == ReadByte(hi, W(a + 1))
  <1>1. hi \in K /\ hi \in MachineRec /\ (hi.fault = "none" => hi.val \in Byte)
    BY ReadsKeep, ByteRead
  <1>2. W(a + 1) \in Word
    BY Wraps, BytesAreWords
  <1>3. lo \in K /\ lo \in MachineRec /\ (lo.fault = "none" => lo.val \in Byte)
    <2>. HIDE DEF hi
    <2>. QED
      BY <1>1, <1>2, ReadsKeep, ByteRead
  <1>4. /\ hi.fault # "none" => ReadWord(m, a) = hi
        /\ hi.fault = "none" /\ lo.fault # "none" => ReadWord(m, a) = lo
        /\ hi.fault = "none" /\ lo.fault = "none" => ReadWord(m, a) = Value(lo, 256 * hi.val + lo.val)
    BY DEF ReadWord, Then
  <1>. HIDE DEF hi, lo
  <1>5. hi.fault = "none" /\ lo.fault = "none" => 256 * hi.val + lo.val \in Word
    <2>1. \A h, l \in Byte : 256 * h + l \in Word
      BY BytesOfWord
    <2>. SUFFICES ASSUME hi.fault = "none", lo.fault = "none" PROVE 256 * hi.val + lo.val \in Word
      OBVIOUS
    <2>2. PICK h, l : h = hi.val /\ l = lo.val
      OBVIOUS
    <2>3. h \in Byte /\ l \in Byte
      BY <1>1, <1>3, <2>2
    <2>4. 256 * h + l \in Word
      BY <2>1, <2>3, Zenon
    <2>. QED
      BY <2>2, <2>4, Zenon
  <1>6. hi.fault = "none" /\ lo.fault = "none" => Value(lo, 256 * hi.val + lo.val) \in K
    BY <1>3, <1>5, ReadsKeep
  <1>. QED
    BY <1>1, <1>3, <1>4, <1>6

\* A call is made only if the one before it succeeded.
LEMMA ThenKeepsIn ==
    ASSUME NEW E, NEW m \in E, NEW next, m.fault = "none" => next \in E
    PROVE  Then(m, next) \in E
  BY DEF Then

\* Operand addresses and operands.
LEMMA AddressFoundIn ==
    ASSUME NEW K, Reads(K), NEW m \in K, NEW mode, NEW os \in Word
    PROVE  EffectiveAddress(m, mode, os) \in K
  <1>. DEFINE sp == m.regs.SP
              x == m.regs.X
              deferred == ReadWord(m, W(os + sp))
              e == EffectiveAddress(m, mode, os)
  <1>. SUFFICES e \in K
    OBVIOUS
  <1>0. m \in MachineRec
    BY ReadsKeep
  <1>1. os \in Int /\ sp \in Int /\ x \in Int
    BY <1>0, RegistersAreWords, BytesAreWords DEF Registers
  <1>2. W(os + sp) \in Word /\ W(os + x) \in Word /\ W(os + sp + x) \in Word
    BY <1>1, Wraps
  <1>3. deferred \in K
    BY <1>2, WordReadIn
  <1>4. W(deferred.val + x) \in Word
    <2>. HIDE DEF deferred
    <2>1. deferred.val \in Int
      BY <1>3, ReadsKeep, RegistersAreWords
    <2>. QED
      BY <1>1, <2>1, Wraps
  <1>5. Then(deferred, Value(deferred, W(deferred.val + x))) \in K
    <2>. HIDE DEF deferred
    <2>. QED
      BY <1>3, <1>4, ReadsKeep, ThenKeepsIn
  <1>6. CASE mode = "D"
    <2>1. e = Value(m, os)
      BY <1>6 DEF EffectiveAddress
    <2>. QED
      BY <2>1, ReadsKeep
  <1>7. CASE mode = "N"
    <2>1. e = ReadWord(m, os)
      BY <1>7 DEF EffectiveAddress
    <2>. QED
      BY <2>1, WordReadIn
  <1>8. CASE mode = "S"
    <2>1. e = Value(m, W(os + sp))
      BY <1>8 DEF EffectiveAddress
    <2>. QED
      BY <2>1, <1>2, ReadsKeep
  <1>9. CASE mode = "X"
    <2>1. e = Value(m, W(os + x))
      BY <1>9 DEF EffectiveAddress
    <2>. QED
      BY <2>1, <1>2, ReadsKeep
  <1>10. CASE mode = "SX"
    <2>1. e = Value(m, W(os + sp + x))
      BY <1>10 DEF EffectiveAddress
    <2>. QED
      BY <2>1, <1>2, ReadsKeep
  <1>11. CASE mode = "SF"
    <2>1. e = deferred
      BY <1>11 DEF EffectiveAddress
    <2>. QED
      BY <2>1, <1>3
  <1>12. CASE mode = "SFX"
    <2>1. e = Then(deferred, Value(deferred, W(deferred.val + x)))
      BY <1>12 DEF EffectiveAddress
    <2>. QED
      BY <2>1, <1>5
  <1>13. CASE mode \notin {"D", "N", "S", "X", "SX", "SF", "SFX"}
    <2>1. e = Fail(m, "throw")
      BY <1>13 DEF EffectiveAddress
    <2>2. "throw" \in Faults \ {"none"}
      BY DEF Faults
    <2>. QED
      BY <2>1, <2>2, ReadsKeep
  <1>. QED
    BY <1>6, <1>7, <1>8, <1>9, <1>10, <1>11, <1>12, <1>13

\* The operand of a load is read, or the read fails.
LEMMA OperandLoadedIn ==
    ASSUME NEW K, Reads(K), NEW m \in K, NEW name, NEW mode, NEW os \in Word
    PROVE  LoadOperand(m, name, mode, os) \in K
  <1>. DEFINE e == EffectiveAddress(m, mode, os)
              v == IF ByteOperand(name) THEN os % 256 ELSE os
              read == IF ByteOperand(name) THEN ReadByte(e, e.val) ELSE ReadWord(e, e.val)
  <1>1. CASE mode = "I"
    <2>1. v \in Word
      BY BytesOfWord, BytesAreWords
    <2>2. LoadOperand(m, name, mode, os) = Value(m, v)
      BY <1>1 DEF LoadOperand
    <2>. QED
      BY <2>1, <2>2, ReadsKeep
  <1>2. CASE mode # "I"
    <2>1. LoadOperand(m, name, mode, os) = Then(e, read)
      BY <1>2 DEF LoadOperand
    <2>2. e \in K
      BY AddressFoundIn
    <2>3. read \in K
      <3>. HIDE DEF e
      <3>1. e.val \in Word
        BY <2>2, ReadsKeep, Fields
      <3>. QED
        BY <2>2, <3>1, ReadsKeep, WordReadIn
    <2>. HIDE DEF e, read
    <2>. QED
      BY <2>1, <2>2, <2>3, ThenKeepsIn
  <1>. QED
    BY <1>1, <1>2

\* The address of a store is found, or the mode is refused.
LEMMA StoreAddressFoundIn ==
    ASSUME NEW K, Reads(K), NEW m \in K, NEW mode, NEW os \in Word
    PROVE  StoreOperand(m, mode, os) \in K
  <1>1. "IllegalAddressingMode" \in Faults \ {"none"}
    BY DEF Faults
  <1>2. Fail(m, "IllegalAddressingMode") \in K
    BY <1>1, ReadsKeep
  <1>. QED
    BY <1>2, AddressFoundIn DEF StoreOperand

\* Where a call that fails stands, and one that does nothing after a failure.
LEMMA StandsStill ==
    ASSUME NEW E, NEW F, NEW R, NEW S, NEW n \in E, n.fault # "none"
    PROVE  Stands(n, E, F, R, S)
  BY DEF Stands

\* A word is written to two addresses that were not written before.
LEMMA WordStored ==
    ASSUME NEW E, NEW F, Follows(E, F), NEW R \in SUBSET Names, NEW S \in SUBSET Word,
           NEW m \in F[R][S], m.fault = "none", NEW a \in Word, NEW w \in Word,
           NEW b, b = W(a + 1), a \notin S, b \notin S, a # b
    PROVE  (S \cup {a}) \cup {b} \in SUBSET Word /\ Stands(WriteWord(m, a, w), E, F, R, (S \cup {a}) \cup {b})
  <1>. DEFINE hi == WriteByte(m, a, w \div 256)
              lo == WriteByte(hi, b, w % 256)
              T == S \cup {a}
  <1>1. w \div 256 \in Byte /\ w % 256 \in Byte /\ b \in Word
    BY BytesOfWord, Wraps, BytesAreWords
  <1>2. T \in SUBSET Word /\ Stands(hi, E, F, R, T)
    BY <1>1, FollowsByte
  <1>3. b \notin T
    OBVIOUS
  <1>4. WriteWord(m, a, w) = IF hi.fault = "none" THEN lo ELSE hi
    BY DEF WriteWord, Then
  <1>. HIDE DEF hi, T
  <1>5. CASE hi.fault = "none"
    <2>1. hi \in F[R][T]
      BY <1>2, <1>5 DEF Stands
    <2>2. T \cup {b} \in SUBSET Word /\ Stands(lo, E, F, R, T \cup {b})
      BY <1>1, <1>2, <1>3, <1>5, <2>1, FollowsByte
    <2>. QED
      BY <1>4, <1>5, <2>2 DEF T
  <1>6. CASE hi.fault # "none"
    <2>1. T \cup {b} \in SUBSET Word /\ Stands(hi, E, F, R, T \cup {b})
      BY <1>1, <1>2, <1>6, StandsStill DEF Stands
    <2>. QED
      BY <1>4, <1>6, <2>1 DEF T
  <1>. QED
    BY <1>5, <1>6

\* A word is pushed.
LEMMA PushedIn ==
    ASSUME NEW E, NEW F, Follows(E, F), NEW R \in SUBSET Names, NEW S \in SUBSET Word,
           NEW m, Stands(m, E, F, R, S), NEW a \in Word, NEW w \in Word,
           NEW b, b = W(a + 1), a \notin S, b \notin S, a # b
    PROVE  (S \cup {a}) \cup {b} \in SUBSET Word /\ Stands(Push(m, a, w), E, F, R, (S \cup {a}) \cup {b})
  <1>1. b \in Word
    BY Wraps, BytesAreWords
  <1>2. CASE m.fault = "none"
    <2>1. m \in F[R][S] /\ Push(m, a, w) = WriteWord(m, a, w)
      BY <1>2 DEF Stands, Push, Then
    <2>. QED
      BY <1>2, <2>1, WordStored
  <1>3. CASE m.fault # "none"
    <2>1. m \in E /\ Push(m, a, w) = m
      BY <1>3 DEF Stands, Push, Then
    <2>. QED
      BY <1>1, <1>3, <2>1, StandsStill
  <1>. QED
    BY <1>2, <1>3

\* A register is popped off a stack.
LEMMA PoppedIn ==
    ASSUME NEW E, NEW F, Follows(E, F), NEW R \in SUBSET Names, NEW S \in SUBSET Word,
           NEW m, Stands(m, E, F, R, S), NEW a \in Word, NEW r \in Registers, r \notin R \ {"PC"}
    PROVE  R \cup {r} \in SUBSET Names /\ Stands(Pop(m, a, r), E, F, R \cup {r}, S)
  <1>. DEFINE e == ReadWord(m, a)
              next == Then(e, WriteRegister(e, r, e.val))
  <1>0. R \cup {r} \in SUBSET Names /\ Pop(m, a, r) = Then(m, next)
    BY DEF Names, Pop
  <1>1. CASE m.fault = "none"
    <2>1. m \in F[R][S]
      BY <1>1 DEF Stands
    <2>2. e \in F[R][S] /\ e \in E /\ e \in MachineRec
      BY <2>1, FollowsReads, WordReadIn, ReadsKeep
    <2>3. Pop(m, a, r) = next
      BY <1>0, <1>1 DEF Then
    <2>. HIDE DEF e
    <2>4. CASE e.fault = "none"
      <3>1. e.val \in Word
        BY <2>2, Fields
      <3>0. Going(e, F, R, S)
        BY <2>2, <2>4 DEF Going
      <3>2. Going(WriteRegister(e, r, e.val), F, R \cup {r}, S)
        BY <3>0, <3>1, FollowsRegister
      <3>3. WriteRegister(e, r, e.val) \in E
        BY <1>0, <3>2, FollowsReads DEF Going
      <3>. QED
        BY <1>0, <2>3, <2>4, <3>2, <3>3 DEF Stands, Then, Going
    <2>5. CASE e.fault # "none"
      <3>1. next = e
        BY <2>5 DEF Then
      <3>. QED
        BY <1>0, <2>2, <2>3, <2>5, <3>1, StandsStill
    <2>. QED
      BY <2>4, <2>5
  <1>2. CASE m.fault # "none"
    <2>1. m \in E /\ Pop(m, a, r) = m
      BY <1>0, <1>2 DEF Stands, Then
    <2>. QED
      BY <1>0, <1>2, <2>1, StandsStill
  <1>. QED
    BY <1>1, <1>2

\* All the status bits are written while the instruction may still fail.
LEMMA BitsWrittenIn ==
    ASSUME NEW E, NEW F, Follows(E, F), NEW R \in SUBSET Names, NEW S \in SUBSET Word,
           NEW m, Going(m, F, R, S), R \cap Status = {},
           NEW bn \in BOOLEAN, NEW bz \in BOOLEAN, NEW bv \in BOOLEAN, NEW bc \in BOOLEAN
    PROVE  Going(WriteCsr(WriteCsr(WriteCsr(WriteCsr(m, "N", bn), "Z", bz), "V", bv), "C", bc), F, R \cup Status, S)
  <1>. DEFINE n == WriteCsr(m, "N", bn)
              z == WriteCsr(n, "Z", bz)
              o == WriteCsr(z, "V", bv)
              c == WriteCsr(o, "C", bc)
              RN == R \cup {"N"}
              RZ == RN \cup {"Z"}
              RV == RZ \cup {"V"}
  <1>1. "N" \notin R /\ "Z" \notin RN /\ "V" \notin RZ /\ "C" \notin RV
    BY DEF Status
  <1>2. R \cup Status = RV \cup {"C"}
    BY DEF Status
  <1>3. "N" \in Status /\ "Z" \in Status /\ "V" \in Status /\ "C" \in Status
    BY DEF Status
  <1>4. RN \in SUBSET Names /\ RZ \in SUBSET Names /\ RV \in SUBSET Names
    BY <1>3 DEF Names
  <1>5. Going(n, F, RN, S)
    BY <1>1, <1>3, FollowsCsr
  <1>. HIDE DEF n, RN
  <1>6. Going(z, F, RZ, S)
    BY <1>1, <1>3, <1>4, <1>5, FollowsCsr
  <1>. HIDE DEF z, RZ
  <1>7. Going(o, F, RV, S)
    BY <1>1, <1>3, <1>4, <1>6, FollowsCsr
  <1>. HIDE DEF o, RV
  <1>8. Going(c, F, RV \cup {"C"}, S)
    BY <1>1, <1>3, <1>4, <1>7, FollowsCsr
  <1>. QED
    BY <1>2, <1>8 DEF n, z, o

\* So are they unpacked from a byte.
LEMMA StatusWrittenIn ==
    ASSUME NEW E, NEW F, Follows(E, F), NEW R \in SUBSET Names, NEW S \in SUBSET Word,
           NEW m, Going(m, F, R, S), R \cap Status = {}, NEW v
    PROVE  Going(WritePackedNZVC(m, v), F, R \cup Status, S)
  <1>1. PICK bn \in BOOLEAN, bz \in BOOLEAN, bv \in BOOLEAN, bc \in BOOLEAN :
           /\ bn = ((v \div 8) % 2 = 1) /\ bz = ((v \div 4) % 2 = 1)
           /\ bv = ((v \div 2) % 2 = 1) /\ bc = (v % 2 = 1)
    OBVIOUS
  <1>2. WritePackedNZVC(m, v) = WriteStatus(m, [N |-> bn, Z |-> bz, V |-> bv, C |-> bc])
    BY <1>1 DEF WritePackedNZVC
  <1>3. WriteStatus(m, [N |-> bn, Z |-> bz, V |-> bv, C |-> bc])
           = WriteCsr(WriteCsr(WriteCsr(WriteCsr(m, "N", bn), "Z", bz), "V", bv), "C", bc)
    BY DEF WriteStatus
  <1>. QED
    BY <1>2, <1>3, BitsWrittenIn

\* The addresses below a stack, as far as they have been written.
Below10(w, top) == w = [i \in 1 .. 10 |-> W(top - i)]
Upto(w, k) == {w[i] : i \in 1 .. k}

\* They are different from each other, and words lie next to each other.
LEMMA StackPlaces ==
    ASSUME NEW top \in Word, NEW w, Below10(w, top)
    PROVE  /\ \A i \in 1 .. 10 : w[i] = W(top - i) /\ w[i] \in Word
           /\ \A i \in 2 .. 10 : W(w[i] + 1) = w[i - 1]
           /\ \A k \in 0 .. 9 : /\ Upto(w, k) \in SUBSET Word
                                /\ \A i \in 1 .. 10 : i > k => w[i] \notin Upto(w, k)
           /\ \A k \in 0 .. 8 : (Upto(w, k) \cup {w[k + 2]}) \cup {w[k + 1]} = Upto(w, k + 2)
           /\ \A i \in 2 .. 10 : w[i] # w[i - 1]
           /\ Upto(w, 1) = {w[1]}
  <1>1. ASSUME NEW i \in 1 .. 10 PROVE w[i] = W(top - i) /\ w[i] \in Word
    <2>1. top - i \in Int
      BY BytesAreWords
    <2>. QED
      BY <2>1, Wraps DEF Below10
  <1>2. \A i, j \in 1 .. 10 : i # j => w[i] # w[j]
    BY <1>1, Below
  <1>3. \A i \in 2 .. 10 : W(w[i] + 1) = w[i - 1] /\ w[i] # w[i - 1]
    <2>. TAKE i \in 2 .. 10
    <2>1. W(W(top - i) + 1) = W(top - (i - 1))
      BY Below
    <2>2. i \in 1 .. 10 /\ i - 1 \in 1 .. 10 /\ i # i - 1
      OBVIOUS
    <2>. QED
      BY <1>1, <1>2, <2>1, <2>2
  <1>4. ASSUME NEW k \in 0 .. 9
        PROVE  /\ Upto(w, k) \in SUBSET Word
               /\ \A i \in 1 .. 10 : i > k => w[i] \notin Upto(w, k)
    <2>1. 1 .. k \subseteq 1 .. 10
      OBVIOUS
    <2>2. ASSUME NEW i \in 1 .. 10, i > k PROVE w[i] \notin Upto(w, k)
      <3>. SUFFICES ASSUME NEW j \in 1 .. k, w[i] = w[j] PROVE FALSE
        BY DEF Upto
      <3>. QED
        BY <1>2, <2>1, <2>2
    <2>. QED
      BY <1>1, <2>1, <2>2 DEF Upto
  <1>5. ASSUME NEW k \in 0 .. 8
        PROVE  (Upto(w, k) \cup {w[k + 2]}) \cup {w[k + 1]} = Upto(w, k + 2)
    <2>1. 1 .. k + 2 = (1 .. k) \cup {k + 1, k + 2}
      OBVIOUS
    <2>. QED
      BY <2>1 DEF Upto
  <1>6. Upto(w, 1) = {w[1]}
    <2>1. 1 .. 1 = {1}
      OBVIOUS
    <2>. QED
      BY <2>1 DEF Upto
  <1>. QED
    BY <1>1, <1>3, <1>4, <1>5, <1>6

\* The next word down is pushed.
LEMMA NextPushed ==
    ASSUME NEW E, NEW F, Follows(E, F), NEW R \in SUBSET Names, NEW top \in Word, NEW w, Below10(w, top),
           NEW k \in 1 .. 7, NEW m, Stands(m, E, F, R, Upto(w, k)), NEW v \in Word
    PROVE  Stands(Push(m, w[k + 2], v), E, F, R, Upto(w, k + 2))
  <1>. DEFINE a == w[k + 2]
              b == w[k + 1]
              S == Upto(w, k)
  <1>1. k + 2 \in 1 .. 10 /\ k + 1 \in 1 .. 10 /\ k \in 0 .. 8 /\ k \in 0 .. 9 /\ k + 2 \in 2 .. 10 /\ (k + 2) - 1 = k + 1
        /\ k + 1 > k /\ k + 2 > k
    OBVIOUS
  <1>2. a \in Word /\ S \in SUBSET Word /\ a \notin S /\ b \notin S
    BY <1>1, StackPlaces
  <1>3. b = W(a + 1) /\ a # b
    BY <1>1, StackPlaces
  <1>4. (S \cup {a}) \cup {b} = Upto(w, k + 2)
    BY <1>1, StackPlaces
  <1>. HIDE DEF a, b, S
  <1>5. Stands(Push(m, a, v), E, F, R, (S \cup {a}) \cup {b})
    <2>1. Stands(m, E, F, R, S)
      BY DEF S
    <2>. QED
      BY <1>2, <1>3, <2>1, PushedIn
  <1>. QED
    BY <1>4, <1>5 DEF a

\* SCALL, USCALL, SRET, RET and CALL.
LEMMA SystemCalledIn ==
    ASSUME NEW E, NEW F, Follows(E, F), NEW R \in SUBSET Names, "SP" \notin R,
           NEW m, Going(m, F, R, {}), NEW is \in Byte
    PROVE  SystemCall(m, is) \in E
  <1>. DEFINE t == ReadWord(m, Vector("SystemStack"))
              w == [i \in 1 .. 10 |-> W(t.val - i)]
              c1 == WriteByte(t, w[1], is)
              c3 == Push(c1, w[3], m.regs.SP)
              c5 == Push(c3, w[5], m.regs.PC)
              c7 == Push(c5, w[7], m.regs.X)
              words == Push(c7, w[9], m.regs.A)
              last == WriteByte(words, w[10], PackedNZVC(words))
              pushed == Then(words, last)
              entered == WriteRegister(pushed, "SP", w[10])
              h == ReadWord(entered, Vector("TrapHandler"))
              done == WriteRegister(h, "PC", h.val)
              T == Upto(w, 9) \cup {w[10]}
              RS == R \cup {"SP"}
  <1>1. SystemCall(m, is) = Then(t, Then(pushed, Then(h, done)))
    BY DEF SystemCall
  <1>2. {} \in SUBSET Word /\ m \in F[R][{}] /\ m \in MachineRec
    BY FollowsReads, ReadsKeep DEF Going
  <1>3. t \in F[R][{}] /\ t \in E /\ t \in MachineRec
    BY <1>2, VectorIsAddress, FollowsReads, WordReadIn, ReadsKeep
  <1>4. t.val \in Word
    BY <1>3, Fields
  <1>5. /\ m.regs.SP \in Word /\ m.regs.PC \in Word /\ m.regs.X \in Word /\ m.regs.A \in Word
        /\ "SP" \in Registers /\ "PC" \in Registers
    BY <1>2, RegistersAreWords
  <1>6. CASE t.fault # "none"
    BY <1>1, <1>3, <1>6 DEF Then
  <1>7. CASE t.fault = "none"
    <2>0. SystemCall(m, is) = Then(pushed, Then(h, done))
      BY <1>1, <1>7 DEF Then
    <2>. HIDE DEF t
    <2>1. Below10(w, t.val)
      BY DEF Below10
    <2>. HIDE DEF w
    <2>2. w[1] \in Word /\ w[10] \in Word /\ Upto(w, 1) = {w[1]} /\ {} \cup {w[1]} = {w[1]}
      BY <1>4, <2>1, StackPlaces
    <2>3. Stands(c1, E, F, R, Upto(w, 1))
      <3>1. Stands(c1, E, F, R, {} \cup {w[1]})
        BY <1>2, <1>3, <1>7, <2>2, FollowsByte
      <3>. QED
        BY <2>2, <3>1
    <2>. HIDE DEF c1
    <2>4. Stands(c3, E, F, R, Upto(w, 3))
      <3>1. 1 \in 1 .. 7 /\ 1 + 2 = 3
        OBVIOUS
      <3>. QED
        BY <3>1, <1>4, <1>5, <2>1, <2>3, NextPushed
    <2>. HIDE DEF c3
    <2>5. Stands(c5, E, F, R, Upto(w, 5))
      <3>1. 3 \in 1 .. 7 /\ 3 + 2 = 5
        OBVIOUS
      <3>. QED
        BY <3>1, <1>4, <1>5, <2>1, <2>4, NextPushed
    <2>. HIDE DEF c5
    <2>6. Stands(c7, E, F, R, Upto(w, 7))
      <3>1. 5 \in 1 .. 7 /\ 5 + 2 = 7
        OBVIOUS
      <3>. QED
        BY <3>1, <1>4, <1>5, <2>1, <2>5, NextPushed
    <2>. HIDE DEF c7
    <2>7. Stands(words, E, F, R, Upto(w, 9))
      <3>1. 7 \in 1 .. 7 /\ 7 + 2 = 9
        OBVIOUS
      <3>. QED
        BY <3>1, <1>4, <1>5, <2>1, <2>6, NextPushed
    <2>. HIDE DEF words
    <2>8. Upto(w, 9) \in SUBSET Word /\ w[10] \notin Upto(w, 9)
      <3>1. 9 \in 0 .. 9 /\ 10 \in 1 .. 10 /\ 10 > 9
        OBVIOUS
      <3>. QED
        BY <3>1, <1>4, <2>1, StackPlaces
    <2>9. T \in SUBSET Word /\ Stands(pushed, E, F, R, T)
      <3>1. T \in SUBSET Word
        BY <2>2, <2>8
      <3>2. CASE words.fault = "none"
        <4>1. words \in F[R][Upto(w, 9)]
          BY <2>7, <3>2 DEF Stands
        <4>2. words \in MachineRec
          BY <2>8, <4>1, FollowsReads, ReadsKeep
        <4>3. PackedNZVC(words) \in Byte
          BY <4>2, StatusPacked
        <4>4. Stands(last, E, F, R, T)
          BY <2>2, <2>8, <3>2, <4>1, <4>3, FollowsByte
        <4>. QED
          BY <3>1, <3>2, <4>4 DEF Then
      <3>3. CASE words.fault # "none"
        <4>1. words \in E /\ pushed = words
          BY <2>7, <3>3 DEF Stands, Then
        <4>. QED
          BY <3>1, <3>3, <4>1, StandsStill
      <3>. QED
        BY <3>2, <3>3
    <2>. HIDE DEF pushed, T
    <2>10. CASE pushed.fault # "none"
      BY <2>0, <2>9, <2>10 DEF Then, Stands
    <2>11. CASE pushed.fault = "none"
      <3>1. Going(pushed, F, R, T)
        BY <2>9, <2>11 DEF Stands, Going
      <3>2. "SP" \notin R \ {"PC"} /\ RS \in SUBSET Names
        BY <1>5 DEF Names
      <3>3. Going(entered, F, RS, T)
        BY <1>5, <2>2, <2>9, <3>1, <3>2, FollowsRegister
      <3>. HIDE DEF entered, RS
      <3>4. h \in F[RS][T] /\ h \in E /\ h \in MachineRec
        BY <2>9, <3>2, <3>3, VectorIsAddress, FollowsReads, WordReadIn, ReadsKeep DEF Going
      <3>5. SystemCall(m, is) = Then(h, done)
        BY <2>0, <2>11 DEF Then
      <3>. HIDE DEF h
      <3>6. ASSUME h.fault = "none" PROVE done \in E
        <4>1. h.val \in Word /\ Going(h, F, RS, T)
          BY <3>4, <3>6, Fields DEF Going
        <4>2. RS \cup {"PC"} \in SUBSET Names
          BY <1>5, <3>2 DEF Names
        <4>3. Going(done, F, RS \cup {"PC"}, T)
          BY <1>5, <2>9, <3>2, <4>1, FollowsRegister
        <4>. QED
          BY <2>9, <4>2, <4>3, FollowsReads DEF Going
      <3>. QED
        BY <3>4, <3>5, <3>6, ThenKeepsIn
    <2>. QED
      BY <2>10, <2>11
  <1>. QED
    BY <1>6, <1>7

\* SRET pops one register after the other.
LEMMA SystemReturnedIn ==
    ASSUME NEW E, NEW F, Follows(E, F), NEW R \in SUBSET Names, R \cap (Status \cup {"A", "X", "SP"}) = {},
           NEW m, Going(m, F, R, {})
    PROVE  SystemReturn(m) \in E
  <1>. DEFINE sp == m.regs.SP
              e == ReadByte(m, sp)
              flags == Then(e, WritePackedNZVC(e, e.val))
              c1 == Pop(flags, W(sp + 1), "A")
              c3 == Pop(c1, W(sp + 3), "X")
              c5 == Pop(c3, W(sp + 5), "PC")
              c7 == Pop(c5, W(sp + 7), "SP")
              R0 == R \cup Status
              R1 == R0 \cup {"A"}
              R3 == R1 \cup {"X"}
              R5 == R3 \cup {"PC"}
              S == {}
  <1>1. SystemReturn(m) = c7
    BY DEF SystemReturn
  <1>0. S \in SUBSET Word /\ m \in F[R][S] /\ m \in MachineRec
    BY FollowsReads, ReadsKeep DEF Going
  <1>2. sp \in Word /\ sp \in Int /\ {"A", "X", "SP", "PC"} \subseteq Registers
    BY <1>0, RegistersAreWords DEF Registers
  <1>3. e \in F[R][S] /\ e \in E
    BY <1>0, <1>2, FollowsReads, ReadsKeep
  <1>4. W(sp + 1) \in Word /\ W(sp + 3) \in Word /\ W(sp + 5) \in Word /\ W(sp + 7) \in Word
    BY <1>2, Wraps
  <1>5. "A" \notin R0 /\ "X" \notin R1 /\ "SP" \notin R5
    BY DEF Status
  <1>6. R0 \in SUBSET Names
    BY DEF Names
  <1>. HIDE DEF sp, e, S
  <1>7. Stands(flags, E, F, R0, S)
    <2>1. CASE e.fault = "none"
      <3>1. Going(e, F, R, S)
        BY <1>3, <2>1 DEF Going
      <3>2. R \cap Status = {}
        OBVIOUS
      <3>3. Going(WritePackedNZVC(e, e.val), F, R0, S)
        BY <1>0, <3>1, <3>2, StatusWrittenIn
      <3>. HIDE DEF R0
      <3>4. F[R0][S] \subseteq E
        BY <1>0, <1>6, FollowsReads
      <3>. QED
        BY <2>1, <3>3, <3>4 DEF Stands, Then, Going
    <2>2. CASE e.fault # "none"
      <3>1. flags = e
        BY <2>2 DEF Then
      <3>. QED
        BY <1>3, <2>2, <3>1, StandsStill
    <2>. QED
      BY <2>1, <2>2
  <1>. HIDE DEF flags, R0
  <1>8. R1 \in SUBSET Names /\ Stands(c1, E, F, R1, S)
    BY <1>0, <1>2, <1>4, <1>5, <1>6, <1>7, PoppedIn
  <1>. HIDE DEF c1, R1
  <1>9. R3 \in SUBSET Names /\ Stands(c3, E, F, R3, S)
    BY <1>0, <1>2, <1>4, <1>5, <1>8, PoppedIn
  <1>. HIDE DEF c3, R3
  <1>10. R5 \in SUBSET Names /\ Stands(c5, E, F, R5, S)
    <2>1. "PC" \notin R3 \ {"PC"}
      OBVIOUS
    <2>. QED
      BY <1>0, <1>2, <1>4, <2>1, <1>9, PoppedIn
  <1>. HIDE DEF c5, R5
  <1>11. Stands(c7, E, F, R5 \cup {"SP"}, S)
    BY <1>0, <1>2, <1>4, <1>5, <1>10, PoppedIn
  <1>. QED
    BY <1>1, <1>11 DEF Stands

\* RET pops the program counter.
LEMMA ReturnedIn ==
    ASSUME NEW E, NEW F, Follows(E, F), NEW R \in SUBSET Names, "SP" \notin R, NEW m, Going(m, F, R, {})
    PROVE  Return(m) \in E
  <1>. DEFINE e == ReadWord(m, m.regs.SP)
              sp == W(m.regs.SP + 2)
              jumped == WriteRegister(e, "PC", e.val)
              done == WriteRegister(jumped, "SP", sp)
              RPC == R \cup {"PC"}
              RSP == RPC \cup {"SP"}
  <1>1. Return(m) = Then(e, done)
    BY DEF Return
  <1>0. {} \in SUBSET Word /\ m \in F[R][{}] /\ m \in MachineRec
    BY FollowsReads, ReadsKeep DEF Going
  <1>2. m.regs.SP \in Word /\ m.regs.SP \in Int /\ {"SP", "PC"} \subseteq Registers
    BY <1>0, RegistersAreWords DEF Registers
  <1>3. sp \in Word
    BY <1>2, Wraps
  <1>4. e \in F[R][{}] /\ e \in E /\ e \in MachineRec
    BY <1>0, <1>2, FollowsReads, WordReadIn, ReadsKeep
  <1>5. RPC \in SUBSET Names /\ RSP \in SUBSET Names /\ "PC" \notin R \ {"PC"} /\ "SP" \notin RPC \ {"PC"}
    BY <1>2 DEF Names
  <1>. HIDE DEF e, sp
  <1>6. ASSUME e.fault = "none" PROVE done \in E
    <2>1. e.val \in Word /\ Going(e, F, R, {})
      BY <1>4, <1>6, Fields DEF Going
    <2>2. Going(jumped, F, RPC, {})
      BY <1>0, <1>2, <1>5, <2>1, FollowsRegister
    <2>. HIDE DEF jumped, RPC
    <2>3. Going(done, F, RSP, {})
      BY <1>0, <1>2, <1>3, <1>5, <2>2, FollowsRegister
    <2>. QED
      BY <1>0, <1>5, <2>3, FollowsReads DEF Going
  <1>. QED
    BY <1>1, <1>4, <1>6, ThenKeepsIn

\* The two bytes of a word lie at different addresses.
LEMMA NextDiffers == \A a \in Word : W(a + 1) \in Word /\ a # W(a + 1)
  <1>1. PICK M \in Nat \ {0} : M = Alu!WordMod /\ M > 20
    BY Widths
  <1>2. \A x : x \in Word <=> x \in Nat /\ x < M
    BY <1>1, Widths
  <1>3. ASSUME NEW a \in Word PROVE W(a + 1) \in Word /\ a # W(a + 1)
    <2>0. a \in Nat /\ a < M
      BY <1>2
    <2>1. W(a + 1) = (a + 1) % M
      BY <1>1 DEF W
    <2>2. CASE a + 1 < M
      <3>1. (a + 1) % M = a + 1
        BY <1>1, <2>0, <2>2
      <3>. QED
        BY <1>2, <2>0, <2>1, <2>2, <3>1
    <2>3. CASE a + 1 = M
      <3>1. (a + 1) % M = 0
        BY <1>1, <2>0, <2>3
      <3>. QED
        BY <1>1, <1>2, <2>0, <2>1, <2>3, <3>1
    <2>. QED
      BY <1>1, <2>0, <2>2, <2>3
  <1>. QED
    BY <1>3

\* An instruction's first word is stored.
LEMMA FirstWordStored ==
    ASSUME NEW E, NEW F, Follows(E, F), NEW R \in SUBSET Names,
           NEW m, Going(m, F, R, {}), NEW a \in Word, NEW w \in Word
    PROVE  WriteWord(m, a, w) \in E
  <1>1. m \in F[R][{}] /\ m.fault = "none" /\ {} \in SUBSET Word
    BY DEF Going
  <1>2. W(a + 1) \in Word /\ a # W(a + 1) /\ a \notin {} /\ W(a + 1) \notin {}
    BY NextDiffers
  <1>3. Stands(WriteWord(m, a, w), E, F, R, ({} \cup {a}) \cup {W(a + 1)})
    BY <1>1, <1>2, WordStored
  <1>. QED
    BY <1>3 DEF Stands

\* CALL pushes it.
LEMMA CalledIn ==
    ASSUME NEW E, NEW F, Follows(E, F), NEW R \in SUBSET Names, "SP" \notin R,
           NEW m, Going(m, F, R, {}), NEW target \in Word
    PROVE  Call(m, target) \in E
  <1>. DEFINE sp == W(m.regs.SP - 2)
              c == WriteWord(m, sp, m.regs.PC)
              jumped == WriteRegister(c, "PC", target)
              done == WriteRegister(jumped, "SP", sp)
              RPC == R \cup {"PC"}
              RSP == RPC \cup {"SP"}
              S == ({} \cup {sp}) \cup {W(sp + 1)}
  <1>1. Call(m, target) = Then(c, done)
    BY DEF Call
  <1>0. {} \in SUBSET Word /\ m \in F[R][{}] /\ m.fault = "none" /\ m \in MachineRec
    BY FollowsReads, ReadsKeep DEF Going
  <1>2. m.regs.SP \in Int /\ m.regs.PC \in Word /\ {"SP", "PC"} \subseteq Registers
    BY <1>0, RegistersAreWords DEF Registers
  <1>3. sp \in Word
    BY <1>2, Wraps
  <1>. HIDE DEF sp
  <1>4. W(sp + 1) \in Word /\ sp # W(sp + 1) /\ sp \notin {} /\ W(sp + 1) \notin {}
    BY <1>3, NextDiffers
  <1>5. S \in SUBSET Word /\ Stands(c, E, F, R, S)
    BY <1>0, <1>2, <1>3, <1>4, WordStored
  <1>6. RPC \in SUBSET Names /\ RSP \in SUBSET Names /\ "PC" \notin R \ {"PC"} /\ "SP" \notin RPC \ {"PC"}
    BY <1>2 DEF Names
  <1>. HIDE DEF c, S
  <1>7. ASSUME c.fault = "none" PROVE done \in E
    <2>1. Going(c, F, R, S)
      BY <1>5, <1>7 DEF Stands, Going
    <2>2. Going(jumped, F, RPC, S)
      BY <1>2, <1>5, <1>6, <2>1, FollowsRegister
    <2>. HIDE DEF jumped, RPC
    <2>3. Going(done, F, RSP, S)
      BY <1>2, <1>3, <1>5, <1>6, <2>2, FollowsRegister
    <2>. QED
      BY <1>5, <1>6, <2>3, FollowsReads DEF Going
  <1>8. c \in E
    BY <1>5 DEF Stands
  <1>. QED
    BY <1>1, <1>7, <1>8, ThenKeepsIn

\* A register is the last thing an instruction writes.
LEMMA EndsRegister ==
    ASSUME NEW E, NEW F, Follows(E, F), NEW R \in SUBSET Names, NEW m, Going(m, F, R, {}),
           NEW r \in Registers, NEW v \in Word, r \notin R \ {"PC"}
    PROVE  WriteRegister(m, r, v) \in E
  <1>1. R \cup {r} \in SUBSET Names /\ {} \in SUBSET Word
    BY DEF Names
  <1>2. Going(WriteRegister(m, r, v), F, R \cup {r}, {})
    BY FollowsRegister
  <1>. QED
    BY <1>1, <1>2, FollowsReads DEF Going

\* The status bits an instruction names are written.
LEMMA NamedStatusWrittenIn ==
    ASSUME NEW E, NEW F, Follows(E, F), NEW R \in SUBSET Names, NEW m, Going(m, F, R, {}),
           R \cap Status = {}, NEW csr, Flags(csr)
    PROVE  \E Q \in SUBSET Names : Going(WriteStatus(m, csr), F, Q, {})
  <1>. DEFINE Write(s, b) == IF b \in DOMAIN csr THEN WriteCsr(s, b, csr[b]) ELSE s
  <1>1. ASSUME NEW Q \in SUBSET Names, NEW s, Going(s, F, Q, {}), NEW b \in Status, b \notin Q
        PROVE  \E P \in SUBSET (Q \cup {b}) : P \in SUBSET Names /\ Going(Write(s, b), F, P, {})
    <2>1. CASE b \in DOMAIN csr
      <3>1. csr[b] \in BOOLEAN
        BY <2>1 DEF Flags
      <3>2. Going(WriteCsr(s, b, csr[b]), F, Q \cup {b}, {})
        BY <1>1, <3>1, FollowsCsr
      <3>3. Q \cup {b} \in SUBSET (Q \cup {b}) /\ Q \cup {b} \in SUBSET Names
        BY DEF Names
      <3>. QED
        BY <2>1, <3>2, <3>3
    <2>2. CASE b \notin DOMAIN csr
      BY <1>1, <2>2
    <2>. QED
      BY <2>1, <2>2
  <1>2. "N" \in Status /\ "Z" \in Status /\ "V" \in Status /\ "C" \in Status
    BY DEF Status
  <1>. DEFINE n == Write(m, "N")
              z == Write(n, "Z")
              v == Write(z, "V")
              c == Write(v, "C")
  <1>3. WriteStatus(m, csr) = c
    BY DEF WriteStatus
  <1>. HIDE DEF Write
  <1>4. PICK P1 \in SUBSET (R \cup {"N"}) : P1 \in SUBSET Names /\ Going(n, F, P1, {})
    BY <1>1, <1>2
  <1>. HIDE DEF n
  <1>5. "Z" \notin P1 /\ "V" \notin P1 /\ "C" \notin P1
    BY <1>2
  <1>6. PICK P2 \in SUBSET (P1 \cup {"Z"}) : P2 \in SUBSET Names /\ Going(z, F, P2, {})
    BY <1>1, <1>2, <1>4, <1>5
  <1>. HIDE DEF z
  <1>7. "V" \notin P2 /\ "C" \notin P2
    BY <1>5
  <1>8. PICK P3 \in SUBSET (P2 \cup {"V"}) : P3 \in SUBSET Names /\ Going(v, F, P3, {})
    BY <1>1, <1>2, <1>6, <1>7
  <1>. HIDE DEF v
  <1>9. "C" \notin P3
    BY <1>7
  <1>10. \E Q \in SUBSET Names : Going(c, F, Q, {})
    BY <1>1, <1>2, <1>8, <1>9
  <1>. QED
    BY <1>3, <1>10

\* They are the last thing an instruction writes.
LEMMA EndsStatus ==
    ASSUME NEW E, NEW F, Follows(E, F), NEW R \in SUBSET Names, NEW m, Going(m, F, R, {}),
           R \cap Status = {}, NEW csr, Flags(csr)
    PROVE  WriteStatus(m, csr) \in E
  <1>1. PICK Q \in SUBSET Names : Going(WriteStatus(m, csr), F, Q, {})
    BY NamedStatusWrittenIn
  <1>2. {} \in SUBSET Word
    OBVIOUS
  <1>. QED
    BY <1>1, <1>2, FollowsReads DEF Going

\* A register is written and then status bits: loads and, below, arithmetic.
LEMMA LoadWritesIn ==
    ASSUME NEW E, NEW F, Follows(E, F), NEW R \in SUBSET Names, R \cap Free = {}, NEW m, Going(m, F, R, {}),
           NEW r \in {"A", "X"}, NEW w \in Word, NEW c, Flags(c)
    PROVE  WriteStatus(WriteRegister(m, r, w), c) \in E
  <1>1. r \in Registers /\ r \notin R \ {"PC"} /\ R \cup {r} \in SUBSET Names
    BY DEF Free, Registers, Names
  <1>2. (R \cup {r}) \cap Status = {}
    BY DEF Free, Status
  <1>3. Going(WriteRegister(m, r, w), F, R \cup {r}, {})
    BY <1>1, FollowsRegister
  <1>. QED
    BY <1>1, <1>2, <1>3, EndsStatus

LEMMA ComputedIn ==
    ASSUME NEW E, NEW F, Follows(E, F), NEW R \in SUBSET Names, R \cap Free = {}, NEW m, Going(m, F, R, {}),
           NEW r \in {"A", "X"}, NEW alu, Computes(alu)
    PROVE  Compute(m, r, alu) \in E
  <1>1. alu.word \in Word /\ Flags(alu.csr)
    BY DEF Computes
  <1>2. Compute(m, r, alu) = WriteStatus(WriteRegister(m, r, alu.word), alu.csr)
    BY DEF Compute
  <1>. QED
    BY <1>1, <1>2, LoadWritesIn

\* A comparison writes the status bits, then N again.
LEMMA TwoStatusWritesIn ==
    ASSUME NEW E, NEW F, Follows(E, F), NEW R \in SUBSET Names, R \cap Free = {}, NEW m, Going(m, F, R, {}),
           NEW c, Flags(c), NEW n \in BOOLEAN
    PROVE  WriteStatus(WriteStatus(m, c), [N |-> n]) \in E
  <1>1. R \cap Status = {} /\ {} \in SUBSET Word
    BY DEF Free
  <1>2. PICK Q \in SUBSET Names : Going(WriteStatus(m, c), F, Q, {})
    BY <1>1, NamedStatusWrittenIn
  <1>3. PICK s : s = WriteStatus(m, c)
    OBVIOUS
  <1>4. s \in F[Q][{}] /\ s.fault = "none"
    BY <1>2, <1>3 DEF Going
  <1>5. WriteStatus(s, [N |-> n]) = WriteCsr(s, "N", n)
    BY DEF WriteStatus
  <1>6. WriteCsr(s, "N", n) \in E
    BY <1>1, <1>4 DEF Follows
  <1>. QED
    BY <1>3, <1>5, <1>6

\* The status bits are unpacked from the accumulator.
LEMMA PackedStatusWritten ==
    ASSUME NEW E, NEW F, Follows(E, F), NEW R \in SUBSET Names, R \cap Free = {}, NEW m, Going(m, F, R, {}), NEW v
    PROVE  WritePackedNZVC(m, v) \in E
  <1>1. R \cap Status = {} /\ {} \in SUBSET Word /\ R \cup Status \in SUBSET Names
    BY DEF Free, Names
  <1>2. Going(WritePackedNZVC(m, v), F, R \cup Status, {})
    BY <1>1, StatusWrittenIn
  <1>. QED
    BY <1>1, <1>2, FollowsReads DEF Going

\* An instruction's first byte is stored.
LEMMA FirstByteStored ==
    ASSUME NEW E, NEW F, Follows(E, F), NEW R \in SUBSET Names,
           NEW m, Going(m, F, R, {}), NEW a \in Word, NEW v \in Byte
    PROVE  WriteByte(m, a, v) \in E
  <1>1. m \in F[R][{}] /\ m.fault = "none" /\ {} \in SUBSET Word /\ a \notin {}
    BY DEF Going
  <1>2. Stands(WriteByte(m, a, v), E, F, R, {} \cup {a})
    BY <1>1, FollowsByte
  <1>. QED
    BY <1>2 DEF Stands

\* Every instruction without an operand specifier keeps what each access keeps.
LEMMA UnaryDispatchedIn ==
    ASSUME NEW E, NEW F, Follows(E, F), NEW R \in SUBSET Names, R \cap Free = {},
           NEW m, Going(m, F, R, {}), NEW is \in Byte, NEW name
    PROVE  UnaryDispatch(m, is, name) \in E
  <1>. DEFINE r == Target(name)
              w == m.regs[r]
              n == UnaryDispatch(m, is, name)
  <1>. SUFFICES n \in E
    OBVIOUS
  <1>0. /\ m \in MachineRec /\ {} \in SUBSET Word
        /\ Reads(F[R][{}]) /\ F[R][{}] \subseteq E /\ m \in F[R][{}] /\ m \in E
    <2>1. {} \in SUBSET Word /\ m \in F[R][{}]
      BY DEF Going
    <2>2. Reads(F[R][{}]) /\ F[R][{}] \subseteq E
      BY <2>1, FollowsReads
    <2>. QED
      BY <2>1, <2>2, ReadsKeep
  <1>00. /\ "A" \notin R /\ "SP" \notin R /\ R \cap (Status \cup {"A", "X", "SP"}) = {}
         /\ "A" \notin R \ {"PC"} /\ "SP" \notin R \ {"PC"} /\ r \in {"A", "X"}
    BY DEF Free, Target
  <1>1. /\ m.regs.SP \in Word /\ m.regs.A \in Word /\ m.regs.TR \in Word
        /\ "A" \in Registers /\ "SP" \in Registers
    BY <1>0, RegistersAreWords
  <1>2. r \in Registers /\ w \in Word /\ m.csrs.C \in BOOLEAN
    BY <1>0, TargetIsRegister, Fields DEF Status
  <1>10. CASE name = "RET"
    <2>1. n = Return(m)
      BY <1>10 DEF UnaryDispatch
    <2>. QED
      BY <1>00, <2>1, ReturnedIn
  <1>11. CASE name = "SRET"
    <2>1. n = SystemReturn(m)
      BY <1>11 DEF UnaryDispatch
    <2>. QED
      BY <1>00, <2>1, SystemReturnedIn
  <1>12. CASE name = "MOVSPA"
    <2>1. n = WriteRegister(m, "A", m.regs.SP)
      BY <1>12 DEF UnaryDispatch
    <2>. QED
      BY <1>00, <2>1, <1>1, EndsRegister
  <1>13. CASE name = "MOVASP"
    <2>1. n = WriteRegister(m, "SP", m.regs.A)
      BY <1>13 DEF UnaryDispatch
    <2>. QED
      BY <1>00, <2>1, <1>1, EndsRegister
  <1>14. CASE name = "MOVFLGA"
    <2>1. n = WriteRegister(m, "A", PackedNZVC(m))
      BY <1>14 DEF UnaryDispatch
    <2>2. PackedNZVC(m) \in Word
      BY <1>0, StatusPacked, BytesAreWords
    <2>. QED
      BY <1>00, <1>1, <2>1, <2>2, EndsRegister
  <1>15. CASE name = "MOVAFLG"
    <2>1. n = WritePackedNZVC(m, m.regs.A)
      BY <1>15 DEF UnaryDispatch
    <2>. QED
      BY <2>1, PackedStatusWritten
  <1>16. CASE name = "MOVTA"
    <2>1. n = WriteRegister(m, "A", m.regs.TR)
      BY <1>16 DEF UnaryDispatch
    <2>. QED
      BY <1>00, <2>1, <1>1, EndsRegister
  <1>17. CASE name = "NOP"
    <2>1. n = m
      BY <1>17 DEF UnaryDispatch
    <2>. QED
      BY <1>0, <2>1
  <1>18. CASE name \in {"NOTA", "NOTX"}
    <2>1. n = Compute(m, r, Alu!Not(w))
      BY <1>18 DEF UnaryDispatch
    <2>. QED
      BY <2>1, <1>2, <1>00, ArithmeticComputes, ComputedIn
  <1>19. CASE name \in {"NEGA", "NEGX"}
    <2>1. n = Compute(m, r, Alu!Neg(w))
      BY <1>19 DEF UnaryDispatch
    <2>. QED
      BY <2>1, <1>2, <1>00, ArithmeticComputes, ComputedIn
  <1>20. CASE name \in {"ASLA", "ASLX"}
    <2>1. n = Compute(m, r, Alu!ShiftLeft(w))
      BY <1>20 DEF UnaryDispatch
    <2>. QED
      BY <2>1, <1>2, <1>00, ArithmeticComputes, ComputedIn
  <1>21. CASE name \in {"ASRA", "ASRX"}
    <2>1. n = Compute(m, r, Alu!ShiftRight(w))
      BY <1>21 DEF UnaryDispatch
    <2>. QED
      BY <2>1, <1>2, <1>00, ArithmeticComputes, ComputedIn
  <1>22. CASE name \in {"ROLA", "ROLX"}
    <2>1. n = Compute(m, r, Alu!RotateLeft(w, m.csrs.C))
      BY <1>22 DEF UnaryDispatch
    <2>. QED
      BY <2>1, <1>2, <1>00, ArithmeticComputes, ComputedIn
  <1>23. CASE name \in {"RORA", "RORX"}
    <2>1. n = Compute(m, r, Alu!RotateRight(w, m.csrs.C))
      BY <1>23 DEF UnaryDispatch
    <2>. QED
      BY <2>1, <1>2, <1>00, ArithmeticComputes, ComputedIn
  <1>24. CASE name \in {"SCALL", "USCALL"}
    <2>1. n = SystemCall(m, is)
      BY <1>24 DEF UnaryDispatch
    <2>. QED
      BY <1>00, <2>1, SystemCalledIn
  <1>25. CASE name \notin {"RET", "SRET", "MOVSPA", "MOVASP", "MOVFLGA", "MOVAFLG", "MOVTA",
                            "NOP", "NOTA", "NOTX", "NEGA", "NEGX", "ASLA", "ASLX", "ASRA",
                            "ASRX", "ROLA", "ROLX", "RORA", "RORX", "SCALL", "USCALL"}
    <2>1. n = Fail(m, "IllegalUnaryInstruction")
      BY <1>25 DEF UnaryDispatch
    <2>2. Fail(m, "IllegalUnaryInstruction") \in E
      <3>1. "IllegalUnaryInstruction" \in Faults \ {"none"}
        BY DEF Faults
      <3>. QED
        BY <1>0, <3>1, ReadsKeep
    <2>. QED
      BY <2>1, <2>2
  <1>. HIDE DEF n
  <1>. QED
    BY <1>10, <1>11, <1>12, <1>13, <1>14, <1>15, <1>16, <1>17, <1>18, <1>19, <1>20, <1>21, <1>22, <1>23, <1>24, <1>25, Zenon

\* An instruction whose operand has been decoded.
LEMMA PerformedIn ==
    ASSUME NEW E, NEW F, Follows(E, F), NEW R \in SUBSET Names, R \cap Free = {},
           NEW m, Going(m, F, R, {}), NEW name
    PROVE  Perform(m, name) \in E
  <1>. DEFINE r == Target(name)
              w == m.regs[r]
              op == m.val
              n == Perform(m, name)
  <1>. SUFFICES n \in E
    OBVIOUS
  <1>0. /\ m \in MachineRec /\ {} \in SUBSET Word
        /\ Reads(F[R][{}]) /\ F[R][{}] \subseteq E /\ m \in F[R][{}] /\ m \in E
    <2>1. {} \in SUBSET Word /\ m \in F[R][{}]
      BY DEF Going
    <2>2. Reads(F[R][{}]) /\ F[R][{}] \subseteq E
      BY <2>1, FollowsReads
    <2>. QED
      BY <2>1, <2>2, ReadsKeep
  <1>00. /\ "SP" \notin R /\ "SP" \notin R \ {"PC"} /\ "TR" \notin R \ {"PC"} /\ "PC" \notin R \ {"PC"}
         /\ R \cap Status = {} /\ r \in {"A", "X"}
    BY DEF Free, Target
  <1>1. op \in Word /\ "PC" \in Registers /\ "SP" \in Registers /\ "TR" \in Registers
    BY <1>0, RegistersAreWords
  <1>2. r \in Registers /\ w \in Word
    BY <1>0, TargetIsRegister, Fields
  <1>3. W(m.regs.SP + op) \in Word /\ W(m.regs.SP - op) \in Word
    BY <1>0, RegistersAreWords, Wraps DEF Registers
  <1>01. /\ Computes(Alu!Add(w, op)) /\ Computes(Alu!Sub(w, op)) /\ Computes(Alu!And(w, op))
         /\ Computes(Alu!Or(w, op)) /\ Computes(Alu!Xor(w, op))
    <2>1. TRUE \in BOOLEAN
      OBVIOUS
    <2>. QED
      BY <1>1, <1>2, <2>1, ArithmeticComputes
  <1>4. w % 256 \in Byte
    BY <1>2, BytesOfWord
  <1>5. CASE name \in Branches
    <2>1. n = IF Taken(name, m.csrs) THEN WriteRegister(m, "PC", op) ELSE m
      BY <1>5 DEF Perform, Branches
    <2>2. WriteRegister(m, "PC", op) \in E
      BY <1>00, <1>1, EndsRegister
    <2>. HIDE DEF n
    <2>. QED
      BY <1>0, <2>1, <2>2
  <1>10. CASE name = "CALL"
    <2>1. n = Call(m, op)
      BY <1>10 DEF Perform, Branches
    <2>. QED
      BY <1>00, <2>1, <1>1, CalledIn
  <1>11. CASE name = "ADDSP"
    <2>1. n = WriteRegister(m, "SP", W(m.regs.SP + op))
      BY <1>11 DEF Perform, Branches
    <2>. QED
      BY <1>00, <2>1, <1>1, <1>3, EndsRegister
  <1>12. CASE name = "SUBSP"
    <2>1. n = WriteRegister(m, "SP", W(m.regs.SP - op))
      BY <1>12 DEF Perform, Branches
    <2>. QED
      BY <1>00, <2>1, <1>1, <1>3, EndsRegister
  <1>13. CASE name \in {"ADDA", "ADDX"}
    <2>1. n = Compute(m, r, Alu!Add(w, op))
      BY <1>13 DEF Perform, Branches
    <2>. QED
      BY <2>1, <1>00, <1>01, ComputedIn
  <1>14. CASE name \in {"SUBA", "SUBX"}
    <2>1. n = Compute(m, r, Alu!Sub(w, op))
      BY <1>14 DEF Perform, Branches
    <2>. QED
      BY <2>1, <1>00, <1>01, ComputedIn
  <1>15. CASE name \in {"ANDA", "ANDX"}
    <2>1. n = Compute(m, r, Alu!And(w, op))
      BY <1>15 DEF Perform, Branches
    <2>. QED
      BY <2>1, <1>00, <1>01, ComputedIn
  <1>16. CASE name \in {"ORA", "ORX"}
    <2>1. n = Compute(m, r, Alu!Or(w, op))
      BY <1>16 DEF Perform, Branches
    <2>. QED
      BY <2>1, <1>00, <1>01, ComputedIn
  <1>17. CASE name \in {"XORA", "XORX"}
    <2>1. n = Compute(m, r, Alu!Xor(w, op))
      BY <1>17 DEF Perform, Branches
    <2>. QED
      BY <2>1, <1>00, <1>01, ComputedIn
  <1>18. CASE name \in {"CPWA", "CPWX"}
    <2>. DEFINE b == Alu!CompareWord(w, op).N
    <2>1. n = WriteStatus(WriteStatus(m, Alu!Sub(w, op).csr), [N |-> b])
      BY <1>18 DEF Perform, Branches
    <2>2. Flags([N |-> b])
      BY <1>1, <1>2, FlagsOfLoads
    <2>3. Flags(Alu!Sub(w, op).csr)
      BY <1>1, <1>2, FlagsOfLoads
    <2>. HIDE DEF b
    <2>4. b \in BOOLEAN
      BY <2>2 DEF Flags, Status
    <2>. QED
      BY <2>1, <2>3, <2>4, TwoStatusWritesIn
  <1>19. CASE name \in {"CPBA", "CPBX"}
    <2>1. n = WriteStatus(m, Alu!CompareByte(w, op, 256))
      BY <1>19 DEF Perform, Branches
    <2>2. Flags(Alu!CompareByte(w, op, 256))
      BY <1>1, <1>2, FlagsOfLoads
    <2>. QED
      BY <1>00, <2>1, <2>2, EndsStatus
  <1>20. CASE name = "LDWT"
    <2>1. n = WriteRegister(m, "TR", op)
      BY <1>20 DEF Perform, Branches
    <2>. QED
      BY <1>00, <2>1, <1>1, EndsRegister
  <1>21. CASE name \in {"LDWA", "LDWX"}
    <2>. DEFINE c == [N |-> Alu!Negative(op), Z |-> op = 0]
    <2>1. n = WriteStatus(WriteRegister(m, r, op), c)
      BY <1>21 DEF Perform, Branches
    <2>2. Flags(c)
      BY <1>1, <1>2, FlagsOfLoads
    <2>. HIDE DEF c
    <2>. QED
      BY <2>1, <2>2, <1>1, <1>00, LoadWritesIn
  <1>22. CASE name \in {"LDBA", "LDBX"}
    <2>. DEFINE c == [N |-> FALSE, Z |-> op = 0]
    <2>1. n = WriteStatus(WriteRegister(m, r, op), c)
      BY <1>22 DEF Perform, Branches
    <2>2. Flags(c)
      BY <1>1, <1>2, FlagsOfLoads
    <2>. HIDE DEF c
    <2>. QED
      BY <2>1, <2>2, <1>1, <1>00, LoadWritesIn
  <1>23. CASE name \in {"STWA", "STWX"}
    <2>1. n = WriteWord(m, op, w)
      BY <1>23 DEF Perform, Branches
    <2>. QED
      BY <2>1, <1>1, <1>2, FirstWordStored
  <1>24. CASE name \in {"STBA", "STBX"}
    <2>1. n = WriteByte(m, op, w % 256)
      BY <1>24 DEF Perform, Branches
    <2>. QED
      BY <2>1, <1>1, <1>2, <1>4, FirstByteStored
  <1>25. CASE name \notin Branches \cup {"CALL", "ADDSP", "SUBSP", "ADDA", "ADDX", "SUBA", "SUBX", "ANDA",
                            "ANDX", "ORA", "ORX", "XORA", "XORX", "CPWA", "CPWX", "CPBA",
                            "CPBX", "LDWT", "LDWA", "LDWX", "LDBA", "LDBX", "STWA", "STWX",
                            "STBA", "STBX"}
    <2>1. n = Fail(m, "IllegalNonunaryInstruction")
      BY <1>25 DEF Perform
    <2>2. Fail(m, "IllegalNonunaryInstruction") \in E
      <3>1. "IllegalNonunaryInstruction" \in Faults \ {"none"}
        BY DEF Faults
      <3>. QED
        BY <1>0, <3>1, ReadsKeep
    <2>. QED
      BY <2>1, <2>2
  <1>. HIDE DEF n
  <1>. QED
    BY <1>5, <1>10, <1>11, <1>12, <1>13, <1>14, <1>15, <1>16, <1>17, <1>18, <1>19, <1>20, <1>21, <1>22, <1>23, <1>24, <1>25, Zenon
\* Every instruction with an operand specifier does.
LEMMA NonunaryDispatchedIn ==
    ASSUME NEW E, NEW F, Follows(E, F), NEW R \in SUBSET Names, R \cap Free = {},
           NEW m, Going(m, F, R, {}), NEW name, NEW mode
    PROVE  NonunaryDispatch(m, name, mode) \in E
  <1>. DEFINE d == IF IsStore(name) THEN StoreOperand(m, mode, m.regs.OS)
                   ELSE LoadOperand(m, name, mode, m.regs.OS)
  <1>0. {} \in SUBSET Word /\ m \in F[R][{}]
    BY DEF Going
  <1>1. Reads(F[R][{}]) /\ F[R][{}] \subseteq E
    BY <1>0, FollowsReads
  <1>2. m.regs.OS \in Word
    BY <1>0, <1>1, ReadsKeep, RegistersAreWords
  <1>3. d \in F[R][{}]
    BY <1>0, <1>1, <1>2, StoreAddressFoundIn, OperandLoadedIn
  <1>4. NonunaryDispatch(m, name, mode) = Then(d, Perform(d, name))
    BY DEF NonunaryDispatch
  <1>. HIDE DEF d
  <1>5. d.fault = "none" => Going(d, F, R, {})
    BY <1>3 DEF Going
  <1>6. d.fault = "none" => Perform(d, name) \in E
    BY <1>5, PerformedIn
  <1>. QED
    BY <1>1, <1>3, <1>4, <1>6, ThenKeepsIn

\* So does every instruction, with or without one, once its specifier is in IS.
LEMMA DispatchedIn ==
    ASSUME NEW E, NEW F, Follows(E, F), NEW m, Going(m, F, {"IS", "PC"}, {}),
           m.regs.IS \in Byte, NEW pc \in Word, NEW instr
    PROVE  Dispatch(m, pc, instr) \in E
  <1>. DEFINE R == {"IS", "PC"}
              ROS == R \cup {"OS"}
              RPC == ROS \cup {"PC"}
              o == ReadWord(m, W(pc + 1))
              first == WriteRegister(o, "OS", o.val)
              fetched == WriteRegister(first, "PC", W(pc + 3))
  <1>1. W(pc + 1) \in Word /\ W(pc + 3) \in Word
    BY Wraps, BytesAreWords
  <1>2. /\ "OS" \in Registers /\ "PC" \in Registers /\ R \in SUBSET Names
        /\ R \cap Free = {} /\ "OS" \notin R \ {"PC"} /\ "PC" \notin ROS \ {"PC"}
    BY DEF Registers, Names, Free, Status
  <1>3. ROS \in SUBSET Names /\ RPC \in SUBSET Names /\ RPC \cap Free = {}
    BY <1>2 DEF Names, Free, Status
  <1>4. {} \in SUBSET Word /\ Going(m, F, R, {}) /\ m \in F[R][{}]
    BY DEF Going
  <1>5. UnaryOpcode(instr.mnemonic) => UnaryDispatch(m, m.regs.IS, instr.mnemonic) \in E
    <2>. HIDE DEF R
    <2>. QED
      BY <1>2, <1>4, UnaryDispatchedIn
  <1>. HIDE DEF R
  <1>6. Reads(F[R][{}]) /\ F[R][{}] \subseteq E
    BY <1>2, <1>4, FollowsReads
  <1>7. o \in F[R][{}] /\ o.val \in Word
    BY <1>1, <1>4, <1>6, WordReadIn, ReadsKeep, Fields
  <1>8. Dispatch(m, pc, instr) =
           IF UnaryOpcode(instr.mnemonic) THEN UnaryDispatch(m, m.regs.IS, instr.mnemonic)
           ELSE IF o.fault # "none" THEN Fail(o, "operand fetch")
                ELSE NonunaryDispatch(fetched, instr.mnemonic, instr.mode)
    BY DEF Dispatch
  <1>. HIDE DEF o
  <1>9. Fail(o, "operand fetch") \in E
    <2>1. "operand fetch" \in Faults \ {"none"}
      BY DEF Faults
    <2>2. Fail(o, "operand fetch") \in F[R][{}]
      BY <1>6, <1>7, <2>1 DEF Reads
    <2>. QED
      BY <1>6, <2>2
  <1>10. ASSUME o.fault = "none" PROVE Going(fetched, F, RPC, {})
    <2>1. Going(o, F, R, {})
      BY <1>7, <1>10 DEF Going
    <2>2. Going(first, F, ROS, {})
      BY <1>2, <1>4, <1>7, <2>1, FollowsRegister
    <2>. HIDE DEF first, ROS
    <2>. QED
      BY <1>1, <1>2, <1>3, <1>4, <2>2, FollowsRegister
  <1>. HIDE DEF fetched, RPC
  <1>11. o.fault = "none" => NonunaryDispatch(fetched, instr.mnemonic, instr.mode) \in E
    BY <1>3, <1>10, NonunaryDispatchedIn
  <1>. QED
    BY <1>5, <1>8, <1>9, <1>11

\* One instruction, whatever is in memory.
LEMMA ExecutedIn ==
    ASSUME NEW E, NEW F, Follows(E, F), NEW m, Going(m, F, {}, {})
    PROVE  Execute(m) \in E
  <1>. DEFINE R == {}
              RIS == R \cup {"IS"}
              RPC == RIS \cup {"PC"}
              pc == m.regs.PC
              f == ReadByte(m, pc)
              first == WriteRegister(f, "IS", f.val)
              g == WriteRegister(first, "PC", W(pc + 1))
  <1>1. /\ R \in SUBSET Names /\ RIS \in SUBSET Names /\ {} \in SUBSET Word
        /\ "IS" \in Registers /\ "PC" \in Registers
        /\ "IS" \notin R \ {"PC"} /\ "PC" \notin RIS \ {"PC"} /\ RPC = {"IS", "PC"}
    BY DEF Registers, Names
  <1>2. Going(m, F, R, {}) /\ m \in F[R][{}]
    BY DEF Going
  <1>. HIDE DEF R
  <1>3. Reads(F[R][{}]) /\ F[R][{}] \subseteq E
    BY <1>1, FollowsReads
  <1>4. m \in MachineRec
    BY <1>2, <1>3, ReadsKeep
  <1>5. pc \in Word /\ W(pc + 1) \in Word
    BY <1>4, RegistersAreWords, Wraps
  <1>6. f \in F[R][{}] /\ (f.fault = "none" => f.val \in Byte)
    BY <1>2, <1>3, <1>4, <1>5, ReadsKeep, ByteRead
  <1>7. Execute(m) = Then(f, Dispatch(g, pc, Riproll[f.val]))
    BY DEF Execute
  <1>. HIDE DEF f, pc
  <1>8. ASSUME f.fault = "none" PROVE Going(g, F, {"IS", "PC"}, {}) /\ g.regs.IS \in Byte
    <2>0. f.val \in Byte /\ f.val \in Word /\ f \in MachineRec
      BY <1>3, <1>6, <1>8, BytesAreWords, ReadsKeep
    <2>1. Going(f, F, R, {})
      BY <1>6, <1>8 DEF Going
    <2>2. Going(first, F, RIS, {})
      BY <1>1, <2>0, <2>1, FollowsRegister
    <2>3. g.regs.IS \in Byte
      BY <1>5, <2>0, Fetched
    <2>. HIDE DEF first, RIS
    <2>4. Going(g, F, RPC, {})
      BY <1>1, <1>5, <2>2, FollowsRegister
    <2>. QED
      BY <1>1, <2>3, <2>4
  <1>. HIDE DEF g
  <1>9. f.fault = "none" => Dispatch(g, pc, Riproll[f.val]) \in E
    BY <1>5, <1>8, DispatchedIn
  <1>. QED
    BY <1>3, <1>6, <1>7, <1>9, ThenKeepsIn

\* So an instruction leads from a machine to a machine, whatever is in memory.
LEMMA Executed ==
    ASSUME NEW m \in MachineRec, m.fault = "none"
    PROVE  Execute(m) \in MachineRec
  <1>. DEFINE E == MachineRec
              F == [R \in SUBSET Names |-> [S \in SUBSET Word |-> E]]
  <1>1. \A n \in E : n.fault = "none" =>
           /\ \A r \in Registers, v \in Word : WriteRegister(n, r, v) \in E
           /\ \A b \in Status, v \in BOOLEAN : WriteCsr(n, b, v) \in E
    BY RegisterWritten, CsrWritten
  <1>2. Reads(E)
    BY Returns, ByteRead DEF Reads
  <1>3. ASSUME NEW n \in E, n.fault = "none", NEW a \in Word, NEW v \in Byte PROVE WriteByte(n, a, v) \in E
    BY <1>3, ByteWritten
  <1>4. m \in E /\ {} \in SUBSET Names /\ {} \in SUBSET Word
    OBVIOUS
  <1>5. \A R \in SUBSET Names, r \in Names : R \cup {r} \in SUBSET Names
    OBVIOUS
  <1>6. Registers \subseteq Names /\ Status \subseteq Names /\ "N" \in Status /\ E \subseteq MachineRec
    BY DEF Names, Status
  <1>. HIDE DEF E
  <1>7. \A R \in SUBSET Names, S \in SUBSET Word : F[R][S] = E
    OBVIOUS
  <1>. HIDE DEF F
  <1>8. ASSUME NEW R \in SUBSET Names, NEW S \in SUBSET Word
        PROVE  /\ Reads(F[R][S]) /\ F[R][S] \subseteq E
               /\ \A n \in F[R][S] : n.fault = "none" =>
                     /\ \A r \in Registers, v \in Word : WriteRegister(n, r, v) \in F[R \cup {r}][S]
                     /\ \A b \in Status, v \in BOOLEAN : WriteCsr(n, b, v) \in F[R \cup {b}][S]
                     /\ \A a \in Word, v \in Byte : WriteByte(n, a, v) \in F[R][S \cup {a}]
                     /\ \A v \in BOOLEAN : WriteCsr(n, "N", v) \in E
    <2>1. F[R][S] = E
      BY <1>7
    <2>2. /\ \A r \in Registers : F[R \cup {r}][S] = E
          /\ \A b \in Status : F[R \cup {b}][S] = E
          /\ \A a \in Word : F[R][S \cup {a}] = E
      BY <1>5, <1>6, <1>7
    <2>. QED
      BY <1>1, <1>2, <1>3, <1>6, <2>1, <2>2
  <1>9. Follows(E, F)
    <2>1. E \subseteq MachineRec
      BY <1>6
    <2>2. ASSUME NEW R \in SUBSET Names, NEW S \in SUBSET Word
          PROVE  /\ Reads(F[R][S]) /\ F[R][S] \subseteq E
                 /\ \A n \in F[R][S] : n.fault = "none" =>
                      /\ \A r \in Registers, v \in Word :
                            r \notin R \ {"PC"} => WriteRegister(n, r, v) \in F[R \cup {r}][S]
                      /\ \A b \in Status, v \in BOOLEAN : b \notin R => WriteCsr(n, b, v) \in F[R \cup {b}][S]
                      /\ \A a \in Word, v \in Byte : a \notin S => WriteByte(n, a, v) \in F[R][S \cup {a}]
                      /\ \A v \in BOOLEAN : WriteCsr(n, "N", v) \in E
      BY <1>8
    <2>. QED
      BY <2>1, <2>2 DEF Follows
  <1>10. Going(m, F, {}, {})
    BY <1>4, <1>7 DEF Going
  <1>. QED
    BY <1>9, <1>10, ExecutedIn DEF E

(***************************************************************************)
(* Deltas and loads: loops over changes and bytes.                         *)
(***************************************************************************)

\* Undoing changes of a block leaves a block.
LEMMA Undone ==
    ASSUME NEW I, NEW V, NEW b \in [I -> V], NEW changes \in Seq(ChangeOf(I, V))
    PROVE  Undo(b, changes) \in [I -> V]
  <1>. DEFINE n == Len(changes)
              Is(g) == g = [i \in 0 .. n |-> IF i = 0 THEN b
                                             ELSE [g[i - 1] EXCEPT ![changes[i].at] = changes[i].old]]
              U == CHOOSE g : Is(g)
              op == [i \in 1 .. n |-> [f \in [I -> V] |-> [f EXCEPT ![changes[i].at] = changes[i].old]]]
  <1>1. n \in Nat
    BY LenProperties
  <1>2. ASSUME NEW i \in 1 .. n PROVE changes[i].at \in I /\ changes[i].old \in V
    <2>1. changes[i] \in ChangeOf(I, V)
      BY ElementOfSeq
    <2>. QED
      BY <2>1 DEF ChangeOf
  <1>3. ASSUME NEW i \in 1 .. n, NEW f \in [I -> V]
        PROVE  [f EXCEPT ![changes[i].at] = changes[i].old] \in [I -> V]
    BY <1>2
  <1>. HIDE DEF U
  <1>4. Undo(b, changes) = U[n]
    BY DEF Undo, U
  <1>. HIDE DEF n
  <1>5. \E g : Is(g)
    <2>1. op \in [1 .. n -> [[I -> V] -> [I -> V]]]
      <3>1. \A i \in 1 .. n : op[i] \in [[I -> V] -> [I -> V]]
        BY <1>3
      <3>. QED
        BY <3>1
    <2>2. PICK g \in [0 .. n -> [I -> V]] : Loop(n, b, op, g)
      <3>. HIDE DEF op
      <3>. QED
        BY <1>1, <2>1, LoopExists
    <2>3. ASSUME NEW i \in 0 .. n
          PROVE  g[i] = IF i = 0 THEN b ELSE [g[i - 1] EXCEPT ![changes[i].at] = changes[i].old]
      <3>1. g[i] = IF i = 0 THEN b ELSE op[i][g[i - 1]]
        <4>. HIDE DEF op
        <4>. QED
          BY <2>2 DEF Loop
      <3>2. CASE i # 0
        <4>1. i \in 1 .. n /\ g[i - 1] \in [I -> V]
          BY <1>1, <3>2, <2>2
        <4>2. op[i][g[i - 1]] = [g[i - 1] EXCEPT ![changes[i].at] = changes[i].old]
          BY <4>1
        <4>. QED
          BY <3>1, <3>2, <4>2
      <3>. QED
        BY <3>1, <3>2
    <2>4. g = [i \in 0 .. n |-> g[i]]
      BY <2>2
    <2>5. Is(g)
      BY <2>3, <2>4, Zenon
    <2>. QED
      BY <2>5
  <1>6. Is(U)
    <2>. HIDE DEF Is
    <2>. QED
      BY <1>5 DEF U
  <1>. DEFINE G == {i \in 0 .. n : U[i] \in [I -> V]}
  <1>7. 0 \in G
    BY <1>1, <1>6
  <1>8. ASSUME NEW i \in 1 .. n, i - 1 \in G
        PROVE  i \in G
    <2>1. U[i] = [U[i - 1] EXCEPT ![changes[i].at] = changes[i].old]
      <3>1. i \in 0 .. n /\ i # 0
        BY <1>1
      <3>. QED
        BY <1>6, <3>1
    <2>2. U[i - 1] \in [I -> V]
      BY <1>8
    <2>3. U[i] \in [I -> V]
      BY <1>3, <2>1, <2>2
    <2>. QED
      BY <1>1, <2>3
  <1>9. 0 .. n \subseteq G
    <2>. HIDE DEF G
    <2>. QED
      BY <1>1, <1>7, <1>8, Upwards
  <1>10. n \in G
    BY <1>1, <1>9
  <1>. QED
    BY <1>4, <1>10

\* Taking back reads leaves a position of the input port.
LEMMA UnreadStays ==
    ASSUME NEW n \in Nat, NEW len \in Nat, NEW pos \in {Stale} \cup 0 .. len
    PROVE  Unread(n, pos) \in {Stale} \cup 0 .. len
  <1>1. CASE pos <= 0
    BY <1>1 DEF Unread
  <1>2. CASE ~(pos <= 0)
    <2>1. pos \in 1 .. len
      BY <1>2 DEF Stale
    <2>. DEFINE k == pos - n
    <2>2. k \in Int /\ k <= len
      BY <2>1
    <2>3. Unread(n, pos) = Max({k, 0})
      BY <1>2 DEF Unread
    <2>. HIDE DEF k
    <2>4. Max({k, 0}) \in {k, 0} /\ Max({k, 0}) >= 0
      <3>1. \E x \in {k, 0} : \A y \in {k, 0} : x >= y
        BY <2>2
      <3>. QED
        BY <3>1 DEF Max
    <2>. QED
      BY <2>2, <2>3, <2>4
  <1>. QED
    BY <1>1, <1>2

\* An output log, shortened.
LEMMA Shortened ==
    ASSUME NEW s \in Seq(Byte), NEW n \in Nat
    PROVE  SubSeq(s, 1, Len(s) - n) \in Seq(Byte)
  <1>1. Len(s) \in Nat
    BY LenProperties
  <1>2. CASE n <= Len(s)
    BY <1>1, <1>2, SubSeqProperties
  <1>3. CASE n > Len(s)
    <2>1. SubSeq(s, 1, Len(s) - n) = << >>
      BY <1>1, <1>3
    <2>. QED
      BY <2>1
  <1>. QED
    BY <1>1, <1>2, <1>3

\* No changes are changes.
LEMMA NoDeltaTyped == NoDelta \in StepDelta
  <1>1. \A S : << >> \in Seq(S)
    OBVIOUS
  <1>2. [p \in OutputPorts |-> 0] \in [OutputPorts -> Nat]
    OBVIOUS
  <1>. QED
    BY <1>1, <1>2 DEF NoDelta, StepDelta

\* A failed instruction is unwound to a machine.
LEMMA UnwoundTyped ==
    ASSUME NEW m \in MachineRec
    PROVE  Unwound(m) \in MachineRec
  <1>. DEFINE d == m.delta
              r == Undo(m.regs, d.regs)
              c == Undo(m.csrs, d.csrs)
              s == Undo(m.ram, d.ram)
              pos == Unread(d.reads, m.at)
              l == [p \in OutputPorts |-> SubSeq(m.log[p], 1, Len(m.log[p]) - d.writes[p])]
  <1>1. Unwound(m) = [m EXCEPT !.regs = r, !.csrs = c, !.ram = s, !.at = pos, !.log = l, !.delta = NoDelta]
    BY DEF Unwound, Backward, MachineRec
  <1>2. r \in [Registers -> Word] /\ c \in [Status -> BOOLEAN] /\ s \in [Address -> Byte]
    BY Fields, Undone
  <1>3. pos \in {Stale} \cup 0 .. Len(input)
    <2>1. Len(input) \in Nat
      BY Fields, LenProperties
    <2>. QED
      BY <2>1, Fields, UnreadStays
  <1>4. l \in [OutputPorts -> Seq(Byte)]
    <2>1. ASSUME NEW p \in OutputPorts
          PROVE  SubSeq(m.log[p], 1, Len(m.log[p]) - d.writes[p]) \in Seq(Byte)
      <3>1. m.log[p] \in Seq(Byte) /\ d.writes[p] \in Nat
        BY Fields
      <3>. QED
        BY <3>1, Shortened
    <2>. QED
      BY <2>1
  <1>5. NoDelta \in StepDelta
    BY NoDeltaTyped
  <1>. HIDE DEF r, c, s, pos, l
  <1>. QED
    BY <1>1, <1>2, <1>3, <1>4, <1>5 DEF MachineRec

\* A byte is loaded.
LEMMA ByteSet ==
    ASSUME NEW m \in MachineRec, NEW a \in Address, NEW v \in Byte
    PROVE  SetByte(m, a, v) \in MachineRec
  <1>. DEFINE n == SetByte(m, a, v)
  <1>. SUFFICES n \in MachineRec
    OBVIOUS
  <1>1. CASE a = CharIn
    <2>1. n = Fail(m, "Unwritable")
      BY <1>1, Numbers DEF SetByte
    <2>. QED
      <3>1. "Unwritable" \in Faults
        BY DEF Faults
      <3>. QED
        BY <2>1, <3>1, Returns
  <1>2. CASE a # CharIn /\ a \in OutputPorts
    <2>1. n = [m EXCEPT !.cache = [m.cache EXCEPT ![a] = v]]
      BY <1>2 DEF SetByte, MachineRec
    <2>2. [m.cache EXCEPT ![a] = v] \in [OutputPorts -> Byte]
      BY <1>2, Fields
    <2>. HIDE DEF n
    <2>. QED
      BY <2>1, <2>2 DEF MachineRec
  <1>3. CASE a # CharIn /\ a \notin OutputPorts
    <2>1. n = [m EXCEPT !.ram = [m.ram EXCEPT ![a] = v]]
      BY <1>3 DEF SetByte, MachineRec
    <2>2. [m.ram EXCEPT ![a] = v] \in [Address -> Byte]
      BY Fields
    <2>. HIDE DEF n
    <2>. QED
      BY <2>1, <2>2 DEF MachineRec
  <1>. HIDE DEF n
  <1>. QED
    BY <1>1, <1>2, <1>3

\* Bytes are loaded one after the other.
LEMMA BytesLoadedIn ==
    ASSUME NEW K, \A m \in K, a \in Address, v \in Byte : SetByte(m, a, v) \in K,
           NEW first \in K, NEW offset \in Word, NEW bytes \in Seq(Byte)
    PROVE  LET To(i) == (offset + i - 1) % (MaxOffset + 1)
               Loaded[i \in 0 .. Len(bytes)] ==
                   IF i = 0 THEN first
                   ELSE LET m == Loaded[i - 1] IN Then(m, SetByte(m, To(i), bytes[i]))
           IN  Loaded[Len(bytes)] \in K
  <1>. DEFINE n == Len(bytes)
              To(i) == (offset + i - 1) % (MaxOffset + 1)
              next(m, i) == Then(m, SetByte(m, To(i), bytes[i]))
              Is(g) == g = [i \in 0 .. n |-> IF i = 0 THEN first ELSE next(g[i - 1], i)]
              L == CHOOSE g : Is(g)
              op == [i \in 1 .. n |-> [m \in K |-> next(m, i)]]
  <1>. SUFFICES L[n] \in K
    OBVIOUS
  <1>1. n \in Nat
    BY LenProperties
  <1>2. ASSUME NEW i \in 1 .. n, NEW m \in K
        PROVE  next(m, i) \in K
    <2>1. bytes[i] \in Byte
      BY ElementOfSeq
    <2>2. To(i) \in Address
      <3>1. offset + i - 1 \in Int /\ MaxOffset + 1 \in Nat \ {0}
        BY Numbers, BytesAreWords
      <3>2. PICK k \in Int, b \in Nat \ {0} : k = offset + i - 1 /\ b = MaxOffset + 1
        BY <3>1
      <3>3. k % b \in 0 .. b - 1
        OBVIOUS
      <3>4. To(i) = k % b
        BY <3>2
      <3>5. 0 .. b - 1 = Address
        BY <3>2, Numbers
      <3>. HIDE DEF To
      <3>. QED
        BY <3>3, <3>4, <3>5
    <2>. HIDE DEF To
    <2>. QED
      BY <2>1, <2>2, ThenKeepsIn
  <1>. HIDE DEF next, L, n
  <1>3. \E g : Is(g)
    <2>1. op \in [1 .. n -> [K -> K]]
      <3>1. \A i \in 1 .. n : op[i] \in [K -> K]
        BY <1>2
      <3>. QED
        BY <3>1
    <2>2. PICK g \in [0 .. n -> K] : Loop(n, first, op, g)
      <3>. HIDE DEF op
      <3>. QED
        BY <1>1, <2>1, LoopExists
    <2>3. ASSUME NEW i \in 0 .. n
          PROVE  g[i] = IF i = 0 THEN first ELSE next(g[i - 1], i)
      <3>1. g[i] = IF i = 0 THEN first ELSE op[i][g[i - 1]]
        <4>. HIDE DEF op
        <4>. QED
          BY <2>2 DEF Loop
      <3>2. CASE i # 0
        <4>1. i \in 1 .. n /\ g[i - 1] \in K
          BY <1>1, <3>2, <2>2
        <4>2. op[i][g[i - 1]] = next(g[i - 1], i)
          BY <4>1
        <4>. QED
          BY <3>1, <3>2, <4>2
      <3>. QED
        BY <3>1, <3>2
    <2>4. g = [i \in 0 .. n |-> g[i]]
      BY <2>2
    <2>5. Is(g)
      BY <2>3, <2>4, Zenon
    <2>. QED
      BY <2>5
  <1>4. Is(L)
    <2>. HIDE DEF Is
    <2>. QED
      BY <1>3 DEF L
  <1>. DEFINE G == {i \in 0 .. n : L[i] \in K}
  <1>5. 0 \in G
    BY <1>1, <1>4
  <1>6. ASSUME NEW i \in 1 .. n, i - 1 \in G
        PROVE  i \in G
    <2>1. L[i] = next(L[i - 1], i)
      <3>1. i \in 0 .. n /\ i # 0
        BY <1>1
      <3>. QED
        BY <1>4, <3>1
    <2>2. L[i - 1] \in K
      BY <1>6
    <2>3. L[i] \in K
      BY <1>2, <2>1, <2>2
    <2>. QED
      BY <1>1, <2>3
  <1>7. 0 .. n \subseteq G
    <2>. HIDE DEF G
    <2>. QED
      BY <1>1, <1>5, <1>6, Upwards
  <1>8. n \in G
    BY <1>1, <1>7
  <1>. QED
    BY <1>8

(***************************************************************************)
(* The machine's state.                                                    *)
(***************************************************************************)

\* MachineTypeOK, without the calls of the host.
Types ==
    /\ regs \in [Registers -> Word] /\ csrs \in [Status -> BOOLEAN]
    /\ ram \in [Address -> Byte]
    /\ cache \in [OutputPorts -> Byte] /\ log \in [OutputPorts -> Seq(Byte)]
    /\ at \in {Stale} \cup 0 .. Len(input)
    /\ delta \in StepDelta

\* The machine's variables take the types of a machine record.
LEMMA BecomeTyped ==
    ASSUME NEW m \in MachineRec, Become(m), input' = input
    PROVE  Types'
  BY Fields DEF Become, Types

\* A typed state is a machine record that has not failed.
LEMMA MachineTyped ==
    ASSUME MachineTypeOK
    PROVE  Machine \in MachineRec
  <1>1. InputBytes \subseteq Byte
    BY MachineAssumption
  <1>2. input \in Seq(Byte)
    <2>1. input \in Seq(InputBytes)
      BY DEF MachineTypeOK
    <2>. QED
      BY <1>1, <2>1
  <1>3. 0 \in Word
    BY Widths
  <1>. QED
    BY <1>2, <1>3 DEF MachineTypeOK, Machine, MachineRec, Faults

\* The delta of a completed instruction is saved under its cycle.
LEMMA Saves ==
    ASSUME NEW s, NEW N \in Nat, DOMAIN s \subseteq 0 .. N - 1,
           \A k \in DOMAIN s : s[k] \in StepDelta,
           NEW c \in 0 .. N - 1, NEW d \in StepDelta
    PROVE  LET t == [k \in DOMAIN s \cup {c} |-> IF k \in DOMAIN s THEN s[k] ELSE d]
           IN  DOMAIN t \subseteq 0 .. N - 1 /\ \A k \in DOMAIN t : t[k] \in StepDelta
  <1>. DEFINE t == [k \in DOMAIN s \cup {c} |-> IF k \in DOMAIN s THEN s[k] ELSE d]
  <1>1. t = [k \in DOMAIN s \cup {c} |-> IF k \in DOMAIN s THEN s[k] ELSE d]
    OBVIOUS
  <1>. HIDE DEF t
  <1>2. DOMAIN t \subseteq 0 .. N - 1 /\ \A k \in DOMAIN t : t[k] \in StepDelta
    BY <1>1
  <1>. QED
    BY <1>2 DEF t

\* A step, whatever its instruction does.
LEMMA StepTyped ==
    ASSUME MachineTypeOK, cycles < MaxCycles, ProcessorStep
    PROVE  /\ Types' /\ input' = input /\ breakpoints' = breakpoints
           /\ cycles' \in 0 .. MaxCycles
           /\ DOMAIN saved' \subseteq 0 .. MaxCycles - 1
           /\ \A c \in DOMAIN saved' : saved'[c] \in StepDelta
  <1>. DEFINE m == Execute(Machine)
  <1>1. m \in MachineRec
    <2>1. Machine \in MachineRec /\ Machine.fault = "none"
      BY MachineTyped DEF Machine
    <2>. QED
      BY <2>1, Executed
  <1>2. input' = input /\ breakpoints' = breakpoints /\ Finish(m)
    BY DEF ProcessorStep
  <1>3. /\ cycles \in 0 .. MaxCycles - 1 /\ MaxCycles \in Nat
        /\ DOMAIN saved \subseteq 0 .. MaxCycles - 1
        /\ \A c \in DOMAIN saved : saved[c] \in StepDelta
    BY MachineAssumption DEF MachineTypeOK
  <1>. HIDE DEF m
  <1>4. CASE m.fault = "none"
    <2>1. /\ Become([m EXCEPT !.delta = NoDelta])
          /\ saved' = [c \in DOMAIN saved \cup {cycles} |-> IF c \in DOMAIN saved THEN saved[c] ELSE m.delta]
          /\ cycles' = cycles + 1
      BY <1>2, <1>4 DEF Finish
    <2>2. [m EXCEPT !.delta = NoDelta] \in MachineRec
      BY <1>1, NoDeltaTyped DEF MachineRec
    <2>3. Types'
      BY <1>2, <2>1, <2>2, BecomeTyped
    <2>4. m.delta \in StepDelta
      BY <1>1, Fields
    <2>5. DOMAIN saved' \subseteq 0 .. MaxCycles - 1 /\ \A c \in DOMAIN saved' : saved'[c] \in StepDelta
      BY <1>3, <2>1, <2>4, Saves
    <2>6. cycles' \in 0 .. MaxCycles
      BY <1>3, <2>1
    <2>. QED
      BY <1>2, <2>3, <2>5, <2>6
  <1>5. CASE m.fault # "none"
    <2>1. Become(IF m.fault = "throw" THEN m ELSE Unwound(m)) /\ UNCHANGED <<saved, cycles>>
      BY <1>2, <1>5 DEF Finish
    <2>2. (IF m.fault = "throw" THEN m ELSE Unwound(m)) \in MachineRec
      BY <1>1, UnwoundTyped
    <2>3. Types'
      BY <1>2, <2>1, <2>2, BecomeTyped
    <2>. QED
      BY <1>2, <1>3, <2>1, <2>3
  <1>. QED
    BY <1>4, <1>5

\* begin_simulation clears the registers and their deltas.
LEMMA ZeroTyped ==
    ASSUME MachineTypeOK
    PROVE  [Machine EXCEPT !.regs = [r \in Registers |-> 0], !.delta.regs = << >>,
                           !.csrs = [b \in Status |-> FALSE], !.delta.csrs = << >>] \in MachineRec
  <1>. DEFINE zero == [Machine EXCEPT !.regs = [r \in Registers |-> 0], !.delta.regs = << >>,
                                      !.csrs = [b \in Status |-> FALSE], !.delta.csrs = << >>]
              d == [Machine.delta EXCEPT !.regs = << >>, !.csrs = << >>]
              r == [x \in Registers |-> 0]
              c == [b \in Status |-> FALSE]
  <1>1. Machine \in MachineRec
    BY MachineTyped
  <1>2. zero = [Machine EXCEPT !.regs = r, !.csrs = c, !.delta = d]
    BY <1>1 DEF MachineRec, StepDelta
  <1>3. r \in [Registers -> Word] /\ c \in [Status -> BOOLEAN]
    BY Widths
  <1>4. d \in StepDelta
    <2>1. Machine.delta \in StepDelta
      BY <1>1, Fields
    <2>2. \A S : << >> \in Seq(S)
      OBVIOUS
    <2>. QED
      BY <2>1, <2>2 DEF StepDelta
  <1>5. zero \in MachineRec
    <2>. HIDE DEF r, c, d, zero
    <2>. QED
      BY <1>1, <1>2, <1>3, <1>4 DEF MachineRec
  <1>. QED
    BY <1>5

\* begin_simulation.
LEMMA BeginTyped ==
    ASSUME MachineTypeOK, BeginSimulation
    PROVE  Types'
  <1>. DEFINE zero == [Machine EXCEPT !.regs = [r \in Registers |-> 0], !.delta.regs = << >>,
                                      !.csrs = [b \in Status |-> FALSE], !.delta.csrs = << >>]
              sp == ReadWord(zero, Vector("SystemStack"))
              top == WriteRegister(sp, "SP", sp.val)
              pc == ReadWord(top, Vector("Dispatcher"))
              done == WriteRegister(pc, "PC", pc.val)
  <1>1. Become(done) /\ input' = input
    BY DEF BeginSimulation
  <1>2. zero \in MachineRec
    BY ZeroTyped
  <1>. HIDE DEF zero
  <1>3. sp \in MachineRec
    BY <1>2, VectorIsAddress, WordRead
  <1>. HIDE DEF sp
  <1>4. top \in MachineRec
    <2>1. sp.val \in Word /\ "SP" \in Registers
      BY <1>3, RegistersAreWords
    <2>. QED
      BY <1>3, <2>1, RegisterWritten
  <1>. HIDE DEF top
  <1>5. pc \in MachineRec
    BY <1>4, VectorIsAddress, WordRead
  <1>. HIDE DEF pc
  <1>6. done \in MachineRec
    <2>1. pc.val \in Word /\ "PC" \in Registers
      BY <1>5, RegistersAreWords
    <2>. QED
      BY <1>5, <2>1, RegisterWritten
  <1>. QED
    BY <1>1, <1>6, BecomeTyped

\* clear_all.
LEMMA ClearTyped ==
    ASSUME ClearAll PROVE Types'
  <1>1. 0 \in Word /\ 0 \in Byte /\ \A S : << >> \in Seq(S)
    BY Widths
  <1>. QED
    BY <1>1, NoDeltaTyped DEF ClearAll, Types

\* load_bytes.
LEMMA LoadTyped ==
    ASSUME MachineTypeOK, NEW l \in Loads, LoadBytes(l)
    PROVE  Types'
  <1>1. l.offset \in Word /\ l.bytes \in Seq(Byte)
    BY MachineAssumption
  <1>2. Machine \in MachineRec
    BY MachineTyped
  <1>. DEFINE To(i) == (l.offset + i - 1) % (MaxOffset + 1)
              Loaded[i \in 0 .. Len(l.bytes)] ==
                  IF i = 0 THEN Machine
                  ELSE LET m == Loaded[i - 1] IN Then(m, SetByte(m, To(i), l.bytes[i]))
              done == Loaded[Len(l.bytes)]
  <1>3. done \in MachineRec
    BY <1>1, <1>2, ByteSet, BytesLoadedIn
  <1>4. Become(done) /\ input' = input
    BY DEF LoadBytes
  <1>. HIDE DEF done
  <1>. QED
    BY <1>3, <1>4, BecomeTyped

\* The host's own writes.
LEMMA HostWritesTyped ==
    ASSUME MachineTypeOK
    PROVE  /\ \A w \in HostWrites : HostWriteMemory(w) => Types' /\ input' = input
           /\ \A w \in RegisterWrites : HostWriteRegister(w) => Types' /\ input' = input
  <1>1. Machine \in MachineRec
    BY MachineTyped
  <1>2. ASSUME NEW w \in HostWrites, HostWriteMemory(w)
        PROVE  Types' /\ input' = input
    <2>1. w.at \in Word /\ w.val \in Byte
      BY MachineAssumption
    <2>2. WriteByte(Machine, w.at, w.val) \in MachineRec
      BY <1>1, <2>1, ByteWritten
    <2>3. Become(WriteByte(Machine, w.at, w.val)) /\ input' = input
      BY <1>2 DEF HostWriteMemory
    <2>. QED
      BY <2>2, <2>3, BecomeTyped
  <1>3. ASSUME NEW w \in RegisterWrites, HostWriteRegister(w)
        PROVE  Types' /\ input' = input
    <2>1. w.at \in Registers /\ w.val \in Word
      BY MachineAssumption
    <2>2. WriteRegister(Machine, w.at, w.val) \in MachineRec
      BY <1>1, <2>1, RegisterWritten
    <2>3. Become(WriteRegister(Machine, w.at, w.val)) /\ input' = input
      BY <1>3 DEF HostWriteRegister
    <2>. QED
      BY <2>2, <2>3, BecomeTyped
  <1>. QED
    BY <1>2, <1>3

\* The state keeps its types, for every memory map, every program and every order of
\* the host's calls: registers stay words, memory stays bytes, the ports stay within
\* their logs, and every delta, saved or in progress, can be applied.
THEOREM MachineTypeCorrect == MachineSpec => []MachineTypeOK
  <1>1. MachineInit => MachineTypeOK
    <2>1. 0 \in Word /\ 0 \in Byte /\ \A S : << >> \in Seq(S)
      BY Widths
    <2>2. Images \subseteq [Address -> Byte] /\ MaxCycles \in Nat
      BY MachineAssumption
    <2>3. DOMAIN << >> = {}
      OBVIOUS
    <2>. QED
      BY <2>1, <2>2, <2>3, NoDeltaTyped DEF MachineInit, MachineTypeOK, Idle
  <1>2. MachineTypeOK /\ RunHasBudget /\ [MachineNext]_vars => MachineTypeOK'
    <2>. SUFFICES ASSUME MachineTypeOK, RunHasBudget, [MachineNext]_vars PROVE MachineTypeOK'
      OBVIOUS
    <2>. DEFINE Saved == /\ cycles \in 0 .. MaxCycles /\ DOMAIN saved \subseteq 0 .. MaxCycles - 1
                         /\ \A c \in DOMAIN saved : saved[c] \in StepDelta
                Calls == run.mode \in {"idle", "first", "going"} /\ run.limit \in Limits \cup {0}
    <2>0. /\ Types /\ Saved /\ input \in Seq(InputBytes) /\ breakpoints \subseteq Breakable /\ Calls
          /\ MaxCycles \in Nat
      BY MachineAssumption DEF MachineTypeOK, Types
    <2>a. Types' /\ Saved' /\ input' \in Seq(InputBytes) /\ breakpoints' \subseteq Breakable /\ Calls'
          => MachineTypeOK'
      BY DEF MachineTypeOK, Types
    <2>b. UNCHANGED <<cycles, saved>> => Saved'
      BY <2>0
    <2>. HIDE DEF Saved
    <2>1. CASE UNCHANGED vars
      BY <2>0, <2>1, <2>a, <2>b DEF vars, Types
    <2>2. CASE Step
      <3>1. ProcessorStep /\ cycles < MaxCycles /\ run' = run
        BY <2>2 DEF Step, HasRoom
      <3>. QED
        BY <2>0, <2>a, <3>1, StepTyped DEF Saved
    <2>3. CASE RunStep
      <3>1. ProcessorStep /\ run.mode # "idle"
        BY <2>3 DEF RunStep
      <3>2. run \in [mode: {"first", "going"}, limit: Limits]
        BY <3>1 DEF RunHasBudget, Promises!SteppingTypeOK, Promises!Idle
      <3>3. cycles < MaxCycles /\ run.limit \in Limits
        <4>1. run.limit \in Limits /\ (run.mode = "first" \/ run.mode = "going")
          BY <3>2
        <4>2. run.limit \in 0 .. MaxCycles /\ cycles \in 0 .. MaxCycles
          <5>1. run.limit \in 0 .. MaxCycles
            BY <4>1, MachineAssumption
          <5>2. cycles \in 0 .. MaxCycles
            BY DEF RunHasBudget, Promises!SteppingTypeOK
          <5>. QED
            BY <5>1, <5>2
        <4>3. run.mode = "first" => cycles < MaxCycles
          BY DEF RunHasBudget
        <4>4. run.mode = "going" => cycles < run.limit
          BY DEF RunHasBudget, Promises!RunOnlyNominal
        <4>. QED
          BY <2>0, <4>1, <4>2, <4>3, <4>4
      <3>4. run' = [run EXCEPT !.mode = "going"] \/ run' = Idle
        BY <2>3 DEF RunStep
      <3>5. Calls'
        BY <3>2, <3>3, <3>4 DEF Idle
      <3>. QED
        BY <2>0, <2>a, <3>1, <3>3, <3>5, StepTyped DEF Saved
    <2>4. ASSUME NEW l \in Limits, BeginRun(l)
          PROVE  MachineTypeOK'
      <3>1. Types' /\ Calls'
        BY <2>0, <2>4 DEF BeginRun, Types
      <3>. QED
        BY <2>0, <2>4, <2>a, <2>b, <3>1 DEF BeginRun
    <2>5. CASE BeginSimulation
      <3>1. Saved'
        BY <2>0, <2>5 DEF BeginSimulation, Saved
      <3>. QED
        BY <2>0, <2>5, <2>a, <3>1, BeginTyped DEF BeginSimulation, HostCall
    <2>6. CASE ClearAll
      <3>1. Saved'
        <4>1. DOMAIN << >> = {}
          OBVIOUS
        <4>. QED
          BY <2>0, <2>6, <4>1 DEF ClearAll, Saved
      <3>2. input' \in Seq(InputBytes)
        BY <2>6 DEF ClearAll
      <3>. QED
        BY <2>0, <2>6, <2>a, <3>1, <3>2, ClearTyped DEF ClearAll, HostCall
    <2>7. ASSUME NEW l \in Loads, LoadBytes(l)
          PROVE  MachineTypeOK'
      BY <2>0, <2>7, <2>a, <2>b, LoadTyped DEF LoadBytes, HostCall
    <2>8. ASSUME NEW w \in HostWrites, HostWriteMemory(w)
          PROVE  MachineTypeOK'
      <3>1. Types' /\ input' = input
        BY <2>8, HostWritesTyped
      <3>. QED
        BY <2>0, <2>8, <2>a, <2>b, <3>1 DEF HostWriteMemory, HostCall
    <2>9. ASSUME NEW w \in RegisterWrites, HostWriteRegister(w)
          PROVE  MachineTypeOK'
      <3>1. Types' /\ input' = input
        BY <2>9, HostWritesTyped
      <3>. QED
        BY <2>0, <2>9, <2>a, <2>b, <3>1 DEF HostWriteRegister, HostCall
    <2>10. ASSUME NEW b \in InputBytes, BufferInput(b)
           PROVE  MachineTypeOK'
      <3>1. input' = Append(input, b) /\ input' \in Seq(InputBytes) /\ Len(input') = Len(input) + 1
        BY <2>0, <2>10, AppendProperties DEF BufferInput
      <3>2. Types'
        <4>1. Len(input) \in Nat
          BY <2>0, LenProperties
        <4>2. at' = at /\ at' \in {Stale} \cup 0 .. Len(input')
          BY <2>0, <2>10, <3>1, <4>1 DEF BufferInput, Types
        <4>. QED
          BY <2>0, <2>10, <4>2 DEF BufferInput, Types
      <3>. QED
        BY <2>0, <2>10, <2>a, <2>b, <3>1, <3>2 DEF BufferInput, HostCall
    <2>11. ASSUME NEW new \in SUBSET Breakable, SetBreakpoints(new)
           PROVE  MachineTypeOK'
      <3>1. Types'
        BY <2>0, <2>11 DEF SetBreakpoints, Types
      <3>. QED
        BY <2>0, <2>11, <2>a, <2>b, <3>1 DEF SetBreakpoints, HostCall
    <2>12. CASE RemoveAllBreakpoints
      BY <2>12, <2>11 DEF RemoveAllBreakpoints
    <2>13. ASSUME NEW a \in Breakable, AddBreakpoint(a) \/ RemoveBreakpoint(a)
           PROVE  MachineTypeOK'
      <3>1. breakpoints \cup {a} \in SUBSET Breakable /\ breakpoints \ {a} \in SUBSET Breakable
        BY <2>0
      <3>. QED
        BY <2>13, <2>11, <3>1 DEF AddBreakpoint, RemoveBreakpoint
    <2>. QED
      BY <2>1, <2>2, <2>3, <2>4, <2>5, <2>6, <2>7, <2>8, <2>9, <2>10, <2>12, <2>13 DEF MachineNext
  <1>. QED
    BY <1>1, <1>2, MachineImplementsStepping, RunsKeepBudget, PTL DEF MachineSpec, ImplementsStepping

(***************************************************************************)
(* System calls: what SCALL pushes is what SRET pops.                      *)
(***************************************************************************)

\* RAM that is neither a port nor the operating system, and all memory that is no port.
Ram == 0 .. RomStart - 1 \ ({CharIn} \cup OutputPorts)
Memory == Address \ ({CharIn} \cup OutputPorts)

\* Where ports, RAM and ROM lie in the memory map.
LEMMA Places ==
    /\ Ram \subseteq Memory /\ Memory \subseteq Word
    /\ \A a \in Memory : ~(a > MaxOffset) /\ a # CharIn /\ a \notin OutputPorts
    /\ \A a \in Ram : a \notin RomStart .. MaxOffset
    /\ \A name \in {"SystemStack", "Dispatcher", "TrapHandler"} :
          Vector(name) \in Memory /\ W(Vector(name) + 1) \in Memory
  <1>1. MaxOffset \in Nat /\ RomStart \in Nat /\ RomStart + 11 <= MaxOffset
    BY Numbers, MapAssumption, Zenon
  <1>2. Ram \subseteq Memory /\ Memory \subseteq Word
    BY <1>1, Numbers DEF Ram, Memory
  <1>3. \A a \in Memory : ~(a > MaxOffset) /\ a # CharIn /\ a \notin OutputPorts
    BY <1>1, Numbers DEF Memory
  <1>4. \A a \in Ram : a \notin RomStart .. MaxOffset
    BY <1>1 DEF Ram
  <1>5. ASSUME NEW name \in {"SystemStack", "Dispatcher", "TrapHandler"}
        PROVE  Vector(name) \in Memory /\ W(Vector(name) + 1) \in Memory
    <2>1. PICK v : v = Vector(name) /\ v \in RomStart .. MaxOffset - 1
      BY VectorIsAddress
    <2>2. \A x \in RomStart .. MaxOffset : x \in Memory
      BY <1>1, Numbers DEF Memory
    <2>3. v \in Memory /\ v + 1 \in Memory
      BY <1>1, <2>1, <2>2
    <2>4. W(v + 1) = v + 1
      <3>1. PICK M \in Nat : M = Alu!WordMod /\ \A x : x \in Word <=> x \in Nat /\ x < M
        BY Widths
      <3>2. v + 1 \in Nat /\ v + 1 < M
        BY <1>2, <2>3, <3>1
      <3>3. (v + 1) % M = v + 1
        BY <3>2
      <3>. QED
        BY <3>1, <3>3 DEF W
    <2>. QED
      BY <2>1, <2>3, <2>4
  <1>. QED
    BY <1>2, <1>3, <1>4, <1>5

\* Memory that is no port is read without an effect.
LEMMA MemoryRead ==
    ASSUME NEW m \in MachineRec, m.fault = "none", NEW a \in Memory
    PROVE  /\ ReadByte(m, a) = Value(m, m.ram[a]) /\ m.ram[a] \in Byte /\ m.ram[a] \in Word
           /\ W(a + 1) \in Memory =>
                 ReadWord(m, a) = Value(m, 256 * m.ram[a] + m.ram[W(a + 1)])
  <1>1. ASSUME NEW k \in MachineRec, NEW x \in Memory
        PROVE  ReadByte(k, x) = Value(k, k.ram[x]) /\ k.ram[x] \in Byte /\ k.ram[x] \in Word
    <2>1. ~(x > MaxOffset) /\ x # CharIn /\ x \notin OutputPorts /\ x \in Address
      BY Places DEF Memory
    <2>2. ReadByte(k, x) = Value(k, k.ram[x])
      BY <2>1 DEF ReadByte
    <2>3. k.ram[x] \in Byte
      BY <2>1, Fields
    <2>. QED
      BY <2>2, <2>3, BytesAreWords
  <1>2. ASSUME W(a + 1) \in Memory
        PROVE  ReadWord(m, a) = Value(m, 256 * m.ram[a] + m.ram[W(a + 1)])
    <2>. DEFINE b == W(a + 1)
                hi == ReadByte(m, a)
                lo == ReadByte(hi, b)
                w == 256 * m.ram[a] + m.ram[b]
    <2>1. hi = Value(m, m.ram[a]) /\ m.ram[a] \in Word
      BY <1>1
    <2>2. ReadWord(m, a) = Then(hi, Then(lo, Value(lo, 256 * hi.val + lo.val)))
      BY DEF ReadWord
    <2>. HIDE DEF hi, b
    <2>3. hi \in MachineRec /\ hi.val = m.ram[a] /\ hi.fault = "none" /\ hi.ram = m.ram
      BY <2>1, Returns DEF Value, MachineRec
    <2>4. lo = Value(hi, m.ram[b]) /\ m.ram[b] \in Word
      BY <1>1, <1>2, <2>3 DEF b
    <2>. HIDE DEF lo
    <2>5. lo.val = m.ram[b] /\ lo.fault = "none"
      BY <2>3, <2>4, Returns
    <2>6. ReadWord(m, a) = Value(lo, w)
      BY <2>2, <2>3, <2>5 DEF Then
    <2>7. \A x, y, z : Value(Value(Value(m, x), y), z) = Value(m, z)
      BY DEF Value, MachineRec
    <2>8. Value(lo, w) = Value(m, w)
      BY <2>1, <2>4, <2>7
    <2>. QED
      BY <2>6, <2>8 DEF b
  <1>. QED
    BY <1>1, <1>2

\* A byte written to memory that is neither a port nor the operating system.
LEMMA RamWritten ==
    ASSUME NEW m \in MachineRec, m.fault = "none", NEW a \in Ram, NEW v \in Byte
    PROVE  LET n == WriteByte(m, a, v)
           IN  /\ n \in MachineRec /\ n.fault = "none" /\ n.regs = m.regs /\ n.csrs = m.csrs
               /\ n.ram = [m.ram EXCEPT ![a] = v]
  <1>. DEFINE changes == Append(m.delta.ram, Change(a, m.ram[a], v))
              n == WriteByte(m, a, v)
  <1>1. ~(a > MaxOffset) /\ a # CharIn /\ a \notin OutputPorts /\ a \notin RomStart .. MaxOffset
    BY Places
  <1>2. n = [m EXCEPT !.ram = [m.ram EXCEPT ![a] = v], !.delta = [m.delta EXCEPT !.ram = changes]]
    BY <1>1 DEF WriteByte, MachineRec, StepDelta
  <1>3. n \in MachineRec
    BY Places, ByteWritten
  <1>. HIDE DEF changes, n
  <1>4. n.fault = "none" /\ n.regs = m.regs /\ n.csrs = m.csrs /\ n.ram = [m.ram EXCEPT ![a] = v]
    BY <1>2 DEF MachineRec
  <1>. QED
    BY <1>3, <1>4 DEF n

\* A word at two addresses, high byte first.
WordAt(m, a, b, w) == m.ram[a] = w \div 256 /\ m.ram[b] = w % 256

\* A word is pushed to two bytes of RAM, and no other byte changes.
LEMMA RamPushed ==
    ASSUME NEW m \in MachineRec, m.fault = "none", NEW a \in Ram, NEW b \in Ram, b = W(a + 1), a # b,
           NEW w \in Word
    PROVE  LET n == Push(m, a, w)
           IN  /\ n \in MachineRec /\ n.fault = "none" /\ n.regs = m.regs /\ n.csrs = m.csrs
               /\ WordAt(n, a, b, w) /\ \A x \in Address \ {a, b} : n.ram[x] = m.ram[x]
  <1>. DEFINE hi == WriteByte(m, a, w \div 256)
              lo == WriteByte(hi, b, w % 256)
  <1>1. w \div 256 \in Byte /\ w % 256 \in Byte
    BY BytesOfWord
  <1>2. /\ hi \in MachineRec /\ hi.fault = "none" /\ hi.regs = m.regs /\ hi.csrs = m.csrs
        /\ hi.ram = [m.ram EXCEPT ![a] = w \div 256]
    BY <1>1, RamWritten
  <1>3. Push(m, a, w) = lo
    BY <1>2 DEF Push, WriteWord, Then
  <1>. HIDE DEF hi
  <1>4. /\ lo \in MachineRec /\ lo.fault = "none" /\ lo.regs = m.regs /\ lo.csrs = m.csrs
        /\ lo.ram = [hi.ram EXCEPT ![b] = w % 256]
    BY <1>1, <1>2, RamWritten
  <1>. HIDE DEF lo
  <1>5. a \in Address /\ b \in Address
    BY Places DEF Memory
  <1>6. m.ram \in [Address -> Byte] /\ hi.ram \in [Address -> Byte]
    BY <1>2, Fields
  <1>7. WordAt(lo, a, b, w) /\ \A x \in Address \ {a, b} : lo.ram[x] = m.ram[x]
    <2>. PICK u, v : u = w \div 256 /\ v = w % 256
      OBVIOUS
    <2>. QED
      BY <1>2, <1>4, <1>5, <1>6 DEF WordAt
  <1>. QED
    BY <1>3, <1>4, <1>7

\* A word popped off memory ends up in its register, and memory keeps it.
LEMMA MemoryPopped ==
    ASSUME NEW m \in MachineRec, m.fault = "none", NEW a \in Memory, W(a + 1) \in Memory,
           NEW w \in Word, WordAt(m, a, W(a + 1), w), NEW r \in Registers
    PROVE  LET n == Pop(m, a, r)
           IN  /\ n \in MachineRec /\ n.fault = "none" /\ n.regs = [m.regs EXCEPT ![r] = w]
               /\ n.csrs = m.csrs /\ n.ram = m.ram
  <1>. DEFINE e == ReadWord(m, a)
              n == WriteRegister(e, r, e.val)
  <1>1. e = Value(m, w)
    <2>1. e = Value(m, 256 * m.ram[a] + m.ram[W(a + 1)])
      BY MemoryRead
    <2>2. 256 * m.ram[a] + m.ram[W(a + 1)] = w
      <3>1. 256 * (w \div 256) + (w % 256) = w
        BY BytesOfWord
      <3>. QED
        BY <3>1, Zenon DEF WordAt
    <2>. QED
      BY <2>1, <2>2
  <1>2. Pop(m, a, r) = Then(m, Then(e, n))
    BY DEF Pop
  <1>. HIDE DEF e
  <1>3. /\ e \in MachineRec /\ e.val = w /\ e.fault = "none"
        /\ e.regs = m.regs /\ e.csrs = m.csrs /\ e.ram = m.ram
    BY <1>1, Returns DEF Value, MachineRec
  <1>4. n \in MachineRec /\ n.fault = "none"
    BY <1>3, RegisterWritten
  <1>5. n.regs = [m.regs EXCEPT ![r] = w] /\ n.csrs = m.csrs /\ n.ram = m.ram
    BY <1>3 DEF WriteRegister, MachineRec
  <1>6. Pop(m, a, r) = n
    BY <1>2, <1>3 DEF Then
  <1>. QED
    BY <1>4, <1>5, <1>6

\* Packing the status bits into a byte loses none of them.
LEMMA StatusUnpacked ==
    ASSUME NEW m \in MachineRec, NEW e \in MachineRec
    PROVE  LET n == WritePackedNZVC(e, PackedNZVC(m))
           IN  /\ n \in MachineRec /\ n.fault = e.fault /\ n.regs = e.regs /\ n.ram = e.ram
               /\ n.csrs = m.csrs
  <1>. DEFINE bit(b) == IF m.csrs[b] THEN 1 ELSE 0
              v == PackedNZVC(m)
              csr == [N |-> (v \div 8) % 2 = 1, Z |-> (v \div 4) % 2 = 1,
                      V |-> (v \div 2) % 2 = 1, C |-> v % 2 = 1]
              Write(s, b) == WriteCsr(s, b, csr[b])
              c1 == Write(e, "N")
              c2 == Write(c1, "Z")
              c3 == Write(c2, "V")
              c4 == Write(c3, "C")
  <1>1. v = 8 * bit("N") + 4 * bit("Z") + 2 * bit("V") + bit("C")
    BY DEF PackedNZVC
  <1>2. \A n, z, o, c \in {0, 1} :
           LET w == 8 * n + 4 * z + 2 * o + c
           IN  /\ (w \div 8) % 2 = n /\ (w \div 4) % 2 = z /\ (w \div 2) % 2 = o /\ w % 2 = c
    OBVIOUS
  <1>3. m.csrs \in [Status -> BOOLEAN] /\ {"N", "Z", "V", "C"} \subseteq Status
    BY Fields DEF Status
  <1>4. /\ csr["N"] = m.csrs["N"] /\ csr["Z"] = m.csrs["Z"]
        /\ csr["V"] = m.csrs["V"] /\ csr["C"] = m.csrs["C"]
    <2>1. bit("N") \in {0, 1} /\ bit("Z") \in {0, 1} /\ bit("V") \in {0, 1} /\ bit("C") \in {0, 1}
      OBVIOUS
    <2>2. /\ (v \div 8) % 2 = bit("N") /\ (v \div 4) % 2 = bit("Z")
          /\ (v \div 2) % 2 = bit("V") /\ v % 2 = bit("C")
      <3>. HIDE DEF bit, v
      <3>. QED
        BY <1>1, <1>2, <2>1
    <2>. HIDE DEF v
    <2>. QED
      BY <1>3, <2>2
  <1>5. WritePackedNZVC(e, v) = c4
    BY DEF WritePackedNZVC, WriteStatus
  <1>6. ASSUME NEW s \in MachineRec, NEW b \in Status
        PROVE  /\ Write(s, b) \in MachineRec /\ Write(s, b).fault = s.fault
               /\ Write(s, b).regs = s.regs /\ Write(s, b).ram = s.ram
               /\ Write(s, b).csrs = [s.csrs EXCEPT ![b] = csr[b]]
    <2>1. csr[b] \in BOOLEAN
      <3>1. b = "N" \/ b = "Z" \/ b = "V" \/ b = "C"
        BY DEF Status
      <3>. HIDE DEF csr
      <3>. QED
        BY <1>3, <1>4, <3>1
    <2>. HIDE DEF csr
    <2>2. Write(s, b) \in MachineRec /\ Write(s, b).fault = s.fault
      BY <2>1, CsrWritten
    <2>3. /\ Write(s, b).regs = s.regs /\ Write(s, b).ram = s.ram
          /\ Write(s, b).csrs = [s.csrs EXCEPT ![b] = csr[b]]
      BY DEF WriteCsr, MachineRec
    <2>. QED
      BY <2>2, <2>3
  <1>. HIDE DEF Write, csr, v
  <1>7. /\ c1 \in MachineRec /\ c1.fault = e.fault /\ c1.regs = e.regs /\ c1.ram = e.ram
        /\ c1.csrs = [e.csrs EXCEPT !["N"] = csr["N"]]
    BY <1>3, <1>6
  <1>. HIDE DEF c1
  <1>8. /\ c2 \in MachineRec /\ c2.fault = e.fault /\ c2.regs = e.regs /\ c2.ram = e.ram
        /\ c2.csrs = [c1.csrs EXCEPT !["Z"] = csr["Z"]]
    BY <1>3, <1>6, <1>7
  <1>. HIDE DEF c2
  <1>9. /\ c3 \in MachineRec /\ c3.fault = e.fault /\ c3.regs = e.regs /\ c3.ram = e.ram
        /\ c3.csrs = [c2.csrs EXCEPT !["V"] = csr["V"]]
    BY <1>3, <1>6, <1>8
  <1>. HIDE DEF c3
  <1>10. /\ c4 \in MachineRec /\ c4.fault = e.fault /\ c4.regs = e.regs /\ c4.ram = e.ram
         /\ c4.csrs = [c3.csrs EXCEPT !["C"] = csr["C"]]
    BY <1>3, <1>6, <1>9
  <1>11. c4.csrs = m.csrs
    <2>1. e.csrs \in [Status -> BOOLEAN] /\ Status = {"N", "Z", "V", "C"}
      BY Fields DEF Status
    <2>2. c4.csrs \in [Status -> BOOLEAN]
      BY <1>10, Fields
    <2>3. \A b \in Status : c4.csrs[b] = m.csrs[b]
      BY <1>4, <1>7, <1>8, <1>9, <1>10, <2>1
    <2>. QED
      BY <1>3, <2>2, <2>3
  <1>. QED
    BY <1>5, <1>10, <1>11 DEF v

\* What a system call leaves of the machine m: the registers below the system stack and
\* the status bits unchanged.  a is the frame, a[n] the address n below its top.
Framed(m, a, n) ==
    /\ n \in MachineRec /\ n.fault = "none" /\ n.csrs = m.csrs
    /\ n.ram[a[10]] = PackedNZVC(m)
    /\ WordAt(n, a[9], a[8], m.regs.A) /\ WordAt(n, a[7], a[6], m.regs.X)
    /\ WordAt(n, a[5], a[4], m.regs.PC) /\ WordAt(n, a[3], a[2], m.regs.SP)

\* The ten bytes of the frame are different bytes of RAM, one after the other.
Frame(a) ==
    /\ a \in [1 .. 10 -> Ram] /\ \A i, j \in 1 .. 10 : i # j => a[i] # a[j]
    /\ \A i \in 2 .. 10 : W(a[i] + 1) = a[i - 1]
    /\ \A i \in 1 .. 9 : W(a[10] + i) = a[10 - i]

\* Ten addresses in RAM make a frame.
LEMMA FrameInRam ==
    ASSUME NEW top \in Word, \A n \in 1 .. 10 : W(top - n) \in Ram
    PROVE  Frame([n \in 1 .. 10 |-> W(top - n)])
  <1>. DEFINE a == [n \in 1 .. 10 |-> W(top - n)]
  <1>1. a \in [1 .. 10 -> Ram] /\ \A i, j \in 1 .. 10 : i # j => a[i] # a[j]
    BY Below
  <1>2. ASSUME NEW i \in 2 .. 10 PROVE W(a[i] + 1) = a[i - 1]
    <2>1. W(W(top - i) + 1) = W(top - (i - 1)) /\ i \in 1 .. 10 /\ i - 1 \in 1 .. 10
      BY Below
    <2>. QED
      BY <2>1
  <1>3. ASSUME NEW i \in 1 .. 9 PROVE W(a[10] + i) = a[10 - i]
    <2>1. W(W(top - 10) + i) = W(top - (10 - i)) /\ 10 - i \in 1 .. 10
      BY Below
    <2>. QED
      BY <2>1
  <1>. QED
    BY <1>1, <1>2, <1>3 DEF Frame

\* The machine m before its registers or its status bits were changed.
Alike(n, m) == n \in MachineRec /\ n.fault = "none" /\ n.regs = m.regs /\ n.csrs = m.csrs

\* The machines n and o have the same memory but for the bytes h and l.
SameBut(n, o, h, l) == \A x \in Address \ {h, l} : n.ram[x] = o.ram[x]

\* The two bytes of a word in the frame, the higher one first.
InFrame(a, h, l) == \E i \in {3, 5, 7, 9} : h = a[i] /\ l = a[i - 1]

\* The words of the frame are words in RAM.
LEMMA WordInFrame ==
    ASSUME NEW a, Frame(a), NEW h, NEW l, InFrame(a, h, l)
    PROVE  h \in Ram /\ l \in Ram /\ h \in Memory /\ l \in Memory /\ h # l /\ l = W(h + 1)
  <1>1. PICK i \in {3, 5, 7, 9} : h = a[i] /\ l = a[i - 1]
    BY DEF InFrame
  <1>2. i \in 2 .. 10 /\ i \in 1 .. 10 /\ i - 1 \in 1 .. 10 /\ i # i - 1
    OBVIOUS
  <1>. QED
    BY <1>1, <1>2, Places DEF Frame

\* A word pushed into the frame.
LEMMA FramePushed ==
    ASSUME NEW a, Frame(a), NEW h, NEW l, InFrame(a, h, l), NEW w \in Word,
           NEW m, NEW o, Alike(o, m), NEW n, n = Push(o, h, w)
    PROVE  /\ Alike(n, m) /\ WordAt(n, h, l, w) /\ SameBut(n, o, h, l)
  <1>1. h \in Ram /\ l \in Ram /\ h # l /\ l = W(h + 1)
    BY WordInFrame
  <1>2. o \in MachineRec /\ o.fault = "none" /\ o.regs = m.regs /\ o.csrs = m.csrs
    BY DEF Alike
  <1>3. LET k == Push(o, h, w)
        IN  /\ k \in MachineRec /\ k.fault = "none" /\ k.regs = o.regs /\ k.csrs = o.csrs
            /\ WordAt(k, h, l, w) /\ \A x \in Address \ {h, l} : k.ram[x] = o.ram[x]
    BY <1>1, <1>2, RamPushed
  <1>. QED
    BY <1>2, <1>3 DEF Alike, SameBut

\* A register popped off the frame.
LEMMA FramePopped ==
    ASSUME NEW a, Frame(a), NEW h, NEW l, InFrame(a, h, l), NEW w \in Word, NEW r \in Registers,
           NEW m \in MachineRec, m.fault = "none", WordAt(m, h, l, w), NEW n, n = Pop(m, h, r)
    PROVE  /\ n \in MachineRec /\ n.fault = "none" /\ n.regs = [m.regs EXCEPT ![r] = w]
           /\ n.csrs = m.csrs /\ n.ram = m.ram
  <1>1. h \in Memory /\ W(h + 1) \in Memory /\ l = W(h + 1)
    BY WordInFrame
  <1>2. WordAt(m, h, W(h + 1), w)
    BY <1>1
  <1>. QED
    BY <1>1, <1>2, MemoryPopped

\* What SCALL pushes, and where.
LEMMA CallFrames ==
    ASSUME NEW m \in MachineRec, m.fault = "none", NEW is \in Byte,
           NEW a, Frame(a),
           \A n \in 1 .. 10 : a[n] = W(ReadWord(m, Vector("SystemStack")).val - n)
    PROVE  Framed(m, a, SystemCall(m, is)) /\ SystemCall(m, is).regs["SP"] = a[10]
  <1>. DEFINE t == ReadWord(m, Vector("SystemStack"))
              c1 == WriteByte(t, W(t.val - 1), is)
              c3 == Push(c1, W(t.val - 3), m.regs.SP)
              c5 == Push(c3, W(t.val - 5), m.regs.PC)
              c7 == Push(c5, W(t.val - 7), m.regs.X)
              words == Push(c7, W(t.val - 9), m.regs.A)
              pushed == Then(words, WriteByte(words, W(t.val - 10), PackedNZVC(words)))
              entered == WriteRegister(pushed, "SP", W(t.val - 10))
              h == ReadWord(entered, Vector("TrapHandler"))
              done == WriteRegister(h, "PC", h.val)
  <1>1. SystemCall(m, is) = Then(t, Then(pushed, Then(h, done)))
    BY DEF SystemCall
  <1>2. /\ W(t.val - 1) = a[1] /\ W(t.val - 3) = a[3] /\ W(t.val - 5) = a[5]
        /\ W(t.val - 7) = a[7] /\ W(t.val - 9) = a[9] /\ W(t.val - 10) = a[10]
    <2>. HIDE DEF t
    <2>1. \A n \in 1 .. 10 : a[n] = W(t.val - n)
      BY DEF t
    <2>. QED
      BY <2>1
  <1>3. /\ a \in [1 .. 10 -> Ram] /\ \A i, j \in 1 .. 10 : i # j => a[i] # a[j]
        /\ \A i \in 1 .. 10 : a[i] \in Address /\ a[i] \in Ram /\ a[i] \in Memory /\ a[i] \in Word
        /\ a[2] = W(a[3] + 1) /\ a[4] = W(a[5] + 1) /\ a[6] = W(a[7] + 1) /\ a[8] = W(a[9] + 1)
    BY Places DEF Frame, Memory
  <1>4. /\ m.regs["SP"] \in Word /\ m.regs["PC"] \in Word /\ m.regs["X"] \in Word /\ m.regs["A"] \in Word
        /\ "SP" \in Registers /\ "PC" \in Registers
    BY RegistersAreWords
  <1>. /\ InFrame(a, a[3], a[2]) /\ InFrame(a, a[5], a[4])
       /\ InFrame(a, a[7], a[6]) /\ InFrame(a, a[9], a[8])
    BY DEF InFrame
  <1>5. Alike(t, m)
    <2>. DEFINE v == Vector("SystemStack")
    <2>1. v \in Memory /\ W(v + 1) \in Memory
      BY Places
    <2>2. t = Value(m, 256 * m.ram[v] + m.ram[W(v + 1)])
      BY <2>1, MemoryRead
    <2>3. t \in MachineRec
      BY VectorIsAddress, WordRead
    <2>. HIDE DEF t, v
    <2>. QED
      BY <2>2, <2>3 DEF Value, MachineRec, Alike
  <1>. HIDE DEF t
  <1>6. Alike(c1, m)
    <2>1. c1 = WriteByte(t, a[1], is) /\ a[1] \in Ram
      BY <1>2, <1>3
    <2>2. PICK x : x = a[1]
      OBVIOUS
    <2>3. c1 = WriteByte(t, x, is) /\ x \in Ram
      BY <2>1, <2>2
    <2>. HIDE DEF c1
    <2>. QED
      BY <1>5, <2>3, RamWritten DEF Alike
  <1>. HIDE DEF c1
  <1>7. Alike(c3, m) /\ WordAt(c3, a[3], a[2], m.regs["SP"])
    <2>1. c3 = Push(c1, a[3], m.regs["SP"])
      BY <1>2
    <2>. HIDE DEF c3
    <2>. QED
      BY <1>4, <1>6, <2>1, FramePushed
  <1>. HIDE DEF c3
  <1>8. Alike(c5, m) /\ WordAt(c5, a[5], a[4], m.regs["PC"]) /\ SameBut(c5, c3, a[5], a[4])
    <2>1. c5 = Push(c3, a[5], m.regs["PC"])
      BY <1>2
    <2>. HIDE DEF c5
    <2>. QED
      BY <1>4, <1>7, <2>1, FramePushed
  <1>. HIDE DEF c5
  <1>9. Alike(c7, m) /\ WordAt(c7, a[7], a[6], m.regs["X"]) /\ SameBut(c7, c5, a[7], a[6])
    <2>1. c7 = Push(c5, a[7], m.regs["X"])
      BY <1>2
    <2>. HIDE DEF c7
    <2>. QED
      BY <1>4, <1>8, <2>1, FramePushed
  <1>. HIDE DEF c7
  <1>10. /\ Alike(words, m) /\ WordAt(words, a[9], a[8], m.regs["A"])
         /\ SameBut(words, c7, a[9], a[8])
    <2>1. words = Push(c7, a[9], m.regs["A"])
      BY <1>2
    <2>. HIDE DEF words
    <2>. QED
      BY <1>4, <1>9, <2>1, FramePushed
  <1>. HIDE DEF words
  <1>11. Alike(pushed, m) /\ pushed.ram = [words.ram EXCEPT ![a[10]] = PackedNZVC(m)]
    <2>1. PackedNZVC(words) = PackedNZVC(m) /\ PackedNZVC(m) \in Byte
      BY <1>10, StatusPacked DEF PackedNZVC, Alike
    <2>2. pushed = WriteByte(words, a[10], PackedNZVC(m))
      BY <1>2, <1>10, <2>1 DEF Then, Alike
    <2>. QED
      BY <1>3, <1>10, <2>1, <2>2, RamWritten DEF Alike
  <1>. HIDE DEF pushed
  <1>12. /\ pushed.ram[a[10]] = PackedNZVC(m)
         /\ WordAt(pushed, a[9], a[8], m.regs["A"]) /\ WordAt(pushed, a[7], a[6], m.regs["X"])
         /\ WordAt(pushed, a[5], a[4], m.regs["PC"]) /\ WordAt(pushed, a[3], a[2], m.regs["SP"])
    <2>1. words.ram \in [Address -> Byte]
      BY <1>10, Fields DEF Alike
    <2>2. /\ pushed.ram[a[10]] = PackedNZVC(m)
          /\ \A i \in 1 .. 9 : pushed.ram[a[i]] = words.ram[a[i]]
      BY <1>3, <1>11, <2>1
    <2>3. \A i \in 1 .. 7 : words.ram[a[i]] = c7.ram[a[i]]
      BY <1>3, <1>10 DEF SameBut
    <2>4. \A i \in 1 .. 5 : c7.ram[a[i]] = c5.ram[a[i]]
      BY <1>3, <1>9 DEF SameBut
    <2>5. \A i \in 1 .. 3 : c5.ram[a[i]] = c3.ram[a[i]]
      BY <1>3, <1>8 DEF SameBut
    <2>6. WordAt(pushed, a[9], a[8], m.regs["A"])
      BY <1>10, <2>2 DEF WordAt
    <2>7. WordAt(pushed, a[7], a[6], m.regs["X"])
      BY <1>9, <2>2, <2>3 DEF WordAt
    <2>8. WordAt(pushed, a[5], a[4], m.regs["PC"])
      BY <1>8, <2>2, <2>3, <2>4 DEF WordAt
    <2>9. WordAt(pushed, a[3], a[2], m.regs["SP"])
      BY <1>7, <2>2, <2>3, <2>4, <2>5 DEF WordAt
    <2>. QED
      BY <2>2, <2>6, <2>7, <2>8, <2>9
  <1>13. /\ entered \in MachineRec /\ entered.fault = "none" /\ entered.csrs = m.csrs
         /\ entered.ram = pushed.ram /\ entered.regs = [m.regs EXCEPT !["SP"] = a[10]]
    <2>1. entered \in MachineRec /\ entered.fault = "none"
      <3>1. PICK w : w = W(t.val - 10)
        OBVIOUS
      <3>2. w \in Word
        BY <1>2, <1>3, <3>1
      <3>3. entered = WriteRegister(pushed, "SP", w)
        BY <3>1
      <3>. HIDE DEF entered
      <3>. QED
        BY <1>4, <1>11, <3>2, <3>3, RegisterWritten DEF Alike
    <2>2. /\ entered.csrs = m.csrs /\ entered.ram = pushed.ram
          /\ entered.regs = [m.regs EXCEPT !["SP"] = a[10]]
      BY <1>2, <1>11 DEF WriteRegister, MachineRec, Alike
    <2>. QED
      BY <2>1, <2>2
  <1>. HIDE DEF entered
  <1>14. /\ h \in MachineRec /\ h.fault = "none" /\ h.csrs = m.csrs
         /\ h.ram = pushed.ram /\ h.regs = entered.regs
    <2>. DEFINE v == Vector("TrapHandler")
    <2>1. v \in Memory /\ W(v + 1) \in Memory
      BY Places
    <2>2. h = Value(entered, 256 * entered.ram[v] + entered.ram[W(v + 1)])
      BY <1>13, <2>1, MemoryRead
    <2>3. h \in MachineRec
      BY <1>13, VectorIsAddress, WordRead
    <2>. HIDE DEF h, v
    <2>. QED
      BY <1>13, <2>2, <2>3 DEF Value, MachineRec
  <1>. HIDE DEF h
  <1>15. /\ done \in MachineRec /\ done.fault = "none" /\ done.csrs = m.csrs
         /\ done.ram = pushed.ram /\ done.regs["SP"] = a[10]
    <2>1. h.val \in Word
      BY <1>14, Fields
    <2>2. done \in MachineRec /\ done.fault = "none"
      BY <1>4, <1>14, <2>1, RegisterWritten
    <2>3. done.csrs = m.csrs /\ done.ram = pushed.ram /\ done.regs = [h.regs EXCEPT !["PC"] = h.val]
      BY <1>14 DEF WriteRegister, MachineRec
    <2>4. h.regs \in [Registers -> Word] /\ m.regs \in [Registers -> Word]
      BY <1>14, Fields
    <2>5. done.regs["SP"] = a[10]
      BY <1>4, <1>13, <1>14, <2>3, <2>4
    <2>. QED
      BY <2>2, <2>3, <2>5
  <1>. HIDE DEF done
  <1>16. SystemCall(m, is) = done
    BY <1>1, <1>5, <1>11, <1>14 DEF Then, Alike
  <1>. QED
    BY <1>12, <1>15, <1>16 DEF Framed, WordAt

\* SRET finds the frame again.
LEMMA ReturnUnframes ==
    ASSUME NEW m \in MachineRec, NEW a, Frame(a), NEW n, Framed(m, a, n), n.regs["SP"] = a[10]
    PROVE  LET back == SystemReturn(n)
           IN  /\ \A r \in {"A", "X", "SP", "PC"} : back.regs[r] = m.regs[r]
               /\ back.csrs = m.csrs
  <1>. DEFINE sp == n.regs.SP
              e == ReadByte(n, sp)
              flags == Then(e, WritePackedNZVC(e, e.val))
              d1 == Pop(flags, W(sp + 1), "A")
              d3 == Pop(d1, W(sp + 3), "X")
              d5 == Pop(d3, W(sp + 5), "PC")
              d7 == Pop(d5, W(sp + 7), "SP")
              Has(k) == /\ k \in MachineRec /\ k.fault = "none" /\ k.csrs = m.csrs
                        /\ WordAt(k, a[9], a[8], m.regs["A"]) /\ WordAt(k, a[7], a[6], m.regs["X"])
                        /\ WordAt(k, a[5], a[4], m.regs["PC"]) /\ WordAt(k, a[3], a[2], m.regs["SP"])
  <1>1. SystemReturn(n) = d7
    BY DEF SystemReturn
  <1>2. sp = a[10]
    OBVIOUS
  <1>3. /\ \A i \in 1 .. 10 : a[i] \in Memory
        /\ a[8] = W(a[9] + 1) /\ a[6] = W(a[7] + 1) /\ a[4] = W(a[5] + 1) /\ a[2] = W(a[3] + 1)
    BY Places DEF Frame
  <1>4. /\ m.regs["SP"] \in Word /\ m.regs["PC"] \in Word /\ m.regs["X"] \in Word /\ m.regs["A"] \in Word
        /\ "SP" \in Registers /\ "PC" \in Registers /\ "A" \in Registers /\ "X" \in Registers
    BY RegistersAreWords
  <1>. /\ InFrame(a, a[3], a[2]) /\ InFrame(a, a[5], a[4])
       /\ InFrame(a, a[7], a[6]) /\ InFrame(a, a[9], a[8])
    BY DEF InFrame
  <1>. HIDE DEF sp
  <1>5. W(sp + 1) = a[9] /\ W(sp + 3) = a[7] /\ W(sp + 5) = a[5] /\ W(sp + 7) = a[3]
    BY <1>2 DEF Frame
  <1>6. /\ e \in MachineRec /\ e.fault = "none" /\ e.val = PackedNZVC(m)
        /\ e.regs = n.regs /\ e.ram = n.ram
    <2>1. e = Value(n, n.ram[a[10]]) /\ n.ram[a[10]] \in Word
      BY <1>2, <1>3, MemoryRead DEF Framed
    <2>. HIDE DEF e
    <2>2. e \in MachineRec /\ e.fault = "none" /\ e.val = PackedNZVC(m)
      BY <2>1, Returns DEF Framed
    <2>3. e.regs = n.regs /\ e.ram = n.ram
      BY <2>1 DEF Framed, Value, MachineRec
    <2>. QED
      BY <2>2, <2>3
  <1>. HIDE DEF e
  <1>7. Has(flags)
    <2>. DEFINE k == WritePackedNZVC(e, PackedNZVC(m))
    <2>1. k \in MachineRec /\ k.fault = "none" /\ k.ram = n.ram /\ k.csrs = m.csrs
      BY <1>6, StatusUnpacked
    <2>2. flags = k
      BY <1>6 DEF Then
    <2>. HIDE DEF k, flags
    <2>. QED
      BY <2>1, <2>2 DEF Framed, WordAt
  <1>. HIDE DEF flags
  <1>8. \A k, l : Has(k) /\ l \in MachineRec /\ l.fault = "none" /\ l.csrs = k.csrs /\ l.ram = k.ram => Has(l)
    BY DEF WordAt
  <1>9. Has(d1) /\ d1.regs = [flags.regs EXCEPT !["A"] = m.regs["A"]]
    <2>1. /\ d1 \in MachineRec /\ d1.fault = "none" /\ d1.regs = [flags.regs EXCEPT !["A"] = m.regs["A"]]
          /\ d1.csrs = flags.csrs /\ d1.ram = flags.ram
      <3>1. d1 = Pop(flags, a[9], "A")
        BY <1>5
      <3>. HIDE DEF d1
      <3>. QED
        BY <1>4, <1>7, <3>1, FramePopped
    <2>. QED
      BY <1>7, <1>8, <2>1
  <1>. HIDE DEF d1
  <1>10. Has(d3) /\ d3.regs = [d1.regs EXCEPT !["X"] = m.regs["X"]]
    <2>1. /\ d3 \in MachineRec /\ d3.fault = "none" /\ d3.regs = [d1.regs EXCEPT !["X"] = m.regs["X"]]
          /\ d3.csrs = d1.csrs /\ d3.ram = d1.ram
      <3>1. d3 = Pop(d1, a[7], "X")
        BY <1>5
      <3>. HIDE DEF d3
      <3>. QED
        BY <1>4, <1>9, <3>1, FramePopped
    <2>. QED
      BY <1>8, <1>9, <2>1
  <1>. HIDE DEF d3
  <1>11. Has(d5) /\ d5.regs = [d3.regs EXCEPT !["PC"] = m.regs["PC"]]
    <2>1. /\ d5 \in MachineRec /\ d5.fault = "none" /\ d5.regs = [d3.regs EXCEPT !["PC"] = m.regs["PC"]]
          /\ d5.csrs = d3.csrs /\ d5.ram = d3.ram
      <3>1. d5 = Pop(d3, a[5], "PC")
        BY <1>5
      <3>. HIDE DEF d5
      <3>. QED
        BY <1>4, <1>10, <3>1, FramePopped
    <2>. QED
      BY <1>8, <1>10, <2>1
  <1>. HIDE DEF d5
  <1>12. Has(d7) /\ d7.regs = [d5.regs EXCEPT !["SP"] = m.regs["SP"]]
    <2>1. /\ d7 \in MachineRec /\ d7.fault = "none" /\ d7.regs = [d5.regs EXCEPT !["SP"] = m.regs["SP"]]
          /\ d7.csrs = d5.csrs /\ d7.ram = d5.ram
      <3>1. d7 = Pop(d5, a[3], "SP")
        BY <1>5
      <3>. HIDE DEF d7
      <3>. QED
        BY <1>4, <1>11, <3>1, FramePopped
    <2>. QED
      BY <1>8, <1>11, <2>1
  <1>. HIDE DEF d7
  <1>13. /\ flags.regs \in [Registers -> Word] /\ d1.regs \in [Registers -> Word]
         /\ d3.regs \in [Registers -> Word] /\ d5.regs \in [Registers -> Word]
    BY <1>7, <1>9, <1>10, <1>11, Fields
  <1>14. /\ d7.regs["A"] = m.regs["A"] /\ d7.regs["X"] = m.regs["X"]
         /\ d7.regs["PC"] = m.regs["PC"] /\ d7.regs["SP"] = m.regs["SP"]
    BY <1>4, <1>9, <1>10, <1>11, <1>12, <1>13
  <1>. QED
    BY <1>1, <1>12, <1>14

\* From every reachable state, whatever its registers, its memory and its stack, SRET
\* takes back what a system call did to the processor.
THEOREM SystemCallsRoundTrip == MachineSpec => []SystemCallRoundTrip
  <1>1. MachineTypeOK => SystemCallRoundTrip
    <2>. DEFINE m == Machine
                top == ReadWord(m, Vector("SystemStack")).val
                a == [n \in 1 .. 10 |-> W(top - n)]
                back == SystemReturn(SystemCall(m, 7))
    <2>. SUFFICES ASSUME MachineTypeOK, \A n \in 1 .. 10 : W(top - n) \in Ram
                  PROVE  /\ \A r \in {"A", "X", "SP", "PC"} : back.regs[r] = regs[r]
                         /\ back.csrs = csrs
      BY DEF SystemCallRoundTrip, Ram
    <2>1. m \in MachineRec /\ m.fault = "none" /\ m.regs = regs /\ m.csrs = csrs
      BY MachineTyped DEF Machine
    <2>2. 7 \in Byte
      BY Widths
    <2>3. top \in Word
      <3>. HIDE DEF m
      <3>1. ReadWord(m, Vector("SystemStack")) \in MachineRec
        BY <2>1, VectorIsAddress, WordRead
      <3>. QED
        BY <3>1, Fields
    <2>. HIDE DEF m
    <2>4. Frame(a)
      <3>. HIDE DEF top
      <3>. QED
        BY <2>3, FrameInRam
    <2>5. Framed(m, a, SystemCall(m, 7)) /\ SystemCall(m, 7).regs["SP"] = a[10]
      <3>1. \A n \in 1 .. 10 : a[n] = W(ReadWord(m, Vector("SystemStack")).val - n)
        OBVIOUS
      <3>. HIDE DEF a
      <3>. QED
        BY <2>1, <2>2, <2>4, <3>1, CallFrames
    <2>. HIDE DEF a
    <2>. QED
      BY <2>1, <2>4, <2>5, ReturnUnframes
  <1>. QED
    BY <1>1, MachineTypeCorrect, PTL

-----------------------------------------------------------------------------
(***************************************************************************)
(* The history of the machine: the delta of a completed instruction leads  *)
(* from the state before it to the state after it and back, and a failed   *)
(* instruction is unwound.  An instruction assigns to registers, status    *)
(* bits, memory and ports one after the other, and its delta records the   *)
(* assignments; so the argument is about loops of assignments first, then  *)
(* about each access, then, by ExecutedIn, about every instruction.        *)
(***************************************************************************)

(***************************************************************************)
(* Undoing and redoing: loops of assignments.                              *)
(***************************************************************************)

\* U goes from b through n assignments.
Assigns(U, n, I, V, b, at_, val) ==
    /\ n \in Nat /\ b \in [I -> V] /\ at_ \in [1 .. n -> I]
    /\ U[0] = b /\ \A i \in 1 .. n : U[i] = [U[i - 1] EXCEPT ![at_[i]] = val[i]]
    /\ \A i \in 0 .. n : U[i] \in [I -> V]

Assigning(g, n, b, at_, val) == g = [i \in 0 .. n |-> IF i = 0 THEN b ELSE [g[i - 1] EXCEPT ![at_[i]] = val[i]]]

\* n assignments, as a recursive function.
LEMMA AssignsExist ==
    ASSUME NEW I, NEW V, NEW n \in Nat, NEW b \in [I -> V], NEW at_ \in [1 .. n -> I], NEW val \in [1 .. n -> V]
    PROVE  \E g : Assigning(g, n, b, at_, val)
  <1>. DEFINE op == [i \in 1 .. n |-> [f \in [I -> V] |-> [f EXCEPT ![at_[i]] = val[i]]]]
  <1>1. op \in [1 .. n -> [[I -> V] -> [I -> V]]]
    <2>1. \A i \in 1 .. n : op[i] \in [[I -> V] -> [I -> V]]
      OBVIOUS
    <2>. QED
      BY <2>1
  <1>2. PICK g \in [0 .. n -> [I -> V]] : Loop(n, b, op, g)
    <2>. HIDE DEF op
    <2>. QED
      BY <1>1, LoopExists
  <1>3. ASSUME NEW i \in 0 .. n
        PROVE  g[i] = IF i = 0 THEN b ELSE [g[i - 1] EXCEPT ![at_[i]] = val[i]]
    <2>1. g[i] = IF i = 0 THEN b ELSE op[i][g[i - 1]]
      <3>. HIDE DEF op
      <3>. QED
        BY <1>2 DEF Loop
    <2>2. CASE i # 0
      <3>1. i \in 1 .. n /\ g[i - 1] \in [I -> V]
        BY <1>2, <2>2
      <3>2. op[i][g[i - 1]] = [g[i - 1] EXCEPT ![at_[i]] = val[i]]
        BY <3>1
      <3>. QED
        BY <2>1, <2>2, <3>2
    <2>. QED
      BY <2>1, <2>2
  <1>4. g = [i \in 0 .. n |-> g[i]]
    BY <1>2
  <1>5. Assigning(g, n, b, at_, val)
    BY <1>3, <1>4, Zenon DEF Assigning
  <1>. QED
    BY <1>5

\* Its values.
LEMMA AssignsTyped ==
    ASSUME NEW I, NEW V, NEW n \in Nat, NEW b \in [I -> V], NEW at_ \in [1 .. n -> I], NEW val \in [1 .. n -> V],
           NEW U, Assigning(U, n, b, at_, val)
    PROVE  Assigns(U, n, I, V, b, at_, val)
  <1>1. U[0] = b /\ \A i \in 1 .. n : U[i] = [U[i - 1] EXCEPT ![at_[i]] = val[i]]
    <2>1. \A i \in 0 .. n : U[i] = IF i = 0 THEN b ELSE [U[i - 1] EXCEPT ![at_[i]] = val[i]]
      BY Zenon DEF Assigning
    <2>2. 0 \in 0 .. n /\ \A i \in 1 .. n : i \in 0 .. n /\ i # 0
      OBVIOUS
    <2>. QED
      BY <2>1, <2>2, Zenon
  <1>. DEFINE G == {i \in 0 .. n : U[i] \in [I -> V]}
  <1>2. 0 \in G
    BY <1>1
  <1>3. ASSUME NEW i \in 1 .. n, i - 1 \in G
        PROVE  i \in G
    <2>1. U[i] = [U[i - 1] EXCEPT ![at_[i]] = val[i]]
      BY <1>1
    <2>2. U[i - 1] \in [I -> V] /\ i \in 0 .. n
      BY <1>3
    <2>3. U[i] \in [I -> V]
      BY <2>1, <2>2
    <2>. QED
      BY <2>2, <2>3
  <1>4. 0 .. n \subseteq G
    <2>. HIDE DEF G
    <2>. QED
      BY <1>2, <1>3, Upwards
  <1>. QED
    BY <1>1, <1>4 DEF Assigns

\* What assignments leave at x depends on what was there, and on nothing else.
LEMMA AssignsAgree ==
    ASSUME NEW I, NEW V, NEW n, NEW at_, NEW val,
           NEW b, NEW U, Assigns(U, n, I, V, b, at_, val),
           NEW c, NEW T, Assigns(T, n, I, V, c, at_, val),
           NEW x, x \in I, b[x] = c[x]
    PROVE  U[n][x] = T[n][x]
  <1>0. n \in Nat
    BY DEF Assigns
  <1>. DEFINE G == {i \in 0 .. n : U[i][x] = T[i][x]}
  <1>1. 0 \in G
    BY <1>0 DEF Assigns
  <1>2. ASSUME NEW i \in 1 .. n, i - 1 \in G
        PROVE  i \in G
    <2>1. U[i] = [U[i - 1] EXCEPT ![at_[i]] = val[i]] /\ T[i] = [T[i - 1] EXCEPT ![at_[i]] = val[i]]
      BY DEF Assigns
    <2>2. U[i - 1] \in [I -> V] /\ T[i - 1] \in [I -> V] /\ U[i - 1][x] = T[i - 1][x] /\ i \in 0 .. n
      BY <1>2 DEF Assigns
    <2>. QED
      BY <2>1, <2>2
  <1>3. 0 .. n \subseteq G
    <2>. HIDE DEF G
    <2>. QED
      BY <1>0, <1>1, <1>2, Upwards
  <1>. QED
    BY <1>0, <1>3

\* Where nothing is assigned, nothing changes.
LEMMA AssignsElsewhere ==
    ASSUME NEW I, NEW V, NEW n, NEW at_, NEW val,
           NEW b, NEW U, Assigns(U, n, I, V, b, at_, val),
           NEW x, x \in I, \A i \in 1 .. n : at_[i] # x
    PROVE  U[n][x] = b[x]
  <1>0. n \in Nat
    BY DEF Assigns
  <1>. DEFINE G == {i \in 0 .. n : U[i][x] = b[x]}
  <1>1. 0 \in G
    BY <1>0 DEF Assigns
  <1>2. ASSUME NEW i \in 1 .. n, i - 1 \in G
        PROVE  i \in G
    <2>1. U[i] = [U[i - 1] EXCEPT ![at_[i]] = val[i]]
      BY DEF Assigns
    <2>2. U[i - 1] \in [I -> V] /\ U[i - 1][x] = b[x] /\ i \in 0 .. n /\ at_[i] # x
      BY <1>2 DEF Assigns
    <2>. QED
      BY <2>1, <2>2
  <1>3. 0 .. n \subseteq G
    <2>. HIDE DEF G
    <2>. QED
      BY <1>0, <1>1, <1>2, Upwards
  <1>. QED
    BY <1>0, <1>3

\* One more assignment.
Next(n, m) == m = n + 1
Updated(g, f, i, v) == g = [f EXCEPT ![i] = v]
AlikeTo(n, f, g) == \A i \in 1 .. n : f[i] = g[i]

LEMMA AssignsAppend ==
    ASSUME NEW I, NEW V, NEW n, NEW m, Next(n, m), NEW at_, NEW val,
           NEW b, NEW U, Assigns(U, m, I, V, b, at_, val),
           NEW T, NEW at0, NEW val0, Assigns(T, n, I, V, b, at0, val0),
           AlikeTo(n, at0, at_), AlikeTo(n, val0, val)
    PROVE  Updated(U[m], T[n], at_[m], val[m])
  <1>0. n \in Nat
    BY DEF Assigns
  <1>. DEFINE G == {i \in 0 .. n : U[i] = T[i]}
  <1>1. 0 \in G
    BY <1>0 DEF Assigns
  <1>2. ASSUME NEW i \in 1 .. n, i - 1 \in G
        PROVE  i \in G
    <2>1. U[i] = [U[i - 1] EXCEPT ![at_[i]] = val[i]] /\ T[i] = [T[i - 1] EXCEPT ![at0[i]] = val0[i]]
          /\ at0[i] = at_[i] /\ val0[i] = val[i]
      <3>1. U[i] = [U[i - 1] EXCEPT ![at_[i]] = val[i]]
        BY <1>0 DEF Assigns, Next
      <3>2. T[i] = [T[i - 1] EXCEPT ![at0[i]] = val0[i]]
        BY DEF Assigns
      <3>3. at0[i] = at_[i] /\ val0[i] = val[i]
        BY DEF AlikeTo
      <3>. QED
        BY <3>1, <3>2, <3>3
    <2>. QED
      BY <1>2, <2>1
  <1>3. 0 .. n \subseteq G
    <2>. HIDE DEF G
    <2>. QED
      BY <1>0, <1>1, <1>2, Upwards
  <1>4. U[n] = T[n]
    BY <1>0, <1>3
  <1>5. U[m] = [U[n] EXCEPT ![at_[m]] = val[m]]
    <2>1. m \in 1 .. m /\ m - 1 = n
      BY <1>0 DEF Next
    <2>. QED
      BY <2>1 DEF Assigns
  <1>. QED
    BY <1>4, <1>5 DEF Updated

\* A block of storage, and the changes of one.
Block(b, I, V) == b \in [I -> V]
Changes(c, I, V) == c \in Seq(ChangeOf(I, V))

\* Where the changes of a delta are, and what was and what came there.
Ats(c) == [i \in 1 .. Len(c) |-> c[i].at]
Olds(c) == [i \in 1 .. Len(c) |-> c[i].old]
News(c) == [i \in 1 .. Len(c) |-> c[i].new]

\* A change of a delta.
LEMMA ChangesTyped ==
    ASSUME NEW I, NEW V, NEW c, Changes(c, I, V)
    PROVE  /\ Len(c) \in Nat
           /\ Ats(c) \in [1 .. Len(c) -> I] /\ Olds(c) \in [1 .. Len(c) -> V] /\ News(c) \in [1 .. Len(c) -> V]
           /\ \A i \in 1 .. Len(c) : Ats(c)[i] = c[i].at /\ Olds(c)[i] = c[i].old /\ News(c)[i] = c[i].new
  <1>1. Len(c) \in Nat
    BY LenProperties DEF Changes
  <1>2. ASSUME NEW i \in 1 .. Len(c) PROVE c[i].at \in I /\ c[i].old \in V /\ c[i].new \in V
    <2>1. c[i] \in ChangeOf(I, V)
      BY ElementOfSeq DEF Changes
    <2>. QED
      BY <2>1 DEF ChangeOf
  <1>. QED
    BY <1>1, <1>2 DEF Ats, Olds, News

\* Undo and Redo are such loops.
LEMMA UndoLoop ==
    ASSUME NEW I, NEW V, NEW b, Block(b, I, V), NEW c, Changes(c, I, V)
    PROVE  \E U : /\ Undo(b, c) = U[Len(c)] /\ Assigns(U, Len(c), I, V, b, Ats(c), Olds(c))
  <1>. DEFINE n == Len(c)
              Is(g) == g = [i \in 0 .. n |-> IF i = 0 THEN b ELSE [g[i - 1] EXCEPT ![c[i].at] = c[i].old]]
              Does(g) == Assigning(g, n, b, Ats(c), Olds(c))
              U == CHOOSE g : Is(g)
  <1>1. n \in Nat /\ Ats(c) \in [1 .. n -> I] /\ Olds(c) \in [1 .. n -> V]
    BY ChangesTyped
  <1>. HIDE DEF U
  <1>2. Undo(b, c) = U[n]
    BY DEF Undo, U
  <1>3. ASSUME NEW g PROVE Is(g) <=> Does(g)
    <2>1. ASSUME NEW i \in 0 .. n
          PROVE  (IF i = 0 THEN b ELSE [g[i - 1] EXCEPT ![c[i].at] = c[i].old])
                 = (IF i = 0 THEN b ELSE [g[i - 1] EXCEPT ![Ats(c)[i]] = Olds(c)[i]])
      <3>1. i # 0 => i \in 1 .. n
        BY <1>1
      <3>2. i # 0 => Ats(c)[i] = c[i].at /\ Olds(c)[i] = c[i].old
        BY <3>1, ChangesTyped
      <3>. QED
        BY <3>2
    <2>. QED
      BY <2>1, Zenon DEF Assigning
  <1>. HIDE DEF n
  <1>4. \E g : Does(g)
    BY <1>1, AssignsExist DEF Block
  <1>5. Does(U)
    <2>. HIDE DEF Is, Does
    <2>. QED
      BY <1>3, <1>4 DEF U
  <1>6. Assigns(U, n, I, V, b, Ats(c), Olds(c))
    BY <1>1, <1>5, AssignsTyped DEF Block
  <1>. QED
    BY <1>2, <1>6 DEF n

\* Redoing goes through the new values.
LEMMA RedoLoop ==
    ASSUME NEW I, NEW V, NEW b, Block(b, I, V), NEW c, Changes(c, I, V)
    PROVE  \E U : /\ Redo(b, c) = U[Len(c)] /\ Assigns(U, Len(c), I, V, b, Ats(c), News(c))
  <1>. DEFINE n == Len(c)
              Is(g) == g = [i \in 0 .. n |-> IF i = 0 THEN b ELSE [g[i - 1] EXCEPT ![c[i].at] = c[i].new]]
              Does(g) == Assigning(g, n, b, Ats(c), News(c))
              U == CHOOSE g : Is(g)
  <1>1. n \in Nat /\ Ats(c) \in [1 .. n -> I] /\ News(c) \in [1 .. n -> V]
    BY ChangesTyped
  <1>. HIDE DEF U
  <1>2. Redo(b, c) = U[n]
    BY DEF Redo, U
  <1>3. ASSUME NEW g PROVE Is(g) <=> Does(g)
    <2>1. ASSUME NEW i \in 0 .. n
          PROVE  (IF i = 0 THEN b ELSE [g[i - 1] EXCEPT ![c[i].at] = c[i].new])
                 = (IF i = 0 THEN b ELSE [g[i - 1] EXCEPT ![Ats(c)[i]] = News(c)[i]])
      <3>1. i # 0 => i \in 1 .. n
        BY <1>1
      <3>2. i # 0 => Ats(c)[i] = c[i].at /\ News(c)[i] = c[i].new
        BY <3>1, ChangesTyped
      <3>. QED
        BY <3>2
    <2>. QED
      BY <2>1, Zenon DEF Assigning
  <1>. HIDE DEF n
  <1>4. \E g : Does(g)
    BY <1>1, AssignsExist DEF Block
  <1>5. Does(U)
    <2>. HIDE DEF Is, Does
    <2>. QED
      BY <1>3, <1>4 DEF U
  <1>6. Assigns(U, n, I, V, b, Ats(c), News(c))
    BY <1>1, <1>5, AssignsTyped DEF Block
  <1>. QED
    BY <1>2, <1>6 DEF n

\* One more change is undone, and redone, last.
LEMMA LastUndone ==
    ASSUME NEW I, NEW V, NEW b, Block(b, I, V), NEW c, Changes(c, I, V), NEW ch \in ChangeOf(I, V)
    PROVE  Undo(b, Append(c, ch)) = [Undo(b, c) EXCEPT ![ch.at] = ch.old]
  <1>. DEFINE n == Len(c)
              d == Append(c, ch)
  <1>1. /\ Changes(d, I, V) /\ Len(d) = n + 1 /\ d[n + 1] = ch /\ n \in Nat
        /\ \A i \in 1 .. n : d[i] = c[i]
    BY AppendProperties, LenProperties DEF Changes
  <1>. HIDE DEF d
  <1>0. Changes(d, I, V)
    BY <1>1
  <1>2. PICK U : /\ Undo(b, d) = U[Len(d)] /\ Assigns(U, Len(d), I, V, b, Ats(d), Olds(d))
    BY <1>1, UndoLoop
  <1>3. PICK T : /\ Undo(b, c) = T[n] /\ Assigns(T, n, I, V, b, Ats(c), Olds(c))
    BY UndoLoop
  <1>4. \A i \in 1 .. Len(d) : Ats(d)[i] = d[i].at /\ Olds(d)[i] = d[i].old
    BY DEF Ats, Olds
  <1>5. \A i \in 1 .. n : Ats(c)[i] = c[i].at /\ Olds(c)[i] = c[i].old
    BY ChangesTyped
  <1>. HIDE DEF n
  <1>6. \A i \in 1 .. n : i \in 1 .. Len(d)
    BY <1>1
  <1>7. AlikeTo(n, Ats(c), Ats(d)) /\ AlikeTo(n, Olds(c), Olds(d))
    BY <1>1, <1>4, <1>5, <1>6 DEF AlikeTo
  <1>8. Next(n, Len(d))
    BY <1>1 DEF Next
  <1>9. Updated(U[Len(d)], T[n], Ats(d)[Len(d)], Olds(d)[Len(d)])
    BY <1>2, <1>3, <1>7, <1>8, AssignsAppend
  <1>10. Len(d) \in 1 .. Len(d) /\ d[Len(d)] = ch
    BY <1>1
  <1>. QED
    BY <1>1, <1>2, <1>3, <1>4, <1>9, <1>10 DEF d, Updated

\* The same of redoing.
LEMMA LastRedone ==
    ASSUME NEW I, NEW V, NEW b, Block(b, I, V), NEW c, Changes(c, I, V), NEW ch \in ChangeOf(I, V)
    PROVE  Redo(b, Append(c, ch)) = [Redo(b, c) EXCEPT ![ch.at] = ch.new]
  <1>. DEFINE n == Len(c)
              d == Append(c, ch)
  <1>1. /\ Changes(d, I, V) /\ Len(d) = n + 1 /\ d[n + 1] = ch /\ n \in Nat
        /\ \A i \in 1 .. n : d[i] = c[i]
    BY AppendProperties, LenProperties DEF Changes
  <1>. HIDE DEF d
  <1>0. Changes(d, I, V)
    BY <1>1
  <1>2. PICK U : /\ Redo(b, d) = U[Len(d)] /\ Assigns(U, Len(d), I, V, b, Ats(d), News(d))
    BY <1>1, RedoLoop
  <1>3. PICK T : /\ Redo(b, c) = T[n] /\ Assigns(T, n, I, V, b, Ats(c), News(c))
    BY RedoLoop
  <1>4. \A i \in 1 .. Len(d) : Ats(d)[i] = d[i].at /\ News(d)[i] = d[i].new
    BY DEF Ats, News
  <1>5. \A i \in 1 .. n : Ats(c)[i] = c[i].at /\ News(c)[i] = c[i].new
    BY ChangesTyped
  <1>. HIDE DEF n
  <1>6. \A i \in 1 .. n : i \in 1 .. Len(d)
    BY <1>1
  <1>7. AlikeTo(n, Ats(c), Ats(d)) /\ AlikeTo(n, News(c), News(d))
    BY <1>1, <1>4, <1>5, <1>6 DEF AlikeTo
  <1>8. Next(n, Len(d))
    BY <1>1 DEF Next
  <1>9. Updated(U[Len(d)], T[n], Ats(d)[Len(d)], News(d)[Len(d)])
    BY <1>2, <1>3, <1>7, <1>8, AssignsAppend
  <1>10. Len(d) \in 1 .. Len(d) /\ d[Len(d)] = ch
    BY <1>1
  <1>. QED
    BY <1>1, <1>2, <1>3, <1>4, <1>9, <1>10 DEF d, Updated

\* Every place is undone and redone for itself.
LEMMA PlaceByPlace ==
    ASSUME NEW I, NEW V, NEW b, Block(b, I, V), NEW c, Block(c, I, V), NEW d, Changes(d, I, V),
           NEW x \in I, b[x] = c[x]
    PROVE  Undo(b, d)[x] = Undo(c, d)[x] /\ Redo(b, d)[x] = Redo(c, d)[x]
  <1>1. Len(d) \in Nat /\ Ats(d) \in [1 .. Len(d) -> I]
    BY ChangesTyped
  <1>2. Undo(b, d)[x] = Undo(c, d)[x]
    <2>1. PICK U : /\ Undo(b, d) = U[Len(d)] /\ Assigns(U, Len(d), I, V, b, Ats(d), Olds(d))
      BY UndoLoop
    <2>2. PICK T : /\ Undo(c, d) = T[Len(d)] /\ Assigns(T, Len(d), I, V, c, Ats(d), Olds(d))
      BY UndoLoop
    <2>3. U[Len(d)][x] = T[Len(d)][x]
      BY <1>1, <2>1, <2>2, AssignsAgree
    <2>. QED
      BY <2>1, <2>2, <2>3
  <1>3. Redo(b, d)[x] = Redo(c, d)[x]
    <2>1. PICK U : /\ Redo(b, d) = U[Len(d)] /\ Assigns(U, Len(d), I, V, b, Ats(d), News(d))
      BY RedoLoop
    <2>2. PICK T : /\ Redo(c, d) = T[Len(d)] /\ Assigns(T, Len(d), I, V, c, Ats(d), News(d))
      BY RedoLoop
    <2>3. U[Len(d)][x] = T[Len(d)][x]
      BY <1>1, <2>1, <2>2, AssignsAgree
    <2>. QED
      BY <2>1, <2>2, <2>3
  <1>. QED
    BY <1>2, <1>3

\* The places a delta changes.
Changed(c) == {c[i].at : i \in 1 .. Len(c)}

\* The others stay as they are.
LEMMA UndoneElsewhere ==
    ASSUME NEW I, NEW V, NEW b, Block(b, I, V), NEW d, Changes(d, I, V), NEW x \in I, x \notin Changed(d)
    PROVE  Undo(b, d)[x] = b[x]
  <1>1. Len(d) \in Nat /\ Ats(d) \in [1 .. Len(d) -> I] /\ \A i \in 1 .. Len(d) : Ats(d)[i] # x
    BY ChangesTyped DEF Changed
  <1>2. PICK U : /\ Undo(b, d) = U[Len(d)] /\ Assigns(U, Len(d), I, V, b, Ats(d), Olds(d))
    BY UndoLoop
  <1>. QED
    BY <1>1, <1>2, AssignsElsewhere

\* Redoing leaves a block too.
LEMMA Redone ==
    ASSUME NEW I, NEW V, NEW b, Block(b, I, V), NEW c, Changes(c, I, V)
    PROVE  Block(Redo(b, c), I, V)
  <1>1. Len(c) \in 0 .. Len(c)
    BY ChangesTyped
  <1>2. PICK U : Redo(b, c) = U[Len(c)] /\ Assigns(U, Len(c), I, V, b, Ats(c), News(c))
    BY RedoLoop
  <1>. QED
    BY <1>1, <1>2 DEF Assigns, Block

\* No changes change nothing.
LEMMA NothingToDo ==
    ASSUME NEW I, NEW V, NEW b, Block(b, I, V)
    PROVE  Undo(b, << >>) = b /\ Redo(b, << >>) = b /\ Changed(<< >>) = {}
  <1>1. Changes(<< >>, I, V) /\ Len(<< >>) = 0 /\ 1 .. 0 = {}
    BY DEF Changes
  <1>2. Undo(b, << >>) = b
    BY <1>1, UndoLoop DEF Assigns
  <1>3. Redo(b, << >>) = b
    BY <1>1, RedoLoop DEF Assigns
  <1>. QED
    BY <1>1, <1>2, <1>3 DEF Changed

\* What a delta changes, with one more change.
LEMMA ChangedMore ==
    ASSUME NEW I, NEW V, NEW c, Changes(c, I, V), NEW ch \in ChangeOf(I, V)
    PROVE  Changed(Append(c, ch)) = Changed(c) \cup {ch.at}
  <1>. DEFINE n == Len(c)
              d == Append(c, ch)
  <1>1. /\ Len(d) = n + 1 /\ d[n + 1] = ch /\ n \in Nat
        /\ \A i \in 1 .. n : d[i] = c[i]
    BY AppendProperties, LenProperties DEF Changes
  <1>. HIDE DEF d, n
  <1>2. 1 .. n + 1 = (1 .. n) \cup {n + 1}
    BY <1>1
  <1>. QED
    BY <1>1, <1>2 DEF Changed, d, n

\* A recorded change: the delta still leads from b to the block, redone.
LEMMA ChangeReplays ==
    ASSUME NEW I, NEW V, NEW b, Block(b, I, V), NEW f, Block(f, I, V), NEW c, Changes(c, I, V),
           Redo(b, c) = f, NEW i \in I, NEW v \in V
    PROVE  Redo(b, Append(c, Change(i, f[i], v))) = [f EXCEPT ![i] = v]
  <1>1. Change(i, f[i], v) \in ChangeOf(I, V) /\ Change(i, f[i], v).at = i /\ Change(i, f[i], v).new = v
    BY DEF Change, ChangeOf, Block
  <1>. QED
    BY <1>1, LastRedone

\* A delta that a block has already been through can be redone over it.
LEMMA ChangeStays ==
    ASSUME NEW I, NEW V, NEW f, Block(f, I, V), NEW c, Changes(c, I, V),
           Redo(f, c) = f, NEW i \in I, NEW v \in V
    PROVE  Redo([f EXCEPT ![i] = v], Append(c, Change(i, f[i], v))) = [f EXCEPT ![i] = v]
  <1>0. PICK g : g = [f EXCEPT ![i] = v]
    OBVIOUS
  <1>1. Change(i, f[i], v) \in ChangeOf(I, V) /\ Change(i, f[i], v).at = i /\ Change(i, f[i], v).new = v
    BY DEF Change, ChangeOf, Block
  <1>2. Block(g, I, V)
    BY <1>0 DEF Block
  <1>3. Redo(g, Append(c, Change(i, f[i], v))) = [Redo(g, c) EXCEPT ![i] = v]
    BY <1>1, <1>2, LastRedone
  <1>4. \A x \in I \ {i} : Redo(g, c)[x] = g[x]
    <2>1. TAKE x \in I \ {i}
    <2>2. g[x] = f[x] /\ x \in I
      BY <1>0 DEF Block
    <2>3. Redo(g, c)[x] = Redo(f, c)[x]
      BY <1>2, <2>2, PlaceByPlace
    <2>. QED
      BY <2>2, <2>3
  <1>5. Block(Redo(g, c), I, V)
    BY <1>2, Redone
  <1>. QED
    BY <1>0, <1>2, <1>3, <1>4, <1>5 DEF Block

\* A recorded change of a place not changed before: undone, the block is what it was.
LEMMA ChangeUndoes ==
    ASSUME NEW I, NEW V, NEW f, Block(f, I, V), NEW c, Changes(c, I, V),
           NEW i \in I, NEW v \in V, NEW x \in I, x = i => i \notin Changed(c)
    PROVE  Undo([f EXCEPT ![i] = v], Append(c, Change(i, f[i], v)))[x] = Undo(f, c)[x]
  <1>1. Change(i, f[i], v) \in ChangeOf(I, V) /\ Change(i, f[i], v).at = i /\ Change(i, f[i], v).old = f[i]
    BY DEF Change, ChangeOf, Block
  <1>0. PICK g : g = [f EXCEPT ![i] = v]
    OBVIOUS
  <1>2. Block(g, I, V)
    BY <1>0 DEF Block
  <1>3. Undo(g, Append(c, Change(i, f[i], v))) = [Undo(g, c) EXCEPT ![i] = f[i]] /\ Block(Undo(g, c), I, V)
    <2>1. PICK ch : ch = Change(i, f[i], v)
      OBVIOUS
    <2>2. Undo(g, Append(c, ch)) = [Undo(g, c) EXCEPT ![ch.at] = ch.old]
      BY <1>1, <1>2, <2>1, LastUndone
    <2>3. Block(Undo(g, c), I, V)
      BY <1>2, Undone DEF Block, Changes
    <2>. QED
      BY <1>1, <2>1, <2>2, <2>3
  <1>4. CASE x = i
    <2>1. Undo(f, c)[i] = f[i]
      BY <1>4, UndoneElsewhere
    <2>. QED
      BY <1>0, <1>3, <1>4, <2>1 DEF Block
  <1>5. CASE x # i
    <2>1. g[x] = f[x]
      BY <1>0, <1>5 DEF Block
    <2>2. Undo(g, c)[x] = Undo(f, c)[x]
      BY <1>2, <2>1, PlaceByPlace
    <2>. QED
      BY <1>0, <1>3, <1>5, <2>2 DEF Block
  <1>. QED
    BY <1>4, <1>5

(***************************************************************************)
(* What the delta of an instruction says of the machine o it began at.     *)
(***************************************************************************)

\* The delta c leads from block b to block f, and f has been through it.
Tracked(b, f, c) == Redo(b, c) = f /\ Redo(f, c) = f

\* Undone, the delta leads from f back to b at the places X.
Restores(b, f, c, X) == \A x \in X : Undo(f, c)[x] = b[x]

\* Without its last n values, the log l is k.
Shortens(k, l, n) == n <= Len(l) /\ SubSeq(l, 1, Len(l) - n) = k

\* One more change is tracked, and can be undone if it is the first of its place.
LEMMA TrackedMore ==
    ASSUME NEW I, NEW V, NEW b, Block(b, I, V), NEW f, Block(f, I, V), NEW c, Changes(c, I, V),
           NEW i \in I, NEW v \in V
    PROVE  /\ Tracked(b, f, c) => Tracked(b, [f EXCEPT ![i] = v], Append(c, Change(i, f[i], v)))
           /\ Redo(b, c) = f => Redo(b, Append(c, Change(i, f[i], v))) = [f EXCEPT ![i] = v]
           /\ \A X \in SUBSET I : Restores(b, f, c, X) /\ (i \in X => i \notin Changed(c))
                 => Restores(b, [f EXCEPT ![i] = v], Append(c, Change(i, f[i], v)), X)
           /\ Changed(Append(c, Change(i, f[i], v))) = Changed(c) \cup {i}
  <1>1. Redo(b, c) = f => Redo(b, Append(c, Change(i, f[i], v))) = [f EXCEPT ![i] = v]
    BY ChangeReplays
  <1>2. Redo(f, c) = f => Redo([f EXCEPT ![i] = v], Append(c, Change(i, f[i], v))) = [f EXCEPT ![i] = v]
    BY ChangeStays
  <1>3. ASSUME NEW X \in SUBSET I, Restores(b, f, c, X), i \in X => i \notin Changed(c)
        PROVE  Restores(b, [f EXCEPT ![i] = v], Append(c, Change(i, f[i], v)), X)
    <2>1. ASSUME NEW x \in X
          PROVE  Undo([f EXCEPT ![i] = v], Append(c, Change(i, f[i], v)))[x] = b[x]
      <3>1. x \in I /\ (x = i => i \notin Changed(c)) /\ Undo(f, c)[x] = b[x]
        BY <1>3 DEF Restores
      <3>2. Undo([f EXCEPT ![i] = v], Append(c, Change(i, f[i], v)))[x] = Undo(f, c)[x]
        BY <3>1, ChangeUndoes
      <3>. QED
        BY <3>1, <3>2
    <2>. QED
      BY <2>1 DEF Restores
  <1>4. Changed(Append(c, Change(i, f[i], v))) = Changed(c) \cup {i}
    <2>1. Change(i, f[i], v) \in ChangeOf(I, V) /\ Change(i, f[i], v).at = i
      BY DEF Change, ChangeOf, Block
    <2>. QED
      BY <2>1, ChangedMore
  <1>. QED
    BY <1>1, <1>2, <1>3, <1>4 DEF Tracked

\* What a call leaves alone.
SameRegs(n, m) == n.regs = m.regs /\ n.delta.regs = m.delta.regs
SameCsrs(n, m) == n.csrs = m.csrs /\ n.delta.csrs = m.delta.csrs
SameRam(n, m) == n.ram = m.ram /\ n.delta.ram = m.delta.ram
SameLog(n, m) == n.log = m.log /\ n.delta.writes = m.delta.writes
SameReads(n, m) == n.at = m.at /\ n.delta.reads = m.delta.reads

\* What the calls change.
LEMMA RegisterChanges ==
    ASSUME NEW m \in MachineRec, NEW r \in Registers, NEW v \in Word, NEW n, n = WriteRegister(m, r, v)
    PROVE  /\ n.regs = [m.regs EXCEPT ![r] = v] /\ n.delta.regs = Append(m.delta.regs, Change(r, m.regs[r], v))
           /\ SameCsrs(n, m) /\ SameRam(n, m) /\ SameLog(n, m) /\ SameReads(n, m) /\ n.fault = m.fault
  BY DEF WriteRegister, MachineRec, StepDelta, SameCsrs, SameRam, SameLog, SameReads

\* A status bit.
LEMMA CsrChanges ==
    ASSUME NEW m \in MachineRec, NEW b \in Status, NEW v \in BOOLEAN, NEW n, n = WriteCsr(m, b, v)
    PROVE  /\ n.csrs = [m.csrs EXCEPT ![b] = v] /\ n.delta.csrs = Append(m.delta.csrs, Change(b, m.csrs[b], v))
           /\ SameRegs(n, m) /\ SameRam(n, m) /\ SameLog(n, m) /\ SameReads(n, m) /\ n.fault = m.fault
  BY DEF WriteCsr, MachineRec, StepDelta, SameRegs, SameRam, SameLog, SameReads

\* A value or an error is returned.
LEMMA ReturnChanges ==
    ASSUME NEW m \in MachineRec, NEW v, NEW f
    PROVE  /\ \A n \in {Value(m, v), Fail(m, f)} :
                 SameRegs(n, m) /\ SameCsrs(n, m) /\ SameRam(n, m) /\ SameLog(n, m) /\ SameReads(n, m)
           /\ Value(m, v).fault = m.fault /\ Fail(m, f).fault = f
  BY DEF Value, Fail, MachineRec, SameRegs, SameCsrs, SameRam, SameLog, SameReads

\* A byte is read: an input port counts the read and moves on.
LEMMA ReadChanges ==
    ASSUME NEW m \in MachineRec, NEW a \in Word, NEW n, n = ReadByte(m, a)
    PROVE  /\ SameRegs(n, m) /\ SameCsrs(n, m) /\ SameRam(n, m) /\ SameLog(n, m)
           /\ n.fault = "none" => m.fault = "none" /\ n.at - m.at = n.delta.reads - m.delta.reads
  <1>0. m.at \in Int /\ m.delta.reads \in Int
    <2>1. m.at \in {Stale} \cup 0 .. Len(input) /\ m.delta.reads \in Nat
      BY Fields
    <2>. QED
      BY <2>1 DEF Stale
  <1>1. CASE n = Fail(m, "OOBRead")
    BY <1>1, ReturnChanges
  <1>2. CASE n = ReadInput(m)
    <2>. DEFINE counted == [m EXCEPT !.delta.reads = @ + 1]
                read == (<<0>> \o m.input)[m.at + 2]
                moved == [counted EXCEPT !.at = @ + 1, !.val = read]
    <2>1. n = IF m.at = Len(m.input) THEN Fail(counted, "NoMMInput") ELSE moved
      BY <1>2 DEF ReadInput
    <2>2. /\ SameRegs(counted, m) /\ SameCsrs(counted, m) /\ SameRam(counted, m) /\ SameLog(counted, m)
          /\ counted.fault = m.fault /\ counted.at = m.at /\ counted.delta.reads = m.delta.reads + 1
      BY DEF MachineRec, StepDelta, SameRegs, SameCsrs, SameRam, SameLog
    <2>3. Fail(counted, "NoMMInput").fault = "NoMMInput"
      BY DEF Fail, MachineRec
    <2>4. \A x \in {Fail(counted, "NoMMInput"), moved} :
             SameRegs(x, counted) /\ SameCsrs(x, counted) /\ SameRam(x, counted) /\ SameLog(x, counted)
      BY DEF Fail, MachineRec, SameRegs, SameCsrs, SameRam, SameLog
    <2>5. moved.fault = counted.fault /\ moved.at = counted.at + 1 /\ moved.delta = counted.delta
      BY DEF MachineRec
    <2>. HIDE DEF moved, counted
    <2>6. CASE n = Fail(counted, "NoMMInput")
      BY <2>2, <2>3, <2>4, <2>6 DEF SameRegs, SameCsrs, SameRam, SameLog
    <2>7. CASE n = moved
      <3>1. SameRegs(n, m) /\ SameCsrs(n, m) /\ SameRam(n, m) /\ SameLog(n, m)
        BY <2>2, <2>4, <2>7 DEF SameRegs, SameCsrs, SameRam, SameLog
      <3>2. n.fault = m.fault /\ n.at = m.at + 1 /\ n.delta.reads = m.delta.reads + 1
        BY <2>2, <2>5, <2>7
      <3>3. n.at - m.at = n.delta.reads - m.delta.reads
        BY <1>0, <3>2
      <3>. QED
        BY <3>1, <3>2, <3>3
    <2>. QED
      BY <2>1, <2>6, <2>7
  <1>3. ASSUME NEW v, n = Value(m, v)
        PROVE  /\ SameRegs(n, m) /\ SameCsrs(n, m) /\ SameRam(n, m) /\ SameLog(n, m)
               /\ n.fault = "none" => m.fault = "none" /\ n.at - m.at = n.delta.reads - m.delta.reads
    <2>1. SameRegs(n, m) /\ SameCsrs(n, m) /\ SameRam(n, m) /\ SameLog(n, m) /\ SameReads(n, m) /\ n.fault = m.fault
      BY <1>3, ReturnChanges
    <2>. QED
      BY <1>0, <2>1 DEF SameReads
  <1>4. n \in {Fail(m, "OOBRead"), ReadInput(m), Value(m, m.cache[a]), Value(m, m.ram[a])}
    BY Numbers, BytesAreWords DEF ReadByte
  <1>. QED
    BY <1>1, <1>2, <1>3, <1>4

\* A byte is written: it fails or is ignored, goes to a port's log, or to memory.
Written(n, m, a, v) ==
    \/ SameRam(n, m) /\ SameLog(n, m)
    \/ /\ SameRam(n, m) /\ a \in OutputPorts /\ n.log = [m.log EXCEPT ![a] = Append(m.log[a], v)]
       /\ n.delta.writes = [m.delta.writes EXCEPT ![a] = m.delta.writes[a] + 1]
    \/ /\ SameLog(n, m) /\ a \in Address /\ n.ram = [m.ram EXCEPT ![a] = v]
       /\ n.delta.ram = Append(m.delta.ram, Change(a, m.ram[a], v))

\* The call.
LEMMA WriteChanges ==
    ASSUME NEW m \in MachineRec, NEW a \in Word, NEW v \in Byte, NEW n, n = WriteByte(m, a, v)
    PROVE  /\ SameRegs(n, m) /\ SameCsrs(n, m) /\ SameReads(n, m) /\ (n.fault = "none" => m.fault = "none")
           /\ Written(n, m, a, v)
  <1>1. CASE n \in {Fail(m, "OOBWrite"), Fail(m, "Unwritable")}
    BY <1>1, ReturnChanges DEF Written
  <1>2. CASE n = m
    BY <1>2 DEF Written, SameRegs, SameCsrs, SameReads, SameRam, SameLog
  <1>3. CASE a \in OutputPorts /\ n = [m EXCEPT !.log[a] = Append(@, v), !.cache[a] = v, !.delta.writes[a] = @ + 1]
    <2>1. PICK k, l, w : /\ k = [m.cache EXCEPT ![a] = v] /\ l = [m.log EXCEPT ![a] = Append(m.log[a], v)]
                         /\ w = [m.delta.writes EXCEPT ![a] = m.delta.writes[a] + 1]
      OBVIOUS
    <2>2. PICK d : d = [m.delta EXCEPT !.writes = w]
      OBVIOUS
    <2>3. n = [m EXCEPT !.log = l, !.cache = k, !.delta = d]
      BY <1>3, <2>1, <2>2 DEF MachineRec, StepDelta
    <2>4. n.log = l /\ n.delta = d /\ SameReads(n, m) /\ SameRegs(n, m) /\ SameCsrs(n, m) /\ SameRam(n, m) /\ n.fault = m.fault
      BY <2>2, <2>3 DEF MachineRec, StepDelta, SameReads, SameRegs, SameCsrs, SameRam
    <2>5. d.writes = w
      BY <2>2 DEF MachineRec, StepDelta
    <2>. QED
      BY <1>3, <2>1, <2>4, <2>5 DEF Written
  <1>4. CASE a \in Address /\ n = [m EXCEPT !.ram[a] = v, !.delta.ram = Append(@, Change(a, m.ram[a], v))]
    BY <1>4 DEF Written, SameRegs, SameCsrs, SameReads, SameLog, MachineRec, StepDelta
  <1>5. /\ a \in Nat /\ MaxOffset \in Nat /\ (~(a > MaxOffset) => a \in Address)
        /\ a > MaxOffset => a # CharIn /\ a \notin OutputPorts /\ a \notin RomStart .. MaxOffset
    BY Numbers, BytesAreWords
  <1>6. \/ n \in {Fail(m, "OOBWrite"), Fail(m, "Unwritable")} \/ n = m
        \/ a \in OutputPorts /\ n = [m EXCEPT !.log[a] = Append(@, v), !.cache[a] = v, !.delta.writes[a] = @ + 1]
        \/ a \in Address /\ n = [m EXCEPT !.ram[a] = v, !.delta.ram = Append(@, Change(a, m.ram[a], v))]
    BY <1>5 DEF WriteByte
  <1>. QED
    BY <1>1, <1>2, <1>3, <1>4, <1>6

\* The delta leads forward from o to m.
Replaying(o, m) ==
    /\ Tracked(o.regs, m.regs, m.delta.regs) /\ Tracked(o.csrs, m.csrs, m.delta.csrs)
    /\ Redo(o.ram, o.delta.ram) = o.ram => Redo(o.ram, m.delta.ram) = m.ram
    /\ m.fault = "none" => m.at - o.at = m.delta.reads - o.delta.reads

\* It leads back to the memory and the logs of o,
MemoryBack(o, m) ==
    /\ Restores(o.ram, m.ram, m.delta.ram, Address)
    /\ \A p \in OutputPorts : Shortens(o.log[p], m.log[p], m.delta.writes[p])

\* and to its registers, but PC, and status bits.
RegistersBack(o, m) ==
    /\ Restores(o.regs, m.regs, m.delta.regs, Registers \ {"PC"})
    /\ Restores(o.csrs, m.csrs, m.delta.csrs, Status)

\* At the end of an instruction that has completed N is left out too.
NearlyBack(o, m) ==
    /\ Restores(o.regs, m.regs, m.delta.regs, Registers \ {"PC"})
    /\ Restores(o.csrs, m.csrs, m.delta.csrs, Status \ {"N"})

\* The instruction has changed no registers and status bits but R, and no addresses but S.
Only(m, R, S) ==
    /\ Changed(m.delta.regs) \subseteq R \cup {"PC"} /\ Changed(m.delta.csrs) \subseteq R
    /\ Changed(m.delta.ram) \subseteq S

\* Machines in an instruction that began at o: while it may still fail, and at its end.
Early(o, R, S) ==
    {m \in MachineRec :
        /\ Replaying(o, m)
        /\ o.delta = NoDelta => MemoryBack(o, m) /\ RegistersBack(o, m) /\ Only(m, R, S)}

Late(o) ==
    {m \in MachineRec :
        /\ Replaying(o, m)
        /\ o.delta = NoDelta =>
              MemoryBack(o, m) /\ NearlyBack(o, m) /\ (m.fault # "none" => RegistersBack(o, m))}

EarlySets(o) == [R \in SUBSET Names |-> [S \in SUBSET Word |-> Early(o, R, S)]]

\* The blocks of a machine and their changes.
LEMMA Blocks ==
    ASSUME NEW m \in MachineRec
    PROVE  /\ Block(m.regs, Registers, Word) /\ Changes(m.delta.regs, Registers, Word)
           /\ Block(m.csrs, Status, BOOLEAN) /\ Changes(m.delta.csrs, Status, BOOLEAN)
           /\ Block(m.ram, Address, Byte) /\ Changes(m.delta.ram, Address, Byte)
  BY Fields DEF Block, Changes

\* A call that changes no block and no log.
LEMMA NothingWritten ==
    ASSUME NEW o \in MachineRec, NEW m \in MachineRec, NEW n \in MachineRec,
           SameRegs(n, m), SameCsrs(n, m), SameRam(n, m), SameLog(n, m),
           n.fault = "none" => m.fault = "none" /\ n.at - m.at = n.delta.reads - m.delta.reads
    PROVE  /\ Replaying(o, m) => Replaying(o, n)
           /\ MemoryBack(o, m) => MemoryBack(o, n)
           /\ RegistersBack(o, m) => RegistersBack(o, n)
           /\ \A R, S : Only(m, R, S) => Only(n, R, S)
  <1>1. Replaying(o, m) => Replaying(o, n)
    <2>. SUFFICES ASSUME Replaying(o, m) PROVE Replaying(o, n)
      OBVIOUS
    <2>1. n.fault = "none" => n.at - o.at = n.delta.reads - o.delta.reads
      <3>1. \A x \in {o, m, n} : x.at \in Int /\ x.delta.reads \in Int
        BY Fields DEF Stale
      <3>2. m.fault = "none" => m.at - o.at = m.delta.reads - o.delta.reads
        BY DEF Replaying
      <3>3. PICK i \in Int, j \in Int, k \in Int, a \in Int, b \in Int, c \in Int :
               /\ i = o.at /\ j = m.at /\ k = n.at
               /\ a = o.delta.reads /\ b = m.delta.reads /\ c = n.delta.reads
        BY <3>1
      <3>4. j - i = b - a /\ k - j = c - b => k - i = c - a
        OBVIOUS
      <3>. QED
        BY <3>2, <3>3, <3>4
    <2>. QED
      BY <2>1 DEF Replaying, SameRegs, SameCsrs, SameRam
  <1>2. MemoryBack(o, m) => MemoryBack(o, n)
    BY DEF MemoryBack, SameRam, SameLog
  <1>3. RegistersBack(o, m) => RegistersBack(o, n)
    BY DEF RegistersBack, SameRegs, SameCsrs
  <1>4. \A R, S : Only(m, R, S) => Only(n, R, S)
    BY DEF Only, SameRegs, SameCsrs, SameRam
  <1>. QED
    BY <1>1, <1>2, <1>3, <1>4

\* Values are returned and bytes are read: machines stay where they are.
LEMMA EarlyReads ==
    ASSUME NEW o \in MachineRec, NEW R \in SUBSET Names, NEW S \in SUBSET Word
    PROVE  Reads(Early(o, R, S))
  <1>1. ASSUME NEW m \in Early(o, R, S), NEW n \in MachineRec,
               SameRegs(n, m), SameCsrs(n, m), SameRam(n, m), SameLog(n, m),
               n.fault = "none" => m.fault = "none" /\ n.at - m.at = n.delta.reads - m.delta.reads
        PROVE  n \in Early(o, R, S)
    <2>1. m \in MachineRec
      BY DEF Early
    <2>. QED
      BY <1>1, <2>1, NothingWritten DEF Early
  <1>2. ASSUME NEW m \in Early(o, R, S), NEW n \in MachineRec,
               SameRegs(n, m), SameCsrs(n, m), SameRam(n, m), SameLog(n, m), SameReads(n, m),
               n.fault = "none" => m.fault = "none"
        PROVE  n \in Early(o, R, S)
    <2>1. m.at \in Int /\ m.delta.reads \in Int
      BY Fields DEF Early, Stale
    <2>. QED
      BY <1>1, <1>2, <2>1 DEF SameReads
  <1>3. ASSUME NEW m \in Early(o, R, S), NEW v \in Word
        PROVE  Value(m, v) \in Early(o, R, S)
    <2>1. m \in MachineRec
      BY DEF Early
    <2>2. Value(m, v) \in MachineRec
      BY <2>1, Returns
    <2>3. PICK n : n = Value(m, v)
      OBVIOUS
    <2>4. SameRegs(n, m) /\ SameCsrs(n, m) /\ SameRam(n, m) /\ SameLog(n, m) /\ SameReads(n, m) /\ n.fault = m.fault
      BY <2>1, <2>3, ReturnChanges
    <2>. QED
      BY <1>2, <2>2, <2>3, <2>4
  <1>4. ASSUME NEW m \in Early(o, R, S), NEW f \in Faults \ {"none"}
        PROVE  Fail(m, f) \in Early(o, R, S)
    <2>1. m \in MachineRec
      BY DEF Early
    <2>2. Fail(m, f) \in MachineRec
      BY <2>1, Returns
    <2>3. PICK n : n = Fail(m, f)
      OBVIOUS
    <2>4. SameRegs(n, m) /\ SameCsrs(n, m) /\ SameRam(n, m) /\ SameLog(n, m) /\ SameReads(n, m) /\ n.fault # "none"
      BY <2>1, <2>3, ReturnChanges
    <2>. QED
      BY <1>2, <2>2, <2>3, <2>4
  <1>5. ASSUME NEW m \in Early(o, R, S), NEW a \in Word
        PROVE  ReadByte(m, a) \in Early(o, R, S)
    <2>1. m \in MachineRec
      BY DEF Early
    <2>2. ReadByte(m, a) \in MachineRec
      BY <2>1, ByteRead
    <2>3. PICK n : n = ReadByte(m, a)
      OBVIOUS
    <2>4. /\ SameRegs(n, m) /\ SameCsrs(n, m) /\ SameRam(n, m) /\ SameLog(n, m)
          /\ n.fault = "none" => m.fault = "none" /\ n.at - m.at = n.delta.reads - m.delta.reads
      BY <2>1, <2>3, ReadChanges
    <2>. QED
      BY <1>1, <2>2, <2>3, <2>4
  <1>6. Early(o, R, S) \subseteq MachineRec
    BY DEF Early
  <1>. QED
    BY <1>3, <1>4, <1>5, <1>6 DEF Reads

\* A register is written.
LEMMA RegisterTracked ==
    ASSUME NEW o \in MachineRec, NEW m \in MachineRec, NEW r \in Registers, NEW v \in Word
    PROVE  LET n == WriteRegister(m, r, v)
           IN  /\ Replaying(o, m) => Replaying(o, n)
               /\ MemoryBack(o, m) => MemoryBack(o, n)
               /\ \A R, S : Only(m, R, S) => Only(n, R \cup {r}, S)
               /\ \A R, S : Only(m, R, S) /\ r \notin R \ {"PC"} /\ RegistersBack(o, m) => RegistersBack(o, n)
  <1>1. PICK n : n = WriteRegister(m, r, v)
    OBVIOUS
  <1>2. /\ n.regs = [m.regs EXCEPT ![r] = v] /\ n.delta.regs = Append(m.delta.regs, Change(r, m.regs[r], v))
        /\ SameCsrs(n, m) /\ SameRam(n, m) /\ SameLog(n, m) /\ SameReads(n, m) /\ n.fault = m.fault
    BY <1>1, RegisterChanges
  <1>3. /\ Tracked(o.regs, m.regs, m.delta.regs) => Tracked(o.regs, n.regs, n.delta.regs)
        /\ \A X \in SUBSET Registers :
              Restores(o.regs, m.regs, m.delta.regs, X) /\ (r \in X => r \notin Changed(m.delta.regs))
              => Restores(o.regs, n.regs, n.delta.regs, X)
        /\ Changed(n.delta.regs) = Changed(m.delta.regs) \cup {r}
    BY <1>2, Blocks, TrackedMore
  <1>4. Replaying(o, m) => Replaying(o, n)
    BY <1>2, <1>3 DEF Replaying, SameCsrs, SameRam, SameReads
  <1>5. MemoryBack(o, m) => MemoryBack(o, n)
    BY <1>2 DEF MemoryBack, SameRam, SameLog
  <1>6. \A R, S : Only(m, R, S) => Only(n, R \cup {r}, S)
    BY <1>2, <1>3 DEF Only, SameCsrs, SameRam
  <1>7. ASSUME NEW R, NEW S, Only(m, R, S), r \notin R \ {"PC"}, RegistersBack(o, m)
        PROVE  RegistersBack(o, n)
    <2>1. r \in Registers \ {"PC"} => r \notin Changed(m.delta.regs)
      BY <1>7 DEF Only
    <2>2. Restores(o.regs, n.regs, n.delta.regs, Registers \ {"PC"})
      BY <1>3, <1>7, <2>1 DEF RegistersBack
    <2>. QED
      BY <1>2, <1>7, <2>2 DEF RegistersBack, SameCsrs
  <1>. QED
    BY <1>1, <1>4, <1>5, <1>6, <1>7

\* A status bit is.
LEMMA CsrTracked ==
    ASSUME NEW o \in MachineRec, NEW m \in MachineRec, NEW b \in Status, NEW v \in BOOLEAN
    PROVE  LET n == WriteCsr(m, b, v)
           IN  /\ Replaying(o, m) => Replaying(o, n)
               /\ MemoryBack(o, m) => MemoryBack(o, n)
               /\ \A R, S : Only(m, R, S) => Only(n, R \cup {b}, S)
               /\ \A R, S : Only(m, R, S) /\ b \notin R /\ RegistersBack(o, m) => RegistersBack(o, n)
               /\ b = "N" /\ RegistersBack(o, m) => NearlyBack(o, n)
  <1>1. PICK n : n = WriteCsr(m, b, v)
    OBVIOUS
  <1>2. /\ n.csrs = [m.csrs EXCEPT ![b] = v] /\ n.delta.csrs = Append(m.delta.csrs, Change(b, m.csrs[b], v))
        /\ SameRegs(n, m) /\ SameRam(n, m) /\ SameLog(n, m) /\ SameReads(n, m) /\ n.fault = m.fault
    BY <1>1, CsrChanges
  <1>3. /\ Tracked(o.csrs, m.csrs, m.delta.csrs) => Tracked(o.csrs, n.csrs, n.delta.csrs)
        /\ \A X \in SUBSET Status :
              Restores(o.csrs, m.csrs, m.delta.csrs, X) /\ (b \in X => b \notin Changed(m.delta.csrs))
              => Restores(o.csrs, n.csrs, n.delta.csrs, X)
        /\ Changed(n.delta.csrs) = Changed(m.delta.csrs) \cup {b}
    <2>1. PICK V, w : V = BOOLEAN /\ w = v /\ w \in V
      OBVIOUS
    <2>2. Block(o.csrs, Status, V) /\ Block(m.csrs, Status, V) /\ Changes(m.delta.csrs, Status, V)
      BY <2>1, Blocks
    <2>3. n.csrs = [m.csrs EXCEPT ![b] = w] /\ n.delta.csrs = Append(m.delta.csrs, Change(b, m.csrs[b], w))
      BY <1>2, <2>1
    <2>. QED
      BY <2>1, <2>2, <2>3, TrackedMore
  <1>4. Replaying(o, m) => Replaying(o, n)
    BY <1>2, <1>3 DEF Replaying, SameRegs, SameRam, SameReads
  <1>5. MemoryBack(o, m) => MemoryBack(o, n)
    BY <1>2 DEF MemoryBack, SameRam, SameLog
  <1>6. \A R, S : Only(m, R, S) => Only(n, R \cup {b}, S)
    BY <1>2, <1>3 DEF Only, SameRegs, SameRam
  <1>7. ASSUME NEW R, NEW S, Only(m, R, S), b \notin R, RegistersBack(o, m)
        PROVE  RegistersBack(o, n)
    <2>1. b \notin Changed(m.delta.csrs)
      BY <1>7 DEF Only
    <2>2. Restores(o.csrs, n.csrs, n.delta.csrs, Status)
      BY <1>3, <1>7, <2>1 DEF RegistersBack
    <2>. QED
      BY <1>2, <1>7, <2>2 DEF RegistersBack, SameRegs
  <1>8. ASSUME b = "N", RegistersBack(o, m)
        PROVE  NearlyBack(o, n)
    <2>1. Restores(o.csrs, m.csrs, m.delta.csrs, Status \ {"N"}) /\ b \notin Status \ {"N"}
      BY <1>8 DEF RegistersBack, Restores
    <2>2. Restores(o.csrs, n.csrs, n.delta.csrs, Status \ {"N"})
      BY <1>3, <2>1
    <2>. QED
      BY <1>2, <1>8, <2>2 DEF RegistersBack, NearlyBack, SameRegs
  <1>. QED
    BY <1>1, <1>4, <1>5, <1>6, <1>7, <1>8

\* One more value is logged, and counted.
LEMMA LogShortens ==
    ASSUME NEW l \in Seq(Byte), NEW k, NEW n \in Nat, NEW v \in Byte, Shortens(k, l, n)
    PROVE  Shortens(k, Append(l, v), n + 1)
  <1>. DEFINE e == Append(l, v)
  <1>1. Len(l) \in Nat /\ Len(e) = Len(l) + 1 /\ e \in Seq(Byte) /\ \A i \in 1 .. Len(l) : e[i] = l[i]
    BY AppendProperties, LenProperties
  <1>2. n <= Len(l) /\ SubSeq(l, 1, Len(l) - n) = k
    BY DEF Shortens
  <1>. HIDE DEF e
  <1>3. PICK j \in Nat : j = Len(l) - n /\ j <= Len(l) /\ Len(e) - (n + 1) = j
    BY <1>1, <1>2
  <1>4. SubSeq(e, 1, j) = SubSeq(l, 1, j)
    <2>1. /\ SubSeq(e, 1, j) = [i \in 1 .. j |-> e[i]] /\ SubSeq(l, 1, j) = [i \in 1 .. j |-> l[i]]
      BY <1>1, <1>3, SubSeqProperties
    <2>2. \A i \in 1 .. j : e[i] = l[i]
      BY <1>1, <1>3
    <2>. QED
      BY <2>1, <2>2
  <1>5. n + 1 <= Len(e)
    BY <1>1, <1>2
  <1>. QED
    BY <1>2, <1>3, <1>4, <1>5 DEF Shortens, e

\* A byte is written.
LEMMA ByteTracked ==
    ASSUME NEW o \in MachineRec, NEW m \in MachineRec, NEW a \in Word, NEW v \in Byte
    PROVE  LET n == WriteByte(m, a, v)
           IN  /\ Replaying(o, m) => Replaying(o, n)
               /\ RegistersBack(o, m) => RegistersBack(o, n)
               /\ \A R, S : Only(m, R, S) => Only(n, R, S \cup {a})
               /\ \A R, S : Only(m, R, S) /\ a \notin S /\ MemoryBack(o, m) => MemoryBack(o, n)
  <1>1. PICK n : n = WriteByte(m, a, v)
    OBVIOUS
  <1>2. SameRegs(n, m) /\ SameCsrs(n, m) /\ SameReads(n, m) /\ (n.fault = "none" => m.fault = "none")
    BY <1>1, WriteChanges
  <1>3. \/ SameRam(n, m) /\ SameLog(n, m)
        \/ /\ SameRam(n, m) /\ a \in OutputPorts /\ n.log = [m.log EXCEPT ![a] = Append(m.log[a], v)]
           /\ n.delta.writes = [m.delta.writes EXCEPT ![a] = m.delta.writes[a] + 1]
        \/ /\ SameLog(n, m) /\ a \in Address /\ n.ram = [m.ram EXCEPT ![a] = v]
           /\ n.delta.ram = Append(m.delta.ram, Change(a, m.ram[a], v))
    <2>1. Written(n, m, a, v)
      BY <1>1, WriteChanges
    <2>. QED
      BY <2>1 DEF Written
  <1>. DEFINE Goal == /\ Redo(o.ram, m.delta.ram) = m.ram => Redo(o.ram, n.delta.ram) = n.ram
                      /\ Changed(n.delta.ram) \subseteq Changed(m.delta.ram) \cup {a}
                      /\ a \notin Changed(m.delta.ram) /\ MemoryBack(o, m) => MemoryBack(o, n)
  <1>4. Goal
    <2>1. CASE SameRam(n, m) /\ SameLog(n, m)
      BY <2>1 DEF SameRam, SameLog, MemoryBack
    <2>2. CASE /\ SameRam(n, m) /\ a \in OutputPorts /\ n.log = [m.log EXCEPT ![a] = Append(m.log[a], v)]
               /\ n.delta.writes = [m.delta.writes EXCEPT ![a] = m.delta.writes[a] + 1]
      <3>1. ASSUME NEW p \in OutputPorts, Shortens(o.log[p], m.log[p], m.delta.writes[p])
            PROVE  Shortens(o.log[p], n.log[p], n.delta.writes[p])
        <4>1. m.log \in [OutputPorts -> Seq(Byte)] /\ m.delta.writes \in [OutputPorts -> Nat]
          BY Fields
        <4>2. CASE p = a
          <5>1. n.log[p] = Append(m.log[p], v) /\ n.delta.writes[p] = m.delta.writes[p] + 1
            BY <2>2, <4>1, <4>2
          <5>2. m.log[p] \in Seq(Byte) /\ m.delta.writes[p] \in Nat
            BY <4>1
          <5>. QED
            BY <3>1, <5>1, <5>2, LogShortens
        <4>3. CASE p # a
          <5>1. n.log[p] = m.log[p] /\ n.delta.writes[p] = m.delta.writes[p]
            BY <2>2, <4>1, <4>3
          <5>. QED
            BY <3>1, <5>1
        <4>. QED
          BY <4>2, <4>3
      <3>. QED
        BY <2>2, <3>1 DEF SameRam, MemoryBack
    <2>3. CASE /\ SameLog(n, m) /\ a \in Address /\ n.ram = [m.ram EXCEPT ![a] = v]
               /\ n.delta.ram = Append(m.delta.ram, Change(a, m.ram[a], v))
      <3>1. /\ Redo(o.ram, m.delta.ram) = m.ram => Redo(o.ram, n.delta.ram) = n.ram
            /\ \A X \in SUBSET Address :
                  Restores(o.ram, m.ram, m.delta.ram, X) /\ (a \in X => a \notin Changed(m.delta.ram))
                  => Restores(o.ram, n.ram, n.delta.ram, X)
            /\ Changed(n.delta.ram) = Changed(m.delta.ram) \cup {a}
        BY <2>3, Blocks, TrackedMore
      <3>. QED
        BY <2>3, <3>1 DEF SameLog, MemoryBack
    <2>. QED
      BY <1>3, <2>1, <2>2, <2>3
  <1>5. Replaying(o, m) => Replaying(o, n)
    BY <1>2, <1>4 DEF Replaying, SameRegs, SameCsrs, SameReads
  <1>6. RegistersBack(o, m) => RegistersBack(o, n)
    BY <1>2 DEF RegistersBack, SameRegs, SameCsrs
  <1>7. \A R, S : Only(m, R, S) => Only(n, R, S \cup {a})
    BY <1>2, <1>4 DEF Only, SameRegs, SameCsrs
  <1>8. \A R, S : Only(m, R, S) /\ a \notin S /\ MemoryBack(o, m) => MemoryBack(o, n)
    BY <1>4 DEF Only
  <1>. QED
    BY <1>1, <1>5, <1>6, <1>7, <1>8

\* What comes back while an instruction may fail comes back at its end.
LEMMA EarlyIsLate ==
    ASSUME NEW o \in MachineRec, NEW R, NEW S
    PROVE  Early(o, R, S) \subseteq Late(o)
  <1>1. ASSUME NEW m, RegistersBack(o, m) PROVE NearlyBack(o, m)
    BY <1>1 DEF RegistersBack, NearlyBack, Restores
  <1>. QED
    BY <1>1 DEF Early, Late

\* N is written again.
LEMMA LastIsLate ==
    ASSUME NEW o \in MachineRec, NEW R, NEW S, NEW m \in Early(o, R, S), m.fault = "none", NEW v \in BOOLEAN
    PROVE  WriteCsr(m, "N", v) \in Late(o)
  <1>1. m \in MachineRec /\ "N" \in Status
    BY DEF Early, Status
  <1>2. PICK n : n = WriteCsr(m, "N", v)
    OBVIOUS
  <1>3. n \in MachineRec /\ n.fault = "none"
    BY <1>1, <1>2, CsrWritten
  <1>4. /\ Replaying(o, m) => Replaying(o, n)
        /\ MemoryBack(o, m) => MemoryBack(o, n)
        /\ RegistersBack(o, m) => NearlyBack(o, n)
    BY <1>1, <1>2, CsrTracked
  <1>. QED
    BY <1>2, <1>3, <1>4 DEF Early, Late

\* So an instruction goes through these sets.
LEMMA EarlySetsFollow ==
    ASSUME NEW o \in MachineRec
    PROVE  Follows(Late(o), EarlySets(o))
  <1>. DEFINE F == EarlySets(o)
  <1>1. ASSUME NEW R \in SUBSET Names, NEW S \in SUBSET Word
        PROVE  F[R][S] = Early(o, R, S)
    BY DEF EarlySets
  <1>. HIDE DEF F
  <1>2. ASSUME NEW R \in SUBSET Names, NEW S \in SUBSET Word
        PROVE  Early(o, R, S) \subseteq Late(o)
    BY EarlyIsLate
  <1>3. ASSUME NEW R \in SUBSET Names, NEW S \in SUBSET Word, NEW m \in Early(o, R, S), m.fault = "none",
               NEW r \in Registers, NEW v \in Word, r \notin R \ {"PC"}
        PROVE  R \cup {r} \in SUBSET Names /\ WriteRegister(m, r, v) \in Early(o, R \cup {r}, S)
    <2>1. m \in MachineRec /\ R \cup {r} \in SUBSET Names
      BY DEF Early, Names
    <2>2. WriteRegister(m, r, v) \in MachineRec
      BY <2>1, RegisterWritten
    <2>. QED
      BY <1>3, <2>1, <2>2, RegisterTracked DEF Early
  <1>4. ASSUME NEW R \in SUBSET Names, NEW S \in SUBSET Word, NEW m \in Early(o, R, S), m.fault = "none",
               NEW b \in Status, NEW v \in BOOLEAN, b \notin R
        PROVE  R \cup {b} \in SUBSET Names /\ WriteCsr(m, b, v) \in Early(o, R \cup {b}, S)
    <2>1. m \in MachineRec /\ R \cup {b} \in SUBSET Names
      BY DEF Early, Names
    <2>2. WriteCsr(m, b, v) \in MachineRec
      BY <2>1, CsrWritten
    <2>. QED
      BY <1>4, <2>1, <2>2, CsrTracked DEF Early
  <1>5. ASSUME NEW R \in SUBSET Names, NEW S \in SUBSET Word, NEW m \in Early(o, R, S),
               NEW a \in Word, NEW v \in Byte, a \notin S
        PROVE  S \cup {a} \in SUBSET Word /\ WriteByte(m, a, v) \in Early(o, R, S \cup {a})
    <2>1. m \in MachineRec /\ S \cup {a} \in SUBSET Word
      BY DEF Early
    <2>2. WriteByte(m, a, v) \in MachineRec
      BY <2>1, ByteWritten
    <2>. QED
      BY <1>5, <2>1, <2>2, ByteTracked DEF Early
  <1>6. ASSUME NEW R \in SUBSET Names, NEW S \in SUBSET Word
        PROVE  /\ Reads(F[R][S]) /\ F[R][S] \subseteq Late(o)
               /\ \A m \in F[R][S] : m.fault = "none" =>
                     /\ \A r \in Registers, v \in Word :
                           r \notin R \ {"PC"} => WriteRegister(m, r, v) \in F[R \cup {r}][S]
                     /\ \A b \in Status, v \in BOOLEAN : b \notin R => WriteCsr(m, b, v) \in F[R \cup {b}][S]
                     /\ \A a \in Word, v \in Byte : a \notin S => WriteByte(m, a, v) \in F[R][S \cup {a}]
                     /\ \A v \in BOOLEAN : WriteCsr(m, "N", v) \in Late(o)
    <2>1. F[R][S] = Early(o, R, S)
      BY <1>1
    <2>2. Reads(F[R][S]) /\ F[R][S] \subseteq Late(o)
      BY <1>2, <2>1, EarlyReads
    <2>3. ASSUME NEW m \in F[R][S], m.fault = "none", NEW r \in Registers, NEW v \in Word, r \notin R \ {"PC"}
          PROVE  WriteRegister(m, r, v) \in F[R \cup {r}][S]
      <3>1. R \cup {r} \in SUBSET Names /\ WriteRegister(m, r, v) \in Early(o, R \cup {r}, S)
        BY <1>3, <2>1, <2>3
      <3>. QED
        BY <1>1, <3>1
    <2>4. ASSUME NEW m \in F[R][S], m.fault = "none", NEW b \in Status, NEW v \in BOOLEAN, b \notin R
          PROVE  WriteCsr(m, b, v) \in F[R \cup {b}][S]
      <3>1. R \cup {b} \in SUBSET Names /\ WriteCsr(m, b, v) \in Early(o, R \cup {b}, S)
        BY <1>4, <2>1, <2>4
      <3>. QED
        BY <1>1, <3>1
    <2>5. ASSUME NEW m \in F[R][S], NEW a \in Word, NEW v \in Byte, a \notin S
          PROVE  WriteByte(m, a, v) \in F[R][S \cup {a}]
      <3>1. S \cup {a} \in SUBSET Word /\ WriteByte(m, a, v) \in Early(o, R, S \cup {a})
        BY <1>5, <2>1, <2>5
      <3>. QED
        BY <1>1, <3>1
    <2>6. ASSUME NEW m \in F[R][S], m.fault = "none", NEW v \in BOOLEAN
          PROVE  WriteCsr(m, "N", v) \in Late(o)
      BY <2>1, <2>6, LastIsLate
    <2>. QED
      BY <2>2, <2>3, <2>4, <2>5, <2>6
  <1>7. PICK E : E = Late(o)
    OBVIOUS
  <1>8. E \subseteq MachineRec
    BY <1>7 DEF Late
  <1>9. Follows(E, F)
    BY <1>6, <1>7, <1>8, Zenon DEF Follows
  <1>. QED
    BY <1>7, <1>9 DEF F

\* The machine an instruction begins at.
LEMMA StartEarly ==
    ASSUME NEW o \in MachineRec, Redo(o.regs, o.delta.regs) = o.regs, Redo(o.csrs, o.delta.csrs) = o.csrs
    PROVE  o \in Early(o, {}, {})
  <1>1. Replaying(o, o)
    <2>1. o.at \in Int /\ o.delta.reads \in Int
      BY Fields DEF Stale
    <2>. QED
      BY <2>1 DEF Replaying, Tracked
  <1>2. ASSUME o.delta = NoDelta
        PROVE  MemoryBack(o, o) /\ RegistersBack(o, o) /\ Only(o, {}, {})
    <2>1. o.delta.regs = << >> /\ o.delta.csrs = << >> /\ o.delta.ram = << >> /\ o.delta.writes = [p \in OutputPorts |-> 0]
      BY <1>2 DEF NoDelta
    <2>2. /\ Undo(o.regs, << >>) = o.regs /\ Undo(o.csrs, << >>) = o.csrs /\ Undo(o.ram, << >>) = o.ram
          /\ Changed(<< >>) = {}
      BY Blocks, NothingToDo
    <2>3. \A p \in OutputPorts : Shortens(o.log[p], o.log[p], 0)
      <3>1. ASSUME NEW p \in OutputPorts PROVE Shortens(o.log[p], o.log[p], 0)
        <4>1. PICK l \in Seq(Byte) : l = o.log[p]
          BY Fields
        <4>2. Len(l) \in Nat /\ Len(l) - 0 = Len(l) /\ SubSeq(l, 1, Len(l)) = l
          BY LenProperties, SubSeqProperties
        <4>3. 0 <= Len(l) /\ SubSeq(l, 1, Len(l) - 0) = l
          BY <4>2
        <4>. QED
          BY <4>1, <4>3 DEF Shortens
      <3>. QED
        BY <3>1
    <2>4. \A p \in OutputPorts : o.delta.writes[p] = 0
      BY <2>1
    <2>5. MemoryBack(o, o)
      BY <2>1, <2>2, <2>3, <2>4 DEF MemoryBack, Restores
    <2>6. RegistersBack(o, o)
      BY <2>1, <2>2 DEF RegistersBack, Restores
    <2>7. Only(o, {}, {})
      BY <2>1, <2>2 DEF Only
    <2>. QED
      BY <2>5, <2>6, <2>7
  <1>. QED
    BY <1>1, <1>2 DEF Early

\* The changes that wait in the delta of the processor have all been made.
Settled(m) == Redo(m.regs, m.delta.regs) = m.regs /\ Redo(m.csrs, m.delta.csrs) = m.csrs
Pending == Redo(regs, delta.regs) = regs /\ Redo(csrs, delta.csrs) = csrs

\* An instruction of the machine.
LEMMA StepTracked ==
    ASSUME MachineTypeOK, Pending
    PROVE  Machine \in MachineRec /\ Execute(Machine) \in Late(Machine)
  <1>1. PICK o : o = Machine
    OBVIOUS
  <1>2. o \in MachineRec
    BY <1>1, MachineTyped
  <1>3. o.regs = regs /\ o.csrs = csrs /\ o.delta = delta /\ o.fault = "none"
    BY <1>1 DEF Machine
  <1>4. o \in Early(o, {}, {})
    BY <1>2, <1>3, StartEarly DEF Pending
  <1>5. Going(o, EarlySets(o), {}, {})
    BY <1>3, <1>4 DEF Going, EarlySets
  <1>6. Execute(o) \in Late(o)
    BY <1>2, <1>5, EarlySetsFollow, ExecutedIn
  <1>. QED
    BY <1>1, <1>2, <1>6

\* No changes are settled.
LEMMA NoneSettled ==
    ASSUME NEW m \in MachineRec, m.delta = NoDelta
    PROVE  Settled(m)
  <1>1. m.delta.regs = << >> /\ m.delta.csrs = << >>
    BY DEF NoDelta
  <1>. QED
    BY <1>1, Blocks, NothingToDo DEF Settled

\* What a step leaves in the delta.
LEMMA StepSettles ==
    ASSUME MachineTypeOK, Pending, ProcessorStep
    PROVE  Pending'
  <1>. DEFINE m == Execute(Machine)
  <1>1. m \in MachineRec /\ Settled(m)
    <2>1. m \in Late(Machine)
      BY StepTracked
    <2>. HIDE DEF m
    <2>. QED
      BY <2>1 DEF Late, Replaying, Tracked, Settled
  <1>2. Finish(m)
    BY DEF ProcessorStep
  <1>. HIDE DEF m
  <1>3. PICK n \in MachineRec : Become(n) /\ Settled(n)
    <2>1. CASE m.fault = "none"
      <3>1. PICK n : n = [m EXCEPT !.delta = NoDelta]
        OBVIOUS
      <3>2. n \in MachineRec /\ n.delta = NoDelta
        BY <1>1, <3>1, NoDeltaTyped DEF MachineRec
      <3>3. Become(n)
        BY <1>2, <2>1, <3>1 DEF Finish
      <3>. QED
        BY <3>2, <3>3, NoneSettled
    <2>2. CASE m.fault = "throw"
      BY <1>1, <1>2, <2>2 DEF Finish
    <2>3. CASE m.fault # "none" /\ m.fault # "throw"
      <3>1. PICK n : n = Unwound(m)
        OBVIOUS
      <3>2. n \in MachineRec /\ n.delta = NoDelta
        BY <1>1, <3>1, UnwoundTyped DEF Unwound, Backward, MachineRec
      <3>3. Become(n)
        BY <1>2, <2>3, <3>1 DEF Finish
      <3>. QED
        BY <3>2, <3>3, NoneSettled
    <2>. QED
      BY <2>1, <2>2, <2>3
  <1>. QED
    BY <1>3 DEF Become, Settled, Pending

\* What begin_simulation leaves there: it reads memory, which may fail, and goes on.
LEMMA BeginSettles ==
    ASSUME MachineTypeOK, BeginSimulation
    PROVE  Pending'
  <1>. DEFINE zero == [Machine EXCEPT !.regs = [r \in Registers |-> 0], !.delta.regs = << >>,
                                      !.csrs = [b \in Status |-> FALSE], !.delta.csrs = << >>]
              sp == ReadWord(zero, Vector("SystemStack"))
              top == WriteRegister(sp, "SP", sp.val)
              pc == ReadWord(top, Vector("Dispatcher"))
              done == WriteRegister(pc, "PC", pc.val)
              R == {"SP"}
  <1>1. Become(done)
    BY DEF BeginSimulation
  <1>2. zero \in MachineRec
    BY ZeroTyped
  <1>3. zero \in Early(zero, {}, {})
    <2>1. zero.delta.regs = << >> /\ zero.delta.csrs = << >>
      BY MachineTyped DEF MachineRec, StepDelta
    <2>. HIDE DEF zero
    <2>2. Redo(zero.regs, << >>) = zero.regs /\ Redo(zero.csrs, << >>) = zero.csrs
      BY <1>2, Blocks, NothingToDo
    <2>. QED
      BY <1>2, <2>1, <2>2, StartEarly
  <1>. HIDE DEF zero
  <1>4. {} \in SUBSET Names /\ R \in SUBSET Names /\ {} \in SUBSET Word /\ "SP" \in Registers /\ "PC" \in Registers
        /\ {} \cup {"SP"} = R
    BY DEF Names, Registers
  <1>5. Reads(Early(zero, {}, {})) /\ Reads(Early(zero, R, {}))
    BY <1>2, <1>4, EarlyReads
  <1>6. sp \in Early(zero, {}, {}) /\ sp \in MachineRec /\ sp.val \in Word
    BY <1>3, <1>5, VectorIsAddress, WordReadIn, ReadsKeep, Fields
  <1>. HIDE DEF sp
  <1>7. top \in Early(zero, R, {})
    <2>1. top \in MachineRec
      BY <1>4, <1>6, RegisterWritten
    <2>. QED
      BY <1>2, <1>4, <1>6, <2>1, RegisterTracked DEF Early
  <1>. HIDE DEF top
  <1>8. pc \in Early(zero, R, {}) /\ pc \in MachineRec /\ pc.val \in Word
    BY <1>5, <1>7, VectorIsAddress, WordReadIn, ReadsKeep, Fields
  <1>. HIDE DEF pc
  <1>9. Replaying(zero, done)
    <2>1. Replaying(zero, pc)
      BY <1>8 DEF Early
    <2>. QED
      BY <1>2, <1>4, <1>8, <2>1, RegisterTracked
  <1>. HIDE DEF done
  <1>. QED
    BY <1>1, <1>9 DEF Become, Replaying, Tracked, Pending

\* A loaded byte leaves no change in a delta.
LEMMA SetChanges ==
    ASSUME NEW m \in MachineRec, NEW a \in Address, NEW v \in Byte, NEW n, n = SetByte(m, a, v)
    PROVE  SameRegs(n, m) /\ SameCsrs(n, m)
  <1>1. \/ n = Fail(m, "Unwritable") \/ n = [m EXCEPT !.cache[a] = v] \/ n = [m EXCEPT !.ram[a] = v]
    BY DEF SetByte
  <1>. QED
    BY <1>1 DEF Fail, MachineRec, SameRegs, SameCsrs

\* Neither do loaded bytes.
LEMMA LoadSettles ==
    ASSUME MachineTypeOK, Pending, NEW l \in Loads, LoadBytes(l)
    PROVE  Pending'
  <1>. DEFINE K == {m \in MachineRec : Settled(m)}
              To(i) == (l.offset + i - 1) % (MaxOffset + 1)
              Loaded[i \in 0 .. Len(l.bytes)] ==
                  IF i = 0 THEN Machine
                  ELSE LET m == Loaded[i - 1] IN Then(m, SetByte(m, To(i), l.bytes[i]))
              done == Loaded[Len(l.bytes)]
  <1>1. l.offset \in Word /\ l.bytes \in Seq(Byte)
    BY MachineAssumption
  <1>2. Machine \in K
    BY MachineTyped DEF Machine, Settled, Pending
  <1>3. ASSUME NEW m \in K, NEW a \in Address, NEW v \in Byte
        PROVE  SetByte(m, a, v) \in K
    <2>1. SetByte(m, a, v) \in MachineRec
      BY ByteSet
    <2>2. SameRegs(SetByte(m, a, v), m) /\ SameCsrs(SetByte(m, a, v), m)
      BY SetChanges
    <2>. QED
      BY <2>1, <2>2 DEF Settled, SameRegs, SameCsrs
  <1>. HIDE DEF K
  <1>4. done \in K
    BY <1>1, <1>2, <1>3, BytesLoadedIn
  <1>5. Become(done)
    BY DEF LoadBytes
  <1>. HIDE DEF done
  <1>. QED
    BY <1>4, <1>5 DEF Become, K, Settled, Pending

\* The host's own writes.
LEMMA HostWritesSettle ==
    ASSUME MachineTypeOK, Pending
    PROVE  /\ \A w \in HostWrites : HostWriteMemory(w) => Pending'
           /\ \A w \in RegisterWrites : HostWriteRegister(w) => Pending'
  <1>1. Machine \in MachineRec /\ Machine.regs = regs /\ Machine.csrs = csrs /\ Machine.delta = delta
    BY MachineTyped DEF Machine
  <1>2. ASSUME NEW w \in HostWrites, HostWriteMemory(w)
        PROVE  Pending'
    <2>1. w.at \in Word /\ w.val \in Byte
      BY MachineAssumption
    <2>2. PICK n : n = WriteByte(Machine, w.at, w.val)
      OBVIOUS
    <2>3. SameRegs(n, Machine) /\ SameCsrs(n, Machine)
      BY <1>1, <2>1, <2>2, WriteChanges
    <2>4. Become(n)
      BY <1>2, <2>2 DEF HostWriteMemory
    <2>. QED
      BY <1>1, <2>3, <2>4 DEF Become, SameRegs, SameCsrs, Pending
  <1>3. ASSUME NEW w \in RegisterWrites, HostWriteRegister(w)
        PROVE  Pending'
    <2>1. w.at \in Registers /\ w.val \in Word
      BY MachineAssumption
    <2>2. PICK o, n : o = Machine /\ n = WriteRegister(o, w.at, w.val)
      OBVIOUS
    <2>3. o \in MachineRec /\ Settled(o)
      BY <1>1, <2>2 DEF Settled, Pending
    <2>4. /\ n.regs = [o.regs EXCEPT ![w.at] = w.val]
          /\ n.delta.regs = Append(o.delta.regs, Change(w.at, o.regs[w.at], w.val)) /\ SameCsrs(n, o)
      BY <2>1, <2>2, <2>3, RegisterChanges
    <2>5. Redo(n.regs, n.delta.regs) = n.regs
      <3>1. Block(o.regs, Registers, Word) /\ Changes(o.delta.regs, Registers, Word) /\ Redo(o.regs, o.delta.regs) = o.regs
        BY <2>3, Blocks DEF Settled
      <3>. QED
        BY <2>1, <2>4, <3>1, ChangeStays
    <2>6. Become(n)
      BY <1>3, <2>2 DEF HostWriteRegister
    <2>. QED
      BY <2>3, <2>4, <2>5, <2>6 DEF Become, SameCsrs, Settled, Pending
  <1>. QED
    BY <1>2, <1>3

\* Redoing the changes that wait in the processor's delta changes nothing: so a delta
\* saved with changes that the host made before the instruction still replays.
THEOREM PendingChangesAreMade == MachineSpec => []Pending
  <1>1. MachineInit => Pending
    <2>. SUFFICES ASSUME MachineInit PROVE Pending
      OBVIOUS
    <2>1. regs \in [Registers -> Word] /\ csrs \in [Status -> BOOLEAN]
      BY Widths DEF MachineInit
    <2>2. delta.regs = << >> /\ delta.csrs = << >>
      BY DEF MachineInit, NoDelta
    <2>3. Block(regs, Registers, Word) /\ Block(csrs, Status, BOOLEAN)
      BY <2>1 DEF Block
    <2>. QED
      BY <2>2, <2>3, NothingToDo DEF Pending
  <1>2. MachineTypeOK /\ Pending /\ [MachineNext]_vars => Pending'
    <2>. SUFFICES ASSUME MachineTypeOK, Pending, [MachineNext]_vars PROVE Pending'
      OBVIOUS
    <2>1. CASE Step \/ RunStep
      BY <2>1, StepSettles DEF Step, RunStep
    <2>2. CASE BeginSimulation
      BY <2>2, BeginSettles
    <2>3. CASE ClearAll
      <3>1. /\ regs' = [r \in Registers |-> 0] /\ csrs' = [b \in Status |-> FALSE]
            /\ delta'.regs = << >> /\ delta'.csrs = << >>
        BY <2>3 DEF ClearAll, NoDelta
      <3>2. Block(regs', Registers, Word) /\ Block(csrs', Status, BOOLEAN)
        BY <3>1, Widths DEF Block
      <3>. QED
        BY <3>1, <3>2, NothingToDo DEF Pending
    <2>4. ASSUME NEW l \in Loads, LoadBytes(l) PROVE Pending'
      BY <2>4, LoadSettles
    <2>5. CASE \/ \E w \in HostWrites : HostWriteMemory(w)
               \/ \E w \in RegisterWrites : HostWriteRegister(w)
      BY <2>5, HostWritesSettle
    <2>6. CASE \/ UNCHANGED vars \/ RemoveAllBreakpoints \/ \E limit \in Limits : BeginRun(limit)
               \/ \E b \in InputBytes : BufferInput(b)
               \/ \E a \in Breakable : AddBreakpoint(a) \/ RemoveBreakpoint(a)
      BY <2>6 DEF vars, RemoveAllBreakpoints, AddBreakpoint, RemoveBreakpoint, SetBreakpoints, BeginRun, BufferInput, Pending
    <2>. QED
      BY <2>1, <2>2, <2>3, <2>4, <2>5, <2>6 DEF MachineNext
  <1>. QED
    BY <1>1, <1>2, MachineTypeCorrect, PTL DEF MachineSpec

\* The position of the input port, forward.
LEMMA PositionReplays ==
    \A len, n \in Nat : \A p, q \in {Stale} \cup 0 .. len : q - p = n => Min({p + n, len}) = q
  <1>. SUFFICES ASSUME NEW len \in Nat, NEW n \in Nat, NEW p \in {Stale} \cup 0 .. len, NEW q \in {Stale} \cup 0 .. len,
                       q - p = n
                PROVE  Min({p + n, len}) = q
    OBVIOUS
  <1>1. p + n = q /\ q <= len
    BY DEF Stale
  <1>2. \E x \in {q, len} : \A y \in {q, len} : x <= y
    BY <1>1 DEF Stale
  <1>3. Min({q, len}) \in {q, len} /\ \A y \in {q, len} : Min({q, len}) <= y
    BY <1>2 DEF Min
  <1>4. Min({q, len}) <= q
    BY <1>3
  <1>. QED
    BY <1>1, <1>3, <1>4 DEF Stale

\* And back.
LEMMA PositionReturns ==
    \A n, p \in Nat : Unread(n, p + n) = p
  <1>. SUFFICES ASSUME NEW n \in Nat, NEW p \in Nat PROVE Unread(n, p + n) = p
    OBVIOUS
  <1>1. CASE p + n <= 0
    BY <1>1 DEF Unread
  <1>2. CASE ~(p + n <= 0)
    <2>1. (p + n) - n = p /\ Unread(n, p + n) = Max({(p + n) - n, 0})
      BY <1>2 DEF Unread
    <2>2. \E x \in {p, 0} : \A y \in {p, 0} : x >= y
      OBVIOUS
    <2>3. Max({p, 0}) \in {p, 0} /\ \A y \in {p, 0} : Max({p, 0}) >= y
      BY <2>2 DEF Max
    <2>4. Max({p, 0}) >= p
      BY <2>3
    <2>. QED
      BY <2>1, <2>3, <2>4
  <1>. QED
    BY <1>1, <1>2

\* A step that completed was an instruction that did.
LEMMA Completed ==
    ASSUME MachineTypeOK, Pending, [MachineNext]_vars, CompletesNew
    PROVE  \E m \in Late(Machine) :
              /\ m.fault = "none" /\ saved'[cycles] = m.delta /\ input' = input
              /\ regs' = m.regs /\ csrs' = m.csrs /\ ram' = m.ram /\ log' = m.log /\ at' = m.at
  <1>0. cycles \in Nat /\ cycles' = cycles + 1 /\ cycles \notin DOMAIN saved
    BY MachineAssumption DEF MachineTypeOK, CompletesNew, Completes
  <1>1. ProcessorStep
    <2>1. cycles' # cycles /\ cycles' # 0
      BY <1>0
    <2>. QED
      BY <2>1 DEF MachineNext, vars, Step, RunStep, BeginSimulation, ClearAll, RemoveAllBreakpoints, BeginRun, LoadBytes,
           HostWriteMemory, HostWriteRegister, BufferInput, AddBreakpoint, RemoveBreakpoint, SetBreakpoints
  <1>. DEFINE m == Execute(Machine)
  <1>2. m \in Late(Machine) /\ m \in MachineRec
    BY StepTracked DEF Late
  <1>3. Finish(m) /\ input' = input
    BY <1>1 DEF ProcessorStep
  <1>. HIDE DEF m
  <1>4. m.fault = "none" /\ Become([m EXCEPT !.delta = NoDelta])
        /\ saved' = [c \in DOMAIN saved \cup {cycles} |-> IF c \in DOMAIN saved THEN saved[c] ELSE m.delta]
    <2>1. cycles' # cycles
      BY <1>0
    <2>. QED
      BY <1>3, <2>1 DEF Finish
  <1>5. saved'[cycles] = m.delta
    BY <1>0, <1>4
  <1>6. regs' = m.regs /\ csrs' = m.csrs /\ ram' = m.ram /\ log' = m.log /\ at' = m.at
    BY <1>2, <1>4 DEF Become, MachineRec
  <1>. QED
    BY <1>2, <1>3, <1>4, <1>5, <1>6

\* The history is exact up to PC and N, whatever program runs, in whatever memory map and
\* with whatever the host does between instructions: applied forward to the state before a
\* completed instruction, its saved delta gives the whole state after it, and applied
\* backward to that, the memory, the output, the input position, the registers but PC and
\* the status bits but N before it.
THEOREM HistoryAlwaysExact == MachineSpec => HistoryIsExact
  <1>1. MachineTypeOK /\ MachineTypeOK' /\ Pending /\ [MachineNext]_vars
        => [CompletesNew => Replays(saved'[cycles]) /\ Undoes(saved'[cycles])]_vars
    <2>. SUFFICES ASSUME MachineTypeOK, MachineTypeOK', Pending, [MachineNext]_vars, CompletesNew
                  PROVE  Replays(saved'[cycles]) /\ Undoes(saved'[cycles])
      OBVIOUS
    <2>1. PICK m \in Late(Machine) :
              /\ m.fault = "none" /\ saved'[cycles] = m.delta /\ input' = input
              /\ regs' = m.regs /\ csrs' = m.csrs /\ ram' = m.ram /\ log' = m.log /\ at' = m.at
      BY Completed
    <2>. DEFINE d == m.delta
    <2>2. /\ Redo(regs, d.regs) = m.regs /\ Redo(csrs, d.csrs) = m.csrs
          /\ Redo(ram, delta.ram) = ram => Redo(ram, d.ram) = m.ram
          /\ m.at - at = d.reads - delta.reads
      BY <2>1 DEF Late, Replaying, Tracked, Machine
    <2>3. m \in MachineRec /\ Machine \in MachineRec /\ Machine.log = log /\ Machine.ram = ram /\ Machine.at = at
          /\ Machine.regs = regs /\ Machine.csrs = csrs
          /\ Machine.delta = delta
      BY <2>1, MachineTyped DEF Late, Machine
    <2>4. Len(input) \in Nat /\ at \in {Stale} \cup 0 .. Len(input) /\ m.at \in {Stale} \cup 0 .. Len(input) /\ d.reads \in Nat
      BY <2>3, Fields, LenProperties
    <2>5. delta.reads = 0 => Min({at + d.reads, Len(input)}) = m.at /\ (at # Stale => Unread(d.reads, m.at) = at)
      <3>. SUFFICES ASSUME delta.reads = 0
                    PROVE  Min({at + d.reads, Len(input)}) = m.at /\ (at # Stale => Unread(d.reads, m.at) = at)
        OBVIOUS
      <3>1. PICK len, n, p, q : len = Len(input) /\ n = d.reads /\ p = at /\ q = m.at
        OBVIOUS
      <3>2. len \in Nat /\ n \in Nat /\ p \in {Stale} \cup 0 .. len /\ q \in {Stale} \cup 0 .. len
        BY <2>4, <3>1
      <3>3. q - p = n
        BY <2>2, <3>1, <3>2 DEF Stale
      <3>4. Min({p + n, len}) = q
        BY <3>2, <3>3, PositionReplays
      <3>5. ASSUME p # Stale PROVE Unread(n, q) = p
        <4>1. p \in Nat /\ q = p + n
          BY <3>2, <3>3, <3>5 DEF Stale
        <4>. QED
          BY <3>2, <4>1, PositionReturns
      <3>. QED
        BY <3>1, <3>4, <3>5
    <2>6. Replays(d)
      <3>1. PICK f : f = Forward(Machine, d)
        OBVIOUS
      <3>2. /\ f.regs = Redo(regs, d.regs) /\ f.csrs = Redo(csrs, d.csrs) /\ f.ram = Redo(ram, d.ram)
            /\ f.at = Min({at + d.reads, Len(input)})
        BY <3>1 DEF Forward, Machine
      <3>. QED
        BY <2>1, <2>2, <2>5, <3>1, <3>2 DEF Replays
    <2>7. ASSUME delta = NoDelta, at # Stale
          PROVE  LET undone == Backward(Machine', d)
                 IN  /\ undone.ram = ram /\ undone.log = log /\ undone.at = at
                     /\ \A r \in Registers \ {"PC"} : undone.regs[r] = regs[r]
                     /\ \A b \in Status \ {"N"} : undone.csrs[b] = csrs[b]
      <3>1. MemoryBack(Machine, m) /\ NearlyBack(Machine, m) /\ delta.reads = 0
        BY <2>1, <2>3, <2>7 DEF Late, NoDelta
      <3>2. PICK u : u = Backward(Machine', d)
        OBVIOUS
      <3>3. /\ u.ram = Undo(m.ram, d.ram) /\ u.at = Unread(d.reads, m.at)
            /\ u.regs = Undo(m.regs, d.regs) /\ u.csrs = Undo(m.csrs, d.csrs)
            /\ u.log = [p \in OutputPorts |-> SubSeq(m.log[p], 1, Len(m.log[p]) - d.writes[p])]
        BY <2>1, <3>2 DEF Backward, Machine
      <3>4. u.ram = ram
        <4>1. \A x \in Address : Undo(m.ram, d.ram)[x] = ram[x]
          BY <2>3, <3>1 DEF MemoryBack, Restores
        <4>2. Undo(m.ram, d.ram) \in [Address -> Byte] /\ ram \in [Address -> Byte]
          BY <2>3, Fields, Undone
        <4>. QED
          BY <3>3, <4>1, <4>2
      <3>5. u.log = log
        <4>1. \A p \in OutputPorts : SubSeq(m.log[p], 1, Len(m.log[p]) - d.writes[p]) = log[p]
          BY <2>3, <3>1 DEF MemoryBack, Shortens
        <4>2. log \in [OutputPorts -> Seq(Byte)]
          BY <2>3, Fields
        <4>. QED
          BY <3>3, <4>1, <4>2
      <3>6. /\ \A r \in Registers \ {"PC"} : u.regs[r] = regs[r]
            /\ \A b \in Status \ {"N"} : u.csrs[b] = csrs[b]
        BY <2>3, <3>1, <3>3 DEF NearlyBack, Restores
      <3>. QED
        BY <2>5, <2>7, <3>1, <3>2, <3>3, <3>4, <3>5, <3>6
    <2>. QED
      BY <2>1, <2>6, <2>7 DEF Undoes
  <1>. QED
    BY <1>1, MachineTypeCorrect, PendingChangesAreMade, PTL DEF MachineSpec, HistoryIsExact

\* A failed instruction is unwound.
LEMMA FailedStep ==
    ASSUME MachineTypeOK, Pending, [MachineNext]_vars, ~UNCHANGED vars, StepFails
    PROVE  \E m \in Late(Machine) : m.fault # "none" /\ Become(Unwound(m))
  <1>0. result' # "none"
    BY DEF StepFails
  <1>1. ProcessorStep
    BY <1>0 DEF MachineNext, Step, RunStep, BeginSimulation, ClearAll, RemoveAllBreakpoints, BeginRun, LoadBytes,
         HostWriteMemory, HostWriteRegister, BufferInput, AddBreakpoint, RemoveBreakpoint, SetBreakpoints, HostCall
  <1>. DEFINE m == Execute(Machine)
  <1>2. m \in Late(Machine)
    BY StepTracked
  <1>3. Finish(m)
    BY <1>1 DEF ProcessorStep
  <1>. HIDE DEF m
  <1>4. m.fault # "none" /\ Become(IF m.fault = "throw" THEN m ELSE Unwound(m)) /\ result' \in Failure(m.fault)
    <2>1. Outcome(m) \in {"kHalted", "kBreakpoint", "kNominal"}
      BY DEF Outcome
    <2>. QED
      BY <1>3, <2>1 DEF Finish, StepFails
  <1>5. m.fault # "throw"
    BY <1>4 DEF Failure, StepFails
  <1>. QED
    BY <1>2, <1>4, <1>5

\* A failed instruction has no effect on memory, output, status bits and registers but
\* PC, at whatever access of whatever instruction it failed.
THEOREM FailedStepsUnwind == MachineSpec => FailedStepUnwinds
  <1>1. MachineTypeOK /\ Pending /\ [MachineNext]_vars
        => [StepFails /\ delta = NoDelta =>
              /\ ram' = ram /\ csrs' = csrs /\ log' = log
              /\ \A r \in Registers \ {"PC"} : regs'[r] = regs[r]]_vars
    <2>. SUFFICES ASSUME MachineTypeOK, Pending, [MachineNext]_vars, ~UNCHANGED vars, StepFails, delta = NoDelta
                  PROVE  /\ ram' = ram /\ csrs' = csrs /\ log' = log
                         /\ \A r \in Registers \ {"PC"} : regs'[r] = regs[r]
      OBVIOUS
    <2>1. PICK m \in Late(Machine) : m.fault # "none" /\ Become(Unwound(m))
      BY FailedStep
    <2>2. m \in MachineRec /\ Machine \in MachineRec /\ Machine.log = log /\ Machine.ram = ram
          /\ Machine.regs = regs /\ Machine.csrs = csrs /\ Machine.delta = delta
      BY <2>1, MachineTyped DEF Late, Machine
    <2>3. MemoryBack(Machine, m) /\ RegistersBack(Machine, m)
      BY <2>1, <2>2 DEF Late
    <2>. DEFINE d == m.delta
    <2>4. PICK u : u = Unwound(m)
      OBVIOUS
    <2>5. /\ u.regs = Undo(m.regs, d.regs) /\ u.csrs = Undo(m.csrs, d.csrs) /\ u.ram = Undo(m.ram, d.ram)
          /\ u.log = [p \in OutputPorts |-> SubSeq(m.log[p], 1, Len(m.log[p]) - d.writes[p])]
      BY <2>2, <2>4 DEF Unwound, Backward, MachineRec
    <2>6. regs' = u.regs /\ csrs' = u.csrs /\ ram' = u.ram /\ log' = u.log
      BY <2>1, <2>4 DEF Become
    <2>7. ram' = ram
      <3>1. \A x \in Address : Undo(m.ram, d.ram)[x] = ram[x]
        BY <2>2, <2>3 DEF MemoryBack, Restores
      <3>2. Undo(m.ram, d.ram) \in [Address -> Byte] /\ ram \in [Address -> Byte]
        BY <2>2, Fields, Undone
      <3>. QED
        BY <2>5, <2>6, <3>1, <3>2
    <2>8. csrs' = csrs
      <3>1. \A x \in Status : Undo(m.csrs, d.csrs)[x] = csrs[x]
        BY <2>2, <2>3 DEF RegistersBack, Restores
      <3>2. Undo(m.csrs, d.csrs) \in [Status -> BOOLEAN] /\ csrs \in [Status -> BOOLEAN]
        BY <2>2, Fields, Undone
      <3>. QED
        BY <2>5, <2>6, <3>1, <3>2
    <2>9. log' = log
      <3>1. \A p \in OutputPorts : SubSeq(m.log[p], 1, Len(m.log[p]) - d.writes[p]) = log[p]
        BY <2>2, <2>3 DEF MemoryBack, Shortens
      <3>2. log \in [OutputPorts -> Seq(Byte)]
        BY <2>2, Fields
      <3>. QED
        BY <2>5, <2>6, <3>1, <3>2
    <2>10. \A r \in Registers \ {"PC"} : regs'[r] = regs[r]
      BY <2>2, <2>3, <2>5, <2>6 DEF RegistersBack, Restores
    <2>. QED
      BY <2>7, <2>8, <2>9, <2>10
  <1>. QED
    BY <1>1, MachineTypeCorrect, PendingChangesAreMade, PTL DEF MachineSpec, FailedStepUnwinds

===============================================================================
