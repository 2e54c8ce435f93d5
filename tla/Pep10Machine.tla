---------------------------- MODULE Pep10Machine -----------------------------
(***************************************************************************)
(* The Pep/10 machine (isa/pep10/local_machine): the host loads, starts,   *)
(* steps, runs and clears it, and deltas let it unwind a failed            *)
(* instruction and keep a history (enable_history = true).                 *)
(*                                                                         *)
(* A port is a log and a position in it, which is what InputPort and       *)
(* OutputPort show of it when nobody else reverts its channel.             *)
(***************************************************************************)
EXTENDS Pep10Processor

CONSTANTS Images,           \* memories to start from
          Loads,            \* what the host loads: [offset, bytes]
          HostWrites,       \* memory the host writes: [at, val]
          RegisterWrites,   \* registers the host writes: [at, val]
          InputBytes,       \* bytes the host buffers
          Breakable,        \* addresses the host sets breakpoints at
          Limits,           \* values of max_timesteps
          MaxInput, MaxCycles, MaxPending   \* bounds: see HasRoom

ASSUME MachineAssumption ==
    /\ Images \subseteq [Address -> Byte]
    /\ Loads \subseteq [offset: Word, bytes: Seq(Byte)]
    /\ HostWrites \subseteq [at: Word, val: Byte] /\ RegisterWrites \subseteq [at: Registers, val: Word]
    /\ InputBytes \subseteq Byte
    /\ MaxInput \in Nat /\ MaxCycles \in Nat /\ MaxPending \in Nat /\ Limits \subseteq 0 .. MaxCycles

VARIABLES regs, csrs,   \* _registers, _csrs
          ram,          \* RAM and ROM; what is under a port is never reached
          cache,        \* _last_write_value of each output port
          log,          \* values written to each output port and not taken back
          input,        \* bytes buffered for the input port
          at,           \* number of them behind the port's endpoint; Stale after a clear
          delta,        \* deltas of the instruction in progress, not yet taken
          saved,        \* _deltas: from cycle to delta
          cycles,       \* _cycle_count
          breakpoints,  \* _breakpoints
          started,      \* begin_simulation has set _pwrOff_address
          result,       \* what the last call to step returned, "none" after another call
          run           \* the call to run in progress: [mode, limit]

vars == <<regs, csrs, ram, cache, log, input, at, delta, saved, cycles, breakpoints,
          started, result, run>>

NoDelta == [regs |-> << >>, csrs |-> << >>, ram |-> << >>, reads |-> 0,
            writes |-> [p \in OutputPorts |-> 0]]
Idle == [mode |-> "idle", limit |-> 0]

Machine == [regs |-> regs, csrs |-> csrs, ram |-> ram, cache |-> cache, log |-> log,
            input |-> input, at |-> at, delta |-> delta, val |-> 0, fault |-> "none"]

Become(m) ==
    /\ regs' = m.regs /\ csrs' = m.csrs /\ ram' = m.ram
    /\ cache' = m.cache /\ log' = m.log /\ at' = m.at
    /\ delta' = m.delta

-----------------------------------------------------------------------------
\* Deltas.  Both directions go through the changes in the order they were made.
Undo(f, changes) ==
    LET After[i \in 0 .. Len(changes)] ==
            IF i = 0 THEN f ELSE [After[i - 1] EXCEPT ![changes[i].at] = changes[i].old]
    IN  After[Len(changes)]

Redo(f, changes) ==
    LET After[i \in 0 .. Len(changes)] ==
            IF i = 0 THEN f ELSE [After[i - 1] EXCEPT ![changes[i].at] = changes[i].new]
    IN  After[Len(changes)]

\* n calls of unread; the first event has no previous one.
Unread(n, pos) == IF pos <= 0 THEN pos ELSE Max({pos - n, 0})

Backward(m, d) ==
    [m EXCEPT !.regs = Undo(@, d.regs), !.csrs = Undo(@, d.csrs), !.ram = Undo(@, d.ram),
              !.at = Unread(d.reads, @),
              !.log = [p \in OutputPorts |-> SubSeq(@[p], 1, Len(@[p]) - d.writes[p])]]

\* Redoing does not write to an output port again.
Forward(m, d) ==
    [m EXCEPT !.regs = Redo(@, d.regs), !.csrs = Redo(@, d.csrs), !.ram = Redo(@, d.ram),
              !.at = Min({@ + d.reads, Len(input)})]

\* Mutant of Unwound: the registers' delta is dropped, not applied.
UnwoundNotRegisters(m) == [Backward(m, [m.delta EXCEPT !.regs = << >>]) EXCEPT !.delta = NoDelta]

\* unwind_active_instruction
Unwound(m) == [Backward(m, m.delta) EXCEPT !.delta = NoDelta]

\* A value other than zero is cached at the power-off port.
Halted(m) == started /\ m.cache[PwrOff] # 0

\* Mutant of Outcome: the breakpoint is looked up with the old PC.
OutcomeStale(m) ==
    CASE Halted(m) -> "kHalted"
      [] ~Halted(m) /\ regs.PC \in breakpoints -> "kBreakpoint"
      [] OTHER -> "kNominal"

Outcome(m) ==
    CASE Halted(m) -> "kHalted"
      [] ~Halted(m) /\ m.regs.PC \in breakpoints -> "kBreakpoint"
      [] OTHER -> "kNominal"

\* After a failed operand fetch step asks the instruction fetch, which succeeded,
\* for its error: what that returns is undefined.
Failure(fault) ==
    CASE fault = "NoMMInput" -> {"kNeedsMMI"}
      [] fault = "throw" -> {"throw"}
      [] fault = "operand fetch" -> {"kNeedsMMI", "error", "throw"}
      [] OTHER -> {"error"}

\* The end of a step whose instruction has left the machine at m.  An exception
\* leaves the instruction half done.
Finish(m) ==
    \/ /\ m.fault = "none"
       /\ Become([m EXCEPT !.delta = NoDelta])
       /\ saved' = [c \in DOMAIN saved \cup {cycles} |->
                       IF c \in DOMAIN saved THEN saved[c] ELSE m.delta]
       /\ cycles' = cycles + 1
       /\ result' = Outcome(m)
    \/ /\ m.fault # "none"
       /\ Become(IF m.fault = "throw" THEN m ELSE Unwound(m))
       /\ result' \in Failure(m.fault)
       /\ UNCHANGED <<saved, cycles>>

\* LocalProcessor::step
ProcessorStep == Finish(Execute(Machine)) /\ UNCHANGED <<input, breakpoints, started>>

-----------------------------------------------------------------------------
\* The host calls the machine between steps and calls to run.
HasRoom ==
    /\ cycles < MaxCycles
    /\ Len(delta.regs) < MaxPending /\ Len(delta.ram) < MaxPending
    /\ \A p \in OutputPorts : Len(log[p]) < MaxPending

HostCall == run.mode = "idle" /\ result' = "none" /\ UNCHANGED run

MachineInit ==
    /\ regs = [r \in Registers |-> 0] /\ csrs = [b \in Status |-> FALSE]
    /\ ram \in Images
    /\ cache = [p \in OutputPorts |-> 0] /\ log = [p \in OutputPorts |-> << >>]
    /\ input = << >> /\ at = 0
    /\ delta = NoDelta /\ saved = << >> /\ cycles = 0
    /\ breakpoints = {} /\ started = FALSE
    /\ result = "none" /\ run = Idle

Step ==
    /\ run.mode = "idle" /\ HasRoom
    /\ ProcessorStep
    /\ UNCHANGED run

\* run(machine, max_timesteps): at least one step, until one is not nominal or
\* the cycle count reaches the limit.
BeginRun(limit) ==
    /\ run.mode = "idle" /\ HasRoom
    /\ run' = [mode |-> "first", limit |-> limit]
    /\ result' = "none"
    /\ UNCHANGED <<regs, csrs, ram, cache, log, input, at, delta, saved, cycles, breakpoints, started>>

\* Mutant of Goes: a run waits for input by trying again.
GoesOnWaiting(outcome, count) ==
    outcome \in {"kNominal", "kNeedsMMI", "error"} /\ count < run.limit

\* Mutant of Goes: one step beyond the limit.
GoesPastLimit(outcome, count) == outcome = "kNominal" /\ count <= run.limit

Goes(outcome, count) == outcome = "kNominal" /\ count < run.limit

RunStep ==
    /\ run.mode # "idle"
    /\ ProcessorStep
    /\ run' = IF Goes(result', cycles') THEN [run EXCEPT !.mode = "going"] ELSE Idle

\* begin_simulation.  The memory's delta is not cleared, and neither is _deltas.
BeginSimulation ==
    LET zero == [Machine EXCEPT !.regs = [r \in Registers |-> 0], !.delta.regs = << >>,
                                !.csrs = [b \in Status |-> FALSE], !.delta.csrs = << >>]
        sp == ReadWord(zero, Vector("SystemStack"))
        pc == ReadWord(WriteRegister(sp, "SP", sp.val), Vector("Dispatcher"))
    IN  /\ HostCall
        /\ Become(WriteRegister(pc, "PC", pc.val))
        /\ cycles' = 0 /\ started' = TRUE
        /\ UNCHANGED <<input, saved, breakpoints>>

\* Mutant of ClearAll: the input port keeps its position in the emptied log.
ClearAllKeepsPosition ==
    /\ HostCall
    /\ regs' = [r \in Registers |-> 0] /\ csrs' = [b \in Status |-> FALSE]
    /\ ram' = [a \in Address |-> 0]
    /\ cache' = [p \in OutputPorts |-> 0] /\ log' = [p \in OutputPorts |-> << >>]
    /\ input' = << >> /\ delta' = NoDelta /\ saved' = << >>
    /\ UNCHANGED <<at, cycles, breakpoints, started>>

\* clear_all(0, 0, false).  The cycle count stays.
ClearAll ==
    /\ HostCall
    /\ regs' = [r \in Registers |-> 0] /\ csrs' = [b \in Status |-> FALSE]
    /\ ram' = [a \in Address |-> 0]
    /\ cache' = [p \in OutputPorts |-> 0] /\ log' = [p \in OutputPorts |-> << >>]
    /\ input' = << >> /\ at' = Stale
    /\ delta' = NoDelta /\ saved' = << >>
    /\ UNCHANGED <<cycles, breakpoints, started>>

\* set_memory leaves no change in a delta; an output port only caches the value.
SetByte(m, a, v) ==
    CASE a = CharIn -> Fail(m, "Unwritable")
      [] a \in OutputPorts -> [m EXCEPT !.cache[a] = v]
      [] OTHER -> [m EXCEPT !.ram[a] = v]

\* load_bytes wraps around the end of memory and stops at the first failure.
LoadBytes(l) ==
    LET To(i) == (l.offset + i - 1) % (MaxOffset + 1)
        Loaded[i \in 0 .. Len(l.bytes)] ==
            IF i = 0 THEN Machine
            ELSE LET m == Loaded[i - 1] IN Then(m, SetByte(m, To(i), l.bytes[i]))
    IN  /\ HostCall
        /\ Become(Loaded[Len(l.bytes)])
        /\ UNCHANGED <<input, saved, cycles, breakpoints, started>>

\* write_memory and write_register of the machine, between instructions.
HostWriteMemory(w) ==
    /\ HostCall /\ HasRoom
    /\ Become(WriteByte(Machine, w.at, w.val))
    /\ UNCHANGED <<input, saved, cycles, breakpoints, started>>

HostWriteRegister(w) ==
    /\ HostCall /\ HasRoom
    /\ Become(WriteRegister(Machine, w.at, w.val))
    /\ UNCHANGED <<input, saved, cycles, breakpoints, started>>

BufferInput(b) ==
    /\ HostCall /\ Len(input) < MaxInput
    /\ input' = Append(input, b)
    /\ UNCHANGED <<regs, csrs, ram, cache, log, at, delta, saved, cycles, breakpoints, started>>

SetBreakpoints(new) ==
    /\ HostCall
    /\ breakpoints' = new
    /\ UNCHANGED <<regs, csrs, ram, cache, log, input, at, delta, saved, cycles, started>>

AddBreakpoint(a) == SetBreakpoints(breakpoints \cup {a})
RemoveBreakpoint(a) == SetBreakpoints(breakpoints \ {a})
RemoveAllBreakpoints == SetBreakpoints({})

MachineNext ==
    \/ Step \/ RunStep \/ BeginSimulation \/ ClearAll \/ RemoveAllBreakpoints
    \/ \E l \in Limits : BeginRun(l)
    \/ \E l \in Loads : LoadBytes(l)
    \/ \E w \in HostWrites : HostWriteMemory(w)
    \/ \E w \in RegisterWrites : HostWriteRegister(w)
    \/ \E b \in InputBytes : BufferInput(b)
    \/ \E a \in Breakable : AddBreakpoint(a) \/ RemoveBreakpoint(a)

MachineSpec == MachineInit /\ [][MachineNext]_vars

Promises == INSTANCE Stepping

\* run is a loop: once called it goes on stepping.  This is weak fairness of RunStep, with
\* the condition under which it can change anything written out, and weakened: a run is in
\* progress, and the last step was not one that failed and fails again.
FairMachineSpec ==
    /\ MachineSpec
    /\ \/ []<>(run.mode = "idle" \/ result \in Promises!Failed)
       \/ []<><<RunStep>>_vars

-----------------------------------------------------------------------------
ChangeOf(I, V) == [at: I, old: V, new: V]
StepDelta == [regs: Seq(ChangeOf(Registers, Word)), csrs: Seq(ChangeOf(Status, BOOLEAN)),
              ram: Seq(ChangeOf(Address, Byte)), reads: Nat, writes: [OutputPorts -> Nat]]

MachineTypeOK ==
    /\ regs \in [Registers -> Word] /\ csrs \in [Status -> BOOLEAN]
    /\ ram \in [Address -> Byte]
    /\ cache \in [OutputPorts -> Byte] /\ log \in [OutputPorts -> Seq(Byte)]
    /\ input \in Seq(InputBytes) /\ at \in {Stale} \cup 0 .. Len(input)
    /\ delta \in StepDelta
    /\ cycles \in 0 .. MaxCycles
    /\ DOMAIN saved \subseteq 0 .. MaxCycles - 1
    /\ \A c \in DOMAIN saved : saved[c] \in StepDelta
    /\ breakpoints \subseteq Breakable
    /\ run.mode \in {"idle", "first", "going"} /\ run.limit \in Limits \cup {0}

\* A step that completed; its delta is new where a restart has not left one.
Completes == cycles' = cycles + 1
CompletesNew == Completes /\ cycles \notin DOMAIN saved
StepFails == result' \in {"error", "kNeedsMMI"}

\* Applied forward to the state before, the delta saved for a step gives the state
\* after it ("skipping them would cause replay to differ from execution",
\* vector.hpp:44).  Changes that waited in the delta before the instruction are applied
\* again: memory comes out right if the host has loaded nothing over them, and the input
\* position if no exception had left reads in the delta.
Replays(d) ==
    LET replayed == Forward(Machine, d)
    IN  /\ replayed.regs = regs' /\ replayed.csrs = csrs'
        /\ Redo(ram, delta.ram) = ram => replayed.ram = ram'
        /\ delta.reads = 0 => replayed.at = at'

\* Applied backward to the state after, it gives back what was there before it: memory,
\* output and input position, every register but PC and every status bit but N, unless
\* the host had changes of its own in the delta.  Not PC and N: the changes of a block
\* are undone first to last (vector.tpp:93), so that a place changed twice is left on
\* what it held between the changes, and an instruction with an operand or a jump moves
\* PC twice, CPWr writes N twice.
Undoes(d) ==
    delta = NoDelta /\ at # Stale =>
        LET undone == Backward(Machine', d)
        IN  /\ undone.ram = ram /\ undone.log = log /\ undone.at = at
            /\ \A r \in Registers \ {"PC"} : undone.regs[r] = regs[r]
            /\ \A b \in Status \ {"N"} : undone.csrs[b] = csrs[b]

\* The history is exact up to PC and N: a completed instruction's delta leads from the
\* state before it to the whole state after it, and back to everything but PC and N.
HistoryIsExact == [][CompletesNew => Replays(saved'[cycles]) /\ Undoes(saved'[cycles])]_vars

\* A failed instruction has no effect on memory, output, status bits and registers,
\* wherever in the instruction it failed: all but PC, see
\* ResumesWhereItStopped.
FailedStepUnwinds ==
    [][StepFails /\ delta = NoDelta =>
        /\ ram' = ram /\ csrs' = csrs /\ log' = log
        /\ \A r \in Registers \ {"PC"} : regs'[r] = regs[r]]_vars

\* Between two steps of run the machine stands at no breakpoint, is not halted and is
\* below the limit.
RunStopsInTime ==
    run.mode = "going" =>
        regs.PC \notin breakpoints /\ ~Halted(Machine) /\ cycles < run.limit

\* The machine keeps the promises of Stepping: every call to step or run ends the way
\* and with the cycle count that module says.
ImplementsStepping == Promises!SteppingSpec

\* From any state, SRET takes back what a system call did to the processor, if the
\* call's frame lies in memory.
SystemCallRoundTrip ==
    LET top == ReadWord(Machine, Vector("SystemStack")).val
        is == 7
        back == SystemReturn(SystemCall(Machine, is))
    IN  (\A n \in 1 .. 10 : W(top - n) \in 0 .. RomStart - 1 \ ({CharIn} \cup OutputPorts)) =>
        /\ \A r \in {"A", "X", "SP", "PC"} : back.regs[r] = regs[r]
        /\ back.csrs = csrs

-----------------------------------------------------------------------------
\* A call to run with a limit returns, whatever program it runs, whatever lies in the
\* ports and wherever the last call stopped (run, local_machine.tpp:333).
RunReturns == run.mode # "idle" ~> run.mode = "idle"

\* A machine that has consumed input and then finds none can be resumed ("it may be
\* resumed upon enqueueing further data", processor_model.hpp:31): the instruction that
\* lacked input is the next to be executed, and no byte will be read twice.
ResumesWhereItStopped ==
    [][result' = "kNeedsMMI" /\ delta = NoDelta /\ at > 0 =>
        regs'.PC = regs.PC /\ at' = at]_vars
=============================================================================
