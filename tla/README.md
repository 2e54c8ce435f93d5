# A verification development for libsim

libsim is a C++20 library for assembling and simulating the Pep/9 and Pep/10
teaching machines.  This directory holds TLA+ models of its core, the TLC
configurations that check them on small instances, and proofs for TLAPS.
Paths below are relative to the repository; `storage/pubsub.tpp:135` stands for
`src/libisa/components/storage/pubsub.tpp`, line 135.

## 1. The system

| Component | State | Operations | Model |
|---|---|---|---|
| Channel (`storage/pubsub`) | doubly linked events (value, publisher, displacement, "empty" flag), head, tail | `append_event`, `revert_event`, `clear`, `next_event`, `previous_event` | `Channel`, `ChannelLog` |
| Endpoint (`storage/pubsub`) | pointer to an event, publisher id | `new_endpoint`, `clone`, `set_to_head/tail`, `next_value`, `unread`, `append_value`, `unwrite` | `Endpoints` |
| Ports and their deltas (`storage/mmio`, `delta/delta_mmio`) | endpoint, cached value, number of accesses since the delta was taken | `read`, `write`, `get`, `set`, `clear`, `buffer_input`, `take_delta`, `apply_forward/backward`, iteration | `InputPort`, `OutputPort` |
| Pep/10 instruction set (`isa/pep10/pep10`) | none (a table built at start-up) | `init_mmap`, `opcode`, `is_opcode_unary`, `is_store` | `Pep10Isa` |
| Pep/10 arithmetic (cases of `isa/pep10/local_processor`) | none | one function per instruction | `Pep10Alu` |
| Machine interface (`components/machine`) | call in progress, cycle count, last `step::Result` | `step`, `run`, `init`, `clear_all` | `Stepping` |
| Pep/10 processor (`isa/pep10/local_processor`) | registers, status bits, breakpoints, call depth | `step`, `init`, operand decoding, every instruction | `Pep10Processor` |
| Pep/10 machine (`isa/pep10/local_machine`) | memory, ports, register and memory deltas, history, cycle count | `step`, `run`, `begin_simulation`, `clear_all`, `unwind_active_instruction`, `load_bytes`, writes, breakpoints | `Pep10Machine` |
| Block, map, range and read-only storage, layers of them, and their deltas (`components/storage`, `components/delta`) | bytes or spans, default value, open delta; devices with their offsets | `append_storage`, `write`, `set`, `load_bytes`, `clear`, `resize`, `take_delta`, `clear_delta`, `apply_forward/backward` | `RangeStorage`, `LayeredStorage` |
| Symbol tables (`symbol`) | per table and name: state, binding, value | `reference`, `define`, `mark_global` | `SymbolTable` |
| Assembly driver (`masm/driver`, `create_driver.cpp`) | work list, target and failed stages | `assemble_os`, `assemble_joint`, `do_loop`, the transform of each stage | `Assembler` |
| Project and frontend (`masm/project`, `masm/frontend`, `masm/registry`, `asmb/pep10/parser`) | tree of sections, dependency graph of macros, registered macros, messages | tokenizing with arguments, preprocessing, parsing | `Assembler` |
| Backend (`masm/backend`, `masm/ir`, `masm/elf/pack`) | addresses of lines, lines that are emitted, images | checks of `.BURN` and `.END`, address assignment, packing | `AssemblyLayout`, `Assembler` |
| Grammars, listings, ELF input and output, Pep/9 table, highlighting, node bindings | - | text, files, wrappers | not modelled (section 8) |

**How they interact.**  The host (a user interface, a test) calls the machine.
The machine owns the processor and the memory, a layered storage with the ports
on top of a read-only block on top of a block.  The processor reads and writes
memory by address.  Every storage records what an instruction changes in a
delta; after an instruction the machine takes all deltas into its history, or,
if it failed, applies them backward.  A port is an endpoint on a channel that it
shares with the outside: the host buffers input on it, or stands on it as a
reader of output, so a host and the machine meet in one event graph.

The assembler makes the image a machine starts from.  Its driver keeps a work list
of sections by stage and hands all that wait at the lowest stage to that stage's
transform; preprocessing adds sections that start again at the first stage.  An
operating system and a user program share one registry of macros - the first one's
system calls become macros of the second - and meet in the symbol tables.

**What is hard here.**  Nothing runs in parallel threads.  The difficulty is in
*interleavings of callers* - readers that stand on events another publisher
takes back or a `clear` replaces - and in *time travel*: an instruction that
fails part of the way is unwound, deltas must replay and undo exactly, and state
outside the deltas (caches, positions, the cycle count) must stay in step.
In the assembler it is *order*: sections that come later must not be overtaken,
names are used, defined and exported in any order by two programs, errors of
one section must stop all of them, and expansion has to end.
`PROJECT.json` lists the hazards, each at its line.

**What makes each part correct.**

* Channel: its live events are one doubly linked chain with unique times; a
  reader on a removed event always finds its way back, and never sees a value
  that was taken back; to its users the chain is a log.
* Ports: what was buffered stays reachable, undoing an instruction's reads or
  writes is exact, and an outside reader ends on what is left.
* Instruction set and arithmetic: decoding is the inverse of encoding, results
  and status bits are those of integer arithmetic.
* Symbol tables: what the tables of a program say of a name depends on which of
  them define and export it, not on the order in which they were assembled - except where one
  table defines for itself what another exports (section 6).
* Storage: layers are one memory to their owner, a delta undoes and redoes exactly
  what was written, and no byte of a range is ever another one's.
* Assembler: it ends; a stage sees a whole program; a circle of macros is found, and
  only then reported; success means that nothing was wrong; and an image lies
  where the addresses say.
* Machine: an instruction completes and is recorded, or fails and leaves
  nothing; its record replays it, and undoes it but for PC and N; `run` stops at the first thing it
  has to report and within its budget; a system call and its return restore the
  caller.

## 2. The modules

    ChannelLog <-refines- Channel <-extends- Endpoints <- EndpointsMC
                                ^--extends- InputPort  <- InputPortMC
                                ^--extends- OutputPort <- OutputPortMC
    Pep10Alu <- Pep10AluMC <- Pep10IsaMC -> Pep10Isa
    Pep10Alu, Pep10Isa <- Pep10Processor <- Pep10Machine <- Pep10MachineMC
                                                  | refines
                                               Stepping
    RangeStorage <- LayeredStorage <- LayeredStorageMC
    SymbolTable <- SymbolTableMC
    AssemblyLayout <- Assembler <- AssemblerMC
    SymbolTable <-instance- Assembler
    Proofs: ChannelProofs <- EndpointProofs (of Endpoints and InputPort), OutputPortProofs
            Pep10AluProofs, Pep10MachineProofs, LayeredStorageProofs,
            Assembler <- AssemblerInvariants <- AssemblerProofs -> SymbolTable
            AssemblerProofs <- AssemblerImageProofs

**Channel.**  `heap` maps addresses to events; addresses are handed out in
order and never reused, because the code's shared pointers keep an event that
somebody stands on.  `head` and `tail` are `_head` and `_tail`.  `AppendEvent`,
`RevertEvent` and `Clear` are the three members that change the graph;
`Step(e, link)` is `next_event`/`previous_event` with the loop over events whose
value was taken away.  What the code finds by walking the chain
(`mutable_event_at`, the search for the publisher's last write, the sweep over
the nodes to cut off) is stated in `Channel` by displacement; `EndpointsMC`
follows the links one by one and `WalksAgree` says that both find the same.

**ChannelLog** is the abstract channel: a sequence of (value, publisher), an
append, a truncation at a publisher's last write, a restart.  `Channel` is shown
to implement it through the refinement mapping "the live events by time".

**Endpoints** adds the publishers and subscribers.  Each endpoint holds the
address of its event and moves only when called.  Endpoint *k* has publisher id
*k*.  Looking up a displacement beyond the tail returns a null pointer in the
code; the model sets `crashed` where it would be dereferenced and stops there,
the reason why this module's runs do not check for deadlock.

**InputPort**, **OutputPort** put a port and its delta on a channel.
`reads`/`writes` name the events an open delta is about; the code only counts
them (`Count`, with the width of the stored value).  `undo` and `redo` are the
deltas the owner has taken and applied backward.  `OutputPort` splits
`apply_backward` into one revert per step, which is what the loop does, so that
its intermediate states are states of the channel.  An outside reader
(`Observe`) moves between the port's operations.

**Pep10Isa** is the instruction list, `Riproll` the table `init_mmap` computes
by `upper_bound` over it, `Opcode` the encoder.  **Pep10Alu** has one operator per
arithmetic instruction, on words of `Bits` bits.

**Pep10Processor** is the processor on a machine record
(registers, status, memory, port caches and logs, position in the input, open
delta, `val` for a value read, `fault` for an error on its way out).  `Then` is
the code's "if it failed, return": it makes each partial effect of an
instruction that fails part of the way explicit.  `Execute` is `step` up to the
result: fetch, decode, operand, dispatch.  **Pep10Machine** is `LocalMachine`: the
host's operations, the history `saved` (`_deltas`), and `ProcessorStep`, which
is all of `LocalProcessor::step`, with the taking of deltas or the unwinding.  A
port appears here as a log and a position, which is what `InputPort` and
`OutputPort` show of it when the machine alone reverts it.

**Stepping** is the contract of `step` and `run` for a host: how a call ends and
how the cycle count moves.  `Pep10Machine` implements it with the identity
mapping.

**SymbolTable** is one name in the leaf tables of a program: `entry[t]` is table
*t*'s entry, with the state, the binding, and whether the value points to another
table's entry.  One name is enough, because no operation looks at another, and so
is one level of tables, because every search starts from the root.  `Referenced`,
`Defined` and `Exported` are the three members' effects; `Define` and
`MarkGlobal` begin with the reference, as the code does.  `defines` and `exports`
are history variables: what was asked of each table, which the invariants compare
with what the entries say.

**RangeStorage** is the list of spans of a range: `GetFromSpans` and
`SetInSpans` are `get` and `set` with their passes over the list, the merge pass as
it is written.  An offset below every span makes `get` index in front of a
vector (`range.tpp:52`); what it may return is *any* value.

**LayeredStorage** is `Layered` with its devices as records (a block, a map or a
range, with a default value, the open delta and the read-only wrapper).
`DeviceAt` is the loop over the layers, `Write` and `Set` what reaches the device,
`TakeDelta` and `ApplyGroup` the grouped delta.  `origin` and `touched`
are history: the memory when the open deltas began, and what was changed since.
The owner applies a delta right after taking it, or lets it go; appends a part
once; and resizes a device only while no change is pending.

**AssemblyLayout** has what the stages compute over lines: substitution of
arguments, sizes, the order in which addresses are assigned, and the arithmetic of
`.ALIGN` and overflow in both directions.  **Assembler** is the driver and its
transforms.  `queue` is `work_queue_` by stage, `Take` the head of the loop,
`Requeue` its end; `Ignore`, `GiveUp` and `EndLoop` are the ways a round can go
without a transform; `phase` tells the two loops of `assemble_joint` apart.  Each
transform is one action over all that waits, as in the code, and calls the
operators named for what it does (`Children`, `Entered`, `Insane`, `Reached`,
`BaseOf`).  A name's entries in the two programs' tables are those of `SymbolTable`,
whose `Referenced`, `Defined` and `Exported` the parser calls in the code's
order.  A line is a record: what text becomes which line is a grammar.

Modules named `...MC` hold what a run needs besides: programs, images, walks,
reference definitions.  Operators under a comment "Mutant of X" are
plausible mistakes in X; replacing X by one of them makes TLC report the
property that `PROJECT.json` pairs it with.

## 3. The runs

| Run | What it explores | What it shows |
|---|---|---|
| `endpoints` | two endpoints that read, write, undo, clone and jump while the channel is cleared, five events ever | `ChanTypeOK`; `ChainIntact`: live events form one chain with agreeing links; `ForcedTransitionsEnd`: the skip loops end; `DeadStayDead`: a removed event never changes or returns; `ImplementsLog`: refinement of `ChannelLog`; `WalksAgree`; `StraysComeBack`: a reader whose event was undone or cleared gets back to the chain, whichever way it reads; `NoValueSkipped`; `NeverDeliversUndone` |
| `input_port` | four events, deltas of up to two reads, two kept | `NeverStranded`: pending input is reached by the next read, also across a clear; `IteratesOverReads`; `UndoRedoExact` |
| `output_port` | five events, two deltas, an outside reader | `ReaderCatchesUp`; `OpenWritesAreLast`; `IteratesOverWrites`; `UndoTakesWritesBack` |
| `pep10_instructions` | all 256 opcodes, all pairs of 5-bit words, both carries | `DecodingExact`: each byte decodes to the nearest instruction below it, and encoding inverts decoding; `AddIsSum`, `SubIsDifference`, `UnariesExact`: results and status bits against unbounded integers |
| `machine` | eleven programs, steps and runs, input at any time, breakpoint, restart, clear | `MachineTypeOK`; `RunStopsInTime`; `SystemCallRoundTrip`; `HistoryIsExact`: the delta of an instruction replays it, and undoes it but for PC and N; `FailedStepUnwinds`: a failed instruction leaves no trace in memory, output, status bits and registers, but for PC; `ImplementsStepping`; `RunReturns` (liveness) |
| `machine_opcodes` | one step of each of the 256 opcodes, after any mix of loads, host writes to RAM and ports, a register change and input, two of which may wait in the delta | `HistoryIsExact` for every instruction |
| `storage` | a range, a block that overlaps it and a read-only map behind both, appended in any order; two changes between deltas, with fills, loads that wrap, resizes | `ActsAsOneMemory`; `DeltasExact`; `SpansNeverLie`: a range forgets, but what it holds is right |
| `assembler` | some seven thousand requests: operating systems alone, and user programs of up to three lines with four operating systems; every target, missing transforms | `StagesInStep`; `CircularExactly`; `SuccessIsSound`; `ImageInPlace`; `AssemblyEnds` (liveness) |
| `symbols` | one name in three tables, two definitions in each, any order of reference, definition and export | `SymTypeOK`; `StatesCount`: the state of an exporter, and of a local name, counts its definitions; `ImportersFollow`: a table without definitions of its own has the sole exporter's state; `DuplicateExportsFlagged`: two exporters are marked, for good |
| `pep10_sub`, `machine_resume`, `storage_range` | as `pep10_instructions`, `machine` (one program) and `storage` (a range alone) | disagreements, section 6 |

**Bounds, and why they are enough.**  `MaxEvents` bounds the events ever
allocated: five let two publishers interleave writes, undo across each other and
write over the undone part, with a clear in between; every link the
code sets involves at most three neighbouring events.  Five are enough for two
endpoints (a third would only stand where the two can).  A port needs two deltas
so that one of them is not the newest, and two accesses per delta so that the
first is not the last.  `CountMod` is the code's own 256.  `Bits = 5` is the
shortest word on which no two of sign, carry and the byte comparison coincide,
and the proofs cover every width.  The machine runs in 48 bytes
(`MaxOffset = 47`): the ports and the vectors lie next to each other, so that
system stacks and stores can run into both; six cycles take the longest program
through call, system call, return and power-off; two bytes of input let an
instruction find the first and lack the second.  `MaxPending` bounds changes
the host makes between instructions and the output; `HasRoom` is the guard.
A word whose second byte wraps around from address 65535 to 0 does not occur in so small a memory; the
theorems cover it, for memories up to 64K.  With two (`machine_opcodes`) the host can write RAM and then load bytes over it.
Four bytes of address space, of which the layers reach three at first, hold a span, a
gap and a span, an overlap, a device beyond the end and a wrapped load; two changes
between deltas are a change and one that overrides it (three in `storage_range`).
Sixteen addresses hold a handful of lines, an overflow at either end and
paddings of every length below four; the lines of `AssemblerMC` are one of each kind that a
stage treats differently, and the macros one per way of nesting: none, one level with
padding, one that invokes its argument, one that invokes itself.
Three symbol tables are two that export a name and one that uses it; a third
definition leaves the state of the second (`MaxDefines = 2`).

**The programs** (`Pep10MachineMC`): `Echo` waits for input; `Pair` reads two
bytes with one instruction; `PowerOff` writes the power-off port and fails in
the next store; `Calls` nests a system call in a subroutine, with the
system stack in RAM, overlapping the ROM, and running into the input port; `Count` loops, stores on a
stack that wraps around and ends in an illegal instruction; `Astray` branches
to where there is no memory, `NoOperand` to the last byte, behind which an operand is missing;
`Pops` returns from a system call that never was, off the input port or the end of memory;
`Thrown` stores to an immediate, which throws, and goes on behind it.  So instructions fail
after a store to memory, a byte written to a port, registers and status bits popped
off a stack, input read and found missing, and in the fetch of an operand, each with the open
delta in a different state when it is unwound (`FailedStepUnwinds`); and the one after an
exception inherits what that left in the delta.

**Fairness.**  Two liveness properties need some, both of a loop in one thread
that goes on by itself once called.  `RunReturns` rests on weak fairness of `RunStep`:
`run` (`local_machine.tpp:333-345`) calls `step` until it returns.  `AssemblyEnds`
rests on weak fairness of `AsmNext`: `do_loop` (`driver.tpp:50-88`) works until its list
is empty.  Both are written out as "infinitely often idle, or infinitely often a
step", because TLC enumerates ENABLED of such large actions too slowly; for
`RunStep` a step that failed before counts as idle, so that a run which tries
the same failing instruction for ever is not ruled out by the assumption.
`Returned`, a stutter, lets TLC check for deadlock: before the end some action of the assembler is
always possible.  The host is never obliged to call anything, and no other action
is fair.  Deadlock is checked wherever the system cannot stop; the runs that switch it off are those
whose bound, or a crash, ends the behaviour.

## 4. The proofs

* **`ChannelProofs`** proves, for any number of events, publishers and values,
  the type, `ChainIntact`, `OneEventPerTime`, `ForcedTransitionsEnd`,
  `DeadStayDead` and the refinement of `ChannelLog` (`GraphImplementsLog` for the steps
  with their operations, `GraphRefinesLog` for the whole specification).  None of the invariants is
  inductive.  `Inv` joins them with `Aged`: live events are allocated in the order of
  their times; an event of time 0 is never emptied (a revert always keeps the
  head); a replaced head leads to another event of time 0.  The first gives that
  a forced transition, which goes back along the chain, leads to an *older*
  event, hence that the loops end; the other two that there is an event for
  them to end on.  There is one lemma per operation (`AppendInv`, `RevertInv` by
  way of the cut, `ClearInv`), and for the refinement one per abstract action
  that describes the log before and after.
* **`EndpointProofs`** proves that
  `next_value` skips nothing, that a reader is never given an event that was reverted (`UndoneIsNeverDelivered`),
  and that it finds back from wherever undos and clears have left it (`StraysAlwaysComeBack`).  `EpInv`
  adds to `Inv` that every endpoint stands on an event that was allocated.  By `StraysStep` a step off the
  chain leads onto it or to a replaced head, which holds a value, and from there to a younger
  one, so that each call gets a reader past one clear.  Endpoints
  implement the log because they use nothing but the channel's operations.
  `WalksAlwaysAgree` compares the code's walks over the links with `Channel`'s statements
  by time.  The walks are recursive functions; `LoopShrinks` proves that such a function exists when
  each step lowers a rank, here the number of live events ahead or behind.
* Also in **`EndpointProofs`**, of the input port: `NeverStranded`, `UndoRedoExact` and `IteratesOverReads`.  Nothing is
  ever reverted on an input channel, so `OnlyCleared` says that an event off the chain leads to a
  head, and `Recorded` that a byte a delta has read is still on the chain right after the
  event it was read from.
* **`OutputPortProofs`** proves `ReaderCatchesUp`, `OpenWritesAreLast`, `UndoTakesWritesBack` and
  `IteratesOverWrites`.  That each revert of an undo takes the delta's own event needs
  `StackInv`: seen from the top of the undo stack, a delta whose first event
  is still on the chain has no more events above it than the deltas above it have writes.
* The two statements about undoing and the two about iterating suppose that no open delta collects `CountMod` accesses
  (`[]CountFits`): the code's counter is 8 bits wide and wraps (`delta_mmio.hpp:56`, `:96`), and then they
  are false.  The runs keep deltas shorter, as instructions do, which access a port a few times.
* **`Pep10AluProofs`** proves `AddIsSum`, `SubIsDifference` and `UnariesExact` for words of every
  width: a wrapped sum is the sum less at most one modulus, and comparing it with an operand
  tells which; a case split on the signs gives V.  And `DecodingExact`: the binary search
  is a recursive function on ranges of the list, defined where `upper_bound` gets to; that it exists, and that each such function
  finds the first entry above a byte (`SearchFinds`), follows from the order of the bit patterns (`AboveIs`), and the encoder
  comes back to the byte because no two entries share a mnemonic, and no class has more modes than there are
  bytes up to the next entry (`Offsets`, `ModesDiffer`).
* **`Pep10MachineProofs`** proves that the Pep/10 machine implements `Stepping`,
  for every memory map, image, limit and host.  The argument is about outcomes only:
  a completed instruction ends in one of three results and counts, a failed
  one in one of three others and does not, and no host operation does either.
  `RunOnlyNominal` and `RunsStopInTime` follow with `RunHasBudget`: a run that has not made
  its first step began below the host's bound.

  The rest is about what instructions do, and there the induction is over an instruction's
  accesses.  *What every single access keeps, every instruction keeps*: `ExecutedIn` takes any set
  of machines that reads do not leave (`Reads`) and writes lead from one to the next (`Follows`), and concludes that `Execute` does not leave them either, for each of the
  instructions, addressing modes and failures.  With all machines as the set it gives `MachineTypeOK`.
  `SystemCallRoundTrip` is shown from what the ten bytes of a frame are
  (`CallFrames`, `ReturnUnframes`), with the stack anywhere in RAM, also where it wraps around.

  Last come `HistoryIsExact` and `FailedStepUnwinds`.  Here the sets of `ExecutedIn` say how the machine relates to the one the instruction began
  at: its delta replays (`Replaying`), gives memory and output back (`MemoryBack`) and registers and
  status bits (`RegistersBack`).  Undoing goes through the changes in the order they were made, so it
  is right only for what was changed once.  This is why the sets are indexed by the names and
  addresses written so far (`Early`): an instruction writes none of them twice but PC, and N
  a second time only as its last access (`CPWr`).  So while it may still fail, all but PC comes
  back, and at its end (`Late`, `NearlyBack`) all but PC and N.  Replaying also goes in order,
  which is right for changes made any number of times.  The invariant is
  `MachineTypeOK` with `Pending`: redoing the changes that wait between instructions changes
  nothing in registers and status bits.  Deltas are sequences, undone and redone by
  recursive functions; the lemmas on loops of assignments (`UndoLoop`, `RedoLoop`) show that these
  functions exist and how one change more acts.
* **`AssemblerProofs`** proves `StagesInStep`, for every text, macro and request and whichever stage fails.
  The invariants it needs are stated in `AssemblerInvariants`, which has no proofs.
  `AsmInv` says what the driver's list looks like whenever something in it can still go on: either
  the three stages that open up macros hold the program's own sections, and nothing is further
  on (`Expanding`); or all of them are at one of the two stages that look at the whole program, and nothing
  is anywhere else (`Whole`); or there is an image (`Done`).  After a failure nothing can go on
  (`Stuck`), because the target moves back to the stage that failed.  The rest is about the
  tree: new sections belong to the program of the section they come from, and the user
  program's stay out of it while the operating system is assembled.  `SuccessIsClean` is the first half
  of `SuccessIsSound` (the rest is below): as long as nothing failed, what was logged is what the parser forgets
  (`OnlyForgotten`), for a section is accepted only if a macro follows on every line that was rejected.
  `NothingCircularIsParsed` is about the graph of invocations, which the preprocessor inspects only *before* it
  opens a section: what the last section of a batch adds is not looked at.  `CircleInv` says why that
  is enough: as long as the program can still be opened up nothing of it is parsed, and a circle in
  its graph means that sections wait at one of the first two stages, at which it will be found; for an edge
  that closes a circle comes with a new section (`PreprocessOpens`).

  `CircularAlwaysExact` says the same of the texts, where no graph is mentioned: `CircularExactly`.  What invocations
  lead to is a recursive function on sets; the words a text is made of are finitely many and so are the
  invocations (`CallsAreFinite`), so the recursion ends and yields the least set closed under `Callees`
  (`ClosureIs`), after which only that set is argued with (`Leads`).  `TreeInv` says how sections and texts are
  related: a program's lines are those requested, a macro's section is for a line of the one above, and its
  lines are the macro's, from the tokenizer on with that line's arguments in place of the parameters; and macros of
  system calls invoke nothing.  Then the graph
  is right in both directions.  Each edge is a section and one opened up for it (`EdgesSound`), so each
  class in the graph is led to by the program's lines (`ClassesLead`), and a core without leaves, finite, has a
  macro that leads back to itself (`CircleInCore`, `CyclicIsCircular`): what is reported is circular.  And before
  the parser starts, every section has been opened up (`Complete`), so all that a circular
  program leads to is in its graph (`CircularIsCyclic`), which by `CircleInv` has no cycle then.  The section
  that is reported is a macro's and not the program itself, because the program waits
  `Alone`, when its graph is empty.

  `SuccessAlwaysSound` is `SuccessIsSound` whole: also that each operand is resolved.  A state of
  `symbols` only matters as long as no message was logged, so `NameInv` speaks of that case.  The entries of
  a name then fit the lines that have been read (`Fits`): which program defines it where, which export it, and
  what is left of an import when its owner comes to it later.  A fact about one operation is then a fact about
  entries that fit, a place more and an export more (`UsedFits`, `DefinedFits`, `ExportedFits`,
  `EnteredFits`); a text enters its lines one after another (`EnteredSteps`, `TextFits`), and the places in
  the joined text of all sections are those in the sections because no section waits twice (`TidyInv`,
  `FlattenedPlaces`).  `AllRead` and `Passed` say that without a message each section is parsed line by line,
  none left out, before anything looks at the whole program.  That its operands were really looked at is the
  assignment of addresses: it goes through a section's lines from either end and through each macro where it is
  invoked, a recursive function that is shown to exist from the last section down (`WalkExists`), goes through all
  sections (`AllWalked`, as each has its line, `OneEach`), and is broken off only after an overflow, which is
  a message (`AllReached`).  From no complaint about any line and entries that fit it follows by cases over
  who exports the name that it has one definition, at home or abroad (`OneDefined`).
* **`AssemblerImageProofs`** proves `ImageInPlace`: a line of an image that is packed lies at the address assigned to it.
  Nothing in the code relates the two, because images are packed without looking at addresses; and forward
  and backward differ in everything but the result.  The assignment is a path of addresses along
  the walk through a program, each line leading from one address to the next (`Laid`); the code makes it that by
  looking at each line once (`WalkApart`) and stopping nowhere (`CursorLays`, `AssignedLaid`).  An image is a path of positions along
  what is packed (`Follow`).  Positions stand for addresses (`Stands`): forward for themselves, backward,
  where a cursor stands *on* the last byte it took, for the one before.  Only modulo the size of the address space, because an image may
  go on from the top of memory to its bottom.  Then the second path runs along the first, line by
  line (`LineBetween`), macro by macro (`TurnBetween`), and, from the innermost macros outwards, section by
  section (`SectionBetween`, downwards from the last section, as a macro's section comes after the one that invokes it).
  A line takes as many bytes as it says except for an `.ALIGN`, whose padding depends on where it is, in
  the direction it was assigned in (`PaddedUp`); a macro takes what is packed below it, so a walk adds
  up to what its program weighs (`SectionWeighs`, `MacroWeighs`), and backward an image begins where its walk ended (`BackwardBase`).
  What is left out of an image is what lies before the `.BURN` of an operating system (`FromThereOn`), which is
  why a path from there on is enough.

  The invariant, `ImageInv`, says what each stage leaves for the next.  Lines are `WellRead` from the
  parser on, also if some of them were rejected and replaced (`ParsedWell`); they go into the image by their kind until the
  program is checked (`Unchecked`), which may be after its neighbour has been assembled (`ToBeChecked`), and
  after that all but those before the `.BURN` do (`Sane`).  The assignment then leaves a path through each
  program (`LaidOut`) and packing leaves what is packed (`PackedUp`).  That all programs are checked before any is
  laid out is the driver's doing: no stage after the checks is gone on with before the user program has come (`TargetFits`).

  An attempt to prove it showed that an earlier form of `ImageInPlace` was wrong for an operating system that
  has only empty blocks below a `.BURN` of the last address, and too weak for one that goes on from the top of
  memory; both are in it now.
* Also in **`AssemblerProofs`**: the four invariants of `symbols` for any number of
  tables and definitions.  They are inductive together with `Bindings`: only a table that
  exported the name is global in it, a sole exporter is, some exporter is, and
  before the first export every entry is local; and with `ImportersKnown`, the stronger form of
  `ImportersFollow`: any other table that uses the name has the sole exporter's state, or, if it has a definition of
  its own, possibly the mark of multiple ones.  `ReferencedIs` and
  `ReferencedAlone` say what a reference yields, then there is a lemma per operation.
* **`LayeredStorageProofs`** proves `ActsAsOneMemory` and `DeltasExact` for any number of devices of any
  kind and size, overlapping in any way.  Every step but an append leaves the layers where they were
  (`Kept`), so an address is answered by the device that answered it before (`PlacesKept`), and a
  device appended answers only where none did (`AppendHides`, `AppendFinds`).  The invariant about deltas
  explains the memory byte by byte (`Explained`): either one open change says what the byte was when the
  deltas began and what it is, or there is no change and the two are the same.  That is so as
  long as no byte was touched twice, because only what was touched can have a change
  (`NotTouched`).  A delta that was taken explains the memories at its two ends in the
  same way, so applying it leads from one to the other (`ApplyIs`).  Bytes of a range are not part of the
  memory here, as in the runs: what a range forgets is section 6's.  That a range holds no wrong byte
  (`SpansNeverLie`) rests on spans that ascend with room between them (`SpansSound`): then a byte that is
  set lies in one span, behind one or in none (`SetInsideIs`, `SetBehindIs`, `SetApartIs`), and only the span it goes
  to can come to meet the one after it, so the merge pass leaves at most one span out (`MergedIs`).

Assumptions: those named in the modules (`ChannelAssumption`, `InputAssumption`, `OutputAssumption`,
`EndpointsAssumption`, `BitsAssumption`, `MapAssumption`, `MachineAssumption`, `TablesAssumption`, `AssemblerAssumption`,
`StorageAssumption`), which say what
kind of thing each constant is, and that TLC evaluates on the runs.  `MapAssumption`: ports and
vectors lie in the address space, and apart.  `BitsAssumption` also states two equations
between powers of two that hold of every width (`Sign` is twice `2 ^ (Bits - 2)`, the modulus twice `Sign`), because the provers know
nothing of exponents.
`AssemblerAssumption`: texts are lines of one of the kinds the stages tell apart, made of finitely many words; a macro
takes as many arguments as there are names of parameters (two); and a system call is declared by its name, not by
a parameter, in place of which a macro's line could be given a number.  The operand of a `.BURN` is an address, and
no `.ALIGN` is 0, by which the program would divide.

**Only model-checked.**

* Liveness (`RunReturns`, `AssemblyEnds`), which the prover does not do.

Every invariant the runs check is a theorem as well.

The library's induction theorems take operators as parameters, which the provers cannot
instantiate.  Where a proof needs induction over a sequence or a walk, it takes the least
counterexample instead (`Least`, `Upwards`, by well-foundedness of the naturals).

## 5. Abstractions

* A channel's publisher ids are 16 bits wide and never run out in the bound.
* The machine has `enable_history = true`; without it nothing is recorded and
  nothing can be unwound.
* Registers are one byte-pair each: the register bank's byte order is a
  matter of the block storage.  The call depth (displayed only) is left out.
* `step` after a failed *operand* fetch asks the successful instruction fetch
  for its error (`local_processor.tpp:67`), which is undefined: the model allows every outcome
  but completion.
* The transaction and instruction locks of the interface guard empty functions.
* Symbol tables: locations, and `adjust_offset` that shifts them, are left out.
* Layers: miss policies answer an access, and no state follows from it but whether
  `load_bytes` goes on.  `device_at` and other look-ups are left out, and so is
  iterating over a grouped delta, whose end is its beginning (`grouped.tpp:125-137`).
* Assembler: a symbol's value is its line's place (`places`); a line's object code is the line;
  a program has at least one line (for an empty text the checks read the last line of an empty
  list); constants are in range; a macro's arguments have no trailing comma.
* The tokenizer puts arguments in place of `$1` and `$2` one after the other and as text, so that a `$1` also
  matches in `$10` and a `$2` that came with the first argument is replaced again; `Substitut` replaces
  whole words, all at once.  No property depends on which.
* `UndoTakesWritesBack` leaves out the undoing of a delta that was undone and redone before: redoing
  does not write the events again, so undoing a second time takes as many older writes of the port.
* The properties of the assembler leave out what section 6 says goes wrong: parse errors before
  a macro's line, names that both programs export, and operating systems that are too long or
  begin with padding.
* Device names, the ELF file and text are not in the models; a machine
  starts from a memory image.

## 6. Where code and documentation disagree

Four disagreements are shown by three runs:

* `pep10_sub`: SUB negates its operand, then applies the overflow rule of
  addition to the operand as it was (`local_processor.tpp:621`).  0 - 1 sets V.
* `machine_resume`, twice: deltas are applied backward in the order they were made
  (`vector.tpp:93`), so an instruction with an operand, which changes PC twice, resumes
  at its own operand when it was unwound for lack of input; and a read that finds no
  input is counted in the delta (`mmio.tpp:67`), so unwinding steps back over a
  byte consumed earlier.  The counterexample shows both.  For the first reason a completed instruction's
  delta does not give back PC either, nor N after `CPWr`, which writes it twice: `HistoryIsExact` asks for all the rest.
* `storage_range`: the merge extends a copy of the lower span and erases the upper one
  (`range.tpp:113-118`).  Writing byte 1 and then byte 0 loses byte 1.

Others were met while modelling; the models contain the behaviour and the
checked properties are stated so as not to depend on it:

* The power-off port's cached value is not part of the delta
  (`local_machine.tpp:48`): after an unwound write the machine reports it halted
  although no value "has been written to the power off port" (`:46`).
* A name that one table defined locally before another exported it is turned into
  an import (`symbol/table.tpp:143`) without the mark that it gets in the other order (`:101`);
  `symbol/types.hpp:100` calls the combination an error in either order.  The mark of such
  an importer is also lost at its next reference or the exporter's next definition
  (`:81`, `:114`).  This is why `ImportersFollow` speaks of tables without definitions of their own.
* Two tables that both export a name and go on referring to it can point at each
  other's entries (`symbol/table.tpp:77`), where `value()` never returns (`symbol/value.tpp:143`).
* `clone` looks its event up by displacement (`pubsub.tpp:27`), so the clone of
  an endpoint whose event is gone points elsewhere; `pubsub.hpp:71` says "the same event".
* An undo by an endpoint whose event lies beyond the tail dereferences a null
  pointer (`pubsub.tpp:139`); `pubsub.tpp:102` promises the head.
* Neighbouring events own each other, so a channel's events are never freed;
  `pubsub.hpp:28` says they are.
* After `clear` the first read of an input port delivers the fill value
  (`mmio.tpp:33`).
* A port delta's iterator starts from the tail of the channel
  (`delta_mmio.tpp:111`, `:239`), so it is right only for the last accesses.
* If the first instruction after `begin_simulation` fails, the start-up's SP and
  PC are unwound with it (`local_processor.tpp:136`).
* Changes that wait in a delta between instructions become part of the next instruction's: what the
  host wrote to memory, and what an instruction that threw had done.  If the host writes a byte
  and then loads another over it, the next saved delta redoes the write, so that "replay"
  does "differ from execution" (`vector.hpp:44`); reads that an exception left in the delta are
  counted again.  `Replays` therefore supposes of memory that redoing what waits changes nothing, and of
  the input position that no reads wait; of registers and status bits it holds without condition.
* A system call leaves SP ten below the system stack; the header of
  `SCALL,i.cpp` says nine.
* Storing immediate throws (`local_processor.tpp:987`); the comment at `:965`
  promises an error that is not thrown.
* The call depth is 0 after every return: `std::min(0, ...)` (`local_processor.tpp:279`).
* `run` without a limit cannot be instantiated (`local_machine.tpp:325`).
* `append_storage` compares with `2 << 16`, which no two 16-bit offsets exceed
  (`layered.tpp:31`): a device may reach beyond the address space, where nothing reads it.
* A macro's line sets the parser's verdict anew (`parser.cpp:286`): an error earlier in the
  section is logged, its line dropped, and assembly goes on and succeeds.
* A circle of macros is put down to the parent of the section that is preprocessed next
  (`preprocesser.tpp:58-66`), which may be an innocent sibling.
* A line that ends exactly at address 0 passes the backward overflow test
  (`assign_addr.tpp:189`), after which addresses go on from the top: an
  operating system longer than its room assembles.
* An operating system whose first emitted line is an `.ALIGN`, or a macro that contains one,
  is packed at another address than its first byte's (`pack.tpp:79`), since padding laid
  out backward takes up one address more than it emits (`directives.tpp:189-195`).  Its padding
  also aligns the end of the line before it rather than the beginning of the one after.
* Forward, no line can end at the last address (`assign_addr.tpp:122`).
* `.ALIGN` accepts any even number, and 0, by which it then divides (`parser.cpp:462`; texts with an `.ALIGN` of 0 are
  not in the model).
* A name that both programs export is taken for defined although neither defines it; a
  name that is exported and never defined is reported only where it is used.
* `ReadOnly::clear` ignores its fill value (`read_only.tpp:22`).

## 7. The plan

Done, in order: the channel and its log; endpoints; the two ports; instruction
set and arithmetic; stepping; processor and machine; symbol tables; storages and
their deltas; the assembler from lines to images; proofs of all safety properties of channel,
endpoints, ports, instruction set, arithmetic, machine, symbol tables and layers; and of the assembler, that its stages stay
in step, that circles are found exactly, that success is sound and that images are in place.  Every invariant
of the runs is proved; what is left to the runs is liveness.

## 8. Not modelled

The grammars of tokenizer, parser and macro definitions with their range checks
(sequential, and all about text), object code, listings and line numbers, formatting
(text), ELF input and output (an external library's data), clearing the macro registry
(never called during assembly), the register bank's byte order and `write_csr`
(other storage of the same operations), device names and look-ups, the
Pep/9 table (the same search on other data, with no processor), the
highlighter (regular expressions), the node bindings and the sample (wrappers).
Most of the repository's lines are bundled libraries (`dependencies/`), which are not its own.
