------------------------------ MODULE Stepping -------------------------------
(***************************************************************************)
(* What a machine promises a host that steps or runs it                    *)
(* (components/machine/processor_model, step::Result; run of               *)
(* isa/pep10/local_machine): how each call ends and how the cycle count    *)
(* moves, whatever the instructions do.                                    *)
(***************************************************************************)
EXTENDS Naturals

CONSTANTS MaxCycles,    \* bound: the host stops stepping there
          Limits        \* values of max_timesteps

VARIABLES run,          \* the call to run in progress: [mode, limit]
          cycles,       \* completed instructions
          result        \* what the last call to step returned, "none" after another call

steppingVars == <<run, cycles, result>>

Idle == [mode |-> "idle", limit |-> 0]
Completed == {"kHalted", "kBreakpoint", "kNominal"}
Failed == {"kNeedsMMI", "error", "throw"}

\* An instruction completes and counts, or fails and does not.
Instruction ==
    \/ cycles' = cycles + 1 /\ result' \in Completed
    \/ cycles' = cycles /\ result' \in Failed

SteppingInit == run = Idle /\ cycles = 0 /\ result = "none"

Step == run.mode = "idle" /\ cycles < MaxCycles /\ Instruction /\ UNCHANGED run

BeginRun(limit) ==
    /\ run.mode = "idle" /\ cycles < MaxCycles
    /\ run' = [mode |-> "first", limit |-> limit]
    /\ result' = "none" /\ UNCHANGED cycles

Goes(outcome, count) == outcome = "kNominal" /\ count < run.limit

RunStep ==
    /\ run.mode # "idle"
    /\ Instruction
    /\ run' = IF Goes(result', cycles') THEN [run EXCEPT !.mode = "going"] ELSE Idle

\* Any other call of the host; a restart resets the count.
OtherCall ==
    /\ run.mode = "idle" /\ result' = "none" /\ UNCHANGED run
    /\ cycles' \in {0, cycles}

SteppingNext == Step \/ RunStep \/ OtherCall \/ \E l \in Limits : BeginRun(l)

SteppingSpec == SteppingInit /\ [][SteppingNext]_steppingVars

-----------------------------------------------------------------------------
SteppingTypeOK ==
    /\ run \in {Idle} \cup [mode: {"first", "going"}, limit: Limits]
    /\ cycles \in 0 .. MaxCycles
    /\ result \in {"none"} \cup Completed \cup Failed

\* Between two steps a run has only nominal steps behind it and budget left: it stops
\* at the first thing it must report, and never counts past its limit.
RunOnlyNominal == run.mode = "going" => result = "kNominal" /\ cycles < run.limit
=============================================================================
