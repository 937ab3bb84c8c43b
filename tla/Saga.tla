-------------------------------- MODULE Saga --------------------------------
(***************************************************************************)
(* The saga orchestrator of core_saga.mbt: steps with a forward action and *)
(* a compensation, run by execute or by execute_with_retry.  Everything is *)
(* in memory; nothing is stored and no crash is recovered from.  The JSON  *)
(* passed from handler to handler is left out.                             *)
(*                                                                         *)
(* pc: "idle"       no execute is running                                  *)
(*     "forward"    the forward action of step i is called                 *)
(*     "compensate" the compensations of completed_indices[1..left] remain *)
(***************************************************************************)
EXTENDS Integers, Sequences

CONSTANTS Names,      \* names of registered handlers
          MaxSteps,   \* bound on the number of steps added
          Retries     \* values of max_retry execute_with_retry is called with

ASSUME BoundAssumption == MaxSteps \in Nat
ASSUME RetriesAssumption == Retries \subseteq Int

VARIABLES
    registry,           \* the names the engine has a handler for
    steps,              \* for each step, is there a forward action to call
    pc,
    mode,               \* the method that runs: "execute" or "execute_with_retry"
    max_retry,
    i,                  \* the step, from 1
    attempt,            \* attempts of step i that have failed
    completed_indices,
    left,
    result,             \* what the last execute returned
    applied,            \* history: steps in effect since execute was called
    calls               \* history: forward calls of the step i

build   == <<registry, steps>>
control == <<mode, max_retry>>
vars    == <<build, pc, control, i, attempt, completed_indices, left, result,
             applied, calls>>

TypeOK ==
    /\ registry \in SUBSET Names
    /\ steps \in Seq(BOOLEAN)
    /\ pc \in {"idle", "forward", "compensate"}
    /\ mode \in {"execute", "execute_with_retry"}
    /\ max_retry \in Int
    /\ i \in Nat
    /\ attempt \in Nat
    /\ completed_indices \in Seq(Nat)
    /\ left \in Nat
    /\ result \in {"none", "ok", "failed", "compensation_failed"}
    /\ applied \in SUBSET Nat
    /\ calls \in Nat

Init ==
    /\ registry = {} /\ steps = <<>>
    /\ pc = "idle" /\ mode = "execute" /\ max_retry = 0
    /\ i = 0 /\ attempt = 0 /\ completed_indices = <<>> /\ left = 0
    /\ result = "none" /\ applied = {} /\ calls = 0

-----------------------------------------------------------------------------
(* Building the saga, between executions. *)

Building == pc = "idle" /\ Len(steps) < MaxSteps

register(n) ==
    /\ pc = "idle"
    /\ registry' = registry \cup {n}
    /\ UNCHANGED <<steps, pc, control, i, attempt, completed_indices, left, result,
                   applied, calls>>

step ==
    /\ Building
    /\ steps' = Append(steps, TRUE)
    /\ UNCHANGED <<registry, pc, control, i, attempt, completed_indices, left, result,
                   applied, calls>>

\* The handler is looked up now; a missing one is replaced, for good, by a
\* forward action that always fails.
step_by_name(n) ==
    /\ Building
    /\ steps' = Append(steps, n \in registry)
    /\ UNCHANGED <<registry, pc, control, i, attempt, completed_indices, left, result,
                   applied, calls>>

-----------------------------------------------------------------------------
(* execute and execute_with_retry. *)

\* execute makes one attempt per step, as execute_with_retry does for 0.
Call(m, n) ==
    /\ pc = "idle"
    /\ m = "execute" => n = 0
    /\ pc' = "forward" /\ mode' = m /\ max_retry' = n
    /\ i' = 1 /\ attempt' = 0 /\ completed_indices' = <<>> /\ left' = 0
    /\ result' = "none" /\ applied' = {} /\ calls' = 0
    /\ UNCHANGED build

AtStep == pc = "forward" /\ i <= Len(steps)

\* The handler is called and returns Ok.
ForwardSucceeds ==
    /\ AtStep /\ attempt <= max_retry /\ steps[i]
    /\ completed_indices' = Append(completed_indices, i)
    /\ applied' = applied \cup {i}
    /\ i' = i + 1 /\ attempt' = 0 /\ calls' = 0
    /\ UNCHANGED <<build, pc, control, left, result>>

\* Mutant of ForwardFails: the attempt is not counted.
ForwardUncounted ==
    /\ AtStep /\ attempt <= max_retry
    /\ attempt' = attempt /\ calls' = calls
    /\ UNCHANGED <<build, pc, control, i, completed_indices, left, result, applied>>

\* The handler is called and returns Err: retry_until counts the attempt.
ForwardFails ==
    /\ AtStep /\ attempt <= max_retry
    /\ attempt' = attempt + 1 /\ calls' = calls + 1
    /\ UNCHANGED <<build, pc, control, i, completed_indices, left, result, applied>>

\* Mutant of GiveUp: one attempt too few.
GiveUpEarly ==
    /\ AtStep /\ attempt >= max_retry /\ attempt > 0
    /\ pc' = "compensate" /\ left' = Len(completed_indices)
    /\ UNCHANGED <<build, control, i, attempt, completed_indices, result, applied, calls>>

\* The attempts are used up: the completed steps are compensated.
GiveUp ==
    /\ AtStep /\ attempt > max_retry
    /\ pc' = "compensate" /\ left' = Len(completed_indices)
    /\ UNCHANGED <<build, control, i, attempt, completed_indices, result, applied, calls>>

Commit ==
    /\ pc = "forward" /\ i > Len(steps)
    /\ result' = "ok" /\ pc' = "idle"
    /\ UNCHANGED <<build, control, i, attempt, completed_indices, left, applied, calls>>

\* Mutant of CompensationSucceeds: in the order of execution, not in reverse.
CompensationForward ==
    /\ pc = "compensate" /\ left > 0
    /\ applied' = applied \ {completed_indices[Len(completed_indices) - left + 1]}
    /\ left' = left - 1
    /\ UNCHANGED <<build, pc, control, i, attempt, completed_indices, result, calls>>

\* Mutant of CompensationSucceeds: the loop condition is off by one.
CompensationOneTooMany ==
    /\ pc = "compensate" /\ left >= 0
    /\ applied' = IF left > 0 THEN applied \ {completed_indices[left]} ELSE applied
    /\ left' = left - 1
    /\ UNCHANGED <<build, pc, control, i, attempt, completed_indices, result, calls>>

\* compensate goes through completed_indices from its end.
CompensationSucceeds ==
    /\ pc = "compensate" /\ left > 0
    /\ applied' = applied \ {completed_indices[left]}
    /\ left' = left - 1
    /\ UNCHANGED <<build, pc, control, i, attempt, completed_indices, result, calls>>

\* Mutant of CompensationFails: the failure is reported as a rollback.
CompensationFailureDropped ==
    /\ pc = "compensate" /\ left > 0
    /\ pc' = "idle" /\ result' = "failed"
    /\ UNCHANGED <<build, control, i, attempt, completed_indices, left, applied, calls>>

\* The first failing compensation ends the rollback. execute wraps the
\* error; execute_with_retry drops it and returns the forward error.
CompensationFails ==
    /\ pc = "compensate" /\ left > 0
    /\ pc' = "idle"
    /\ result' = IF mode = "execute" THEN "compensation_failed" ELSE "failed"
    /\ UNCHANGED <<build, control, i, attempt, completed_indices, left, applied, calls>>

RolledBack ==
    /\ pc = "compensate" /\ left = 0
    /\ pc' = "idle" /\ result' = "failed"
    /\ UNCHANGED <<build, control, i, attempt, completed_indices, left, applied, calls>>

-----------------------------------------------------------------------------
Run ==
    \/ ForwardSucceeds \/ ForwardFails \/ GiveUp \/ Commit
    \/ CompensationSucceeds \/ CompensationFails \/ RolledBack

Next ==
    \/ \E n \in Names : register(n) \/ step_by_name(n)
    \/ step
    \/ \E n \in Retries \cup {0} : Call("execute", n) \/ Call("execute_with_retry", n)
    \/ Run

Spec == Init /\ [][Next]_vars

\* A running saga is run to its end: execute is one synchronous call and the
\* handlers return.
FairSpec == Spec /\ WF_vars(Run)

-----------------------------------------------------------------------------
\* Rollback is in reverse order: at every moment the steps in effect are the
\* first few of the saga, however far it got before it failed and wherever
\* the compensation stopped.
PrefixInEffect == \E k \in 0..Len(steps) : applied = 1..k

\* What execute returns tells the truth about what is in effect: Ok, all
\* steps; the forward error, none; the wrapped error, at least one.
ExecuteTellsTheTruth ==
    [][mode = "execute" /\ pc # "idle" /\ pc' = "idle" =>
          /\ result' = "ok" => applied = 1..Len(steps)
          /\ result' = "failed" => applied = {}
          /\ result' = "compensation_failed" => applied # {}]_vars

\* execute_with_retry makes exactly max_retry retries before it compensates
\* (none at all, and no call, for a negative max_retry).
CompensatesAfterRetries ==
    pc = "compensate" => calls = IF max_retry < 0 THEN 0 ELSE max_retry + 1

\* A saga that is executed comes to an end.
EventuallyReturns == pc # "idle" ~> pc = "idle"

=============================================================================
