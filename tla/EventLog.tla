------------------------------ MODULE EventLog ------------------------------
(***************************************************************************)
(* The events of state_event_log.mbt and the replay of state_replay.mbt.   *)
(* An event keeps what replay and recovery read: its kind, the step, the   *)
(* attempt and the JSON payload.  The workflow id (one log per id), the    *)
(* time stamps and the delays are left out; error texts are reduced to the *)
(* place that wrote them.                                                  *)
(*                                                                         *)
(* replay_events folds apply_event over the log.  The fold is run one      *)
(* event at a time by whoever replays (see Engine!ReplayEvent), so a       *)
(* process may die in the middle of it.                                    *)
(***************************************************************************)
EXTENDS WorkflowDefinition

CONSTANTS Json,        \* JSON values
          JsonNull     \* Json::null()

WorkflowStarted(input)     == [type |-> "WorkflowStarted", input |-> input]
StepStarted(step, attempt) == [type |-> "StepStarted", step |-> step, attempt |-> attempt]
StepCompleted(step, out)   == [type |-> "StepCompleted", step |-> step, output |-> out]
StepRetrying(step, attempt) == [type |-> "StepRetrying", step |-> step, attempt |-> attempt]
StepFailed(step, error, attempt) ==
    [type |-> "StepFailed", step |-> step, error |-> error, attempt |-> attempt]
WorkflowCompleted(out)     == [type |-> "WorkflowCompleted", output |-> out]
WorkflowFailed(error)      == [type |-> "WorkflowFailed", error |-> error]

\* "late" is written by execute_with_timeout, "exhausted" by the last attempt.
StepErrors == {"late", "exhausted"}

\* "step": a step gave up; "unknown": a handler, a child node or a
\* sub-workflow definition was missing; "waiting": a signal was missing;
\* "overrun": the deadline of start_with_timeout had passed.
WorkflowErrors == {"step", "unknown", "waiting", "overrun"}

Event ==
         [type : {"WorkflowStarted"}, input : Json]
    \cup [type : {"StepStarted", "StepRetrying"}, step : Names, attempt : Nat]
    \cup [type : {"StepCompleted"}, step : Names, output : Json]
    \cup [type : {"StepFailed"}, step : Names, error : StepErrors, attempt : Nat]
    \cup [type : {"WorkflowCompleted"}, output : Json]
    \cup [type : {"WorkflowFailed"}, error : WorkflowErrors]

-----------------------------------------------------------------------------
(* WorkflowExecutionState.  A map is a function on Names that is None (for *)
(* attempts 0) where the key is absent; the errors failed_steps maps to    *)
(* are never read, so it is the set of its keys.                           *)

WorkflowStatus == {"Pending", "Running", "Completed", "Failed", "Cancelled"}

ExecutionState == [status          : WorkflowStatus,
                   completed_steps : [Names -> Json \cup {None}],
                   failed_steps    : SUBSET Names,
                   current_step    : Names \cup {None},
                   step_attempts   : [Names -> Nat]]

NewExecutionState == [status          |-> "Pending",
                      completed_steps |-> [n \in Names |-> None],
                      failed_steps    |-> {},
                      current_step    |-> None,
                      step_attempts   |-> [n \in Names |-> 0]]

\* Mutant of record_completion: the earlier failure is left in place.
CompletionKeepsFailure(state, e) ==
    [state EXCEPT !.completed_steps[e.step] = e.output]

\* A completed step is no longer a failed one.
record_completion(state, e) ==
    [state EXCEPT !.completed_steps[e.step] = e.output,
                  !.failed_steps = @ \ {e.step}]

\* Mutant of record_start: the step started last is not noted.
StartKeepsCurrent(state, e) == [state EXCEPT !.step_attempts[e.step] = e.attempt]

\* A start is an attempt, and the step becomes the current one.
record_start(state, e) ==
    [state EXCEPT !.current_step = e.step,
                  !.step_attempts[e.step] = e.attempt]

\* What one event does to the state rebuilt so far (None before the first).
apply_event(state, e) ==
    CASE state = None /\ e.type = "WorkflowStarted" ->
           [NewExecutionState EXCEPT !.status = "Running"]
      [] state = None /\ e.type # "WorkflowStarted" -> NewExecutionState
      [] state # None /\ e.type = "StepStarted" -> record_start(state, e)
      [] state # None /\ e.type = "StepCompleted" -> record_completion(state, e)
      [] state # None /\ e.type = "StepFailed" ->
           [state EXCEPT !.failed_steps = @ \cup {e.step}]
      [] state # None /\ e.type = "StepRetrying" ->
           [state EXCEPT !.step_attempts[e.step] = e.attempt]
      [] state # None /\ e.type = "WorkflowCompleted" ->
           [state EXCEPT !.status = "Completed"]
      [] state # None /\ e.type = "WorkflowFailed" ->
           [state EXCEPT !.status = "Failed"]
      [] state # None /\ e.type = "WorkflowStarted" -> state

-----------------------------------------------------------------------------
\* The positions get_last_output stops at when it scans the log backwards.
output_positions(events) ==
    {p \in 1..Len(events) : events[p].type \in {"StepCompleted", "WorkflowStarted"}}

last_output_position(events) ==
    CHOOSE p \in output_positions(events) :
        \A q \in output_positions(events) : q <= p

get_last_output(events) ==
    LET last == events[last_output_position(events)]
    IN IF output_positions(events) = {} THEN JsonNull
       ELSE IF last.type = "StepCompleted" THEN last.output ELSE last.input

=============================================================================
