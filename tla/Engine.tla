------------------------------- MODULE Engine -------------------------------
(***************************************************************************)
(* The workflow engine of core_engine.mbt and core_timeout.mbt: one        *)
(* workflow id, the storage that outlives engine processes, and one engine *)
(* process at a time over it.  A process may die between any two effects   *)
(* (an event written, a handler called); a fresh Engine is then wired over *)
(* the same storage and the host calls resume_workflow.                    *)
(*                                                                         *)
(* A step of this specification ends at most one store_event or one        *)
(* handler call, so a crash can fall between any two of them.  Handlers    *)
(* return any JSON value, an error, or too late for their timeout.         *)
(*                                                                         *)
(* pc is the place the process is at:                                      *)
(*   "down"    no process             "step"    at the top of execute_step *)
(*   "idle"    engine not called      "handler" inside a handler           *)
(*   "replay"  in replay_events       "failed"  the handler's result is Err*)
(*   "loop"    top of the while loop  "unwind"  execute_step returns Err   *)
(*   "group"   in a parallel group    "elapsed" start returned inside      *)
(*   "target"  a branch is decided              start_with_timeout         *)
(***************************************************************************)
EXTENDS EventLog, FiniteSets

CONSTANTS Def,         \* the definition given to start and resume_workflow
          Wirings,     \* what a fresh engine may be wired with
          Merge(_),    \* Json::object of the outputs of a parallel group
          MaxCrashes   \* bound on the number of crashes

NoOutputs == [n \in Names |-> None]

ASSUME DefAssumption ==
    /\ Def \in Seq(StepNode)
    /\ \A i \in 1..Len(Def) :
         /\ Def[i].step_type = "Conditional" =>
              {Def[i].condition, Def[i].on_true, Def[i].on_false} \subseteq Names
         /\ Def[i].step_type = "Signal" => Def[i].signal \in Names
ASSUME WiringAssumption ==
    Wirings \subseteq [handlers : SUBSET Names, subs : SUBSET Names]
ASSUME JsonAssumption == JsonNull \in Json /\ None \notin Json
ASSUME StateAssumption == None \notin ExecutionState
ASSUME MergeAssumption == \A m \in [Names -> Json \cup {None}] : Merge(m) \in Json
ASSUME CrashAssumption == MaxCrashes \in Nat

VARIABLES
    log,        \* the events storage holds for the workflow; survives crashes
    pc,
    wiring,     \* registry and workflow_defs of the engine
    signals,    \* the signals this engine has been sent for the workflow
    idx,        \* step_index of execute_workflow, from 1
    input,      \* current_input
    completed,  \* completed_steps as execute_workflow was given it
    deadline,   \* are we inside start_with_timeout
    call,       \* node, attempt and call site of the running execute_step
    err,        \* the error execute_step is returning
    ci,         \* next child of the running group, from 1
    merged,     \* outputs of the running group's children so far
    target,     \* the branch taken by the running conditional
    pos,        \* events replayed so far
    replayed,   \* the state rebuilt so far
    result,     \* what the last call of the host returned
    crashes,
    resumed     \* history: Len(log) when resume_workflow last ran on

process == <<wiring, signals>>
host    == <<result, crashes, resumed>>
exec    == <<idx, input, completed, deadline>>
local   == <<call, err, ci, merged, target>>
replay  == <<pos, replayed>>
vars    == <<log, pc, process, host, exec, local, replay>>

Sites == {"sequential", "child", "condition", "target"}

CallFrame == [node : StepNode, attempt : Nat, site : Sites]

NoWiring == [handlers |-> {}, subs |-> {}]

TypeOK ==
    /\ log \in Seq(Event)
    /\ pc \in {"down", "idle", "replay", "loop", "group", "target", "step",
               "handler", "failed", "unwind", "elapsed"}
    /\ wiring \in [handlers : SUBSET Names, subs : SUBSET Names]
    /\ signals \in SUBSET Names
    /\ idx \in Nat
    /\ input \in Json
    /\ completed \in [Names -> Json \cup {None}]
    /\ deadline \in BOOLEAN
    /\ call \in CallFrame \cup {None}
    /\ err \in WorkflowErrors \cup {None}
    /\ ci \in Nat
    /\ merged \in [Names -> Json \cup {None}]
    /\ target \in Names \cup {None}
    /\ pos \in Nat
    /\ replayed \in ExecutionState \cup {None}
    /\ result \in {"none", "ok", "not_found", "failed", "timeout"}
    /\ crashes \in 0..MaxCrashes
    /\ resumed \in Nat

-----------------------------------------------------------------------------
(* The locals of the engine's functions when they are not running. *)

ResetLocal == /\ call' = None /\ err' = None /\ ci' = 0
              /\ merged' = NoOutputs /\ target' = None

ResetExec == /\ idx' = 0 /\ input' = JsonNull
             /\ completed' = NoOutputs /\ deadline' = FALSE

ResetReplay == pos' = 0 /\ replayed' = None

Init ==
    /\ log = <<>> /\ pc = "down"
    /\ wiring = NoWiring /\ signals = {}
    /\ result = "none" /\ crashes = 0 /\ resumed = 0
    /\ idx = 0 /\ input = JsonNull /\ completed = NoOutputs /\ deadline = FALSE
    /\ call = None /\ err = None /\ ci = 0 /\ merged = NoOutputs /\ target = None
    /\ pos = 0 /\ replayed = None

store_event(e) == log' = Append(log, e)

Node == Def[idx]

\* A node is finished: its StepCompleted is stored and the loop moves on.
CompleteNode(out) ==
    /\ store_event(StepCompleted(Node.name, out))
    /\ input' = out /\ idx' = idx + 1 /\ pc' = "loop"
    /\ ResetLocal
    /\ UNCHANGED <<completed, deadline, process, host, replay>>

\* execute_workflow returns; start and resume_workflow then return Ok
\* whatever became of the workflow.
ReturnFromExecute ==
    /\ ResetLocal
    /\ idx' = 0 /\ input' = JsonNull /\ completed' = NoOutputs
    /\ pc' = IF deadline THEN "elapsed" ELSE "idle"
    /\ result' = IF deadline THEN result ELSE "ok"
    /\ UNCHANGED <<deadline, process, crashes, resumed, replay>>

FailWorkflow(error) == store_event(WorkflowFailed(error)) /\ ReturnFromExecute

\* execute_step(node, input, 1) is called from one of its four call sites.
CallExecuteStep(node, site) ==
    /\ call' = [node |-> node, attempt |-> 1, site |-> site]
    /\ pc' = "step"
    /\ UNCHANGED <<log, process, host, exec, err, ci, merged, target, replay>>

-----------------------------------------------------------------------------
(* The host and the machine. *)

\* Engine::new over the existing storage, then register and workflow_defs.
NewEngine(w) ==
    /\ pc = "down"
    /\ pc' = "idle" /\ wiring' = w
    /\ UNCHANGED <<log, signals, host, exec, local, replay>>

\* Engine::start (timed = FALSE) or start_with_timeout (timed = TRUE).
Start(in, timed) ==
    /\ pc = "idle" /\ log = <<>>
    /\ store_event(WorkflowStarted(in))
    /\ pc' = "loop" /\ idx' = 1 /\ input' = in
    /\ completed' = NoOutputs /\ deadline' = timed
    /\ UNCHANGED <<process, host, local, replay>>

\* start has returned inside start_with_timeout; late: timeout_ms has passed.
CheckDeadline(late) ==
    /\ pc = "elapsed"
    /\ IF late THEN store_event(WorkflowFailed("overrun")) ELSE log' = log
    /\ result' = IF late THEN "timeout" ELSE "ok"
    /\ pc' = "idle" /\ deadline' = FALSE
    /\ UNCHANGED <<process, crashes, resumed, idx, input, completed, local, replay>>

\* resume_workflow loads the events; an unknown id is refused at once.
Resume ==
    /\ pc = "idle"
    /\ IF log = <<>>
       THEN result' = "not_found" /\ pc' = pc
       ELSE result' = result /\ pc' = "replay"
    /\ UNCHANGED <<log, process, crashes, resumed, exec, local, replay>>

\* One turn of the loop of replay_events.
ReplayEvent ==
    /\ pc = "replay" /\ pos < Len(log)
    /\ replayed' = apply_event(replayed, log[pos + 1])
    /\ pos' = pos + 1
    /\ UNCHANGED <<log, pc, process, host, exec, local>>

\* The workflow is already over: resume_workflow only reports it.
ResumeReports ==
    /\ pc = "replay" /\ pos = Len(log)
    /\ replayed.status \in {"Completed", "Failed"}
    /\ result' = IF replayed.status = "Completed" THEN "ok" ELSE "failed"
    /\ pc' = "idle" /\ ResetReplay
    /\ UNCHANGED <<log, process, crashes, resumed, exec, local>>

\* Mutant of ResumeContinues: the outputs recovered by replay are not passed on.
ResumeForgetsCompleted ==
    /\ pc = "replay" /\ pos = Len(log)
    /\ replayed.status \notin {"Completed", "Failed"}
    /\ pc' = "loop" /\ idx' = 1
    /\ input' = get_last_output(log)
    /\ completed' = NoOutputs
    /\ ResetReplay /\ resumed' = Len(log)
    /\ UNCHANGED <<log, process, result, crashes, deadline, local>>

\* Mutant of ResumeContinues: the run starts from null, not the last output.
ResumeFromNull ==
    /\ pc = "replay" /\ pos = Len(log)
    /\ replayed.status \notin {"Completed", "Failed"}
    /\ pc' = "loop" /\ idx' = 1
    /\ input' = JsonNull
    /\ completed' = replayed.completed_steps
    /\ ResetReplay /\ resumed' = Len(log)
    /\ UNCHANGED <<log, process, result, crashes, deadline, local>>

\* Mutant of ResumeContinues: a failed workflow is run again.
ResumeAfterFailure ==
    /\ pc = "replay" /\ pos = Len(log)
    /\ replayed.status # "Completed"
    /\ pc' = "loop" /\ idx' = 1
    /\ input' = get_last_output(log)
    /\ completed' = replayed.completed_steps
    /\ ResetReplay /\ resumed' = Len(log)
    /\ UNCHANGED <<log, process, result, crashes, deadline, local>>

\* The workflow is not over: execute_workflow with the recovered outputs.
ResumeContinues ==
    /\ pc = "replay" /\ pos = Len(log)
    /\ replayed.status \notin {"Completed", "Failed"}
    /\ pc' = "loop" /\ idx' = 1
    /\ input' = get_last_output(log)
    /\ completed' = replayed.completed_steps
    /\ ResetReplay /\ resumed' = Len(log)
    /\ UNCHANGED <<log, process, result, crashes, deadline, local>>

\* Engine::signal, by the host between two calls or by a running handler.
Signal(s) ==
    /\ pc \in {"idle", "handler"} /\ log # <<>> /\ s \notin signals
    /\ signals' = signals \cup {s}
    /\ UNCHANGED <<log, pc, wiring, host, exec, local, replay>>

\* The process dies: everything but the stored events is lost.
Crash ==
    /\ pc # "down" /\ crashes < MaxCrashes
    /\ crashes' = crashes + 1 /\ pc' = "down"
    /\ wiring' = NoWiring /\ signals' = {} /\ result' = "none"
    /\ ResetExec /\ ResetLocal /\ ResetReplay
    /\ UNCHANGED <<log, resumed>>

-----------------------------------------------------------------------------
(* execute_workflow: one turn of the while loop. *)

AtNode == pc = "loop" /\ idx <= Len(Def)

\* Mutant of SkipCompleted: the step index is not advanced.
SkipStuck ==
    /\ AtNode /\ completed[Node.name] # None
    /\ input' = completed[Node.name] /\ idx' = idx
    /\ UNCHANGED <<log, pc, process, host, completed, deadline, local, replay>>

\* Mutant of SkipCompleted: a step is skipped without being completed.
SkipUnchecked ==
    /\ AtNode
    /\ input' = completed[Node.name] /\ idx' = idx + 1
    /\ UNCHANGED <<log, pc, process, host, completed, deadline, local, replay>>

SkipCompleted ==
    /\ AtNode /\ completed[Node.name] # None
    /\ input' = completed[Node.name] /\ idx' = idx + 1
    /\ UNCHANGED <<log, pc, process, host, completed, deadline, local, replay>>

AtFresh(type) == AtNode /\ completed[Node.name] = None /\ Node.step_type = type

RunSequential == AtFresh("Sequential") /\ CallExecuteStep(Node, "sequential")

EnterGroup ==
    /\ AtFresh("Parallel")
    /\ pc' = "group" /\ ci' = 1 /\ merged' = NoOutputs
    /\ UNCHANGED <<log, process, host, exec, call, err, target, replay>>

\* A condition that was recovered as completed counts as true.
RunConditional ==
    /\ AtFresh("Conditional")
    /\ IF completed[Node.condition] # None
       THEN /\ pc' = "target" /\ target' = Node.on_true
            /\ UNCHANGED <<log, process, host, exec, call, err, ci, merged, replay>>
       ELSE CallExecuteStep(make_step_node(Node.condition), "condition")

\* execute_sub_workflow looks the definition up under the name of the node. The
\* child runs under an id and a log of its own; what comes back is the last
\* output the child recorded, however the child ended.
RunSubWorkflow(out) ==
    /\ AtFresh("SubWorkflow") /\ Node.name \in wiring.subs
    /\ CompleteNode(out)

MissingSubWorkflow ==
    /\ AtFresh("SubWorkflow") /\ Node.name \notin wiring.subs
    /\ FailWorkflow("unknown")

SignalReceived ==
    /\ AtFresh("Signal") /\ Node.signal \in signals
    /\ CompleteNode(input)

SignalMissing ==
    /\ AtFresh("Signal") /\ Node.signal \notin signals
    /\ FailWorkflow("waiting")

\* Mutant of Finish: the loop ends one step early.
FinishEarly ==
    /\ pc = "loop" /\ idx >= Len(Def)
    /\ store_event(WorkflowCompleted(input))
    /\ ReturnFromExecute

Finish ==
    /\ pc = "loop" /\ idx > Len(Def)
    /\ store_event(WorkflowCompleted(input))
    /\ ReturnFromExecute

-----------------------------------------------------------------------------
(* execute_parallel_group: the children run one after another. *)

Child == Node.children[ci]

AtChild == pc = "group" /\ ci <= Len(Node.children)

SkipChild ==
    /\ AtChild /\ completed[Child] # None
    /\ merged' = [merged EXCEPT ![Child] = completed[Child]]
    /\ ci' = ci + 1
    /\ UNCHANGED <<log, pc, process, host, exec, call, err, target, replay>>

\* Mutant of RunChild: the group runs children that were recovered as completed.
RunChildAgain ==
    /\ AtChild
    /\ IF find_step_node(Def, Child) = {}
       THEN FailWorkflow("unknown")
       ELSE \E node \in find_step_node(Def, Child) : CallExecuteStep(node, "child")

RunChild ==
    /\ AtChild /\ completed[Child] = None
    /\ IF find_step_node(Def, Child) = {}
       THEN FailWorkflow("unknown")
       ELSE \E node \in find_step_node(Def, Child) : CallExecuteStep(node, "child")

GroupDone ==
    /\ pc = "group" /\ ci > Len(Node.children)
    /\ CompleteNode(Merge(merged))

(* execute_conditional, once the condition has chosen the target. *)

RunTarget ==
    /\ pc = "target"
    /\ IF completed[target] # None
       THEN CompleteNode(completed[target])
       ELSE CallExecuteStep(make_step_node(target), "target")

-----------------------------------------------------------------------------
(* execute_step and execute_with_timeout. *)

StartStep ==
    /\ pc = "step"
    /\ store_event(StepStarted(call.node.name, call.attempt))
    /\ IF call.node.name \in wiring.handlers
       THEN pc' = "handler" /\ err' = err
       ELSE pc' = "unwind" /\ err' = "unknown"
    /\ UNCHANGED <<process, host, exec, call, ci, merged, target, replay>>

\* The handler returns Ok in time; what follows depends on the call site.
HandlerReturns(out) ==
    /\ pc = "handler"
    /\ \/ /\ call.site \in {"sequential", "target"}
          /\ CompleteNode(out)
       \/ /\ call.site = "child"
          /\ merged' = [merged EXCEPT ![Child] = out]
          /\ ci' = ci + 1 /\ pc' = "group" /\ call' = None
          /\ UNCHANGED <<log, process, host, exec, err, target, replay>>
       \/ /\ call.site = "condition"
          /\ target' = Node.on_true /\ pc' = "target" /\ call' = None
          /\ UNCHANGED <<log, process, host, exec, err, ci, merged, replay>>

HandlerFails ==
    /\ pc = "handler"
    /\ pc' = "failed"
    /\ UNCHANGED <<log, process, host, exec, local, replay>>

\* The handler overran timeout_ms: its result is dropped and the overrun
\* recorded, always as attempt 1.
HandlerLate ==
    /\ pc = "handler" /\ call.node.config.timed
    /\ store_event(StepFailed(call.node.name, "late", 1))
    /\ pc' = "failed"
    /\ UNCHANGED <<process, host, exec, local, replay>>

Retry ==
    /\ pc = "failed" /\ call.attempt < call.node.config.max_retry
    /\ store_event(StepRetrying(call.node.name, call.attempt + 1))
    /\ call' = [call EXCEPT !.attempt = @ + 1]
    /\ pc' = "step"
    /\ UNCHANGED <<process, host, exec, err, ci, merged, target, replay>>

\* Mutant of GiveUp: the last attempt is never made.
GiveUpEarly ==
    /\ pc = "failed" /\ call.attempt + 1 >= call.node.config.max_retry
    /\ store_event(StepFailed(call.node.name, "exhausted", call.attempt))
    /\ pc' = "unwind" /\ err' = "step"
    /\ UNCHANGED <<process, host, exec, call, ci, merged, target, replay>>

GiveUp ==
    /\ pc = "failed" /\ call.attempt >= call.node.config.max_retry
    /\ store_event(StepFailed(call.node.name, "exhausted", call.attempt))
    /\ pc' = "unwind" /\ err' = "step"
    /\ UNCHANGED <<process, host, exec, call, ci, merged, target, replay>>

\* execute_step returned Err: a condition is false, anything else ends the run.
Unwind ==
    /\ pc = "unwind"
    /\ \/ /\ call.site # "condition"
          /\ FailWorkflow(err)
       \/ /\ call.site = "condition"
          /\ target' = Node.on_false /\ pc' = "target"
          /\ call' = None /\ err' = None
          /\ UNCHANGED <<log, process, host, exec, ci, merged, replay>>

-----------------------------------------------------------------------------
Execute ==
    \/ SkipCompleted \/ RunSequential \/ EnterGroup \/ RunConditional
    \/ \E out \in Json : RunSubWorkflow(out)
    \/ MissingSubWorkflow \/ SignalReceived \/ SignalMissing \/ Finish
    \/ SkipChild \/ RunChild \/ GroupDone \/ RunTarget
    \/ StartStep \/ Retry \/ GiveUp \/ Unwind

Handler == (\E out \in Json : HandlerReturns(out)) \/ HandlerFails \/ HandlerLate

Recover == ReplayEvent \/ ResumeReports \/ ResumeContinues

Host ==
    \/ \E w \in Wirings : NewEngine(w)
    \/ \E in \in Json, timed \in BOOLEAN : Start(in, timed)
    \/ \E late \in BOOLEAN : CheckDeadline(late)
    \/ \E s \in {Def[i].signal : i \in 1..Len(Def)} \ {None} : Signal(s)
    \/ Resume

Next == Execute \/ Handler \/ Recover \/ Host \/ Crash

Spec == Init /\ [][Next]_vars

\* The engine keeps running while the machine does, handlers return, and
\* after a crash the host wires a new engine and resumes what was started.
Restart == (\E w \in Wirings : NewEngine(w)) \/ (log # <<>> /\ Resume)

FairSpec == /\ Spec
            /\ WF_vars(Execute) /\ WF_vars(Handler) /\ WF_vars(Recover)
            /\ WF_vars(Restart)

-----------------------------------------------------------------------------
(* What the stored events must say. *)

CompletedAt(p, n) == log[p].type = "StepCompleted" /\ log[p].step = n

CompletedBefore(p, n) == \E q \in 1..(p - 1) : CompletedAt(q, n)

IsTerminal(e) == e.type \in {"WorkflowCompleted", "WorkflowFailed"}

\* Whatever crashes, retries and resumptions happen, the steps recorded as
\* completed before a StepCompleted event are exactly the ones the definition
\* puts before that step: none is skipped, repeated or out of order
\* (execute_workflow and its skipping of completed_steps).
CompletedAsDefined ==
    \A p \in 1..Len(log) :
        log[p].type = "StepCompleted" =>
            \E j \in 1..Len(Def) :
                /\ log[p].step = Def[j].name
                /\ \A i \in 1..Len(Def) :
                       CompletedBefore(p, Def[i].name) <=> i < j

\* A WorkflowCompleted event comes after a completion of every step and
\* carries the last output recorded before it.
SuccessMeansAllCompleted ==
    \A p \in 1..Len(log) :
        log[p].type = "WorkflowCompleted" =>
            /\ \A i \in 1..Len(Def) : CompletedBefore(p, Def[i].name)
            /\ log[p].output = get_last_output(SubSeq(log, 1, p - 1))

\* A handler is given the last recorded output (or the workflow's input), in
\* the first run and after any recovery: the in-memory current_input and the
\* log never disagree when user code runs.
HandlerSeesLastOutput == pc = "handler" => input = get_last_output(log)

\* What attempt number p is recorded for is the step n.
AttemptAt(p, n) == log[p].type \in {"StepStarted", "StepRetrying"} /\ log[p].step = n

\* Replay rebuilds what the events say: for each step the output of its last
\* completion, its last recorded attempt and whether a failure is left that no later
\* completion has cleared; the step started last; and the status given by the last
\* terminal event (every case of apply_event).
ReplayIsFaithful ==
    pc = "replay" /\ pos > 0 =>
        /\ \A n \in Names :
             /\ replayed.completed_steps[n] = None <=> ~CompletedBefore(pos + 1, n)
             /\ \A p \in 1..pos :
                  CompletedAt(p, n) /\ (\A q \in (p + 1)..pos : ~CompletedAt(q, n))
                      => replayed.completed_steps[n] = log[p].output
             /\ n \in replayed.failed_steps <=>
                  \E p \in 1..pos : /\ log[p].type = "StepFailed" /\ log[p].step = n
                                   /\ \A q \in (p + 1)..pos : ~CompletedAt(q, n)
             /\ (\A p \in 1..pos : ~AttemptAt(p, n)) => replayed.step_attempts[n] = 0
             /\ \A p \in 1..pos :
                  AttemptAt(p, n) /\ (\A q \in (p + 1)..pos : ~AttemptAt(q, n))
                      => replayed.step_attempts[n] = log[p].attempt
        /\ (\A p \in 1..pos : log[p].type # "StepStarted") => replayed.current_step = None
        /\ \A p \in 1..pos :
             log[p].type = "StepStarted" /\ (\A q \in (p + 1)..pos : log[q].type # "StepStarted")
                 => replayed.current_step = log[p].step
        /\ replayed.status = "Running" <=> \A p \in 1..pos : ~IsTerminal(log[p])
        /\ \A p \in 1..pos :
             IsTerminal(log[p]) /\ (\A q \in (p + 1)..pos : ~IsTerminal(log[q]))
                 => replayed.status = (IF log[p].type = "WorkflowCompleted"
                                       THEN "Completed" ELSE "Failed")

\* The nodes execute_step can be called with.
ExecutableNodes ==
    LET branches == {i \in 1..Len(Def) : Def[i].step_type = "Conditional"}
    IN {Def[i] : i \in 1..Len(Def)} \cup
       {make_step_node(n) : n \in UNION {{Def[i].condition, Def[i].on_true, Def[i].on_false}
                                          : i \in branches}}

\* A step is given up only after as many attempts as it is configured for
\* (at least one), all started by the process that gives up: a crash makes a
\* step start over, it never eats into its attempts.
GivenUpAfterAllAttempts ==
    \A p \in 1..Len(log) :
        log[p].type = "StepFailed" /\ log[p].error = "exhausted" =>
            \E first \in 1..p, node \in ExecutableNodes :
                /\ node.name = log[p].step
                /\ log[first] = StepStarted(node.name, 1)
                /\ \A q \in first..p :
                     /\ log[q].type \in {"StepStarted", "StepFailed", "StepRetrying"}
                     /\ log[q].step = node.name
                /\ \A k \in 1..node.config.max_retry :
                     \E q \in first..p : log[q] = StepStarted(node.name, k)

\* The names a node executes besides its own.
NamedBy(node) ==
    IF node.step_type = "Conditional" THEN {node.condition, node.on_true, node.on_false}
    ELSE {node.children[c] : c \in 1..Len(node.children)}

\* The node of the definition the run is at when event p is written.
RunningAt(p, i) ==
    \A j \in 1..Len(Def) : CompletedBefore(p, Def[j].name) <=> j < i

\* "resume_workflow skips step1, step2" (README.md:27): what is recorded as completed
\* when a process takes a workflow over is never started again.  A step completed
\* since then is started again only by the group or branch being run, which names
\* it.  This exception is real without any crash: parallel (core_workflow.mbt:78)
\* puts the children before the group, so they run once as steps and once more in
\* the group, although README.md:13 promises that nothing is executed twice.
RestartedOnlyByName ==
    \A p, q \in 1..Len(log) :
        /\ p < q /\ log[p].type = "StepCompleted" /\ log[q].type = "StepStarted"
        /\ log[p].step = log[q].step
        => /\ q > resumed => p > resumed
           /\ \E i \in 1..Len(Def) : RunningAt(q, i) /\ log[q].step \in NamedBy(Def[i])

\* Once a terminal event is stored nothing more is, whatever is resumed or
\* signalled afterwards, except the overrun record of start_with_timeout.
TerminalIsFinal ==
    [][(\E p \in 1..Len(log) : IsTerminal(log[p])) =>
          \/ log' = log
          \/ pc = "elapsed" /\ log' = Append(log, WorkflowFailed("overrun"))]_vars

-----------------------------------------------------------------------------
(* What the repository says of the engine and the engine does not do. *)

\* "workflow pauses here (can be resumed later)": once the signal has been
\* sent, resuming a workflow that was waiting for it is not refused.
PausedCanBeResumed ==
    ~ /\ result = "failed"
      /\ log[Len(log)] = WorkflowFailed("waiting")
      /\ \A i \in 1..Len(Def) : Def[i].step_type = "Signal" => Def[i].signal \in signals

-----------------------------------------------------------------------------
(* The engine implements Workflow; the state is read off the stored events. *)

StatusOfLog ==
    IF log = <<>> THEN "none"
    ELSE CASE log[Len(log)].type = "WorkflowCompleted" -> "completed"
           [] log[Len(log)].type = "WorkflowFailed"    -> "failed"
           [] OTHER                                    -> "running"

W == INSTANCE Workflow WITH
       N      <- Len(Def),
       status <- StatusOfLog,
       done   <- {i \in 1..Len(Def) : CompletedBefore(Len(log) + 1, Def[i].name)},
       value  <- get_last_output(log)

\* Crashes, replays and retries are invisible: every step of the engine is a
\* step of the promised workflow or changes nothing of it.
ImplementsWorkflow == W!Spec

\* The same, with the promise that a running workflow makes progress.
ImplementsFairWorkflow == W!FairSpec

=============================================================================
