--------------------------- MODULE EngineInvariants ---------------------------
(***************************************************************************)
(* The inductive invariant behind the safety properties of Engine.         *)
(*                                                                         *)
(* It relates the in-memory run to the stored events: everything before    *)
(* the step index is recorded, everything recorded at or after the index   *)
(* is known to the run through completed_steps, and the run's input is     *)
(* what the step before the index recorded.                                *)
(***************************************************************************)
EXTENDS Engine

\* The validator's rule that step names are unique; the engine relies on it.
UniqueNames ==
    \A i, j \in 1..Len(Def) : Def[i].name = Def[j].name => i = j

CallStates == {"step", "handler", "failed", "unwind"}
NodeStates == CallStates \cup {"group", "target"}
RunStates  == NodeStates \cup {"loop"}

Recorded(n) == \E p \in 1..Len(log) : CompletedAt(p, n)

\* p is the event get_last_output(log) finds.
LastOutputAt(p) ==
    /\ p \in output_positions(log)
    /\ \A q \in output_positions(log) : q <= p

\* Where the process is determines which of its locals are in use.
ControlOK ==
    /\ pc \in RunStates \cup {"elapsed"} => log # <<>>
    /\ pc \in RunStates => idx \in 1..(Len(Def) + 1)
    /\ pc \in NodeStates => idx \in 1..Len(Def) /\ completed[Node.name] = None
    /\ pc = "group" => ci >= 1
    /\ pc = "target" => target \in Names
    /\ pc \in CallStates =>
         /\ call \in CallFrame
         /\ call.site = "child" => ci \in 1..Len(Node.children)
         /\ call.site = "condition" => Node.step_type = "Conditional"
    /\ pc = "unwind" => err \in WorkflowErrors
    /\ pc = "replay" => /\ log # <<>> /\ pos \in 0..Len(log)
                        /\ pos > 0 => replayed \in ExecutionState
    /\ pc # "replay" => pos = 0 /\ replayed = None

\* Only the first event is WorkflowStarted, so every log has a last output.
LogOK ==
    /\ \A p \in 1..Len(log) : log[p].type = "WorkflowStarted" <=> p = 1
    /\ log # <<>> => \E p \in 1..Len(log) : LastOutputAt(p)

\* The run in memory and the events in storage agree.
RunOK ==
    pc \in RunStates =>
        /\ \A p \in 1..Len(log) : ~IsTerminal(log[p])
        /\ \A i \in 1..Len(Def) : i < idx => Recorded(Def[i].name)
        /\ \A i \in 1..Len(Def) :
             i >= idx /\ Recorded(Def[i].name) => completed[Def[i].name] # None
        /\ \A n \in Names :
             completed[n] # None =>
                 \E p \in 1..Len(log) : CompletedAt(p, n) /\ log[p].output = completed[n]
        /\ idx = 1 => input = get_last_output(log)
        /\ idx > 1 =>
             \E p \in 1..Len(log) :
                 CompletedAt(p, Def[idx - 1].name) /\ log[p].output = input

\* The state rebuilt so far is the one of the events replayed so far.
ReplayOK ==
    pc = "replay" =>
        /\ pos = 0 => replayed = None
        /\ pos > 0 =>
             /\ \A n \in Names :
                  /\ (\E p \in 1..pos : CompletedAt(p, n)) => replayed.completed_steps[n] # None
                  /\ replayed.completed_steps[n] # None =>
                       \E p \in 1..pos : /\ CompletedAt(p, n)
                                         /\ log[p].output = replayed.completed_steps[n]
             /\ replayed.status \in {"Completed", "Failed"} <=>
                  \E p \in 1..pos : IsTerminal(log[p])

TypeInv == TypeOK /\ ControlOK /\ LogOK

\* The inductive invariant of Engine for definitions with unique names: the
\* types, the control state, and the agreement of memory, replay and log.
IndInv == TypeInv /\ RunOK /\ ReplayOK /\ CompletedAsDefined

-----------------------------------------------------------------------------
(* What the attempts of the running step have written. *)

\* execute_step runs a node its call site stands for.
CallOK ==
    /\ pc \in CallStates =>
         /\ call.attempt >= 1
         /\ \/ call.site = "sequential" /\ call.node = Node
            \/ /\ call.site = "child" /\ Node.step_type = "Parallel"
               /\ call.node \in find_step_node(Def, Child)
            \/ /\ call.site \in {"condition", "target"} /\ Node.step_type = "Conditional"
               /\ \E n \in {Node.condition, Node.on_true, Node.on_false} :
                    call.node = make_step_node(n)
    /\ pc = "group" => Node.step_type = "Parallel"
    /\ pc = "target" => /\ Node.step_type = "Conditional"
                        /\ target \in {Node.on_true, Node.on_false}

\* From position first on the log holds only events of the step called n, with
\* a start of each of the attempts 1 to k.
AttemptsFrom(first, n, k) ==
    /\ first \in 1..Len(log) /\ log[first] = StepStarted(n, 1)
    /\ \A q \in first..Len(log) :
         /\ log[q].type \in {"StepStarted", "StepFailed", "StepRetrying"}
         /\ log[q].step = n
    /\ \A j \in 1..k : \E q \in first..Len(log) : log[q] = StepStarted(n, j)

\* The attempts made so far are the tail of the log.
AttemptsOK ==
    /\ pc = "step" /\ call.attempt > 1 =>
         \E first \in 1..Len(log) : AttemptsFrom(first, call.node.name, call.attempt - 1)
    /\ pc \in {"handler", "failed"} =>
         \E first \in 1..Len(log) : AttemptsFrom(first, call.node.name, call.attempt)

\* What is started is not known as completed, and what was recorded before this
\* process took over is known.
TakeoverOK ==
    /\ pc \in RunStates =>
         \A p \in 1..Len(log) :
             log[p].type = "StepCompleted" /\ p <= resumed => completed[log[p].step] # None
    /\ pc \in CallStates => completed[call.node.name] = None
    /\ resumed <= Len(log)

=============================================================================
