------------------------- MODULE WorkflowDefinition -------------------------
(***************************************************************************)
(* Workflow definitions: the step nodes of core_step.mbt and the chainable *)
(* builder of core_workflow.mbt.  A definition is the sequence of nodes    *)
(* the builder accumulates; `build` hands that sequence over unchanged, so *)
(* the sequence itself stands for WorkflowDef (its name and its never      *)
(* filled `deps` map are left out).                                        *)
(***************************************************************************)
EXTENDS Integers, Sequences

CONSTANTS Names,       \* step names and signal names
          DefaultRetry,\* max_retry of StepConfig::default; 3 in the code
          None         \* Option::None, and the fields a node type does not use

\* StepConfig: how often a step is attempted and whether timeout_ms > 0.
\* The delay between attempts is never slept, and the length of the timeout
\* matters only through the question whether a handler overran it.
StepConfig == [max_retry : Int, timed : BOOLEAN]

default == [max_retry |-> DefaultRetry, timed |-> TRUE]

with_retry(n) == [max_retry |-> n, timed |-> TRUE]

with_all(n, timed) == [max_retry |-> n, timed |-> timed]

StepType == {"Sequential", "Parallel", "Conditional", "SubWorkflow", "Signal"}

StepNode == [name      : Names,
             config    : StepConfig,
             step_type : StepType,
             children  : Seq(Names),
             condition : Names \cup {None},
             on_true   : Names \cup {None},
             on_false  : Names \cup {None},
             signal    : Names \cup {None}]

\* A node of type Sequential; the other constructors change what differs.
plain_node(name, config) ==
    [name |-> name, config |-> config, step_type |-> "Sequential",
     children |-> <<>>, condition |-> None, on_true |-> None,
     on_false |-> None, signal |-> None]

\* The node the engine makes up for the condition and the targets of a branch.
make_step_node(name) == plain_node(name, with_retry(1))

-----------------------------------------------------------------------------
(* The builder: every method pushes onto the steps built so far. *)

workflow == <<>>

then(steps, name, config) == Append(steps, plain_node(name, config))

\* parallel pushes the children as nodes of their own before the group.
parallel(steps, group, names) ==
    steps \o [i \in DOMAIN names |-> plain_node(names[i], default)]
          \o <<[plain_node(group, default) EXCEPT
                  !.step_type = "Parallel", !.children = names]>>

branch(steps, name, condition, on_true, on_false) ==
    Append(steps, [plain_node(name, default) EXCEPT
                     !.step_type = "Conditional", !.condition = condition,
                     !.on_true = on_true, !.on_false = on_false])

wait_signal(steps, name, signal) ==
    Append(steps, [plain_node(name, default) EXCEPT
                     !.step_type = "Signal", !.signal = signal])

\* The second argument, the name of the sub-workflow, is never read.
sub_workflow(steps, name) ==
    Append(steps, [plain_node(name, default) EXCEPT !.step_type = "SubWorkflow"])

-----------------------------------------------------------------------------
\* The first node called name, as a set: empty for Option::None.
find_step_node(steps, name) ==
    {steps[i] : i \in {j \in 1..Len(steps) :
                         /\ steps[j].name = name
                         /\ \A k \in 1..(j - 1) : steps[k].name # name}}

=============================================================================
