---------------------------- MODULE EngineProofs ----------------------------
(***************************************************************************)
(* Proofs about Engine, for every definition, every set of JSON values and *)
(* any number of crashes.                                                  *)
(***************************************************************************)
EXTENDS EngineInvariants, TLAPS

-----------------------------------------------------------------------------
(* The events and the replay of one event. *)

\* What the fields of an event are.
LEMMA EventFields ==
    ASSUME NEW e \in Event
    PROVE  /\ e.type = "WorkflowStarted" => e.input \in Json
           /\ e.type \in {"StepStarted", "StepRetrying"} =>
                e.step \in Names /\ e.attempt \in Nat
           /\ e.type = "StepCompleted" => e.step \in Names /\ e.output \in Json
           /\ e.type = "StepFailed" => e.step \in Names
           /\ e.type \in {"WorkflowStarted", "StepStarted", "StepRetrying",
                          "StepCompleted", "StepFailed", "WorkflowCompleted",
                          "WorkflowFailed"}
BY DEF Event

\* The constructors make events.
LEMMA EventsMade ==
    /\ \A v \in Json : /\ WorkflowStarted(v) \in Event
                       /\ WorkflowCompleted(v) \in Event
    /\ \A n \in Names, v \in Json : StepCompleted(n, v) \in Event
    /\ \A n \in Names, k \in Nat : /\ StepStarted(n, k) \in Event
                                   /\ StepRetrying(n, k) \in Event
                                   /\ \A x \in StepErrors : StepFailed(n, x, k) \in Event
    /\ \A x \in WorkflowErrors : WorkflowFailed(x) \in Event
BY DEF Event, WorkflowStarted, WorkflowCompleted, StepCompleted, StepStarted,
       StepRetrying, StepFailed, WorkflowFailed

\* apply_event yields an execution state from any event.
LEMMA ApplyEventType ==
    ASSUME NEW s \in ExecutionState \cup {None}, NEW e \in Event
    PROVE  apply_event(s, e) \in ExecutionState
<1>1. NewExecutionState \in ExecutionState
  BY DEF NewExecutionState, ExecutionState, WorkflowStatus
<1>2. CASE s = None
  BY <1>1, <1>2, EventFields
     DEF apply_event, NewExecutionState, ExecutionState, WorkflowStatus
<1>3. CASE s # None
  <2>1. s \in ExecutionState
    BY <1>3
  <2> QED
    BY <1>3, <2>1, EventFields
       DEF apply_event, record_start, record_completion, ExecutionState, WorkflowStatus
<1> QED BY <1>2, <1>3

-----------------------------------------------------------------------------
(* The log: appending an event, and the last output. *)

\* Appending keeps every event where it was.
LEMMA AppendEvent ==
    ASSUME NEW s \in Seq(Event), NEW e \in Event
    PROVE  /\ Append(s, e) \in Seq(Event)
           /\ Len(Append(s, e)) = Len(s) + 1
           /\ \A p \in 1..Len(s) : Append(s, e)[p] = s[p]
           /\ Append(s, e)[Len(s) + 1] = e
           /\ Append(s, e) # <<>>
           /\ Len(s) \in Nat
           /\ s = <<>> <=> Len(s) = 0
           /\ \A p \in 1..Len(s) : s[p] \in Event
OBVIOUS

\* get_last_output returns what the last output event carries.
LEMMA LastOutputValue ==
    ASSUME log \in Seq(Event), NEW p \in 1..Len(log), LastOutputAt(p)
    PROVE  get_last_output(log) =
               IF log[p].type = "StepCompleted" THEN log[p].output ELSE log[p].input
<1>1. output_positions(log) # {}
  BY DEF LastOutputAt
<1>2. ASSUME NEW q \in output_positions(log),
             \A r \in output_positions(log) : r <= q
      PROVE  q = p
  <2>1. p <= q /\ q <= p /\ p \in Int /\ q \in Int
    BY <1>2 DEF LastOutputAt, output_positions
  <2> QED BY <2>1
<1>3. last_output_position(log) = p
  BY <1>2 DEF LastOutputAt, last_output_position
<1> QED BY <1>1, <1>3 DEF get_last_output

\* A non-empty log whose last output exists yields a JSON value.
LEMMA LastOutputType ==
    ASSUME log \in Seq(Event), LogOK
    PROVE  get_last_output(log) \in Json
<1>1. CASE log = <<>>
  BY <1>1, JsonAssumption DEF get_last_output, output_positions
<1>2. CASE log # <<>>
  <2>1. PICK p \in 1..Len(log) : LastOutputAt(p)
    BY <1>2 DEF LogOK
  <2>2. log[p] \in Event /\ log[p].type \in {"StepCompleted", "WorkflowStarted"}
    BY <2>1 DEF LastOutputAt, output_positions
  <2> QED BY <2>1, <2>2, LastOutputValue, EventFields
<1> QED BY <1>1, <1>2

\* LogOK survives appending any event that is WorkflowStarted exactly when
\* it is the first.
LEMMA AppendLogOK ==
    ASSUME log \in Seq(Event), LogOK, NEW e \in Event, log' = Append(log, e),
           e.type = "WorkflowStarted" <=> log = <<>>
    PROVE  LogOK'
<1>1. \A p \in 1..Len(log') : log'[p].type = "WorkflowStarted" <=> p = 1
  BY AppendEvent DEF LogOK
<1>2. CASE e.type \in {"WorkflowStarted", "StepCompleted"}
  <2>1. LastOutputAt(Len(log))'
    BY <1>2, AppendEvent DEF LastOutputAt, output_positions
  <2> QED BY <1>1, <2>1, AppendEvent DEF LogOK
<1>3. CASE e.type \notin {"WorkflowStarted", "StepCompleted"}
  <2>1. PICK p \in 1..Len(log) : LastOutputAt(p)
    BY <1>3 DEF LogOK
  <2>2. output_positions(log') = output_positions(log)
    BY <1>3, AppendEvent DEF output_positions
  <2>3. LastOutputAt(p)'
    BY <2>1, <2>2 DEF LastOutputAt
  <2> QED BY <1>1, <2>3, AppendEvent DEF LogOK
<1> QED BY <1>2, <1>3

-----------------------------------------------------------------------------
(* Types and control state. *)

\* The nodes of the definition and the ones made up for a branch.
LEMMA NodeTypes ==
    /\ Len(Def) \in Nat
    /\ \A i \in 1..Len(Def) :
         /\ Def[i] \in StepNode
         /\ Def[i].name \in Names /\ Def[i].children \in Seq(Names)
         /\ Def[i].step_type = "Conditional" =>
              /\ Def[i].condition \in Names
              /\ Def[i].on_true \in Names /\ Def[i].on_false \in Names
    /\ \A n \in Names : make_step_node(n) \in StepNode
    /\ \A n \in Names : find_step_node(Def, n) \subseteq StepNode
<1>1. \A i \in 1..Len(Def) : Def[i] \in StepNode
  BY DefAssumption
<1>2. \A n \in Names : make_step_node(n) \in StepNode
  BY DEF make_step_node, plain_node, with_retry, StepNode, StepConfig, StepType
<1>3. \A n \in Names : find_step_node(Def, n) \subseteq StepNode
  BY <1>1 DEF find_step_node
<1>4. Len(Def) \in Nat
  BY DefAssumption
<1>5. ASSUME NEW i \in 1..Len(Def)
      PROVE  /\ Def[i].name \in Names /\ Def[i].children \in Seq(Names)
             /\ Def[i].step_type = "Conditional" =>
                  /\ Def[i].condition \in Names
                  /\ Def[i].on_true \in Names /\ Def[i].on_false \in Names
  <2>1. Def[i].name \in Names /\ Def[i].children \in Seq(Names)
    BY <1>1 DEF StepNode
  <2>2. Def[i].step_type = "Conditional" =>
          {Def[i].condition, Def[i].on_true, Def[i].on_false} \subseteq Names
    BY DefAssumption
  <2> QED BY <2>1, <2>2
<1> QED BY <1>1, <1>2, <1>3, <1>4, <1>5

\* The values the locals are reset to.
LEMMA RestTypes ==
    /\ NoWiring \in [handlers : SUBSET Names, subs : SUBSET Names]
    /\ NoOutputs \in [Names -> Json \cup {None}]
    /\ 0 \in 0..MaxCrashes
BY CrashAssumption DEF NoWiring, NoOutputs

\* A node completes.
LEMMA CompleteNodeType ==
    ASSUME TypeInv, NEW out \in Json, pc \in RunStates, idx \in 1..Len(Def),
           CompleteNode(out)
    PROVE  TypeInv'
<1>1. Node.name \in Names /\ StepCompleted(Node.name, out) \in Event
  BY NodeTypes, EventsMade DEF Node
<1>2. log' \in Seq(Event) /\ log' # <<>>
  BY <1>1, AppendEvent DEF CompleteNode, store_event, TypeInv, TypeOK
<1>3. LogOK'
  BY <1>1, AppendLogOK
     DEF CompleteNode, store_event, TypeInv, TypeOK, ControlOK, StepCompleted
<1>4. TypeOK'
  BY <1>2 DEF CompleteNode, ResetLocal, NoOutputs, TypeInv, TypeOK, process, host, replay
<1>5. ControlOK'
  BY <1>2, NodeTypes DEF CompleteNode, ControlOK, RunStates, NodeStates, CallStates, replay, TypeInv
<1> QED BY <1>3, <1>4, <1>5 DEF TypeInv

\* A run ends with one more event.
LEMMA ReturnType ==
    ASSUME TypeInv, pc \in RunStates, NEW e \in Event, e.type # "WorkflowStarted",
           store_event(e), ReturnFromExecute
    PROVE  TypeInv'
<1>1. log' \in Seq(Event) /\ log' # <<>>
  BY AppendEvent DEF store_event, TypeInv, TypeOK
<1>2. LogOK'
  BY AppendLogOK DEF store_event, TypeInv, TypeOK, ControlOK
<1>3. TypeOK'
  BY <1>1, JsonAssumption
     DEF ReturnFromExecute, ResetLocal, NoOutputs, TypeInv, TypeOK, process, replay
<1>4. ControlOK'
  BY <1>1 DEF ReturnFromExecute, ControlOK, RunStates, NodeStates, CallStates, replay, TypeInv
<1> QED BY <1>2, <1>3, <1>4 DEF TypeInv

\* execute_step is called.
LEMMA CallType ==
    ASSUME TypeInv, pc \in RunStates, idx \in 1..Len(Def),
           completed[Node.name] = None,
           NEW node \in StepNode, NEW site \in Sites, CallExecuteStep(node, site),
           site = "child" => ci \in 1..Len(Node.children),
           site = "condition" => Node.step_type = "Conditional"
    PROVE  TypeInv'
<1>1. LogOK'
  BY DEF CallExecuteStep, TypeInv, LogOK, LastOutputAt
<1>2. TypeOK'
  BY DEF CallFrame, CallExecuteStep, TypeInv, TypeOK, process, host, exec, replay
<1>3. ControlOK'
  BY DEF CallFrame, CallExecuteStep, TypeInv, TypeOK, ControlOK, RunStates,
         NodeStates, CallStates, Node, exec, replay
<1> QED BY <1>1, <1>2, <1>3 DEF TypeInv

\* The log is left alone, or gains one event that is not WorkflowStarted.
LEMMA LogStep ==
    ASSUME TypeInv
    PROVE  /\ log' = log => log' \in Seq(Event) /\ LogOK'
           /\ \A e \in Event :
                e.type # "WorkflowStarted" /\ log # <<>> /\ store_event(e)
                    => log' \in Seq(Event) /\ LogOK' /\ log' # <<>>
<1>1. ASSUME log' = log PROVE log' \in Seq(Event) /\ LogOK'
  BY <1>1 DEF TypeInv, TypeOK, LogOK, LastOutputAt
<1>2. ASSUME NEW e \in Event, e.type # "WorkflowStarted", log # <<>>, store_event(e)
      PROVE  log' \in Seq(Event) /\ LogOK' /\ log' # <<>>
  BY <1>2, AppendEvent, AppendLogOK DEF TypeInv, TypeOK, store_event
<1> QED BY <1>1, <1>2

\* The engine's own steps keep the types and the control state.
LEMMA ExecuteType ==
    ASSUME TypeInv, Execute
    PROVE  TypeInv'
<1> USE DEF RunStates, NodeStates, CallStates
<1>1. ASSUME SkipCompleted PROVE TypeInv'
  <2>1. LogOK' /\ log' \in Seq(Event)
    BY <1>1, LogStep DEF SkipCompleted
  <2>2. completed[Node.name] \in Json
    BY <1>1, NodeTypes DEF SkipCompleted, AtNode, Node, TypeInv, TypeOK, ControlOK
  <2>3. TypeOK'
    BY <1>1, <2>1, <2>2 DEF SkipCompleted, TypeInv, TypeOK, process, host, local, replay
  <2>4. ControlOK'
    BY <1>1, NodeTypes
       DEF SkipCompleted, AtNode, TypeInv, TypeOK, ControlOK, local, replay
  <2> QED BY <2>1, <2>3, <2>4 DEF TypeInv
<1>2. ASSUME RunSequential PROVE TypeInv'
  BY <1>2, CallType, NodeTypes
     DEF RunSequential, AtFresh, AtNode, Node, Sites, TypeInv, TypeOK, ControlOK
<1>3. ASSUME EnterGroup PROVE TypeInv'
  <2>1. LogOK' /\ log' \in Seq(Event)
    BY <1>3, LogStep DEF EnterGroup
  <2>2. TypeOK'
    BY <1>3, <2>1 DEF EnterGroup, NoOutputs, TypeInv, TypeOK, process, host, exec, replay
  <2>3. ControlOK'
    BY <1>3 DEF EnterGroup, AtFresh, AtNode, Node, TypeInv, TypeOK, ControlOK, exec, replay
  <2> QED BY <2>1, <2>2, <2>3 DEF TypeInv
<1>4. ASSUME RunConditional PROVE TypeInv'
  <2>1. /\ idx \in 1..Len(Def) /\ completed[Node.name] = None
        /\ Node.step_type = "Conditional"
        /\ Node.on_true \in Names /\ Node.condition \in Names
    BY <1>4, NodeTypes
       DEF RunConditional, AtFresh, AtNode, Node, TypeInv, TypeOK, ControlOK
  <2>2. CASE completed[Node.condition] # None
    <3>1. LogOK' /\ log' \in Seq(Event)
      BY <1>4, <2>2, LogStep DEF RunConditional
    <3>2. TypeOK'
      BY <1>4, <2>1, <2>2, <3>1
         DEF RunConditional, TypeInv, TypeOK, process, host, exec, replay
    <3>3. ControlOK'
      BY <1>4, <2>1, <2>2
         DEF RunConditional, AtFresh, AtNode, Node, TypeInv, TypeOK, ControlOK, exec, replay
    <3> QED BY <3>1, <3>2, <3>3 DEF TypeInv
  <2>3. CASE completed[Node.condition] = None
    BY <1>4, <2>1, <2>3, CallType, NodeTypes
       DEF RunConditional, AtFresh, AtNode, Sites
  <2> QED BY <2>2, <2>3
<1>5. ASSUME NEW out \in Json, RunSubWorkflow(out) PROVE TypeInv'
  BY <1>5, CompleteNodeType
     DEF RunSubWorkflow, AtFresh, AtNode, TypeInv, TypeOK, ControlOK
<1>6. ASSUME MissingSubWorkflow PROVE TypeInv'
  BY <1>6, ReturnType, EventsMade
     DEF MissingSubWorkflow, FailWorkflow, WorkflowFailed, WorkflowErrors, AtFresh, AtNode
<1>7. ASSUME SignalReceived PROVE TypeInv'
  BY <1>7, CompleteNodeType
     DEF SignalReceived, AtFresh, AtNode, TypeInv, TypeOK, ControlOK
<1>8. ASSUME SignalMissing PROVE TypeInv'
  BY <1>8, ReturnType, EventsMade
     DEF SignalMissing, FailWorkflow, WorkflowFailed, WorkflowErrors, AtFresh, AtNode
<1>9. ASSUME Finish PROVE TypeInv'
  BY <1>9, ReturnType, EventsMade DEF Finish, WorkflowCompleted, TypeInv, TypeOK
<1>10. ASSUME SkipChild PROVE TypeInv'
  <2>1. LogOK' /\ log' \in Seq(Event)
    BY <1>10, LogStep DEF SkipChild
  <2>2. Child \in Names /\ completed[Child] \in Json
    BY <1>10, NodeTypes DEF SkipChild, AtChild, Child, Node, TypeInv, TypeOK, ControlOK
  <2>3. TypeOK'
    BY <1>10, <2>1, <2>2 DEF SkipChild, TypeInv, TypeOK, process, host, exec, replay
  <2>4. ControlOK'
    BY <1>10 DEF SkipChild, AtChild, Node, TypeInv, TypeOK, ControlOK, exec, replay
  <2> QED BY <2>1, <2>3, <2>4 DEF TypeInv
<1>11. ASSUME RunChild PROVE TypeInv'
  <2>1. Child \in Names
    BY <1>11, NodeTypes DEF RunChild, AtChild, Child, Node, TypeInv, TypeOK, ControlOK
  <2>2. CASE find_step_node(Def, Child) = {}
    BY <1>11, <2>2, ReturnType, EventsMade
       DEF RunChild, FailWorkflow, WorkflowFailed, WorkflowErrors, AtChild
  <2>3. CASE find_step_node(Def, Child) # {}
    BY <1>11, <2>1, <2>3, CallType, NodeTypes
       DEF RunChild, AtChild, Sites, TypeInv, TypeOK, ControlOK
  <2> QED BY <2>2, <2>3
<1>12. ASSUME GroupDone PROVE TypeInv'
  BY <1>12, CompleteNodeType, MergeAssumption DEF GroupDone, TypeInv, TypeOK, ControlOK
<1>13. ASSUME RunTarget PROVE TypeInv'
  <2>1. target \in Names /\ idx \in 1..Len(Def) /\ completed[Node.name] = None
    BY <1>13 DEF RunTarget, TypeInv, TypeOK, ControlOK
  <2>2. CASE completed[target] # None
    BY <1>13, <2>1, <2>2, CompleteNodeType DEF RunTarget, TypeInv, TypeOK
  <2>3. CASE completed[target] = None
    BY <1>13, <2>1, <2>3, CallType, NodeTypes DEF RunTarget, Sites
  <2> QED BY <2>2, <2>3
<1>14. ASSUME StartStep PROVE TypeInv'
  <2>1. LogOK' /\ log' \in Seq(Event) /\ log' # <<>>
    BY <1>14, LogStep, EventsMade
       DEF StartStep, StepStarted, TypeInv, ControlOK, CallFrame, StepNode
  <2>2. TypeOK'
    BY <1>14, <2>1
       DEF StartStep, TypeInv, TypeOK, WorkflowErrors, process, host, exec, replay
  <2>3. ControlOK'
    BY <1>14, <2>1
       DEF StartStep, TypeInv, TypeOK, ControlOK, Node, WorkflowErrors, exec, replay
  <2> QED BY <2>1, <2>2, <2>3 DEF TypeInv
<1>15. ASSUME Retry PROVE TypeInv'
  <2>1. call \in CallFrame /\ call.node.name \in Names /\ call.attempt + 1 \in Nat
    BY <1>15 DEF Retry, TypeInv, ControlOK, CallFrame, StepNode
  <2>2. LogOK' /\ log' \in Seq(Event) /\ log' # <<>>
    BY <1>15, <2>1, LogStep, EventsMade DEF Retry, StepRetrying, TypeInv, ControlOK
  <2>3. call' \in CallFrame /\ call'.site = call.site
    BY <1>15, <2>1 DEF Retry, CallFrame
  <2>4. TypeOK'
    BY <1>15, <2>2, <2>3 DEF Retry, TypeInv, TypeOK, process, host, exec, replay
  <2>5. ControlOK'
    BY <1>15, <2>2, <2>3 DEF Retry, TypeInv, TypeOK, ControlOK, Node, exec, replay
  <2> QED BY <2>2, <2>4, <2>5 DEF TypeInv
<1>16. ASSUME GiveUp PROVE TypeInv'
  <2>1. LogOK' /\ log' \in Seq(Event) /\ log' # <<>>
    BY <1>16, LogStep, EventsMade
       DEF GiveUp, StepFailed, StepErrors, TypeInv, ControlOK, CallFrame, StepNode
  <2>2. TypeOK'
    BY <1>16, <2>1
       DEF GiveUp, TypeInv, TypeOK, WorkflowErrors, process, host, exec, replay
  <2>3. ControlOK'
    BY <1>16, <2>1 DEF GiveUp, TypeInv, TypeOK, ControlOK, Node, WorkflowErrors, exec, replay
  <2> QED BY <2>1, <2>2, <2>3 DEF TypeInv
<1>17. ASSUME Unwind PROVE TypeInv'
  <2>1. CASE call.site # "condition"
    BY <1>17, <2>1, ReturnType, EventsMade
       DEF Unwind, FailWorkflow, WorkflowFailed, TypeInv, ControlOK
  <2>2. CASE call.site = "condition"
    <3>1. LogOK' /\ log' \in Seq(Event)
      BY <1>17, <2>2, LogStep DEF Unwind
    <3>2. Node.on_false \in Names
      BY <1>17, <2>2, NodeTypes DEF Unwind, Node, TypeInv, ControlOK
    <3>3. TypeOK'
      BY <1>17, <2>2, <3>1, <3>2 DEF Unwind, TypeInv, TypeOK, process, host, exec, replay
    <3>4. ControlOK'
      BY <1>17, <2>2, <3>2 DEF Unwind, TypeInv, TypeOK, ControlOK, Node, exec, replay
    <3> QED BY <3>1, <3>3, <3>4 DEF TypeInv
  <2> QED BY <2>1, <2>2
<1> QED
  BY <1>1, <1>2, <1>3, <1>4, <1>5, <1>6, <1>7, <1>8, <1>9, <1>10, <1>11,
     <1>12, <1>13, <1>14, <1>15, <1>16, <1>17 DEF Execute

\* What handlers do keeps the types and the control state.
LEMMA HandlerType ==
    ASSUME TypeInv, Handler
    PROVE  TypeInv'
<1> USE DEF RunStates, NodeStates, CallStates
<1>1. ASSUME NEW out \in Json, HandlerReturns(out) PROVE TypeInv'
  <2>1. idx \in 1..Len(Def) /\ call \in CallFrame
    BY <1>1 DEF HandlerReturns, TypeInv, ControlOK
  <2>2. CASE call.site \in {"sequential", "target"}
    BY <1>1, <2>1, <2>2, CompleteNodeType DEF HandlerReturns
  <2>3. CASE call.site = "child"
    <3>1. LogOK' /\ log' \in Seq(Event)
      BY <1>1, <2>3, LogStep DEF HandlerReturns
    <3>2. Child \in Names
      BY <1>1, <2>3, NodeTypes DEF HandlerReturns, Child, Node, TypeInv, ControlOK
    <3>3. TypeOK'
      BY <1>1, <2>3, <3>1, <3>2
         DEF HandlerReturns, TypeInv, TypeOK, process, host, exec, replay
    <3>4. ControlOK'
      BY <1>1, <2>3 DEF HandlerReturns, TypeInv, TypeOK, ControlOK, Node, exec, replay
    <3> QED BY <3>1, <3>3, <3>4 DEF TypeInv
  <2>4. CASE call.site = "condition"
    <3>1. LogOK' /\ log' \in Seq(Event)
      BY <1>1, <2>4, LogStep DEF HandlerReturns
    <3>2. Node.on_true \in Names
      BY <1>1, <2>4, NodeTypes DEF HandlerReturns, Node, TypeInv, ControlOK
    <3>3. TypeOK'
      BY <1>1, <2>4, <3>1, <3>2
         DEF HandlerReturns, TypeInv, TypeOK, process, host, exec, replay
    <3>4. ControlOK'
      BY <1>1, <2>4, <3>2 DEF HandlerReturns, TypeInv, TypeOK, ControlOK, Node, exec, replay
    <3> QED BY <3>1, <3>3, <3>4 DEF TypeInv
  <2> QED BY <2>1, <2>2, <2>3, <2>4 DEF CallFrame, Sites
<1>2. ASSUME HandlerFails PROVE TypeInv'
  <2>1. LogOK' /\ log' \in Seq(Event)
    BY <1>2, LogStep DEF HandlerFails
  <2>2. TypeOK'
    BY <1>2, <2>1 DEF HandlerFails, TypeInv, TypeOK, process, host, exec, local, replay
  <2>3. ControlOK'
    BY <1>2 DEF HandlerFails, TypeInv, TypeOK, ControlOK, Node, exec, local, replay
  <2> QED BY <2>1, <2>2, <2>3 DEF TypeInv
<1>3. ASSUME HandlerLate PROVE TypeInv'
  <2>1. LogOK' /\ log' \in Seq(Event) /\ log' # <<>>
    BY <1>3, LogStep, EventsMade
       DEF HandlerLate, StepFailed, StepErrors, TypeInv, ControlOK, CallFrame, StepNode
  <2>2. TypeOK'
    BY <1>3, <2>1 DEF HandlerLate, TypeInv, TypeOK, process, host, exec, local, replay
  <2>3. ControlOK'
    BY <1>3, <2>1 DEF HandlerLate, TypeInv, TypeOK, ControlOK, Node, exec, local, replay
  <2> QED BY <2>1, <2>2, <2>3 DEF TypeInv
<1> QED BY <1>1, <1>2, <1>3 DEF Handler

\* Replay and the decision of resume_workflow keep the types.
LEMMA RecoverType ==
    ASSUME TypeInv, Recover
    PROVE  TypeInv'
<1> USE DEF RunStates, NodeStates, CallStates
<1>1. log' = log
  BY DEF Recover, ReplayEvent, ResumeReports, ResumeContinues
<1>2. LogOK' /\ log' \in Seq(Event) /\ Len(log) \in Nat
  BY <1>1, LogStep DEF TypeInv, TypeOK
<1>3. ASSUME ReplayEvent PROVE TypeInv'
  <2>1. log[pos + 1] \in Event /\ pos \in 0..Len(log)
    BY <1>2, <1>3 DEF ReplayEvent, TypeInv, TypeOK, ControlOK
  <2>2. replayed' \in ExecutionState
    BY <1>3, <2>1, ApplyEventType DEF ReplayEvent, TypeInv, TypeOK
  <2>3. TypeOK'
    BY <1>2, <1>3, <2>2 DEF ReplayEvent, TypeInv, TypeOK, process, host, exec, local
  <2>4. ControlOK'
    BY <1>2, <1>3, <2>1, <2>2 DEF ReplayEvent, TypeInv, TypeOK, ControlOK, replay
  <2> QED BY <1>2, <2>3, <2>4 DEF TypeInv
<1>4. ASSUME ResumeReports PROVE TypeInv'
  BY <1>2, <1>4
     DEF ResumeReports, ResetReplay, TypeInv, TypeOK, ControlOK, process, exec, local
<1>5. ASSUME ResumeContinues PROVE TypeInv'
  <2>1. replayed \in ExecutionState
    BY <1>2, <1>5 DEF ResumeContinues, TypeInv, TypeOK, ControlOK
  <2>2. get_last_output(log) \in Json
    BY LastOutputType DEF TypeInv, TypeOK
  <2>3. TypeOK'
    BY <1>2, <1>5, <2>1, <2>2
       DEF ResumeContinues, ResetReplay, TypeInv, TypeOK, ExecutionState, process, host, local
  <2>4. ControlOK'
    BY <1>5, NodeTypes DEF ResumeContinues, TypeInv, ControlOK, ResetReplay
  <2> QED BY <1>2, <2>3, <2>4 DEF TypeInv
<1> QED BY <1>3, <1>4, <1>5 DEF Recover

\* The calls of the host keep the types.
LEMMA HostType ==
    ASSUME TypeInv, Host
    PROVE  TypeInv'
<1> USE DEF RunStates, NodeStates, CallStates
<1>1. ASSUME NEW w \in Wirings, NewEngine(w) PROVE TypeInv'
  <2>1. LogOK' /\ log' \in Seq(Event)
    BY <1>1, LogStep DEF NewEngine
  <2> QED
    BY <1>1, <2>1, WiringAssumption
       DEF NewEngine, TypeInv, TypeOK, ControlOK, host, exec, local, replay
<1>2. ASSUME NEW in \in Json, NEW timed \in BOOLEAN, Start(in, timed) PROVE TypeInv'
  <2>1. WorkflowStarted(in) \in Event /\ WorkflowStarted(in).type = "WorkflowStarted"
    BY EventsMade DEF WorkflowStarted
  <2>2. log' \in Seq(Event) /\ log' # <<>>
    BY <1>2, <2>1, AppendEvent DEF Start, store_event, TypeInv, TypeOK
  <2>3. LogOK'
    BY <1>2, <2>1, AppendLogOK DEF Start, store_event, TypeInv, TypeOK
  <2>4. TypeOK'
    BY <1>2, <2>2 DEF Start, NoOutputs, TypeInv, TypeOK, process, host, local, replay
  <2>5. ControlOK'
    BY <1>2, <2>2, NodeTypes DEF Start, ControlOK, replay, TypeInv
  <2> QED BY <2>3, <2>4, <2>5 DEF TypeInv
<1>3. ASSUME NEW late \in BOOLEAN, CheckDeadline(late) PROVE TypeInv'
  <2>1. LogOK' /\ log' \in Seq(Event)
    BY <1>3, LogStep, EventsMade
       DEF CheckDeadline, WorkflowFailed, WorkflowErrors, TypeInv, ControlOK
  <2> QED
    BY <1>3, <2>1 DEF CheckDeadline, TypeInv, TypeOK, ControlOK, process, local, replay
<1>4. ASSUME NEW s \in {Def[i].signal : i \in 1..Len(Def)} \ {None}, Signal(s)
      PROVE  TypeInv'
  <2>1. LogOK' /\ log' \in Seq(Event)
    BY <1>4, LogStep DEF Signal
  <2>2. s \in Names
    BY NodeTypes DEF StepNode
  <2>3. TypeOK'
    BY <1>4, <2>1, <2>2 DEF Signal, TypeInv, TypeOK, host, exec, local, replay
  <2>4. ControlOK'
    BY <1>4 DEF Signal, TypeInv, TypeOK, ControlOK, Node, exec, local, replay
  <2> QED BY <2>1, <2>3, <2>4 DEF TypeInv
<1>5. ASSUME Resume PROVE TypeInv'
  <2>1. LogOK' /\ log' \in Seq(Event)
    BY <1>5, LogStep DEF Resume
  <2>2. TypeOK'
    BY <1>5, <2>1 DEF Resume, TypeInv, TypeOK, process, exec, local, replay
  <2>3. ControlOK'
    BY <1>5, <2>1 DEF Resume, TypeInv, TypeOK, ControlOK, replay
  <2> QED BY <2>1, <2>2, <2>3 DEF TypeInv
<1> QED BY <1>1, <1>2, <1>3, <1>4, <1>5 DEF Host

\* A crash resets every local to a value of its type.
LEMMA CrashType ==
    ASSUME TypeInv, Crash
    PROVE  TypeInv'
<1>1. LogOK' /\ log' \in Seq(Event)
  BY LogStep DEF Crash
<1>2. TypeOK'
  <2>1. deadline' \in BOOLEAN
    BY DEF Crash, ResetExec
  <2>2. crashes' \in 0..MaxCrashes
    BY CrashAssumption DEF Crash, TypeInv, TypeOK
  <2>3. resumed' \in Nat
    BY DEF Crash, TypeInv, TypeOK
  <2> QED
    BY <1>1, <2>1, <2>2, <2>3, JsonAssumption, RestTypes
       DEF Crash, ResetExec, ResetLocal, ResetReplay, TypeOK
<1>3. ControlOK'
  BY DEF Crash, ResetReplay, ControlOK, RunStates, NodeStates, CallStates
<1> QED BY <1>1, <1>2, <1>3 DEF TypeInv

\* One step of the engine, or none, keeps the types.
LEMMA TypeStep == TypeInv /\ [Next]_vars => TypeInv'
<1> SUFFICES ASSUME TypeInv, [Next]_vars PROVE TypeInv'
  OBVIOUS
<1>1. CASE UNCHANGED vars
  <2>1. LogOK' /\ log' \in Seq(Event)
    BY <1>1, LogStep DEF vars
  <2> QED
    BY <1>1, <2>1
       DEF vars, TypeInv, TypeOK, ControlOK, Node, process, host, exec, local, replay
<1> QED
  BY <1>1, ExecuteType, HandlerType, RecoverType, HostType, CrashType DEF Next

\* The initial state is well typed.
LEMMA TypeInit == Init => TypeInv
<1> SUFFICES ASSUME Init PROVE TypeInv
  OBVIOUS
<1>1. TypeOK
  <2>1. deadline \in BOOLEAN
    BY DEF Init
  <2> QED BY <2>1, JsonAssumption, RestTypes DEF Init, TypeOK
<1>2. ControlOK
  BY DEF Init, ControlOK, RunStates, NodeStates, CallStates
<1>3. LogOK
  BY DEF Init, LogOK
<1> QED BY <1>1, <1>2, <1>3 DEF TypeInv

\* Every state of the engine has the types TypeOK gives it, whatever the
\* definition, the handlers and the number of crashes.
THEOREM TypeCorrect == Spec => []TypeOK
<1>1. Spec => []TypeInv
  BY TypeInit, TypeStep, PTL DEF Spec
<1>2. TypeInv => TypeOK
  BY DEF TypeInv
<1> QED BY <1>1, <1>2, PTL

=============================================================================
