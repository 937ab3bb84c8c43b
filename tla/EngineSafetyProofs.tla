------------------------- MODULE EngineSafetyProofs -------------------------
(***************************************************************************)
(* The inductive invariant of EngineInvariants and the safety properties   *)
(* that follow from it, for definitions with unique step names.            *)
(***************************************************************************)
EXTENDS EngineProofs

-----------------------------------------------------------------------------
(* What a longer log says about completions. *)

\* Appending an event changes what is completed only if it is StepCompleted.
LEMMA AppendCompletions ==
    ASSUME log \in Seq(Event), NEW e \in Event, log' = Append(log, e), NEW n
    PROVE  /\ \A p \in 1..Len(log) : CompletedAt(p, n)' <=> CompletedAt(p, n)
           /\ CompletedAt(Len(log), n)' <=> e.type = "StepCompleted" /\ e.step = n
           /\ \A p \in 1..(Len(log) + 1) : CompletedBefore(p, n)' <=> CompletedBefore(p, n)
           /\ Recorded(n)' <=> Recorded(n) \/ (e.type = "StepCompleted" /\ e.step = n)
<1>1. \A p \in 1..Len(log) : CompletedAt(p, n)' <=> CompletedAt(p, n)
  BY AppendEvent DEF CompletedAt
<1>2. CompletedAt(Len(log), n)' <=> e.type = "StepCompleted" /\ e.step = n
  BY AppendEvent DEF CompletedAt
<1>3. \A p \in 1..(Len(log) + 1) : CompletedBefore(p, n)' <=> CompletedBefore(p, n)
  BY <1>1, AppendEvent DEF CompletedBefore
<1>4. Recorded(n)' <=> Recorded(n) \/ (e.type = "StepCompleted" /\ e.step = n)
  BY <1>1, <1>2, AppendEvent DEF Recorded, CompletedAt
<1> QED BY <1>1, <1>2, <1>3, <1>4

\* The order of completions is not disturbed by any other event.
LEMMA OtherEventKeepsOrder ==
    ASSUME log \in Seq(Event), NEW e \in Event, e.type # "StepCompleted",
           log' = Append(log, e), CompletedAsDefined
    PROVE  CompletedAsDefined'
<1> SUFFICES ASSUME NEW p \in 1..Len(log'), log'[p].type = "StepCompleted"
             PROVE  \E j \in 1..Len(Def) :
                      /\ log'[p].step = Def[j].name
                      /\ \A i \in 1..Len(Def) :
                           CompletedBefore(p, Def[i].name)' <=> i < j
  BY DEF CompletedAsDefined
<1>1. p \in 1..Len(log) /\ log'[p] = log[p]
  BY AppendEvent
<1>2. PICK j \in 1..Len(Def) :
        /\ log[p].step = Def[j].name
        /\ \A i \in 1..Len(Def) : CompletedBefore(p, Def[i].name) <=> i < j
  BY <1>1 DEF CompletedAsDefined
<1>3. ASSUME NEW n
      PROVE  CompletedBefore(p, n)' <=> CompletedBefore(p, n)
  BY <1>1, AppendEvent DEF CompletedBefore, CompletedAt
<1>4. \A i \in 1..Len(Def) : CompletedBefore(p, Def[i].name)' <=> i < j
  BY <1>2, <1>3
<1> QED BY <1>1, <1>2, <1>4

\* Nor is the last output.
LEMMA OtherEventKeepsOutput ==
    ASSUME log \in Seq(Event), LogOK, log # <<>>, NEW e \in Event,
           e.type \notin {"StepCompleted", "WorkflowStarted"}, log' = Append(log, e)
    PROVE  get_last_output(log)' = get_last_output(log)
<1>1. PICK p \in 1..Len(log) : LastOutputAt(p)
  BY DEF LogOK
<1>2. output_positions(log') = output_positions(log) /\ log'[p] = log[p]
  BY AppendEvent DEF output_positions
<1>3. output_positions(log) # {}
  BY <1>1 DEF LastOutputAt
<1>4. last_output_position(log) = p
  <2>1. ASSUME NEW q \in output_positions(log), \A r \in output_positions(log) : r <= q
        PROVE  q = p
    <3>1. p <= q /\ q <= p /\ p \in Int /\ q \in Int
      BY <1>1, <2>1 DEF LastOutputAt, output_positions
    <3> QED BY <3>1
  <2> QED BY <1>1, <2>1 DEF LastOutputAt, last_output_position
<1>5. last_output_position(log') = p
  BY <1>2, <1>4 DEF last_output_position
<1> QED BY <1>2, <1>3, <1>4, <1>5 DEF get_last_output

-----------------------------------------------------------------------------
(* The frontier: where the run is in the definition. *)

\* At a step that is not known to be completed, the recorded steps are
\* exactly the ones before it.
LEMMA Frontier ==
    ASSUME UniqueNames, TypeInv, RunOK, CompletedAsDefined, pc \in RunStates,
           idx \in 1..Len(Def), completed[Node.name] = None
    PROVE  \A i \in 1..Len(Def) : Recorded(Def[i].name) <=> i < idx
<1> SUFFICES ASSUME NEW i \in 1..Len(Def), Recorded(Def[i].name), i >= idx
             PROVE  FALSE
  <2>1. \A i \in 1..Len(Def) : i < idx => Recorded(Def[i].name)
    BY DEF RunOK
  <2>2. \A i \in 1..Len(Def) : i < idx \/ i >= idx
    BY NodeTypes
  <2> QED BY <2>1, <2>2
<1>1. PICK p \in 1..Len(log) : CompletedAt(p, Def[i].name)
  BY DEF Recorded
<1>2. PICK j \in 1..Len(Def) :
        /\ log[p].step = Def[j].name
        /\ \A k \in 1..Len(Def) : CompletedBefore(p, Def[k].name) <=> k < j
  BY <1>1 DEF CompletedAsDefined, CompletedAt
<1>3. j = i
  BY <1>1, <1>2 DEF CompletedAt, UniqueNames
<1>4. Recorded(Def[idx].name)
  <2>1. CASE idx = i
    BY <2>1
  <2>2. CASE idx < i
    <3>1. CompletedBefore(p, Def[idx].name)
      BY <1>2, <1>3, <2>2
    <3>2. PICK q \in 1..(p - 1) : CompletedAt(q, Def[idx].name)
      BY <3>1 DEF CompletedBefore
    <3>3. q \in 1..Len(log)
      BY <1>1, <3>2, AppendEvent DEF TypeInv, TypeOK
    <3> QED BY <3>2, <3>3 DEF Recorded
  <2> QED BY <2>1, <2>2, NodeTypes
<1>5. completed[Def[idx].name] # None
  BY <1>4, NodeTypes DEF RunOK
<1> QED BY <1>5 DEF Node

\* The completion of the last recorded step is the last output.
LEMMA LastCompletion ==
    ASSUME UniqueNames, TypeInv, CompletedAsDefined, NEW k \in 1..Len(Def),
           \A i \in 1..Len(Def) : Recorded(Def[i].name) => i <= k,
           NEW p \in 1..Len(log), CompletedAt(p, Def[k].name)
    PROVE  get_last_output(log) = log[p].output
<1>1. p \in output_positions(log) /\ log[p].type = "StepCompleted"
  BY DEF output_positions, CompletedAt
<1>2. ASSUME NEW q \in output_positions(log), q > p PROVE FALSE
  <2>1. q \in 1..Len(log) /\ log[q].type \in {"StepCompleted", "WorkflowStarted"}
    BY DEF output_positions
  <2>2. log[q].type = "StepCompleted"
    BY <1>2, <2>1 DEF TypeInv, LogOK
  <2>3. PICK j \in 1..Len(Def) :
          /\ log[q].step = Def[j].name
          /\ \A i \in 1..Len(Def) : CompletedBefore(q, Def[i].name) <=> i < j
    BY <2>1, <2>2 DEF CompletedAsDefined
  <2>4. CompletedBefore(q, Def[k].name)
    BY <1>2, <2>1 DEF CompletedBefore
  <2>5. Recorded(Def[j].name)
    BY <2>1, <2>2, <2>3 DEF Recorded, CompletedAt
  <2> QED BY <2>3, <2>4, <2>5
<1>3. LastOutputAt(p)
  <2>1. \A q \in output_positions(log) : q \in Int /\ ~(q > p)
    BY <1>2 DEF output_positions
  <2> QED BY <1>1, <2>1 DEF LastOutputAt
<1> QED BY <1>1, <1>3, LastOutputValue DEF TypeInv, TypeOK

\* At the frontier the run's input is the last output.
LEMMA FrontierInput ==
    ASSUME UniqueNames, TypeInv, RunOK, CompletedAsDefined, pc \in RunStates,
           idx <= Len(Def) => completed[Node.name] = None
    PROVE  input = get_last_output(log)
<1>1. idx \in 1..(Len(Def) + 1) /\ Len(Def) \in Nat
  BY NodeTypes DEF TypeInv, ControlOK
<1>2. CASE idx = 1
  BY <1>2 DEF RunOK
<1>3. CASE idx > 1
  <2>1. idx - 1 \in 1..Len(Def)
    BY <1>1, <1>3
  <2>2. PICK p \in 1..Len(log) :
          CompletedAt(p, Def[idx - 1].name) /\ log[p].output = input
    BY <1>3 DEF RunOK
  <2>3. \A i \in 1..Len(Def) : Recorded(Def[i].name) => i <= idx - 1
    <3>1. CASE idx \in 1..Len(Def)
      BY <1>1, <3>1, Frontier
    <3>2. CASE idx = Len(Def) + 1
      BY <3>2, <1>1
    <3> QED BY <1>1, <3>1, <3>2
  <2> QED BY <2>1, <2>2, <2>3, LastCompletion
<1> QED BY <1>1, <1>2, <1>3

-----------------------------------------------------------------------------
(* What the steps of the engine do to the run and to the log. *)

\* The part of the invariant that is beyond types and control.
Agreement == RunOK /\ ReplayOK /\ CompletedAsDefined

\* The order of completions is a matter of the log alone.
LEMMA SameLogKeepsOrder ==
    ASSUME CompletedAsDefined, log' = log
    PROVE  CompletedAsDefined'
BY DEF CompletedAsDefined, CompletedBefore, CompletedAt

\* A step that neither writes an event nor moves the run.
LEMMA QuietStep ==
    ASSUME IndInv, log' = log, UNCHANGED exec, pc' \notin {"replay"},
           pc' \in RunStates => pc \in RunStates
    PROVE  Agreement'
<1>1. CompletedAsDefined'
  BY SameLogKeepsOrder DEF IndInv
<1>2. RunOK'
  BY DEF IndInv, RunOK, exec, Recorded, CompletedAt, IsTerminal
<1>3. ReplayOK'
  BY DEF ReplayOK
<1> QED BY <1>1, <1>2, <1>3 DEF Agreement

\* A step event (started, failed, retrying) is written during a run.
LEMMA StepEventStep ==
    ASSUME IndInv, pc \in RunStates, pc' # "replay", UNCHANGED exec,
           NEW e \in Event, e.type \in {"StepStarted", "StepFailed", "StepRetrying"},
           store_event(e)
    PROVE  Agreement'
<1>1. log \in Seq(Event) /\ log' = Append(log, e) /\ log # <<>> /\ LogOK
  BY DEF IndInv, TypeInv, TypeOK, ControlOK, store_event
<1>2. CompletedAsDefined'
  BY <1>1, OtherEventKeepsOrder DEF IndInv
<1>3. RunOK'
  <2>1. get_last_output(log)' = get_last_output(log)
    BY <1>1, OtherEventKeepsOutput
  <2>2. \A p \in 1..Len(log') : ~IsTerminal(log'[p])
    BY <1>1, AppendEvent DEF IndInv, RunOK, IsTerminal
  <2>3. ASSUME NEW n PROVE Recorded(n)' <=> Recorded(n)
    BY <1>1, AppendCompletions
  <2>4. \A p \in 1..Len(log) : p \in 1..Len(log') /\ log'[p] = log[p]
    BY <1>1, AppendEvent
  <2> QED
    BY <2>1, <2>2, <2>3, <2>4 DEF IndInv, RunOK, exec, IsTerminal, CompletedAt
<1>4. ReplayOK'
  BY DEF ReplayOK
<1> QED BY <1>2, <1>3, <1>4 DEF Agreement

\* The run is over, or not under way: any event but StepCompleted.
LEMMA OutsideRunStep ==
    ASSUME IndInv, pc' \notin RunStates \cup {"replay"},
           \/ log' = log
           \/ \E e \in Event : e.type # "StepCompleted" /\ store_event(e)
    PROVE  Agreement'
<1>1. CompletedAsDefined'
  <2>1. CASE log' = log
    BY <2>1, SameLogKeepsOrder DEF IndInv
  <2>2. CASE \E e \in Event : e.type # "StepCompleted" /\ store_event(e)
    BY <2>2, OtherEventKeepsOrder DEF IndInv, TypeInv, TypeOK, store_event
  <2> QED BY <2>1, <2>2
<1> QED BY <1>1 DEF Agreement, RunOK, ReplayOK

\* A node completes at the frontier.
LEMMA CompleteNodeStep ==
    ASSUME UniqueNames, IndInv, NEW out \in Json, pc \in RunStates,
           idx \in 1..Len(Def), completed[Node.name] = None, CompleteNode(out)
    PROVE  Agreement'
<1> DEFINE e == StepCompleted(Node.name, out)
<1>1. /\ log \in Seq(Event) /\ log' = Append(log, e) /\ e \in Event
      /\ e.type = "StepCompleted" /\ e.step = Def[idx].name /\ e.output = out
  BY NodeTypes, EventsMade
     DEF IndInv, TypeInv, TypeOK, CompleteNode, store_event, StepCompleted, Node
<1> HIDE DEF e
<1>2. \A i \in 1..Len(Def) : Recorded(Def[i].name) <=> i < idx
  BY Frontier DEF IndInv
<1>3. /\ \A p \in 1..Len(log) : p \in 1..Len(log') /\ log'[p] = log[p]
      /\ Len(log') = Len(log) + 1 /\ log'[Len(log')] = e /\ Len(log) \in Nat
      /\ Len(log') \in 1..Len(log')
  BY <1>1, AppendEvent
<1>4. ASSUME NEW n
      PROVE  Recorded(n)' <=> Recorded(n) \/ n = Def[idx].name
  BY <1>1, AppendCompletions
<1>5. CompletedAsDefined'
  <2> SUFFICES ASSUME NEW p \in 1..Len(log'), log'[p].type = "StepCompleted"
               PROVE  \E j \in 1..Len(Def) :
                        /\ log'[p].step = Def[j].name
                        /\ \A i \in 1..Len(Def) :
                             CompletedBefore(p, Def[i].name)' <=> i < j
    BY DEF CompletedAsDefined
  <2>1. CASE p \in 1..Len(log)
    <3>1. PICK j \in 1..Len(Def) :
            /\ log[p].step = Def[j].name
            /\ \A i \in 1..Len(Def) : CompletedBefore(p, Def[i].name) <=> i < j
      BY <1>3, <2>1 DEF IndInv, CompletedAsDefined
    <3>2. ASSUME NEW n PROVE CompletedBefore(p, n)' <=> CompletedBefore(p, n)
      BY <1>3, <2>1 DEF CompletedBefore, CompletedAt
    <3>3. \A i \in 1..Len(Def) : CompletedBefore(p, Def[i].name)' <=> i < j
      BY <3>1, <3>2
    <3> QED BY <1>3, <2>1, <3>1, <3>3
  <2>2. CASE p = Len(log) + 1
    <3>1. ASSUME NEW n PROVE CompletedBefore(p, n)' <=> Recorded(n)
      BY <1>3, <2>2 DEF CompletedBefore, CompletedAt, Recorded
    <3>2. \A i \in 1..Len(Def) : CompletedBefore(p, Def[i].name)' <=> i < idx
      BY <1>2, <3>1
    <3> QED BY <1>1, <1>3, <2>2, <3>2
  <2> QED BY <1>3, <2>1, <2>2
<1>6. RunOK'
  <2>1. idx' = idx + 1 /\ input' = out /\ completed' = completed
    BY DEF CompleteNode
  <2>2. \A p \in 1..Len(log') : ~IsTerminal(log'[p])
    BY <1>1, <1>3 DEF IndInv, RunOK, IsTerminal
  <2>3. \A i \in 1..Len(Def) : i < idx' => Recorded(Def[i].name)'
    BY <1>2, <1>4, <2>1
  <2>4. ASSUME NEW i \in 1..Len(Def), i >= idx', Recorded(Def[i].name)'
        PROVE  FALSE
    <3>1. Def[i].name # Def[idx].name
      BY <2>1, <2>4 DEF UniqueNames
    <3>2. Recorded(Def[i].name)
      BY <1>4, <2>4, <3>1
    <3> QED BY <1>2, <2>1, <2>4, <3>2
  <2>5. \A n \in Names : completed[n] # None =>
          \E p \in 1..Len(log') : CompletedAt(p, n)' /\ log'[p].output = completed[n]
    BY <1>3 DEF IndInv, RunOK, CompletedAt
  <2>6. idx' - 1 = idx /\ idx' # 1
    BY <2>1, NodeTypes
  <2>7. \E p \in 1..Len(log') :
          /\ log'[p].type = "StepCompleted" /\ log'[p].step = Def[idx' - 1].name
          /\ log'[p].output = out
    BY <1>1, <1>3, <2>6
  <2>8. \A i \in 1..Len(Def) :
          i >= idx' /\ Recorded(Def[i].name)' => completed'[Def[i].name] # None
    BY <2>4
  <2> QED BY <2>1, <2>2, <2>3, <2>5, <2>6, <2>7, <2>8 DEF RunOK, CompletedAt, IsTerminal
<1>7. ReplayOK'
  BY DEF CompleteNode, ReplayOK
<1> QED BY <1>5, <1>6, <1>7 DEF Agreement

\* A recovered step is skipped; its recorded output becomes the input.
LEMMA SkipStep ==
    ASSUME IndInv, SkipCompleted
    PROVE  Agreement'
<1>1. /\ log' = log /\ completed' = completed /\ idx' = idx + 1 /\ pc' = "loop"
      /\ input' = completed[Def[idx].name] /\ completed[Def[idx].name] # None
      /\ pc \in RunStates /\ idx \in 1..Len(Def) /\ Len(Def) \in Nat
  BY NodeTypes DEF SkipCompleted, AtNode, Node, IndInv, TypeInv, ControlOK, RunStates
<1>2. PICK p \in 1..Len(log) :
        CompletedAt(p, Def[idx].name) /\ log[p].output = completed[Def[idx].name]
  BY <1>1, NodeTypes DEF IndInv, RunOK
<1>3. CompletedAsDefined'
  BY <1>1, SameLogKeepsOrder DEF IndInv
<1>4. RunOK'
  <2>1. \A i \in 1..Len(Def) : i < idx' => Recorded(Def[i].name)'
    <3>1. \A i \in 1..Len(Def) : i < idx' => Recorded(Def[i].name)
      BY <1>1, <1>2 DEF IndInv, RunOK, Recorded
    <3> QED BY <1>1, <3>1 DEF Recorded, CompletedAt
  <2>2. \A i \in 1..Len(Def) :
          i >= idx' /\ Recorded(Def[i].name)' => completed'[Def[i].name] # None
    <3>1. \A i \in 1..Len(Def) :
            i >= idx' /\ Recorded(Def[i].name) => completed'[Def[i].name] # None
      BY <1>1 DEF IndInv, RunOK
    <3> QED BY <1>1, <3>1 DEF Recorded, CompletedAt
  <2>3. idx' - 1 = idx /\ idx' # 1
    BY <1>1
  <2>4. /\ \A q \in 1..Len(log) : ~IsTerminal(log[q])
        /\ \A n \in Names : completed[n] # None =>
             \E q \in 1..Len(log) : CompletedAt(q, n) /\ log[q].output = completed[n]
    BY <1>1 DEF IndInv, RunOK
  <2> QED BY <1>1, <1>2, <2>1, <2>2, <2>3, <2>4 DEF RunOK, CompletedAt, IsTerminal
<1>5. ReplayOK'
  BY <1>1 DEF ReplayOK
<1> QED BY <1>3, <1>4, <1>5 DEF Agreement

\* A workflow is started on an empty log.
LEMMA StartStepSafe ==
    ASSUME IndInv, NEW in \in Json, NEW timed \in BOOLEAN, Start(in, timed)
    PROVE  Agreement'
<1> DEFINE e == WorkflowStarted(in)
<1>1. e \in Event /\ e.type = "WorkflowStarted" /\ e.input = in
  BY EventsMade DEF WorkflowStarted
<1> HIDE DEF e
<1>2. /\ log = <<>> /\ log' = Append(log, e) /\ idx' = 1 /\ input' = in
      /\ completed' = NoOutputs /\ pc' = "loop"
  BY DEF Start, store_event, e
<1>3. Len(log') = 1 /\ log'[1] = e /\ log' \in Seq(Event)
  BY <1>1, <1>2, AppendEvent
<1>4. \A p \in 1..Len(log') : log'[p].type = "WorkflowStarted"
  BY <1>1, <1>3
<1>5. ASSUME NEW n PROVE ~Recorded(n)'
  BY <1>4 DEF Recorded, CompletedAt
<1>6. get_last_output(log') = in
  <2>1. output_positions(log') = {1}
    BY <1>1, <1>3 DEF output_positions
  <2>2. last_output_position(log') = 1
    BY <2>1 DEF last_output_position
  <2> QED BY <1>1, <1>3, <2>1, <2>2 DEF get_last_output
<1>7. CompletedAsDefined'
  BY <1>4 DEF CompletedAsDefined
<1>8. RunOK'
  <2>1. \A n \in Names : completed'[n] = None
    BY <1>2 DEF NoOutputs
  <2>2. \A p \in 1..Len(log') : ~IsTerminal(log'[p])
    BY <1>4 DEF IsTerminal
  <2>3. \A i \in 1..Len(Def) : ~(i < idx')
    BY <1>2
  <2>4. ~(idx' > 1)
    BY <1>2
  <2> QED BY <1>2, <1>5, <1>6, <2>1, <2>2, <2>3, <2>4 DEF RunOK, IsTerminal
<1>9. ReplayOK'
  BY <1>2 DEF ReplayOK
<1> QED BY <1>7, <1>8, <1>9 DEF Agreement

\* What one event adds to the state rebuilt so far.
LEMMA ApplyEventFields ==
    ASSUME NEW s \in ExecutionState, NEW e \in Event
    PROVE  /\ \A n \in Names :
                apply_event(s, e).completed_steps[n] =
                    IF e.type = "StepCompleted" /\ e.step = n
                    THEN e.output ELSE s.completed_steps[n]
           /\ apply_event(s, e).status =
                CASE e.type = "WorkflowCompleted" -> "Completed"
                  [] e.type = "WorkflowFailed" -> "Failed"
                  [] OTHER -> s.status
<1>1. s # None
  BY StateAssumption
<1> QED BY <1>1, EventFields DEF apply_event, record_start, record_completion, ExecutionState

\* One event is replayed.
LEMMA ReplayEventStep ==
    ASSUME IndInv, ReplayEvent
    PROVE  Agreement'
<1>1. /\ log' = log /\ pc = "replay" /\ pc' = "replay" /\ pos' = pos + 1
      /\ replayed' = apply_event(replayed, log[pos + 1])
      /\ pos \in Nat /\ pos + 1 \in 1..Len(log) /\ log[pos + 1] \in Event
      /\ log \in Seq(Event)
  BY DEF ReplayEvent, IndInv, TypeInv, TypeOK
<1>2. CompletedAsDefined'
  BY <1>1, SameLogKeepsOrder DEF IndInv
<1>3. RunOK'
  BY <1>1 DEF RunOK, RunStates, NodeStates, CallStates
<1>4. ReplayOK'
  <2>1. CASE pos = 0
    <3>1. log[1].type = "WorkflowStarted" /\ replayed = None /\ pos' = 1
      BY <1>1, <2>1 DEF IndInv, TypeInv, LogOK, ReplayOK
    <3>2. replayed' = [NewExecutionState EXCEPT !.status = "Running"]
      BY <1>1, <2>1, <3>1 DEF apply_event
    <3>3. /\ \A n \in Names : replayed'.completed_steps[n] = None
          /\ replayed'.status = "Running"
      BY <3>2 DEF NewExecutionState
    <3>4. \A p \in 1..pos' : log'[p].type = "WorkflowStarted"
      BY <1>1, <3>1
    <3> QED BY <1>1, <3>1, <3>3, <3>4 DEF ReplayOK, CompletedAt, IsTerminal
  <2>2. CASE pos > 0
    <3> DEFINE e == log[pos + 1]
    <3>1. replayed \in ExecutionState
      BY <1>1, <2>2 DEF IndInv, TypeInv, ControlOK
    <3>2. /\ \A n \in Names :
               replayed'.completed_steps[n] =
                   IF e.type = "StepCompleted" /\ e.step = n
                   THEN e.output ELSE replayed.completed_steps[n]
          /\ replayed'.status =
               CASE e.type = "WorkflowCompleted" -> "Completed"
                 [] e.type = "WorkflowFailed" -> "Failed"
                 [] OTHER -> replayed.status
      BY <1>1, <3>1, ApplyEventFields
    <3>3. e.type = "StepCompleted" => e.output # None
      BY <1>1, EventFields, JsonAssumption
    <3>4. \A p : p \in 1..pos' <=> p \in 1..pos \/ p = pos + 1
      BY <1>1
    <3>5. /\ \A n \in Names :
               /\ (\E p \in 1..pos : CompletedAt(p, n)) =>
                    replayed.completed_steps[n] # None
               /\ replayed.completed_steps[n] # None =>
                    \E p \in 1..pos : /\ CompletedAt(p, n)
                                      /\ log[p].output = replayed.completed_steps[n]
          /\ replayed.status \in {"Completed", "Failed"} <=>
               \E p \in 1..pos : IsTerminal(log[p])
      BY <1>1, <2>2 DEF IndInv, ReplayOK
    <3>6. ASSUME NEW n \in Names
          PROVE  /\ (\E p \in 1..pos' : CompletedAt(p, n)') =>
                      replayed'.completed_steps[n] # None
                 /\ replayed'.completed_steps[n] # None =>
                      \E p \in 1..pos' : /\ CompletedAt(p, n)'
                                         /\ log'[p].output = replayed'.completed_steps[n]
      BY <1>1, <3>2, <3>3, <3>4, <3>5 DEF CompletedAt
    <3>7. replayed'.status \in {"Completed", "Failed"} <=>
            \E p \in 1..pos' : IsTerminal(log'[p])
      BY <1>1, <3>2, <3>4, <3>5 DEF IsTerminal
    <3>8. pos' # 0
      BY <1>1
    <3> QED BY <3>6, <3>7, <3>8 DEF ReplayOK, CompletedAt, IsTerminal
  <2> QED BY <1>1, <2>1, <2>2
<1> QED BY <1>2, <1>3, <1>4 DEF Agreement

\* The run is taken up again from the replayed state.
LEMMA ResumeContinuesStep ==
    ASSUME IndInv, ResumeContinues
    PROVE  Agreement'
<1>1. /\ log' = log /\ pc = "replay" /\ pc' = "loop" /\ pos = Len(log)
      /\ idx' = 1 /\ input' = get_last_output(log)
      /\ completed' = replayed.completed_steps
      /\ replayed.status \notin {"Completed", "Failed"}
  BY DEF ResumeContinues
<1>2. pos > 0
  BY <1>1, AppendEvent DEF IndInv, TypeInv, TypeOK, ControlOK
<1>3. /\ \A n \in Names :
           /\ Recorded(n) => replayed.completed_steps[n] # None
           /\ replayed.completed_steps[n] # None =>
                \E p \in 1..Len(log) : /\ CompletedAt(p, n)
                                       /\ log[p].output = replayed.completed_steps[n]
      /\ \A p \in 1..Len(log) : ~IsTerminal(log[p])
  BY <1>1, <1>2 DEF IndInv, ReplayOK, Recorded
<1>4. RunOK'
  <2>1. \A i \in 1..Len(Def) :
          Recorded(Def[i].name)' => completed'[Def[i].name] # None
    <3>1. \A i \in 1..Len(Def) :
            Recorded(Def[i].name) => completed'[Def[i].name] # None
      BY <1>1, <1>3, NodeTypes
    <3> QED BY <1>1, <3>1 DEF Recorded, CompletedAt
  <2>2. \A i \in 1..Len(Def) : ~(i < idx')
    BY <1>1
  <2>3. ~(idx' > 1) /\ input' = get_last_output(log')
    BY <1>1
  <2> QED BY <1>1, <1>3, <2>1, <2>2, <2>3 DEF RunOK, CompletedAt, IsTerminal
<1>5. CompletedAsDefined'
  BY <1>1, SameLogKeepsOrder DEF IndInv
<1>6. ReplayOK'
  BY <1>1 DEF ReplayOK
<1> QED BY <1>4, <1>5, <1>6 DEF Agreement

-----------------------------------------------------------------------------
(* The kinds of steps a run consists of. *)

\* Nothing is written and the run stays at its node.
QuietRun == log' = log /\ UNCHANGED exec /\ pc' \in RunStates

\* An event about an attempt is written.
WritesStepEvent ==
    /\ UNCHANGED exec /\ pc' \in RunStates
    /\ \E e \in Event : /\ e.type \in {"StepStarted", "StepFailed", "StepRetrying"}
                       /\ store_event(e)

\* The node at the index, not completed so far, completes.
CompletesNode ==
    /\ idx \in 1..Len(Def) /\ completed[Node.name] = None
    /\ \E out \in Json : CompleteNode(out)

\* The run ends with a failure.
FailsRun ==
    /\ pc' \in {"idle", "elapsed"}
    /\ \E x \in WorkflowErrors : store_event(WorkflowFailed(x))

\* The engine and the handlers take no other steps, and only during a run.
LEMMA RunSteps ==
    ASSUME TypeInv, Execute \/ Handler
    PROVE  /\ pc \in RunStates
           /\ \/ QuietRun \/ WritesStepEvent \/ CompletesNode \/ FailsRun
              \/ SkipCompleted \/ Finish
<1> DEFINE Goal == QuietRun \/ WritesStepEvent \/ CompletesNode \/ FailsRun
<1> USE DEF RunStates, NodeStates, CallStates
<1>1. /\ pc \in RunStates => idx \in 1..(Len(Def) + 1)
      /\ pc \in NodeStates => idx \in 1..Len(Def) /\ completed[Node.name] = None
      /\ pc \in CallStates => call \in CallFrame
      /\ pc = "unwind" => err \in WorkflowErrors
      /\ input \in Json /\ merged \in [Names -> Json \cup {None}]
      /\ completed \in [Names -> Json \cup {None}]
      /\ pc = "target" => target \in Names
      /\ Len(Def) \in Nat
  BY NodeTypes DEF TypeInv, TypeOK, ControlOK
<1>2. ASSUME NEW node, NEW site, CallExecuteStep(node, site) PROVE Goal
  BY <1>2 DEF CallExecuteStep, QuietRun
<1>3. ASSUME NEW x \in WorkflowErrors, FailWorkflow(x) PROVE Goal
  BY <1>3 DEF FailWorkflow, ReturnFromExecute, FailsRun
<1>4. ASSUME RunSequential PROVE pc \in RunStates /\ Goal
  BY <1>2, <1>4 DEF RunSequential, AtFresh, AtNode
<1>5. ASSUME EnterGroup PROVE pc \in RunStates /\ Goal
  BY <1>5 DEF EnterGroup, AtFresh, AtNode, QuietRun
<1>6. ASSUME RunConditional PROVE pc \in RunStates /\ Goal
  BY <1>2, <1>6 DEF RunConditional, AtFresh, AtNode, QuietRun
<1>7. ASSUME NEW out \in Json, RunSubWorkflow(out) PROVE pc \in RunStates /\ Goal
  BY <1>1, <1>7 DEF RunSubWorkflow, AtFresh, AtNode, CompletesNode
<1>8. ASSUME MissingSubWorkflow PROVE pc \in RunStates /\ Goal
  BY <1>3, <1>8 DEF MissingSubWorkflow, AtFresh, AtNode, WorkflowErrors
<1>9. ASSUME SignalReceived PROVE pc \in RunStates /\ Goal
  BY <1>1, <1>9 DEF SignalReceived, AtFresh, AtNode, CompletesNode
<1>10. ASSUME SignalMissing PROVE pc \in RunStates /\ Goal
  BY <1>3, <1>10 DEF SignalMissing, AtFresh, AtNode, WorkflowErrors
<1>11. ASSUME SkipChild PROVE pc \in RunStates /\ Goal
  BY <1>11 DEF SkipChild, AtChild, QuietRun
<1>12. ASSUME RunChild PROVE pc \in RunStates /\ Goal
  BY <1>2, <1>3, <1>12 DEF RunChild, AtChild, WorkflowErrors
<1>13. ASSUME GroupDone PROVE pc \in RunStates /\ Goal
  BY <1>1, <1>13, MergeAssumption DEF GroupDone, CompletesNode
<1>14. ASSUME RunTarget PROVE pc \in RunStates /\ Goal
  BY <1>1, <1>2, <1>14 DEF RunTarget, CompletesNode
<1>15. ASSUME StartStep PROVE pc \in RunStates /\ Goal
  BY <1>1, <1>15, EventsMade DEF StartStep, WritesStepEvent, StepStarted, CallFrame, StepNode
<1>16. ASSUME Retry PROVE pc \in RunStates /\ Goal
  BY <1>1, <1>16, EventsMade DEF Retry, WritesStepEvent, StepRetrying, CallFrame, StepNode
<1>17. ASSUME GiveUp PROVE pc \in RunStates /\ Goal
  BY <1>1, <1>17, EventsMade
     DEF GiveUp, WritesStepEvent, StepFailed, StepErrors, CallFrame, StepNode
<1>18. ASSUME Unwind PROVE pc \in RunStates /\ Goal
  BY <1>1, <1>3, <1>18 DEF Unwind, QuietRun
<1>19. ASSUME NEW out \in Json, HandlerReturns(out) PROVE pc \in RunStates /\ Goal
  BY <1>1, <1>19 DEF HandlerReturns, CompletesNode, QuietRun
<1>20. ASSUME HandlerFails PROVE pc \in RunStates /\ Goal
  BY <1>20 DEF HandlerFails, QuietRun
<1>21. ASSUME HandlerLate PROVE pc \in RunStates /\ Goal
  BY <1>1, <1>21, EventsMade
     DEF HandlerLate, WritesStepEvent, StepFailed, StepErrors, CallFrame, StepNode
<1>22. SkipCompleted \/ Finish => pc \in RunStates
  BY DEF SkipCompleted, AtNode, Finish
<1> QED
  BY <1>4, <1>5, <1>6, <1>7, <1>8, <1>9, <1>10, <1>11, <1>12, <1>13, <1>14,
     <1>15, <1>16, <1>17, <1>18, <1>19, <1>20, <1>21, <1>22 DEF Execute, Handler

-----------------------------------------------------------------------------
(* The inductive invariant. *)

\* Every step of the engine keeps the agreement of memory, replay and log.
LEMMA AgreementStep ==
    ASSUME UniqueNames, IndInv, Next
    PROVE  Agreement'
<1>1. ASSUME Execute \/ Handler PROVE Agreement'
  <2>1. /\ pc \in RunStates
        /\ \/ QuietRun \/ WritesStepEvent \/ CompletesNode \/ FailsRun
           \/ SkipCompleted \/ Finish
    BY <1>1, RunSteps DEF IndInv
  <2>2. CASE QuietRun
    BY <2>1, <2>2, QuietStep DEF QuietRun, RunStates, NodeStates, CallStates
  <2>3. CASE WritesStepEvent
    BY <2>1, <2>3, StepEventStep DEF WritesStepEvent, RunStates, NodeStates, CallStates
  <2>4. CASE CompletesNode
    BY <2>1, <2>4, CompleteNodeStep DEF CompletesNode
  <2>5. CASE FailsRun
    BY <2>5, OutsideRunStep, EventsMade
       DEF FailsRun, WorkflowFailed, RunStates, NodeStates, CallStates
  <2>6. CASE SkipCompleted
    BY <2>6, SkipStep
  <2>7. CASE Finish
    BY <2>7, OutsideRunStep, EventsMade
       DEF Finish, ReturnFromExecute, WorkflowCompleted, RunStates, NodeStates,
           CallStates, IndInv, TypeInv, TypeOK
  <2> QED BY <2>1, <2>2, <2>3, <2>4, <2>5, <2>6, <2>7
<1>2. ASSUME Recover PROVE Agreement'
  <2>1. CASE ResumeReports
    BY <2>1, OutsideRunStep DEF ResumeReports, RunStates, NodeStates, CallStates
  <2> QED BY <1>2, <2>1, ReplayEventStep, ResumeContinuesStep DEF Recover
<1>3. ASSUME Host PROVE Agreement'
  <2>1. ASSUME NEW w \in Wirings, NewEngine(w) PROVE Agreement'
    BY <2>1, OutsideRunStep DEF NewEngine, RunStates, NodeStates, CallStates
  <2>2. ASSUME NEW late \in BOOLEAN, CheckDeadline(late) PROVE Agreement'
    BY <2>2, OutsideRunStep, EventsMade
       DEF CheckDeadline, WorkflowFailed, WorkflowErrors, RunStates, NodeStates, CallStates
  <2>3. ASSUME NEW s, Signal(s) PROVE Agreement'
    BY <2>3, QuietStep DEF Signal, RunStates, NodeStates, CallStates
  <2>4. ASSUME Resume PROVE Agreement'
    <3>1. CASE log = <<>>
      BY <2>4, <3>1, OutsideRunStep DEF Resume, RunStates, NodeStates, CallStates
    <3>2. CASE log # <<>>
      <4>1. log' = log /\ pc' = "replay" /\ pos' = 0 /\ replayed' = None
        BY <2>4, <3>2 DEF Resume, replay, IndInv, TypeInv, ControlOK
      <4>2. CompletedAsDefined'
        BY <4>1, SameLogKeepsOrder DEF IndInv
      <4> QED
        BY <4>1, <4>2 DEF Agreement, RunOK, ReplayOK, RunStates, NodeStates, CallStates
    <3> QED BY <3>1, <3>2
  <2> QED BY <1>3, <2>1, <2>2, <2>3, <2>4, StartStepSafe DEF Host
<1>4. ASSUME Crash PROVE Agreement'
  BY <1>4, OutsideRunStep DEF Crash, RunStates, NodeStates, CallStates
<1> QED BY <1>1, <1>2, <1>3, <1>4 DEF Next

\* The invariant holds at first.
LEMMA IndInit == Init => IndInv
<1> SUFFICES ASSUME Init PROVE IndInv
  OBVIOUS
<1> QED
  BY TypeInit DEF Init, IndInv, RunOK, ReplayOK, CompletedAsDefined, RunStates,
     NodeStates, CallStates

\* The invariant is kept by every step.
LEMMA IndStep ==
    ASSUME UniqueNames
    PROVE  IndInv /\ [Next]_vars => IndInv'
<1> SUFFICES ASSUME IndInv, [Next]_vars PROVE IndInv'
  OBVIOUS
<1>1. TypeInv'
  BY TypeStep DEF IndInv
<1>2. CASE UNCHANGED vars
  <2>1. CompletedAsDefined'
    BY <1>2, SameLogKeepsOrder DEF vars, IndInv
  <2>2. RunOK'
    BY <1>2 DEF vars, exec, IndInv, RunOK, Recorded, CompletedAt, IsTerminal
  <2>3. ReplayOK'
    BY <1>2 DEF vars, replay, IndInv, ReplayOK, CompletedAt, IsTerminal
  <2> QED BY <1>1, <2>1, <2>2, <2>3 DEF IndInv
<1>3. CASE Next
  BY <1>1, <1>3, AgreementStep DEF IndInv, Agreement
<1> QED BY <1>2, <1>3

\* The inductive invariant holds in every state.
LEMMA Invariant ==
    ASSUME UniqueNames
    PROVE  Spec => []IndInv
BY IndInit, IndStep, PTL DEF Spec

\* For every definition with unique step names, whatever the handlers do and
\* wherever the crashes fall, the recorded completions follow the definition:
\* resume_workflow and the skipping loop of execute_workflow never skip,
\* repeat or reorder a step.
THEOREM CompletionsFollowDefinition ==
    ASSUME UniqueNames
    PROVE  Spec => []CompletedAsDefined
<1>1. IndInv => CompletedAsDefined
  BY DEF IndInv
<1> QED BY <1>1, Invariant, PTL

\* User code is always called with the last recorded output, in the first
\* run and after any recovery.
THEOREM HandlerInput ==
    ASSUME UniqueNames
    PROVE  Spec => []HandlerSeesLastOutput
<1>1. IndInv => HandlerSeesLastOutput
  BY FrontierInput
     DEF IndInv, HandlerSeesLastOutput, TypeInv, ControlOK, RunStates, NodeStates, CallStates
<1> QED BY <1>1, Invariant, PTL

-----------------------------------------------------------------------------
(* How the log may grow. *)

\* The log grows only at a start, during a run, and by the overrun record.
LEMMA LogGrowth ==
    ASSUME TypeInv, Next
    PROVE  \/ log' = log
           \/ log = <<>> /\ \E in \in Json : store_event(WorkflowStarted(in))
           \/ /\ pc \in RunStates
              /\ WritesStepEvent \/ CompletesNode \/ FailsRun \/ Finish
           \/ pc = "elapsed" /\ store_event(WorkflowFailed("overrun"))
<1>1. CASE Execute \/ Handler
  BY <1>1, RunSteps DEF QuietRun, SkipCompleted
<1>2. CASE Recover
  BY <1>2 DEF Recover, ReplayEvent, ResumeReports, ResumeContinues
<1>3. CASE Host
  BY <1>3 DEF Host, NewEngine, Start, CheckDeadline, Signal, Resume
<1>4. CASE Crash
  BY <1>4 DEF Crash
<1> QED BY <1>1, <1>2, <1>3, <1>4 DEF Next

\* Once a workflow is over, nothing is written any more, whatever the host
\* resumes or signals, but the overrun record of start_with_timeout.
THEOREM TerminalStaysFinal ==
    ASSUME UniqueNames
    PROVE  Spec => TerminalIsFinal
<1> DEFINE Over == \E p \in 1..Len(log) : IsTerminal(log[p])
           Kept == \/ log' = log
                   \/ pc = "elapsed" /\ log' = Append(log, WorkflowFailed("overrun"))
<1>1. ASSUME IndInv, [Next]_vars PROVE [Over => Kept]_vars
  <2> SUFFICES ASSUME Next, Over PROVE Kept
    BY <1>1
  <2>1. pc \notin RunStates
    BY <1>1 DEF IndInv, RunOK
  <2>2. log # <<>>
    BY <1>1, AppendEvent DEF IndInv, TypeInv, TypeOK
  <2> QED BY <1>1, <2>1, <2>2, LogGrowth DEF IndInv, store_event
<1>2. IndInv /\ [Next]_vars => [Over => Kept]_vars
  BY <1>1
<1>3. Spec => [][Over => Kept]_vars
  BY <1>2, Invariant, PTL DEF Spec
<1> QED BY <1>3 DEF TerminalIsFinal

-----------------------------------------------------------------------------
(* Success. *)

\* An event before the new one keeps its past.
LEMMA PastIsKept ==
    ASSUME log \in Seq(Event), NEW e \in Event, log' = Append(log, e),
           NEW p \in 1..(Len(log) + 1)
    PROVE  /\ SubSeq(log', 1, p - 1) = SubSeq(log, 1, p - 1)
           /\ \A i \in 1..Len(Def) :
                CompletedBefore(p, Def[i].name)' <=> CompletedBefore(p, Def[i].name)
<1>1. \A q \in 1..(p - 1) : log'[q] = log[q]
  BY AppendEvent
<1>2. SubSeq(log', 1, p - 1) = SubSeq(log, 1, p - 1)
  BY <1>1, AppendEvent
<1>3. ASSUME NEW n PROVE CompletedBefore(p, n)' <=> CompletedBefore(p, n)
  BY <1>1, AppendEvent DEF CompletedBefore, CompletedAt
<1> QED BY <1>2, <1>3

\* What is recorded in the whole log is completed before the next event.
LEMMA RecordedIsBefore ==
    ASSUME log \in Seq(Event), NEW n
    PROVE  CompletedBefore(Len(log) + 1, n) <=> Recorded(n)
BY AppendEvent DEF CompletedBefore, Recorded

\* At the end of the definition every step is recorded, and the input is the
\* last output.
LEMMA AllRecorded ==
    ASSUME UniqueNames, IndInv, Finish
    PROVE  /\ \A i \in 1..Len(Def) : Recorded(Def[i].name)
           /\ input = get_last_output(log)
           /\ pc \in RunStates
<1>1. pc \in RunStates /\ idx > Len(Def) /\ idx \in Nat
  BY DEF Finish, RunStates, IndInv, TypeInv, TypeOK
<1>2. \A i \in 1..Len(Def) : Recorded(Def[i].name)
  BY <1>1, NodeTypes DEF IndInv, RunOK
<1>3. input = get_last_output(log)
  BY <1>1, FrontierInput, NodeTypes DEF IndInv
<1> QED BY <1>1, <1>2, <1>3

\* A success stays justified, and a new one is.
LEMMA SuccessStep ==
    ASSUME UniqueNames, IndInv, SuccessMeansAllCompleted, [Next]_vars
    PROVE  SuccessMeansAllCompleted'
<1>1. log \in Seq(Event) /\ input \in Json
  BY DEF IndInv, TypeInv, TypeOK
<1>2. CASE log' = log
  BY <1>2 DEF SuccessMeansAllCompleted, CompletedBefore, CompletedAt
<1>3. ASSUME NEW e \in Event, log' = Append(log, e),
             e.type = "WorkflowCompleted" =>
                 /\ \A i \in 1..Len(Def) : Recorded(Def[i].name)
                 /\ e.output = get_last_output(log)
      PROVE  SuccessMeansAllCompleted'
  <2> SUFFICES ASSUME NEW p \in 1..Len(log'), log'[p].type = "WorkflowCompleted"
               PROVE  /\ \A i \in 1..Len(Def) : CompletedBefore(p, Def[i].name)'
                      /\ log'[p].output = get_last_output(SubSeq(log', 1, p - 1))
    BY DEF SuccessMeansAllCompleted
  <2>1. p \in 1..(Len(log) + 1) /\ Len(log) \in Nat
    BY <1>1, <1>3, AppendEvent
  <2>2. /\ SubSeq(log', 1, p - 1) = SubSeq(log, 1, p - 1)
        /\ \A i \in 1..Len(Def) :
             CompletedBefore(p, Def[i].name)' <=> CompletedBefore(p, Def[i].name)
    BY <1>1, <1>3, <2>1, PastIsKept
  <2>3. CASE p \in 1..Len(log)
    <3>1. log'[p] = log[p]
      BY <1>1, <1>3, <2>3, AppendEvent
    <3> QED BY <2>2, <2>3, <3>1 DEF SuccessMeansAllCompleted
  <2>4. CASE p = Len(log) + 1
    <3>1. log'[p] = e
      BY <1>1, <1>3, <2>4, AppendEvent
    <3>2. SubSeq(log, 1, p - 1) = log
      BY <1>1, <2>1, <2>4
    <3>3. \A i \in 1..Len(Def) : CompletedBefore(p, Def[i].name)
      BY <1>1, <1>3, <2>4, <3>1, RecordedIsBefore
    <3> QED BY <1>3, <2>2, <3>1, <3>2, <3>3
  <2> QED BY <2>1, <2>3, <2>4
<1>4. CASE Next
  <2>1. CASE \E e \in Event : e.type # "WorkflowCompleted" /\ store_event(e)
    BY <1>3, <2>1 DEF store_event
  <2>2. CASE Finish
    BY <1>1, <1>3, <2>2, AllRecorded, EventsMade DEF Finish, store_event, WorkflowCompleted
  <2>3. CASE CompletesNode
    BY <1>1, <2>1, <2>3, NodeTypes, EventsMade
       DEF CompletesNode, CompleteNode, StepCompleted, Node
  <2> QED
    BY <1>2, <1>4, <2>1, <2>2, <2>3, LogGrowth, EventsMade
       DEF IndInv, WritesStepEvent, FailsRun, WorkflowFailed, WorkflowStarted,
           WorkflowErrors
<1>5. CASE UNCHANGED vars
  BY <1>2, <1>5 DEF vars
<1> QED BY <1>4, <1>5

\* A workflow is recorded as successful only after every one of its steps,
\* and its result is the last recorded output.
THEOREM SuccessIsComplete ==
    ASSUME UniqueNames
    PROVE  Spec => []SuccessMeansAllCompleted
<1>1. Init => SuccessMeansAllCompleted
  BY DEF Init, SuccessMeansAllCompleted
<1>2. IndInv /\ SuccessMeansAllCompleted /\ [Next]_vars => SuccessMeansAllCompleted'
  BY SuccessStep
<1> QED BY <1>1, <1>2, Invariant, PTL DEF Spec

-----------------------------------------------------------------------------
(* Replay. *)

\* The parts of ReplayIsFaithful, for the first k events and the state st.
OutputsReplayed(k, st) ==
    \A n \in Names :
      /\ st.completed_steps[n] = None <=> ~CompletedBefore(k + 1, n)
      /\ \A p \in 1..k :
           CompletedAt(p, n) /\ (\A q \in (p + 1)..k : ~CompletedAt(q, n))
               => st.completed_steps[n] = log[p].output

FailuresReplayed(k, st) ==
    \A n \in Names :
      n \in st.failed_steps <=>
        \E p \in 1..k : /\ log[p].type = "StepFailed" /\ log[p].step = n
                        /\ \A q \in (p + 1)..k : ~CompletedAt(q, n)

StatusReplayed(k, st) ==
    /\ st.status = "Running" <=> \A p \in 1..k : ~IsTerminal(log[p])
    /\ \A p \in 1..k :
         IsTerminal(log[p]) /\ (\A q \in (p + 1)..k : ~IsTerminal(log[q]))
             => st.status = (IF log[p].type = "WorkflowCompleted" THEN "Completed" ELSE "Failed")

AttemptsReplayed(k, st) ==
    \A n \in Names :
      /\ (\A p \in 1..k : ~AttemptAt(p, n)) => st.step_attempts[n] = 0
      /\ \A p \in 1..k :
           AttemptAt(p, n) /\ (\A q \in (p + 1)..k : ~AttemptAt(q, n))
               => st.step_attempts[n] = log[p].attempt

CurrentReplayed(k, st) ==
    /\ (\A p \in 1..k : log[p].type # "StepStarted") => st.current_step = None
    /\ \A p \in 1..k :
         log[p].type = "StepStarted" /\ (\A q \in (p + 1)..k : log[q].type # "StepStarted")
             => st.current_step = log[p].step

Rebuilt(k, st) ==
    /\ OutputsReplayed(k, st) /\ FailuresReplayed(k, st) /\ StatusReplayed(k, st)
    /\ AttemptsReplayed(k, st) /\ CurrentReplayed(k, st)

\* What one event does to the attempts and the current step replayed so far.
LEMMA ApplyEventAttempts ==
    ASSUME NEW s \in ExecutionState, NEW e \in Event
    PROVE  /\ \A n \in Names :
                apply_event(s, e).step_attempts[n] =
                    IF e.type \in {"StepStarted", "StepRetrying"} /\ e.step = n
                    THEN e.attempt ELSE s.step_attempts[n]
           /\ apply_event(s, e).current_step =
                IF e.type = "StepStarted" THEN e.step ELSE s.current_step
<1>1. s # None
  BY StateAssumption
<1> QED BY <1>1, EventFields
        DEF apply_event, record_start, record_completion, ExecutionState

\* What one event does to the failures replayed so far.
LEMMA ApplyEventFailures ==
    ASSUME NEW s \in ExecutionState, NEW e \in Event
    PROVE  \A n \in Names : n \in apply_event(s, e).failed_steps <=>
             \/ e.type = "StepFailed" /\ e.step = n
             \/ n \in s.failed_steps /\ ~(e.type = "StepCompleted" /\ e.step = n)
<1>1. s # None
  BY StateAssumption
<1> QED BY <1>1, EventFields DEF apply_event, record_start, record_completion, ExecutionState

\* Replay begins with no state.
NotBegun == pc = "replay" /\ pos = 0 => replayed = None

\* The first event is WorkflowStarted.
LEMMA FirstReplayed ==
    ASSUME TypeInv, NotBegun, pos = 0, ReplayEvent
    PROVE  Rebuilt(1, replayed')
<1>1. log[1].type = "WorkflowStarted" /\ replayed = None
  <2>1. pc = "replay" /\ 1 \in 1..Len(log) /\ Len(log) \in Nat
    BY AppendEvent DEF ReplayEvent, TypeInv, TypeOK
  <2> QED BY <2>1 DEF NotBegun, TypeInv, LogOK
<1>2. replayed' = [NewExecutionState EXCEPT !.status = "Running"]
  BY <1>1 DEF ReplayEvent, apply_event
<1>3. /\ \A n \in Names : replayed'.completed_steps[n] = None
      /\ replayed'.failed_steps = {} /\ replayed'.status = "Running"
      /\ \A n \in Names : replayed'.step_attempts[n] = 0
      /\ replayed'.current_step = None
  BY <1>2 DEF NewExecutionState
<1>4. \A p \in 1..1 : log[p].type = "WorkflowStarted"
  BY <1>1
<1>5. /\ OutputsReplayed(1, replayed') /\ FailuresReplayed(1, replayed')
      /\ StatusReplayed(1, replayed')
  BY <1>3, <1>4 DEF OutputsReplayed, FailuresReplayed, StatusReplayed, CompletedBefore,
                    CompletedAt, IsTerminal
<1>6. AttemptsReplayed(1, replayed') /\ CurrentReplayed(1, replayed')
  BY <1>3, <1>4 DEF AttemptsReplayed, CurrentReplayed, AttemptAt
<1> QED BY <1>5, <1>6 DEF Rebuilt

\* One more event is replayed.
LEMMA NextReplayed ==
    ASSUME TypeInv, NEW k \in Nat, k > 0, k < Len(log), NEW s \in ExecutionState,
           Rebuilt(k, s)
    PROVE  Rebuilt(k + 1, apply_event(s, log[k + 1]))
<1> DEFINE e  == log[k + 1]
           st == apply_event(s, e)
<1>1. e \in Event /\ k + 1 \in 1..Len(log)
  BY AppendEvent DEF TypeInv, TypeOK
<1>2. /\ \A n \in Names :
           st.completed_steps[n] = IF e.type = "StepCompleted" /\ e.step = n
                                   THEN e.output ELSE s.completed_steps[n]
      /\ st.status = CASE e.type = "WorkflowCompleted" -> "Completed"
                       [] e.type = "WorkflowFailed" -> "Failed"
                       [] OTHER -> s.status
  BY <1>1, ApplyEventFields
<1>3. \A n \in Names : n \in st.failed_steps <=>
        \/ e.type = "StepFailed" /\ e.step = n
        \/ n \in s.failed_steps /\ ~(e.type = "StepCompleted" /\ e.step = n)
  BY <1>1, ApplyEventFailures
<1>4. e.type = "StepCompleted" => e.output # None
  BY <1>1, EventFields, JsonAssumption
<1>9. /\ \A n \in Names :
           st.step_attempts[n] = IF e.type \in {"StepStarted", "StepRetrying"} /\ e.step = n
                                 THEN e.attempt ELSE s.step_attempts[n]
      /\ st.current_step = IF e.type = "StepStarted" THEN e.step ELSE s.current_step
  BY <1>1, ApplyEventAttempts
<1>0. /\ OutputsReplayed(k, s) /\ FailuresReplayed(k, s) /\ StatusReplayed(k, s)
      /\ AttemptsReplayed(k, s) /\ CurrentReplayed(k, s)
  BY DEF Rebuilt
<1> HIDE DEF st
<1>5. /\ \A p : p \in 1..(k + 1) <=> p \in 1..k \/ p = k + 1
      /\ \A p \in 1..k : \A q : q \in (p + 1)..(k + 1) <=> q \in (p + 1)..k \/ q = k + 1
      /\ \A q : q \notin (k + 2)..(k + 1)
      /\ (k + 1) + 1 = k + 2 /\ (k + 2) - 1 = k + 1 /\ (k + 1) - 1 = k
  OBVIOUS
<1>6. OutputsReplayed(k + 1, st)
  <2> SUFFICES ASSUME NEW n \in Names
               PROVE  /\ st.completed_steps[n] = None <=> ~CompletedBefore(k + 2, n)
                      /\ \A p \in 1..(k + 1) :
                           CompletedAt(p, n) /\ (\A q \in (p + 1)..(k + 1) : ~CompletedAt(q, n))
                             => st.completed_steps[n] = log[p].output
    BY <1>5 DEF OutputsReplayed
  <2>1. CompletedBefore(k + 2, n) <=> CompletedBefore(k + 1, n) \/ CompletedAt(k + 1, n)
    BY <1>5 DEF CompletedBefore
  <2>2. CompletedAt(k + 1, n) <=> e.type = "StepCompleted" /\ e.step = n
    BY DEF CompletedAt
  <2>3. /\ s.completed_steps[n] = None <=> ~CompletedBefore(k + 1, n)
        /\ \A p \in 1..k :
             CompletedAt(p, n) /\ (\A q \in (p + 1)..k : ~CompletedAt(q, n))
               => s.completed_steps[n] = log[p].output
    BY <1>0 DEF OutputsReplayed
  <2>4. CASE CompletedAt(k + 1, n)
    BY <1>2, <1>4, <1>5, <2>1, <2>2, <2>4
  <2>5. CASE ~CompletedAt(k + 1, n)
    <3>1. st.completed_steps[n] = s.completed_steps[n]
      BY <1>2, <2>2, <2>5
    <3> HIDE DEF e
    <3> QED BY <1>5, <2>1, <2>3, <2>5, <3>1
  <2> QED BY <2>4, <2>5
<1>7. FailuresReplayed(k + 1, st)
  <2> SUFFICES ASSUME NEW n \in Names
               PROVE  n \in st.failed_steps <=>
                        \E p \in 1..(k + 1) : /\ log[p].type = "StepFailed" /\ log[p].step = n
                                              /\ \A q \in (p + 1)..(k + 1) : ~CompletedAt(q, n)
    BY DEF FailuresReplayed
  <2>1. CompletedAt(k + 1, n) <=> e.type = "StepCompleted" /\ e.step = n
    BY DEF CompletedAt
  <2>2. n \in s.failed_steps <=>
          \E p \in 1..k : /\ log[p].type = "StepFailed" /\ log[p].step = n
                          /\ \A q \in (p + 1)..k : ~CompletedAt(q, n)
    BY <1>0 DEF FailuresReplayed
  <2>3. CASE e.type = "StepFailed" /\ e.step = n
    BY <1>3, <1>5, <2>3
  <2>4. CASE ~(e.type = "StepFailed" /\ e.step = n)
    BY <1>3, <1>5, <2>1, <2>2, <2>4
  <2> QED BY <2>3, <2>4
<1>8. StatusReplayed(k + 1, st)
  <2>1. /\ s.status = "Running" <=> \A p \in 1..k : ~IsTerminal(log[p])
        /\ \A p \in 1..k :
             IsTerminal(log[p]) /\ (\A q \in (p + 1)..k : ~IsTerminal(log[q]))
               => s.status = (IF log[p].type = "WorkflowCompleted" THEN "Completed" ELSE "Failed")
    BY <1>0 DEF StatusReplayed
  <2>2. CASE IsTerminal(e)
    <3>1. st.status = (IF e.type = "WorkflowCompleted" THEN "Completed" ELSE "Failed")
      BY <1>2, <2>2 DEF IsTerminal
    <3> QED BY <1>5, <2>2, <3>1 DEF StatusReplayed
  <2>3. CASE ~IsTerminal(e)
    <3>1. st.status = s.status
      BY <1>2, <2>3 DEF IsTerminal
    <3> QED BY <1>5, <2>1, <2>3, <3>1 DEF StatusReplayed
  <2> QED BY <2>2, <2>3
<1>10. AttemptsReplayed(k + 1, st)
  <2> SUFFICES ASSUME NEW n \in Names
               PROVE  /\ (\A p \in 1..(k + 1) : ~AttemptAt(p, n)) => st.step_attempts[n] = 0
                      /\ \A p \in 1..(k + 1) :
                           AttemptAt(p, n) /\ (\A q \in (p + 1)..(k + 1) : ~AttemptAt(q, n))
                             => st.step_attempts[n] = log[p].attempt
    BY DEF AttemptsReplayed
  <2>1. AttemptAt(k + 1, n) <=> e.type \in {"StepStarted", "StepRetrying"} /\ e.step = n
    BY DEF AttemptAt
  <2>2. /\ (\A p \in 1..k : ~AttemptAt(p, n)) => s.step_attempts[n] = 0
        /\ \A p \in 1..k :
             AttemptAt(p, n) /\ (\A q \in (p + 1)..k : ~AttemptAt(q, n))
               => s.step_attempts[n] = log[p].attempt
    BY <1>0 DEF AttemptsReplayed
  <2>3. CASE AttemptAt(k + 1, n)
    BY <1>5, <1>9, <2>1, <2>3
  <2>4. CASE ~AttemptAt(k + 1, n)
    <3>1. st.step_attempts[n] = s.step_attempts[n]
      BY <1>9, <2>1, <2>4
    <3> HIDE DEF e
    <3> QED BY <1>5, <2>2, <2>4, <3>1
  <2> QED BY <2>3, <2>4
<1>11. CurrentReplayed(k + 1, st)
  <2>1. /\ (\A p \in 1..k : log[p].type # "StepStarted") => s.current_step = None
        /\ \A p \in 1..k :
             log[p].type = "StepStarted" /\ (\A q \in (p + 1)..k : log[q].type # "StepStarted")
               => s.current_step = log[p].step
    BY <1>0 DEF CurrentReplayed
  <2>2. CASE e.type = "StepStarted"
    BY <1>5, <1>9, <2>2 DEF CurrentReplayed
  <2>3. CASE e.type # "StepStarted"
    BY <1>5, <1>9, <2>1, <2>3 DEF CurrentReplayed
  <2> QED BY <2>2, <2>3
<1> QED BY <1>6, <1>7, <1>8, <1>10, <1>11 DEF st, Rebuilt

\* ReplayIsFaithful is the conjunction of these parts.
LEMMA FaithfulParts ==
    ReplayIsFaithful <=>
      (pc = "replay" /\ pos > 0 => Rebuilt(pos, replayed))
BY DEF ReplayIsFaithful, Rebuilt, OutputsReplayed, FailuresReplayed, StatusReplayed,
       AttemptsReplayed, CurrentReplayed

\* Replaying an event keeps the rebuilt state faithful; nothing else touches it.
LEMMA ReplayStep ==
    ASSUME TypeInv, ReplayIsFaithful, NotBegun, [Next]_vars
    PROVE  ReplayIsFaithful' /\ NotBegun'
<1>1. CASE UNCHANGED vars
  BY <1>1 DEF vars, NotBegun, replay, ReplayIsFaithful, CompletedBefore, CompletedAt, IsTerminal,
              AttemptAt
<1>2. CASE ReplayEvent
  <2>1. /\ pc = "replay" /\ pos \in Nat /\ pos < Len(log) /\ log' = log /\ pos' = pos + 1
        /\ pos > 0 => replayed \in ExecutionState
        /\ replayed' = apply_event(replayed, log[pos + 1])
    BY <1>2 DEF ReplayEvent, TypeInv, TypeOK, ControlOK
  <2>2. PICK k, st : k \in Nat /\ k = pos + 1 /\ st = replayed' /\ k = pos'
    BY <2>1
  <2>3. Rebuilt(k, st)
    <3>1. CASE pos = 0
      BY <1>2, <2>2, <3>1, FirstReplayed
    <3>2. CASE pos > 0
      <4>1. PICK j \in Nat, s \in ExecutionState : j = pos /\ s = replayed
        BY <2>1, <3>2
      <4>2. Rebuilt(j, s)
        BY <2>1, <3>2, <4>1, FaithfulParts
      <4> QED BY <2>1, <2>2, <3>2, <4>1, <4>2, NextReplayed
    <3> QED BY <2>1, <3>1, <3>2
  <2>4. Rebuilt(k, st)'
    <3>1. (OutputsReplayed(k, st) /\ FailuresReplayed(k, st) /\ StatusReplayed(k, st))'
      BY <2>1, <2>3 DEF Rebuilt, OutputsReplayed, FailuresReplayed, StatusReplayed,
                        CompletedBefore, CompletedAt, IsTerminal
    <3>2. (AttemptsReplayed(k, st) /\ CurrentReplayed(k, st))'
      BY <2>1, <2>3 DEF Rebuilt, AttemptsReplayed, CurrentReplayed, AttemptAt
    <3> QED BY <3>1, <3>2 DEF Rebuilt
  <2>5. pos' # 0
    BY <2>1
  <2> QED BY <2>2, <2>4, <2>5
          DEF NotBegun, ReplayIsFaithful, Rebuilt, OutputsReplayed, FailuresReplayed,
              StatusReplayed, AttemptsReplayed, CurrentReplayed
<1>3. CASE pc' # "replay" \/ (pos' = 0 /\ replayed' = None)
  BY <1>3 DEF ReplayIsFaithful, NotBegun
<1>4. CASE Next /\ ~ReplayEvent
  <2>1. CASE Execute \/ Handler
    BY <1>3, <2>1, RunSteps
       DEF QuietRun, WritesStepEvent, CompletesNode, CompleteNode, FailsRun, SkipCompleted,
           AtNode, Finish, ReturnFromExecute, RunStates, NodeStates, CallStates
  <2>2. CASE Recover \/ Host \/ Crash
    BY <1>3, <1>4, <2>2
       DEF Recover, ResumeReports, ResumeContinues, Host, NewEngine, Start, CheckDeadline,
           Signal, Resume, Crash, replay, TypeInv, ControlOK
  <2> QED BY <1>4, <2>1, <2>2 DEF Next
<1> QED BY <1>1, <1>2, <1>4

\* For every log, replay rebuilds what its events say, one event at a time: outputs,
\* failures, attempts, the step started last and the status.
THEOREM ReplayRebuildsTheRun == Spec => []ReplayIsFaithful
<1>1. Init => ReplayIsFaithful /\ NotBegun
  BY DEF Init, ReplayIsFaithful, NotBegun
<1>2. TypeInv /\ ReplayIsFaithful /\ NotBegun /\ [Next]_vars => ReplayIsFaithful' /\ NotBegun'
  BY ReplayStep
<1> QED BY <1>1, <1>2, TypeInit, TypeStep, PTL DEF Spec

-----------------------------------------------------------------------------
(* Attempts. *)

\* The call survives a step that leaves the node and the frame alone.
LEMMA SameCall ==
    ASSUME TypeInv, CallOK, pc \in CallStates, pc' \in CallStates, idx' = idx, ci' = ci,
           call'.node = call.node, call'.site = call.site, call'.attempt >= 1
    PROVE  CallOK'
<1>1. pc' \notin {"group", "target"}
  BY DEF CallStates
<1> QED BY <1>1 DEF CallOK, Node, Child

\* Every step keeps the relation of a call to its call site.
LEMMA CallStep ==
    ASSUME TypeInv, CallOK, [Next]_vars
    PROVE  CallOK'
<1> USE DEF RunStates, NodeStates, CallStates
<1>1. ASSUME pc' \notin NodeStates PROVE CallOK'
  BY <1>1 DEF CallOK
<1>2. CASE UNCHANGED vars
  BY <1>2 DEF vars, exec, local, CallOK, Node, Child
<1>3. CASE Execute
  <2>1. CASE \/ SkipCompleted \/ MissingSubWorkflow \/ SignalReceived \/ SignalMissing
             \/ Finish \/ GroupDone \/ \E out \in Json : RunSubWorkflow(out)
    BY <1>1, <2>1 DEF SkipCompleted, AtNode, MissingSubWorkflow, SignalReceived, SignalMissing,
                      Finish, GroupDone, RunSubWorkflow, CompleteNode, FailWorkflow,
                      ReturnFromExecute
  <2>2. CASE RunSequential
    BY <2>2 DEF RunSequential, CallExecuteStep, CallOK, Node, exec
  <2>3. CASE EnterGroup
    BY <2>3 DEF EnterGroup, AtFresh, CallOK, Node, exec
  <2>4. CASE RunConditional
    <3>1. CASE completed[Node.condition] # None
      BY <2>4, <3>1 DEF RunConditional, AtFresh, CallOK, Node, exec
    <3>2. CASE completed[Node.condition] = None
      BY <2>4, <3>2 DEF RunConditional, AtFresh, CallExecuteStep, CallOK, Node, exec
    <3> QED BY <3>1, <3>2
  <2>5. CASE SkipChild
    BY <2>5 DEF SkipChild, AtChild, CallOK, Node, exec
  <2>6. CASE RunChild
    <3>1. CASE find_step_node(Def, Child) = {}
      BY <1>1, <2>6, <3>1 DEF RunChild, FailWorkflow, ReturnFromExecute
    <3>2. CASE find_step_node(Def, Child) # {}
      BY <2>6, <3>2 DEF RunChild, AtChild, CallExecuteStep, CallOK, Node, Child, exec
    <3> QED BY <3>1, <3>2
  <2>7. CASE RunTarget
    <3>1. CASE completed[target] # None
      BY <1>1, <2>7, <3>1 DEF RunTarget, CompleteNode
    <3>2. CASE completed[target] = None
      BY <2>7, <3>2 DEF RunTarget, CallExecuteStep, CallOK, Node, exec
    <3> QED BY <3>1, <3>2
  <2>8. CASE StartStep \/ GiveUp
    BY <2>8, SameCall DEF StartStep, GiveUp, CallOK, exec
  <2>9. CASE Retry
    <3>1. call \in CallFrame /\ call.attempt \in Nat
      BY <2>9 DEF Retry, TypeInv, ControlOK, CallFrame
    <3>2. call'.node = call.node /\ call'.site = call.site /\ call'.attempt >= 1
      BY <2>9, <3>1 DEF Retry, CallFrame
    <3> QED BY <2>9, <3>2, SameCall DEF Retry, exec
  <2>10. CASE Unwind
    <3>1. CASE call.site # "condition"
      BY <1>1, <2>10, <3>1 DEF Unwind, FailWorkflow, ReturnFromExecute
    <3>2. CASE call.site = "condition"
      BY <2>10, <3>2 DEF Unwind, CallOK, Node, exec
    <3> QED BY <3>1, <3>2
  <2> QED BY <1>3, <2>1, <2>2, <2>3, <2>4, <2>5, <2>6, <2>7, <2>8, <2>9, <2>10 DEF Execute
<1>4. ASSUME NEW out \in Json, HandlerReturns(out) PROVE CallOK'
  <2>1. CASE call.site \in {"sequential", "target"}
    BY <1>1, <1>4, <2>1 DEF HandlerReturns, CompleteNode
  <2>2. CASE call.site = "child"
    BY <1>4, <2>2 DEF HandlerReturns, CallOK, Node, exec
  <2>3. CASE call.site = "condition"
    BY <1>4, <2>3 DEF HandlerReturns, CallOK, Node, exec
  <2> QED BY <1>4, <2>1, <2>2, <2>3 DEF HandlerReturns
<1>5. CASE HandlerFails \/ HandlerLate
  BY <1>5, SameCall DEF HandlerFails, HandlerLate, CallOK, exec, local
<1>6. CASE Recover \/ Crash
  BY <1>1, <1>6 DEF Recover, ReplayEvent, ResumeReports, ResumeContinues, Crash
<1>7. CASE Host
  <2>1. ASSUME NEW s, Signal(s), pc = "handler" PROVE CallOK'
    BY <2>1, SameCall DEF Signal, CallOK, exec, local
  <2> QED BY <1>1, <1>7, <2>1 DEF Host, NewEngine, Start, CheckDeadline, Signal, Resume
<1> QED BY <1>2, <1>3, <1>4, <1>5, <1>6, <1>7 DEF Next, Handler

\* An event of the step prolongs its attempts.
LEMMA AttemptsGrow ==
    ASSUME log \in Seq(Event), NEW n, NEW k \in Nat, NEW first \in 1..Len(log),
           AttemptsFrom(first, n, k), NEW e \in Event, log' = Append(log, e),
           e.type \in {"StepStarted", "StepFailed", "StepRetrying"}, e.step = n
    PROVE  /\ first \in 1..Len(log') /\ AttemptsFrom(first, n, k)'
           /\ e = StepStarted(n, k + 1) => AttemptsFrom(first, n, k + 1)'
<1>1. /\ Len(log') = Len(log) + 1 /\ Len(log) \in Nat /\ log'[Len(log) + 1] = e
      /\ \A q \in 1..Len(log) : log'[q] = log[q]
  BY AppendEvent
<1>2. \A q : q \in first..Len(log') <=> q \in first..Len(log) \/ q = Len(log) + 1
  BY <1>1
<1>3. \A q \in first..Len(log) : q \in 1..Len(log)
  BY <1>1
<1>4. AttemptsFrom(first, n, k)'
  BY <1>1, <1>2, <1>3 DEF AttemptsFrom
<1>5. ASSUME e = StepStarted(n, k + 1) PROVE AttemptsFrom(first, n, k + 1)'
  <2>1. \A j \in 1..(k + 1) : j \in 1..k \/ j = k + 1
    OBVIOUS
  <2> QED BY <1>1, <1>2, <1>4, <1>5, <2>1 DEF AttemptsFrom
<1> QED BY <1>1, <1>4, <1>5

\* The first attempt.
LEMMA AttemptsBegin ==
    ASSUME log \in Seq(Event), NEW n \in Names, log' = Append(log, StepStarted(n, 1))
    PROVE  \E first \in 1..Len(log') : AttemptsFrom(first, n, 1)'
<1> DEFINE e == StepStarted(n, 1)
<1>1. e \in Event /\ e.type = "StepStarted" /\ e.step = n
  BY EventsMade DEF StepStarted
<1> HIDE DEF e
<1>2. PICK first \in Nat : first = Len(log) + 1
  BY AppendEvent
<1>3. first = Len(log') /\ first \in 1..Len(log') /\ log'[first] = e
  BY <1>1, <1>2, AppendEvent DEF e
<1>4. \A q \in first..Len(log') : q = first
  BY <1>3
<1>5. AttemptsFrom(first, n, 1)'
  BY <1>1, <1>3, <1>4 DEF AttemptsFrom, e
<1> QED BY <1>3, <1>5

LEMMA AttemptsStep ==
    ASSUME TypeInv, CallOK, AttemptsOK, [Next]_vars
    PROVE  AttemptsOK'
<1> USE DEF RunStates, NodeStates, CallStates
<1>0. log \in Seq(Event)
  BY DEF TypeInv, TypeOK
<1>1. ASSUME pc' \notin {"step", "handler", "failed"} PROVE AttemptsOK'
  BY <1>1 DEF AttemptsOK
<1>2. ASSUME pc' = "step", call'.attempt = 1 PROVE AttemptsOK'
  BY <1>2 DEF AttemptsOK
<1>3. ASSUME log' = log, call' = call, pc' = pc \/ (pc = "handler" /\ pc' = "failed")
      PROVE  AttemptsOK'
  BY <1>3 DEF AttemptsOK, AttemptsFrom
<1>4. ASSUME pc \in {"step", "handler", "failed"}
      PROVE  /\ call \in CallFrame /\ call.node.name \in Names
             /\ call.attempt \in Nat /\ call.attempt >= 1
  BY <1>4 DEF TypeInv, ControlOK, CallOK, CallFrame, StepNode
<1>5. CASE StartStep
  <2>1. PICK n \in Names, k \in Nat : n = call.node.name /\ k = call.attempt /\ k >= 1
    BY <1>4, <1>5 DEF StartStep
  <2>2. log' = Append(log, StepStarted(n, k)) /\ call' = call
    BY <1>5, <2>1 DEF StartStep, store_event
  <2>3. \E first \in 1..Len(log') : AttemptsFrom(first, n, k)'
    <3>1. CASE k = 1
      BY <1>0, <2>2, <3>1, AttemptsBegin
    <3>2. CASE k > 1
      <4>1. PICK first \in 1..Len(log) : AttemptsFrom(first, n, k - 1)
        BY <1>5, <2>1, <3>2 DEF StartStep, AttemptsOK
      <4>2. /\ StepStarted(n, k) \in Event /\ StepStarted(n, k).type = "StepStarted"
            /\ StepStarted(n, k).step = n /\ k - 1 \in Nat /\ (k - 1) + 1 = k
        BY <2>1, <3>2, EventsMade DEF StepStarted
      <4> QED BY <1>0, <2>2, <4>1, <4>2, AttemptsGrow
    <3> QED BY <2>1, <3>1, <3>2
  <2> QED BY <1>1, <1>5, <2>1, <2>2, <2>3 DEF StartStep, AttemptsOK
<1>6. CASE HandlerLate \/ Retry
  <2>1. PICK n \in Names, k \in Nat : n = call.node.name /\ k = call.attempt
    BY <1>4, <1>6 DEF HandlerLate, Retry
  <2>2. PICK e \in Event : /\ log' = Append(log, e) /\ e.step = n
                           /\ e.type \in {"StepFailed", "StepRetrying"}
    <3>1. CASE HandlerLate
      <4>1. StepFailed(n, "late", 1) \in Event
        BY EventsMade DEF StepErrors
      <4>2. StepFailed(n, "late", 1).step = n /\ StepFailed(n, "late", 1).type = "StepFailed"
        BY DEF StepFailed
      <4>3. log' = Append(log, StepFailed(n, "late", 1))
        BY <2>1, <3>1 DEF HandlerLate, store_event
      <4> QED BY <4>1, <4>2, <4>3
    <3>2. CASE Retry
      BY <2>1, <3>2, EventsMade DEF Retry, store_event, StepRetrying
    <3> QED BY <1>6, <3>1, <3>2
  <2>3. PICK first \in 1..Len(log) : AttemptsFrom(first, n, k)
    BY <1>6, <2>1 DEF HandlerLate, Retry, AttemptsOK
  <2>4. first \in 1..Len(log') /\ AttemptsFrom(first, n, k)'
    BY <1>0, <2>2, <2>3, AttemptsGrow
  <2>5. CASE HandlerLate
    BY <2>1, <2>4, <2>5 DEF HandlerLate, local, AttemptsOK
  <2>6. CASE Retry
    <3>1. call \in CallFrame
      BY <1>4, <2>6 DEF Retry
    <3>2. pc' = "step" /\ call'.node = call.node /\ call'.attempt = k + 1 /\ (k + 1) - 1 = k
      BY <2>1, <2>6, <3>1 DEF Retry, CallFrame
    <3>3. call'.node.name = n /\ call'.attempt - 1 = k
      BY <2>1, <3>2
    <3> QED BY <2>4, <3>2, <3>3 DEF AttemptsOK
  <2> QED BY <1>6, <2>5, <2>6
<1>7. CASE UNCHANGED vars \/ HandlerFails \/ \E s : Signal(s)
  BY <1>3, <1>7 DEF vars, local, HandlerFails, Signal
<1>8. CASE Execute /\ ~StartStep /\ ~Retry
  BY <1>1, <1>2, <1>8
     DEF Execute, SkipCompleted, AtNode, AtFresh, RunSequential, CallExecuteStep, EnterGroup,
         RunConditional, RunSubWorkflow, CompleteNode, MissingSubWorkflow, FailWorkflow,
         ReturnFromExecute, SignalReceived, SignalMissing, Finish, SkipChild, AtChild, RunChild,
         GroupDone, RunTarget, GiveUp, Unwind
<1>9. CASE (\E out \in Json : HandlerReturns(out)) \/ Recover \/ Crash
  BY <1>1, <1>9 DEF HandlerReturns, CompleteNode, Recover, ReplayEvent, ResumeReports,
                    ResumeContinues, Crash
<1>10. CASE Host
  BY <1>1, <1>7, <1>10 DEF Host, NewEngine, Start, CheckDeadline, Resume
<1> QED BY <1>5, <1>6, <1>7, <1>8, <1>9, <1>10 DEF Next, Handler

\* What execute_step is called with is among the nodes it can be called with.
LEMMA CalledNode ==
    ASSUME TypeInv, CallOK, pc \in CallStates
    PROVE  call.node \in ExecutableNodes
<1>1. idx \in 1..Len(Def)
  BY DEF TypeInv, ControlOK, NodeStates
<1>2. CASE call.node = Node
  BY <1>1, <1>2 DEF ExecutableNodes, Node
<1>3. CASE call.node \in find_step_node(Def, Child)
  BY <1>3 DEF ExecutableNodes, find_step_node
<1>4. ASSUME Node.step_type = "Conditional",
             NEW n \in {Node.condition, Node.on_true, Node.on_false}, call.node = make_step_node(n)
      PROVE  call.node \in ExecutableNodes
  BY <1>1, <1>4 DEF ExecutableNodes, Node
<1> QED BY <1>2, <1>3, <1>4 DEF CallOK

\* Only these actions write about an attempt.
LEMMA OtherEvents ==
    ASSUME TypeInv, [Next]_vars
    PROVE  \/ log' = log \/ StartStep \/ Retry \/ GiveUp \/ HandlerLate
           \/ \E e \in Event :
                /\ e.type \in {"WorkflowStarted", "StepCompleted", "WorkflowCompleted",
                               "WorkflowFailed"}
                /\ store_event(e)
<1> DEFINE Other(e) == e.type \in {"WorkflowStarted", "StepCompleted", "WorkflowCompleted",
                                   "WorkflowFailed"}
<1>1. ASSUME NEW e, Other(e), store_event(e) PROVE e \in Event
  <2>1. log \in Seq(Event) /\ log' \in Seq(Event)
    BY TypeStep DEF TypeInv, TypeOK
  <2>2. log \in Seq(Event \cup {e})
    BY <2>1
  <2>3. Len(log') = Len(log) + 1 /\ log'[Len(log) + 1] = e /\ Len(log) \in Nat
    BY <1>1, <2>2 DEF store_event
  <2> QED BY <2>1, <2>3
<1>2. ASSUME NEW out, CompleteNode(out) PROVE \E e : Other(e) /\ store_event(e)
  BY <1>2 DEF CompleteNode, StepCompleted
<1>3. ASSUME NEW x, FailWorkflow(x) PROVE \E e : Other(e) /\ store_event(e)
  BY <1>3 DEF FailWorkflow, WorkflowFailed
<1>4. CASE Execute
  <2>1. ASSUME Finish PROVE \E e : Other(e) /\ store_event(e)
    BY <2>1 DEF Finish, WorkflowCompleted
  <2>2. ASSUME RunConditional \/ RunSequential \/ EnterGroup \/ SkipChild \/ SkipCompleted
        PROVE  log' = log
    BY <2>2 DEF RunConditional, RunSequential, EnterGroup, SkipChild, SkipCompleted,
                CallExecuteStep
  <2>3. ASSUME \/ MissingSubWorkflow \/ SignalReceived \/ SignalMissing \/ GroupDone
               \/ \E out \in Json : RunSubWorkflow(out)
        PROVE  \E e : Other(e) /\ store_event(e)
    BY <1>2, <1>3, <2>3
       DEF MissingSubWorkflow, SignalReceived, SignalMissing, GroupDone, RunSubWorkflow
  <2>4. ASSUME RunChild \/ RunTarget \/ Unwind
        PROVE  log' = log \/ \E e : Other(e) /\ store_event(e)
    <3>1. CASE RunChild
      BY <1>3, <3>1 DEF RunChild, CallExecuteStep
    <3>2. CASE RunTarget
      BY <1>2, <3>2 DEF RunTarget, CallExecuteStep
    <3>3. CASE Unwind
      BY <1>3, <3>3 DEF Unwind
    <3> QED BY <2>4, <3>1, <3>2, <3>3
  <2> QED BY <1>1, <1>4, <2>1, <2>2, <2>3, <2>4 DEF Execute
<1>5. CASE Handler
  BY <1>1, <1>2, <1>5 DEF Handler, HandlerReturns, HandlerFails
<1>6. CASE Recover \/ Crash \/ UNCHANGED vars
  BY <1>6 DEF Recover, ReplayEvent, ResumeReports, ResumeContinues, Crash, vars
<1>7. CASE Host
  <2>1. ASSUME NEW in, NEW timed, Start(in, timed) PROVE \E e : Other(e) /\ store_event(e)
    BY <2>1 DEF Start, WorkflowStarted
  <2>2. ASSUME NEW late \in BOOLEAN, CheckDeadline(late)
        PROVE  log' = log \/ \E e : Other(e) /\ store_event(e)
    <3>1. Other(WorkflowFailed("overrun"))
      BY DEF WorkflowFailed
    <3> HIDE DEF Other
    <3> QED BY <2>2, <3>1 DEF CheckDeadline
  <2>3. ASSUME NEW s, Signal(s) PROVE log' = log
    BY <2>3 DEF Signal
  <2>4. ASSUME NEW w, NewEngine(w) PROVE log' = log
    BY <2>4 DEF NewEngine
  <2>5. ASSUME Resume PROVE log' = log
    BY <2>5 DEF Resume
  <2> QED BY <1>1, <1>7, <2>1, <2>2, <2>3, <2>4, <2>5 DEF Host
<1> QED BY <1>4, <1>5, <1>6, <1>7 DEF Next

\* What is said of the events up to p stays true.
LEMMA GivenUpStep ==
    ASSUME TypeInv, CallOK, AttemptsOK, GivenUpAfterAllAttempts, [Next]_vars
    PROVE  GivenUpAfterAllAttempts'
<1>0. log \in Seq(Event)
  BY DEF TypeInv, TypeOK
<1>1. CASE log' = log
  BY <1>1 DEF GivenUpAfterAllAttempts
<1>2. ASSUME NEW e \in Event, log' = Append(log, e),
             e.type = "StepFailed" /\ e.error = "exhausted" =>
               \E first \in 1..(Len(log) + 1), node \in ExecutableNodes :
                 /\ node.name = e.step
                 /\ log'[first] = StepStarted(node.name, 1)
                 /\ \A q \in first..(Len(log) + 1) :
                      /\ log'[q].type \in {"StepStarted", "StepFailed", "StepRetrying"}
                      /\ log'[q].step = node.name
                 /\ \A k \in 1..node.config.max_retry :
                      \E q \in first..(Len(log) + 1) : log'[q] = StepStarted(node.name, k)
      PROVE  GivenUpAfterAllAttempts'
  <2> SUFFICES ASSUME NEW p \in 1..Len(log'),
                      log'[p].type = "StepFailed", log'[p].error = "exhausted"
               PROVE  \E first \in 1..p, node \in ExecutableNodes :
                        /\ node.name = log'[p].step
                        /\ log'[first] = StepStarted(node.name, 1)
                        /\ \A q \in first..p :
                             /\ log'[q].type \in {"StepStarted", "StepFailed", "StepRetrying"}
                             /\ log'[q].step = node.name
                        /\ \A k \in 1..node.config.max_retry :
                             \E q \in first..p : log'[q] = StepStarted(node.name, k)
    BY DEF GivenUpAfterAllAttempts
  <2>1. /\ Len(log') = Len(log) + 1 /\ Len(log) \in Nat /\ log'[Len(log) + 1] = e
        /\ \A q \in 1..Len(log) : log'[q] = log[q]
    BY <1>0, <1>2, AppendEvent
  <2>2. CASE p \in 1..Len(log)
    <3>1. PICK first \in 1..p, node \in ExecutableNodes :
            /\ node.name = log[p].step
            /\ log[first] = StepStarted(node.name, 1)
            /\ \A q \in first..p :
                 /\ log[q].type \in {"StepStarted", "StepFailed", "StepRetrying"}
                 /\ log[q].step = node.name
            /\ \A k \in 1..node.config.max_retry :
                 \E q \in first..p : log[q] = StepStarted(node.name, k)
      BY <2>1, <2>2 DEF GivenUpAfterAllAttempts
    <3>2. \A q \in first..p : q \in 1..Len(log)
      BY <2>1, <2>2
    <3>3. first \in 1..Len(log)
      BY <2>1, <2>2
    <3>4. log'[p] = log[p] /\ log'[first] = log[first]
          /\ \A q \in first..p : log'[q] = log[q]
      BY <2>1, <2>2, <3>2, <3>3
    <3>5. \A q \in first..p :
             /\ log'[q].type \in {"StepStarted", "StepFailed", "StepRetrying"}
             /\ log'[q].step = node.name
      BY <3>1, <3>4
    <3>6. \A k \in 1..node.config.max_retry :
             \E q \in first..p : log'[q] = StepStarted(node.name, k)
      BY <3>1, <3>4
    <3>7. node.name = log'[p].step /\ log'[first] = StepStarted(node.name, 1)
      BY <3>1, <3>4
    <3> QED BY <3>5, <3>6, <3>7
  <2>3. CASE p = Len(log) + 1
    BY <1>2, <2>1, <2>3
  <2>4. p \in 1..Len(log) \/ p = Len(log) + 1
    BY <2>1
  <2> QED BY <2>2, <2>3, <2>4
<1>3. CASE GiveUp
  <2>1. call \in CallFrame /\ call.node \in StepNode /\ call.node \in ExecutableNodes
    BY <1>3, CalledNode DEF GiveUp, TypeInv, ControlOK, CallStates, CallFrame
  <2>2. PICK node \in ExecutableNodes, k \in Nat :
          /\ node = call.node /\ k = call.attempt /\ k >= node.config.max_retry
          /\ node.name \in Names /\ node.config.max_retry \in Int
    BY <1>3, <2>1 DEF GiveUp, CallFrame, StepNode, StepConfig
  <2>3. PICK e \in Event : /\ log' = Append(log, e) /\ e.step = node.name
                           /\ e.type = "StepFailed"
    BY <1>3, <2>2, EventsMade DEF GiveUp, store_event, StepFailed, StepErrors
  <2>4. PICK first \in 1..Len(log) : AttemptsFrom(first, node.name, k)
    BY <1>3, <2>2 DEF GiveUp, AttemptsOK
  <2>5. first \in 1..Len(log') /\ AttemptsFrom(first, node.name, k)'
    BY <1>0, <2>3, <2>4, AttemptsGrow
  <2>6. Len(log') = Len(log) + 1
    BY <1>0, <2>3, AppendEvent
  <2>7. \A j \in 1..node.config.max_retry : j \in 1..k
    BY <2>2
  <2>8. /\ first \in 1..(Len(log) + 1) /\ log'[first] = StepStarted(node.name, 1)
        /\ \A q \in first..(Len(log) + 1) :
             /\ log'[q].type \in {"StepStarted", "StepFailed", "StepRetrying"}
             /\ log'[q].step = node.name
        /\ \A j \in 1..k : \E q \in first..(Len(log) + 1) : log'[q] = StepStarted(node.name, j)
    BY <2>5, <2>6 DEF AttemptsFrom
  <2>9. \A j \in 1..node.config.max_retry :
          \E q \in first..(Len(log) + 1) : log'[q] = StepStarted(node.name, j)
    BY <2>7, <2>8
  <2> QED BY <1>2, <2>3, <2>8, <2>9
<1>4. CASE \E e \in Event : ~(e.type = "StepFailed" /\ e.error = "exhausted") /\ store_event(e)
  BY <1>2, <1>4 DEF store_event
<1>5. CASE UNCHANGED vars
  BY <1>1, <1>5 DEF vars
<1>6. CASE StartStep \/ Retry \/ HandlerLate
  <2>1. call.node.name \in Names /\ call.attempt \in Nat /\ call.attempt + 1 \in Nat
    BY <1>6 DEF StartStep, Retry, HandlerLate, TypeInv, ControlOK, CallStates, CallFrame, StepNode
  <2>2. /\ StepStarted(call.node.name, call.attempt) \in Event
        /\ StepRetrying(call.node.name, call.attempt + 1) \in Event
        /\ StepFailed(call.node.name, "late", 1) \in Event
    BY <2>1, EventsMade DEF StepErrors
  <2> QED BY <1>4, <1>6, <2>2
     DEF StartStep, Retry, HandlerLate, StepStarted, StepRetrying, StepFailed
<1> QED BY <1>1, <1>3, <1>4, <1>5, <1>6, OtherEvents DEF store_event

\* A step is given up only after all its attempts, all made by the process that
\* gives up, for every definition and wherever the crashes fall.
THEOREM AllAttemptsAreMade == Spec => []GivenUpAfterAllAttempts
<1>1. Init => CallOK /\ AttemptsOK /\ GivenUpAfterAllAttempts
  BY DEF Init, CallOK, AttemptsOK, GivenUpAfterAllAttempts, CallStates
<1>2. TypeInv /\ CallOK /\ AttemptsOK /\ GivenUpAfterAllAttempts /\ [Next]_vars
        => CallOK' /\ AttemptsOK' /\ GivenUpAfterAllAttempts'
  BY CallStep, AttemptsStep, GivenUpStep
<1> QED BY <1>1, <1>2, TypeInit, TypeStep, PTL DEF Spec

-----------------------------------------------------------------------------
(* Restarts. *)

\* The parts of TakeoverOK: what was recorded before the takeover is known to the
\* run, and what is called is not.
PastKnown ==
    pc \in RunStates =>
      \A p \in 1..Len(log) :
        log[p].type = "StepCompleted" /\ p <= resumed => completed[log[p].step] # None

CallFresh == pc \in CallStates => completed[call.node.name] = None

\* Every step leaves the stored events in place and adds one at most.
LEMMA LogExtends ==
    ASSUME TypeInv, [Next]_vars
    PROVE  /\ Len(log) \in Nat /\ Len(log') \in Nat /\ Len(log) <= Len(log')
           /\ \A p \in 1..Len(log) : p \in 1..Len(log') /\ log'[p] = log[p]
<1>1. log \in Seq(Event)
  BY DEF TypeInv, TypeOK
<1>2. ASSUME NEW e \in Event, store_event(e)
      PROVE  /\ Len(log) \in Nat /\ Len(log') \in Nat /\ Len(log) <= Len(log')
             /\ \A p \in 1..Len(log) : p \in 1..Len(log') /\ log'[p] = log[p]
  BY <1>1, <1>2, AppendEvent DEF store_event
<1>3. CASE log' = log
  BY <1>1, <1>3
<1>4. CASE StartStep \/ Retry \/ GiveUp \/ HandlerLate
  <2>1. call.node.name \in Names /\ call.attempt \in Nat /\ call.attempt + 1 \in Nat
    BY <1>4 DEF StartStep, Retry, GiveUp, HandlerLate, TypeInv, ControlOK, CallStates, CallFrame,
                StepNode
  <2>2. /\ StepStarted(call.node.name, call.attempt) \in Event
        /\ StepRetrying(call.node.name, call.attempt + 1) \in Event
        /\ StepFailed(call.node.name, "late", 1) \in Event
        /\ StepFailed(call.node.name, "exhausted", call.attempt) \in Event
    BY <2>1, EventsMade DEF StepErrors
  <2> QED BY <1>2, <1>4, <2>2 DEF StartStep, Retry, GiveUp, HandlerLate
<1> QED BY <1>2, <1>3, <1>4, OtherEvents

\* Only resume_workflow moves the mark, to the end of the log.
LEMMA MarkMoves ==
    ASSUME [Next]_vars
    PROVE  \/ resumed' = resumed /\ ~ResumeContinues
           \/ ResumeContinues /\ resumed' = Len(log) /\ log' = log
<1>1. CASE ResumeContinues
  BY <1>1 DEF ResumeContinues
<1>2. ASSUME NEW out, CompleteNode(out) PROVE resumed' = resumed
  BY <1>2 DEF CompleteNode, host
<1>3. ASSUME ReturnFromExecute PROVE resumed' = resumed
  BY <1>3 DEF ReturnFromExecute
<1>4. ASSUME NEW node, NEW site, CallExecuteStep(node, site) PROVE resumed' = resumed
  BY <1>4 DEF CallExecuteStep, host
<1>5. ASSUME Execute PROVE resumed' = resumed
  BY <1>2, <1>3, <1>4, <1>5
     DEF Execute, SkipCompleted, RunSequential, EnterGroup, RunConditional, RunSubWorkflow,
         MissingSubWorkflow, SignalReceived, SignalMissing, Finish, SkipChild, RunChild,
         GroupDone, RunTarget, StartStep, Retry, GiveUp, Unwind, FailWorkflow, host
<1>6. ASSUME Handler PROVE resumed' = resumed
  BY <1>2, <1>6 DEF Handler, HandlerReturns, HandlerFails, HandlerLate, host
<1>7. ASSUME ReplayEvent \/ ResumeReports PROVE resumed' = resumed
  BY <1>7 DEF ReplayEvent, ResumeReports, host
<1>8. ASSUME Host PROVE resumed' = resumed
  BY <1>8 DEF Host, NewEngine, Start, CheckDeadline, Signal, Resume, host
<1>9. ASSUME Crash \/ UNCHANGED vars PROVE resumed' = resumed
  BY <1>9 DEF Crash, vars, host
<1> QED BY <1>1, <1>5, <1>6, <1>7, <1>8, <1>9 DEF Next, Recover

\* The mark never passes the end of the log.
LEMMA MarkStep ==
    ASSUME TypeInv, resumed <= Len(log), [Next]_vars
    PROVE  (resumed <= Len(log))'
BY MarkMoves, LogExtends DEF TypeInv, TypeOK

\* A run forgets nothing it was told at the takeover.
LEMMA PastStep ==
    ASSUME IndInv, resumed <= Len(log), PastKnown, [Next]_vars
    PROVE  PastKnown'
<1>1. /\ Len(log) \in Nat /\ Len(log') \in Nat /\ resumed \in Nat
      /\ \A p \in 1..Len(log) : p \in 1..Len(log') /\ log'[p] = log[p]
  BY LogExtends DEF IndInv, TypeInv, TypeOK
<1>2. ASSUME pc' \notin RunStates PROVE PastKnown'
  BY <1>2 DEF PastKnown
<1>3. ASSUME pc \in RunStates, completed' = completed, resumed' = resumed PROVE PastKnown'
  <2> SUFFICES ASSUME NEW p \in 1..Len(log'), log'[p].type = "StepCompleted", p <= resumed
               PROVE  completed[log'[p].step] # None
    BY <1>3 DEF PastKnown
  <2>1. p \in 1..Len(log)
    BY <1>1
  <2> QED BY <1>1, <1>3, <2>1 DEF PastKnown
<1>4. CASE UNCHANGED vars
  BY <1>4 DEF vars, host, exec, PastKnown
<1>5. CASE Execute \/ Handler
  <2>1. pc \in RunStates /\ (completed' = completed \/ pc' \notin RunStates)
    BY <1>5, RunSteps
       DEF IndInv, QuietRun, WritesStepEvent, CompletesNode, CompleteNode, FailsRun, SkipCompleted,
           Finish, ReturnFromExecute, exec, RunStates, NodeStates, CallStates
  <2>2. resumed' = resumed
    BY <1>5, <2>1, MarkMoves DEF ResumeContinues, RunStates, NodeStates, CallStates
  <2> QED BY <1>2, <1>3, <2>1, <2>2
<1>6. CASE ResumeContinues
  <2>1. /\ log' = log /\ completed' = replayed.completed_steps /\ pc = "replay"
        /\ pos = Len(log) /\ log \in Seq(Event)
    BY <1>6 DEF ResumeContinues, IndInv, TypeInv, TypeOK
  <2> SUFFICES ASSUME NEW p \in 1..Len(log), log[p].type = "StepCompleted"
               PROVE  completed'[log[p].step] # None
    BY <2>1 DEF PastKnown
  <2>2. log[p].step \in Names
    BY <2>1, EventFields
  <2>3. p \in 1..pos /\ pos > 0 /\ CompletedAt(p, log[p].step)
    BY <1>1, <2>1 DEF CompletedAt
  <2> QED BY <2>1, <2>2, <2>3 DEF IndInv, ReplayOK
<1>7. CASE (Recover /\ ~ResumeContinues) \/ Crash
  BY <1>2, <1>7
     DEF Recover, ReplayEvent, ResumeReports, Crash, RunStates, NodeStates, CallStates
<1>8. CASE Host
  <2>1. ASSUME NEW in \in Json, NEW timed \in BOOLEAN, Start(in, timed) PROVE PastKnown'
    <3>1. WorkflowStarted(in) \in Event /\ WorkflowStarted(in).type = "WorkflowStarted"
      BY EventsMade DEF WorkflowStarted
    <3>2. log = <<>> /\ log' = Append(log, WorkflowStarted(in))
      BY <2>1 DEF Start, store_event
    <3>3. \A p \in 1..Len(log') : log'[p].type = "WorkflowStarted"
      BY <3>1, <3>2, AppendEvent
    <3> QED BY <3>3 DEF PastKnown
  <2>2. ASSUME NEW s, Signal(s) PROVE PastKnown'
    BY <2>2 DEF Signal, host, exec, PastKnown, RunStates, NodeStates, CallStates
  <2>3. ASSUME NEW w, NewEngine(w) PROVE PastKnown'
    BY <1>2, <2>3 DEF NewEngine, RunStates, NodeStates, CallStates
  <2>4. ASSUME NEW late, CheckDeadline(late) PROVE PastKnown'
    BY <1>2, <2>4 DEF CheckDeadline, RunStates, NodeStates, CallStates
  <2>5. ASSUME Resume PROVE PastKnown'
    BY <1>2, <2>5 DEF Resume, RunStates, NodeStates, CallStates
  <2> QED BY <1>8, <2>1, <2>2, <2>3, <2>4, <2>5 DEF Host
<1> QED BY <1>4, <1>5, <1>6, <1>7, <1>8 DEF Next

\* execute_step is called only for what is not known as completed.
LEMMA FreshStep ==
    ASSUME TypeInv, CallFresh, [Next]_vars
    PROVE  CallFresh'
<1>1. ASSUME pc' \notin CallStates PROVE CallFresh'
  BY <1>1 DEF CallFresh
<1>2. ASSUME NEW node, NEW site, CallExecuteStep(node, site), completed[node.name] = None
      PROVE  CallFresh'
  <2>1. call'.node = node /\ completed' = completed
    BY <1>2 DEF CallExecuteStep, exec
  <2> QED BY <1>2, <2>1 DEF CallFresh
<1>3. ASSUME pc \in CallStates, call'.node = call.node, completed' = completed
      PROVE  CallFresh'
  BY <1>3 DEF CallFresh
<1>4. CASE Execute
  <2>1. CASE \/ SkipCompleted \/ MissingSubWorkflow \/ SignalReceived \/ SignalMissing
             \/ Finish \/ GroupDone \/ EnterGroup \/ SkipChild
             \/ \E out \in Json : RunSubWorkflow(out)
    BY <1>1, <2>1 DEF SkipCompleted, AtNode, MissingSubWorkflow, SignalReceived, SignalMissing,
                      Finish, GroupDone, EnterGroup, SkipChild, AtChild, RunSubWorkflow,
                      CompleteNode, FailWorkflow, ReturnFromExecute, CallStates
  <2>2. CASE RunSequential
    BY <1>2, <2>2 DEF RunSequential, AtFresh
  <2>3. CASE RunConditional
    <3>1. CASE completed[Node.condition] # None
      BY <1>1, <2>3, <3>1 DEF RunConditional, CallStates
    <3>2. CASE completed[Node.condition] = None
      <4>1. make_step_node(Node.condition).name = Node.condition
        BY DEF make_step_node, plain_node
      <4> QED BY <1>2, <2>3, <3>2, <4>1 DEF RunConditional
    <3> QED BY <3>1, <3>2
  <2>4. CASE RunChild
    <3>1. CASE find_step_node(Def, Child) = {}
      BY <1>1, <2>4, <3>1 DEF RunChild, FailWorkflow, ReturnFromExecute, CallStates
    <3>2. CASE find_step_node(Def, Child) # {}
      <4>1. PICK node \in find_step_node(Def, Child) : CallExecuteStep(node, "child")
        BY <2>4, <3>2 DEF RunChild
      <4>2. node.name = Child
        BY <4>1 DEF find_step_node
      <4> QED BY <1>2, <2>4, <4>1, <4>2 DEF RunChild
    <3> QED BY <3>1, <3>2
  <2>5. CASE RunTarget
    <3>1. CASE completed[target] # None
      BY <1>1, <2>5, <3>1 DEF RunTarget, CompleteNode, CallStates
    <3>2. CASE completed[target] = None
      <4>1. make_step_node(target).name = target
        BY DEF make_step_node, plain_node
      <4> QED BY <1>2, <2>5, <3>2, <4>1 DEF RunTarget
    <3> QED BY <3>1, <3>2
  <2>6. CASE StartStep \/ GiveUp
    BY <1>3, <2>6 DEF StartStep, GiveUp, exec, CallStates
  <2>7. CASE Retry
    <3>1. call \in CallFrame
      BY <2>7 DEF Retry, TypeInv, ControlOK, CallStates
    <3>2. call'.node = call.node
      BY <2>7, <3>1 DEF Retry, CallFrame
    <3> QED BY <1>3, <2>7, <3>2 DEF Retry, exec, CallStates
  <2>8. CASE Unwind
    BY <1>1, <2>8 DEF Unwind, FailWorkflow, ReturnFromExecute, CallStates
  <2> QED BY <1>4, <2>1, <2>2, <2>3, <2>4, <2>5, <2>6, <2>7, <2>8 DEF Execute
<1>5. ASSUME NEW out \in Json, HandlerReturns(out) PROVE CallFresh'
  BY <1>1, <1>5 DEF HandlerReturns, CompleteNode, CallStates
<1>6. CASE HandlerFails \/ HandlerLate \/ UNCHANGED vars
  BY <1>3, <1>6 DEF HandlerFails, HandlerLate, vars, exec, local, CallStates, CallFresh
<1>7. CASE Recover \/ Crash
  BY <1>1, <1>7 DEF Recover, ReplayEvent, ResumeReports, ResumeContinues, Crash, CallStates
<1>8. CASE Host
  <2>1. ASSUME NEW s, Signal(s), pc = "handler" PROVE CallFresh'
    BY <1>3, <2>1 DEF Signal, exec, local, CallStates
  <2> QED BY <1>1, <1>8, <2>1
          DEF Host, NewEngine, Start, CheckDeadline, Signal, Resume, CallStates
<1> QED BY <1>4, <1>5, <1>6, <1>7, <1>8 DEF Next, Handler

\* A step that is started and was completed before is named by the running node.
LEMMA StartedIsNamed ==
    ASSUME UniqueNames, IndInv, CallOK, pc = "step"
    PROVE  /\ idx \in 1..Len(Def)
           /\ \A i \in 1..Len(Def) : Recorded(Def[i].name) <=> i < idx
           /\ Recorded(call.node.name) => call.node.name \in NamedBy(Def[idx])
<1>1. /\ idx \in 1..Len(Def) /\ completed[Node.name] = None /\ pc \in RunStates
      /\ pc \in CallStates
  BY DEF IndInv, TypeInv, ControlOK, RunStates, NodeStates, CallStates
<1>0. \A i \in 1..Len(Def) : Recorded(Def[i].name) <=> i < idx
  BY <1>1, Frontier DEF IndInv
<1>2. CASE call.node = Node
  BY <1>0, <1>1, <1>2 DEF Node
<1>3. ASSUME Node.step_type = "Conditional",
             NEW n \in {Node.condition, Node.on_true, Node.on_false}, call.node = make_step_node(n)
      PROVE  call.node.name \in NamedBy(Node)
  BY <1>3 DEF make_step_node, plain_node, NamedBy
<1>4. ASSUME call.site = "child", Node.step_type = "Parallel",
             call.node \in find_step_node(Def, Child)
      PROVE  call.node.name \in NamedBy(Node)
  <2>1. call.node.name = Child /\ ci \in 1..Len(Node.children)
    BY <1>1, <1>4 DEF find_step_node, IndInv, TypeInv, ControlOK
  <2> QED BY <1>4, <2>1 DEF NamedBy, Child
<1> QED BY <1>0, <1>1, <1>2, <1>3, <1>4 DEF CallOK, Node

\* Every step keeps RestartedOnlyByName.
LEMMA RestartStep ==
    ASSUME UniqueNames, IndInv, CallOK, TakeoverOK, RestartedOnlyByName, [Next]_vars
    PROVE  RestartedOnlyByName'
<1>0. log \in Seq(Event) /\ resumed \in Nat
  BY DEF IndInv, TypeInv, TypeOK
<1>1. /\ Len(log) \in Nat /\ Len(log') \in Nat
      /\ \A p \in 1..Len(log) : p \in 1..Len(log') /\ log'[p] = log[p]
  BY LogExtends DEF IndInv
<1>2. ASSUME NEW q \in 1..(Len(log) + 1), NEW i
      PROVE  RunningAt(q, i)' <=> RunningAt(q, i)
  <2>1. \A r \in 1..(q - 1) : log'[r] = log[r]
    BY <1>1
  <2>2. ASSUME NEW n PROVE CompletedBefore(q, n)' <=> CompletedBefore(q, n)
    BY <2>1 DEF CompletedBefore, CompletedAt
  <2> QED BY <2>2 DEF RunningAt
<1>3. resumed' = resumed \/ resumed' = Len(log)
  BY MarkMoves
<1>4. ASSUME NEW p \in 1..Len(log), NEW q \in 1..Len(log), p < q,
             log[p].type = "StepCompleted", log[q].type = "StepStarted",
             log[p].step = log[q].step
      PROVE  /\ q > resumed' => p > resumed'
             /\ \E i \in 1..Len(Def) : RunningAt(q, i)' /\ log[q].step \in NamedBy(Def[i])
  <2>1. /\ q > resumed => p > resumed
        /\ \E i \in 1..Len(Def) : RunningAt(q, i) /\ log[q].step \in NamedBy(Def[i])
    BY <1>4 DEF RestartedOnlyByName
  <2>2. q > resumed' => p > resumed'
    BY <1>0, <1>1, <1>3, <2>1
  <2> QED BY <1>1, <1>2, <2>1, <2>2
<1>5. ASSUME Len(log') <= Len(log) \/ log'[Len(log')].type # "StepStarted",
             Len(log') <= Len(log) + 1
      PROVE  RestartedOnlyByName'
  <2> SUFFICES ASSUME NEW p \in 1..Len(log'), NEW q \in 1..Len(log'), p < q,
                      log'[p].type = "StepCompleted", log'[q].type = "StepStarted",
                      log'[p].step = log'[q].step
               PROVE  /\ q > resumed' => p > resumed'
                      /\ \E i \in 1..Len(Def) :
                           RunningAt(q, i)' /\ log'[q].step \in NamedBy(Def[i])
    BY DEF RestartedOnlyByName
  <2>1. p \in 1..Len(log) /\ q \in 1..Len(log)
    BY <1>1, <1>5
  <2> QED BY <1>1, <1>4, <2>1
<1>6. ASSUME NEW e \in Event, e.type # "StepStarted", store_event(e)
      PROVE  RestartedOnlyByName'
  BY <1>0, <1>5, <1>6, AppendEvent DEF store_event
<1>7. CASE log' = log
  BY <1>1, <1>5, <1>7
<1>8. CASE StartStep
  <2>1. /\ call.node.name \in Names /\ call.attempt \in Nat /\ pc = "step"
        /\ store_event(StepStarted(call.node.name, call.attempt))
        /\ pc \in CallStates /\ pc \in RunStates
    BY <1>8 DEF StartStep, IndInv, TypeInv, ControlOK, CallStates, NodeStates, RunStates,
                CallFrame, StepNode
  <2>2. PICK n \in Names, k \in Nat : n = call.node.name /\ k = call.attempt
    BY <2>1
  <2>3. PICK e \in Event : e = StepStarted(n, k) /\ e.step = n /\ store_event(e)
    BY <2>1, <2>2, EventsMade DEF StepStarted
  <2>4. Len(log') = Len(log) + 1 /\ log'[Len(log) + 1] = e
    BY <1>0, <2>3, AppendEvent DEF store_event
  <2>5. resumed' = resumed
    BY <2>1, MarkMoves DEF ResumeContinues
  <2>6. /\ idx \in 1..Len(Def)
        /\ \A i \in 1..Len(Def) : Recorded(Def[i].name) <=> i < idx
        /\ Recorded(n) => n \in NamedBy(Def[idx])
    BY <2>1, <2>2, StartedIsNamed
  <2>7. RunningAt(Len(log) + 1, idx)
    BY <1>0, <2>6, RecordedIsBefore DEF RunningAt
  <2>8. ASSUME NEW p \in 1..Len(log), log[p].type = "StepCompleted", log[p].step = n
        PROVE  p > resumed /\ Recorded(n)
    <3>1. completed[n] = None
      BY <2>1, <2>2 DEF TakeoverOK
    <3> QED BY <1>0, <2>1, <2>8, <3>1 DEF TakeoverOK, Recorded, CompletedAt
  <2> SUFFICES ASSUME NEW p \in 1..Len(log'), NEW q \in 1..Len(log'), p < q,
                      log'[p].type = "StepCompleted", log'[q].type = "StepStarted",
                      log'[p].step = log'[q].step
               PROVE  /\ q > resumed' => p > resumed'
                      /\ \E i \in 1..Len(Def) :
                           RunningAt(q, i)' /\ log'[q].step \in NamedBy(Def[i])
    BY DEF RestartedOnlyByName
  <2>9. p \in 1..Len(log) /\ log'[p] = log[p]
    BY <1>1, <2>4
  <2>10. CASE q \in 1..Len(log)
    BY <1>1, <1>4, <2>9, <2>10
  <2>11. CASE q = Len(log) + 1
    <3>1. p > resumed /\ Recorded(n)
      BY <2>3, <2>4, <2>8, <2>9, <2>11
    <3>2. PICK i \in 1..Len(Def) : i = idx
      BY <2>6
    <3>3. RunningAt(q, i)'
      BY <1>1, <1>2, <2>7, <2>11, <3>2
    <3>4. log'[q].step = n /\ n \in NamedBy(Def[i])
      BY <2>3, <2>4, <2>6, <2>11, <3>1, <3>2
    <3> QED BY <2>5, <3>1, <3>3, <3>4
  <2> QED BY <1>1, <2>4, <2>10, <2>11
<1>9. CASE Retry \/ GiveUp \/ HandlerLate
  <2>1. call.node.name \in Names /\ call.attempt \in Nat /\ call.attempt + 1 \in Nat
    BY <1>9 DEF Retry, GiveUp, HandlerLate, IndInv, TypeInv, ControlOK, CallStates, CallFrame, StepNode
  <2>2. /\ StepRetrying(call.node.name, call.attempt + 1) \in Event
        /\ StepFailed(call.node.name, "late", 1) \in Event
        /\ StepFailed(call.node.name, "exhausted", call.attempt) \in Event
    BY <2>1, EventsMade DEF StepErrors
  <2> QED BY <1>6, <1>9, <2>2 DEF Retry, GiveUp, HandlerLate, StepRetrying, StepFailed
<1> QED BY <1>6, <1>7, <1>8, <1>9, OtherEvents DEF IndInv

\* Whatever crashes and resumptions happen, what was recorded as completed when a
\* process took over is not started again, and what completed since then only by the
\* group or branch that names it; for every definition with unique step names.
THEOREM CompletedStaysDone ==
    ASSUME UniqueNames
    PROVE  Spec => []RestartedOnlyByName
<1>1. Init => CallOK /\ TakeoverOK /\ RestartedOnlyByName
  BY DEF Init, CallOK, TakeoverOK, RestartedOnlyByName, RunStates, NodeStates, CallStates
<1>2. TakeoverOK <=> PastKnown /\ CallFresh /\ resumed <= Len(log)
  BY DEF TakeoverOK, PastKnown, CallFresh
<1>3. (TakeoverOK <=> PastKnown /\ CallFresh /\ resumed <= Len(log))'
  BY DEF TakeoverOK, PastKnown, CallFresh
<1>4. IndInv /\ CallOK /\ TakeoverOK /\ RestartedOnlyByName /\ [Next]_vars
        => CallOK' /\ TakeoverOK' /\ RestartedOnlyByName'
  BY <1>2, <1>3, CallStep, PastStep, FreshStep, MarkStep, RestartStep DEF IndInv
<1> QED BY <1>1, <1>4, Invariant, PTL DEF Spec

-----------------------------------------------------------------------------
(* The engine implements Workflow: crashes, replays and retries are invisible in  *)
(* the stored outcome.                                                            *)

\* The deadline is checked only after execute_workflow has ended the run.
ElapsedOK == pc = "elapsed" => log # <<>> /\ IsTerminal(log[Len(log)])

Done == {i \in 1..Len(Def) : CompletedBefore(Len(log) + 1, Def[i].name)}

-----------------------------------------------------------------------------
\* The end of the run precedes the check of the deadline.
LEMMA ElapsedStep ==
    ASSUME TypeInv, ElapsedOK, [Next]_vars
    PROVE  ElapsedOK'
<1>1. log \in Seq(Event)
  BY DEF TypeInv, TypeOK
<1>2. ASSUME NEW e \in Event, IsTerminal(e), store_event(e) PROVE ElapsedOK'
  BY <1>1, <1>2, AppendEvent DEF ElapsedOK, store_event, IsTerminal
<1>3. CASE UNCHANGED vars
  BY <1>3 DEF vars, ElapsedOK, IsTerminal
<1>4. CASE Execute \/ Handler
  <2>1. CASE QuietRun \/ WritesStepEvent \/ CompletesNode \/ SkipCompleted
    BY <2>1 DEF QuietRun, WritesStepEvent, CompletesNode, CompleteNode, SkipCompleted,
                AtNode, ElapsedOK, RunStates, NodeStates, CallStates
  <2>2. CASE FailsRun
    BY <1>2, <2>2, EventsMade DEF FailsRun, WorkflowFailed, IsTerminal
  <2>3. CASE Finish
    BY <1>2, <2>3, EventsMade DEF Finish, WorkflowCompleted, IsTerminal, TypeInv, TypeOK
  <2> QED BY <1>4, <2>1, <2>2, <2>3, RunSteps
<1>5. CASE Recover \/ Host \/ Crash
  BY <1>5 DEF Recover, ReplayEvent, ResumeReports, ResumeContinues, Host, NewEngine,
              Start, CheckDeadline, Signal, Resume, Crash, ElapsedOK
<1> QED BY <1>3, <1>4, <1>5 DEF Next

\* The last event decides the abstract status.
LEMMA StatusAfter ==
    ASSUME log \in Seq(Event), NEW e \in Event, log' = Append(log, e)
    PROVE  StatusOfLog' = CASE e.type = "WorkflowCompleted" -> "completed"
                            [] e.type = "WorkflowFailed"    -> "failed"
                            [] OTHER                        -> "running"
<1>1. log' # <<>> /\ log'[Len(log')] = e
  BY AppendEvent
<1> QED BY <1>1 DEF StatusOfLog

\* During a run the abstract workflow is running.
LEMMA StatusInRun ==
    ASSUME IndInv, pc \in RunStates
    PROVE  StatusOfLog = "running"
<1>1. log # <<>> /\ log \in Seq(Event) /\ Len(log) \in 1..Len(log)
  BY AppendEvent DEF IndInv, TypeInv, TypeOK, ControlOK
<1>2. ~IsTerminal(log[Len(log)])
  BY <1>1 DEF IndInv, RunOK
<1> QED BY <1>1, <1>2 DEF StatusOfLog, IsTerminal

\* Done is what is recorded, before and after a step.
LEMMA DoneIsRecorded ==
    ASSUME log \in Seq(Event), log' \in Seq(Event)
    PROVE  /\ Done = {i \in 1..Len(Def) : Recorded(Def[i].name)}
           /\ Done' = {i \in 1..Len(Def) : Recorded(Def[i].name)'}
<1>1. ASSUME NEW n
      PROVE  /\ CompletedBefore(Len(log) + 1, n) <=> Recorded(n)
             /\ CompletedBefore(Len(log) + 1, n)' <=> Recorded(n)'
  BY AppendEvent DEF CompletedBefore, Recorded
<1> QED BY <1>1 DEF Done

\* An event that is not a completion leaves done and value alone.
LEMMA OtherEventKeepsDone ==
    ASSUME TypeInv, log # <<>>, NEW e \in Event,
           e.type \notin {"StepCompleted", "WorkflowStarted"}, log' = Append(log, e)
    PROVE  Done' = Done /\ get_last_output(log') = get_last_output(log)
<1>1. log \in Seq(Event) /\ log' \in Seq(Event)
  BY AppendEvent DEF TypeInv, TypeOK
<1>2. \A i \in 1..Len(Def) : Recorded(Def[i].name)' <=> Recorded(Def[i].name)
  <2>1. ASSUME NEW n PROVE Recorded(n)' <=> Recorded(n)
    BY <1>1, AppendCompletions
  <2> QED BY <2>1
<1>3. Done' = {i \in 1..Len(Def) : Recorded(Def[i].name)'}
  BY <1>1, DoneIsRecorded
<1>4. Done' = Done
  BY <1>1, <1>2, <1>3, DoneIsRecorded
<1> QED BY <1>1, <1>4, OtherEventKeepsOutput DEF TypeInv

-----------------------------------------------------------------------------
(* Every step of the engine is a step of the workflow or a stutter. *)

\* A node that completes advances the workflow.
LEMMA AdvanceStep ==
    ASSUME UniqueNames, IndInv, pc \in RunStates, CompletesNode
    PROVE  W!Next
<1>1. PICK out \in Json : CompleteNode(out)
  BY DEF CompletesNode
<1> DEFINE e == StepCompleted(Node.name, out)
<1>2. /\ log \in Seq(Event) /\ log' = Append(log, e) /\ e \in Event
      /\ e.type = "StepCompleted" /\ e.step = Def[idx].name /\ e.output = out
      /\ idx \in 1..Len(Def) /\ completed[Node.name] = None
  BY <1>1, NodeTypes, EventsMade
     DEF IndInv, TypeInv, TypeOK, CompletesNode, CompleteNode, store_event, StepCompleted, Node
<1> HIDE DEF e
<1>3. log' \in Seq(Event) /\ Len(log') = Len(log) + 1 /\ log'[Len(log')] = e
      /\ Len(log) \in Nat
  BY <1>2, AppendEvent
<1>4. StatusOfLog = "running" /\ StatusOfLog' = "running"
  BY <1>2, StatusInRun, StatusAfter
<1>5. \A i \in 1..Len(Def) : Recorded(Def[i].name) <=> i < idx
  BY <1>2, Frontier DEF IndInv
<1>6. ASSUME NEW i \in 1..Len(Def)
      PROVE  Recorded(Def[i].name)' <=> i <= idx
  <2>1. ASSUME NEW n PROVE Recorded(n)' <=> Recorded(n) \/ n = Def[idx].name
    BY <1>2, AppendCompletions
  <2>2. Recorded(Def[i].name)' <=> Recorded(Def[i].name) \/ Def[i].name = Def[idx].name
    BY <2>1
  <2>3. Def[i].name = Def[idx].name <=> i = idx
    BY <1>2 DEF UniqueNames
  <2> QED BY <1>2, <1>5, <2>2, <2>3
<1>7. Done = 1..(idx - 1)
  <2>1. Done = {i \in 1..Len(Def) : i < idx}
    BY <1>2, <1>3, <1>5, DoneIsRecorded
  <2>2. {i \in 1..Len(Def) : i < idx} = 1..(idx - 1)
    BY <1>2, NodeTypes
  <2> QED BY <2>1, <2>2
<1>8. Done' = 1..idx
  <2>1. Done' = {i \in 1..Len(Def) : i <= idx}
    BY <1>2, <1>3, <1>6, DoneIsRecorded
  <2>2. {i \in 1..Len(Def) : i <= idx} = 1..idx
    BY <1>2, NodeTypes
  <2> QED BY <2>1, <2>2
<1>9. get_last_output(log') = out
  <2>1. Len(log') \in output_positions(log') /\ output_positions(log') # {}
    BY <1>2, <1>3 DEF output_positions
  <2>2. ASSUME NEW q \in output_positions(log'),
               \A r \in output_positions(log') : r <= q
        PROVE  q = Len(log')
    <3>1. q \in 1..Len(log') /\ Len(log') <= q
      BY <2>1, <2>2 DEF output_positions
    <3> QED BY <1>3, <3>1
  <2>3. \A q \in output_positions(log') : q <= Len(log')
    BY <1>3 DEF output_positions
  <2>4. last_output_position(log') = Len(log')
    BY <2>1, <2>2, <2>3 DEF last_output_position
  <2> QED BY <1>2, <1>3, <2>1, <2>4 DEF get_last_output
<1>10. W!Advance(idx, out)
  BY <1>4, <1>7, <1>8, <1>9 DEF W!Advance, Done
<1> QED BY <1>2, <1>10 DEF W!Next, W!Progress

\* Any step.
LEMMA RefinementStep ==
    ASSUME UniqueNames, IndInv, ElapsedOK, [Next]_vars
    PROVE  [W!Next]_W!vars
<1> USE DEF W!vars
<1>1. log \in Seq(Event) /\ TypeInv /\ input \in Json
  BY DEF IndInv, TypeInv, TypeOK
<1>2. CASE log' = log
  <2>1. StatusOfLog' = StatusOfLog
    BY <1>2 DEF StatusOfLog
  <2>2. Done' = Done
    BY <1>2 DEF Done, CompletedBefore, CompletedAt
  <2> QED BY <1>2, <2>1, <2>2 DEF Done
<1>3. ASSUME log = <<>>, NEW in \in Json, store_event(WorkflowStarted(in))
      PROVE  W!Next
  <2> DEFINE e == WorkflowStarted(in)
  <2>1. e \in Event /\ e.type = "WorkflowStarted" /\ e.input = in /\ log' = Append(log, e)
    BY <1>3, EventsMade DEF WorkflowStarted, store_event
  <2> HIDE DEF e
  <2>2. log' \in Seq(Event) /\ Len(log') = 1 /\ log'[1] = e /\ Len(log) = 0
    BY <1>3, <2>1, AppendEvent
  <2>3. StatusOfLog = "none" /\ StatusOfLog' = "running"
    BY <1>1, <1>3, <2>1, StatusAfter DEF StatusOfLog
  <2>4. ASSUME NEW n PROVE ~Recorded(n) /\ ~Recorded(n)'
    BY <2>1, <2>2 DEF Recorded, CompletedAt
  <2>5. Done = {} /\ Done' = {}
    BY <1>1, <2>2, <2>4, DoneIsRecorded
  <2>6. get_last_output(log') = in
    <3>1. output_positions(log') = {1}
      BY <2>1, <2>2 DEF output_positions
    <3>2. last_output_position(log') = 1
      BY <3>1 DEF last_output_position
    <3> QED BY <2>1, <2>2, <3>1, <3>2 DEF get_last_output
  <2>7. W!Begin(in)
    BY <2>3, <2>5, <2>6 DEF W!Begin, Done
  <2> QED BY <2>7 DEF W!Next
<1>4. CASE pc \in RunStates /\ WritesStepEvent
  <2>1. PICK e \in Event : /\ e.type \in {"StepStarted", "StepFailed", "StepRetrying"}
                          /\ log' = Append(log, e)
    BY <1>4 DEF WritesStepEvent, store_event
  <2>2. log # <<>>
    BY <1>4 DEF IndInv, TypeInv, ControlOK
  <2>3. StatusOfLog' = StatusOfLog
    BY <1>1, <1>4, <2>1, StatusInRun, StatusAfter
  <2> QED BY <1>1, <2>1, <2>2, <2>3, OtherEventKeepsDone DEF Done
<1>5. CASE pc \in RunStates /\ FailsRun
  <2>1. PICK x \in WorkflowErrors : log' = Append(log, WorkflowFailed(x))
    BY <1>5 DEF FailsRun, store_event
  <2>2. WorkflowFailed(x) \in Event /\ WorkflowFailed(x).type = "WorkflowFailed"
    BY EventsMade DEF WorkflowFailed
  <2>3. log # <<>>
    BY <1>5 DEF IndInv, TypeInv, ControlOK
  <2>4. StatusOfLog = "running" /\ StatusOfLog' = "failed"
    BY <1>1, <1>5, <2>1, <2>2, StatusInRun, StatusAfter
  <2>5. Done' = Done /\ get_last_output(log') = get_last_output(log)
    BY <1>1, <2>1, <2>2, <2>3, OtherEventKeepsDone
  <2>6. W!Fail
    BY <2>4, <2>5 DEF W!Fail, Done
  <2> QED BY <2>6 DEF W!Next, W!Progress
<1>6. CASE pc \in RunStates /\ Finish
  <2>1. /\ log' = Append(log, WorkflowCompleted(input))
        /\ WorkflowCompleted(input) \in Event
        /\ WorkflowCompleted(input).type = "WorkflowCompleted"
    BY <1>1, <1>6, EventsMade DEF Finish, store_event, WorkflowCompleted
  <2>2. log # <<>> /\ log' \in Seq(Event)
    BY <1>1, <1>6, <2>1, AppendEvent DEF IndInv, TypeInv, ControlOK
  <2>3. StatusOfLog = "running" /\ StatusOfLog' = "completed"
    BY <1>1, <1>6, <2>1, StatusInRun, StatusAfter
  <2>4. Done' = Done /\ get_last_output(log') = get_last_output(log)
    BY <1>1, <2>1, <2>2, OtherEventKeepsDone
  <2>5. Done = 1..Len(Def)
    BY <1>1, <1>6, <2>2, AllRecorded, DoneIsRecorded
  <2>6. W!Succeed
    BY <2>3, <2>4, <2>5 DEF W!Succeed, Done
  <2> QED BY <2>6 DEF W!Next, W!Progress
<1>7. CASE pc = "elapsed" /\ store_event(WorkflowFailed("overrun"))
  <2>1. /\ log' = Append(log, WorkflowFailed("overrun"))
        /\ WorkflowFailed("overrun") \in Event
        /\ WorkflowFailed("overrun").type = "WorkflowFailed"
    BY <1>7, EventsMade DEF WorkflowFailed, WorkflowErrors, store_event
  <2>2. log # <<>> /\ StatusOfLog \in {"completed", "failed"}
    BY <1>7 DEF ElapsedOK, IsTerminal, StatusOfLog
  <2>3. StatusOfLog' = "failed"
    BY <1>1, <2>1, StatusAfter
  <2>4. Done' = Done /\ get_last_output(log') = get_last_output(log)
    BY <1>1, <2>1, <2>2, OtherEventKeepsDone
  <2>5. W!Overrun
    BY <2>2, <2>3, <2>4 DEF W!Overrun, Done
  <2> QED BY <2>5 DEF W!Next
<1>8. CASE UNCHANGED vars
  BY <1>2, <1>8 DEF vars
<1>9. CASE Next
  BY <1>1, <1>2, <1>3, <1>4, <1>5, <1>6, <1>7, <1>9, AdvanceStep, LogGrowth
<1> QED BY <1>8, <1>9

\* Before anything is started there is nothing to promise.
LEMMA RefinementInit == Init => W!Init
<1> SUFFICES ASSUME Init PROVE W!Init
  OBVIOUS
<1>1. log = <<>> /\ log \in Seq(Event) /\ Len(log) = 0
  BY DEF Init
<1>2. get_last_output(log) = JsonNull
  BY <1>1 DEF get_last_output, output_positions
<1>3. {i \in 1..Len(Def) : CompletedBefore(Len(log) + 1, Def[i].name)} = {}
  BY <1>1 DEF CompletedBefore
<1> QED BY <1>1, <1>2, <1>3 DEF W!Init, StatusOfLog

\* The engine implements the workflow it promises, for every definition with
\* unique step names, any handlers and any number of crashes: the stored
\* events advance one step at a time in the order of the definition, succeed
\* only at its end, and then stay as they are.
THEOREM EngineImplementsWorkflow ==
    ASSUME UniqueNames
    PROVE  Spec => ImplementsWorkflow
<1>1. Spec => [](IndInv /\ ElapsedOK)
  <2>1. Init => ElapsedOK
    BY DEF Init, ElapsedOK
  <2>2. IndInv /\ ElapsedOK /\ [Next]_vars => ElapsedOK'
    BY ElapsedStep DEF IndInv
  <2> QED BY <2>1, <2>2, Invariant, PTL DEF Spec
<1>2. IndInv /\ ElapsedOK /\ [Next]_vars => [W!Next]_W!vars
  BY RefinementStep
<1> QED BY <1>1, <1>2, RefinementInit, PTL DEF Spec, ImplementsWorkflow, W!Spec

=============================================================================
