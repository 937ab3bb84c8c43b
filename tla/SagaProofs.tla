----------------------------- MODULE SagaProofs -----------------------------
(***************************************************************************)
(* Proofs about Saga, for any number of steps and any max_retry.           *)
(***************************************************************************)
EXTENDS Saga, TLAPS

\* The bookkeeping of a running saga: completed_indices lists the steps so
\* far in order, and the steps in effect are the ones not yet compensated.
RunOK ==
    /\ pc = "forward" =>
         /\ i \in 1..(Len(steps) + 1)
         /\ Len(completed_indices) = i - 1
         /\ applied = 1..(i - 1)
    /\ pc = "compensate" =>
         /\ left \in 0..Len(completed_indices)
         /\ Len(completed_indices) <= Len(steps)
         /\ applied = 1..left
    /\ \A k \in 1..Len(completed_indices) : completed_indices[k] = k
    /\ \E k \in 0..Len(steps) : applied = 1..k

IndInv == TypeOK /\ RunOK

\* The invariant holds before anything is built.
LEMMA SagaInit == Init => IndInv
<1> SUFFICES ASSUME Init PROVE IndInv
  OBVIOUS
<1>1. TypeOK
  BY DEF Init, TypeOK
<1>2. 0 \in 0..Len(steps) /\ applied = 1..0
  BY DEF Init
<1> QED BY <1>1, <1>2 DEF Init, IndInv, RunOK

\* Adding a step or a handler leaves a finished saga as it was.
LEMMA BuildStep ==
    ASSUME IndInv, (\E n \in Names : register(n) \/ step_by_name(n)) \/ step
    PROVE  IndInv'
<1>1. /\ pc = "idle" /\ UNCHANGED <<pc, control, i, attempt, completed_indices, left,
                                    result, applied, calls>>
      /\ registry' \in SUBSET Names
  BY DEF IndInv, TypeOK, register, step, step_by_name, Building
<1>2. steps' = steps \/ \E b \in BOOLEAN : steps' = Append(steps, b)
  <2>1. ASSUME NEW n \in Names, step_by_name(n)
        PROVE  \E b \in BOOLEAN : steps' = Append(steps, b)
    <3>1. steps' = Append(steps, n \in registry)
      BY <2>1 DEF step_by_name
    <3>2. (n \in registry) \in BOOLEAN
      OBVIOUS
    <3> QED BY <3>1, <3>2, Zenon
  <2>2. step => \E b \in BOOLEAN : steps' = Append(steps, b)
    BY Zenon DEF step
  <2>3. \A n : register(n) => steps' = steps
    BY DEF register
  <2> QED BY <2>1, <2>2, <2>3
<1>3. /\ steps' \in Seq(BOOLEAN) /\ Len(steps) \in Nat
      /\ Len(steps') \in {Len(steps), Len(steps) + 1}
  BY <1>2 DEF IndInv, TypeOK
<1>4. TypeOK'
  BY <1>1, <1>3 DEF IndInv, TypeOK, control
<1>5. \E k \in 0..Len(steps') : applied' = 1..k
  BY <1>1, <1>3 DEF IndInv, RunOK
<1> QED BY <1>1, <1>4, <1>5 DEF IndInv, RunOK

\* An execution starts with nothing in effect.
LEMMA CallStep ==
    ASSUME IndInv, NEW m \in {"execute", "execute_with_retry"}, NEW n \in Int, Call(m, n)
    PROVE  IndInv'
<1>1. TypeOK'
  BY DEF IndInv, TypeOK, Call, build
<1>2. /\ i' = 1 /\ applied' = 1..0 /\ Len(completed_indices') = 0 /\ pc' = "forward"
      /\ Len(steps') \in Nat
  BY DEF Call, IndInv, TypeOK, build
<1> QED BY <1>1, <1>2 DEF IndInv, RunOK

\* A forward action takes effect.
LEMMA ForwardStep ==
    ASSUME IndInv, ForwardSucceeds
    PROVE  IndInv'
<1>1. /\ pc = "forward" /\ pc' = "forward" /\ i \in 1..Len(steps) /\ i' = i + 1
      /\ completed_indices' = Append(completed_indices, i)
      /\ Len(completed_indices) = i - 1 /\ steps' = steps
      /\ applied = 1..(i - 1) /\ applied' = applied \cup {i}
      /\ completed_indices \in Seq(Nat) /\ Len(steps) \in Nat
  BY DEF ForwardSucceeds, AtStep, IndInv, TypeOK, RunOK, build
<1>2. TypeOK'
  BY <1>1 DEF ForwardSucceeds, IndInv, TypeOK, build, control
<1>3. applied' = 1..i
  BY <1>1
<1>4. \A k \in 1..Len(completed_indices') : completed_indices'[k] = k
  BY <1>1 DEF IndInv, RunOK
<1> QED BY <1>1, <1>2, <1>3, <1>4 DEF IndInv, RunOK

\* A compensation takes the last step that is still in effect.
LEMMA CompensationStep ==
    ASSUME IndInv, CompensationSucceeds
    PROVE  IndInv'
<1>1. /\ pc = "compensate" /\ pc' = "compensate" /\ left \in 1..Len(completed_indices)
      /\ left' = left - 1 /\ applied = 1..left /\ completed_indices[left] = left
      /\ applied' = applied \ {left} /\ completed_indices' = completed_indices
      /\ steps' = steps /\ Len(completed_indices) <= Len(steps)
      /\ Len(steps) \in Nat /\ Len(completed_indices) \in Nat
  BY DEF CompensationSucceeds, IndInv, TypeOK, RunOK, build
<1>2. TypeOK'
  BY <1>1 DEF CompensationSucceeds, IndInv, TypeOK, build, control
<1>3. applied' = 1..(left - 1)
  BY <1>1
<1> QED BY <1>1, <1>2, <1>3 DEF IndInv, RunOK

\* Every step keeps the invariant.
LEMMA SagaStep == IndInv /\ [Next]_vars => IndInv'
<1> SUFFICES ASSUME IndInv, [Next]_vars PROVE IndInv'
  OBVIOUS
<1> USE DEF IndInv, TypeOK, RunOK, build, control
<1>1. CASE ForwardFails
  BY <1>1 DEF ForwardFails, AtStep
<1>2. CASE GiveUp
  BY <1>2 DEF GiveUp, AtStep
<1>3. CASE Commit \/ CompensationFails \/ RolledBack
  BY <1>3 DEF Commit, CompensationFails, RolledBack
<1>4. CASE UNCHANGED vars
  BY <1>4 DEF vars
<1>5. ASSUME NEW n \in Retries \cup {0},
             Call("execute", n) \/ Call("execute_with_retry", n)
      PROVE  IndInv'
  BY <1>5, CallStep, RetriesAssumption
<1> QED
  BY <1>1, <1>2, <1>3, <1>4, <1>5, BuildStep, ForwardStep, CompensationStep DEF Next, Run

\* At every moment of every saga the steps in effect are a prefix of it:
\* compensation is in reverse order and complete as far as it goes.
THEOREM RollbackIsReverse == Spec => []PrefixInEffect
<1>1. IndInv => PrefixInEffect
  BY DEF IndInv, RunOK, PrefixInEffect
<1> QED BY <1>1, SagaInit, SagaStep, PTL DEF Spec

\* The result of execute never misreports what is left in effect.
THEOREM ExecuteIsHonest == Spec => ExecuteTellsTheTruth
<1> DEFINE Truth == mode = "execute" /\ pc # "idle" /\ pc' = "idle" =>
                      /\ result' = "ok" => applied = 1..Len(steps)
                      /\ result' = "failed" => applied = {}
                      /\ result' = "compensation_failed" => applied # {}
<1>1. ASSUME IndInv, Run PROVE Truth
  <2>1. CASE Commit
    <3>1. i = Len(steps) + 1 /\ result' = "ok" /\ applied = 1..(i - 1)
      BY <1>1, <2>1 DEF Commit, IndInv, TypeOK, RunOK
    <3> QED BY <3>1 DEF IndInv, TypeOK
  <2>2. CASE CompensationFails
    <3>1. left \in Nat \ {0} /\ applied = 1..left
      BY <1>1, <2>2 DEF CompensationFails, IndInv, TypeOK, RunOK
    <3>2. 1 \in applied
      BY <3>1
    <3> QED BY <2>2, <3>2 DEF CompensationFails
  <2>3. CASE RolledBack
    BY <1>1, <2>3 DEF RolledBack, IndInv, RunOK
  <2>4. CASE ForwardSucceeds \/ ForwardFails \/ GiveUp \/ CompensationSucceeds
    BY <2>4 DEF ForwardSucceeds, ForwardFails, GiveUp, CompensationSucceeds, AtStep
  <2> QED BY <1>1, <2>1, <2>2, <2>3, <2>4 DEF Run
<1>2. ASSUME Next, ~Run PROVE Truth
  BY <1>2 DEF Next, register, step, step_by_name, Building, Call
<1>3. IndInv /\ [Next]_vars => [Truth]_vars
  BY <1>1, <1>2
<1>4. Spec => [][Truth]_vars
  BY <1>3, SagaInit, SagaStep, PTL DEF Spec
<1> QED BY <1>4 DEF ExecuteTellsTheTruth

\* The state of every saga is well typed.
THEOREM SagaTypeCorrect == Spec => []TypeOK
<1>1. IndInv => TypeOK
  BY DEF IndInv
<1> QED BY <1>1, SagaInit, SagaStep, PTL DEF Spec

-----------------------------------------------------------------------------
\* The forward calls of a step are the attempts that retry_until has counted, and
\* it counts no more than it allows.
AttemptsOK ==
    /\ pc = "forward" =>
         calls = attempt /\ attempt <= (IF max_retry < 0 THEN 0 ELSE max_retry + 1)
    /\ CompensatesAfterRetries

\* No step makes an attempt too many, and giving up means there is none left.
LEMMA AttemptsStep == IndInv /\ AttemptsOK /\ [Next]_vars => AttemptsOK'
<1> SUFFICES ASSUME IndInv, AttemptsOK, [Next]_vars PROVE AttemptsOK'
  OBVIOUS
<1>0. max_retry \in Int /\ attempt \in Nat /\ calls \in Nat
  BY DEF IndInv, TypeOK
<1> USE DEF AttemptsOK, CompensatesAfterRetries
<1>1. CASE (\E n \in Names : register(n) \/ step_by_name(n)) \/ step
  BY <1>1 DEF register, step_by_name, step, Building, control
<1>2. ASSUME NEW n \in Retries \cup {0},
             Call("execute", n) \/ Call("execute_with_retry", n)
      PROVE  AttemptsOK'
  BY <1>2, RetriesAssumption DEF Call
<1>3. CASE ForwardSucceeds
  BY <1>0, <1>3 DEF ForwardSucceeds, AtStep, control
<1>4. CASE ForwardFails
  BY <1>0, <1>4 DEF ForwardFails, AtStep, control
<1>5. CASE GiveUp
  BY <1>0, <1>5 DEF GiveUp, AtStep, control
<1>6. CASE Commit \/ CompensationFails \/ RolledBack \/ CompensationSucceeds
  BY <1>6 DEF Commit, CompensationFails, RolledBack, CompensationSucceeds, control
<1>7. CASE UNCHANGED vars
  BY <1>7 DEF vars, control
<1> QED BY <1>1, <1>2, <1>3, <1>4, <1>5, <1>6, <1>7 DEF Next, Run

\* Compensation begins after exactly the attempts that max_retry allows, zero and
\* negative values included.
THEOREM RetriesAreExact == Spec => []CompensatesAfterRetries
<1>1. Init => AttemptsOK
  BY DEF Init, AttemptsOK, CompensatesAfterRetries
<1>2. AttemptsOK => CompensatesAfterRetries
  BY DEF AttemptsOK
<1> QED BY <1>1, <1>2, SagaInit, SagaStep, AttemptsStep, PTL DEF Spec

=============================================================================
