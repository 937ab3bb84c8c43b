--------------------------- MODULE PolledIoProofs ---------------------------
(***************************************************************************)
(* Proofs about PolledIo, for any capacity of the kernel's buffers, any    *)
(* number of units that pass and either poller.                            *)
(***************************************************************************)
EXTENDS PolledIo, TLAPS

\* While the handle is open the poller knows what handle.events says.
HandleOK == open => events = interest

\* The coroutines noted as waiting are the suspended ones, and their direction
\* is registered.
WaiterOK ==
    /\ waiter = {c \in Coroutines : at[c] = "wait"}
    /\ \A d \in Directions : open /\ at[d] = "wait" => d \in events

\* A coroutine is queued once, and one that waits is queued because it was
\* cancelled.
QueueOK ==
    /\ ready \cap batch = {}
    /\ \A c \in ready : at[c] = "wait" => cancelled[c]

\* What a coroutine waits for is not possible, or its own edge is still to be
\* reported, or it is queued.
EdgeOK ==
    \A d \in Directions :
      open /\ at[d] = "wait" /\ Possible(d) => d \in pending \cup ready \cup batch

\* A coroutine that was woken without being cancelled will find what it waits for.
Justified(c) ==
    IF c = "p" THEN process = "exited"
    ELSE open => Possible(c) \/ (c = "w" /\ hangup /\ poller = "epoll")

ReasonOK == \A c \in batch : at[c] = "wait" /\ ~ cancelled[c] => Justified(c)

IndInv ==
    /\ TypeOK /\ HandleOK /\ WaiterOK /\ QueueOK /\ EdgeOK /\ ReasonOK
    /\ WokenForAReason

-----------------------------------------------------------------------------
\* Nobody waits at the start.
LEMMA PolledInit == Init => IndInv
<1> SUFFICES ASSUME Init PROVE IndInv
  OBVIOUS
<1>1. amount \in [Directions -> 0 .. MaxReady] /\ passed \in [Directions -> 0 .. MaxUnits]
  BY PollerAssumption DEF Init, Directions
<1>2. TypeOK
  BY <1>1 DEF Init, TypeOK, Directions, Coroutines
<1>3. HandleOK /\ WaiterOK /\ QueueOK /\ EdgeOK /\ ReasonOK /\ WokenForAReason
  BY DEF Init, HandleOK, WaiterOK, QueueOK, EdgeOK, ReasonOK, WokenForAReason,
         Directions, Coroutines
<1> QED BY <1>2, <1>3 DEF IndInv

\* An edge for a registered direction is kept for the coroutine that waits.
LEMMA UnitReadyStep ==
    ASSUME IndInv, NEW d \in Directions, UnitReady(d)
    PROVE  IndInv'
<1> USE DEF IndInv, UnitReady, handle, coros
<1>1. TypeOK'
  BY PollerAssumption DEF TypeOK, Directions
<1>2. HandleOK' /\ WaiterOK' /\ QueueOK' /\ WokenForAReason'
  BY DEF HandleOK, WaiterOK, QueueOK, WokenForAReason
<1>3. \A e \in Directions : Possible(e) => Possible(e)'
  BY DEF Possible, TypeOK, Directions
<1>4. EdgeOK'
  BY DEF EdgeOK, HandleOK, WaiterOK, Possible, TypeOK, Directions
<1>5. ReasonOK'
  BY <1>3 DEF ReasonOK, Justified, TypeOK, Coroutines, Directions
<1> QED BY <1>1, <1>2, <1>4, <1>5

LEMMA HangupStep ==
    ASSUME IndInv, Hangup
    PROVE  IndInv'
<1> USE DEF IndInv, Hangup, handle, coros
<1>1. TypeOK'
  BY DEF TypeOK, Directions
<1>2. HandleOK' /\ WaiterOK' /\ QueueOK' /\ WokenForAReason'
  BY DEF HandleOK, WaiterOK, QueueOK, WokenForAReason
<1>3. \A e \in Directions : Possible(e) => Possible(e)'
  BY DEF Possible, TypeOK, Directions
<1>4. EdgeOK'
  BY DEF EdgeOK, HandleOK, WaiterOK, Possible, TypeOK, Directions
<1>5. ReasonOK'
  BY <1>3 DEF ReasonOK, Justified, TypeOK, Coroutines, Directions
<1> QED BY <1>1, <1>2, <1>4, <1>5

\* The steps of the child, of other coroutines and of nobody.
LEMMA OutsideStep ==
    ASSUME IndInv, Exit \/ close \/ UNCHANGED vars \/ \E c \in Coroutines : Cancel(c)
    PROVE  IndInv'
<1> USE DEF IndInv, TypeOK, HandleOK, WaiterOK, QueueOK, EdgeOK, ReasonOK, Justified,
            WokenForAReason, Possible
<1>1. CASE Exit
  BY <1>1 DEF Exit, handle, coros
<1>2. CASE close
  BY <1>2 DEF close, coros
<1>3. CASE UNCHANGED vars
  BY <1>3 DEF vars, kernel, handle, coros
<1>4. ASSUME NEW c \in Coroutines, Cancel(c) PROVE IndInv'
  BY <1>4 DEF Cancel, kernel, handle
<1> QED BY <1>1, <1>2, <1>3, <1>4

\* The poller reports everything a coroutine waits for whose edge is pending, and
\* nothing else, but for the hang-up that epoll reports to the writer too.
LEMMA PollStep ==
    ASSUME IndInv, poll
    PROVE  IndInv'
<1> USE DEF IndInv, poll, handle
<1>1. TypeOK'
  BY DEF TypeOK, Woken
<1>2. HandleOK' /\ WaiterOK' /\ QueueOK' /\ WokenForAReason'
  BY DEF HandleOK, WaiterOK, QueueOK, WokenForAReason
<1>3. \A d \in Directions : Possible(d)' = Possible(d)
  BY DEF Possible
<1>4. ASSUME NEW d \in Directions, open, at[d] = "wait", Possible(d)
      PROVE  d \in batch'
  <2>1. d \in pending \cup ready /\ d \in waiter /\ d \in interest
    BY <1>4 DEF EdgeOK, HandleOK, WaiterOK, Coroutines
  <2>2. d \in pending => d \in Reported
    BY <1>4, <2>1 DEF Reported, EpollEvents, KqueueEvents, Now
  <2> QED BY <2>1, <2>2 DEF Woken
<1>5. EdgeOK'
  BY <1>3, <1>4 DEF EdgeOK
<1>6. ASSUME NEW c \in batch', at[c] = "wait", ~ cancelled[c]
      PROVE  Justified(c)
  <2>1. c \notin ready
    BY <1>6 DEF QueueOK
  <2>2. CASE c \in Woken
    BY <2>2, PollerAssumption
       DEF Woken, Reported, EpollEvents, KqueueEvents, Now, Justified, Possible,
           TypeOK, Directions
  <2>3. CASE c \notin Woken
    BY <1>6, <2>1, <2>3 DEF Justified
  <2> QED BY <2>2, <2>3
<1>7. ReasonOK'
  BY <1>6 DEF ReasonOK, Justified, Possible
<1> QED BY <1>1, <1>2, <1>5, <1>7

\* A first try: what is not possible is registered before the coroutine waits.
LEMMA OperationStep ==
    ASSUME IndInv, NEW d \in Directions, Operation(d)
    PROVE  IndInv'
<1>0. /\ d \in batch /\ at[d] = "run" /\ d \in Coroutines
      /\ UNCHANGED <<poller, passed, hangup, process, watched, open, cancelled>>
      /\ batch' = batch \ {d}
  BY DEF Operation, Runs, Ends, Leaves, kernel, handle, Coroutines
<1>1. CASE cancelled[d] /\ Ends(d, "Cancelled") /\ UNCHANGED <<kernel, handle, cancelled>>
  BY <1>0, <1>1 DEF IndInv, TypeOK, HandleOK, WaiterOK, QueueOK, EdgeOK, ReasonOK,
     Justified, Possible, WokenForAReason, Ends, Leaves, kernel, handle, Directions
<1>2. CASE ~ cancelled[d] /\ open /\ poll_register(d)
  <2>1. /\ events' = events \cup {d} /\ events' \subseteq Directions
        /\ interest' = interest \cup {d}
        /\ pending \subseteq pending' /\ pending' \subseteq interest'
    BY <1>2, PollerAssumption
       DEF poll_register, EpollRegister, KqueueRegister, IndInv, TypeOK, HandleOK
  <2>2. CASE Possible(d) /\ UNCHANGED <<waiter, result>>
             /\ amount' = [amount EXCEPT ![d] = IF @ > 0 THEN @ - 1 ELSE 0]
             /\ \E a \in {"pause", "run"} : Leaves(d, a, TRUE)
    BY <1>0, <1>2, <2>1, <2>2, PollerAssumption
       DEF IndInv, TypeOK, HandleOK, WaiterOK, QueueOK, EdgeOK, ReasonOK, Justified,
           Possible, WokenForAReason, Leaves, Directions
  <2>4. CASE Ends(d, "error") /\ UNCHANGED <<amount, waiter>>
    BY <1>0, <1>2, <2>1, <2>4
       DEF IndInv, TypeOK, HandleOK, WaiterOK, QueueOK, EdgeOK, ReasonOK, Justified,
           Possible, WokenForAReason, Ends, Leaves, Directions
  <2>3. CASE ~ Possible(d) /\ waiter' = waiter \cup {d} /\ Leaves(d, "wait", FALSE)
             /\ UNCHANGED <<amount, result>>
    BY <1>0, <1>2, <2>1, <2>3
       DEF IndInv, TypeOK, HandleOK, WaiterOK, QueueOK, EdgeOK, ReasonOK, Justified,
           Possible, WokenForAReason, Leaves, Directions
  <2> QED BY <1>1, <1>2, <2>2, <2>3, <2>4 DEF Operation
<1> QED BY <1>1, <1>2 DEF Operation

\* Registration fails, the pause is over, or a coroutine is through.
LEMMA ReturnStep ==
    ASSUME IndInv, NEW c \in Coroutines,
           (c \in Directions /\ (RegisterFails(c) \/ AfterPause(c))) \/ Return(c)
    PROVE  IndInv'
<1>1. /\ c \in batch /\ at[c] # "wait" /\ UNCHANGED <<kernel, handle, cancelled>>
      /\ \E a \in {"run", "end"} : Leaves(c, a, a = "run")
      /\ result' = result \/ \E r \in {"value", "error", "Cancelled"} :
                                result' = [result EXCEPT ![c] = r]
  BY DEF RegisterFails, AfterPause, Return, Ends, Leaves, Runs
<1> QED
  BY <1>1 DEF IndInv, TypeOK, HandleOK, WaiterOK, QueueOK, EdgeOK, ReasonOK, Justified,
     Possible, WokenForAReason, Leaves, kernel, handle, Directions, Coroutines

\* The second try finds what the coroutine was woken for.
LEMMA AfterWaitStep ==
    ASSUME IndInv, NEW d \in Directions, AfterWait(d)
    PROVE  IndInv'
<1> USE DEF IndInv
<1>0. /\ d \in batch /\ at[d] = "wait" /\ d \in Coroutines /\ d # "p"
      /\ waiter' = waiter \ {d} /\ batch' = batch \ {d}
      /\ UNCHANGED <<poller, passed, hangup, interest, pending, process, watched, events,
                     open, cancelled>>
  BY DEF AfterWait, Runs, Ends, Leaves, Directions, Coroutines
<1>1. /\ amount' \in [Directions -> 0 .. MaxReady]
      /\ \A e \in Directions \ {d} : amount'[e] = amount[e]
  <2>1. amount' = amount \/ amount' = [amount EXCEPT ![d] = IF @ > 0 THEN @ - 1 ELSE 0]
    BY DEF AfterWait
  <2> QED BY <2>1, PollerAssumption DEF TypeOK
<1>2. \E a \in {"run", "end"} : Leaves(d, a, a = "run")
  BY DEF AfterWait, Ends
<1>3. result' = result \/ \E r \in {"error", "Cancelled", "EAGAIN"} :
         /\ result' = [result EXCEPT ![d] = r]
         /\ r = "EAGAIN" => ~ cancelled[d] /\ open /\ ~ Possible(d)
  BY DEF AfterWait, Ends
<1>4. TypeOK' /\ HandleOK' /\ WaiterOK' /\ QueueOK'
  BY <1>0, <1>1, <1>2, <1>3 DEF TypeOK, HandleOK, WaiterOK, QueueOK, Leaves
<1>5. EdgeOK' /\ ReasonOK'
  BY <1>0, <1>1, <1>2 DEF TypeOK, EdgeOK, ReasonOK, Justified, Possible, Leaves,
     Directions, Coroutines
<1>6. WokenForAReason'
  BY <1>0, <1>3 DEF WokenForAReason, ReasonOK, Justified, TypeOK, Coroutines, Directions
<1> QED BY <1>4, <1>5, <1>6

\* waitpid is called only for a child that has exited.
LEMMA ProcessStep ==
    ASSUME IndInv, wait_pid \/ AfterWaitPid
    PROVE  IndInv'
<1> USE DEF IndInv
<1>0. /\ "p" \in batch /\ batch' = batch \ {"p"} /\ "p" \in Coroutines
      /\ UNCHANGED <<poller, amount, passed, hangup, interest, pending, events, open,
                     cancelled>>
  BY DEF wait_pid, AfterWaitPid, Runs, get_process_result, Ends, Leaves, Coroutines
<1>1. \/ Leaves("p", "wait", FALSE) /\ waiter' = waiter \cup {"p"} /\ result' = result
         /\ process' = process /\ watched' = TRUE
      \/ Leaves("p", "end", FALSE) /\ waiter' = waiter \ {"p"}
         /\ process' \in {process, "reaped"} /\ watched' \in {watched, FALSE}
         /\ \E r \in {"value", "error", "Cancelled"} : result' = [result EXCEPT !["p"] = r]
  <2>1. CASE AfterWaitPid
    <3>1. ~ cancelled["p"] => process = "exited"
      BY <1>0, <2>1 DEF AfterWaitPid, ReasonOK, Justified
    <3> QED BY <2>1, <3>1 DEF AfterWaitPid, get_process_result, Ends
  <2>2. CASE wait_pid
    <3>1. "p" \notin waiter
      BY <2>2 DEF wait_pid, WaiterOK
    <3> QED BY <2>2, <3>1 DEF wait_pid, AlreadyTerminated, get_process_result, Ends
  <2> QED BY <2>1, <2>2
<1>2. TypeOK'
  <2>1. watched' \in BOOLEAN /\ process' \in {"none", "running", "exited", "reaped"}
    BY <1>1 DEF TypeOK
  <2>2. at' \in [Coroutines -> {"run", "pause", "wait", "end"}]
    BY <1>1 DEF TypeOK, Leaves
  <2>3. waiter' \subseteq Coroutines /\ ready' \subseteq Coroutines
    BY <1>0, <1>1 DEF TypeOK, Leaves
  <2>4. result' \in [Coroutines -> {"none", "value", "EAGAIN", "error", "Cancelled",
                                    "blocked"}]
    BY <1>1 DEF TypeOK
  <2> QED BY <1>0, <2>1, <2>2, <2>3, <2>4 DEF TypeOK
<1>4. HandleOK' /\ WaiterOK' /\ QueueOK'
  <2>1. \A d \in Directions : at'[d] = at[d]
    BY <1>1 DEF TypeOK, Leaves, Directions, Coroutines
  <2>2. waiter' = {c \in Coroutines : at'[c] = "wait"}
    <3>1. \A c \in Coroutines \ {"p"} : at'[c] = at[c]
      BY <1>1 DEF TypeOK, Leaves
    <3>2. \/ at'["p"] = "wait" /\ waiter' = waiter \cup {"p"}
          \/ at'["p"] = "end" /\ waiter' = waiter \ {"p"}
      BY <1>0, <1>1 DEF TypeOK, Leaves
    <3> QED BY <1>0, <3>1, <3>2 DEF WaiterOK
  <2>3. WaiterOK'
    BY <1>0, <2>1, <2>2 DEF WaiterOK
  <2> QED BY <1>0, <1>1, <2>3 DEF TypeOK, HandleOK, QueueOK, Leaves
<1>3. EdgeOK' /\ ReasonOK' /\ WokenForAReason'
  BY <1>0, <1>1 DEF TypeOK, EdgeOK, ReasonOK, Justified, Possible, WokenForAReason,
     Leaves, Directions, Coroutines
<1> QED BY <1>2, <1>3, <1>4

\* Every step keeps the invariant.
LEMMA PolledStep == IndInv /\ [Next]_vars => IndInv'
<1> SUFFICES ASSUME IndInv, [Next]_vars PROVE IndInv'
  OBVIOUS
<1>1. ASSUME NEW d \in Directions PROVE d \in Coroutines
  BY DEF Coroutines
<1> QED
  BY <1>1, UnitReadyStep, HangupStep, OutsideStep, PollStep, OperationStep, ReturnStep,
     AfterWaitStep, ProcessStep DEF Next, LoopStep, Idle

LEMMA PolledInvariant == Spec => []IndInv
BY PolledInit, PolledStep, PTL DEF Spec

\* The state of handle, kernel and coroutines is well typed.
THEOREM PolledTypeCorrect == Spec => []TypeOK
<1>1. IndInv => TypeOK
  BY DEF IndInv
<1> QED BY <1>1, PolledInvariant, PTL

\* No wake-up is lost, although events are edge-triggered and the poller may have
\* reported an edge before anybody waits for it.
THEOREM WakeupsAreKept == Spec => []NoLostWakeup
<1>1. IndInv => NoLostWakeup
  BY DEF IndInv, WaiterOK, EdgeOK, NoLostWakeup
<1> QED BY <1>1, PolledInvariant, PTL

\* Nobody is woken in vain but for the hang-up of epoll, and waitpid never blocks
\* the loop.
THEOREM WakeupsAreJustified == Spec => []WokenForAReason
<1>1. IndInv => WokenForAReason
  BY DEF IndInv
<1> QED BY <1>1, PolledInvariant, PTL

=============================================================================
