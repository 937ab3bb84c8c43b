------------------------- MODULE OverlappedIoProofs -------------------------
(***************************************************************************)
(* Proofs about OverlappedIo, for any operations and any heap.  What holds *)
(* until an IoResult is freed while its packet is queued has the premise   *)
(* early = {}; the rest holds always.                                      *)
(***************************************************************************)
EXTENDS OverlappedIo, TLAPS

\* The operation holds an IoResult, and waits for its packet.
Live(o)    == at[o] \notin {"start", "end"}
Blocked(o) == at[o] \in {"wait", "shield", "raise"}

\* The IoResult an operation holds names it; so no two operations hold the same.
AddrOK == \A o \in Ops : Live(o) => addr[o] \in Addrs /\ job_id[addr[o]] = o

\* The kernel has not heard of an operation that is not submitted, and one that
\* succeeded at once is done.
StartOK ==
    \A o \in Ops :
      /\ at[o] = "start" => kern[o] = "none" /\ result[o] = "none" /\ o \notin packets
      /\ at[o] = "pause" => kern[o] = "done"
      /\ kern[o] = "pending" => addr[o] \in Addrs

\* A packet tells of an operation that is over, and whose coroutine waits.
PacketOK ==
    \A o \in packets :
      addr[o] \in Addrs /\ kern[o] \in Outcome /\ (early = {} => Blocked(o))

\* A coroutine is queued once.  One that is queued and waits was cancelled, and
\* one that is shielded is not queued by others.
QueueOK ==
    /\ ready \cap batch = {}
    /\ \A o \in ready : at[o] \notin {"shield", "raise"} /\ (at[o] = "wait" => cancelled[o])

\* A coroutine that was woken without being cancelled has an operation that is over.
WokenOK ==
    \A o \in batch : at[o] \in {"shield", "raise"} \/ (at[o] = "wait" /\ ~ cancelled[o])
                       => kern[o] # "pending"

\* What the kernel has written is what the operation will read.
StatusOK ==
    \A o \in Ops : /\ kern[o] = "pending" => Blocked(o)
                   /\ Live(o) => status[addr[o]] = kern[o]

IndInv ==
    /\ TypeOK /\ AddrOK /\ StartOK /\ PacketOK /\ QueueOK
    /\ early = {} => WokenOK /\ StatusOK
    /\ ValueIsReal

-----------------------------------------------------------------------------
(* Facts about the heap. *)

\* allocated, in the form the proofs use.
LEMMA Allocated ==
    ASSUME TypeOK
    PROVE  /\ \A o \in Ops : Live(o) => addr[o] \in allocated
           /\ \A a \in allocated : \E o \in Ops : Live(o) /\ addr[o] = a
BY DEF TypeOK, Live

LEMMA AllocatedIs ==
    ASSUME NEW as,
           \A o \in Ops : Live(o)' => addr'[o] \in as,
           \A a \in as : \E o \in Ops : Live(o)' /\ addr'[o] = a
    PROVE  as = {addr'[o] : o \in {p \in Ops : at'[p] \notin {"start", "end"}}}
BY DEF Live

\* Nothing is submitted at the start.
LEMMA OverlappedInit == Init => IndInv
<1> SUFFICES ASSUME Init PROVE IndInv
  OBVIOUS
<1>1. TypeOK
  BY DEF Init, TypeOK, Outcome
<1>2. AddrOK /\ StartOK /\ PacketOK /\ QueueOK /\ WokenOK /\ StatusOK /\ ValueIsReal
  BY DEF Init, AddrOK, StartOK, PacketOK, QueueOK, WokenOK, StatusOK, ValueIsReal, Live
<1> QED BY <1>1, <1>2 DEF IndInv

\* The kernel ends an operation.
LEMMA CompleteStep ==
    ASSUME IndInv, NEW o \in Ops, NEW outcome \in Outcome, Complete(o, outcome),
           fds' \subseteq Ops, UNCHANGED <<kind, asked, addr, allocated, job_id, early, coros>>
    PROVE  IndInv'
<1> USE DEF IndInv, coros
<1>1. /\ kern[o] = "pending" /\ addr[o] \in Addrs /\ packets' = packets \cup {o}
      /\ kern' = [kern EXCEPT ![o] = outcome]
      /\ status' = [status EXCEPT ![addr[o]] = outcome]
  BY DEF Complete, StartOK
<1>2. TypeOK'
  BY <1>1 DEF TypeOK, Outcome
<1>3. AddrOK' /\ QueueOK'
  BY DEF AddrOK, QueueOK, Live
<1>4. StartOK' /\ ValueIsReal'
  BY <1>1 DEF StartOK, ValueIsReal, TypeOK, Outcome
<1>5. early = {} => WokenOK' /\ StatusOK'
  <2> HAVE early = {}
  <2>1. WokenOK'
    BY <1>1 DEF WokenOK, TypeOK, Outcome
  <2>2. \A p \in Ops \ {o} : Live(p) => addr[p] # addr[o]
    BY <1>1 DEF AddrOK, StatusOK, Blocked, Live
  <2> QED BY <1>1, <2>1, <2>2 DEF StatusOK, Blocked, Live, TypeOK, Outcome
<1>6. PacketOK'
  BY <1>1 DEF PacketOK, Blocked, TypeOK, StatusOK
<1> QED BY <1>2, <1>3, <1>4, <1>5, <1>6

\* A step that changes nothing but what is registered.
LEMMA QuietStep ==
    ASSUME IndInv, UNCHANGED <<kind, kernel, memory, coros>>, fds' \subseteq Ops
    PROVE  IndInv'
BY DEF IndInv, TypeOK, AddrOK, StartOK, PacketOK, QueueOK, WokenOK, StatusOK, ValueIsReal,
       Live, Blocked, kernel, memory, coros

-----------------------------------------------------------------------------
(* The event loop. *)

\* poll wakes only coroutines whose own packet it took, unless an IoResult was
\* freed early.
LEMMA PollStep ==
    ASSUME IndInv, poll
    PROVE  IndInv'
<1> USE DEF IndInv
<1>1. PICK kept \in SUBSET (packets \ fds) :
        batch' = ready \cup {j \in {job_id[addr[o]] : o \in (packets \cap fds) \cup kept} :
                               Waiting(j)}
  BY DEF poll
<1>2. /\ batch = {} /\ ready' = {} /\ packets' = {}
      /\ UNCHANGED <<kind, kern, asked, memory, fds, at, cancelled, result>>
  BY DEF poll
<1>3. ASSUME NEW j \in batch', j \notin ready
      PROVE  j \in Ops /\ Blocked(j) /\ (early = {} => kern[j] \in Outcome)
  <2>1. PICK o \in packets : j = job_id[addr[o]] /\ Waiting(j)
    BY <1>1, <1>3
  <2>2. j \in Ops /\ Blocked(j)
    BY <2>1 DEF PacketOK, TypeOK, Waiting, Blocked
  <2>3. early = {} => j = o
    BY <2>1 DEF PacketOK, AddrOK, Blocked, Live, TypeOK
  <2> QED BY <2>2, <2>3 DEF PacketOK
<1>4. TypeOK'
  BY <1>2, <1>3 DEF TypeOK, memory
<1>5. AddrOK' /\ StartOK' /\ PacketOK' /\ QueueOK' /\ ValueIsReal'
  BY <1>2 DEF AddrOK, StartOK, PacketOK, QueueOK, ValueIsReal, Live, memory
<1>6. early = {} => WokenOK'
  BY <1>2, <1>3 DEF QueueOK, WokenOK, memory, Outcome
<1>7. early = {} => StatusOK'
  BY <1>2 DEF StatusOK, Live, Blocked, memory
<1> QED BY <1>2, <1>4, <1>5, <1>6, <1>7 DEF memory

\* The submissions have three outcomes.
LEMMA SubmitKinds ==
    ASSUME NEW o \in Ops,
           read(o) \/ write(o) \/ connect(o) \/ accept(o) \/ read_dir_changes(o)
    PROVE  /\ o \in batch /\ at[o] = "start" /\ UNCHANGED <<kind, asked, fds, cancelled>>
           /\ \/ \E a \in Addrs : Pending(o, a) \/ Immediate(o, a)
              \/ \E k \in {"none", "done", "failed"}, r \in {"value", "error"} :
                   Returns(o, k, r) /\ (r = "value" => k = "done")
BY DEF read, write, connect, accept, read_dir_changes, Submits, Runs, setup_socket

\* A submitted operation gets a block of its own.
LEMMA PendingStep ==
    ASSUME IndInv, NEW o \in Ops, NEW a \in Addrs,
           o \in batch, at[o] = "start", UNCHANGED <<kind, asked, fds, cancelled>>,
           Pending(o, a) \/ Immediate(o, a)
    PROVE  IndInv'
<1> USE DEF IndInv
<1>1. PICK k \in {"pending", "done"} :
      /\ kern' = [kern EXCEPT ![o] = k] /\ status' = [status EXCEPT ![a] = k]
      /\ at' = [at EXCEPT ![o] = IF k = "pending" THEN "wait" ELSE "pause"]
      /\ batch' = batch \ {o} /\ ready' = (IF k = "pending" THEN ready ELSE ready \cup {o})
      /\ UNCHANGED <<result, early, packets>>
  BY DEF Pending, Immediate, Suspend
<1>2. /\ a \notin allocated /\ addr' = [addr EXCEPT ![o] = a]
      /\ allocated' = allocated \cup {a} /\ job_id' = [job_id EXCEPT ![a] = o]
  BY DEF Pending, Immediate, make_io_result
<1>3. /\ \A p \in Ops \ {o} : Live(p)' = Live(p) /\ addr'[p] = addr[p] /\ kern'[p] = kern[p]
                             /\ Blocked(p)' = Blocked(p)
      /\ Live(o)' /\ ~ Live(o) /\ addr'[o] = a /\ kern'[o] = k /\ status'[a] = k
      /\ k = "pending" => Blocked(o)'
  BY <1>1, <1>2 DEF TypeOK, Live, Blocked
<1>4. \A p \in Ops \ {o} : Live(p) => addr[p] # a
  BY <1>2, Allocated
<1>5. allocated' = {addr'[p] : p \in {q \in Ops : at'[q] \notin {"start", "end"}}}
  BY <1>2, <1>3, Allocated, AllocatedIs
<1>6. TypeOK'
  BY <1>1, <1>2, <1>5 DEF TypeOK, Outcome
<1>7. AddrOK'
  BY <1>2, <1>3, <1>4 DEF AddrOK, TypeOK
<1>8. o \notin packets /\ kern[o] = "none" /\ result[o] = "none"
  BY DEF StartOK
<1>9. StartOK'
  BY <1>1, <1>3, <1>8 DEF StartOK, TypeOK
<1>10. PacketOK'
  BY <1>1, <1>3, <1>8 DEF PacketOK, TypeOK
<1>11. QueueOK'
  BY <1>1 DEF QueueOK, TypeOK
<1>12. early = {} => WokenOK' /\ StatusOK'
  BY <1>1, <1>3, <1>4 DEF WokenOK, StatusOK, AddrOK, TypeOK
<1>13. ValueIsReal'
  BY <1>1, <1>8 DEF ValueIsReal, TypeOK
<1> QED BY <1>1, <1>6, <1>7, <1>9, <1>10, <1>11, <1>12, <1>13

\* A coroutine ends before anything was submitted, or with the call.
LEMMA ReturnsStep ==
    ASSUME IndInv, NEW o \in Ops, o \in batch, at[o] = "start",
           NEW k \in {"none", "done", "failed"}, NEW r \in {"value", "error", "Cancelled"},
           r = "value" => k = "done",
           kern' = [kern EXCEPT ![o] = k], Ends(o, r),
           UNCHANGED <<kind, asked, fds, cancelled, packets, memory>>
    PROVE  IndInv'
<1> USE DEF IndInv, Ends, memory
<1>1. \A p \in Ops : Live(p)' = Live(p)
  BY DEF TypeOK, Live
<1>2. \A p \in Ops \ {o} : /\ kern'[p] = kern[p] /\ at'[p] = at[p] /\ result'[p] = result[p]
                          /\ Blocked(p)' = Blocked(p)
  BY DEF TypeOK, Blocked
<1>3. allocated' = {addr'[p] : p \in {q \in Ops : at'[q] \notin {"start", "end"}}}
  BY <1>1, Allocated, AllocatedIs
<1>4. TypeOK'
  BY <1>3 DEF TypeOK, Outcome
<1>5. o \notin packets /\ ~ Live(o) /\ kern'[o] = k /\ result'[o] = r /\ at'[o] = "end"
  BY DEF StartOK, Live, TypeOK
<1>6. AddrOK' /\ StartOK' /\ QueueOK'
  BY <1>1, <1>2, <1>5 DEF AddrOK, StartOK, QueueOK, TypeOK
<1>7. PacketOK'
  BY <1>2, <1>5 DEF PacketOK, TypeOK
<1>8. early = {} => WokenOK' /\ StatusOK'
  BY <1>1, <1>2, <1>5 DEF WokenOK, StatusOK, TypeOK
<1>9. ValueIsReal'
  BY <1>2, <1>5 DEF ValueIsReal
<1> QED BY <1>4, <1>6, <1>7, <1>8, <1>9

\* A coroutine ends and frees its IoResult.  The operation may have been completed
\* in this step, and is over unless an IoResult was freed early.
LEMMA EndsFreeStep ==
    ASSUME IndInv, NEW o \in Ops, o \in batch, Live(o),
           NEW r \in {"value", "error", "Cancelled"}, EndsFree(o, r),
           UNCHANGED <<kind, asked, fds, cancelled>>,
           \/ UNCHANGED <<kern, packets, status>>
           \/ \E outcome \in Outcome : Complete(o, outcome),
           early = {} => kern'[o] # "pending" /\ (r = "value" => kern'[o] = "done")
    PROVE  IndInv'
<1> USE DEF IndInv
<1>1. /\ at' = [at EXCEPT ![o] = "end"] /\ batch' = batch \ {o}
      /\ result' = [result EXCEPT ![o] = r] /\ UNCHANGED <<ready, addr, job_id>>
      /\ allocated' = allocated \ {addr[o]} /\ early' = early \cup ({o} \cap packets')
  BY DEF EndsFree, Ends, free_io_result
<1>2. addr[o] \in Addrs /\ \A p \in Ops \ {o} : Live(p) => addr[p] # addr[o]
  BY DEF AddrOK
<1>3. /\ \A p \in Ops \ {o} : /\ Live(p)' = Live(p) /\ Blocked(p)' = Blocked(p)
                             /\ at'[p] = at[p] /\ result'[p] = result[p]
      /\ ~ Live(o)' /\ at'[o] = "end" /\ result'[o] = r
  BY <1>1 DEF TypeOK, Live, Blocked
<1>4. /\ \A p \in Ops \ {o} : kern'[p] = kern[p] /\ (p \in packets' <=> p \in packets)
      /\ o \in packets' => kern'[o] \in Outcome
      /\ \A p \in Ops \ {o} : Live(p) => status'[addr[p]] = status[addr[p]]
      /\ kern' \in [Ops -> {"none", "pending"} \cup Outcome]
      /\ status' \in [Addrs -> {"none", "pending"} \cup Outcome] /\ packets' \subseteq Ops
  BY <1>2 DEF Complete, TypeOK, PacketOK, AddrOK
<1>5. allocated' = {addr'[p] : p \in {q \in Ops : at'[q] \notin {"start", "end"}}}
  BY <1>1, <1>2, <1>3, Allocated, AllocatedIs
<1>6. TypeOK'
  BY <1>1, <1>4, <1>5 DEF TypeOK
<1>7. AddrOK'
  BY <1>1, <1>3 DEF AddrOK
<1>8. StartOK'
  <2>1. ASSUME NEW p \in Ops \ {o}
        PROVE /\ at'[p] = "start" => kern'[p] = "none" /\ result'[p] = "none" /\ p \notin packets'
              /\ at'[p] = "pause" => kern'[p] = "done"
              /\ kern'[p] = "pending" => addr'[p] \in Addrs
    BY <1>1, <1>3, <1>4, <2>1 DEF StartOK
  <2> QED BY <1>1, <1>2, <1>3, <2>1 DEF StartOK
<1>9. PacketOK'
  BY <1>1, <1>2, <1>3, <1>4 DEF PacketOK
<1>10. QueueOK'
  BY <1>1, <1>3 DEF QueueOK, TypeOK
<1>11. early' = {} => early = {} /\ o \notin packets'
  BY <1>1
<1>12. early = {} => WokenOK' /\ StatusOK'
  BY <1>1, <1>3, <1>4 DEF WokenOK, StatusOK, TypeOK
<1>13. early = {} => \A p \in Ops : result'[p] = "value" => kern'[p] = "done"
  BY <1>3, <1>4 DEF ValueIsReal
<1> QED BY <1>6, <1>7, <1>8, <1>9, <1>10, <1>11, <1>12, <1>13 DEF ValueIsReal

\* A cancellation that has to wait for the packet.
LEMMA ShieldStep ==
    ASSUME IndInv, NEW o \in Ops, o \in batch, at[o] = "wait",
           NEW a \in {"shield", "raise"}, Suspend(o, a), asked' \subseteq Ops,
           UNCHANGED <<kind, fds, cancelled, kern, packets, memory>>
    PROVE  IndInv'
<1> USE DEF IndInv, Suspend, memory
<1>1. \A p \in Ops : Live(p)' = Live(p) /\ Blocked(p)' = Blocked(p)
  BY DEF TypeOK, Live, Blocked
<1>2. allocated' = {addr'[p] : p \in {q \in Ops : at'[q] \notin {"start", "end"}}}
  BY <1>1, Allocated, AllocatedIs
<1>3. TypeOK'
  BY <1>2 DEF TypeOK
<1>4. AddrOK' /\ StartOK' /\ PacketOK' /\ ValueIsReal'
  BY <1>1 DEF AddrOK, StartOK, PacketOK, ValueIsReal, TypeOK
<1>5. QueueOK'
  BY DEF QueueOK, TypeOK
<1>6. early = {} => WokenOK' /\ StatusOK'
  BY <1>1 DEF WokenOK, StatusOK, TypeOK
<1> QED BY <1>3, <1>4, <1>5, <1>6

\* Other coroutines spawn or cancel one.
LEMMA OthersStep ==
    ASSUME IndInv, NEW o \in Ops, spawn(o) \/ Cancel(o)
    PROVE  IndInv'
<1> USE DEF IndInv
<1>1. /\ UNCHANGED <<kind, kernel, memory, fds, at, result, batch>>
      /\ cancelled' \in [Ops -> BOOLEAN] /\ \A p \in Ops : cancelled[p] => cancelled'[p]
      /\ ready' = ready \/ (ready' = ready \cup {o} /\ o \notin batch
                            /\ at[o] \notin {"shield", "raise"}
                            /\ (at[o] = "wait" => cancelled'[o]))
  <2>1. CASE spawn(o)
    BY <2>1 DEF spawn, Spawned, TypeOK
  <2>2. CASE Cancel(o)
    <3>1. cancelled' = [cancelled EXCEPT ![o] = TRUE] /\ cancelled \in [Ops -> BOOLEAN]
      BY <2>2 DEF Cancel, TypeOK
    <3>2. cancelled' \in [Ops -> BOOLEAN] /\ cancelled'[o]
      BY <3>1
    <3>3. \A p \in Ops : cancelled[p] => cancelled'[p]
      BY <3>1
    <3>4. /\ UNCHANGED <<kind, kernel, memory, fds, at, result, batch>>
          /\ ready' = ready \/ (ready' = ready \cup {o} /\ o \notin batch
                                /\ at[o] \notin {"shield", "raise"})
      BY <2>2 DEF Cancel
    <3> QED BY <3>2, <3>3, <3>4, Zenon
  <2> QED BY <2>1, <2>2
<1>2. \A p \in Ops : Live(p)' = Live(p) /\ Blocked(p)' = Blocked(p)
  BY <1>1 DEF Live, Blocked
<1>3. TypeOK'
  BY <1>1 DEF TypeOK, kernel, memory
<1>4. AddrOK' /\ StartOK' /\ PacketOK' /\ ValueIsReal'
  BY <1>1, <1>2 DEF AddrOK, StartOK, PacketOK, ValueIsReal, kernel, memory, TypeOK
<1>5. QueueOK'
  BY <1>1 DEF QueueOK, TypeOK
<1>6. early = {} => WokenOK' /\ StatusOK'
  BY <1>1, <1>2 DEF WokenOK, StatusOK, TypeOK, kernel, memory
<1> QED BY <1>1, <1>3, <1>4, <1>5, <1>6 DEF memory

\* What IoResult::status makes of the outcome.
LEMMA StatusResults ==
    ASSUME NEW o \in Ops
    PROVE  /\ StatusResult(o) \subseteq {"value", "error", "Cancelled"}
           /\ "value" \in StatusResult(o) => status[addr[o]] = "done"
BY DEF StatusResult, setup_socket

\* Every step keeps the invariant.
LEMMA OverlappedStep == IndInv /\ [Next]_vars => IndInv'
<1> SUFFICES ASSUME IndInv, [Next]_vars PROVE IndInv'
  OBVIOUS
<1>1. CASE Idle \/ UNCHANGED vars
  BY <1>1, QuietStep DEF Idle, vars, IndInv, TypeOK
<1>2. ASSUME NEW o \in Ops, KernelCompletes(o) PROVE IndInv'
  <2>1. PICK outcome \in Outcome : Complete(o, outcome)
    BY <1>2 DEF KernelCompletes, Outcome
  <2> QED BY <1>2, <2>1, CompleteStep DEF KernelCompletes, IndInv, TypeOK
<1>3. ASSUME NEW o \in Ops, close(o) PROVE IndInv'
  <2>1. fds' \subseteq Ops /\ "aborted" \in Outcome
    BY <1>3 DEF close, IndInv, TypeOK, Outcome
  <2>2. CASE kern[o] = "pending"
    BY <1>3, <2>1, <2>2, CompleteStep DEF close
  <2>3. CASE kern[o] # "pending"
    BY <1>3, <2>1, <2>3, QuietStep DEF close, kernel, memory
  <2> QED BY <2>2, <2>3
<1>4. ASSUME NEW o \in Ops,
             read(o) \/ write(o) \/ connect(o) \/ accept(o) \/ read_dir_changes(o)
      PROVE  IndInv'
  BY <1>4, SubmitKinds, PendingStep, ReturnsStep DEF Returns
<1>5. ASSUME NEW o \in Ops, NotSubmitted(o) PROVE IndInv'
  <2>1. o \in batch /\ at[o] = "start" /\ kern[o] = "none" /\ kern \in [Ops -> {"none", "pending"} \cup Outcome]
    BY <1>5 DEF NotSubmitted, Runs, IndInv, StartOK, TypeOK
  <2>2. kern' = [kern EXCEPT ![o] = "none"]
    BY <1>5, <2>1 DEF NotSubmitted, kernel
  <2> QED BY <1>5, <2>1, <2>2, ReturnsStep DEF NotSubmitted, kernel
<1>6. ASSUME NEW o \in Ops, AfterPause(o) PROVE IndInv'
  <2>1. kern[o] = "done" /\ Live(o) /\ o \in batch
    BY <1>6 DEF AfterPause, Runs, IndInv, StartOK, Live
  <2> QED BY <1>6, <2>1, EndsFreeStep DEF AfterPause, kernel
<1>7. ASSUME NEW o \in Ops, AfterWait(o) PROVE IndInv'
  <2>1. PICK r \in StatusResult(o) : EndsFree(o, r)
    BY <1>7 DEF AfterWait
  <2>2. Live(o) /\ o \in batch /\ UNCHANGED <<kind, kernel, status, fds, cancelled>>
    BY <1>7 DEF AfterWait, Runs, Live
  <2>3. early = {} => kern[o] # "pending" /\ (r = "value" => kern[o] = "done")
    BY <1>7, <2>1, <2>2, StatusResults DEF AfterWait, IndInv, WokenOK, StatusOK
  <2> QED BY <2>1, <2>2, <2>3, StatusResults, EndsFreeStep DEF kernel
<1>8. ASSUME NEW o \in Ops, AfterRaise(o) PROVE IndInv'
  <2>1. Live(o) /\ o \in batch /\ (early = {} => kern[o] # "pending")
    BY <1>8 DEF AfterRaise, Runs, IndInv, WokenOK, Live
  <2> QED BY <1>8, <2>1, EndsFreeStep DEF AfterRaise, kernel
<1>9. ASSUME NEW o \in Ops, cancel_io_result(o) PROVE IndInv'
  <2>1. o \in batch /\ at[o] = "wait" /\ Live(o) /\ UNCHANGED <<kind, fds, cancelled>>
    BY <1>9 DEF cancel_io_result, Runs, Live
  <2>2. CASE CancelPending(o) \/ CancelFails(o)
    BY <2>1, <2>2, ShieldStep DEF CancelPending, CancelFails, kernel, IndInv, TypeOK
  <2>3. CASE CancelNoWait(o)
    <3>1. kern'[o] # "pending"
      BY <2>3 DEF CancelNoWait, Complete, IndInv, TypeOK, Outcome
    <3> QED BY <2>1, <2>3, <3>1, EndsFreeStep DEF CancelNoWait
  <2> QED BY <1>9, <2>2, <2>3 DEF cancel_io_result
<1> QED
  BY <1>1, <1>2, <1>3, <1>4, <1>5, <1>6, <1>7, <1>8, <1>9, PollStep, OthersStep
     DEF Next, LoopStep

LEMMA OverlappedInvariant == Spec => []IndInv
BY OverlappedInit, OverlappedStep, PTL DEF Spec

\* The heap holds exactly the IoResults of the operations under way, and the rest
\* of the state is well typed, whatever is freed early.
THEOREM OverlappedTypeCorrect == Spec => []TypeOK
<1>1. IndInv => TypeOK
  BY DEF IndInv
<1> QED BY <1>1, OverlappedInvariant, PTL

\* Until an IoResult is freed early, the kernel writes only to an IoResult that the
\* operation still holds.
THEOREM KernelIsSafe == Spec => []KernelWritesLiveMemory
<1>1. ASSUME IndInv, early = {}, NEW o \in Ops, kern[o] = "pending"
      PROVE  addr[o] \in allocated /\ job_id[addr[o]] = o /\ at[o] # "end"
  BY <1>1, Allocated DEF IndInv, StatusOK, AddrOK, Blocked, Live
<1>2. IndInv => KernelWritesLiveMemory
  BY <1>1 DEF KernelWritesLiveMemory
<1> QED BY <1>2, OverlappedInvariant, PTL

\* Until an IoResult is freed early, a value is returned only for an operation that
\* took effect.
THEOREM ValuesAreReal == Spec => []ValueIsReal
<1>1. IndInv => ValueIsReal
  BY DEF IndInv
<1> QED BY <1>1, OverlappedInvariant, PTL

=============================================================================
