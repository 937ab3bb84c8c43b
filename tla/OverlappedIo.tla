---------------------------- MODULE OverlappedIo ----------------------------
(***************************************************************************)
(* Overlapped I/O on Windows: io_windows.c, iocp.c, io_windows.mbt,        *)
(* network_windows.mbt, read_dir_changes, and wait_for_job with            *)
(* IoResult::cancel.  An operation allocates an IoResult, whose address is *)
(* all the kernel keeps of it.  If it is pending, the kernel writes its    *)
(* status there and queues a completion packet with that address, and poll *)
(* reads the job id through the address of the packet.                     *)
(*                                                                         *)
(* Every operation has a coroutine and a handle of its own (a second read  *)
(* or write on a handle panics).  at of an operation's coroutine:          *)
(*   "start"  before it            "pause"  it succeeded at once           *)
(*   "wait"   suspended            "shield" NeedWait, suspended, shielded  *)
(*   "raise"  the cancellation failed, suspended, shielded                 *)
(*   "end"    the operation has returned or raised                         *)
(***************************************************************************)
EXTENDS Integers, FiniteSets

CONSTANTS
    Ops,      \* operations; an operation is also its job id
    Kinds,    \* subset of AllKinds
    Addrs,    \* addresses malloc may return
    None

AllKinds == {"read", "write", "connect", "accept", "watch"}

ASSUME OverlappedAssumption ==
    /\ Kinds \subseteq AllKinds /\ Kinds # {}
    /\ IsFiniteSet(Ops) /\ IsFiniteSet(Addrs) /\ Cardinality(Addrs) >= Cardinality(Ops)
    /\ None \notin Ops \cup Addrs

VARIABLES
    kind,       \* of each operation, never changes
    kern,       \* kernel: "none", "pending", "done", "failed" or "aborted"
    asked,      \* kernel: operations CancelIoEx has asked to abort
    packets,    \* the completion port: operations with a packet that is not taken
    addr,       \* of the operation's IoResult
    allocated,  \* addresses that are allocated
    job_id,     \* heap: the job_id field at an address
    status,     \* heap: the OVERLAPPED at an address
    fds,        \* operations whose handle is in evloop.fds
    at, cancelled, result,
    ready,      \* run_later
    batch,      \* what this reschedule still has to run
    early       \* history: IoResults freed while their packet was not taken

memory == <<addr, allocated, job_id, status, early>>
kernel == <<kern, asked, packets>>
coros  == <<at, cancelled, result, ready, batch>>
vars   == <<kind, kernel, memory, fds, coros>>

Outcome == {"done", "failed", "aborted"}

TypeOK ==
    /\ kind \in [Ops -> Kinds]
    /\ kern \in [Ops -> {"none", "pending"} \cup Outcome]
    /\ asked \subseteq Ops /\ packets \subseteq Ops /\ fds \subseteq Ops /\ early \subseteq Ops
    /\ addr \in [Ops -> Addrs \cup {None}]
    /\ allocated = {addr[o] : o \in {p \in Ops : at[p] \notin {"start", "end"}}}
    /\ job_id \in [Addrs -> Ops \cup {None}]
    /\ status \in [Addrs -> {"none", "pending"} \cup Outcome]
    /\ at \in [Ops -> {"start", "pause", "wait", "shield", "raise", "end"}]
    /\ cancelled \in [Ops -> BOOLEAN]
    /\ result \in [Ops -> {"none", "value", "error", "Cancelled"}]
    /\ ready \subseteq Ops /\ batch \subseteq Ops

Init ==
    /\ kind \in [Ops -> Kinds]
    /\ kern = [o \in Ops |-> "none"] /\ asked = {} /\ packets = {}
    /\ addr = [o \in Ops |-> None] /\ allocated = {} /\ early = {}
    /\ job_id = [a \in Addrs |-> None] /\ status = [a \in Addrs |-> "none"]
    /\ fds = Ops
    /\ at = [o \in Ops |-> "start"]
    /\ cancelled = [o \in Ops |-> FALSE]
    /\ result = [o \in Ops |-> "none"]
    /\ ready = {} /\ batch = {}

-----------------------------------------------------------------------------
(* The kernel. *)

\* A pending operation ends: its status is written to its OVERLAPPED, wherever that
\* address belongs to now, and a packet is queued.
Complete(o, outcome) ==
    /\ kern[o] = "pending"
    /\ kern' = [kern EXCEPT ![o] = outcome]
    /\ status' = [status EXCEPT ![addr[o]] = outcome]
    /\ packets' = packets \cup {o}

KernelCompletes(o) ==
    /\ \/ \E outcome \in {"done", "failed"} : Complete(o, outcome)
       \/ o \in asked /\ Complete(o, "aborted")
    /\ UNCHANGED <<kind, asked, addr, allocated, job_id, early, fds, coros>>

\* IoHandle::close by another coroutine.  The handle leaves fds, and the kernel
\* aborts what is pending on it.
close(o) ==
    /\ o \in fds
    /\ fds' = fds \ {o}
    /\ IF kern[o] = "pending" THEN Complete(o, "aborted")
                              ELSE UNCHANGED <<kern, status, packets>>
    /\ UNCHANGED <<kind, asked, addr, allocated, job_id, early, coros>>

-----------------------------------------------------------------------------
(* The event loop. *)

\* Mutant of Waiting: a job leaves evloop.jobs when its cancellation begins.
WaitingUncancelled(j) == j # None /\ at[j] = "wait"

\* The coroutine of a job that evloop.jobs has.
Waiting(j) == j # None /\ at[j] \in {"wait", "shield", "raise"}

\* EventLoop::poll takes every packet and wakes whom the IoResult at its address
\* names.  The packet of a handle that was closed is dropped, unless the value of
\* the handle was given to another one.
poll ==
    /\ batch = {} /\ ready \cup packets # {}
    /\ \E kept \in SUBSET (packets \ fds) :
         LET ids == {job_id[addr[o]] : o \in (packets \cap fds) \cup kept}
         IN  batch' = ready \cup {j \in ids : Waiting(j)}
    /\ ready' = {} /\ packets' = {}
    /\ UNCHANGED <<kind, kern, asked, memory, fds, at, cancelled, result>>

\* The coroutine of o was spawned.
Spawned(o) == at[o] # "start" \/ o \in ready \cup batch

\* Another coroutine spawns the one of o, which is scheduled.
spawn(o) ==
    /\ ~ Spawned(o)
    /\ ready' = ready \cup {o}
    /\ UNCHANGED <<kind, kernel, memory, fds, at, cancelled, result, batch>>

\* The coroutine of o runs.
Runs(o) == o \in batch

\* It is suspended at a, with pause or with suspend.
Suspend(o, a) ==
    /\ at' = [at EXCEPT ![o] = a]
    /\ batch' = batch \ {o}
    /\ ready' = IF a = "pause" THEN ready \cup {o} ELSE ready
    /\ UNCHANGED result

Ends(o, r) ==
    /\ at' = [at EXCEPT ![o] = "end"]
    /\ batch' = batch \ {o}
    /\ result' = [result EXCEPT ![o] = r]
    /\ UNCHANGED ready

\* Mutant of free_io_result: nothing is freed.
free_io_result_leaks(o) == early' = early \cup ({o} \cap packets') /\ UNCHANGED allocated

\* moonbitlang_async_free_io_result, deferred to the end of the operation.
free_io_result(o) ==
    /\ allocated' = allocated \ {addr[o]}
    /\ early' = early \cup ({o} \cap packets')

\* The operation ends and its IoResult is freed.
EndsFree(o, r) == Ends(o, r) /\ free_io_result(o) /\ UNCHANGED <<addr, job_id>>

\* moonbitlang_async_make_..._io_result: malloc, and the job id.
make_io_result(o, a) ==
    /\ a \in Addrs \ allocated
    /\ addr' = [addr EXCEPT ![o] = a]
    /\ allocated' = allocated \cup {a}
    /\ job_id' = [job_id EXCEPT ![a] = o]

\* The operation o of kind k is submitted: check_cancellation, an IoResult, the call.
Submits(o, k) == Runs(o) /\ at[o] = "start" /\ ~ cancelled[o] /\ kind[o] = k /\ o \in fds

\* The call ends with ERROR_IO_PENDING.
Pending(o, a) ==
    /\ make_io_result(o, a)
    /\ kern' = [kern EXCEPT ![o] = "pending"]
    /\ status' = [status EXCEPT ![a] = "pending"]
    /\ Suspend(o, "wait")
    /\ UNCHANGED <<early, packets>>

\* The call succeeds at once; with FILE_SKIP_COMPLETION_PORT_ON_SUCCESS there is no
\* packet.  The IoResult is freed after the pause.
Immediate(o, a) ==
    /\ make_io_result(o, a)
    /\ kern' = [kern EXCEPT ![o] = "done"]
    /\ status' = [status EXCEPT ![a] = "done"]
    /\ Suspend(o, "pause")
    /\ UNCHANGED <<early, packets>>

\* The call ends the operation before anything is suspended: malloc and free.
Returns(o, k, r) ==
    /\ kern' = [kern EXCEPT ![o] = k]
    /\ Ends(o, r)
    /\ UNCHANGED <<packets, memory>>

\* moonbitlang_async_read and generic_read: end of file is no error, neither as
\* ERROR_HANDLE_EOF (0 bytes, and a pause) nor as ERROR_BROKEN_PIPE.
read(o) ==
    /\ Submits(o, "read")
    /\ \/ \E a \in Addrs : Pending(o, a) \/ Immediate(o, a)
       \/ Returns(o, "done", "value") \/ Returns(o, "failed", "error")
    /\ UNCHANGED <<kind, asked, fds, cancelled>>

\* moonbitlang_async_write and generic_write.
write(o) ==
    /\ Submits(o, "write")
    /\ \/ \E a \in Addrs : Pending(o, a) \/ Immediate(o, a)
       \/ Returns(o, "failed", "error")
    /\ UNCHANGED <<kind, asked, fds, cancelled>>

\* Mutant of setup_socket: its return value is not tested.
setup_socket_unchecked(k) == {"value"}

\* moonbitlang_async_setup_connected_socket and its use: setsockopt fails on a socket
\* that is not connected, and may fail on another.
setup_socket(k) == IF k = "done" THEN {"value", "error"} ELSE {"error"}

\* moonbitlang_async_connect.  -1, because there is no ConnectEx, is not 0 and passes
\* for a success; a failing bind returns 0.
connect(o) ==
    /\ Submits(o, "connect")
    /\ \/ \E a \in Addrs : Pending(o, a)
       \/ \E k \in {"none", "done"} : \E r \in setup_socket(k) : Returns(o, k, r)
       \/ Returns(o, "failed", "error")
    /\ UNCHANGED <<kind, asked, fds, cancelled>>

\* moonbitlang_async_accept.  A missing AcceptEx passes for a success.
accept(o) ==
    /\ Submits(o, "accept")
    /\ \/ \E a \in Addrs : Pending(o, a)
       \/ \E k \in {"none", "done"} : \E r \in setup_socket(k) : Returns(o, k, r)
       \/ Returns(o, "failed", "error")
    /\ UNCHANGED <<kind, asked, fds, cancelled>>

\* moonbitlang_async_read_dir_changes reports a queued request as ERROR_IO_PENDING.
read_dir_changes(o) ==
    /\ Submits(o, "watch")
    /\ \/ \E a \in Addrs : Pending(o, a)
       \/ Returns(o, "failed", "error")
    /\ UNCHANGED <<kind, asked, fds, cancelled>>

\* check_cancellation raises, or the coroutine does not get to the operation because
\* its handle was closed.
NotSubmitted(o) ==
    /\ Runs(o) /\ at[o] = "start"
    /\ \/ cancelled[o] /\ Ends(o, "Cancelled")
       \/ ~ cancelled[o] /\ o \notin fds /\ Ends(o, "error")
    /\ UNCHANGED <<kind, kernel, memory, fds, cancelled>>

\* The pause after a success; a cancelled coroutine loses the result.
AfterPause(o) ==
    /\ Runs(o) /\ at[o] = "pause"
    /\ UNCHANGED <<kind, kernel, status, fds, cancelled>>
    /\ EndsFree(o, IF cancelled[o] THEN "Cancelled" ELSE "value")

\* IoResult::status, and what connect and accept do after it.  A status that is
\* still pending is ERROR_IO_INCOMPLETE, an aborted one is raised as Cancelled.
StatusResult(o) ==
    CASE status[addr[o]] = "aborted" -> {"Cancelled"}
      [] status[addr[o]] = "done" /\ kind[o] \in {"connect", "accept"} -> setup_socket(kern[o])
      [] status[addr[o]] = "done" -> {"value"}
      [] OTHER -> {"error"}

\* wait_for_job returns, after the first suspension or after NeedWait.
AfterWait(o) ==
    /\ Runs(o)
    /\ at[o] = "shield" \/ (at[o] = "wait" /\ ~ cancelled[o])
    /\ UNCHANGED <<kind, kernel, status, fds, cancelled>>
    /\ \E r \in StatusResult(o) : EndsFree(o, r)

\* Mutant of CancelPending: the coroutine does not wait for the packet.
CancelPendingNoWait(o) ==
    /\ kern[o] = "pending" /\ o \in fds
    /\ asked' = asked \cup {o}
    /\ UNCHANGED <<kern, packets, status>>
    /\ EndsFree(o, "Cancelled")

\* CancelIoEx succeeds and the operation is still pending: NeedWait.
CancelPending(o) ==
    /\ kern[o] = "pending" /\ o \in fds
    /\ asked' = asked \cup {o}
    /\ Suspend(o, "shield")
    /\ UNCHANGED <<kern, packets, memory>>

\* NoWait: CancelIoEx does not find the operation (ERROR_NOT_FOUND), or it is over
\* when GetOverlappedResult looks.  The packet may still be queued.
CancelNoWait(o) ==
    /\ o \in fds
    /\ \/ kern[o] # "pending" /\ UNCHANGED <<kern, packets, status>>
       \/ \E outcome \in Outcome : Complete(o, outcome)
    /\ EndsFree(o, "Cancelled")
    /\ UNCHANGED asked

\* CancelIoEx fails for another reason, always for a closed handle: -1, and the
\* coroutine waits for the packet before it raises the error.
CancelFails(o) ==
    /\ kern[o] = "pending" \/ o \notin fds
    /\ Suspend(o, "raise")
    /\ UNCHANGED <<kernel, memory>>

\* moonbitlang_async_cancel_io_result, called by wait_for_job when suspend raises.
cancel_io_result(o) ==
    /\ Runs(o) /\ at[o] = "wait" /\ cancelled[o]
    /\ CancelPending(o) \/ CancelNoWait(o) \/ CancelFails(o)
    /\ UNCHANGED <<kind, fds, cancelled>>

\* The packet of an operation that could not be cancelled.
AfterRaise(o) ==
    /\ Runs(o) /\ at[o] = "raise"
    /\ UNCHANGED <<kind, kernel, status, fds, cancelled>>
    /\ EndsFree(o, "error")

\* Coroutine::cancel wakes a coroutine that is not shielded.
Cancel(o) ==
    /\ Spawned(o) /\ ~ cancelled[o] /\ at[o] # "end"
    /\ cancelled' = [cancelled EXCEPT ![o] = TRUE]
    /\ ready' = IF at[o] \in {"shield", "raise"} \/ o \in batch THEN ready ELSE ready \cup {o}
    /\ UNCHANGED <<kind, kernel, memory, fds, at, result, batch>>

\* Nothing happens until the kernel has something to tell.
Idle == batch \cup ready \cup packets = {} /\ UNCHANGED vars

LoopStep ==
    \/ poll
    \/ \E o \in Ops : \/ read(o) \/ write(o) \/ connect(o) \/ accept(o)
                      \/ read_dir_changes(o) \/ NotSubmitted(o) \/ AfterPause(o)
                      \/ AfterWait(o) \/ cancel_io_result(o) \/ AfterRaise(o)

Next ==
    \/ LoopStep \/ Idle
    \/ \E o \in Ops : spawn(o) \/ Cancel(o) \/ KernelCompletes(o) \/ close(o)

Spec == Init /\ [][Next]_vars

\* The thread of the loop keeps running, and the kernel ends an operation that
\* CancelIoEx asked it to abort.  Nothing is assumed of other operations.
FairSpec ==
    /\ Spec /\ WF_vars(LoopStep)
    /\ \A o \in Ops : WF_vars(o \in asked /\ KernelCompletes(o))

-----------------------------------------------------------------------------
(* Properties. *)

\* The kernel writes only to IoResults that are allocated and to the buffers they
\* keep alive: an operation is pending only while its coroutine holds the IoResult.
\* That is so until an IoResult is freed early (see FreedAfterPacket): then a stray
\* packet can wake another operation, which is still pending and frees its own.
KernelWritesLiveMemory ==
    early = {} => \A o \in Ops : kern[o] = "pending" =>
                    addr[o] \in allocated /\ job_id[addr[o]] = o /\ at[o] # "end"

\* An operation returns a value only if it took effect, whatever was raced against
\* it, and although a missing ConnectEx or AcceptEx passes for a success.
ValueIsReal ==
    early = {} => \A o \in Ops : result[o] = "value" => kern[o] = "done"

\* A coroutine whose operation is over, or that is cancelled while it waits, is
\* resumed and ends, except if the handle is closed under it (its packet is dropped)
\* or if CancelIoEx fails.
WaitersEnd ==
    \A o \in Ops : at[o] = "wait" /\ (cancelled[o] \/ kern[o] # "pending")
                     ~> at[o] \in {"end", "raise"} \/ o \notin fds

\* io_windows.c: "cancellation failure, wait for completion packet".  An IoResult is
\* freed only when its packet was taken.
FreedAfterPacket == early = {}

=============================================================================
