# moonflow and its async runtime: TLA+ models, checks and proofs

moonflow (`src/moonflow/`) is a workflow engine written in MoonBit. It records
every transition of a workflow as an event, and recovers from a crash by
replaying the events and running the steps that are not recorded as completed.
The repository also holds the runtime it is built on, the `async` library
(`src/.mooncakes/moonbitlang/async/`, below `async/`): an event loop with
coroutines, a pool of worker threads in C, polled and overlapped I/O, and TLS
over OpenSSL or Schannel. This directory models both, checks the models with
TLC, and proves with TLAPS the safety properties of the engine, the saga, the
worker threads, the jobs, both kinds of I/O and TLS.

## Inventory

### moonflow

| Component | State | Operations | What makes it correct | Module |
|---|---|---|---|---|
| Definition and builder (`core_workflow`, `core_step`) | the list of step nodes | `then`, `parallel`, `branch`, `wait_signal`, `sub_workflow`, `build` | the nodes say what the engine will run | `WorkflowDefinition` |
| Events and replay (`state_event_log`, `state_replay`) | events per workflow id | `apply_event`, `replay_events` | replay rebuilds what the events say | `EventLog` |
| Engine (`core_engine`, `core_timeout`) | registry, definitions, signals; locals of a run | `start`, `start_with_timeout`, `resume_workflow`, `signal`, `register`, `execute_batch` | steps complete once, in order, with the right input, across crashes | `Engine` |
| Saga (`core_saga`) | steps; locals of an execution | `step`, `step_by_name`, `execute`, `execute_with_retry` | rollback in reverse, result tells the truth | `Saga` |
| Compensation plans, storage, snapshots, validator, policies, middleware, queries, metrics, ids, time | see "Not modelled" | | | - |

A host builds a definition, wires an `Engine` over a `Storage`, registers
handlers and calls `start`; the engine calls handlers and `save_event`
synchronously (its own `Async` is a thunk that `.run()` evaluates at once).
There are no threads inside the engine. What is hard is failure: the process
may die between any two effects, handlers may fail or overrun, signals come at
any time, and the in-memory run has to agree with a log that another process
wrote.

### The async runtime

| Component | State | Operations | What makes it correct | Module |
|---|---|---|---|---|
| Event loop and worker threads (`thread_pool.c`, `event_loop.mbt`, `coroutine/`, `signal.mbt`) | workers and their current job, notification pipe, `jobs`, `running_workers`, `idle_workers`, `job_queue`, run queue | `worker_loop`, `spawn_worker`, `wake_worker`, `worker_enter_idle`, `cancel_worker`, `free_worker`, `perform_job_in_worker`, `wait_for_job`, `handle_completed_job`, `reschedule`, `run_forever` | one completion per job, no stranded job, a cancellation ends its coroutine and disturbs no other, a clean end | `ThreadPool`, `JobService` |
| Jobs (`thread_pool.c`, `fs.mbt`, `network.mbt`, `process_*.mbt`) | a job object shared by a coroutine and a thread | `make_*_job`, `*_job_worker`, `free_*_job`, `get_*_result` | everything acquired is released once, a result is what the job did | `Jobs` |
| Polled I/O (`epoll.c`, `kqueue.c`, `io_unix.c`, `io_unix.mbt`, `process.c`) | registrations, edges, the readers and writers of a handle | `poll_register`, `poll_wait`, try-wait-try, `wait_pid`, `close` | no lost wake-up, no wake-up without a reason | `PolledIo` |
| Overlapped I/O (`iocp.c`, `io_windows.c`, `io_windows.mbt`) | heap of `IoResult`s, completion port | start, `cancel_io_result`, `free_io_result`, `poll`, `close` | the kernel writes to live memory, a value is real, waiters end | `OverlappedIo` |
| TLS (`transport.mbt`, `openssl.c/.mbt`, `schannel.c/.mbt`, `semaphore.mbt`) | contexts, two buffers and two locks, `state`, `shutdown` | constructors, handshake, `read`, `write`, `shutdown`, `close` | an end of file is real, no leak, the peer is verified, operations end | `TlsContext`, `Tls` |

Coroutines are cooperative and run in the thread of the loop. A blocking call
becomes a job for a worker thread, which writes the job's id to a pipe that the
loop polls; a cancelled coroutine asks its worker to give up (a signal on Unix,
`CancelSynchronousIo` on Windows) and asks again until the job is over. Other
I/O waits for an edge of epoll or kqueue or for a packet of a completion port.
TLS is layered on any reader and writer. What is hard: a thread, a signal and
the loop touch one worker in any order; a coroutine may be cancelled at every
suspension point; memory is shared with the kernel; and buffers are read before
a suspension and used after it.

`PROJECT.json` lists the hazards of both parts at the lines where they bite,
with the properties that cover them.

## Modules

* `WorkflowDefinition` - nodes and builder as operators on sequences. The field
  a node type does not use is `None`.
* `EventLog` - events, `apply_event`, `get_last_output`. Payloads are members of
  a set `Json`; ids, time stamps and delays are left out; error texts are
  reduced to the place that wrote them.
* `Engine` - the state machine. `log` is the storage and survives `Crash`; all
  other variables belong to the process or are history. `pc` is the place in the
  code (its values are listed at the top of the module), `idx`, `input` and
  `completed` are `step_index`, `current_input` and `completed_steps` of
  `execute_workflow`, `call` is the frame of `execute_step`. A step of the
  model ends at most one `store_event` or handler call. Handlers return any value, an error,
  or too late. A sub-workflow is one step with any output.
* `Workflow` - the abstract promise: steps are completed one after another, each
  once; success only at the end; then nothing changes, except that a deadline
  may turn the outcome into a failure.
* `EngineInvariants` - the inductive invariant. `EngineProofs` (types, replay and
  attempts), `EngineSafetyProofs` (order, inputs, finality and the refinement) - the
  proofs. `MCEngine` - small definitions for TLC.
* `Saga`, `SagaProofs`, `MCSaga` - the saga orchestrator. `applied` is a history
  variable: the steps in effect.
* `ThreadPool`, `ThreadPoolProofs`, `MCThreadPool` - the pool and the loop. `worker[w].at` is the place of a thread in
  `worker_loop`, `job` its reference, `pending` signals are part of its state; the
  loop has phases (`poll`, handling of a batch, `reschedule`, drain, `closed`).
  A configuration says which system (signals or `CancelSynchronousIo`) and how
  many workers are allowed. `JobService` is its abstract promise: a job starts
  once, only the job of a coroutine that was asked to stop is interrupted, and
  an answer is the result of the job.
* `Jobs`, `JobsProofs`, `MCJobs` - each job is a script of calls with what a success acquires and a failure
  releases, for Unix and for Windows. `live` counts acquisitions minus releases.
* `PolledIo`, `PolledIoProofs` - one handle with a reader and a writer and one process, under epoll or
  kqueue. `pending` are edges the kernel has not yet reported, `batch` those the
  loop is handling.
* `OverlappedIo`, `OverlappedIoProofs` - operations with their `IoResult` at an address of a small heap
  that is reused, and the packets of the port.
* `TlsContext` - constructors of the two back ends as operators on a ledger of
  resources, each with its error paths. `Tls` - the connection: a reader and a writer
  coroutine over the shared transport; `turn` is the coroutine that runs, so that
  steps interleave only where the code suspends. The TLS libraries, the peer and the
  transport below are external, modelled from how they are used. `TlsProofs` - the
  proofs.

Operators commented "Mutant of X" are variants of an action X with a plausible
bug. No specification uses them; they document what each property rules out.

## Runs

| Run | Instance | Shows |
|---|---|---|
| `engine` | a group as `parallel` builds it and steps with `max_retry` and timeout, missing handlers, 1 crash | order, inputs, replay, attempts, what may be started again; implements `Workflow` |
| `engine_branch` | step, branch, signal, sub-workflow; 1 crash; `FairSpec` | success is complete, finality; implements `Workflow` with its fairness, so a started workflow is decided |
| `saga` | up to 4 steps, `max_retry` in {-1, 0, 2} | reverse rollback, attempts, honest result, it returns |
| `pool` | 2 coroutines and 2 jobs; pools of 1 or 2 workers, with signals or `CancelSynchronousIo`, a completion buffer of 1 or 2, every way of waiting, a termination signal | one completion per job, no stranded job, references, shutdown, cancellation; implements `JobService` |
| `jobs` | every job together with an abandoned `getaddrinfo` and with an `open`; every call may fail | released once, honest outcome |
| `polled_io` | both pollers, 2 units of data and of space, hang-up, close, a process | no lost wake-up, reasons, waiters resume |
| `overlapped_io` | 2 operations of every kind, a heap of 2 blocks | live memory, real values, waiters end |
| `tls` | `CheckedConfigs`: both back ends, clients and servers; buffer of 2 records, 3 records from the peer, 1 write, 1 fault | end of file, leaks, verification, every operation ends, waits for the peer or (Schannel) stops the program |

Four more runs end in a violation. Each states what a comment or a document says
and the code does not do:

| Run | Claim | What happens |
|---|---|---|
| `engine_signal_pause` | "workflow pauses here (can be resumed later)" | it is recorded as failed and resume is refused |
| `pool_value_dropped` | "leaving no room for orphan task and resource leak" | a job that completes while its cancellation is being retried loses its value, such as an open file |
| `overlapped_freed` | "cancellation failure, wait for completion packet" | the `IoResult` is freed at once and the packet is read from freed memory |
| `tls_shutdown` | "Shutdown a TLS connection gracefully." | a `close_notify` appended while a flush is suspended is dropped |

Deviations that were met while modelling and that no run of their own shows. The
models have these behaviours unless stated otherwise, and the properties except
them by name:

* Engine: after a crash in a branch target the condition is evaluated again, so both
  branches may run (`core_engine.mbt:251`); steps are recognised by name, so
  recovery skips a step with a repeated name (`:132`); a signal is never consumed
  (`core_engine.mbt:34`). The builder's `parallel` pushes the children as steps and
  then a group that names them (`core_workflow.mbt:78-86`), so every child is run as
  a step, is recorded as completed and is run again by the group, without any crash.
  `moonflow/README.md:13` says 「不重复执行」 (executed only once) of recovery; that is what
  holds: what was recorded when a process took the workflow over is not started again
  (`RestartedOnlyByName`), while within a process a group or a branch that names a
  completed step runs it again.
* Saga: `execute_with_retry` drops a failed compensation (`core_saga.mbt:68`).
* Loop: a job cancelled in the queue is executed later (`event_loop.mbt:541`); an id
  from 2^31 on is taken for a signal (`:246`); a batch that fills the buffer
  exactly is followed by a read that fails with `EAGAIN`, which is fatal (`:295`);
  after a fatal error `run_forever` spins if a coroutine that cannot be cancelled
  waits for a worker (`:432`).
* Jobs: on Windows two `realpath` calls share a static buffer
  (`thread_pool.c:1670`, `SharesBuffer`); a failed `AssignProcessToJobObject` leaves
  two handles open (`:1928`, `AssignFailed`).
* I/O: a hang-up reported by epoll wakes the writer, which raises `EAGAIN`
  (`epoll.c:140`); a read cancelled in the pause after it loses its bytes
  (`io_unix.mbt:159`); a handle closed under a waiter does not wake it (`io.mbt:29`).
* TLS: a cancelled flush keeps its records, so they are sent twice, or the next write
  stops the program on Windows (`transport.mbt:90`, `schannel.mbt:411`); a read
  cancelled while it waits for `write_lock` loses what it decrypted
  (`openssl.mbt:552`); a closure by the peer (close_notify, which Schannel reports as
  `Eof`) during a handshake passes for its completion (`schannel.mbt:162`); a
  certificate file that cannot be read leaks the context (`schannel.mbt:296`, state
  "unread"). On Windows a write that begins while a flush of the reader is suspended
  stops the program, because `write_once` requires an empty `write_buf`
  (`schannel.mbt:411`); this takes no fault, only a reader that answers a record, and
  `OperationsEnd` names it. `connect` and `accept` drop all of `read_buf` unless
  Schannel reports the rest as `SECBUFFER_EXTRA` (`schannel.c:344-346`,
  `schannel.mbt:159`); run for a shutdown or a renegotiation they may so drop records
  no read has seen. The model lets them (`Drops`), and after it `EofIsReal` no longer
  says that everything was returned.

Bounds. `MaxCrashes` 1 covers a crash at every point of the first run and the
whole recovery; two JSON values suffice to tell a right input from a wrong one;
`DefaultRetry` replaces the code's 3 by 1 or 2, which still separates first, middle
and last attempts. `MaxSteps` bounds a saga. Two workers and two jobs are the
fewest with a queue, a hand-over, a reused worker and a late signal; `IdBits`
replaces 31. Jobs interact only through the pool and the buffer of `realpath`, so
pairs suffice. `MaxUnits` 2 gives an edge on a handle that is already ready,
`MaxReady` 1 a batch that does not hold all events. Two addresses let a freed block
be reused while another is in use. `Capacity` 2 lets a record fit after another and
a third one not; `MaxRecords` 3 is a handshake, a record and an end; `MaxWrites` 1 is a
write next to a reader that answers and is closed, which is followed by a shutdown;
`MaxFaults` 1 is one cancellation or failure at any point. `CheckedConfigs` leaves out the
OpenSSL client with system roots, which differs from the one with a custom root only by
its context, and the Schannel client without verification, which accepts a record more
in its handshake. `tls_shutdown` needs only OpenSSL.

Deadlock checking is on in every run except `tls` and `tls_shutdown`: a connection
whose peer has sent all it will send really stops, and so does a program that was
aborted.

Fairness. `Engine!FairSpec`: the engine runs on while its process lives, every
handler returns (a handler that hangs hangs the engine), replay goes on, and
after a crash the host wires an engine and resumes. The number of crashes is
finite. `start`, signals and crashes are not assumed to happen. `Saga!FairSpec`:
`execute` is a synchronous call. `ThreadPool!FairSpec`: threads run on and handle
pending signals; calls return except those of cancellable jobs, which may block
for ever. `PolledIo!FairSpec` and `OverlappedIo!FairSpec`: the loop runs on, and the
kernel ends an operation it was asked to abort; nothing is assumed of the peer.
`Tls!FairSpec`: the run queue is first come, first served, so a coroutine that can
run again and again does (strong fairness, since `turn` disables it meanwhile), and
the transport takes what it is given. Nothing is assumed of the peer: `OperationsEnd`
says of every operation, a handshake included, that it ends or is found waiting for a
record that the peer has not sent (`WaitsForPeer`, in `read_more` or behind the one who is),
with the one other end named above.

## Proofs

TLC checks small instances; the theorems hold for every value of the constants
that satisfies the named assumptions of the module (`ASSUME` in `Engine`, `Saga`,
`ThreadPool`, `PolledIo`, `OverlappedIo` and `Tls`; `Jobs` needs none). TLC evaluates the
assumptions in every run. Each inductive invariant was first checked by TLC on the
instance of the run.

### Engine

For every definition, set of JSON values, wiring and number of crashes:

* `TypeCorrect`: `Spec => []TypeOK`, from `TypeInv`, which adds what each `pc` says
  about the locals (`ControlOK`) and that only the first event is `WorkflowStarted`
  (`LogOK`).
* `ReplayRebuildsTheRun` (`ReplayIsFaithful`): while the events are replayed, and
  when the run goes on, `completed`, the failures, the attempts, the step started last
  and the status are what the replayed prefix says. Needs that a replay that has not read its first event has no state yet (`NotBegun`).
* `AllAttemptsAreMade` (`GivenUpAfterAllAttempts`): a step is given up only after
  its attempts are in the log. `CallOK` ties the frame of `execute_step` to the node
  it was called for and `AttemptsOK` its counter to consecutive events of the log.

For every definition whose step names are unique (`UniqueNames`, the validator's
rule; with repeated names recovery skips steps):

* `CompletionsFollowDefinition`, `HandlerInput`, `TerminalStaysFinal`,
  `SuccessIsComplete`: `CompletedAsDefined`, `HandlerSeesLastOutput`,
  `TerminalIsFinal`, `SuccessMeansAllCompleted`.
* `EngineImplementsWorkflow`: `Spec => ImplementsWorkflow`.
* `CompletedStaysDone` (`RestartedOnlyByName`): nothing that was recorded as completed
  when a process took the workflow over (`resumed`) is started again, and what has
  completed since only by the group or branch at `idx` that names it. No premise about
  the definition: groups that name earlier steps, as all the builder makes, are included.

`CompletedAsDefined` is not inductive: whether the next completion is in order
depends on what the run in memory knows. `RunOK` relates the two. Everything
before `idx` is recorded, everything recorded at or after `idx` is in
`completed`, and `input` is what the step before `idx` recorded. At a step that
is not in `completed` the recorded steps are then exactly the ones before it
(`Frontier`), and the input is the last output of the log (`FrontierInput`).
`ReplayOK` carries the facts across a resumption: a replayed prefix yields a map
of exactly its completions. `RunSteps` and `LogGrowth` reduce the actions to six
kinds of steps, so the later proofs have one case per kind.

### Saga

`SagaTypeCorrect`, `RollbackIsReverse` (`PrefixInEffect`), `ExecuteIsHonest`
(`ExecuteTellsTheTruth`) and `RetriesAreExact` (`CompensatesAfterRetries`) for any
number of steps and any `max_retry`, from the fact that `completed_indices` is
1, 2, ... and that the steps in effect are a prefix of it.

### Worker threads and event loop

For any finite sets of coroutines and workers, any pools with at most as many
workers as there are identities, any size of the completion buffer and any number of
jobs up to the bit that marks signals: `PoolTypeCorrect`, `CompletionsAreUnique`
(`OneCompletionPerJob`), `QueueMeansSaturation` (`QueuedOnlyWhenSaturated`),
`JobsStayAlive` (`JobAliveWhileRunning`), `ShutdownIsClean` (`CleanShutdown`) and
`PoolImplementsJobService` (`ImplementsJobService`).

The bound on the number of jobs is the hypothesis `FewJobs`. The code does not
guarantee it: `job_id` grows for ever, and from 2^31 on the completion of a job is
taken for a signal (`event_loop.mbt:246`); then none of the six holds.

The invariant says of every job who has it. A worker that is busy has taken its job
(`Taken`) or has been given it and not noticed (`HandedOver`); an idle worker has
none (`BusyOK`, `IdleOK`, `WorkersOK`). An id in the pipe or in the batch is that of
a busy worker which has reported it and not another time (`PipeOK`). A job is
queued, with a worker, or over (`JobsOK`). `PhaseOK` says what the loop is doing and
with whom, `CallsOK` and `QueueOK` that a coroutine waits for a job of its own and
is scheduled only when that is over. `SignalOK` says that a pending `SIGUSR2` was
sent for the present job of the worker, or finds it in a place where it
does nothing; it is what makes the refinement true: only the job of a coroutine that
was asked to stop is interrupted.

### Jobs

For any number of jobs at the same time: `JobsTypeCorrect`, `JobsReleaseOnce`
(`ReleasedOnce`) and `JobsAreTruthful` (`TruthfulOutcome`).

The proof has two parts. `AllBalanced` goes through every kind of job of both systems: what the
script holds before a call (`Before`) contains what the call releases, a failure that
ends the job leaves nothing behind (except after `AssignProcessToJobObject`), one
that is passed over leaves what the next call expects, and the end of the script
holds exactly what the job gives. From this the invariant follows for any job
(`HeldOK`): it holds its arguments while someone refers to it, and beside them what
its script holds at that point or, when the worker has returned, the results nobody
has taken. `CourseOK` says how far worker and coroutine are. `BufferOK` says that
without another `realpath` the static buffer belongs to the job that has written it.

### I/O

* `PolledTypeCorrect`, `WakeupsAreKept` (`NoLostWakeup`), `WakeupsAreJustified`
  (`WokenForAReason`) for any buffers, any number of units and either poller.
  `NoLostWakeup` rests on `EdgeOK`: what a coroutine waits for is not possible, or its
  edge is still to be reported, or it is queued. This needs that an open handle is
  registered for every direction someone waits for (`HandleOK`, `WaiterOK`).
* `OverlappedTypeCorrect`, `KernelIsSafe` (`KernelWritesLiveMemory`), `ValuesAreReal`
  (`ValueIsReal`) for any operations and any heap with a block for each. An
  operation that holds an `IoResult` is named by it, so no two hold the same
  (`AddrOK`). What a coroutine reads there is what the kernel wrote (`StatusOK`) as
  long as no `IoResult` was freed with its packet still queued (`early = {}`); that
  this may happen is what the run `overlapped_freed` shows.

### TLS

For either library, client or server, every kind of trust, any capacity of
`write_buf` and any number of records, writes, cancellations and failures:
`TlsTypeCorrect`, `TlsEofIsReal` (`EofIsReal`), `TlsNoLeak` (`NoLeak`) and
`TlsVerifiedPeer` (`VerifiedPeer`). The invariant has a part for each question.

* `ControlOK`: where a coroutine may be in its operation, where `flush_write` returns
  to, and that the holder of a lock works under it while its one waiter is suspended.
* `StreamOK`: what was taken out of `read_buf`, what is in it and what the transport
  still has are together, in order, what the peer sent. The exception is the input that
  the first call of Schannel may make up (`Junk`); the handshake then raises before
  anything else is read. `StartOK` says how far the handshake has to be for a record to
  have been taken, `ClosedOK` that a transport is `Closed` only at its end.
* `HeldOK`: what a connection holds in each phase. It needs the state field of
  `struct Context` to say which handles exist (`Holds`); with `LedgerEntries` every
  constructor is then followed through each of its return statements.
* `VerifiedOK`: whose certificate was accepted, by the handshake or, for Schannel
  with a custom root, by `verify_peer_certificate` afterwards.
* `CountOK` and `EndOK`: every data record that was taken was returned, or is held by a
  read that still flushes (`Returning`), until an operation raises or Schannel takes
  input unseen (`dropped`); a read that is
  about to return 0 (`Ending`) has met the end. `ReaderOK` reduces every step to what
  it does to the reads, `DataTaken` to what it does to the records.

### Only model-checked

The liveness properties and `ImplementsFairWorkflow`: fairness is beyond the prover.
Every safety property of a passing run is the statement of a theorem.

## Not modelled

* moonflow: compensation plans, snapshots, the validator, policies, middleware and
  the query API are functions the engine does not call, or that read the log without
  changing it. `Engine` assumes a storage whose writes succeed (`store_event` ignores
  a failed one) and one engine per storage. A sub-workflow is one step with any
  output. Metrics, ids, clock and context are accessors.
* async: packing of addresses, times and directory entries (`socket.c`, `fd_util`,
  `fs/dir.c`, `detect_file_kind.c`) is data conversion around single system calls.
  Task groups, queues and condition variables, HTTP, WebSocket, gzip and the
  JavaScript back end lie above the runtime and are not used by moonflow. The
  TLS libraries are reduced to the outcomes their callers tell apart; what
  `schannel_connect` reads uninitialised on its first call is a free choice in `Tls`
  ("junk"). The rounds of a server's handshake are one record of the peer
  (`AcceptFirst`); a record is returned by one read, not in parts
  (`curr_msg_remaining`); a further round (`WantWrite`) of `connect` or `accept` follows
  a record of the peer, since it answers one. Hashing and random numbers are left out.

## Plan

Every safety property that the runs check is proved. What could be added: reads of
a TLS record in parts, the rounds of a server's handshake, and task groups over the
coroutines of `ThreadPool`.
