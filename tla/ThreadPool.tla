----------------------------- MODULE ThreadPool -----------------------------
(***************************************************************************)
(* The worker threads of thread_pool.c and the part of the event loop that *)
(* feeds them (event_loop.mbt).  A coroutine hands a blocking call, a job, *)
(* to a worker and is suspended; the worker runs the job and writes its id *)
(* to the notification pipe; the loop thread reads the pipe, gives the     *)
(* worker its next job and wakes the coroutine.  Coroutines and loop are   *)
(* one thread, workers are the others.                                     *)
(*                                                                         *)
(* phase of the loop thread:                                               *)
(*   "poll"    in wait_for_event     "fetch"   about to read the pipe      *)
(*   "handle"  has read ids          "run"     in reschedule               *)
(*   "cancel"  in cancel_worker, between the test of waiting and the call  *)
(*   "abort"   cancelling the coroutines after a fatal error               *)
(*   "cleanup" in EventLoop::cleanup, "join" in free_worker                *)
(*   "drain"   rescheduling after a fatal error     "closed" returned      *)
(* at of a coroutine:                                                      *)
(*   "start"  between operations     "wait"    suspend in wait_for_job     *)
(*   "shield" suspend, shielded      "retry"   shielded pause, RetryLater  *)
(*   "raise"  shielded suspend before the error of cancel_func is raised   *)
(*   "end"    returned                                                     *)
(* at of a worker thread:                                                  *)
(*   "none"   not spawned            "begin"   before the system call      *)
(*   "call"   blocked in it          "done"    job->worker has returned    *)
(*   "notify" waiting set            "sent"    id written to the pipe      *)
(*   "wait"   waiting to be woken                                          *)
(*   "exit"   left worker_loop       "freed"   joined and freed            *)
(***************************************************************************)
EXTENDS Integers, Sequences, FiniteSets

CONSTANTS
    Tasks,             \* coroutines
    Main,              \* the one that runs the program's main function
    Workers,           \* identities for worker threads
    None,
    IdBits,            \* width of job_id (32)
    MaxJobs,           \* bound on the jobs submitted
    Configs            \* pools to look at, see config

\* How wait_for_job is called: without cancel (most operations), with
\* cancel_job_in_worker (open, flock, reads and writes of blocking handles,
\* wait_for_process), with a cancel that returns NoWait (getaddrinfo).  "sigwait"
\* is the cancellable job that waits for signals for the whole life of the loop.
AllKinds == {"shielded", "cancellable", "detached", "sigwait"}

\* windows: CancelSynchronousIo instead of SIGUSR2; max_worker_count and the
\* length of completed_jobs_buffer (both 1024); the kinds of jobs submitted.
Config == [windows: BOOLEAN, max_worker_count: Nat \ {0}, buffer: Nat \ {0},
           kinds: SUBSET AllKinds]

ASSUME PoolAssumption ==
    /\ Configs \subseteq Config
    /\ IdBits \in Nat \ {0}
    /\ MaxJobs \in 0 .. 2^IdBits
    /\ Main \in Tasks
    /\ None \notin Workers \cup Tasks \cup (0 .. 2^IdBits)
    /\ IsFiniteSet(Tasks) /\ IsFiniteSet(Workers)
    /\ \A c \in Configs : c.max_worker_count <= Cardinality(Workers)

VARIABLES
    config,            \* never changes
    phase,
    left,              \* coroutines this reschedule still has to run
    curr,              \* curr_coro
    run_later,
    completed_jobs,    \* ids read from the pipe and not yet handled
    full,              \* the last read filled completed_jobs_buffer
    fatal,             \* run_forever has caught an error
    killed_by_signal,
    job_id,            \* the next job id
    job_queue,
    idle_workers,
    running_workers,   \* job id -> worker
    coro,
    job,               \* job id -> job
    worker,
    notify             \* ids in the notification pipe

loop == <<phase, left, curr, run_later, completed_jobs, full, fatal,
          killed_by_signal>>
pool == <<config, job_id, job_queue, idle_workers, running_workers>>
vars == <<loop, pool, coro, job, worker, notify>>

Ids == 0 .. MaxJobs - 1

\* A signal in the pipe: its number with the most significant bit set.
Signal == 2^(IdBits - 1)

\* Signals are told from completions by the most significant bit of the id.
IsSignal(id) == id >= 2^(IdBits - 1)

Coroutine == [at: {"start", "wait", "shield", "retry", "raise", "end"},
              job: Ids \cup {None}, cancelled: BOOLEAN,
              result: {"none", "value", "error", "Cancelled"}]

\* struct job: ret and err, and how its waiter treats cancellation.
Job == [kind: AllKinds,
        result: {"new", "running", "value", "error", "EINTR"}]

\* struct worker, with the locals of worker_loop (id) and the signals that are
\* pending for the thread.  usr1 stands for SIGUSR1, the condition variable or
\* the event, whichever the platform uses to wake a worker.
Worker == [at: {"none", "begin", "call", "done", "notify", "sent", "wait", "exit",
                "freed"},
           job: Ids \cup {None}, job_id: Ids \cup {None}, waiting: BOOLEAN,
           id: Ids \cup {None}, usr1: BOOLEAN, usr2: BOOLEAN]

TypeOK ==
    /\ config \in Configs
    /\ phase \in {"poll", "fetch", "handle", "run", "cancel", "abort", "cleanup",
                  "join", "drain", "closed"}
    /\ left \in Nat
    /\ curr \in Tasks \cup Workers \cup {None}
    /\ run_later \in Seq(Tasks)
    /\ completed_jobs \in Seq(Ids \cup {Signal})
    /\ {full, fatal, killed_by_signal} \subseteq BOOLEAN
    /\ job_id \in 0 .. MaxJobs
    /\ job_queue \in Seq(Ids)
    /\ idle_workers \in Seq(Workers)
    /\ DOMAIN running_workers \subseteq Ids
    /\ \A id \in DOMAIN running_workers : running_workers[id] \in Workers
    /\ coro \in [Tasks -> Coroutine]
    /\ job \in [0 .. job_id - 1 -> Job]
    /\ worker \in [Workers -> Worker]
    /\ notify \in Seq(Ids \cup {Signal})

Members(s) == {s[k] : k \in 1 .. Len(s)}

Init ==
    /\ config \in Configs
    /\ phase = "run" /\ curr = None /\ completed_jobs = <<>>
    /\ full = FALSE /\ fatal = FALSE /\ killed_by_signal = FALSE
    /\ run_later = CHOOSE s \in [1 .. Cardinality(Tasks) -> Tasks] : Members(s) = Tasks
    /\ left = Len(run_later)
    /\ job_id = 0 /\ job_queue = <<>> /\ idle_workers = <<>>
    /\ running_workers = [id \in {} |-> None]
    /\ coro = [t \in Tasks |-> [at |-> "start", job |-> None, cancelled |-> FALSE,
                                result |-> "none"]]
    /\ job = [id \in {} |-> None]
    /\ worker = [w \in Workers |-> [at |-> "none", job |-> None, job_id |-> None,
                                    waiting |-> FALSE, id |-> None,
                                    usr1 |-> FALSE, usr2 |-> FALSE]]
    /\ notify = <<>>

-----------------------------------------------------------------------------
(* Helpers. *)

\* map[id] = w, and map.remove(id).
With(f, id, w)  == [j \in DOMAIN f \cup {id} |-> IF j = id THEN w ELSE f[j]]
Without(f, id)  == [j \in DOMAIN f \ {id} |-> f[j]]

\* Coroutine::wake, for a set of at most one coroutine.
wake(s, ts) == IF ts \subseteq Members(s) THEN s ELSE s \o <<CHOOSE t \in ts : TRUE>>

\* Mutant of wake_worker: a condition variable without the test of waiting
\* forgets a signal that is sent before the worker waits.
wake_worker_lost(wk, w, id, j) ==
    [wk EXCEPT ![w].job_id = id, ![w].job = j, ![w].waiting = FALSE,
               ![w].usr1 = (wk[w].at = "wait")]

\* wake_worker: the worker gets the id and the job and is told.
wake_worker(wk, w, id, j) ==
    [wk EXCEPT ![w].job_id = id, ![w].job = j, ![w].waiting = FALSE, ![w].usr1 = TRUE]

\* worker_enter_idle: the worker drops its reference to the job.
worker_enter_idle(wk, w) == [wk EXCEPT ![w].job = None]

\* spawn_worker: a new thread enters worker_loop, which reads job and job_id.
spawn_worker(wk, w, id) ==
    [wk EXCEPT ![w].at = "begin", ![w].job_id = id, ![w].job = id, ![w].id = id,
               ![w].waiting = FALSE]

\* The coroutine that jobs maps an id to: it sits in wait_for_job.
Waiter(id) == {t \in Tasks : coro[t].job = id /\ coro[t].at # "end"}

no_more_work == run_later = <<>> /\ \A t \in Tasks : coro[t].at \in {"start", "end"}

\* Mutant of LoopDone: run_forever does not look at running_workers.
LoopDoneEarly == no_more_work

\* The loop condition of run_forever.
LoopDone == no_more_work /\ DOMAIN running_workers = {}

-----------------------------------------------------------------------------
(* Worker threads: worker_loop. *)

\* Mutant of StartJob: the completion is written before the job runs.
StartJobNotifies(w) ==
    /\ worker[w].at = "begin"
    /\ worker' = [worker EXCEPT ![w].at = "call"]
    /\ job' = [job EXCEPT ![worker[w].id].result = "running"]
    /\ notify' = Append(notify, worker[w].id)
    /\ UNCHANGED <<loop, pool, coro>>

\* ret and err are reset and the job's worker function makes its system call.
StartJob(w) ==
    /\ worker[w].at = "begin"
    /\ worker' = [worker EXCEPT ![w].at = "call"]
    /\ job' = [job EXCEPT ![worker[w].id].result = "running"]
    /\ UNCHANGED <<loop, pool, coro, notify>>

\* The system call returns by itself; sigwait only when it fails.
CallReturns(w, result) ==
    /\ worker[w].at = "call"
    /\ job[worker[w].id].kind = "sigwait" => result = "error"
    /\ worker' = [worker EXCEPT ![w].at = "done"]
    /\ job' = [job EXCEPT ![worker[w].id].result = result]
    /\ UNCHANGED <<loop, pool, coro, notify>>

\* The nop handler of SIGUSR2 runs.  Only a blocked system call notices, and
\* fails with EINTR, or is sigwait, which waits for SIGUSR2 as well and ends its
\* job; at any other time the signal is lost.
HandleUsr2(w) ==
    /\ worker[w].usr2
    /\ IF worker[w].at = "call"
       THEN /\ worker' = [worker EXCEPT ![w].usr2 = FALSE, ![w].at = "done"]
            /\ job' = [job EXCEPT ![worker[w].id].result =
                          IF job[worker[w].id].kind = "sigwait"
                          THEN "value" ELSE "EINTR"]
       ELSE /\ worker' = [worker EXCEPT ![w].usr2 = FALSE]
            /\ UNCHANGED job
    /\ UNCHANGED <<loop, pool, coro, notify>>

\* sigwait returns a signal; its number goes to the pipe and the job waits on.
\* One signal is enough: handling a second one changes nothing.
SignalArrives(w) ==
    /\ worker[w].at = "call" /\ job[worker[w].id].kind = "sigwait"
    /\ ~ killed_by_signal /\ Signal \notin Members(completed_jobs \o notify)
    /\ notify' = Append(notify, Signal)
    /\ UNCHANGED <<loop, pool, coro, job, worker>>

SetWaiting(w) ==
    /\ worker[w].at = "done"
    /\ worker' = [worker EXCEPT ![w].at = "notify", ![w].waiting = TRUE]
    /\ UNCHANGED <<loop, pool, coro, job, notify>>

\* Mutant of Notify: a stale EINTR in errno makes the loop write again.
NotifyTwice(w) ==
    /\ worker[w].at = "notify"
    /\ worker' = [worker EXCEPT ![w].at = "sent"]
    /\ notify' = notify \o <<worker[w].id, worker[w].id>>
    /\ UNCHANGED <<loop, pool, coro, job>>

\* write to the pipe; repeated when a signal interrupts it.
Notify(w) ==
    /\ worker[w].at = "notify"
    /\ worker' = [worker EXCEPT ![w].at = "sent"]
    /\ notify' = Append(notify, worker[w].id)
    /\ UNCHANGED <<loop, pool, coro, job>>

\* The worker waits to be woken, which may already have happened.
Wait(w) ==
    /\ worker[w].at = "sent"
    /\ worker' = [worker EXCEPT ![w].at = "wait"]
    /\ UNCHANGED <<loop, pool, coro, job, notify>>

\* The wait for the wake-up returns.  Like every return from the kernel it
\* handles a pending SIGUSR2.  Then job and job_id are read again.
Wakeup(w) ==
    /\ worker[w].at = "wait" /\ worker[w].usr1
    /\ worker' = [worker EXCEPT
         ![w].at = IF worker[w].job = None THEN "exit" ELSE "begin",
         ![w].id = worker[w].job_id, ![w].usr1 = FALSE, ![w].usr2 = FALSE]
    /\ UNCHANGED <<loop, pool, coro, job, notify>>

-----------------------------------------------------------------------------
(* The event loop: run_forever, poll, handle_completed_job. *)

\* wait_for_event returns when there is something to do.
Poll ==
    /\ phase = "poll"
    /\ ~ LoopDone
    /\ run_later # <<>> \/ notify # <<>>
    /\ IF notify # <<>>
       THEN phase' = "fetch" /\ UNCHANGED left
       ELSE phase' = "run" /\ left' = Len(run_later)
    /\ UNCHANGED <<curr, run_later, completed_jobs, full, fatal, killed_by_signal,
                   pool, coro, job, worker, notify>>

\* fetch_completion: one read of the non-blocking pipe.  On Windows the ids come
\* as events of the completion port, and there is no second read.
Fetch ==
    /\ phase = "fetch" /\ notify # <<>>
    /\ LET n == IF Len(notify) < config.buffer THEN Len(notify) ELSE config.buffer IN
       /\ completed_jobs' = SubSeq(notify, 1, n)
       /\ notify' = SubSeq(notify, n + 1, Len(notify))
       /\ full' = (n = config.buffer /\ ~ config.windows)
    /\ phase' = "handle"
    /\ UNCHANGED <<left, curr, run_later, fatal, killed_by_signal, pool, coro, job,
                   worker>>

\* A read of the empty pipe fails with EAGAIN, an error run_forever does not
\* expect.
FetchFails ==
    /\ phase = "fetch" /\ notify = <<>>
    /\ fatal' = TRUE /\ phase' = "abort"
    /\ UNCHANGED <<left, curr, run_later, completed_jobs, full, killed_by_signal,
                   pool, coro, job, worker, notify>>

\* Mutant of StillRunning: the id stays in running_workers.
StaleRunning(id) == running_workers

\* running_workers after the completion of id.
StillRunning(id) == Without(running_workers, id)

\* The worker takes the first queued job, or becomes idle.
TakeQueued(w, id) ==
    /\ job_queue # <<>>
    /\ worker' = wake_worker(worker, w, Head(job_queue), Head(job_queue))
    /\ running_workers' = With(StillRunning(id), Head(job_queue), w)
    /\ job_queue' = Tail(job_queue)
    /\ UNCHANGED <<config, job_id, idle_workers>>

\* Mutant of EnterIdle: the queue is not looked at.
EnterIdleUnasked(w, id) ==
    /\ worker' = worker_enter_idle(worker, w)
    /\ running_workers' = StillRunning(id)
    /\ idle_workers' = Append(idle_workers, w)
    /\ UNCHANGED <<config, job_id, job_queue>>

EnterIdle(w, id) ==
    /\ job_queue = <<>>
    /\ worker' = worker_enter_idle(worker, w)
    /\ running_workers' = StillRunning(id)
    /\ idle_workers' = Append(idle_workers, w)
    /\ UNCHANGED <<config, job_id, job_queue>>

\* Coroutine::cancel: a coroutine that waits unshielded is woken.
CancelCoroutine(t) ==
    /\ coro' = [coro EXCEPT ![t].cancelled = @ \/ coro[t].at # "end"]
    /\ run_later' = IF coro[t].at = "wait" /\ ~ coro[t].cancelled
                    THEN wake(run_later, {t}) ELSE run_later

\* Mutant of HandleSignal: the signal is noted and main is not cancelled.
HandleSignalOnly == killed_by_signal' = TRUE /\ UNCHANGED <<coro, run_later>>

HandleSignal == killed_by_signal' = TRUE /\ CancelCoroutine(Main)

\* handle_completed_job, for the first of the ids that were read.
handle_completed_job ==
    /\ phase = "handle" /\ completed_jobs # <<>>
    /\ LET id == Head(completed_jobs) IN
       \/ IsSignal(id) /\ HandleSignal /\ UNCHANGED <<pool, worker>>
       \/ /\ ~ IsSignal(id)
          /\ TakeQueued(running_workers[id], id) \/ EnterIdle(running_workers[id], id)
          /\ run_later' = wake(run_later, Waiter(id))
          /\ UNCHANGED <<killed_by_signal, coro>>
    /\ completed_jobs' = Tail(completed_jobs)
    /\ UNCHANGED <<phase, left, curr, full, fatal, job, notify>>

\* All ids are handled: read again if the buffer was filled, else reschedule.
BatchDone ==
    /\ phase = "handle" /\ completed_jobs = <<>>
    /\ IF full THEN phase' = "fetch" /\ UNCHANGED left
               ELSE phase' = "run" /\ left' = Len(run_later)
    /\ UNCHANGED <<curr, run_later, completed_jobs, full, fatal, killed_by_signal,
                   pool, coro, job, worker, notify>>

\* cleanup after a fatal error cancels the coroutines in jobs, in the map's
\* order, which is the order of submission.
AbortWaiter(t) ==
    /\ phase = "abort" /\ curr = None
    /\ coro[t].at \notin {"start", "end"} /\ ~ coro[t].cancelled
    /\ \A u \in Tasks : (coro[u].at \notin {"start", "end"} /\ ~ coro[u].cancelled)
                           => coro[t].job <= coro[u].job
    /\ CancelCoroutine(t)
    /\ UNCHANGED <<phase, left, curr, completed_jobs, full, fatal, killed_by_signal,
                   pool, job, worker, notify>>

\* run_forever ends, or the coroutines are cancelled: the idle workers are freed.
StartCleanup ==
    /\ \/ phase = "poll" /\ LoopDone
       \/ /\ phase = "abort"
          /\ \A t \in Tasks : coro[t].at \in {"start", "end"} \/ coro[t].cancelled
    /\ phase' = "cleanup"
    /\ UNCHANGED <<left, curr, run_later, completed_jobs, full, fatal,
                   killed_by_signal, pool, coro, job, worker, notify>>

\* free_worker: wake the worker without a job, then join its thread.
free_worker(w) ==
    /\ phase = "cleanup"
    /\ w \in Members(idle_workers) /\ worker[w].at # "freed"
    /\ worker' = wake_worker(worker, w, None, None)
    /\ phase' = "join" /\ curr' = w
    /\ UNCHANGED <<left, run_later, completed_jobs, full, fatal, killed_by_signal,
                   pool, coro, job, notify>>

Join ==
    /\ phase = "join" /\ worker[curr].at = "exit"
    /\ worker' = [worker EXCEPT ![curr].at = "freed"]
    /\ phase' = "cleanup" /\ curr' = None
    /\ UNCHANGED <<left, run_later, completed_jobs, full, fatal, killed_by_signal,
                   pool, coro, job, notify>>

\* All idle workers are freed.  After a fatal error the coroutines that are
\* ready run once more, without polling.
CleanupDone ==
    /\ phase = "cleanup"
    /\ \A w \in Members(idle_workers) : worker[w].at = "freed"
    /\ phase' = IF fatal THEN "drain" ELSE "closed"
    /\ UNCHANGED <<left, curr, run_later, completed_jobs, full, fatal,
                   killed_by_signal, pool, coro, job, worker, notify>>

DrainDone ==
    /\ phase = "drain" /\ curr = None /\ no_more_work
    /\ phase' = "closed"
    /\ UNCHANGED <<left, curr, run_later, completed_jobs, full, fatal,
                   killed_by_signal, pool, coro, job, worker, notify>>

-----------------------------------------------------------------------------
(* Coroutines, run by reschedule. *)

\* Mutant of reschedule: coroutines woken meanwhile run in the same round.
RescheduleAll ==
    /\ curr = None /\ run_later # <<>>
    /\ \/ phase = "run" /\ left' = left - 1
       \/ phase = "drain" /\ UNCHANGED left
    /\ curr' = Head(run_later) /\ run_later' = Tail(run_later)
    /\ UNCHANGED <<phase, completed_jobs, full, fatal, killed_by_signal, pool, coro,
                   job, worker, notify>>

reschedule ==
    /\ curr = None /\ run_later # <<>>
    /\ \/ phase = "run" /\ left > 0 /\ left' = left - 1
       \/ phase = "drain" /\ UNCHANGED left
    /\ curr' = Head(run_later) /\ run_later' = Tail(run_later)
    /\ UNCHANGED <<phase, completed_jobs, full, fatal, killed_by_signal, pool, coro,
                   job, worker, notify>>

RescheduleDone ==
    /\ phase = "run" /\ curr = None /\ left = 0
    /\ phase' = "poll"
    /\ UNCHANGED <<left, curr, run_later, completed_jobs, full, fatal,
                   killed_by_signal, pool, coro, job, worker, notify>>

Runs(t) == phase \in {"run", "drain"} /\ curr = t

\* t leaves the processor at the given place.
Suspend(t, at) == curr' = None /\ coro' = [coro EXCEPT ![t].at = at]

\* t raises an error out of its operation and ends.
Raise(t, result) ==
    /\ curr' = None
    /\ coro' = [coro EXCEPT ![t].at = "end", ![t].result = result]

\* The kinds of jobs t submits: where signals are looked at, Main runs the program
\* and the other coroutines are those of setup_signal_handler.
Submits(t) == IF "sigwait" \in config.kinds /\ t # Main THEN {"sigwait"}
                                                       ELSE config.kinds \ {"sigwait"}

\* perform_job_in_worker up to the suspension in wait_for_job.
perform_job_in_worker(t, kind) ==
    /\ Runs(t) /\ coro[t].at = "start" /\ ~ coro[t].cancelled
    /\ job_id < MaxJobs
    /\ job_id' = job_id + 1
    /\ job' = With(job, job_id, [kind |-> kind, result |-> "new"])
    /\ \/ /\ idle_workers # <<>>
          /\ worker' = wake_worker(worker, Head(idle_workers), job_id, job_id)
          /\ running_workers' = With(running_workers, job_id, Head(idle_workers))
          /\ idle_workers' = Tail(idle_workers)
          /\ UNCHANGED job_queue
       \/ /\ idle_workers = <<>> /\ Cardinality(DOMAIN running_workers) >= config.max_worker_count
          /\ job_queue' = Append(job_queue, job_id)
          /\ UNCHANGED <<worker, running_workers, idle_workers>>
       \/ /\ idle_workers = <<>> /\ Cardinality(DOMAIN running_workers) < config.max_worker_count
          /\ LET w == CHOOSE v \in Workers : worker[v].at = "none" IN
               /\ worker' = spawn_worker(worker, w, job_id)
               /\ running_workers' = With(running_workers, job_id, w)
          /\ UNCHANGED <<job_queue, idle_workers>>
    /\ coro' = [coro EXCEPT ![t].job = job_id, ![t].result = "none",
                            ![t].at = IF kind = "shielded" THEN "shield" ELSE "wait"]
    /\ curr' = None
    /\ UNCHANGED <<config, phase, left, run_later, completed_jobs, full, fatal,
                   killed_by_signal, notify>>

\* The coroutine ends, normally or because check_cancellation raises.
End(t) ==
    /\ Runs(t) /\ coro[t].at = "start"
    /\ Suspend(t, "end")
    /\ UNCHANGED <<phase, left, run_later, completed_jobs, full, fatal,
                   killed_by_signal, pool, job, worker, notify>>

\* wait_for_job returns; perform_job_in_worker reads err and ret.
JobReturns(t) ==
    /\ Runs(t)
    /\ coro[t].at = "shield" \/ (coro[t].at = "wait" /\ ~ coro[t].cancelled)
    /\ LET result == job[coro[t].job].result IN
       IF result = "EINTR"
       THEN Raise(t, "Cancelled")
       ELSE /\ coro' = [coro EXCEPT ![t].at = "start", ![t].job = None,
                                    ![t].result = result]
            /\ UNCHANGED curr
    /\ UNCHANGED <<phase, left, run_later, completed_jobs, full, fatal,
                   killed_by_signal, pool, job, worker, notify>>

\* t is in the loop of wait_for_job that calls cancel_func.
Cancelling(t) ==
    /\ Runs(t)
    /\ coro[t].at = "retry" \/ (coro[t].at = "wait" /\ coro[t].cancelled)

\* NoWait: the job is not given to a worker, or not any more.
CancelNoWait(t) ==
    /\ Cancelling(t)
    /\ job[coro[t].job].kind = "detached" \/ coro[t].job \notin DOMAIN running_workers
    /\ Raise(t, "Cancelled")
    /\ UNCHANGED <<phase, left, run_later, completed_jobs, full, fatal,
                   killed_by_signal, pool, job, worker, notify>>

\* cancel_worker tests waiting: NeedWait if the job is done.
CancelTests(t) ==
    /\ Cancelling(t)
    /\ job[coro[t].job].kind \in {"cancellable", "sigwait"} /\ coro[t].job \in DOMAIN running_workers
    /\ IF worker[running_workers[coro[t].job]].waiting
       THEN Suspend(t, "shield") /\ UNCHANGED phase
       ELSE phase' = "cancel" /\ UNCHANGED <<curr, coro>>
    /\ UNCHANGED <<left, run_later, completed_jobs, full, fatal, killed_by_signal,
                   pool, job, worker, notify>>

AfterCancel == phase' = IF fatal THEN "drain" ELSE "run"

\* RetryLater: pause, then cancel again.
RetryLater == AfterCancel /\ Suspend(curr, "retry") /\ run_later' = Append(run_later, curr)

\* Mutant of CancelBySignal: cancel_worker reports NeedWait after one signal.
CancelOnce ==
    /\ phase = "cancel" /\ ~ config.windows
    /\ worker' = [worker EXCEPT ![running_workers[coro[curr].job]].usr2 = TRUE]
    /\ AfterCancel /\ Suspend(curr, "shield")
    /\ UNCHANGED <<left, run_later, completed_jobs, full, fatal, killed_by_signal,
                   pool, job, notify>>

\* pthread_kill(SIGUSR2).
CancelBySignal ==
    /\ phase = "cancel" /\ ~ config.windows
    /\ worker' = [worker EXCEPT ![running_workers[coro[curr].job]].usr2 = TRUE]
    /\ RetryLater
    /\ UNCHANGED <<left, completed_jobs, full, fatal, killed_by_signal, pool, job,
                   notify>>

\* Mutant of CancelError: the error is raised at once.
CancelErrorAtOnce == AfterCancel /\ Raise(curr, "error")

\* The cancel function raised an error: the job is waited for all the same.
CancelError == AfterCancel /\ Suspend(curr, "raise")

\* CancelSynchronousIo finds a blocked call, which it ends (or which
\* returns first); or finds none; or fails.
CancelSynchronousIo ==
    /\ phase = "cancel" /\ config.windows
    /\ LET w == running_workers[coro[curr].job] IN
       \/ /\ worker[w].at = "call"
          /\ AfterCancel /\ Suspend(curr, "shield")
          /\ worker' = [worker EXCEPT ![w].at = "done"]
          /\ \E result \in {"value", "error", "EINTR"} :
               job' = [job EXCEPT ![worker[w].id].result = result]
          /\ UNCHANGED run_later
       \/ worker[w].at # "call" /\ RetryLater /\ UNCHANGED <<worker, job>>
       \/ CancelError /\ UNCHANGED <<run_later, worker, job>>
    /\ UNCHANGED <<left, completed_jobs, full, fatal, killed_by_signal, pool, notify>>

\* The job whose cancellation failed is done; the error of cancel is raised.
CancelFailed(t) ==
    /\ Runs(t) /\ coro[t].at = "raise"
    /\ Raise(t, "error")
    /\ UNCHANGED <<phase, left, run_later, completed_jobs, full, fatal,
                   killed_by_signal, pool, job, worker, notify>>

\* Coroutine::cancel, by another coroutine or by a timer.
Cancel(t) ==
    /\ phase \in {"poll", "run"} /\ curr # t
    /\ coro[t].at # "end" /\ ~ coro[t].cancelled
    /\ CancelCoroutine(t)
    /\ UNCHANGED <<phase, left, curr, completed_jobs, full, fatal, killed_by_signal,
                   pool, job, worker, notify>>

-----------------------------------------------------------------------------
Finished == phase = "closed" /\ UNCHANGED vars

\* After a fatal error reschedule is repeated until no coroutine is suspended,
\* also when none is ready.
DrainSpins ==
    /\ phase = "drain" /\ curr = None /\ run_later = <<>> /\ ~ no_more_work
    /\ UNCHANGED vars

WorkerStep(w) == StartJob(w) \/ SetWaiting(w) \/ Notify(w) \/ Wait(w) \/ Wakeup(w)

LoopStep ==
    \/ Poll \/ Fetch \/ FetchFails \/ handle_completed_job \/ BatchDone
    \/ StartCleanup \/ Join \/ CleanupDone \/ DrainDone \/ reschedule \/ RescheduleDone
    \/ CancelBySignal \/ CancelSynchronousIo
    \/ \E w \in Workers : free_worker(w)
    \/ \E t \in Tasks : \/ AbortWaiter(t) \/ End(t) \/ JobReturns(t)
                        \/ CancelNoWait(t) \/ CancelTests(t) \/ CancelFailed(t)
                        \/ \E kind \in Submits(t) : perform_job_in_worker(t, kind)

Next ==
    \/ LoopStep
    \/ \E w \in Workers : WorkerStep(w) \/ HandleUsr2(w) \/ SignalArrives(w)
    \/ \E w \in Workers, result \in {"value", "error"} : CallReturns(w, result)
    \/ \E t \in Tasks : Cancel(t)
    \/ Finished \/ DrainSpins

Spec == Init /\ [][Next]_vars

\* The threads run on and handle signals.  Every system call returns except those
\* of cancellable jobs: a lock, a terminal or a child process may block for ever.
FairSpec ==
    /\ Spec /\ WF_vars(LoopStep)
    /\ \A w \in Workers :
         /\ WF_vars(WorkerStep(w)) /\ WF_vars(HandleUsr2(w))
         /\ WF_vars(/\ worker[w].at = "call" /\ job[worker[w].id].kind \in {"shielded", "detached"}
                    /\ \E result \in {"value", "error"} : CallReturns(w, result))
-----------------------------------------------------------------------------
(* Properties. *)

\* The ids in the pipe and in the buffer of the loop are ids of different jobs
\* that running_workers knows, and the worker of each has finished with it: a
\* completion is never delivered twice, nor to a worker that is busy.
OneCompletionPerJob ==
    LET ids == completed_jobs \o notify IN
      /\ \A k \in 1 .. Len(ids), l \in 1 .. Len(ids) : ids[k] = ids[l] => k = l
      /\ \A k \in 1 .. Len(ids) : ~ IsSignal(ids[k]) =>
           /\ ids[k] \in DOMAIN running_workers
           /\ worker[running_workers[ids[k]]].id = ids[k]
           /\ worker[running_workers[ids[k]]].at \in {"sent", "wait"}

\* perform_job_in_worker queues a job only when the pool is saturated, and
\* handle_completed_job keeps it saturated while jobs are queued: no job waits
\* while a worker is idle or could be spawned, and no more than
\* max_worker_count threads exist.
QueuedOnlyWhenSaturated ==
    /\ job_queue # <<>> => /\ idle_workers = <<>>
                           /\ Cardinality(DOMAIN running_workers) = config.max_worker_count
    /\ Cardinality({w \in Workers : worker[w].at # "none"}) <= config.max_worker_count

\* While a worker executes a job, the reference it owns (worker->job) is to
\* that job: wake_worker and worker_enter_idle never release a job in use.
JobAliveWhileRunning ==
    \A w \in Workers : worker[w].at \in {"begin", "call", "done"}
                         => worker[w].job = worker[w].id

\* Without a fatal error the loop returns only after every job was executed,
\* also the jobs whose waiter was cancelled, and every thread was joined.
CleanShutdown ==
    phase = "closed" /\ ~ fatal =>
      /\ \A w \in Workers : worker[w].at \in {"none", "freed"}
      /\ \A id \in DOMAIN job : job[id].result \notin {"new", "running"}

\* The promise to coroutines, see JobService.
Service == INSTANCE JobService WITH
    Jobs   <- Ids,
    call   <- [t \in Tasks |-> IF coro[t].at = "end" THEN None ELSE coro[t].job],
    asked  <- {t \in Tasks : coro[t].cancelled},
    state  <- [id \in DOMAIN job |-> job[id].result],
    answer <- [t \in Tasks |-> coro[t].result]

\* Jobs start once and only a cancelled coroutine's job is interrupted by
\* SIGUSR2, although workers are reused and signals arrive late.
ImplementsJobService == Service!Spec

\* A coroutine that is cancelled in an operation with a cancel function ends
\* even if its system call would block for ever: a SIGUSR2 that comes before the
\* call blocks is lost, and is sent again.  Exceptions are a failing
\* CancelSynchronousIo and a fatal error of the loop.
CancelledEnds ==
    \A t \in Tasks : coro[t].cancelled /\ coro[t].at = "wait"
                       ~> coro[t].at \in {"end", "raise"} \/ fatal

\* A system call that need not return and that nobody waits for any more.
Abandoned(w) ==
    /\ worker[w].at = "call" /\ job[worker[w].id].kind \in {"cancellable", "sigwait"}
    /\ Waiter(worker[w].id) = {}

\* When its coroutines have ended the loop executes what is left, joins the
\* workers and returns: nobody waits for a wake-up that was sent too early or
\* not at all.  Only an abandoned call that blocks for ever prevents it.
LoopReturns ==
    (\A t \in Tasks : coro[t].at = "end")
      ~> (phase = "closed" \/ [](\E w \in Workers : Abandoned(w)))

\* A signal ends main, also when main is blocked for ever in a call that can be
\* cancelled: the signal is not taken for a completion nor lost with a batch, and
\* the cancellation gets through.  (Not after a fatal error.)
SignalEndsMain ==
    Signal \in Members(notify) ~> coro[Main].at \in {"end", "raise"} \/ fatal

\* README.md: when a task group returns there is no resource leak.  A coroutine
\* that ends with Cancelled would leave no value (such as an open file) behind.
NoValueDropped ==
    \A t \in Tasks : coro[t].at = "end" /\ coro[t].job # None
                       => job[coro[t].job].result # "value"

=============================================================================
