-------------------------- MODULE ThreadPoolProofs --------------------------
(***************************************************************************)
(* Proofs about ThreadPool, for any coroutines, workers, pools and number  *)
(* of jobs, as long as the ids of the jobs stay below the bit that marks   *)
(* signals (FewJobs).                                                      *)
(***************************************************************************)
EXTENDS ThreadPool, FiniteSetTheorems, FunctionTheorems, SequenceTheorems, TLAPS

\* Nothing in event_loop.mbt keeps job_id below the bit that marks signals.  From
\* there on a completion is taken for a signal.
FewJobs == MaxJobs <= Signal

\* No member occurs twice.
Distinct(s) == \A k, l \in 1 .. Len(s) : s[k] = s[l] => k = l

\* The completions and signals that are on their way to handle_completed_job.
Pipe == completed_jobs \o notify

Over(id) == job[id].result \notin {"new", "running"}

\* The thread of a busy worker has taken its job, and works on it or has reported
\* it.
Taken(id) ==
    LET wk == worker[running_workers[id]] IN
      /\ wk.id = id /\ ~ wk.usr1
      /\ wk.at \in {"begin", "call", "done", "notify", "sent", "wait"}
      /\ wk.at = "begin" => job[id].result = "new"
      /\ wk.at = "call" => job[id].result = "running"
      /\ wk.at \notin {"begin", "call"} => Over(id)

\* The worker was given the job and its thread has not noticed yet (and never will
\* if it was freed by cleanup after a fatal error).
HandedOver(id) ==
    LET wk == worker[running_workers[id]] IN
      /\ wk.usr1 /\ wk.at \in {"sent", "wait", "freed"} /\ job[id].result = "new"

BusyOK ==
    \A id \in DOMAIN running_workers :
      /\ worker[running_workers[id]].job = id /\ worker[running_workers[id]].job_id = id
      /\ running_workers[id] \notin Members(idle_workers)
      /\ Taken(id) \/ HandedOver(id)

\* An idle worker waits without a job, is being freed, or is freed.
IdleOK ==
    /\ Distinct(idle_workers)
    /\ \A w \in Members(idle_workers) :
         \/ /\ worker[w].at \in {"sent", "wait"} /\ worker[w].job = None
            /\ worker[w].usr1 => phase = "join" /\ curr = w
         \/ worker[w].at = "exit" /\ phase = "join" /\ curr = w
         \/ worker[w].at = "freed"

\* A worker has one job at most; the others are idle or not spawned.
WorkersOK ==
    /\ \A i, j \in DOMAIN running_workers : running_workers[i] = running_workers[j] => i = j
    /\ \A w \in Workers :
         \/ worker[w].at = "none" /\ ~ worker[w].usr1 /\ ~ worker[w].usr2
         \/ worker[w].at # "none" /\ w \in Members(idle_workers)
         \/ \E id \in DOMAIN running_workers : running_workers[id] = w

PipeOK ==
    /\ Distinct(Pipe)
    /\ \A id \in Members(Pipe) \ {Signal} :
         /\ id \in DOMAIN running_workers /\ Taken(id)
         /\ worker[running_workers[id]].at \in {"sent", "wait"}

\* Every job is queued, given to a worker, or finished.
JobsOK ==
    /\ Distinct(job_queue)
    /\ \A id \in Members(job_queue) : /\ id \in DOMAIN job /\ job[id].result = "new"
                                      /\ id \notin DOMAIN running_workers
    /\ DOMAIN running_workers \subseteq DOMAIN job
    /\ \A id \in DOMAIN job : id \in DOMAIN running_workers \cup Members(job_queue) \/ Over(id)

\* What the loop thread does, and with whom.
PhaseOK ==
    /\ phase = "join" => curr \in Workers
    /\ phase # "join" => curr \in Tasks \cup {None}
    /\ phase \in {"poll", "fetch", "handle", "abort", "cleanup", "closed"} => curr = None
    /\ phase # "handle" => completed_jobs = <<>>
    /\ phase \in {"abort", "drain"} => fatal
    /\ phase \in {"cleanup", "join", "closed"} /\ ~ fatal => DOMAIN running_workers = {}
    /\ phase = "closed" /\ ~ fatal => \A w \in Members(idle_workers) : worker[w].at = "freed"
    /\ phase = "cancel" => /\ curr # None /\ coro[curr].cancelled
                           /\ coro[curr].at \in {"wait", "retry"}
                           /\ coro[curr].job \in DOMAIN running_workers
                           /\ job[coro[curr].job].kind \in {"cancellable", "sigwait"}

InCall(t) == coro[t].at \notin {"start", "end"}

\* Every coroutine in a call waits for a job of its own.
CallsOK ==
    /\ \A t \in Tasks : coro[t].at = "start" => coro[t].job = None
    /\ \A t \in Tasks : InCall(t) => coro[t].job \in DOMAIN job
    /\ \A t, u \in Tasks : InCall(t) /\ InCall(u) /\ coro[t].job = coro[u].job => t = u
    /\ \A t \in Tasks : coro[t].at \in {"retry", "raise"} => coro[t].cancelled

\* The coroutine waits for the end of its job whatever happens.
AwaitsEnd(t) == coro[t].at \in {"shield", "raise"} \/ (coro[t].at = "wait" /\ ~ coro[t].cancelled)

\* A coroutine is scheduled once, and when it awaits the end of its job, only
\* after that.
QueueOK ==
    /\ Distinct(run_later)
    /\ phase # "join" => curr \notin Members(run_later)
    /\ \A t \in Tasks : t \in Members(run_later) \/ (curr = t /\ phase # "join")
                          => (AwaitsEnd(t) => Over(coro[t].job))

\* A SIGUSR2 that can interrupt a job was sent by its coroutine, and only the job
\* of a cancelled coroutine has been interrupted.
SignalOK ==
    /\ \A w \in Workers : worker[w].usr2 /\ worker[w].at \in {"begin", "call"} =>
         /\ job[worker[w].id].kind \in {"cancellable", "sigwait"}
         /\ \E t \in Tasks : InCall(t) /\ coro[t].cancelled /\ coro[t].job = worker[w].id
    /\ \A t \in Tasks : InCall(t) /\ job[coro[t].job].result = "EINTR" => coro[t].cancelled

IndInv ==
    /\ TypeOK /\ BusyOK /\ IdleOK /\ WorkersOK /\ PipeOK /\ JobsOK /\ PhaseOK /\ CallsOK
    /\ QueueOK /\ SignalOK /\ QueuedOnlyWhenSaturated

-----------------------------------------------------------------------------
(* Sequences and the helpers of the model. *)

\* The members of a sequence, of its parts and of its extensions.
LEMMA MembersType ==
    ASSUME NEW S, NEW s \in Seq(S)
    PROVE  /\ Members(s) \subseteq S
           /\ \A k \in 1 .. Len(s) : s[k] \in Members(s)
           /\ s = <<>> <=> Members(s) = {}
<1>1. Len(s) \in Nat /\ \A k \in 1 .. Len(s) : s[k] \in S
  BY ElementOfSeq, LenProperties
<1>2. s = <<>> <=> Len(s) = 0
  BY EmptySeq
<1>3. s # <<>> => s[1] \in Members(s)
  BY <1>1, <1>2 DEF Members
<1>4. s = <<>> => Members(s) = {}
  BY <1>2 DEF Members
<1> QED BY <1>1, <1>3, <1>4 DEF Members

LEMMA MembersAppend ==
    ASSUME NEW S, NEW s \in Seq(S), NEW e \in S
    PROVE  /\ Append(s, e) \in Seq(S)
           /\ Members(Append(s, e)) = Members(s) \cup {e}
           /\ Distinct(s) /\ e \notin Members(s) => Distinct(Append(s, e))
<1>1. /\ Append(s, e) \in Seq(S) /\ Len(Append(s, e)) = Len(s) + 1
      /\ \A i \in 1 .. Len(s) : Append(s, e)[i] = s[i]
      /\ Append(s, e)[Len(s) + 1] = e /\ Len(s) \in Nat
  BY AppendProperties, LenProperties
<1>2. Members(Append(s, e)) = Members(s) \cup {e}
  BY <1>1 DEF Members
<1>3. Distinct(s) /\ e \notin Members(s) => Distinct(Append(s, e))
  BY <1>1 DEF Members, Distinct
<1> QED BY <1>1, <1>2, <1>3

LEMMA MembersTail ==
    ASSUME NEW S, NEW s \in Seq(S), s # <<>>
    PROVE  /\ Head(s) \in S /\ Tail(s) \in Seq(S)
           /\ Members(s) = Members(Tail(s)) \cup {Head(s)}
           /\ Distinct(s) => Distinct(Tail(s)) /\ Head(s) \notin Members(Tail(s))
<1>1. /\ Head(s) = s[1] /\ Head(s) \in S /\ Tail(s) \in Seq(S)
      /\ Len(Tail(s)) = Len(s) - 1 /\ Len(s) \in Nat \ {0}
      /\ \A i \in 1 .. Len(s) - 1 : Tail(s)[i] = s[i + 1]
  BY HeadTailProperties, EmptySeq
<1>2. \A i \in 1 .. Len(s) : i = 1 \/ (i - 1 \in 1 .. Len(Tail(s)) /\ s[i] = Tail(s)[i - 1])
  BY <1>1
<1>3. Members(s) = Members(Tail(s)) \cup {Head(s)}
  <2>1. ASSUME NEW k \in 1 .. Len(s) PROVE s[k] \in Members(Tail(s)) \cup {Head(s)}
    <3>1. CASE k = 1
      BY <3>1, <1>1
    <3>2. CASE k - 1 \in 1 .. Len(Tail(s)) /\ s[k] = Tail(s)[k - 1]
      BY <3>2 DEF Members
    <3> QED BY <1>2, <3>1, <3>2
  <2>2. \A x \in Members(Tail(s)) : x \in Members(s)
    BY <1>1 DEF Members
  <2> QED BY <1>1, <2>1, <2>2 DEF Members
<1>4. Distinct(s) => Distinct(Tail(s)) /\ Head(s) \notin Members(Tail(s))
  BY <1>1 DEF Members, Distinct
<1> QED BY <1>1, <1>3, <1>4

\* Coroutine::wake schedules the coroutine, once.
LEMMA WakeOnce ==
    ASSUME NEW s \in Seq(Tasks), NEW ts \in SUBSET Tasks, \A t, u \in ts : t = u
    PROVE  /\ wake(s, ts) \in Seq(Tasks)
           /\ Members(wake(s, ts)) = Members(s) \cup ts
           /\ Distinct(s) => Distinct(wake(s, ts))
<1>1. CASE ts \subseteq Members(s)
  BY <1>1 DEF wake
<1>2. CASE ~ (ts \subseteq Members(s))
  <2> DEFINE e == CHOOSE t \in ts : TRUE
  <2>1. e \in Tasks /\ ts = {e} /\ e \notin Members(s)
    BY <1>2
  <2> HIDE DEF e
  <2>2. wake(s, ts) = Append(s, e)
    <3>1. wake(s, ts) = s \o <<e>>
      BY <1>2 DEF wake, e
    <3>2. Append(s, e) = s \o <<e>>
      BY <2>1, AppendIsConcat, Zenon
    <3> QED BY <3>1, <3>2
  <2>3. /\ Append(s, e) \in Seq(Tasks) /\ Members(Append(s, e)) = Members(s) \cup {e}
        /\ Distinct(s) => Distinct(Append(s, e))
    BY <2>1, MembersAppend
  <2> QED BY <2>1, <2>2, <2>3
<1> QED BY <1>1, <1>2

\* A power of two is the size of a powerset.
LEMMA PowersOfTwo == \A n \in Nat : 2^n \in Nat
<1> SUFFICES ASSUME NEW n \in Nat PROVE 2^n \in Nat
  OBVIOUS
<1>1. IsFiniteSet(1 .. n) /\ Cardinality(1 .. n) = n
  BY FS_Interval
<1>2. IsFiniteSet(SUBSET (1 .. n)) /\ Cardinality(SUBSET (1 .. n)) = 2^n
  BY <1>1, FS_SUBSET
<1> QED BY <1>2, FS_CardinalityType

\* Jobs and signals are told apart, and None is neither.
LEMMA IdFacts ==
    ASSUME FewJobs
    PROVE  /\ MaxJobs \in Nat /\ Signal \in Nat
           /\ \A id \in Ids : ~ IsSignal(id)
           /\ IsSignal(Signal) /\ Signal \notin Ids
           /\ None \notin Ids /\ None \notin Tasks /\ None \notin Workers
           /\ Main \in Tasks
<1>1. IdBits \in Nat /\ IdBits - 1 \in Nat /\ 2^IdBits \in Nat /\ Signal \in Nat
  BY PoolAssumption, PowersOfTwo DEF Signal
<1>2. MaxJobs \in Nat /\ MaxJobs <= 2^IdBits
  BY <1>1, PoolAssumption
<1> QED BY <1>1, <1>2, PoolAssumption DEF FewJobs, Ids, Signal, IsSignal

-----------------------------------------------------------------------------
(* The steps of the worker threads. *)

LEMMA MembersFacts ==
    ASSUME TypeOK
    PROVE  /\ Members(idle_workers) \subseteq Workers /\ Members(run_later) \subseteq Tasks
           /\ Members(job_queue) \subseteq Ids
           /\ Pipe \in Seq(Ids \cup {Signal}) /\ Members(Pipe) \subseteq Ids \cup {Signal}
<1>1. Pipe \in Seq(Ids \cup {Signal})
  BY ConcatProperties DEF Pipe, TypeOK
<1> QED BY <1>1, MembersType DEF TypeOK

\* Updates of the fields of a worker, and of one worker.
LEMMA WorkerType ==
    ASSUME TypeOK, NEW w \in Workers
    PROVE  /\ worker \in [Workers -> Worker] /\ worker[w] \in Worker
           /\ \A wk \in Worker : [worker EXCEPT ![w] = wk] \in [Workers -> Worker]
  BY DEF TypeOK

LEMMA WorkerFields ==
    ASSUME NEW wk \in Worker
    PROVE  /\ \A at \in {"none", "begin", "call", "done", "notify", "sent", "wait", "exit",
                          "freed"} : [wk EXCEPT !.at = at] \in Worker
           /\ \A b \in BOOLEAN : /\ [wk EXCEPT !.waiting = b] \in Worker
                                 /\ [wk EXCEPT !.usr1 = b] \in Worker
                                 /\ [wk EXCEPT !.usr2 = b] \in Worker
           /\ \A id \in Ids \cup {None} : /\ [wk EXCEPT !.id = id] \in Worker
                                          /\ [wk EXCEPT !.job = id] \in Worker
                                          /\ [wk EXCEPT !.job_id = id] \in Worker
<1>1. \A at \in {"none", "begin", "call", "done", "notify", "sent", "wait", "exit",
                          "freed"} : [wk EXCEPT !.at = at] \in Worker
  BY DEF Worker
<1>2. \A b \in BOOLEAN : [wk EXCEPT !.waiting = b] \in Worker
  BY DEF Worker
<1>3. \A b \in BOOLEAN : [wk EXCEPT !.usr1 = b] \in Worker
  BY DEF Worker
<1>4. \A b \in BOOLEAN : [wk EXCEPT !.usr2 = b] \in Worker
  BY DEF Worker
<1>5. \A id \in Ids \cup {None} : /\ [wk EXCEPT !.id = id] \in Worker
                                  /\ [wk EXCEPT !.job = id] \in Worker
                                  /\ [wk EXCEPT !.job_id = id] \in Worker
  BY DEF Worker
<1> QED BY <1>1, <1>2, <1>3, <1>4, <1>5

\* A thread that works has a job of its own, which nobody else touches.
LEMMA Working ==
    ASSUME IndInv, NEW w \in Workers, worker[w].at \in {"begin", "call", "done", "notify"}
    PROVE  /\ worker[w].id \in DOMAIN running_workers /\ running_workers[worker[w].id] = w
           /\ Taken(worker[w].id) /\ worker[w].id \in DOMAIN job /\ worker[w].id \in Ids
           /\ worker[w].job = worker[w].id /\ w \notin Members(idle_workers)
           /\ worker[w].id \notin Members(Pipe) \/ worker[w].id = Signal
<1> USE DEF IndInv
<1>1. PICK id \in DOMAIN running_workers : running_workers[id] = w
  BY DEF WorkersOK, IdleOK
<1>2. Taken(id) /\ worker[w].id = id /\ worker[w].job = id /\ w \notin Members(idle_workers)
  BY <1>1 DEF BusyOK, Taken, HandedOver
<1>3. id \in Ids /\ id \in DOMAIN job
  BY DEF TypeOK, JobsOK
<1> QED BY <1>1, <1>2, <1>3 DEF PipeOK

LEMMA StartJobStep ==
    ASSUME FewJobs, IndInv, NEW w \in Workers, StartJob(w)
    PROVE  IndInv'
<1> DEFINE id == worker[w].id
<1>0. /\ id \in DOMAIN running_workers /\ running_workers[id] = w
      /\ Taken(id) /\ id \in DOMAIN job /\ id \in Ids
      /\ worker[w].job = id /\ w \notin Members(idle_workers)
      /\ id \notin Members(Pipe)
  BY Working, IdFacts DEF StartJob
<1> HIDE DEF id
<1> USE DEF IndInv, StartJob, loop, pool, Over
<1>1. TypeOK'
  <2>1. worker' \in [Workers -> Worker]
    BY DEF TypeOK, Worker
  <2>2. job' \in [0 .. job_id - 1 -> Job]
    BY <1>0 DEF TypeOK, Job, id
  <2> QED BY <2>1, <2>2 DEF TypeOK
<1>2. BusyOK'
  BY <1>0 DEF BusyOK, TypeOK, Taken, HandedOver, WorkersOK, JobsOK, id, Worker, Job
<1>3. IdleOK'
  BY <1>0 DEF IdleOK, TypeOK
<1>4. WorkersOK'
  BY <1>0 DEF WorkersOK, TypeOK, Worker
<1>5. PipeOK'
  BY <1>0 DEF PipeOK, Pipe, TypeOK, Taken, WorkersOK, Worker, Job, id
<1>6. JobsOK'
  BY <1>0 DEF JobsOK, TypeOK, Job, id, Taken
<1>7. PhaseOK'
  BY <1>0 DEF PhaseOK, TypeOK, Worker, Job, id
<1>8. CallsOK'
  BY <1>0 DEF CallsOK, InCall, TypeOK, Job, id
<1>9. QueueOK'
  BY <1>0 DEF QueueOK, AwaitsEnd, CallsOK, InCall, TypeOK, Job, id, Taken
<1>10. SignalOK'
  BY <1>0 DEF SignalOK, CallsOK, InCall, TypeOK, Job, Worker, id
<1>11. QueuedOnlyWhenSaturated'
  BY <1>0 DEF QueuedOnlyWhenSaturated, TypeOK, Worker
<1> QED BY <1>1, <1>2, <1>3, <1>4, <1>5, <1>6, <1>7, <1>8, <1>9, <1>10, <1>11

\* A system call ends: the job is over, and interrupted only if its coroutine was
\* cancelled.
LEMMA CallEnds ==
    ASSUME FewJobs, IndInv, NEW w \in Workers, worker[w].at = "call",
           NEW result \in {"value", "error", "EINTR"},
           result = "EINTR" => \E t \in Tasks : /\ InCall(t) /\ coro[t].cancelled
                                                /\ coro[t].job = worker[w].id,
           worker' = [worker EXCEPT ![w].at = "done"]
             \/ worker' = [worker EXCEPT ![w].usr2 = FALSE, ![w].at = "done"],
           job' = [job EXCEPT ![worker[w].id].result = result],
           UNCHANGED <<loop, pool, coro, notify>>
    PROVE  IndInv'
<1> DEFINE id == worker[w].id
<1>0. /\ id \in DOMAIN running_workers /\ running_workers[id] = w
      /\ Taken(id) /\ id \in DOMAIN job /\ id \in Ids
      /\ worker[w].job = id /\ w \notin Members(idle_workers)
      /\ id \notin Members(Pipe)
  BY Working, IdFacts
<1> HIDE DEF id
<1> USE DEF IndInv, loop, pool, Over
<1>a. worker' \in [Workers -> Worker]
  <2>0. worker \in [Workers -> Worker] /\ worker[w] \in Worker
    BY WorkerType
  <2>1. CASE worker' = [worker EXCEPT ![w].at = "done"]
    BY <2>0, <2>1, WorkerFields
  <2>2. CASE worker' = [worker EXCEPT ![w].usr2 = FALSE, ![w].at = "done"]
    <3>1. [[worker[w] EXCEPT !.usr2 = FALSE] EXCEPT !.at = "done"] \in Worker
      BY <2>0, WorkerFields
    <3> QED BY <2>0, <2>2, <3>1
  <2> QED BY <2>1, <2>2
<1>b. /\ \A v \in Workers : v # w => worker'[v] = worker[v]
      /\ worker'[w].at = "done" /\ worker'[w].id = id /\ worker'[w].usr1 = worker[w].usr1
      /\ worker'[w].job = id /\ worker'[w].job_id = worker[w].job_id
  <2>1. CASE worker' = [worker EXCEPT ![w].at = "done"]
    BY <2>1, <1>0 DEF TypeOK, Worker, id
  <2>2. CASE worker' = [worker EXCEPT ![w].usr2 = FALSE, ![w].at = "done"]
    BY <2>2, <1>0 DEF TypeOK, Worker, id
  <2> QED BY <2>1, <2>2
<1>c. job' \in [0 .. job_id - 1 -> Job] /\ DOMAIN job' = DOMAIN job
  BY <1>0 DEF TypeOK, Job, id
<1>d. /\ \A j \in DOMAIN job : j # id => job'[j] = job[j]
      /\ \A j \in DOMAIN job : job'[j].kind = job[j].kind
      /\ job'[id].result = result
  BY <1>0 DEF TypeOK, Job, id
<1>1. TypeOK'
  BY <1>a, <1>c DEF TypeOK
<1>2. BusyOK'
  BY <1>0, <1>b, <1>d DEF BusyOK, TypeOK, Taken, HandedOver, WorkersOK, JobsOK
<1>3. IdleOK'
  BY <1>0, <1>b, MembersFacts DEF IdleOK, Distinct
<1>4. WorkersOK'
  BY <1>0, <1>b DEF WorkersOK, TypeOK
<1>5. PipeOK'
  BY <1>0, <1>b, <1>d DEF PipeOK, Pipe, TypeOK, Taken, WorkersOK, JobsOK
<1>6. JobsOK'
  BY <1>0, <1>c, <1>d DEF JobsOK, TypeOK, Taken
<1>7. PhaseOK'
  BY <1>0, <1>b, <1>c, <1>d DEF PhaseOK, TypeOK, JobsOK
<1>8. CallsOK'
  BY <1>c DEF CallsOK, InCall
<1>9. QueueOK'
  BY <1>0, <1>d DEF QueueOK, AwaitsEnd, CallsOK, InCall, Taken
<1>10. SignalOK'
  <2>1. ASSUME NEW v \in Workers, worker'[v].usr2, worker'[v].at \in {"begin", "call"}
        PROVE  /\ job'[worker'[v].id].kind \in {"cancellable", "sigwait"}
               /\ \E t \in Tasks : /\ InCall(t) /\ coro[t].cancelled
                                   /\ coro[t].job = worker'[v].id
    <3>1. v # w /\ worker'[v] = worker[v]
      BY <2>1, <1>b
    <3>2. worker[v].id \in DOMAIN job
      BY <3>1, <2>1, Working
    <3> QED BY <2>1, <3>1, <3>2, <1>d DEF SignalOK
  <2>2. \A t \in Tasks : InCall(t) /\ job'[coro[t].job].result = "EINTR" => coro[t].cancelled
    BY <1>d DEF SignalOK, CallsOK, id
  <2> QED BY <2>1, <2>2 DEF SignalOK, InCall
<1>11. QueuedOnlyWhenSaturated'
  <2>1. {v \in Workers : worker'[v].at # "none"} = {v \in Workers : worker[v].at # "none"}
    BY <1>b
  <2> QED BY <2>1 DEF QueuedOnlyWhenSaturated
<1> QED BY <1>1, <1>2, <1>3, <1>4, <1>5, <1>6, <1>7, <1>8, <1>9, <1>10, <1>11

LEMMA CallReturnsStep ==
    ASSUME FewJobs, IndInv, NEW w \in Workers, NEW result \in {"value", "error"},
           CallReturns(w, result)
    PROVE  IndInv'
  BY CallEnds DEF CallReturns

\* A thread moves on with the job it has: it notes that it waits, reports, waits,
\* or handles a signal that comes at no bad time.
LEMMA ThreadMoves ==
    ASSUME FewJobs, IndInv, NEW w \in Workers, worker' \in [Workers -> Worker],
           \A v \in Workers : v # w => worker'[v] = worker[v],
           worker'[w].id = worker[w].id, worker'[w].job = worker[w].job,
           worker'[w].job_id = worker[w].job_id, worker'[w].usr1 = worker[w].usr1,
           \/ worker'[w].at = worker[w].at /\ worker'[w].usr2 = FALSE
           \/ worker[w].at = "done" /\ worker'[w].at = "notify"
           \/ worker[w].at = "notify" /\ worker'[w].at = "sent"
           \/ worker[w].at = "sent" /\ worker'[w].at = "wait",
           UNCHANGED <<loop, pool, coro, job>>
    PROVE  /\ UNCHANGED notify => IndInv'
           /\ TypeOK /\ notify' \in Seq(Ids \cup {Signal}) => TypeOK'
           /\ BusyOK' /\ IdleOK' /\ WorkersOK' /\ JobsOK' /\ PhaseOK' /\ CallsOK' /\ QueueOK'
           /\ SignalOK' /\ QueuedOnlyWhenSaturated'
           /\ \A id \in Members(Pipe) \ {Signal} : Taken(id)'
                /\ (worker[running_workers[id]].at \in {"sent", "wait"})'
<1> USE DEF IndInv, loop, pool, Over
<1>1. notify' \in Seq(Ids \cup {Signal}) => TypeOK'
  BY DEF TypeOK
<1>2. BusyOK'
  <2> SUFFICES ASSUME NEW id \in DOMAIN running_workers
               PROVE  /\ worker'[running_workers[id]].job = id
                      /\ worker'[running_workers[id]].job_id = id
                      /\ running_workers[id] \notin Members(idle_workers)
                      /\ Taken(id)' \/ HandedOver(id)'
    BY DEF BusyOK
  <2>1. CASE running_workers[id] # w
    BY <2>1 DEF BusyOK, TypeOK, Taken, HandedOver
  <2>2. CASE running_workers[id] = w
    BY <2>2 DEF BusyOK, TypeOK, Taken, HandedOver
  <2> QED BY <2>1, <2>2
<1>3. IdleOK'
  <2>1. w \in Members(idle_workers) => worker[w].at \notin {"done", "notify"}
    BY Working
  <2>2. ASSUME NEW v \in Members(idle_workers)
        PROVE  \/ /\ worker'[v].at \in {"sent", "wait"} /\ worker'[v].job = None
                  /\ worker'[v].usr1 => phase = "join" /\ curr = v
               \/ worker'[v].at = "exit" /\ phase = "join" /\ curr = v
               \/ worker'[v].at = "freed"
    BY <2>1, MembersFacts DEF IdleOK
  <2> QED BY <2>2 DEF IdleOK
<1>4. WorkersOK'
  <2>1. ASSUME NEW v \in Workers
        PROVE  \/ worker'[v].at = "none" /\ ~ worker'[v].usr1 /\ ~ worker'[v].usr2
               \/ worker'[v].at # "none" /\ v \in Members(idle_workers)
               \/ \E id \in DOMAIN running_workers : running_workers[id] = v
    <3>1. CASE v # w
      BY <3>1 DEF WorkersOK
    <3>2. CASE v = w
      BY <3>2 DEF WorkersOK
    <3> QED BY <3>1, <3>2
  <2> QED BY <2>1 DEF WorkersOK
<1>5. JobsOK' /\ PhaseOK' /\ CallsOK' /\ QueueOK'
  <2>1. phase = "closed" /\ ~ fatal => \A v \in Members(idle_workers) : worker'[v].at = "freed"
    BY MembersFacts DEF PhaseOK
  <2>2. PhaseOK'
    BY <2>1 DEF PhaseOK
  <2> QED BY <2>2 DEF JobsOK, CallsOK, QueueOK, InCall, AwaitsEnd
<1>6. SignalOK'
  BY DEF SignalOK, InCall
<1>7. QueuedOnlyWhenSaturated'
  <2>1. {v \in Workers : worker'[v].at # "none"} = {v \in Workers : worker[v].at # "none"}
    BY DEF WorkersOK
  <2> QED BY <2>1 DEF QueuedOnlyWhenSaturated
<1>8. \A id \in Members(Pipe) \ {Signal} : Taken(id)'
                /\ (worker[running_workers[id]].at \in {"sent", "wait"})'
  BY DEF PipeOK, Taken, TypeOK
<1>9. UNCHANGED notify => PipeOK'
  BY <1>8 DEF PipeOK, Pipe
<1> QED BY <1>1, <1>2, <1>3, <1>4, <1>5, <1>6, <1>7, <1>8, <1>9 DEF TypeOK

LEMMA ThreadStep ==
    ASSUME FewJobs, IndInv, NEW w \in Workers, HandleUsr2(w) \/ SetWaiting(w) \/ Wait(w)
    PROVE  IndInv'
<1>1. CASE HandleUsr2(w) /\ worker[w].at = "call"
  <2>1. \E t \in Tasks : InCall(t) /\ coro[t].cancelled /\ coro[t].job = worker[w].id
    BY <1>1 DEF HandleUsr2, IndInv, SignalOK
  <2> DEFINE result == IF job[worker[w].id].kind = "sigwait" THEN "value" ELSE "EINTR"
  <2>2. /\ worker' = [worker EXCEPT ![w].usr2 = FALSE, ![w].at = "done"]
        /\ job' = [job EXCEPT ![worker[w].id].result = result]
        /\ UNCHANGED <<loop, pool, coro, notify>>
    BY <1>1 DEF HandleUsr2
  <2>3. result \in {"value", "error", "EINTR"}
    OBVIOUS
  <2> HIDE DEF result
  <2> QED BY <1>1, <2>1, <2>2, <2>3, CallEnds
<1>2. CASE ~ (HandleUsr2(w) /\ worker[w].at = "call")
  <2>1. worker' \in [Workers -> Worker]
    <3>0. worker \in [Workers -> Worker] /\ worker[w] \in Worker
      BY WorkerType DEF IndInv
    <3>1. CASE HandleUsr2(w)
      BY <1>2, <3>0, <3>1, WorkerFields DEF HandleUsr2
    <3>2. CASE SetWaiting(w)
      <4>1. [[worker[w] EXCEPT !.at = "notify"] EXCEPT !.waiting = TRUE] \in Worker
        BY <3>0, WorkerFields
      <4> QED BY <3>0, <3>2, <4>1 DEF SetWaiting
    <3>3. CASE Wait(w)
      BY <3>0, <3>3, WorkerFields DEF Wait
    <3> QED BY <3>1, <3>2, <3>3
  <2>2. /\ \A v \in Workers : v # w => worker'[v] = worker[v]
        /\ worker'[w].id = worker[w].id /\ worker'[w].job = worker[w].job
        /\ worker'[w].job_id = worker[w].job_id /\ worker'[w].usr1 = worker[w].usr1
        /\ \/ worker'[w].at = worker[w].at /\ worker'[w].usr2 = FALSE
           \/ worker[w].at = "done" /\ worker'[w].at = "notify"
           \/ worker[w].at = "sent" /\ worker'[w].at = "wait"
    BY <1>2 DEF HandleUsr2, SetWaiting, Wait, IndInv, TypeOK, Worker
  <2>3. UNCHANGED <<loop, pool, coro, job, notify>>
    BY <1>2 DEF HandleUsr2, SetWaiting, Wait
  <2> QED BY <2>1, <2>2, <2>3, ThreadMoves
<1> QED BY <1>1, <1>2

\* Something new is appended to the pipe.
LEMMA PipeGrows ==
    ASSUME FewJobs, IndInv, NEW x \in Ids \cup {Signal}, x \notin Members(Pipe),
           notify' = Append(notify, x), UNCHANGED completed_jobs
    PROVE  /\ notify' \in Seq(Ids \cup {Signal})
           /\ Pipe' = Append(Pipe, x)
           /\ Members(Pipe') = Members(Pipe) \cup {x} /\ Distinct(Pipe')
<1>1. notify \in Seq(Ids \cup {Signal}) /\ completed_jobs \in Seq(Ids \cup {Signal})
      /\ Pipe \in Seq(Ids \cup {Signal}) /\ <<x>> \in Seq(Ids \cup {Signal})
  BY MembersFacts DEF IndInv, TypeOK
<1>2. notify' = notify \o <<x>> /\ Append(Pipe, x) = Pipe \o <<x>>
  BY <1>1, AppendIsConcat, Zenon
<1>3. (completed_jobs \o notify) \o <<x>> = completed_jobs \o (notify \o <<x>>)
  <2> DEFINE S == Ids \cup {Signal}
  <2> DEFINE u == <<x>>
  <2>1. completed_jobs \in Seq(S) /\ notify \in Seq(S) /\ u \in Seq(S)
    BY <1>1
  <2> HIDE DEF S, u
  <2>2. (completed_jobs \o notify) \o u = completed_jobs \o (notify \o u)
    BY <2>1, ConcatAssociative
  <2> QED BY <2>2 DEF u
<1>4. Pipe' = Append(Pipe, x)
  BY <1>2, <1>3 DEF Pipe
<1>5. notify' \in Seq(Ids \cup {Signal})
  BY <1>1, MembersAppend
<1>6. /\ Members(Append(Pipe, x)) = Members(Pipe) \cup {x}
      /\ Distinct(Pipe) => Distinct(Append(Pipe, x))
  BY <1>1, MembersAppend
<1> QED BY <1>4, <1>5, <1>6 DEF IndInv, PipeOK

LEMMA SignalArrivesStep ==
    ASSUME FewJobs, IndInv, NEW w \in Workers, SignalArrives(w)
    PROVE  IndInv'
<1> USE DEF IndInv, loop, pool
<1>1. notify' \in Seq(Ids \cup {Signal}) /\ Members(Pipe') = Members(Pipe) \cup {Signal}
      /\ Distinct(Pipe')
  BY PipeGrows DEF SignalArrives, Pipe
<1>2. UNCHANGED <<loop, pool, coro, job, worker>>
  BY DEF SignalArrives
<1>3. TypeOK'
  BY <1>1, <1>2 DEF TypeOK
<1>4. PipeOK'
  BY <1>1, <1>2 DEF PipeOK, Taken, Over
<1>5. BusyOK' /\ IdleOK' /\ WorkersOK' /\ JobsOK'
  BY <1>2 DEF BusyOK, IdleOK, WorkersOK, JobsOK, Taken, HandedOver, Over
<1>6. PhaseOK' /\ CallsOK' /\ QueueOK' /\ SignalOK' /\ QueuedOnlyWhenSaturated'
  BY <1>2 DEF PhaseOK, CallsOK, QueueOK, SignalOK, QueuedOnlyWhenSaturated, InCall,
              AwaitsEnd, Over
<1> QED BY <1>3, <1>4, <1>5, <1>6

\* The completion of a job goes to the pipe once, and after its end.
LEMMA NotifyStep ==
    ASSUME FewJobs, IndInv, NEW w \in Workers, Notify(w)
    PROVE  IndInv'
<1> USE DEF IndInv
<1>a. PICK id \in Ids : id = worker[w].id
  BY Working DEF Notify
<1>0. /\ id \in DOMAIN running_workers /\ running_workers[id] = w
      /\ Taken(id) /\ id # Signal /\ id \notin Members(Pipe)
  BY <1>a, Working, IdFacts DEF Notify
<1>1. notify' \in Seq(Ids \cup {Signal}) /\ Members(Pipe') = Members(Pipe) \cup {id}
      /\ Distinct(Pipe')
  BY <1>0, <1>a, PipeGrows DEF Notify, loop
<1>2. worker' \in [Workers -> Worker]
  <2>1. worker \in [Workers -> Worker] /\ worker[w] \in Worker
    BY WorkerType
  <2> QED BY <2>1, WorkerFields DEF Notify
<1>3. /\ \A v \in Workers : v # w => worker'[v] = worker[v]
      /\ worker'[w].id = worker[w].id /\ worker'[w].job = worker[w].job
      /\ worker'[w].job_id = worker[w].job_id /\ worker'[w].usr1 = worker[w].usr1
      /\ worker[w].at = "notify" /\ worker'[w].at = "sent"
  BY DEF Notify, TypeOK, Worker
<1>4. UNCHANGED <<loop, pool, coro, job>>
  BY DEF Notify
<1>5. /\ TypeOK'
      /\ BusyOK' /\ IdleOK' /\ WorkersOK' /\ JobsOK' /\ PhaseOK' /\ CallsOK' /\ QueueOK'
      /\ SignalOK' /\ QueuedOnlyWhenSaturated'
      /\ \A j \in Members(Pipe) \ {Signal} : Taken(j)'
           /\ (worker[running_workers[j]].at \in {"sent", "wait"})'
  BY <1>1, <1>2, <1>3, <1>4, ThreadMoves
<1>6. Taken(id)' /\ (worker[running_workers[id]].at \in {"sent", "wait"})'
  BY <1>0, <1>a, <1>3, <1>4 DEF Taken, Over, pool
<1>7. PipeOK'
  BY <1>0, <1>1, <1>4, <1>5, <1>6 DEF PipeOK, pool
<1> QED BY <1>5, <1>7

\* A worker that is woken takes the job it was given, or leaves if there is none.
LEMMA WakeupStep ==
    ASSUME FewJobs, IndInv, NEW w \in Workers, Wakeup(w)
    PROVE  IndInv'
<1> USE DEF IndInv, loop, pool, Over
<1>0. worker[w].at = "wait" /\ worker[w].usr1
      /\ UNCHANGED <<phase, left, curr, run_later, completed_jobs, full, fatal,
                     killed_by_signal, pool, coro, job, notify>>
  BY DEF Wakeup
<1>1. worker \in [Workers -> Worker] /\ worker[w] \in Worker
  BY WorkerType
<1>2. worker[w].job \in Ids \cup {None} /\ worker[w].job_id \in Ids \cup {None}
  BY <1>1 DEF Worker
<1>3. worker' \in [Workers -> Worker]
  <2> DEFINE at == IF worker[w].job = None THEN "exit" ELSE "begin"
  <2>1. [[[[worker[w] EXCEPT !.at = at] EXCEPT !.id = worker[w].job_id]
            EXCEPT !.usr1 = FALSE] EXCEPT !.usr2 = FALSE] \in Worker
    BY <1>1, <1>2, WorkerFields
  <2> QED BY <1>1, <2>1 DEF Wakeup
<1>4. /\ \A v \in Workers : v # w => worker'[v] = worker[v]
      /\ worker'[w].at = IF worker[w].job = None THEN "exit" ELSE "begin"
      /\ worker'[w].id = worker[w].job_id /\ worker'[w].usr1 = FALSE /\ worker'[w].usr2 = FALSE
      /\ worker'[w].job = worker[w].job /\ worker'[w].job_id = worker[w].job_id
  BY <1>1 DEF Wakeup, Worker
<1>5. TypeOK'
  BY <1>0, <1>3 DEF TypeOK
<1>6. JobsOK' /\ CallsOK' /\ QueueOK'
  BY <1>0 DEF JobsOK, CallsOK, QueueOK, InCall, AwaitsEnd
<1>7. WorkersOK'
  BY <1>0, <1>4 DEF WorkersOK
<1>8. QueuedOnlyWhenSaturated'
  <2>1. {v \in Workers : worker'[v].at # "none"} = {v \in Workers : worker[v].at # "none"}
    BY <1>0, <1>4
  <2> QED BY <1>0, <2>1 DEF QueuedOnlyWhenSaturated
<1>9. SignalOK'
  BY <1>0, <1>4 DEF SignalOK, InCall
<1>10. PhaseOK'
  <2>1. w \in Members(idle_workers) => phase = "join"
    BY <1>0 DEF IdleOK
  <2>2. phase = "closed" /\ ~ fatal => \A v \in Members(idle_workers) : worker'[v].at = "freed"
    BY <1>4, <2>1, MembersFacts DEF PhaseOK
  <2> QED BY <1>0, <2>2 DEF PhaseOK
<1>11. IdleOK'
  <2>1. w \in Members(idle_workers) => phase = "join" /\ curr = w /\ worker[w].job = None
    BY <1>0 DEF IdleOK
  <2>2. ASSUME NEW v \in Members(idle_workers)
        PROVE  \/ /\ worker'[v].at \in {"sent", "wait"} /\ worker'[v].job = None
                  /\ worker'[v].usr1 => phase = "join" /\ curr = v
               \/ worker'[v].at = "exit" /\ phase = "join" /\ curr = v
               \/ worker'[v].at = "freed"
    BY <1>4, <2>1, MembersFacts DEF IdleOK
  <2> QED BY <1>0, <2>2 DEF IdleOK
<1>12. BusyOK'
  <2> SUFFICES ASSUME NEW id \in DOMAIN running_workers
               PROVE  /\ worker'[running_workers[id]].job = id
                      /\ worker'[running_workers[id]].job_id = id
                      /\ running_workers[id] \notin Members(idle_workers)
                      /\ Taken(id)' \/ HandedOver(id)'
    BY <1>0 DEF BusyOK
  <2>1. CASE running_workers[id] # w
    BY <1>0, <1>4, <2>1 DEF BusyOK, TypeOK, Taken, HandedOver
  <2>2. CASE running_workers[id] = w
    <3>1. id # None
      BY IdFacts DEF TypeOK
    <3>2. worker[w].job = id /\ worker[w].job_id = id /\ w \notin Members(idle_workers)
          /\ job[id].result = "new"
      BY <1>0, <2>2 DEF BusyOK, Taken, HandedOver
    <3> QED BY <1>0, <1>4, <2>2, <3>1, <3>2 DEF Taken
  <2> QED BY <2>1, <2>2
<1>13. PipeOK'
  <2>1. \A id \in Members(Pipe) \ {Signal} : running_workers[id] # w
    BY <1>0 DEF PipeOK, Taken
  <2>2. \A id \in Members(Pipe) \ {Signal} : Taken(id)'
                /\ (worker[running_workers[id]].at \in {"sent", "wait"})'
    BY <1>0, <1>4, <2>1 DEF PipeOK, Taken, TypeOK
  <2> QED BY <1>0, <2>2 DEF PipeOK, Pipe
<1> QED BY <1>5, <1>6, <1>7, <1>8, <1>9, <1>10, <1>11, <1>12, <1>13

-----------------------------------------------------------------------------
(* The steps of the event loop. *)

\* What does not concern workers and coroutines.
LEMMA LoopMoves ==
    ASSUME IndInv, UNCHANGED <<pool, coro, job, worker>>, phase # "join", phase' # "join"
    PROVE  /\ BusyOK' /\ IdleOK' /\ WorkersOK' /\ JobsOK' /\ CallsOK' /\ SignalOK'
           /\ QueuedOnlyWhenSaturated'
           /\ UNCHANGED <<completed_jobs, notify>> => PipeOK'
           /\ UNCHANGED <<curr, run_later>> => QueueOK'
<1> USE DEF IndInv, pool, Over
<1>1. BusyOK' /\ WorkersOK' /\ JobsOK' /\ CallsOK' /\ SignalOK' /\ QueuedOnlyWhenSaturated'
  BY DEF BusyOK, WorkersOK, JobsOK, CallsOK, SignalOK, QueuedOnlyWhenSaturated, Taken,
         HandedOver, InCall
<1>2. IdleOK'
  BY DEF IdleOK
<1>3. UNCHANGED <<completed_jobs, notify>> => PipeOK'
  BY DEF PipeOK, Pipe, Taken
<1>4. UNCHANGED <<curr, run_later>> => QueueOK'
  BY DEF QueueOK, AwaitsEnd
<1> QED BY <1>1, <1>2, <1>3, <1>4

\* The loop goes from one phase to the next.
LEMMA PhaseStep ==
    ASSUME FewJobs, IndInv,
           \/ Poll \/ FetchFails \/ BatchDone \/ StartCleanup \/ CleanupDone \/ DrainDone
           \/ RescheduleDone
    PROVE  IndInv'
<1> USE DEF IndInv
<1>1. /\ UNCHANGED <<pool, coro, job, worker, notify, completed_jobs, curr, run_later>>
      /\ phase # "join" /\ phase' # "join"
  BY DEF Poll, FetchFails, BatchDone, StartCleanup, CleanupDone, DrainDone, RescheduleDone
<1>2. TypeOK'
  <2>1. left' \in Nat
    BY LenProperties DEF TypeOK, Poll, FetchFails, BatchDone, StartCleanup, CleanupDone,
         DrainDone, RescheduleDone
  <2>2. phase' \in {"poll", "fetch", "handle", "run", "cancel", "abort", "cleanup",
                    "join", "drain", "closed"} /\ fatal' \in BOOLEAN
        /\ UNCHANGED <<full, killed_by_signal>>
    BY DEF TypeOK, Poll, FetchFails, BatchDone, StartCleanup, CleanupDone, DrainDone,
         RescheduleDone
  <2> QED BY <1>1, <2>1, <2>2 DEF TypeOK, pool
<1>3. PhaseOK'
  <2>1. CASE Poll \/ FetchFails \/ BatchDone \/ RescheduleDone
    BY <1>1, <2>1 DEF PhaseOK, pool, Poll, FetchFails, BatchDone, RescheduleDone
  <2>2. CASE StartCleanup \/ DrainDone
    BY <1>1, <2>2 DEF PhaseOK, pool, StartCleanup, DrainDone, LoopDone
  <2>3. CASE CleanupDone
    BY <1>1, <2>3 DEF PhaseOK, pool, CleanupDone
  <2> QED BY <2>1, <2>2, <2>3
<1> QED BY <1>1, <1>2, <1>3, LoopMoves

\* A read takes the ids from the pipe to the buffer, in their order.
LEMMA FetchStep ==
    ASSUME FewJobs, IndInv, Fetch
    PROVE  IndInv'
<1> USE DEF IndInv
<1>1. /\ UNCHANGED <<pool, coro, job, worker, curr, run_later>>
      /\ phase # "join" /\ phase' = "handle"
  BY DEF Fetch
<1>2. PICK n \in 0 .. Len(notify) : /\ completed_jobs' = SubSeq(notify, 1, n)
                                    /\ notify' = SubSeq(notify, n + 1, Len(notify))
  <2>1. config.buffer \in Nat
    BY PoolAssumption DEF TypeOK, Config
  <2>2. Len(notify) \in Nat
    BY LenProperties DEF TypeOK
  <2> DEFINE m == IF Len(notify) < config.buffer THEN Len(notify) ELSE config.buffer
  <2>3. m \in 0 .. Len(notify)
    BY <2>1, <2>2
  <2>4. completed_jobs' = SubSeq(notify, 1, m) /\ notify' = SubSeq(notify, m + 1, Len(notify))
    BY DEF Fetch
  <2> HIDE DEF m
  <2> QED BY <2>3, <2>4
<1> DEFINE S == Ids \cup {Signal}
<1>3. notify \in Seq(S) /\ Len(notify) \in Nat /\ completed_jobs = <<>>
      /\ \A k \in 1 .. Len(notify) : notify[k] \in S
  BY LenProperties, ElementOfSeq DEF TypeOK, PhaseOK, Fetch
<1> HIDE DEF S
<1>4. SubSeq(notify, 1, n) \in Seq(S) /\ SubSeq(notify, n + 1, Len(notify)) \in Seq(S)
  <2>1. /\ \A k \in 1 .. n : notify[k] \in S
        /\ \A k \in n + 1 .. Len(notify) : notify[k] \in S
    BY <1>3
  <2> QED BY <1>3, <2>1, SubSeqProperties
<1>5. SubSeq(notify, 1, n) \o SubSeq(notify, n + 1, Len(notify)) = SubSeq(notify, 1, Len(notify))
  <2>1. 1 \in 1 .. Len(notify) + 1 /\ n \in 1 - 1 .. Len(notify) /\ Len(notify) \in n .. Len(notify)
    BY <1>3
  <2> QED BY <1>3, <2>1, ConcatAdjacentSubSeq
<1>6. Pipe' = Pipe
  <2>1. SubSeq(notify, 1, Len(notify)) = notify /\ <<>> \o notify = notify
    BY <1>3, SubSeqFull, ConcatEmptySeq
  <2> QED BY <1>2, <1>3, <1>5, <2>1 DEF Pipe
<1>7. TypeOK'
  <2>1. UNCHANGED <<left, fatal, killed_by_signal>> /\ full' \in BOOLEAN
    BY DEF Fetch
  <2> QED BY <1>1, <1>2, <1>4, <2>1 DEF TypeOK, pool, S
<1>8. PipeOK'
  BY <1>1, <1>6 DEF PipeOK, pool, Taken, Over
<1>9. PhaseOK'
  BY <1>1 DEF PhaseOK, pool, Fetch
<1> QED BY <1>1, <1>7, <1>8, <1>9, LoopMoves

\* reschedule: the coroutine leaves the queue, where it was once.
LEMMA RescheduleStep ==
    ASSUME FewJobs, IndInv, reschedule
    PROVE  IndInv'
<1> USE DEF IndInv
<1>1. /\ UNCHANGED <<phase, completed_jobs, full, fatal, killed_by_signal, pool, coro, job,
                     worker, notify>>
      /\ phase \in {"run", "drain"} /\ left' \in Nat
      /\ curr' = Head(run_later) /\ run_later' = Tail(run_later) /\ run_later # <<>>
  BY DEF reschedule, TypeOK
<1>2. /\ Head(run_later) \in Tasks /\ Tail(run_later) \in Seq(Tasks)
      /\ Members(run_later) = Members(Tail(run_later)) \cup {Head(run_later)}
      /\ Distinct(run_later) => /\ Distinct(Tail(run_later))
                                /\ Head(run_later) \notin Members(Tail(run_later))
  BY <1>1, MembersTail DEF TypeOK
<1>3. TypeOK'
  BY <1>1, <1>2 DEF TypeOK, pool
<1>4. PhaseOK'
  BY <1>1, <1>2 DEF PhaseOK, pool
<1>5. QueueOK'
  BY <1>1, <1>2 DEF QueueOK, AwaitsEnd, Over
<1> QED BY <1>1, <1>3, <1>4, <1>5, LoopMoves

\* The thread of an idle worker is told to leave, and joined.
LEMMA FreeStep ==
    ASSUME FewJobs, IndInv, Join \/ \E w \in Workers : free_worker(w)
    PROVE  IndInv'
<1> USE DEF IndInv, pool, Over
<1>1. PICK w \in Workers :
        /\ w \in Members(idle_workers) \/ worker[w].at = "exit"
        /\ \/ /\ worker' = [worker EXCEPT ![w].at = "freed"] /\ worker[w].at = "exit"
              /\ phase = "join" /\ phase' = "cleanup" /\ curr = w /\ curr' = None
           \/ /\ worker' = wake_worker(worker, w, None, None) /\ worker[w].at # "freed"
              /\ phase = "cleanup" /\ phase' = "join" /\ curr' = w
  BY DEF Join, free_worker, PhaseOK
<1>2. UNCHANGED <<left, run_later, completed_jobs, full, fatal, killed_by_signal, pool, coro,
                  job, notify>>
  BY DEF Join, free_worker
<1>3. w \in Members(idle_workers)
  <2>1. ASSUME worker[w].at = "exit" PROVE w \in Members(idle_workers)
    BY <2>1 DEF WorkersOK, BusyOK, Taken, HandedOver
  <2> QED BY <1>1, <2>1
<1>4. \A id \in DOMAIN running_workers : running_workers[id] # w
  BY <1>3 DEF BusyOK
<1>5. worker \in [Workers -> Worker] /\ worker[w] \in Worker
  BY WorkerType
<1>6. worker' \in [Workers -> Worker]
  <2>1. [worker[w] EXCEPT !.at = "freed"] \in Worker
    BY <1>5, WorkerFields
  <2>2. [[[[worker[w] EXCEPT !.job_id = None] EXCEPT !.job = None] EXCEPT !.waiting = FALSE]
           EXCEPT !.usr1 = TRUE] \in Worker
    BY <1>5, WorkerFields
  <2>3. CASE worker' = [worker EXCEPT ![w].at = "freed"]
    BY <1>5, <2>1, <2>3
  <2>4. CASE worker' = wake_worker(worker, w, None, None)
    BY <1>5, <2>2, <2>4 DEF wake_worker
  <2> QED BY <1>1, <2>3, <2>4
<1>7. /\ \A v \in Workers : v # w => worker'[v] = worker[v]
      /\ \/ worker'[w].at = "freed" /\ phase' = "cleanup"
         \/ /\ worker'[w].at \in {"sent", "wait"} /\ worker'[w].job = None /\ phase' = "join"
      /\ worker[w].at # "none" /\ worker'[w].at \notin {"none", "begin", "call"}
  <2>1. CASE worker' = [worker EXCEPT ![w].at = "freed"] /\ worker[w].at = "exit" /\ phase' = "cleanup"
    BY <1>5, <2>1 DEF Worker
  <2>2. CASE /\ worker' = wake_worker(worker, w, None, None) /\ worker[w].at # "freed"
             /\ phase = "cleanup" /\ phase' = "join"
    <3>1. worker[w].at \in {"sent", "wait"}
      BY <1>3, <2>2 DEF IdleOK
    <3> QED BY <1>5, <2>2, <3>1 DEF Worker, wake_worker
  <2> QED BY <1>1, <2>1, <2>2
<1>8. TypeOK'
  BY <1>1, <1>2, <1>6 DEF TypeOK
<1>9. BusyOK' /\ PipeOK'
  <2>1. \A id \in DOMAIN running_workers : worker'[running_workers[id]] = worker[running_workers[id]]
    BY <1>4, <1>7 DEF TypeOK
  <2>2. BusyOK'
    BY <1>2, <2>1 DEF BusyOK, Taken, HandedOver
  <2>3. PipeOK'
    BY <1>2, <2>1 DEF PipeOK, Pipe, Taken
  <2> QED BY <2>2, <2>3
<1>10. IdleOK'
  <2>1. ASSUME NEW v \in Members(idle_workers), v # w
        PROVE  \/ /\ worker'[v].at \in {"sent", "wait"} /\ worker'[v].job = None
                  /\ ~ worker'[v].usr1
               \/ worker'[v].at = "freed"
    <3>1. ~ (phase = "join" /\ curr = v)
      BY <1>1, <2>1
    <3>2. worker'[v] = worker[v]
      BY <1>7, <2>1, MembersFacts
    <3> QED BY <3>1, <3>2 DEF IdleOK
  <2>2. curr' = w \/ worker'[w].at = "freed"
    BY <1>1, <1>7
  <2> QED BY <1>2, <1>3, <1>7, <2>1, <2>2 DEF IdleOK
<1>11. WorkersOK'
  BY <1>2, <1>3, <1>7 DEF WorkersOK
<1>12. JobsOK' /\ CallsOK'
  BY <1>2 DEF JobsOK, CallsOK, InCall
<1>13. SignalOK'
  BY <1>2, <1>7 DEF SignalOK, InCall
<1>14. PhaseOK'
  BY <1>1, <1>2 DEF PhaseOK
<1>15. QueueOK'
  BY <1>1, <1>2, IdFacts, MembersFacts DEF QueueOK, AwaitsEnd
<1>16. QueuedOnlyWhenSaturated'
  <2>1. {v \in Workers : worker'[v].at # "none"} = {v \in Workers : worker[v].at # "none"}
    BY <1>7
  <2> QED BY <1>2, <2>1 DEF QueuedOnlyWhenSaturated
<1> QED BY <1>8, <1>9, <1>10, <1>11, <1>12, <1>13, <1>14, <1>15, <1>16

-----------------------------------------------------------------------------
(* The steps of coroutines. *)

LEMMA CoroType ==
    ASSUME TypeOK, NEW t \in Tasks
    PROVE  /\ coro \in [Tasks -> Coroutine] /\ coro[t] \in Coroutine
           /\ \A c \in Coroutine : [coro EXCEPT ![t] = c] \in [Tasks -> Coroutine]
  BY DEF TypeOK

LEMMA CoroFields ==
    ASSUME NEW c \in Coroutine
    PROVE  /\ \A at \in {"start", "wait", "shield", "retry", "raise", "end"} :
                [c EXCEPT !.at = at] \in Coroutine
           /\ \A id \in Ids \cup {None} : [c EXCEPT !.job = id] \in Coroutine
           /\ \A b \in BOOLEAN : [c EXCEPT !.cancelled = b] \in Coroutine
           /\ \A r \in {"none", "value", "error", "Cancelled"} :
                [c EXCEPT !.result = r] \in Coroutine
<1>1. \A at \in {"start", "wait", "shield", "retry", "raise", "end"} :
                [c EXCEPT !.at = at] \in Coroutine
  BY DEF Coroutine
<1>2. \A id \in Ids \cup {None} : [c EXCEPT !.job = id] \in Coroutine
  BY DEF Coroutine
<1>3. \A b \in BOOLEAN : [c EXCEPT !.cancelled = b] \in Coroutine
  BY DEF Coroutine
<1>4. \A r \in {"none", "value", "error", "Cancelled"} : [c EXCEPT !.result = r] \in Coroutine
  BY DEF Coroutine
<1> QED BY <1>1, <1>2, <1>3, <1>4

\* A coroutine leaves its call, whose job no SIGUSR2 can interrupt any more.
LEMMA CallOver ==
    ASSUME FewJobs, IndInv, NEW t \in Tasks, Runs(t), curr' \in {t, None},
           UNCHANGED <<phase, left, run_later, completed_jobs, full, fatal, killed_by_signal,
                       pool, job, worker, notify>>,
           coro' \in [Tasks -> Coroutine], \A u \in Tasks : u # t => coro'[u] = coro[u],
           coro'[t].at = "end" \/ (coro'[t].at = "start" /\ coro'[t].job = None),
           \A w \in Workers : worker[w].usr2 /\ worker[w].at \in {"begin", "call"}
                                => coro[t].job # worker[w].id
    PROVE  IndInv'
<1> USE DEF IndInv, pool, Over
<1>1. TypeOK'
  BY DEF TypeOK
<1>2. BusyOK' /\ WorkersOK' /\ JobsOK' /\ QueuedOnlyWhenSaturated' /\ PipeOK'
  BY DEF BusyOK, WorkersOK, JobsOK, QueuedOnlyWhenSaturated, PipeOK, Pipe, Taken, HandedOver
<1>3. IdleOK'
  BY DEF IdleOK, Runs
<1>4. PhaseOK'
  BY DEF PhaseOK, Runs
<1>5. CallsOK'
  BY DEF CallsOK, InCall
<1>6. QueueOK'
  BY IdFacts, MembersFacts DEF QueueOK, AwaitsEnd, Runs
<1>7. SignalOK'
  <2>1. \A u \in Tasks : InCall(u)' => u # t /\ InCall(u)
    BY DEF InCall
  <2>2. ASSUME NEW w \in Workers, worker[w].usr2, worker[w].at \in {"begin", "call"}
        PROVE  \E u \in Tasks : InCall(u)' /\ coro'[u].cancelled /\ coro'[u].job = worker[w].id
    <3>1. PICK u \in Tasks : InCall(u) /\ coro[u].cancelled /\ coro[u].job = worker[w].id
      BY <2>2 DEF SignalOK
    <3>2. u # t
      BY <2>2, <3>1
    <3> QED BY <3>1, <3>2 DEF InCall
  <2> QED BY <2>1, <2>2 DEF SignalOK
<1> QED BY <1>1, <1>2, <1>3, <1>4, <1>5, <1>6, <1>7

\* The job of a coroutine that awaits its end and is resumed is over, so that no
\* worker has it in hand.
LEMMA ResumedAfterEnd ==
    ASSUME IndInv, NEW t \in Tasks, Runs(t), AwaitsEnd(t)
    PROVE  /\ coro[t].job \in DOMAIN job /\ Over(coro[t].job)
           /\ \A w \in Workers : worker[w].at \in {"begin", "call"} => coro[t].job # worker[w].id
<1>1. coro[t].job \in DOMAIN job /\ Over(coro[t].job)
  BY DEF IndInv, QueueOK, CallsOK, InCall, AwaitsEnd, Runs
<1>2. ASSUME NEW w \in Workers, worker[w].at \in {"begin", "call"}
      PROVE  coro[t].job # worker[w].id
  <2>1. Taken(worker[w].id) /\ running_workers[worker[w].id] = w
    BY <1>2, Working
  <2>2. ~ Over(worker[w].id)
    BY <1>2, <2>1 DEF Taken, Over
  <2> QED BY <1>1, <2>2
<1> QED BY <1>1, <1>2

LEMMA EndStep ==
    ASSUME FewJobs, IndInv, NEW t \in Tasks, End(t)
    PROVE  IndInv'
<1>1. coro \in [Tasks -> Coroutine] /\ coro[t] \in Coroutine
  BY CoroType DEF IndInv
<1>2. /\ coro' \in [Tasks -> Coroutine] /\ \A u \in Tasks : u # t => coro'[u] = coro[u]
      /\ coro'[t].at = "end"
  <2>1. [coro[t] EXCEPT !.at = "end"] \in Coroutine
    BY <1>1, CoroFields
  <2> QED BY <1>1, <2>1 DEF End, Suspend, Coroutine
<1>3. coro[t].job = None
  BY DEF IndInv, CallsOK, End
<1>4. \A w \in Workers : worker[w].at \in {"begin", "call"} => coro[t].job # worker[w].id
  BY <1>3, Working, IdFacts
<1> QED BY <1>2, <1>4, CallOver DEF End, Suspend

LEMMA CancelFailedStep ==
    ASSUME FewJobs, IndInv, NEW t \in Tasks, CancelFailed(t)
    PROVE  IndInv'
<1>1. coro \in [Tasks -> Coroutine] /\ coro[t] \in Coroutine
  BY CoroType DEF IndInv
<1>2. [[coro[t] EXCEPT !.at = "end"] EXCEPT !.result = "error"] \in Coroutine
  BY <1>1, CoroFields
<1>3. /\ coro' \in [Tasks -> Coroutine] /\ \A u \in Tasks : u # t => coro'[u] = coro[u]
      /\ coro'[t].at = "end"
  BY <1>1, <1>2 DEF CancelFailed, Raise, Coroutine
<1>4. \A w \in Workers : worker[w].at \in {"begin", "call"} => coro[t].job # worker[w].id
  BY ResumedAfterEnd DEF CancelFailed, AwaitsEnd
<1> QED BY <1>3, <1>4, CallOver DEF CancelFailed, Raise

LEMMA JobReturnsStep ==
    ASSUME FewJobs, IndInv, NEW t \in Tasks, JobReturns(t)
    PROVE  IndInv'
<1>1. coro \in [Tasks -> Coroutine] /\ coro[t] \in Coroutine
  BY CoroType DEF IndInv
<1>2. AwaitsEnd(t) /\ Runs(t)
  BY DEF JobReturns, AwaitsEnd
<1>3. coro[t].job \in DOMAIN job /\ Over(coro[t].job)
      /\ \A w \in Workers : worker[w].at \in {"begin", "call"} => coro[t].job # worker[w].id
  BY <1>2, ResumedAfterEnd
<1>4. job[coro[t].job].result \in {"value", "error", "EINTR"}
  BY <1>3 DEF IndInv, TypeOK, Job, Over
<1>5. /\ coro' \in [Tasks -> Coroutine] /\ \A u \in Tasks : u # t => coro'[u] = coro[u]
      /\ coro'[t].at = "end" \/ (coro'[t].at = "start" /\ coro'[t].job = None)
      /\ curr' \in {t, None}
  <2>1. CASE job[coro[t].job].result = "EINTR"
    <3>1. [[coro[t] EXCEPT !.at = "end"] EXCEPT !.result = "Cancelled"] \in Coroutine
      BY <1>1, CoroFields
    <3> QED BY <1>1, <2>1, <3>1 DEF JobReturns, Raise, Coroutine
  <2>2. CASE job[coro[t].job].result # "EINTR"
    <3>1. \A r \in {"value", "error"} :
            [[[coro[t] EXCEPT !.at = "start"] EXCEPT !.job = None] EXCEPT !.result = r]
              \in Coroutine
      BY <1>1, CoroFields
    <3>2. curr' = t /\ coro' = [coro EXCEPT ![t].at = "start", ![t].job = None,
                                    ![t].result = job[coro[t].job].result]
      BY <2>2, <1>2 DEF JobReturns, Runs
    <3>3. coro' \in [Tasks -> Coroutine]
      BY <1>1, <1>4, <2>2, <3>1, <3>2
    <3>4. \A u \in Tasks : u # t => coro'[u] = coro[u]
      BY <1>1, <3>2
    <3>5. coro'[t].at = "start" /\ coro'[t].job = None
      BY <1>1, <3>2 DEF Coroutine
    <3> QED BY <3>2, <3>3, <3>4, <3>5
  <2> QED BY <2>1, <2>2
<1> QED BY <1>2, <1>3, <1>5, CallOver DEF JobReturns

\* A cancelled call is given up only if its job is not in the hands of a worker, or
\* is never interrupted.
LEMMA CancelNoWaitStep ==
    ASSUME FewJobs, IndInv, NEW t \in Tasks, CancelNoWait(t)
    PROVE  IndInv'
<1>1. coro \in [Tasks -> Coroutine] /\ coro[t] \in Coroutine
  BY CoroType DEF IndInv
<1>2. [[coro[t] EXCEPT !.at = "end"] EXCEPT !.result = "Cancelled"] \in Coroutine
  BY <1>1, CoroFields
<1>3. /\ coro' \in [Tasks -> Coroutine] /\ \A u \in Tasks : u # t => coro'[u] = coro[u]
      /\ coro'[t].at = "end"
  BY <1>1, <1>2 DEF CancelNoWait, Raise, Coroutine
<1>4. ASSUME NEW w \in Workers, worker[w].usr2, worker[w].at \in {"begin", "call"}
      PROVE  coro[t].job # worker[w].id
  <2>1. worker[w].id \in DOMAIN running_workers
    BY <1>4, Working
  <2>2. job[worker[w].id].kind # "detached"
    BY <1>4 DEF IndInv, SignalOK
  <2> QED BY <2>1, <2>2 DEF CancelNoWait
<1> QED BY <1>3, <1>4, CallOver DEF CancelNoWait, Raise, Cancelling

\* A cancelled coroutine stays in its call and is shielded from now on.
LEMMA StaysInCall ==
    ASSUME FewJobs, IndInv, NEW t \in Tasks, curr = t, phase \in {"run", "drain", "cancel"},
           InCall(t), coro[t].cancelled, NEW at \in {"shield", "retry", "raise"},
           coro' = [coro EXCEPT ![t].at = at], curr' = None,
           phase' \in {"run", "drain"}, phase' = "drain" => fatal,
           \/ UNCHANGED run_later
           \/ at = "retry" /\ run_later' = Append(run_later, t),
           UNCHANGED <<left, completed_jobs, full, fatal, killed_by_signal, pool, notify>>,
           DOMAIN job' = DOMAIN job, \A id \in DOMAIN job : Over(id) => Over(id)'
    PROVE  /\ coro' \in [Tasks -> Coroutine] /\ run_later' \in Seq(Tasks)
           /\ \A u \in Tasks : /\ InCall(u)' <=> InCall(u)
                               /\ coro'[u].job = coro[u].job
                               /\ coro'[u].cancelled = coro[u].cancelled
           /\ PhaseOK' /\ CallsOK' /\ QueueOK'
<1> USE DEF IndInv, pool
<1>1. coro \in [Tasks -> Coroutine] /\ coro[t] \in Coroutine
  BY CoroType
<1>2. coro' \in [Tasks -> Coroutine]
  <2>1. [coro[t] EXCEPT !.at = at] \in Coroutine
    BY <1>1, CoroFields
  <2> QED BY <1>1, <2>1
<1>3. /\ \A u \in Tasks : u # t => coro'[u] = coro[u]
      /\ coro'[t].at = at /\ coro'[t].job = coro[t].job
      /\ coro'[t].cancelled = coro[t].cancelled
  BY <1>1 DEF Coroutine
<1>4. \A u \in Tasks : /\ InCall(u)' <=> InCall(u)
                       /\ coro'[u].job = coro[u].job
                       /\ coro'[u].cancelled = coro[u].cancelled
  BY <1>3 DEF InCall
<1>5. /\ run_later' \in Seq(Tasks) /\ Distinct(run_later')
      /\ t \notin Members(run_later) /\ Members(run_later) \subseteq Tasks
      /\ \/ Members(run_later') = Members(run_later)
         \/ at = "retry" /\ Members(run_later') = Members(run_later) \cup {t}
  <2>1. t \notin Members(run_later) /\ Distinct(run_later) /\ run_later \in Seq(Tasks)
    BY DEF QueueOK, TypeOK
  <2>2. /\ Append(run_later, t) \in Seq(Tasks)
        /\ Members(Append(run_later, t)) = Members(run_later) \cup {t}
        /\ Distinct(Append(run_later, t))
    BY <2>1, MembersAppend
  <2> QED BY <2>1, <2>2, MembersFacts
<1>6. PhaseOK'
  BY <1>3 DEF PhaseOK
<1>7. CallsOK'
  BY <1>3, <1>4 DEF CallsOK, InCall
<1>8. QueueOK'
  <2>1. ASSUME NEW u \in Tasks, u \in Members(run_later'), AwaitsEnd(u)'
        PROVE  Over(coro[u].job)'
    <3>1. u # t
      BY <1>3, <1>5, <2>1 DEF AwaitsEnd
    <3>2. coro'[u] = coro[u] /\ u \in Members(run_later) /\ AwaitsEnd(u)
      BY <1>3, <1>5, <2>1, <3>1 DEF AwaitsEnd
    <3>3. Over(coro[u].job) /\ coro[u].job \in DOMAIN job
      BY <3>2 DEF QueueOK, CallsOK, InCall, AwaitsEnd
    <3>4. job'[coro'[u].job].result \notin {"new", "running"}
      BY <3>2, <3>3 DEF Over
    <3> QED BY <3>4 DEF Over
  <2>2. None \notin Members(run_later') /\ None \notin Tasks
    BY <1>5, IdFacts
  <2> QED BY <1>5, <2>1, <2>2 DEF QueueOK
<1> QED BY <1>2, <1>4, <1>5, <1>6, <1>7, <1>8

LEMMA CancelTestsStep ==
    ASSUME FewJobs, IndInv, NEW t \in Tasks, CancelTests(t)
    PROVE  IndInv'
<1> USE DEF IndInv, pool, Over
<1>0. /\ UNCHANGED <<left, run_later, completed_jobs, full, fatal, killed_by_signal, pool, job,
                     worker, notify>>
      /\ curr = t /\ phase \in {"run", "drain"} /\ InCall(t) /\ coro[t].cancelled
      /\ coro[t].job \in DOMAIN running_workers /\ coro[t].at \in {"wait", "retry"}
      /\ job[coro[t].job].kind \in {"cancellable", "sigwait"}
      /\ \/ phase' = phase /\ curr' = None /\ coro' = [coro EXCEPT ![t].at = "shield"]
         \/ phase' = "cancel" /\ UNCHANGED <<curr, coro>>
  BY DEF CancelTests, Cancelling, Runs, InCall, Suspend, CallsOK
<1>1. BusyOK' /\ WorkersOK' /\ JobsOK' /\ QueuedOnlyWhenSaturated' /\ PipeOK'
  BY <1>0 DEF BusyOK, WorkersOK, JobsOK, QueuedOnlyWhenSaturated, PipeOK, Pipe, Taken,
              HandedOver
<1>2. IdleOK'
  BY <1>0 DEF IdleOK
<1>3. CASE UNCHANGED <<curr, coro>> /\ phase' = "cancel"
  <2>1. TypeOK'
    BY <1>0, <1>3 DEF TypeOK
  <2>2. PhaseOK'
    BY <1>0, <1>3, IdFacts DEF PhaseOK
  <2>3. CallsOK' /\ QueueOK' /\ SignalOK'
    BY <1>0, <1>3 DEF CallsOK, QueueOK, SignalOK, InCall, AwaitsEnd
  <2> QED BY <1>1, <1>2, <2>1, <2>2, <2>3
<1>4. CASE phase' = phase /\ curr' = None /\ coro' = [coro EXCEPT ![t].at = "shield"]
  <2>1. phase = "drain" => fatal
    BY DEF PhaseOK
  <2>2. /\ coro' \in [Tasks -> Coroutine]
        /\ \A u \in Tasks : /\ InCall(u)' <=> InCall(u)
                            /\ coro'[u].job = coro[u].job
                            /\ coro'[u].cancelled = coro[u].cancelled
        /\ PhaseOK' /\ CallsOK' /\ QueueOK'
    BY <1>0, <1>4, <2>1, StaysInCall
  <2>3. TypeOK'
    BY <1>0, <1>4, <2>2 DEF TypeOK
  <2>4. SignalOK'
    BY <1>0, <2>2 DEF SignalOK
  <2> QED BY <1>1, <1>2, <2>2, <2>3, <2>4
<1> QED BY <1>0, <1>3, <1>4

\* pthread_kill: the signal is for the job of this coroutine, if its worker is
\* executing one at all.
LEMMA CancelBySignalStep ==
    ASSUME FewJobs, IndInv, CancelBySignal
    PROVE  IndInv'
<1> USE DEF IndInv, pool, Over
<1>0. PICK t \in Tasks :
        /\ t = curr /\ phase = "cancel" /\ coro[t].cancelled /\ coro[t].at \in {"wait", "retry"}
        /\ coro[t].job \in DOMAIN running_workers
        /\ job[coro[t].job].kind \in {"cancellable", "sigwait"}
  BY DEF CancelBySignal, PhaseOK
<1>1. PICK w \in Workers : w = running_workers[coro[t].job]
  BY <1>0 DEF TypeOK
<1>2. /\ worker' = [worker EXCEPT ![w].usr2 = TRUE]
      /\ coro' = [coro EXCEPT ![t].at = "retry"] /\ curr' = None
      /\ run_later' = Append(run_later, t)
      /\ phase' \in {"run", "drain"} /\ (phase' = "drain" => fatal)
      /\ UNCHANGED <<left, completed_jobs, full, fatal, killed_by_signal, pool, job, notify>>
  BY <1>0, <1>1 DEF CancelBySignal, RetryLater, AfterCancel, Suspend
<1>3. /\ coro' \in [Tasks -> Coroutine] /\ run_later' \in Seq(Tasks)
      /\ \A u \in Tasks : /\ InCall(u)' <=> InCall(u)
                          /\ coro'[u].job = coro[u].job
                          /\ coro'[u].cancelled = coro[u].cancelled
      /\ PhaseOK' /\ CallsOK' /\ QueueOK'
  BY <1>0, <1>2, StaysInCall DEF InCall
<1>4. worker \in [Workers -> Worker] /\ worker[w] \in Worker
  BY WorkerType
<1>5. worker' \in [Workers -> Worker]
  BY <1>2, <1>4, WorkerFields
<1>6. /\ \A v \in Workers : v # w => worker'[v] = worker[v]
      /\ \A v \in Workers : /\ worker'[v].at = worker[v].at /\ worker'[v].id = worker[v].id
                            /\ worker'[v].job = worker[v].job /\ worker'[v].usr1 = worker[v].usr1
                            /\ worker'[v].job_id = worker[v].job_id
  BY <1>2, <1>4 DEF Worker
<1>7. TypeOK'
  BY <1>2, <1>3, <1>5 DEF TypeOK
<1>8. BusyOK' /\ JobsOK' /\ PipeOK'
  <2>1. BusyOK'
    BY <1>2, <1>6 DEF BusyOK, Taken, HandedOver, TypeOK
  <2>2. PipeOK'
    BY <1>2, <1>6 DEF PipeOK, Pipe, Taken, TypeOK
  <2> QED BY <1>2, <2>1, <2>2 DEF JobsOK
<1>9. IdleOK'
  BY <1>0, <1>2, <1>6, MembersFacts DEF IdleOK
<1>10. WorkersOK'
  BY <1>0, <1>1, <1>2, <1>6 DEF WorkersOK
<1>11. SignalOK'
  <2>1. ASSUME worker[w].at \in {"begin", "call"} PROVE worker[w].id = coro[t].job
    BY <2>1, <1>0, <1>1, Working DEF WorkersOK
  <2>2. ASSUME NEW v \in Workers, worker'[v].usr2, worker'[v].at \in {"begin", "call"}
        PROVE  /\ job'[worker'[v].id].kind \in {"cancellable", "sigwait"}
               /\ \E u \in Tasks : InCall(u)' /\ coro'[u].cancelled /\ coro'[u].job = worker'[v].id
    <3>1. CASE v = w
      BY <1>0, <1>2, <1>3, <1>6, <2>1, <2>2, <3>1 DEF InCall
    <3>2. CASE v # w
      BY <1>2, <1>3, <1>6, <2>2, <3>2 DEF SignalOK
    <3> QED BY <3>1, <3>2
  <2> QED BY <1>2, <1>3, <2>2 DEF SignalOK
<1>12. QueuedOnlyWhenSaturated'
  <2>1. {v \in Workers : worker'[v].at # "none"} = {v \in Workers : worker[v].at # "none"}
    BY <1>6
  <2> QED BY <1>2, <2>1 DEF QueuedOnlyWhenSaturated
<1> QED BY <1>3, <1>7, <1>8, <1>9, <1>10, <1>11, <1>12

\* CancelSynchronousIo ends the blocked call of a cancelled coroutine.
LEMMA CancelEndsCall ==
    ASSUME FewJobs, IndInv, NEW t \in Tasks, t = curr, phase = "cancel",
           InCall(t), coro[t].cancelled, coro[t].job \in DOMAIN running_workers,
           NEW w \in Workers, w = running_workers[coro[t].job], worker[w].at = "call",
           NEW result \in {"value", "error", "EINTR"},
           worker' = [worker EXCEPT ![w].at = "done"],
           job' = [job EXCEPT ![worker[w].id].result = result],
           coro' = [coro EXCEPT ![t].at = "shield"], curr' = None,
           phase' \in {"run", "drain"}, phase' = "drain" => fatal,
           UNCHANGED <<left, run_later, completed_jobs, full, fatal, killed_by_signal, pool,
                       notify>>
    PROVE  IndInv'
<1> USE DEF IndInv, pool, Over
<1>a. PICK id \in Ids : id = coro[t].job
  BY DEF TypeOK
<1>0. /\ worker[w].id = id /\ id \in DOMAIN running_workers /\ running_workers[id] = w
      /\ Taken(id) /\ id \in DOMAIN job
      /\ worker[w].job = id /\ w \notin Members(idle_workers)
      /\ id \notin Members(Pipe)
  BY <1>a, Working, IdFacts DEF WorkersOK
<1>1. worker \in [Workers -> Worker] /\ worker[w] \in Worker
  BY WorkerType
<1>2. worker' \in [Workers -> Worker]
  BY <1>1, WorkerFields
<1>3. /\ \A v \in Workers : v # w => worker'[v] = worker[v]
      /\ worker'[w].at = "done" /\ worker'[w].id = id /\ worker'[w].usr1 = worker[w].usr1
      /\ worker'[w].job = id /\ worker'[w].job_id = worker[w].job_id
  BY <1>0, <1>1 DEF Worker
<1>4. job' \in [0 .. job_id - 1 -> Job] /\ DOMAIN job' = DOMAIN job
  BY <1>0 DEF TypeOK, Job
<1>5. /\ \A j \in DOMAIN job : j # id => job'[j] = job[j]
      /\ \A j \in DOMAIN job : job'[j].kind = job[j].kind
      /\ job'[id].result = result
  BY <1>0 DEF TypeOK, Job
<1>6. \A j \in DOMAIN job : Over(j) => Over(j)'
  BY <1>5
<1>7. /\ coro' \in [Tasks -> Coroutine]
      /\ \A u \in Tasks : /\ InCall(u)' <=> InCall(u)
                          /\ coro'[u].job = coro[u].job
                          /\ coro'[u].cancelled = coro[u].cancelled
      /\ PhaseOK' /\ CallsOK' /\ QueueOK'
  BY <1>4, <1>6, StaysInCall
<1>8. TypeOK'
  BY <1>2, <1>4, <1>7 DEF TypeOK
<1>9. BusyOK'
  BY <1>0, <1>3, <1>5 DEF BusyOK, TypeOK, Taken, HandedOver, WorkersOK, JobsOK
<1>10. IdleOK'
  BY <1>0, <1>3, MembersFacts DEF IdleOK, Distinct
<1>11. WorkersOK'
  BY <1>0, <1>3 DEF WorkersOK, TypeOK
<1>12. PipeOK'
  BY <1>0, <1>3, <1>5 DEF PipeOK, Pipe, TypeOK, Taken, WorkersOK, JobsOK
<1>13. JobsOK'
  BY <1>0, <1>4, <1>5 DEF JobsOK, TypeOK, Taken
<1>14. SignalOK'
  <2>1. ASSUME NEW v \in Workers, worker'[v].usr2, worker'[v].at \in {"begin", "call"}
        PROVE  /\ job'[worker'[v].id].kind \in {"cancellable", "sigwait"}
               /\ \E u \in Tasks : InCall(u)' /\ coro'[u].cancelled /\ coro'[u].job = worker'[v].id
    <3>1. v # w /\ worker'[v] = worker[v]
      BY <2>1, <1>3
    <3>2. worker[v].id \in DOMAIN job
      BY <3>1, <2>1, Working
    <3> QED BY <2>1, <3>1, <3>2, <1>5, <1>7 DEF SignalOK
  <2>2. ASSUME NEW u \in Tasks, InCall(u)', job'[coro'[u].job].result = "EINTR"
        PROVE  coro'[u].cancelled
    <3>1. CASE u = t
      BY <1>7, <3>1
    <3>2. CASE u # t
      <4>1. InCall(u) /\ coro[u].job # id /\ coro[u].job \in DOMAIN job
        BY <1>7, <1>a, <2>2, <3>2 DEF CallsOK
      <4>2. job[coro[u].job].result = "EINTR"
        <5>1. coro'[u].job = coro[u].job
          BY <1>7
        <5>2. job'[coro[u].job] = job[coro[u].job]
          BY <1>5, <4>1
        <5>3. job'[coro[u].job].result = "EINTR"
          BY <2>2, <5>1, Zenon
        <5> QED BY <5>2, <5>3, Zenon
      <4>3. coro[u].cancelled
        BY <4>1, <4>2 DEF SignalOK
      <4> QED BY <1>7, <4>3
    <3> QED BY <3>1, <3>2
  <2> QED BY <2>1, <2>2 DEF SignalOK
<1>15. QueuedOnlyWhenSaturated'
  <2>1. {v \in Workers : worker'[v].at # "none"} = {v \in Workers : worker[v].at # "none"}
    BY <1>3
  <2> QED BY <2>1 DEF QueuedOnlyWhenSaturated
<1> QED BY <1>7, <1>8, <1>9, <1>10, <1>11, <1>12, <1>13, <1>14, <1>15

LEMMA CancelSynchronousIoStep ==
    ASSUME FewJobs, IndInv, CancelSynchronousIo
    PROVE  IndInv'
<1> USE DEF IndInv, pool, Over
<1>0. PICK t \in Tasks :
        /\ t = curr /\ phase = "cancel" /\ coro[t].cancelled /\ coro[t].at \in {"wait", "retry"}
        /\ coro[t].job \in DOMAIN running_workers
  BY DEF CancelSynchronousIo, PhaseOK
<1>1. PICK w \in Workers : w = running_workers[coro[t].job]
  BY <1>0 DEF TypeOK
<1>2. /\ phase' \in {"run", "drain"} /\ (phase' = "drain" => fatal) /\ curr' = None
      /\ UNCHANGED <<left, completed_jobs, full, fatal, killed_by_signal, pool, notify>>
  BY DEF CancelSynchronousIo, RetryLater, CancelError, AfterCancel, Suspend
<1>3. InCall(t)
  BY <1>0 DEF InCall
<1>4. CASE /\ worker[w].at = "call" /\ coro' = [coro EXCEPT ![t].at = "shield"]
           /\ worker' = [worker EXCEPT ![w].at = "done"]
           /\ \E result \in {"value", "error", "EINTR"} :
                job' = [job EXCEPT ![worker[w].id].result = result]
           /\ UNCHANGED run_later
  BY <1>0, <1>1, <1>2, <1>3, <1>4, CancelEndsCall
<1>5. ASSUME NEW at \in {"shield", "retry", "raise"}, coro' = [coro EXCEPT ![t].at = at],
             UNCHANGED run_later \/ (at = "retry" /\ run_later' = Append(run_later, t)),
             UNCHANGED <<worker, job>>
      PROVE  IndInv'
  <2>1. /\ coro' \in [Tasks -> Coroutine] /\ run_later' \in Seq(Tasks)
        /\ \A u \in Tasks : /\ InCall(u)' <=> InCall(u)
                            /\ coro'[u].job = coro[u].job
                            /\ coro'[u].cancelled = coro[u].cancelled
        /\ PhaseOK' /\ CallsOK' /\ QueueOK'
    <3>1. DOMAIN job' = DOMAIN job /\ \A id \in DOMAIN job : Over(id) => Over(id)'
      BY <1>5
    <3> QED BY <1>0, <1>2, <1>3, <1>5, <3>1, StaysInCall
  <2>2. TypeOK'
    BY <1>2, <1>5, <2>1 DEF TypeOK
  <2>3. SignalOK'
    BY <1>5, <2>1 DEF SignalOK
  <2>4. BusyOK' /\ WorkersOK' /\ JobsOK' /\ QueuedOnlyWhenSaturated' /\ PipeOK'
    BY <1>2, <1>5 DEF BusyOK, WorkersOK, JobsOK, QueuedOnlyWhenSaturated, PipeOK, Pipe,
                      Taken, HandedOver
  <2>5. IdleOK'
    BY <1>0, <1>2, <1>5 DEF IdleOK
  <2> QED BY <2>1, <2>2, <2>3, <2>4, <2>5
<1>6. \/ /\ worker[w].at = "call" /\ coro' = [coro EXCEPT ![t].at = "shield"]
         /\ worker' = [worker EXCEPT ![w].at = "done"]
         /\ \E result \in {"value", "error", "EINTR"} :
              job' = [job EXCEPT ![worker[w].id].result = result]
         /\ UNCHANGED run_later
      \/ /\ coro' = [coro EXCEPT ![t].at = "retry"] /\ run_later' = Append(run_later, t)
         /\ UNCHANGED <<worker, job>>
      \/ coro' = [coro EXCEPT ![t].at = "raise"] /\ UNCHANGED <<run_later, worker, job>>
  BY <1>0, <1>1 DEF CancelSynchronousIo, RetryLater, CancelError, Suspend
<1> QED BY <1>4, <1>5, <1>6

\* Coroutine::cancel by another coroutine, by a signal, or by cleanup: who waits
\* unshielded is woken.
LEMMA CoroutineCancelled ==
    ASSUME FewJobs, IndInv, NEW t \in Tasks, CancelCoroutine(t), phase # "join", curr # t,
           phase = "cancel" => curr \in Tasks,
           UNCHANGED <<phase, left, curr, full, fatal, pool, job, worker, notify>>
    PROVE  /\ coro' \in [Tasks -> Coroutine] /\ run_later' \in Seq(Tasks)
           /\ BusyOK' /\ IdleOK' /\ WorkersOK' /\ JobsOK' /\ CallsOK' /\ QueueOK' /\ SignalOK'
           /\ QueuedOnlyWhenSaturated'
           /\ UNCHANGED completed_jobs => PipeOK' /\ PhaseOK'
           /\ \A u \in Tasks : /\ coro'[u].at = coro[u].at /\ coro'[u].job = coro[u].job
                               /\ coro'[u].result = coro[u].result
                               /\ coro[u].cancelled => coro'[u].cancelled
<1> USE DEF IndInv, pool, Over
<1>1. coro \in [Tasks -> Coroutine] /\ coro[t] \in Coroutine
  BY CoroType
<1>2. coro' \in [Tasks -> Coroutine]
  <2>1. (coro[t].cancelled \/ coro[t].at # "end") \in BOOLEAN
    OBVIOUS
  <2>2. [coro[t] EXCEPT !.cancelled = coro[t].cancelled \/ coro[t].at # "end"] \in Coroutine
    BY <1>1, <2>1, CoroFields
  <2> QED BY <1>1, <2>2 DEF CancelCoroutine
<1>3. /\ \A u \in Tasks : u # t => coro'[u] = coro[u]
      /\ coro'[t].at = coro[t].at /\ coro'[t].job = coro[t].job /\ coro'[t].result = coro[t].result
  BY <1>1 DEF CancelCoroutine, Coroutine
<1>4. /\ coro[t].cancelled => coro'[t].cancelled
      /\ coro[t].at # "end" => coro'[t].cancelled
  BY <1>1 DEF CancelCoroutine, Coroutine
<1>5. /\ run_later' \in Seq(Tasks) /\ Distinct(run_later')
      /\ \/ Members(run_later') = Members(run_later)
         \/ coro[t].at = "wait" /\ Members(run_later') = Members(run_later) \cup {t}
  <2>1. run_later \in Seq(Tasks) /\ Distinct(run_later)
    BY DEF TypeOK, QueueOK
  <2>2. /\ wake(run_later, {t}) \in Seq(Tasks)
        /\ Members(wake(run_later, {t})) = Members(run_later) \cup {t}
        /\ Distinct(wake(run_later, {t}))
    BY <2>1, WakeOnce
  <2> QED BY <2>1, <2>2 DEF CancelCoroutine
<1>6. BusyOK' /\ IdleOK' /\ WorkersOK' /\ JobsOK' /\ QueuedOnlyWhenSaturated'
  BY DEF BusyOK, IdleOK, WorkersOK, JobsOK, QueuedOnlyWhenSaturated, Taken, HandedOver
<1>7. CallsOK'
  BY <1>3, <1>4 DEF CallsOK, InCall
<1>8. QueueOK'
  <2>1. curr \notin Members(run_later')
    BY <1>5 DEF QueueOK
  <2>2. ASSUME NEW u \in Tasks, u \in Members(run_later') \/ curr = u, AwaitsEnd(u)'
        PROVE  Over(coro[u].job)'
    <3>1. CASE u = t
      BY <1>3, <1>4, <1>5, <2>2, <3>1 DEF QueueOK, AwaitsEnd
    <3>2. CASE u # t
      BY <1>3, <1>5, <2>2, <3>2 DEF QueueOK, AwaitsEnd
    <3> QED BY <3>1, <3>2
  <2> QED BY <1>5, <2>1, <2>2 DEF QueueOK
<1>9. SignalOK'
  <2>1. ASSUME NEW v \in Workers, worker[v].usr2, worker[v].at \in {"begin", "call"}
        PROVE  \E u \in Tasks : InCall(u)' /\ coro'[u].cancelled /\ coro'[u].job = worker[v].id
    BY <1>3, <1>4, <2>1 DEF SignalOK, InCall
  <2>2. \A u \in Tasks : InCall(u)' /\ job[coro'[u].job].result = "EINTR" => coro'[u].cancelled
    BY <1>3, <1>4 DEF SignalOK, InCall
  <2> QED BY <2>1, <2>2 DEF SignalOK
<1>10. UNCHANGED completed_jobs => PipeOK' /\ PhaseOK'
  <2>1. UNCHANGED completed_jobs => PhaseOK'
    BY <1>3 DEF PhaseOK
  <2> QED BY <2>1 DEF PipeOK, Pipe, Taken
<1>11. \A u \in Tasks : /\ coro'[u].at = coro[u].at /\ coro'[u].job = coro[u].job
                        /\ coro'[u].result = coro[u].result
                        /\ coro[u].cancelled => coro'[u].cancelled
  BY <1>3, <1>4
<1> QED BY <1>2, <1>5, <1>6, <1>7, <1>8, <1>9, <1>10, <1>11

LEMMA CancelStep ==
    ASSUME FewJobs, IndInv, NEW t \in Tasks, Cancel(t) \/ AbortWaiter(t)
    PROVE  IndInv'
<1>1. /\ CancelCoroutine(t) /\ phase # "join" /\ phase # "cancel" /\ curr # t
      /\ UNCHANGED <<phase, left, curr, completed_jobs, full, fatal, killed_by_signal, pool,
                     job, worker, notify>>
  BY IdFacts DEF Cancel, AbortWaiter
<1>2. TypeOK'
  <2>1. coro' \in [Tasks -> Coroutine] /\ run_later' \in Seq(Tasks)
    BY <1>1, CoroutineCancelled
  <2> QED BY <1>1, <2>1 DEF IndInv, TypeOK, pool
<1> QED BY <1>1, <1>2, CoroutineCancelled DEF IndInv

-----------------------------------------------------------------------------
(* Completions and submissions. *)

\* The first id that was read leaves the pipe for good.
LEMMA PipeShrinks ==
    ASSUME FewJobs, IndInv, completed_jobs # <<>>, completed_jobs' = Tail(completed_jobs),
           UNCHANGED notify
    PROVE  /\ completed_jobs' \in Seq(Ids \cup {Signal})
           /\ Members(Pipe) = Members(Pipe') \cup {Head(completed_jobs)}
           /\ Head(completed_jobs) \notin Members(Pipe') /\ Distinct(Pipe')
<1> DEFINE S == Ids \cup {Signal}
<1>1. notify \in Seq(S) /\ completed_jobs \in Seq(S) /\ Pipe \in Seq(S)
  BY MembersFacts DEF IndInv, TypeOK
<1> HIDE DEF S
<1>2. /\ Head(completed_jobs) \in S /\ Tail(completed_jobs) \in Seq(S)
      /\ Len(Tail(completed_jobs)) = Len(completed_jobs) - 1
      /\ \A i \in 1 .. Len(Tail(completed_jobs)) : Tail(completed_jobs)[i] = completed_jobs[i + 1]
      /\ Head(completed_jobs) = completed_jobs[1]
  BY <1>1, HeadTailProperties
<1>3. Len(completed_jobs) \in Nat \ {0} /\ Len(notify) \in Nat
  BY <1>1, EmptySeq, LenProperties
<1>4. /\ Len(Pipe) = Len(completed_jobs) + Len(notify)
      /\ \A i \in 1 .. Len(completed_jobs) + Len(notify) : Pipe[i] =
            IF i <= Len(completed_jobs) THEN completed_jobs[i] ELSE notify[i - Len(completed_jobs)]
  BY <1>1, ConcatProperties DEF Pipe
<1>5. /\ Pipe' \in Seq(S) /\ Len(Pipe') = Len(completed_jobs) - 1 + Len(notify)
      /\ \A i \in 1 .. Len(completed_jobs) - 1 + Len(notify) : Pipe'[i] =
            IF i <= Len(completed_jobs) - 1 THEN Tail(completed_jobs)[i]
                                            ELSE notify[i - (Len(completed_jobs) - 1)]
  <2>1. Pipe' = Tail(completed_jobs) \o notify
    BY DEF Pipe
  <2>2. /\ Tail(completed_jobs) \o notify \in Seq(S)
        /\ Len(Tail(completed_jobs) \o notify) = Len(Tail(completed_jobs)) + Len(notify)
        /\ \A i \in 1 .. Len(Tail(completed_jobs)) + Len(notify) :
             (Tail(completed_jobs) \o notify)[i] =
                IF i <= Len(Tail(completed_jobs)) THEN Tail(completed_jobs)[i]
                                                  ELSE notify[i - Len(Tail(completed_jobs))]
    BY <1>1, <1>2, ConcatProperties
  <2> QED BY <1>2, <2>1, <2>2
<1>6. Pipe # <<>> /\ Head(Pipe) = Head(completed_jobs)
  BY <1>1, <1>2, <1>3, <1>4
<1>7. Pipe' = Tail(Pipe)
  <2>1. /\ Tail(Pipe) \in Seq(S) /\ Len(Tail(Pipe)) = Len(Pipe) - 1
        /\ \A i \in 1 .. Len(Tail(Pipe)) : Tail(Pipe)[i] = Pipe[i + 1]
    BY <1>1, <1>6, HeadTailProperties
  <2>2. ASSUME NEW i \in 1 .. Len(Pipe') PROVE Pipe'[i] = Tail(Pipe)[i]
    <3>1. i + 1 \in 1 .. Len(completed_jobs) + Len(notify) /\ i \in 1 .. Len(Tail(Pipe))
      BY <1>3, <1>4, <1>5, <2>1
    <3>2. CASE i <= Len(completed_jobs) - 1
      BY <1>2, <1>3, <1>4, <1>5, <2>1, <3>1, <3>2
    <3>3. CASE ~ (i <= Len(completed_jobs) - 1)
      BY <1>3, <1>4, <1>5, <2>1, <3>1, <3>3
    <3> QED BY <3>2, <3>3
  <2>3. Len(Pipe') = Len(Tail(Pipe))
    BY <1>3, <1>4, <1>5, <2>1
  <2> QED BY <1>5, <2>1, <2>2, <2>3, SeqEqual
<1>8. Members(Pipe) = Members(Tail(Pipe)) \cup {Head(Pipe)}
      /\ Distinct(Tail(Pipe)) /\ Head(Pipe) \notin Members(Tail(Pipe))
  BY <1>1, <1>6, MembersTail DEF IndInv, PipeOK
<1> QED BY <1>2, <1>6, <1>7, <1>8 DEF S

\* The workers that were spawned.
Spawned == {w \in Workers : worker[w].at # "none"}

\* The busy workers and their jobs are equally many.
LEMMA BusyCount ==
    ASSUME FewJobs, IndInv
    PROVE  /\ IsFiniteSet(DOMAIN running_workers) /\ IsFiniteSet(Spawned)
           /\ Cardinality(DOMAIN running_workers) \in Nat
           /\ config.max_worker_count \in Nat \ {0}
           /\ Cardinality(DOMAIN running_workers) <= config.max_worker_count
           /\ idle_workers = <<>> => Cardinality(Spawned) = Cardinality(DOMAIN running_workers)
           /\ /\ idle_workers = <<>>
              /\ Cardinality(DOMAIN running_workers) < config.max_worker_count
              => \E v \in Workers : worker[v].at = "none"
<1> USE DEF IndInv
<1> DEFINE busy == {running_workers[id] : id \in DOMAIN running_workers}
<1>1. IsFiniteSet(DOMAIN running_workers) /\ Cardinality(DOMAIN running_workers) \in Nat
  <2>1. MaxJobs \in Nat
    BY IdFacts
  <2>2. IsFiniteSet(Ids)
    BY <2>1, FS_Interval DEF Ids
  <2>3. DOMAIN running_workers \in SUBSET Ids
    BY DEF TypeOK
  <2>4. IsFiniteSet(DOMAIN running_workers)
    BY <2>2, <2>3, FS_Subset
  <2> QED BY <2>4, FS_CardinalityType
<1>2. IsFiniteSet(Spawned) /\ Cardinality(Spawned) \in Nat
  <2>1. IsFiniteSet(Workers) /\ Spawned \in SUBSET Workers
    BY PoolAssumption DEF Spawned
  <2>2. IsFiniteSet(Spawned)
    BY <2>1, FS_Subset
  <2> QED BY <2>2, FS_CardinalityType
<1>3. IsFiniteSet(busy) /\ Cardinality(busy) = Cardinality(DOMAIN running_workers)
  <2> DEFINE f == [id \in DOMAIN running_workers |-> running_workers[id]]
  <2>1. f \in Bijection(DOMAIN running_workers, busy)
    <3>1. f \in [DOMAIN running_workers -> busy]
      OBVIOUS
    <3>2. \A i, j \in DOMAIN running_workers : f[i] = f[j] => i = j
      BY DEF WorkersOK
    <3>3. \A x \in busy : \E i \in DOMAIN running_workers : f[i] = x
      OBVIOUS
    <3> QED BY <3>1, <3>2, <3>3 DEF Bijection, Injection, Surjection, IsInjective
  <2>2. ExistsBijection(DOMAIN running_workers, busy)
    BY <2>1 DEF ExistsBijection
  <2> QED BY <1>1, <2>2, FS_Bijection
<1>4. busy \in SUBSET Spawned
  <2>1. ASSUME NEW id \in DOMAIN running_workers PROVE running_workers[id] \in Spawned
    BY DEF BusyOK, Taken, HandedOver, TypeOK, Spawned
  <2> QED BY <2>1
<1>5. Cardinality(busy) <= Cardinality(Spawned)
  BY <1>2, <1>4, FS_Subset
<1>6. config.max_worker_count \in Nat \ {0} /\ config.max_worker_count <= Cardinality(Workers)
  BY PoolAssumption DEF TypeOK, Config
<1>7. Cardinality(Spawned) <= config.max_worker_count
  BY DEF QueuedOnlyWhenSaturated, Spawned
<1>8. idle_workers = <<>> => Spawned = busy
  <2> SUFFICES ASSUME idle_workers = <<>>, NEW w \in Spawned PROVE w \in busy
    BY <1>4
  <2>1. Members(idle_workers) = {}
    BY MembersType DEF TypeOK
  <2> QED BY <2>1 DEF WorkersOK, Spawned
<1> HIDE DEF busy, IndInv
<1>9. /\ idle_workers = <<>>
      /\ Cardinality(DOMAIN running_workers) < config.max_worker_count
      => \E v \in Workers : worker[v].at = "none"
  <2> SUFFICES ASSUME idle_workers = <<>>,
                      Cardinality(DOMAIN running_workers) < config.max_worker_count,
                      \A v \in Workers : worker[v].at # "none"
               PROVE  FALSE
    OBVIOUS
  <2>1. Spawned = Workers
    BY DEF Spawned
  <2> QED BY <1>1, <1>3, <1>6, <1>8, <2>1
<1> QED BY <1>1, <1>2, <1>3, <1>5, <1>6, <1>7, <1>8, <1>9

\* A signal cancels main.
LEMMA SignalStep ==
    ASSUME FewJobs, IndInv, phase = "handle", completed_jobs # <<>>,
           Head(completed_jobs) = Signal, HandleSignal,
           completed_jobs' = Tail(completed_jobs),
           UNCHANGED <<phase, left, curr, full, fatal, pool, job, worker, notify>>
    PROVE  IndInv'
<1> USE DEF IndInv
<1>1. /\ completed_jobs' \in Seq(Ids \cup {Signal})
      /\ Members(Pipe) = Members(Pipe') \cup {Head(completed_jobs)}
      /\ Head(completed_jobs) \notin Members(Pipe') /\ Distinct(Pipe')
  BY PipeShrinks
<1>2. Main \in Tasks /\ curr = None /\ curr # Main
  BY IdFacts DEF PhaseOK
<1>3. /\ coro' \in [Tasks -> Coroutine] /\ run_later' \in Seq(Tasks)
      /\ BusyOK' /\ IdleOK' /\ WorkersOK' /\ JobsOK' /\ CallsOK' /\ QueueOK' /\ SignalOK'
      /\ QueuedOnlyWhenSaturated'
  BY <1>2, CoroutineCancelled DEF HandleSignal
<1>4. TypeOK'
  BY <1>1, <1>3 DEF TypeOK, pool, HandleSignal
<1>5. PipeOK'
  BY <1>1 DEF PipeOK, pool, Taken, Over
<1>6. PhaseOK'
  BY DEF PhaseOK, pool
<1> QED BY <1>3, <1>4, <1>5, <1>6

\* A completion: the job is over, its worker is free for another one, and the
\* coroutine that waits for it is woken.
LEMMA CompletionFacts ==
    ASSUME FewJobs, IndInv, phase = "handle", completed_jobs # <<>>,
           NEW id, id = Head(completed_jobs), ~ IsSignal(id),
           completed_jobs' = Tail(completed_jobs), UNCHANGED notify,
           run_later' = wake(run_later, Waiter(id))
    PROVE  /\ completed_jobs' \in Seq(Ids \cup {Signal})
           /\ Members(Pipe) = Members(Pipe') \cup {id} /\ id \notin Members(Pipe')
           /\ Distinct(Pipe')
           /\ id \in Ids /\ id \in DOMAIN running_workers /\ id \in DOMAIN job /\ Over(id)
           /\ running_workers[id] \in Workers
           /\ worker[running_workers[id]].at \in {"sent", "wait"}
           /\ ~ worker[running_workers[id]].usr1
           /\ run_later' \in Seq(Tasks) /\ Distinct(run_later')
           /\ Members(run_later') = Members(run_later) \cup Waiter(id)
<1> USE DEF IndInv
<1>1. /\ completed_jobs' \in Seq(Ids \cup {Signal})
      /\ Members(Pipe) = Members(Pipe') \cup {id} /\ id \notin Members(Pipe')
      /\ Distinct(Pipe')
  BY PipeShrinks
<1>2. id \in Members(Pipe) \ {Signal} /\ id \in Ids
  BY <1>1, MembersFacts, IdFacts
<1>3. /\ id \in DOMAIN running_workers /\ Taken(id)
      /\ worker[running_workers[id]].at \in {"sent", "wait"}
  BY <1>2 DEF PipeOK
<1>4. Over(id) /\ ~ worker[running_workers[id]].usr1
  BY <1>3 DEF Taken
<1>5. id \in DOMAIN job /\ running_workers[id] \in Workers
  BY <1>3 DEF JobsOK, TypeOK
<1>6. Waiter(id) \in SUBSET Tasks /\ \A t, u \in Waiter(id) : t = u
  BY <1>2, IdFacts DEF Waiter, CallsOK, InCall
<1>7. run_later' \in Seq(Tasks) /\ Distinct(run_later')
      /\ Members(run_later') = Members(run_later) \cup Waiter(id)
  <2>1. run_later \in Seq(Tasks) /\ Distinct(run_later)
    BY DEF TypeOK, QueueOK
  <2> QED BY <1>6, <2>1, WakeOnce
<1> QED BY <1>1, <1>2, <1>3, <1>4, <1>5, <1>7

\* The woken coroutine waits for a job that is over.
LEMMA CompletionWakes ==
    ASSUME FewJobs, IndInv, phase = "handle", NEW id, id \in Ids, Over(id),
           Distinct(run_later'), Members(run_later') = Members(run_later) \cup Waiter(id),
           UNCHANGED <<phase, curr, fatal, coro, job>>
    PROVE  QueueOK' /\ CallsOK'
<1>1. curr = None
  BY DEF IndInv, PhaseOK
<1>2. None \notin Members(run_later') /\ None \notin Tasks
  BY IdFacts, MembersFacts DEF IndInv, Waiter
<1>3. ASSUME NEW t \in Tasks, t \in Members(run_later'), AwaitsEnd(t)
      PROVE  Over(coro[t].job)
  BY <1>3 DEF IndInv, QueueOK, Waiter
<1> QED BY <1>1, <1>2, <1>3 DEF QueueOK, AwaitsEnd, Over, CallsOK, InCall, IndInv

\* The worker takes the first queued job.
LEMMA TakeQueuedStep ==
    ASSUME FewJobs, IndInv, phase = "handle", completed_jobs # <<>>,
           NEW id, id = Head(completed_jobs), ~ IsSignal(id),
           TakeQueued(running_workers[id], id),
           run_later' = wake(run_later, Waiter(id)), completed_jobs' = Tail(completed_jobs),
           UNCHANGED <<phase, left, curr, full, fatal, killed_by_signal, coro, job, notify>>
    PROVE  IndInv'
<1> USE DEF IndInv
<1>1. /\ completed_jobs' \in Seq(Ids \cup {Signal})
      /\ Members(Pipe) = Members(Pipe') \cup {id} /\ id \notin Members(Pipe')
      /\ Distinct(Pipe')
      /\ id \in Ids /\ id \in DOMAIN running_workers /\ id \in DOMAIN job /\ Over(id)
      /\ run_later' \in Seq(Tasks) /\ Distinct(run_later')
      /\ Members(run_later') = Members(run_later) \cup Waiter(id)
  BY CompletionFacts
<1>2. PICK w \in Workers : w = running_workers[id] /\ worker[w].at \in {"sent", "wait"}
                           /\ ~ worker[w].usr1
  BY CompletionFacts
<1>3. PICK q \in Ids : q = Head(job_queue)
  BY HeadTailProperties DEF TakeQueued, TypeOK
<1>4. /\ Tail(job_queue) \in Seq(Ids) /\ Distinct(Tail(job_queue))
      /\ Members(job_queue) = Members(Tail(job_queue)) \cup {q}
      /\ q \notin Members(Tail(job_queue))
  BY <1>3, MembersTail DEF TakeQueued, TypeOK, JobsOK
<1>5. /\ q \in DOMAIN job /\ job[q].result = "new" /\ q \notin DOMAIN running_workers /\ q # id
  BY <1>1, <1>4 DEF JobsOK
<1>6. /\ worker' = wake_worker(worker, w, q, q) /\ job_queue' = Tail(job_queue)
      /\ running_workers' = With(Without(running_workers, id), q, w)
      /\ UNCHANGED <<config, job_id, idle_workers>> /\ job_queue # <<>>
  BY <1>2, <1>3 DEF TakeQueued, StillRunning
<1>7. /\ DOMAIN running_workers' = (DOMAIN running_workers \ {id}) \cup {q}
      /\ running_workers'[q] = w
      /\ \A j \in DOMAIN running_workers \ {id} : running_workers'[j] = running_workers[j]
  BY <1>5, <1>6 DEF With, Without
<1>8. \A j \in DOMAIN running_workers \ {id} : running_workers[j] \in Workers \ {w}
  BY <1>1, <1>2 DEF WorkersOK, TypeOK
<1>9. worker \in [Workers -> Worker] /\ worker[w] \in Worker
  BY WorkerType
<1>10. worker' \in [Workers -> Worker]
  <2>1. [[[[worker[w] EXCEPT !.job_id = q] EXCEPT !.job = q] EXCEPT !.waiting = FALSE]
           EXCEPT !.usr1 = TRUE] \in Worker
    BY <1>9, WorkerFields
  <2> QED BY <1>6, <1>9, <2>1 DEF wake_worker
<1>11. /\ \A v \in Workers : v # w => worker'[v] = worker[v]
       /\ worker'[w].at = worker[w].at /\ worker'[w].job = q /\ worker'[w].job_id = q
       /\ worker'[w].usr1 = TRUE /\ worker'[w].usr2 = worker[w].usr2
  BY <1>6, <1>9 DEF wake_worker, Worker
<1>12. TypeOK'
  <2>1. DOMAIN running_workers' \subseteq Ids
    BY <1>7 DEF TypeOK
  <2>2. \A j \in DOMAIN running_workers' : running_workers'[j] \in Workers
    BY <1>7, <1>8
  <2> QED BY <1>1, <1>4, <1>6, <1>10, <2>1, <2>2 DEF TypeOK
<1>13. w \notin Members(idle_workers)
  BY <1>1, <1>2 DEF BusyOK
<1>14. BusyOK'
  <2> SUFFICES ASSUME NEW j \in DOMAIN running_workers'
               PROVE  /\ worker'[running_workers'[j]].job = j
                      /\ worker'[running_workers'[j]].job_id = j
                      /\ running_workers'[j] \notin Members(idle_workers)
                      /\ Taken(j)' \/ HandedOver(j)'
    BY <1>6 DEF BusyOK
  <2>1. CASE j = q
    BY <1>2, <1>5, <1>7, <1>11, <1>13, <2>1 DEF HandedOver
  <2>2. CASE j # q
    <3>1. /\ j \in DOMAIN running_workers \ {id} /\ running_workers'[j] = running_workers[j]
          /\ worker'[running_workers[j]] = worker[running_workers[j]]
      BY <1>7, <1>8, <1>11, <2>2
    <3> QED BY <3>1 DEF BusyOK, Taken, HandedOver, Over
  <2> QED BY <2>1, <2>2
<1>15. IdleOK'
  BY <1>6, <1>11, <1>13, MembersFacts DEF IdleOK
<1>16. WorkersOK'
  <2>1. \A i, j \in DOMAIN running_workers' : running_workers'[i] = running_workers'[j] => i = j
    BY <1>7, <1>8 DEF WorkersOK
  <2>2. ASSUME NEW v \in Workers
        PROVE  \/ worker'[v].at = "none" /\ ~ worker'[v].usr1 /\ ~ worker'[v].usr2
               \/ worker'[v].at # "none" /\ v \in Members(idle_workers)
               \/ \E j \in DOMAIN running_workers' : running_workers'[j] = v
    <3>1. CASE v = w
      BY <1>7, <3>1
    <3>2. CASE v # w
      BY <1>2, <1>7, <1>11, <3>2 DEF WorkersOK
    <3> QED BY <3>1, <3>2
  <2> QED BY <1>6, <2>1, <2>2 DEF WorkersOK
<1>17. PipeOK'
  <2>1. ASSUME NEW j \in Members(Pipe') \ {Signal}
        PROVE  /\ j \in DOMAIN running_workers' /\ Taken(j)'
               /\ worker'[running_workers'[j]].at \in {"sent", "wait"}
    <3>1. /\ j \in DOMAIN running_workers \ {id} /\ Taken(j)
          /\ worker[running_workers[j]].at \in {"sent", "wait"}
      BY <1>1, <2>1 DEF PipeOK
    <3>2. /\ running_workers'[j] = running_workers[j] /\ j \in DOMAIN running_workers'
          /\ worker'[running_workers[j]] = worker[running_workers[j]]
      BY <1>7, <1>8, <1>11, <3>1
    <3> QED BY <3>1, <3>2 DEF Taken, Over
  <2> QED BY <1>1, <2>1 DEF PipeOK
<1>18. JobsOK'
  BY <1>1, <1>4, <1>5, <1>6, <1>7 DEF JobsOK, Over
<1>19. PhaseOK'
  BY DEF PhaseOK
<1>20. QueueOK' /\ CallsOK'
  BY <1>1, CompletionWakes
<1>21. SignalOK'
  BY <1>2, <1>11 DEF SignalOK, InCall
<1>22. QueuedOnlyWhenSaturated'
  <2>1. {v \in Workers : worker'[v].at # "none"} = {v \in Workers : worker[v].at # "none"}
    BY <1>11
  <2>2. /\ IsFiniteSet(DOMAIN running_workers) /\ Cardinality(DOMAIN running_workers) \in Nat
    BY BusyCount
  <2>3. /\ IsFiniteSet(DOMAIN running_workers \ {id})
        /\ Cardinality(DOMAIN running_workers \ {id}) = Cardinality(DOMAIN running_workers) - 1
    BY <1>1, <2>2, FS_RemoveElement
  <2>4. Cardinality((DOMAIN running_workers \ {id}) \cup {q})
          = Cardinality(DOMAIN running_workers \ {id}) + 1
    BY <1>5, <2>3, FS_AddElement
  <2>5. Cardinality(DOMAIN running_workers') = Cardinality(DOMAIN running_workers)
    BY <1>7, <2>2, <2>3, <2>4
  <2> QED BY <1>6, <2>1, <2>5 DEF QueuedOnlyWhenSaturated
<1> QED BY <1>12, <1>14, <1>15, <1>16, <1>17, <1>18, <1>19, <1>20, <1>21, <1>22

\* No job is queued: the worker becomes idle.
LEMMA EnterIdleStep ==
    ASSUME FewJobs, IndInv, phase = "handle", completed_jobs # <<>>,
           NEW id, id = Head(completed_jobs), ~ IsSignal(id),
           EnterIdle(running_workers[id], id),
           run_later' = wake(run_later, Waiter(id)), completed_jobs' = Tail(completed_jobs),
           UNCHANGED <<phase, left, curr, full, fatal, killed_by_signal, coro, job, notify>>
    PROVE  IndInv'
<1> USE DEF IndInv
<1>1. /\ completed_jobs' \in Seq(Ids \cup {Signal})
      /\ Members(Pipe) = Members(Pipe') \cup {id} /\ id \notin Members(Pipe')
      /\ Distinct(Pipe')
      /\ id \in Ids /\ id \in DOMAIN running_workers /\ id \in DOMAIN job /\ Over(id)
      /\ run_later' \in Seq(Tasks) /\ Distinct(run_later')
      /\ Members(run_later') = Members(run_later) \cup Waiter(id)
  BY CompletionFacts
<1>2. PICK w \in Workers : w = running_workers[id] /\ worker[w].at \in {"sent", "wait"}
                           /\ ~ worker[w].usr1
  BY CompletionFacts
<1>3. /\ worker' = [worker EXCEPT ![w].job = None] /\ job_queue = <<>>
      /\ running_workers' = Without(running_workers, id)
      /\ idle_workers' = Append(idle_workers, w)
      /\ UNCHANGED <<config, job_id, job_queue>>
  BY <1>2 DEF EnterIdle, StillRunning, worker_enter_idle
<1>4. /\ DOMAIN running_workers' = DOMAIN running_workers \ {id}
      /\ \A j \in DOMAIN running_workers \ {id} : running_workers'[j] = running_workers[j]
  BY <1>3 DEF Without
<1>5. \A j \in DOMAIN running_workers \ {id} : running_workers[j] \in Workers \ {w}
  BY <1>1, <1>2 DEF WorkersOK, TypeOK
<1>6. w \notin Members(idle_workers)
  BY <1>1, <1>2 DEF BusyOK
<1>7. /\ idle_workers' \in Seq(Workers) /\ Distinct(idle_workers')
      /\ Members(idle_workers') = Members(idle_workers) \cup {w}
  <2>1. idle_workers \in Seq(Workers) /\ Distinct(idle_workers)
    BY DEF TypeOK, IdleOK
  <2> QED BY <1>3, <1>6, <2>1, MembersAppend
<1>9. worker \in [Workers -> Worker] /\ worker[w] \in Worker
  BY WorkerType
<1>10. worker' \in [Workers -> Worker]
  BY <1>3, <1>9, WorkerFields
<1>11. /\ \A v \in Workers : v # w => worker'[v] = worker[v]
       /\ worker'[w].at = worker[w].at /\ worker'[w].job = None
       /\ worker'[w].usr1 = worker[w].usr1 /\ worker'[w].usr2 = worker[w].usr2
  BY <1>3, <1>9 DEF Worker
<1>12. TypeOK'
  <2>1. DOMAIN running_workers' \subseteq Ids
    BY <1>4 DEF TypeOK
  <2>2. \A j \in DOMAIN running_workers' : running_workers'[j] \in Workers
    BY <1>4, <1>5
  <2> QED BY <1>1, <1>3, <1>7, <1>10, <2>1, <2>2 DEF TypeOK
<1>14. BusyOK'
  <2> SUFFICES ASSUME NEW j \in DOMAIN running_workers'
               PROVE  /\ worker'[running_workers'[j]].job = j
                      /\ worker'[running_workers'[j]].job_id = j
                      /\ running_workers'[j] \notin Members(idle_workers')
                      /\ Taken(j)' \/ HandedOver(j)'
    BY DEF BusyOK
  <2>1. /\ j \in DOMAIN running_workers \ {id} /\ running_workers'[j] = running_workers[j]
        /\ worker'[running_workers[j]] = worker[running_workers[j]]
        /\ running_workers[j] # w
    BY <1>4, <1>5, <1>11
  <2> QED BY <1>7, <2>1 DEF BusyOK, Taken, HandedOver, Over
<1>15. IdleOK'
  BY <1>2, <1>6, <1>7, <1>11, MembersFacts DEF IdleOK
<1>16. WorkersOK'
  <2>1. \A i, j \in DOMAIN running_workers' : running_workers'[i] = running_workers'[j] => i = j
    BY <1>4 DEF WorkersOK
  <2>2. ASSUME NEW v \in Workers
        PROVE  \/ worker'[v].at = "none" /\ ~ worker'[v].usr1 /\ ~ worker'[v].usr2
               \/ worker'[v].at # "none" /\ v \in Members(idle_workers')
               \/ \E j \in DOMAIN running_workers' : running_workers'[j] = v
    <3>1. CASE v = w
      BY <1>2, <1>7, <1>11, <3>1
    <3>2. CASE v # w
      BY <1>2, <1>4, <1>7, <1>11, <3>2 DEF WorkersOK
    <3> QED BY <3>1, <3>2
  <2> QED BY <2>1, <2>2 DEF WorkersOK
<1>17. PipeOK'
  <2>1. ASSUME NEW j \in Members(Pipe') \ {Signal}
        PROVE  /\ j \in DOMAIN running_workers' /\ Taken(j)'
               /\ worker'[running_workers'[j]].at \in {"sent", "wait"}
    <3>1. /\ j \in DOMAIN running_workers \ {id} /\ Taken(j)
          /\ worker[running_workers[j]].at \in {"sent", "wait"}
      BY <1>1, <2>1 DEF PipeOK
    <3>2. /\ running_workers'[j] = running_workers[j] /\ j \in DOMAIN running_workers'
          /\ worker'[running_workers[j]] = worker[running_workers[j]]
      BY <1>4, <1>5, <1>11, <3>1
    <3> QED BY <3>1, <3>2 DEF Taken, Over
  <2> QED BY <1>1, <2>1 DEF PipeOK
<1>18. JobsOK'
  BY <1>1, <1>3, <1>4 DEF JobsOK, Over
<1>19. PhaseOK'
  BY DEF PhaseOK
<1>20. QueueOK' /\ CallsOK'
  BY <1>1, CompletionWakes
<1>21. SignalOK'
  BY <1>2, <1>3, <1>9, <1>11 DEF SignalOK, InCall
<1>22. QueuedOnlyWhenSaturated'
  <2>1. {v \in Workers : worker'[v].at # "none"} = {v \in Workers : worker[v].at # "none"}
    BY <1>11
  <2> QED BY <1>3, <2>1 DEF QueuedOnlyWhenSaturated
<1> QED BY <1>12, <1>14, <1>15, <1>16, <1>17, <1>18, <1>19, <1>20, <1>21, <1>22

LEMMA HandleStep ==
    ASSUME FewJobs, IndInv, handle_completed_job
    PROVE  IndInv'
<1>1. Head(completed_jobs) \in Ids \cup {Signal}
  BY HeadTailProperties DEF handle_completed_job, IndInv, TypeOK
<1>2. CASE IsSignal(Head(completed_jobs)) /\ HandleSignal /\ UNCHANGED <<pool, worker>>
  BY <1>1, <1>2, SignalStep, IdFacts DEF handle_completed_job
<1>3. CASE /\ ~ IsSignal(Head(completed_jobs))
           /\ \/ TakeQueued(running_workers[Head(completed_jobs)], Head(completed_jobs))
              \/ EnterIdle(running_workers[Head(completed_jobs)], Head(completed_jobs))
           /\ run_later' = wake(run_later, Waiter(Head(completed_jobs)))
           /\ UNCHANGED <<killed_by_signal, coro>>
  BY <1>3, TakeQueuedStep, EnterIdleStep DEF handle_completed_job
<1> QED BY <1>2, <1>3 DEF handle_completed_job

\* What a submission does apart from finding a worker.
LEMMA SubmitFacts ==
    ASSUME FewJobs, IndInv, NEW t \in Tasks, NEW kind \in AllKinds,
           perform_job_in_worker(t, kind), NEW n, n = job_id
    PROVE  /\ n \in Ids /\ job_id' = n + 1 /\ job_id' \in 0 .. MaxJobs
           /\ DOMAIN job' = DOMAIN job \cup {n} /\ n \notin DOMAIN job
           /\ job' \in [0 .. n -> Job] /\ job'[n].result = "new"
           /\ \A j \in DOMAIN job : job'[j] = job[j]
           /\ coro' \in [Tasks -> Coroutine] /\ \A u \in Tasks : u # t => coro'[u] = coro[u]
           /\ coro'[t].job = n /\ InCall(t)' /\ ~ InCall(t) /\ ~ coro'[t].cancelled
           /\ n \notin DOMAIN running_workers /\ n \notin Members(job_queue)
           /\ n \notin Members(Pipe) \ {Signal}
           /\ phase \in {"run", "drain"}
           /\ CallsOK' /\ QueueOK'
<1> USE DEF IndInv
<1>1. n \in Ids /\ job_id' = n + 1 /\ job_id' \in 0 .. MaxJobs
      /\ curr = t /\ phase \in {"run", "drain"} /\ coro[t].at = "start" /\ ~ coro[t].cancelled
      /\ curr' = None
      /\ UNCHANGED <<config, phase, left, run_later, completed_jobs, full, fatal,
                     killed_by_signal, notify>>
  BY IdFacts DEF perform_job_in_worker, TypeOK, Ids, Runs
<1>2. /\ DOMAIN job = 0 .. n - 1 /\ DOMAIN job' = DOMAIN job \cup {n} /\ n \notin DOMAIN job
      /\ job'[n] = [kind |-> kind, result |-> "new"]
      /\ \A j \in DOMAIN job : job'[j] = job[j]
  BY <1>1 DEF perform_job_in_worker, With, TypeOK, Ids
<1>3. job' \in [0 .. n -> Job] /\ job'[n].result = "new"
  <2>1. [kind |-> kind, result |-> "new"] \in Job
    BY DEF Job
  <2>2. 0 .. n = DOMAIN job \cup {n}
    BY <1>1, <1>2 DEF Ids
  <2>3. job' = [j \in DOMAIN job \cup {n} |-> IF j = n THEN [kind |-> kind, result |-> "new"] ELSE job[j]]
    BY DEF perform_job_in_worker, With
  <2>4. \A j \in DOMAIN job : job[j] \in Job
    BY DEF TypeOK
  <2> QED BY <1>2, <2>1, <2>2, <2>3, <2>4
<1>4. coro \in [Tasks -> Coroutine] /\ coro[t] \in Coroutine
  BY CoroType
<1> DEFINE at == IF kind = "shielded" THEN "shield" ELSE "wait"
<1>5. coro' = [coro EXCEPT ![t].job = n, ![t].result = "none", ![t].at = at]
  BY DEF perform_job_in_worker
<1>6. /\ coro' \in [Tasks -> Coroutine] /\ \A u \in Tasks : u # t => coro'[u] = coro[u]
      /\ coro'[t].job = n /\ coro'[t].at \in {"wait", "shield"}
      /\ coro'[t].cancelled = coro[t].cancelled
  <2>1. at \in {"wait", "shield"}
    OBVIOUS
  <2> HIDE DEF at
  <2>2. [[[coro[t] EXCEPT !.job = n] EXCEPT !.result = "none"] EXCEPT !.at = at] \in Coroutine
    BY <1>1, <1>4, <2>1, CoroFields
  <2>3. coro' \in [Tasks -> Coroutine]
    BY <1>4, <1>5, <2>2
  <2> QED BY <1>4, <1>5, <2>1, <2>3 DEF Coroutine
<1>7. InCall(t)' /\ ~ InCall(t)
  BY <1>1, <1>6 DEF InCall
<1>8. /\ n \notin DOMAIN running_workers /\ n \notin Members(job_queue)
      /\ n \notin Members(Pipe) \ {Signal}
  BY <1>2 DEF JobsOK, PipeOK
<1>9. CallsOK'
  <2>1. \A u \in Tasks : u # t /\ InCall(u) => coro[u].job \in DOMAIN job /\ coro[u].job # n
    BY <1>2 DEF CallsOK
  <2> QED BY <1>2, <1>6, <2>1 DEF CallsOK, InCall
<1>10. QueueOK'
  <2>1. t \notin Members(run_later) /\ None \notin Members(run_later) /\ None \notin Tasks
    BY <1>1, MembersFacts, IdFacts DEF QueueOK
  <2>2. ASSUME NEW u \in Tasks, u \in Members(run_later), AwaitsEnd(u)'
        PROVE  Over(coro[u].job)'
    <3>1. u # t /\ coro'[u] = coro[u] /\ AwaitsEnd(u)
      BY <1>6, <2>1, <2>2 DEF AwaitsEnd
    <3>2. Over(coro[u].job) /\ coro[u].job \in DOMAIN job
      BY <2>2, <3>1 DEF QueueOK, CallsOK, InCall, AwaitsEnd
    <3>3. job'[coro'[u].job] = job[coro[u].job]
      BY <1>2, <3>1, <3>2
    <3> QED BY <3>2, <3>3 DEF Over
  <2> QED BY <1>1, <2>1, <2>2 DEF QueueOK
<1> QED BY <1>1, <1>2, <1>3, <1>6, <1>7, <1>8, <1>9, <1>10

\* A signal that is under way is not for the new job.
LEMMA SubmitSignals ==
    ASSUME FewJobs, IndInv, NEW t \in Tasks, NEW kind \in AllKinds,
           perform_job_in_worker(t, kind),
           \A w \in Workers : worker'[w].usr2 /\ worker'[w].at \in {"begin", "call"}
             => worker'[w].id = worker[w].id /\ worker[w].usr2 /\ worker[w].at \in {"begin", "call"}
    PROVE  SignalOK'
<1>0. PICK n : n = job_id
  OBVIOUS
<1>1. /\ \A j \in DOMAIN job : job'[j] = job[j] 
      /\ job'[n].result = "new"
      /\ \A u \in Tasks : u # t => coro'[u] = coro[u]
      /\ coro'[t].job = n /\ ~ InCall(t)
  BY <1>0, SubmitFacts
<1>2. ASSUME NEW w \in Workers, worker'[w].usr2, worker'[w].at \in {"begin", "call"}
      PROVE  /\ job'[worker'[w].id].kind \in {"cancellable", "sigwait"}
             /\ \E u \in Tasks : InCall(u)' /\ coro'[u].cancelled /\ coro'[u].job = worker'[w].id
  <2>1. worker'[w].id = worker[w].id /\ worker[w].usr2 /\ worker[w].at \in {"begin", "call"}
    BY <1>2
  <2>2. worker[w].id \in DOMAIN job
    BY <2>1, Working
  <2>3. /\ job[worker[w].id].kind \in {"cancellable", "sigwait"}
        /\ \E u \in Tasks : InCall(u) /\ coro[u].cancelled /\ coro[u].job = worker[w].id
    BY <2>1 DEF IndInv, SignalOK
  <2> QED BY <1>1, <2>1, <2>2, <2>3 DEF InCall
<1>3. ASSUME NEW u \in Tasks, InCall(u)', job'[coro'[u].job].result = "EINTR"
      PROVE  coro'[u].cancelled
  <2>1. u # t
    BY <1>1, <1>3
  <2>2. coro'[u] = coro[u] /\ InCall(u) /\ coro[u].job \in DOMAIN job
    BY <1>1, <1>3, <2>1 DEF InCall, IndInv, CallsOK
  <2>3. job[coro[u].job].result = "EINTR"
    BY <1>1, <1>3, <2>2
  <2> QED BY <2>2, <2>3 DEF IndInv, SignalOK
<1> QED BY <1>2, <1>3 DEF SignalOK

\* Without a worker the job is queued, and the pool is saturated.
LEMMA SubmitQueuesStep ==
    ASSUME FewJobs, IndInv, NEW t \in Tasks, NEW kind \in AllKinds,
           perform_job_in_worker(t, kind), idle_workers = <<>>,
           Cardinality(DOMAIN running_workers) >= config.max_worker_count,
           job_queue' = Append(job_queue, job_id),
           UNCHANGED <<worker, running_workers, idle_workers>>
    PROVE  IndInv'
<1> USE DEF IndInv
<1>0. PICK n : n = job_id
  OBVIOUS
<1>1. /\ n \in Ids /\ job_id' = n + 1 /\ job_id' \in 0 .. MaxJobs
      /\ DOMAIN job' = DOMAIN job \cup {n} /\ n \notin DOMAIN job
      /\ job' \in [0 .. n -> Job] /\ job'[n].result = "new"
      /\ \A j \in DOMAIN job : job'[j] = job[j]
      /\ coro' \in [Tasks -> Coroutine]
      /\ n \notin DOMAIN running_workers /\ n \notin Members(job_queue)
      /\ phase \in {"run", "drain"}
      /\ CallsOK' /\ QueueOK'
  BY <1>0, SubmitFacts
<1>2. /\ UNCHANGED <<config, phase, left, run_later, completed_jobs, full, fatal,
                     killed_by_signal, notify>>
      /\ curr' = None
  BY DEF perform_job_in_worker
<1>3. /\ job_queue' \in Seq(Ids) /\ Members(job_queue') = Members(job_queue) \cup {n}
      /\ Distinct(job_queue')
  <2>1. job_queue \in Seq(Ids) /\ Distinct(job_queue)
    BY DEF TypeOK, JobsOK
  <2> QED BY <1>0, <1>1, <2>1, MembersAppend
<1>4. TypeOK'
  <2>1. job_id' - 1 = n
    BY <1>1 DEF Ids
  <2>2. curr' \in Tasks \cup Workers \cup {None}
    BY <1>2
  <2> QED BY <1>1, <1>2, <1>3, <2>1, <2>2 DEF TypeOK
<1>5. \A id \in DOMAIN running_workers : job'[id] = job[id]
  BY <1>1 DEF JobsOK
<1>6. BusyOK' /\ PipeOK'
  <2>1. BusyOK'
    BY <1>5 DEF BusyOK, Taken, HandedOver, Over
  <2> QED BY <1>2, <1>5, <2>1 DEF PipeOK, Pipe, Taken, Over
<1>7. IdleOK'
  BY <1>1, <1>2 DEF IdleOK
<1>8. WorkersOK'
  BY DEF WorkersOK
<1>9. JobsOK'
  BY <1>1, <1>3 DEF JobsOK, Over
<1>10. PhaseOK'
  BY <1>1, <1>2 DEF PhaseOK
<1>11. SignalOK'
  BY SubmitSignals
<1>12. QueuedOnlyWhenSaturated'
  <2>1. /\ Cardinality(DOMAIN running_workers) \in Nat /\ config.max_worker_count \in Nat \ {0}
        /\ Cardinality(DOMAIN running_workers) <= config.max_worker_count
    BY BusyCount
  <2>2. Cardinality(DOMAIN running_workers) = config.max_worker_count
    BY <2>1
  <2> QED BY <1>2, <2>2 DEF QueuedOnlyWhenSaturated
<1> QED BY <1>1, <1>4, <1>6, <1>7, <1>8, <1>9, <1>10, <1>11, <1>12

\* A worker gets the job, an idle one or a new thread.
LEMMA SubmitHandsOverStep ==
    ASSUME FewJobs, IndInv, NEW t \in Tasks, NEW kind \in AllKinds,
           perform_job_in_worker(t, kind), NEW w \in Workers,
           running_workers' = With(running_workers, job_id, w), UNCHANGED job_queue,
           \/ /\ idle_workers # <<>> /\ w = Head(idle_workers)
              /\ worker' = wake_worker(worker, w, job_id, job_id)
              /\ idle_workers' = Tail(idle_workers)
           \/ /\ idle_workers = <<>> /\ worker[w].at = "none"
              /\ Cardinality(DOMAIN running_workers) < config.max_worker_count
              /\ worker' = spawn_worker(worker, w, job_id) /\ UNCHANGED idle_workers
    PROVE  IndInv'
<1> USE DEF IndInv
<1>0. PICK n : n = job_id
  OBVIOUS
<1>1. /\ n \in Ids /\ job_id' = n + 1 /\ job_id' \in 0 .. MaxJobs
      /\ DOMAIN job' = DOMAIN job \cup {n} /\ n \notin DOMAIN job
      /\ job' \in [0 .. n -> Job] /\ job'[n].result = "new"
      /\ \A j \in DOMAIN job : job'[j] = job[j]
      /\ coro' \in [Tasks -> Coroutine]
      /\ n \notin DOMAIN running_workers /\ n \notin Members(job_queue)
      /\ n \notin Members(Pipe) \ {Signal}
      /\ phase \in {"run", "drain"}
      /\ CallsOK' /\ QueueOK'
  BY <1>0, SubmitFacts
<1>2. /\ UNCHANGED <<config, phase, left, run_later, completed_jobs, full, fatal,
                     killed_by_signal, notify>>
      /\ curr' = None
  BY DEF perform_job_in_worker
<1>3. /\ DOMAIN running_workers' = DOMAIN running_workers \cup {n}
      /\ running_workers'[n] = w
      /\ \A j \in DOMAIN running_workers : running_workers'[j] = running_workers[j]
  BY <1>0, <1>1 DEF With
<1>4. worker \in [Workers -> Worker] /\ worker[w] \in Worker
  BY WorkerType
<1>5. idle_workers' \in Seq(Workers) /\ Distinct(idle_workers')
      /\ Members(idle_workers) \cup {w} = Members(idle_workers') \cup {w}
      /\ w \notin Members(idle_workers')
  <2>1. idle_workers \in Seq(Workers) /\ Distinct(idle_workers)
    BY DEF TypeOK, IdleOK
  <2>2. CASE idle_workers # <<>> /\ w = Head(idle_workers) /\ idle_workers' = Tail(idle_workers)
    <3>1. /\ Tail(idle_workers) \in Seq(Workers)
          /\ Members(idle_workers) = Members(Tail(idle_workers)) \cup {Head(idle_workers)}
          /\ Distinct(Tail(idle_workers)) /\ Head(idle_workers) \notin Members(Tail(idle_workers))
      BY <2>1, <2>2, MembersTail
    <3> QED BY <2>2, <3>1
  <2>3. CASE idle_workers = <<>> /\ UNCHANGED idle_workers
    <3>1. Members(idle_workers) = {}
      BY <2>1, <2>3, MembersType
    <3> QED BY <2>1, <2>3, <3>1
  <2> QED BY <2>2, <2>3
<1>6. \A j \in DOMAIN running_workers : running_workers[j] \in Workers \ {w}
  <2>1. CASE w \in Members(idle_workers)
    BY <2>1 DEF BusyOK, TypeOK
  <2>2. CASE worker[w].at = "none"
    BY <2>2 DEF BusyOK, Taken, HandedOver, TypeOK
  <2>3. idle_workers # <<>> /\ w = Head(idle_workers) => w \in Members(idle_workers)
    BY MembersTail DEF TypeOK
  <2> QED BY <2>1, <2>2, <2>3
<1>7. worker' \in [Workers -> Worker]
  <2>1. CASE worker' = wake_worker(worker, w, job_id, job_id)
    <3>1. [[[[worker[w] EXCEPT !.job_id = n] EXCEPT !.job = n] EXCEPT !.waiting = FALSE]
             EXCEPT !.usr1 = TRUE] \in Worker
      BY <1>1, <1>4, WorkerFields
    <3> QED BY <1>0, <1>4, <2>1, <3>1 DEF wake_worker
  <2>2. CASE worker' = spawn_worker(worker, w, job_id)
    <3>1. [[[[[worker[w] EXCEPT !.at = "begin"] EXCEPT !.job_id = n] EXCEPT !.job = n]
             EXCEPT !.id = n] EXCEPT !.waiting = FALSE] \in Worker
      BY <1>1, <1>4, WorkerFields
    <3> QED BY <1>0, <1>4, <2>2, <3>1 DEF spawn_worker
  <2> QED BY <2>1, <2>2
<1>8. /\ \A v \in Workers : v # w => worker'[v] = worker[v]
      /\ worker'[w].job = n /\ worker'[w].job_id = n
      /\ \/ /\ worker'[w].at = worker[w].at /\ worker'[w].usr1 = TRUE
            /\ worker[w].at \in {"sent", "wait", "freed"} /\ worker'[w].id = worker[w].id
         \/ /\ worker[w].at = "none" /\ worker'[w].at = "begin" /\ worker'[w].id = n
            /\ worker'[w].usr1 = FALSE /\ worker'[w].usr2 = FALSE
  <2>1. CASE /\ idle_workers # <<>> /\ w = Head(idle_workers)
             /\ worker' = wake_worker(worker, w, job_id, job_id)
    <3>1. w \in Members(idle_workers)
      BY <2>1, MembersTail DEF TypeOK
    <3>2. worker[w].at \in {"sent", "wait", "freed"}
      BY <1>1, <3>1 DEF IdleOK
    <3> QED BY <1>0, <1>4, <2>1, <3>2 DEF wake_worker, Worker
  <2>2. CASE worker[w].at = "none" /\ worker' = spawn_worker(worker, w, job_id)
    <3>1. worker[w].usr1 = FALSE /\ worker[w].usr2 = FALSE
      <4>1. ~ worker[w].usr1 /\ ~ worker[w].usr2
        BY <1>6, <2>2 DEF WorkersOK
      <4> QED BY <1>4, <4>1 DEF Worker
    <3> QED BY <1>0, <1>4, <2>2, <3>1 DEF spawn_worker, Worker
  <2> QED BY <2>1, <2>2
<1>9. TypeOK'
  <2>1. job_id' - 1 = n
    BY <1>1 DEF Ids
  <2>2. curr' \in Tasks \cup Workers \cup {None}
    BY <1>2
  <2>3. DOMAIN running_workers' \subseteq Ids
    BY <1>1, <1>3 DEF TypeOK
  <2>4. \A j \in DOMAIN running_workers' : running_workers'[j] \in Workers
    BY <1>3, <1>6
  <2> QED BY <1>1, <1>2, <1>5, <1>7, <2>1, <2>2, <2>3, <2>4 DEF TypeOK
<1>10. \A j \in DOMAIN running_workers :
         /\ worker'[running_workers'[j]] = worker[running_workers[j]] /\ job'[j] = job[j]
         /\ running_workers'[j] = running_workers[j]
  BY <1>1, <1>3, <1>6, <1>8 DEF JobsOK
<1>11. BusyOK'
  <2>1. ASSUME NEW j \in DOMAIN running_workers
        PROVE  /\ worker'[running_workers'[j]].job = j /\ worker'[running_workers'[j]].job_id = j
               /\ running_workers'[j] \notin Members(idle_workers')
               /\ Taken(j)' \/ HandedOver(j)'
    BY <1>5, <1>6, <1>10 DEF BusyOK, Taken, HandedOver, Over
  <2>2. Taken(n)' \/ HandedOver(n)'
    BY <1>1, <1>3, <1>8 DEF Taken, HandedOver
  <2> QED BY <1>3, <1>5, <1>8, <2>1, <2>2 DEF BusyOK
<1>12. IdleOK'
  <2>1. ASSUME NEW v \in Members(idle_workers')
        PROVE  \/ worker'[v].at \in {"sent", "wait"} /\ worker'[v].job = None /\ ~ worker'[v].usr1
               \/ worker'[v].at = "freed"
    <3>1. v \in Members(idle_workers) /\ v # w /\ v \in Workers
      BY <1>5, MembersFacts
    <3>2. worker'[v] = worker[v]
      BY <1>8, <3>1
    <3> QED BY <1>1, <3>1, <3>2 DEF IdleOK
  <2> QED BY <1>5, <2>1 DEF IdleOK
<1>13. WorkersOK'
  <2>1. \A i, j \in DOMAIN running_workers' : running_workers'[i] = running_workers'[j] => i = j
    BY <1>3, <1>6 DEF WorkersOK
  <2>2. ASSUME NEW v \in Workers
        PROVE  \/ worker'[v].at = "none" /\ ~ worker'[v].usr1 /\ ~ worker'[v].usr2
               \/ worker'[v].at # "none" /\ v \in Members(idle_workers')
               \/ \E j \in DOMAIN running_workers' : running_workers'[j] = v
    <3>1. CASE v = w
      BY <1>3, <3>1
    <3>2. CASE v # w
      <4>1. worker'[v] = worker[v] /\ (v \in Members(idle_workers) => v \in Members(idle_workers'))
        BY <1>5, <1>8, <3>2
      <4> QED BY <1>3, <4>1 DEF WorkersOK
    <3> QED BY <3>1, <3>2
  <2> QED BY <2>1, <2>2 DEF WorkersOK
<1>14. PipeOK'
  <2>1. Pipe' = Pipe
    BY <1>2 DEF Pipe
  <2>2. ASSUME NEW j \in Members(Pipe) \ {Signal}
        PROVE  /\ j \in DOMAIN running_workers' /\ Taken(j)'
               /\ worker'[running_workers'[j]].at \in {"sent", "wait"}
    <3>1. /\ j \in DOMAIN running_workers /\ Taken(j)
          /\ worker[running_workers[j]].at \in {"sent", "wait"}
      BY <2>2 DEF PipeOK
    <3> QED BY <1>3, <1>10, <3>1 DEF Taken, Over
  <2> QED BY <2>1, <2>2 DEF PipeOK
<1>15. JobsOK'
  BY <1>1, <1>3 DEF JobsOK, Over
<1>16. PhaseOK'
  BY <1>1, <1>2 DEF PhaseOK
<1>17. SignalOK'
  <2>1. \A v \in Workers : worker'[v].usr2 /\ worker'[v].at \in {"begin", "call"}
             => worker'[v].id = worker[v].id /\ worker[v].usr2 /\ worker[v].at \in {"begin", "call"}
    BY <1>8
  <2> QED BY <2>1, SubmitSignals
<1>18. QueuedOnlyWhenSaturated'
  <2>0. Spawned' = {v \in Workers : worker'[v].at # "none"}
    BY DEF Spawned
  <2>1. CASE idle_workers # <<>>
    <3>1. worker[w].at # "none"
      <4>1. w \in Members(idle_workers)
        BY <2>1, MembersTail DEF TypeOK
      <4> QED BY <4>1 DEF IdleOK
    <3>2. {v \in Workers : worker'[v].at # "none"} = {v \in Workers : worker[v].at # "none"}
      BY <1>8, <3>1
    <3> QED BY <1>2, <2>1, <3>2 DEF QueuedOnlyWhenSaturated
  <2>2. CASE idle_workers = <<>>
    <3>1. Spawned' = Spawned \cup {w}
      BY <1>8, <2>2 DEF Spawned
    <3>2. /\ IsFiniteSet(Spawned) /\ Cardinality(DOMAIN running_workers) \in Nat
          /\ config.max_worker_count \in Nat \ {0}
          /\ Cardinality(Spawned) = Cardinality(DOMAIN running_workers)
          /\ Cardinality(DOMAIN running_workers) < config.max_worker_count
      BY <2>2, BusyCount
    <3>3. Cardinality(Spawned \cup {w}) <= Cardinality(Spawned) + 1
      <4>1. Cardinality(Spawned \cup {w}) =
              IF w \in Spawned THEN Cardinality(Spawned) ELSE Cardinality(Spawned) + 1
        BY <3>2, FS_AddElement
      <4> QED BY <3>2, <4>1
    <3>4. Cardinality(Spawned') <= config.max_worker_count
      <4>1. Cardinality(Spawned \cup {w}) \in Nat
        BY <3>2, FS_AddElement, FS_CardinalityType
      <4> QED BY <3>1, <3>2, <3>3, <4>1
    <3>5. job_queue = <<>>
      BY <3>2 DEF QueuedOnlyWhenSaturated
    <3> QED BY <1>2, <2>0, <3>4, <3>5 DEF QueuedOnlyWhenSaturated
  <2> QED BY <2>1, <2>2
<1> QED BY <1>1, <1>9, <1>11, <1>12, <1>13, <1>14, <1>15, <1>16, <1>17, <1>18

LEMMA SubmitStep ==
    ASSUME FewJobs, IndInv, NEW t \in Tasks, NEW kind \in AllKinds,
           perform_job_in_worker(t, kind)
    PROVE  IndInv'
<1>1. CASE /\ idle_workers # <<>>
           /\ worker' = wake_worker(worker, Head(idle_workers), job_id, job_id)
           /\ running_workers' = With(running_workers, job_id, Head(idle_workers))
           /\ idle_workers' = Tail(idle_workers)
           /\ UNCHANGED job_queue
  <2>1. Head(idle_workers) \in Workers
    BY <1>1, HeadTailProperties DEF IndInv, TypeOK
  <2> QED BY <1>1, <2>1, SubmitHandsOverStep
<1>2. CASE /\ idle_workers = <<>>
           /\ Cardinality(DOMAIN running_workers) >= config.max_worker_count
           /\ job_queue' = Append(job_queue, job_id)
           /\ UNCHANGED <<worker, running_workers, idle_workers>>
  BY <1>2, SubmitQueuesStep
<1>3. CASE /\ idle_workers = <<>>
           /\ Cardinality(DOMAIN running_workers) < config.max_worker_count
           /\ LET w == CHOOSE v \in Workers : worker[v].at = "none" IN
                /\ worker' = spawn_worker(worker, w, job_id)
                /\ running_workers' = With(running_workers, job_id, w)
           /\ UNCHANGED <<job_queue, idle_workers>>
  <2> DEFINE w == CHOOSE v \in Workers : worker[v].at = "none"
  <2>1. \E v \in Workers : worker[v].at = "none"
    BY <1>3, BusyCount
  <2>2. w \in Workers /\ worker[w].at = "none"
    BY <2>1
  <2>3. /\ worker' = spawn_worker(worker, w, job_id)
        /\ running_workers' = With(running_workers, job_id, w)
    BY <1>3
  <2> HIDE DEF w
  <2> QED BY <1>3, <2>2, <2>3, SubmitHandsOverStep
<1> QED BY <1>1, <1>2, <1>3 DEF perform_job_in_worker

-----------------------------------------------------------------------------
(* The invariant and the theorems. *)

\* At first every coroutine is scheduled, once.
LEMMA FirstBatch ==
    LET s == CHOOSE s \in [1 .. Cardinality(Tasks) -> Tasks] : Members(s) = Tasks IN
      s \in Seq(Tasks) /\ Distinct(s)
<1> DEFINE n == Cardinality(Tasks)
<1> DEFINE s == CHOOSE s \in [1 .. n -> Tasks] : Members(s) = Tasks
<1>1. n \in Nat /\ ExistsBijection(1 .. n, Tasks)
  BY PoolAssumption, FS_CardinalityType
<1> HIDE DEF n
<1>2. \A f \in [1 .. n -> Tasks] : f \in Seq(Tasks) /\ Len(f) = n /\ DOMAIN f = 1 .. n
  BY <1>1
<1>3. PICK f \in [1 .. n -> Tasks] : \A t \in Tasks : \E k \in 1 .. n : f[k] = t
  BY <1>1 DEF ExistsBijection, Bijection, Surjection
<1>4. Members(f) = Tasks
  <2>1. Len(f) = n
    BY <1>2
  <2> QED BY <1>3, <2>1 DEF Members
<1>5. s \in [1 .. n -> Tasks] /\ Members(s) = Tasks
  BY <1>3, <1>4
<1> HIDE DEF s
<1>6. s \in Seq(Tasks) /\ Len(s) = n /\ DOMAIN s = 1 .. n
  BY <1>2, <1>5
<1>7. s \in Surjection(1 .. n, Tasks)
  BY <1>5, <1>6 DEF Surjection, Members
<1>8. IsFiniteSet(1 .. n) /\ Cardinality(1 .. n) = Cardinality(Tasks)
  <2>1. IsFiniteSet(1 .. n) /\ Cardinality(1 .. n) = n
    BY <1>1, FS_Interval
  <2> QED BY <2>1 DEF n
<1>9. s \in Injection(1 .. n, Tasks)
  BY <1>7, <1>8, FS_SurjSameCardinalityImpliesInj
<1>10. Distinct(s)
  BY <1>6, <1>9 DEF Injection, IsInjective, Distinct
<1> QED BY <1>6, <1>10 DEF s, n

LEMMA PoolInit == FewJobs /\ Init => IndInv
<1> SUFFICES ASSUME FewJobs, Init PROVE IndInv
  OBVIOUS
<1>1. run_later \in Seq(Tasks) /\ Distinct(run_later) /\ left \in Nat
  BY FirstBatch, LenProperties DEF Init
<1>2. /\ phase = "run" /\ curr = None /\ completed_jobs = <<>> /\ notify = <<>>
      /\ job_id = 0 /\ job_queue = <<>> /\ idle_workers = <<>>
      /\ DOMAIN running_workers = {} /\ DOMAIN job = {}
      /\ config \in Configs
  BY DEF Init
<1>3. /\ \A t \in Tasks : coro[t].at = "start" /\ coro[t].job = None /\ ~ coro[t].cancelled
      /\ \A w \in Workers : worker[w].at = "none" /\ ~ worker[w].usr1 /\ ~ worker[w].usr2
  BY DEF Init
<1>4. Members(idle_workers) = {} /\ Members(job_queue) = {} /\ Members(Pipe) = {}
      /\ Distinct(idle_workers) /\ Distinct(job_queue) /\ Distinct(Pipe)
  <2>1. Pipe = <<>>
    BY <1>2 DEF Pipe
  <2>2. Members(<<>>) = {} /\ Distinct(<<>>)
    BY DEF Members, Distinct
  <2> QED BY <1>2, <2>1, <2>2
<1>5. TypeOK
  <2>1. coro \in [Tasks -> Coroutine]
    BY DEF Init, Coroutine
  <2>4. worker \in [Workers -> Worker]
    BY DEF Init, Worker
  <2>2. job \in [0 .. job_id - 1 -> Job]
    <3>1. 0 .. 0 - 1 = {}
      OBVIOUS
    <3> QED BY <3>1, <1>2 DEF Init
  <2>3. job_id \in 0 .. MaxJobs
    BY <1>2, IdFacts
  <2>6. {full, fatal, killed_by_signal} \subseteq BOOLEAN
    BY Zenon DEF Init
  <2>5. completed_jobs \in Seq(Ids \cup {Signal}) /\ notify \in Seq(Ids \cup {Signal})
        /\ job_queue \in Seq(Ids) /\ idle_workers \in Seq(Workers)
    BY <1>2
  <2> QED BY <1>1, <1>2, <2>1, <2>2, <2>3, <2>4, <2>5, <2>6 DEF TypeOK
<1>6. BusyOK /\ IdleOK /\ WorkersOK /\ PipeOK /\ JobsOK /\ PhaseOK
  BY <1>2, <1>3, <1>4 DEF BusyOK, IdleOK, WorkersOK, PipeOK, JobsOK, PhaseOK
<1>7. CallsOK /\ QueueOK /\ SignalOK
  <2>1. None \notin Members(run_later)
    BY <1>1, MembersType, IdFacts
  <2>2. CallsOK /\ SignalOK
    BY <1>2, <1>3 DEF CallsOK, SignalOK, InCall
  <2>3. \A t \in Tasks : ~ AwaitsEnd(t)
    BY <1>3 DEF AwaitsEnd
  <2>4. QueueOK
    BY <1>1, <1>2, <2>1, <2>3 DEF QueueOK
  <2> QED BY <2>2, <2>4
<1>8. QueuedOnlyWhenSaturated
  <2>1. {w \in Workers : worker[w].at # "none"} = {}
    BY <1>3
  <2>2. config.max_worker_count \in Nat
    BY <1>2, PoolAssumption DEF Config
  <2>3. Cardinality({}) = 0
    BY FS_EmptySet
  <2>4. Cardinality({w \in Workers : worker[w].at # "none"}) <= config.max_worker_count
    BY <2>1, <2>2, <2>3
  <2> QED BY <1>2, <2>4 DEF QueuedOnlyWhenSaturated
<1> QED BY <1>5, <1>6, <1>7, <1>8 DEF IndInv

LEMMA StutterStep == ASSUME IndInv, UNCHANGED vars PROVE IndInv'
<1> USE DEF IndInv, vars, loop, pool, Over
<1>1. TypeOK'
  BY DEF TypeOK
<1>2. BusyOK' /\ IdleOK' /\ WorkersOK' /\ PipeOK' /\ JobsOK' /\ QueuedOnlyWhenSaturated'
  BY DEF BusyOK, IdleOK, WorkersOK, PipeOK, Pipe, JobsOK, QueuedOnlyWhenSaturated, Taken,
         HandedOver
<1>3. PhaseOK' /\ CallsOK' /\ QueueOK' /\ SignalOK'
  BY DEF PhaseOK, CallsOK, QueueOK, SignalOK, InCall, AwaitsEnd
<1> QED BY <1>1, <1>2, <1>3

LEMMA PoolNext == ASSUME FewJobs, IndInv, [Next]_vars PROVE IndInv'
<1>1. CASE UNCHANGED vars
  BY <1>1, StutterStep
<1>2. CASE LoopStep
  <2>1. ASSUME NEW t \in Tasks, NEW kind \in Submits(t), perform_job_in_worker(t, kind)
        PROVE  IndInv'
    <3>1. kind \in AllKinds
      BY PoolAssumption DEF IndInv, TypeOK, Config, Submits, AllKinds
    <3> QED BY <2>1, <3>1, SubmitStep
  <2> QED BY <1>2, <2>1, PhaseStep, FetchStep, HandleStep, FreeStep, RescheduleStep,
             CancelBySignalStep, CancelSynchronousIoStep, CancelStep, EndStep,
             JobReturnsStep, CancelNoWaitStep, CancelTestsStep, CancelFailedStep DEF LoopStep
<1>3. ASSUME NEW w \in Workers, WorkerStep(w) \/ HandleUsr2(w) \/ SignalArrives(w)
      PROVE  IndInv'
  BY <1>3, StartJobStep, ThreadStep, NotifyStep, WakeupStep, SignalArrivesStep DEF WorkerStep
<1>4. ASSUME NEW w \in Workers, NEW result \in {"value", "error"}, CallReturns(w, result)
      PROVE  IndInv'
  BY <1>4, CallReturnsStep
<1>5. ASSUME NEW t \in Tasks, Cancel(t) PROVE IndInv'
  BY <1>5, CancelStep
<1>6. CASE Finished \/ DrainSpins
  BY <1>6, StutterStep DEF Finished, DrainSpins
<1> QED BY <1>1, <1>2, <1>3, <1>4, <1>5, <1>6 DEF Next

\* The inductive invariant holds in every reachable state.
THEOREM PoolInvariant == FewJobs /\ Spec => []IndInv
<1> SUFFICES ASSUME FewJobs PROVE Spec => []IndInv
  OBVIOUS
<1>1. Init => IndInv
  BY PoolInit
<1>2. IndInv /\ [Next]_vars => IndInv'
  BY PoolNext
<1> QED BY <1>1, <1>2, PTL DEF Spec

\* Every reachable state of the loop, its coroutines and its workers is well typed.
THEOREM PoolTypeCorrect == FewJobs /\ Spec => []TypeOK
<1>1. IndInv => TypeOK
  BY DEF IndInv
<1> QED BY <1>1, PoolInvariant, PTL

\* handle_completed_job is called once for every job, for a worker that is done.
THEOREM CompletionsAreUnique == FewJobs /\ Spec => []OneCompletionPerJob
<1> SUFFICES ASSUME FewJobs PROVE Spec => []OneCompletionPerJob
  OBVIOUS
<1>1. ASSUME IndInv PROVE OneCompletionPerJob
  <2>1. \A k \in 1 .. Len(Pipe), l \in 1 .. Len(Pipe) : Pipe[k] = Pipe[l] => k = l
    BY <1>1 DEF IndInv, PipeOK, Distinct
  <2>2. ASSUME NEW k \in 1 .. Len(Pipe), ~ IsSignal(Pipe[k])
        PROVE  /\ Pipe[k] \in DOMAIN running_workers
               /\ worker[running_workers[Pipe[k]]].id = Pipe[k]
               /\ worker[running_workers[Pipe[k]]].at \in {"sent", "wait"}
    <3>1. Pipe[k] \in Members(Pipe) /\ Pipe[k] # Signal
      BY <1>1, <2>2, IdFacts DEF Members
    <3> QED BY <1>1, <3>1 DEF IndInv, PipeOK, Taken
  <2> QED BY <2>1, <2>2 DEF OneCompletionPerJob, Pipe
<1>2. Spec => []IndInv
  BY PoolInvariant
<1> QED BY <1>1, <1>2, PTL

\* No job waits in the queue while a worker is idle or could be spawned, and the pool
\* never has more than max_worker_count threads.
THEOREM QueueMeansSaturation == FewJobs /\ Spec => []QueuedOnlyWhenSaturated
<1>1. IndInv => QueuedOnlyWhenSaturated
  BY DEF IndInv
<1> QED BY <1>1, PoolInvariant, PTL

\* wake_worker and worker_enter_idle never take the job from a thread that executes it.
THEOREM JobsStayAlive == FewJobs /\ Spec => []JobAliveWhileRunning
<1>1. ASSUME IndInv PROVE JobAliveWhileRunning
  BY <1>1, Working DEF JobAliveWhileRunning
<1> QED BY <1>1, PoolInvariant, PTL

\* Without a fatal error run_forever returns only when every job was executed and
\* every thread was joined.
THEOREM ShutdownIsClean == FewJobs /\ Spec => []CleanShutdown
<1> SUFFICES ASSUME FewJobs PROVE Spec => []CleanShutdown
  OBVIOUS
<1>1. ASSUME IndInv PROVE CleanShutdown
  <2> SUFFICES ASSUME phase = "closed", ~ fatal
               PROVE  /\ \A w \in Workers : worker[w].at \in {"none", "freed"}
                      /\ \A id \in DOMAIN job : job[id].result \notin {"new", "running"}
    BY DEF CleanShutdown
  <2>1. DOMAIN running_workers = {} /\ \A w \in Members(idle_workers) : worker[w].at = "freed"
    BY <1>1 DEF IndInv, PhaseOK
  <2>2. job_queue = <<>>
    <3>1. Cardinality({}) = 0 /\ config.max_worker_count # 0
      BY <1>1, BusyCount, FS_EmptySet
    <3> QED BY <1>1, <2>1, <3>1 DEF IndInv, QueuedOnlyWhenSaturated
  <2>3. Members(job_queue) = {}
    BY <1>1, <2>2, MembersType DEF IndInv, TypeOK
  <2>4. \A w \in Workers : worker[w].at \in {"none", "freed"}
    BY <1>1, <2>1 DEF IndInv, WorkersOK
  <2>5. \A id \in DOMAIN job : Over(id)
    BY <1>1, <2>1, <2>3 DEF IndInv, JobsOK
  <2> QED BY <2>4, <2>5 DEF Over
<1>2. Spec => []IndInv
  BY PoolInvariant
<1> QED BY <1>1, <1>2, PTL

-----------------------------------------------------------------------------
(* The pool implements JobService. *)

\* The variables of JobService, as Service defines them.
Call   == [t \in Tasks |-> IF coro[t].at = "end" THEN None ELSE coro[t].job]
Asked  == {t \in Tasks : coro[t].cancelled}
State  == [id \in DOMAIN job |-> job[id].result]
Answer == [t \in Tasks |-> coro[t].result]

\* A step that changes no call, no cancellation and no result of a coroutine.
SameCalls ==
    \A t \in Tasks : /\ coro'[t].job = coro[t].job
                     /\ coro'[t].at = "end" <=> coro[t].at = "end"
                     /\ coro'[t].cancelled = coro[t].cancelled
                     /\ coro'[t].result = coro[t].result

LEMMA SameCallsMap == SameCalls => Call' = Call /\ Asked' = Asked /\ Answer' = Answer
<1> SUFFICES ASSUME SameCalls PROVE Call' = Call /\ Asked' = Asked /\ Answer' = Answer
  OBVIOUS
<1>1. Call' = Call
  BY DEF SameCalls, Call
<1>2. Asked' = Asked
  BY DEF SameCalls, Asked
<1>3. Answer' = Answer
  BY DEF SameCalls, Answer
<1> QED BY <1>1, <1>2, <1>3

LEMMA Stutters == SameCalls /\ job' = job => UNCHANGED Service!vars
<1> SUFFICES ASSUME SameCalls, job' = job PROVE UNCHANGED Service!vars
  OBVIOUS
<1>1. State' = State
  BY DEF State
<1> QED BY <1>1, SameCallsMap DEF Call, Asked, State, Answer, Service!vars

\* The result of one job changes.
LEMMA StateAfter ==
    ASSUME TypeOK, NEW id \in DOMAIN job, NEW result, job' = [job EXCEPT ![id].result = result]
    PROVE  State' = [State EXCEPT ![id] = result] /\ State[id] = job[id].result
           /\ id \in DOMAIN State
<1>1. job \in [0 .. job_id - 1 -> Job] /\ job[id] \in Job
  BY DEF TypeOK
<1>2. DOMAIN job' = DOMAIN job /\ job'[id].result = result
      /\ \A i \in DOMAIN job : i # id => job'[i] = job[i]
  BY <1>1 DEF Job
<1> QED BY <1>2 DEF State

LEMMA StartMaps ==
    ASSUME FewJobs, IndInv, NEW w \in Workers, StartJob(w)
    PROVE  Service!Next
<1>1. PICK id \in DOMAIN job : id = worker[w].id /\ job[id].result = "new"
  BY Working DEF StartJob, Taken
<1>2. SameCalls
  BY DEF StartJob, SameCalls
<1>3. State' = [State EXCEPT ![id] = "running"] /\ State[id] = "new" /\ id \in DOMAIN State
  BY <1>1, StateAfter DEF StartJob, IndInv
<1>4. Service!Start(id)
  BY <1>2, <1>3, SameCallsMap DEF Call, Asked, State, Answer, Service!Start
<1> QED BY <1>3, <1>4 DEF Service!Next, State

LEMMA FinishMaps ==
    ASSUME IndInv, NEW id \in DOMAIN job, NEW result \in {"value", "error", "EINTR"},
           job[id].result = "running", SameCalls, job' = [job EXCEPT ![id].result = result],
           result = "EINTR" => \E t \in Tasks : InCall(t) /\ coro[t].cancelled /\ coro[t].job = id
    PROVE  Service!Next
<1>1. State' = [State EXCEPT ![id] = result] /\ State[id] = "running" /\ id \in DOMAIN State
  BY StateAfter DEF IndInv
<1>2. result = "EINTR" => \E t \in Asked : Call[t] = id
  BY DEF Asked, Call, InCall
<1>3. Service!Finish(id)
  <2>1. CASE result = "EINTR"
    BY <2>1, <1>1, <1>2, SameCallsMap DEF Call, Asked, State, Answer, Service!Finish
  <2>2. CASE result \in {"value", "error"}
    BY <2>2, <1>1, SameCallsMap DEF Call, Asked, State, Answer, Service!Finish
  <2> QED BY <2>1, <2>2
<1> QED BY <1>1, <1>3 DEF Service!Next, State

LEMMA CallReturnsMaps ==
    ASSUME FewJobs, IndInv, NEW w \in Workers, NEW result \in {"value", "error"},
           CallReturns(w, result)
    PROVE  Service!Next
<1>1. worker[w].id \in DOMAIN job /\ job[worker[w].id].result = "running"
  BY Working DEF CallReturns, Taken
<1>2. SameCalls
  BY DEF CallReturns, SameCalls
<1> QED BY <1>1, <1>2, FinishMaps DEF CallReturns

LEMMA HandleUsr2Maps ==
    ASSUME FewJobs, IndInv, NEW w \in Workers, HandleUsr2(w)
    PROVE  [Service!Next]_Service!vars
<1>1. SameCalls
  BY DEF HandleUsr2, SameCalls
<1>2. CASE worker[w].at # "call"
  <2>1. job' = job
    BY <1>2 DEF HandleUsr2
  <2> QED BY <1>1, <2>1, Stutters
<1>3. CASE worker[w].at = "call"
  <2>1. worker[w].id \in DOMAIN job /\ job[worker[w].id].result = "running"
    BY <1>3, Working DEF Taken
  <2>2. PICK result \in {"value", "EINTR"} : job' = [job EXCEPT ![worker[w].id].result = result]
    BY <1>3 DEF HandleUsr2
  <2>3. \E t \in Tasks : InCall(t) /\ coro[t].cancelled /\ coro[t].job = worker[w].id
    BY <1>3 DEF HandleUsr2, IndInv, SignalOK
  <2> QED BY <1>1, <2>1, <2>2, <2>3, FinishMaps
<1> QED BY <1>2, <1>3

LEMMA CancelMaps ==
    ASSUME TypeOK, NEW t \in Tasks, CancelCoroutine(t), job' = job
    PROVE  [Service!Next]_Service!vars
<1>1. coro[t] \in Coroutine /\ coro[t].cancelled \in BOOLEAN
  BY CoroType DEF Coroutine
<1>2. /\ \A u \in Tasks : u # t => coro'[u] = coro[u]
      /\ coro'[t].job = coro[t].job /\ coro'[t].at = coro[t].at /\ coro'[t].result = coro[t].result
      /\ coro'[t].cancelled <=> coro[t].cancelled \/ coro[t].at # "end"
  BY <1>1 DEF TypeOK, CancelCoroutine, Coroutine
<1>3. Call' = Call
  BY <1>2 DEF Call
<1>4. Answer' = Answer
  BY <1>2 DEF Answer
<1>5. State' = State
  BY DEF State
<1>6. CASE coro[t].at = "end"
  <2>1. Asked' = Asked
    BY <1>2, <1>6 DEF Asked
  <2> QED BY <1>3, <1>4, <1>5, <2>1 DEF Call, Asked, State, Answer, Service!vars
<1>7. CASE coro[t].at # "end"
  <2>1. Asked' = Asked \cup {t}
    BY <1>2, <1>7 DEF Asked
  <2>2. Service!Cancel(t)
    BY <1>3, <1>4, <1>5, <2>1 DEF Call, Asked, State, Answer, Service!Cancel
  <2> QED BY <2>2 DEF Service!Next
<1> QED BY <1>6, <1>7

\* A call of t ends with the given answer.
LEMMA ReturnMaps ==
    ASSUME FewJobs, IndInv, NEW t \in Tasks, InCall(t), job' = job,
           \A u \in Tasks : u # t => coro'[u] = coro[u],
           coro'[t].cancelled = coro[t].cancelled,
           coro'[t].at = "end" \/ coro'[t].job = None,
           \/ /\ job[coro[t].job].result \in {"value", "error"}
              /\ coro'[t].result = job[coro[t].job].result
           \/ coro[t].cancelled /\ coro'[t].result = "Cancelled"
           \/ coro[t].cancelled /\ Over(coro[t].job) /\ coro'[t].result = "error"
    PROVE  Service!Next
<1> DEFINE id == coro[t].job
<1>1. id \in DOMAIN job /\ id # None
  BY IdFacts DEF IndInv, CallsOK, TypeOK, Coroutine, Ids
<1>2. Call[t] = id /\ State[id] = job[id].result /\ (coro[t].cancelled => t \in Asked)
  BY <1>1 DEF Call, State, Asked, InCall
<1>3. Call' = [Call EXCEPT ![t] = None]
  BY DEF Call
<1>4. Answer' = [Answer EXCEPT ![t] = coro'[t].result]
  BY DEF Answer
<1>5. Asked' = Asked
  BY DEF Asked
<1>6. State' = State
  BY DEF State
<1> HIDE DEF id
<1>7. Service!Return(t)
  <2>1. /\ Call[t] # None
        /\ \/ State[Call[t]] \in {"value", "error"} /\ Answer' = [Answer EXCEPT ![t] = State[Call[t]]]
           \/ /\ t \in Asked
              /\ \/ Answer' = [Answer EXCEPT ![t] = "Cancelled"]
                 \/ State[Call[t]] \notin {"new", "running"} /\ Answer' = [Answer EXCEPT ![t] = "error"]
    BY <1>1, <1>2, <1>4 DEF id, Over
  <2> QED BY <2>1, <1>3, <1>5, <1>6 DEF Call, Asked, State, Answer, Service!Return
<1> QED BY <1>7 DEF Service!Next

LEMMA JobReturnsMaps ==
    ASSUME FewJobs, IndInv, NEW t \in Tasks, JobReturns(t)
    PROVE  Service!Next
<1> DEFINE result == job[coro[t].job].result
<1>1. InCall(t) /\ AwaitsEnd(t) /\ curr = t /\ phase # "join" /\ job' = job
  BY DEF JobReturns, InCall, AwaitsEnd, Runs
<1>2. Over(coro[t].job)
  BY <1>1 DEF IndInv, QueueOK
<1>3. coro[t].job \in DOMAIN job /\ result \in {"value", "error", "EINTR"}
  BY <1>1, <1>2 DEF IndInv, CallsOK, TypeOK, Over, Job
<1>4. coro \in [Tasks -> Coroutine] /\ coro[t] \in Coroutine
  BY CoroType DEF IndInv
<1>5. CASE result = "EINTR"
  <2>1. coro[t].cancelled
    BY <1>1, <1>5 DEF IndInv, SignalOK
  <2>2. /\ \A u \in Tasks : u # t => coro'[u] = coro[u]
        /\ coro'[t].cancelled = coro[t].cancelled /\ coro'[t].at = "end"
        /\ coro'[t].result = "Cancelled"
    BY <1>4, <1>5 DEF JobReturns, Raise, Coroutine
  <2> QED BY <1>1, <2>1, <2>2, ReturnMaps
<1>6. CASE result # "EINTR"
  <2>2. /\ \A u \in Tasks : u # t => coro'[u] = coro[u]
        /\ coro'[t].cancelled = coro[t].cancelled /\ coro'[t].job = None
        /\ coro'[t].result = result
    BY <1>4, <1>6 DEF JobReturns, Coroutine
  <2> QED BY <1>1, <1>3, <1>6, <2>2, ReturnMaps
<1> QED BY <1>5, <1>6

LEMMA CancelReturnsMaps ==
    ASSUME FewJobs, IndInv, NEW t \in Tasks, CancelNoWait(t) \/ CancelFailed(t)
    PROVE  Service!Next
<1>1. InCall(t) /\ curr = t /\ phase # "join" /\ job' = job
  BY DEF CancelNoWait, CancelFailed, Cancelling, InCall, Runs
<1>2. coro[t].cancelled
  BY DEF CancelNoWait, CancelFailed, Cancelling, IndInv, CallsOK
<1>4. coro \in [Tasks -> Coroutine] /\ coro[t] \in Coroutine
  BY CoroType DEF IndInv
<1>5. ASSUME NEW result, Raise(t, result)
      PROVE  /\ \A u \in Tasks : u # t => coro'[u] = coro[u]
             /\ coro'[t].cancelled = coro[t].cancelled /\ coro'[t].at = "end"
             /\ coro'[t].result = result
  BY <1>4, <1>5 DEF Raise, Coroutine
<1>6. CASE CancelNoWait(t)
  BY <1>1, <1>2, <1>5, <1>6, ReturnMaps DEF CancelNoWait
<1>7. CASE CancelFailed(t)
  <2>1. Over(coro[t].job)
    BY <1>1, <1>7 DEF CancelFailed, AwaitsEnd, IndInv, QueueOK
  <2> QED BY <1>1, <1>2, <1>5, <1>7, <2>1, ReturnMaps DEF CancelFailed
<1> QED BY <1>6, <1>7

LEMMA SubmitMaps ==
    ASSUME FewJobs, IndInv, NEW t \in Tasks, NEW kind \in AllKinds, perform_job_in_worker(t, kind)
    PROVE  Service!Next
<1>1. coro \in [Tasks -> Coroutine] /\ coro[t] \in Coroutine
  BY CoroType DEF IndInv
<1>2. coro[t].at = "start" /\ ~ coro[t].cancelled /\ coro[t].job = None
  BY DEF perform_job_in_worker, IndInv, CallsOK
<1>3. job_id \in Ids /\ job_id \notin DOMAIN job
  BY IdFacts DEF perform_job_in_worker, IndInv, TypeOK, Ids
<1>4. /\ \A u \in Tasks : u # t => coro'[u] = coro[u]
      /\ coro'[t].cancelled = coro[t].cancelled /\ coro'[t].at # "end"
      /\ coro'[t].result = "none" /\ coro'[t].job = job_id
  BY <1>1 DEF perform_job_in_worker, Coroutine
<1>5. /\ DOMAIN job' = DOMAIN job \cup {job_id} /\ job'[job_id].result = "new"
      /\ \A i \in DOMAIN job : job'[i] = job[i]
  BY <1>3 DEF perform_job_in_worker, With
<1>6. Call[t] = None /\ t \notin Asked /\ job_id \notin DOMAIN State
  BY <1>2, <1>3 DEF Call, Asked, State
<1>7. Call' = [Call EXCEPT ![t] = job_id]
  BY <1>4 DEF Call
<1>8. Answer' = [Answer EXCEPT ![t] = "none"]
  BY <1>4 DEF Answer
<1>9. Asked' = Asked
  BY <1>4 DEF Asked
<1>10. State' = [j \in DOMAIN State \cup {job_id} |-> IF j = job_id THEN "new" ELSE State[j]]
  BY <1>5 DEF State
<1>11. PICK id \in Ids : id = job_id
  BY <1>3
<1>12. Service!Submit(t, id)
  BY <1>6, <1>7, <1>8, <1>9, <1>10, <1>11 DEF Call, Asked, State, Answer, Service!Submit
<1> QED BY <1>12 DEF Service!Next

\* Only the place of t changes, and not to or from its end.
LEMMA MovesStutter ==
    ASSUME TypeOK, NEW t \in Tasks, NEW at, at # "end", coro[t].at # "end",
           coro' = [coro EXCEPT ![t].at = at]
    PROVE  SameCalls
<1>1. coro \in [Tasks -> Coroutine] /\ coro[t] \in Coroutine
  BY CoroType
<1> QED BY <1>1 DEF SameCalls, Coroutine

LEMMA CancelSynchronousIoMaps ==
    ASSUME FewJobs, IndInv, CancelSynchronousIo
    PROVE  [Service!Next]_Service!vars
<1> DEFINE w == running_workers[coro[curr].job]
<1>1. /\ curr \in Tasks /\ coro[curr].cancelled /\ coro[curr].at \in {"wait", "retry"}
      /\ coro[curr].job \in DOMAIN running_workers
  BY DEF CancelSynchronousIo, IndInv, PhaseOK
<1>2. PICK t \in Tasks : t = curr
  BY <1>1
<1>3. SameCalls
  <2>1. PICK at \in {"shield", "retry", "raise"} : coro' = [coro EXCEPT ![t].at = at]
    BY <1>2 DEF CancelSynchronousIo, Suspend, RetryLater, CancelError
  <2> QED BY <1>1, <1>2, <2>1, MovesStutter DEF IndInv
<1>4. CASE job' = job
  BY <1>3, <1>4, Stutters
<1>5. CASE job' # job
  <2>1. worker[w].at = "call"
        /\ \E result \in {"value", "error", "EINTR"} :
             job' = [job EXCEPT ![worker[w].id].result = result]
    BY <1>5 DEF CancelSynchronousIo
  <2>2. w \in Workers
    BY <1>1 DEF IndInv, TypeOK
  <2>3. /\ worker[w].id \in DOMAIN job /\ job[worker[w].id].result = "running"
        /\ worker[w].id = coro[curr].job
    <3>1. /\ worker[w].id \in DOMAIN running_workers /\ running_workers[worker[w].id] = w
          /\ Taken(worker[w].id) /\ worker[w].id \in DOMAIN job
      BY <2>1, <2>2, Working
    <3> QED BY <1>1, <2>1, <3>1 DEF Taken, IndInv, WorkersOK
  <2>4. InCall(t) /\ coro[t].cancelled /\ coro[t].job = worker[w].id
    BY <1>1, <1>2, <2>3 DEF InCall
  <2> QED BY <1>3, <2>1, <2>3, <2>4, FinishMaps
<1> QED BY <1>4, <1>5

\* A coroutine ends between operations, or goes on with a cancellation.
LEMMA QuietCoroutine ==
    ASSUME FewJobs, IndInv,
           \/ CancelBySignal
           \/ \E t \in Tasks : End(t) \/ CancelTests(t)
    PROVE  UNCHANGED Service!vars
<1>1. CASE CancelBySignal
  <2>1. PICK t \in Tasks : t = curr /\ coro[t].at \in {"wait", "retry"}
    BY <1>1 DEF CancelBySignal, IndInv, PhaseOK
  <2>2. coro' = [coro EXCEPT ![t].at = "retry"] /\ job' = job
    BY <1>1, <2>1 DEF CancelBySignal, RetryLater, Suspend
  <2> QED BY <2>1, <2>2, MovesStutter, Stutters DEF IndInv
<1>2. ASSUME NEW t \in Tasks, CancelTests(t) PROVE UNCHANGED Service!vars
  <2>1. coro[t].at # "end" /\ job' = job
    BY <1>2 DEF CancelTests, Cancelling
  <2>2. coro' = coro \/ coro' = [coro EXCEPT ![t].at = "shield"]
    BY <1>2 DEF CancelTests, Suspend
  <2>3. SameCalls
    BY <2>1, <2>2, MovesStutter DEF IndInv, SameCalls
  <2> QED BY <2>1, <2>3, Stutters
<1>3. ASSUME NEW t \in Tasks, End(t) PROVE UNCHANGED Service!vars
  <2>1. coro[t].at = "start" /\ coro[t].job = None /\ job' = job
        /\ coro' = [coro EXCEPT ![t].at = "end"]
    BY <1>3 DEF End, Suspend, IndInv, CallsOK
  <2>2. coro \in [Tasks -> Coroutine] /\ coro[t] \in Coroutine
    BY CoroType DEF IndInv
  <2>3. /\ \A u \in Tasks : u # t => coro'[u] = coro[u]
        /\ coro'[t].cancelled = coro[t].cancelled /\ coro'[t].at = "end"
        /\ coro'[t].result = coro[t].result
    BY <2>1, <2>2 DEF Coroutine
  <2>4. Call' = Call
    BY <2>1, <2>3 DEF Call
  <2>5. Answer' = Answer
    BY <2>3 DEF Answer
  <2>6. Asked' = Asked
    BY <2>3 DEF Asked
  <2>7. State' = State
    BY <2>1 DEF State
  <2> QED BY <2>4, <2>5, <2>6, <2>7 DEF Call, Asked, State, Answer, Service!vars
<1> QED BY <1>1, <1>2, <1>3

LEMMA HandleMaps ==
    ASSUME FewJobs, IndInv, handle_completed_job
    PROVE  [Service!Next]_Service!vars
<1>1. job' = job
  BY DEF handle_completed_job
<1>2. CASE HandleSignal
  BY <1>1, <1>2, IdFacts, CancelMaps DEF HandleSignal, IndInv
<1>3. CASE coro' = coro
  BY <1>1, <1>3, Stutters DEF SameCalls
<1> QED BY <1>2, <1>3 DEF handle_completed_job

LEMMA ServiceStep ==
    ASSUME FewJobs, IndInv, [Next]_vars
    PROVE  [Service!Next]_Service!vars
<1>1. ASSUME UNCHANGED <<coro, job>> PROVE UNCHANGED Service!vars
  BY <1>1, Stutters DEF SameCalls
<1>2. CASE UNCHANGED vars \/ Finished \/ DrainSpins
  BY <1>1, <1>2 DEF vars, Finished, DrainSpins
<1>3. CASE LoopStep
  <2>1. ASSUME NEW t \in Tasks, NEW kind \in Submits(t), perform_job_in_worker(t, kind)
        PROVE  Service!Next
    <3>1. kind \in AllKinds
      BY PoolAssumption DEF IndInv, TypeOK, Config, Submits, AllKinds
    <3> QED BY <2>1, <3>1, SubmitMaps
  <2>2. ASSUME \/ Poll \/ Fetch \/ FetchFails \/ BatchDone \/ StartCleanup \/ Join \/ CleanupDone
               \/ DrainDone \/ reschedule \/ RescheduleDone \/ \E w \in Workers : free_worker(w)
        PROVE  UNCHANGED <<coro, job>>
    BY <2>2 DEF Poll, Fetch, FetchFails, BatchDone, StartCleanup, Join, CleanupDone, DrainDone,
                reschedule, RescheduleDone, free_worker
  <2>3. ASSUME NEW t \in Tasks, AbortWaiter(t) PROVE [Service!Next]_Service!vars
    BY <2>3, CancelMaps DEF AbortWaiter, IndInv
  <2> QED BY <1>1, <1>3, <2>1, <2>2, <2>3, HandleMaps, QuietCoroutine, CancelSynchronousIoMaps,
             JobReturnsMaps, CancelReturnsMaps DEF LoopStep
<1>4. ASSUME NEW w \in Workers, WorkerStep(w) \/ SignalArrives(w)
      PROVE  [Service!Next]_Service!vars
  <2>1. CASE StartJob(w)
    BY <2>1, StartMaps
  <2>2. CASE SetWaiting(w) \/ Notify(w) \/ Wait(w) \/ Wakeup(w) \/ SignalArrives(w)
    BY <1>1, <2>2 DEF SetWaiting, Notify, Wait, Wakeup, SignalArrives
  <2> QED BY <1>4, <2>1, <2>2 DEF WorkerStep
<1>5. ASSUME NEW t \in Tasks, Cancel(t) PROVE [Service!Next]_Service!vars
  BY <1>5, CancelMaps DEF Cancel, IndInv
<1> QED BY <1>2, <1>3, <1>4, <1>5, HandleUsr2Maps, CallReturnsMaps DEF Next

LEMMA ServiceInit == Init => Service!Init
<1> SUFFICES ASSUME Init PROVE Service!Init
  OBVIOUS
<1>1. Call = [t \in Tasks |-> None] /\ Answer = [t \in Tasks |-> "none"]
  BY DEF Init, Call, Answer
<1>2. Asked = {}
  BY DEF Init, Asked
<1>3. State = [id \in {} |-> None]
  BY DEF Init, State
<1> QED BY <1>1, <1>2, <1>3 DEF Call, Asked, State, Answer, Service!Init

\* The pool keeps its promise to coroutines, with any number of workers, jobs and
\* late signals: a job starts once, a call returns what its job produced, and only
\* the job of a cancelled coroutine is interrupted.
THEOREM PoolImplementsJobService == FewJobs /\ Spec => ImplementsJobService
<1> SUFFICES ASSUME FewJobs PROVE Spec => ImplementsJobService
  OBVIOUS
<1>1. Spec => []IndInv
  BY PoolInvariant
<1>2. IndInv /\ [Next]_vars => [Service!Next]_Service!vars
  BY ServiceStep
<1> QED BY <1>1, <1>2, ServiceInit, PTL DEF Spec, ImplementsJobService, Service!Spec

=============================================================================
