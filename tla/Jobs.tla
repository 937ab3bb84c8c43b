-------------------------------- MODULE Jobs --------------------------------
(***************************************************************************)
(* The jobs of thread_pool.c: what each job's worker function acquires     *)
(* and releases, what its finaliser releases, and what the coroutine that  *)
(* made it takes out (fs.mbt, network.mbt, process_*.mbt, io_*.mbt).       *)
(*                                                                         *)
(* A worker function is a script, a sequence of calls.  The job object is  *)
(* shared by the coroutine and the worker thread; it is freed when both    *)
(* have dropped it, at whatever point the coroutine gives up.  How jobs    *)
(* reach the workers is the subject of ThreadPool.                         *)
(*                                                                         *)
(* at of a job: "none" not made, "queued" handed to the pool, "run" the    *)
(* worker is before call pc of the script, "done" the worker has returned  *)
(***************************************************************************)
EXTENDS Integers, Sequences

CONSTANTS
    Jobs,        \* identities of jobs
    Pairs,       \* pairs of names: the jobs that may exist at the same time
    None

VARIABLES
    job,
    buf          \* who wrote the static buffer of realpath_job_worker last

vars == <<job, buf>>

-----------------------------------------------------------------------------
(* Calls and programs. *)

\* A call.  get: what its success acquires; undo: what the code releases when it
\* fails; put: what it releases after the call in any case.  A failure is
\* loud (err is set and the worker returns), quiet (it goes on without err), or
\* a code (err stays 0, ret tells).  final: after a success the worker returns.
\* buf: what the call does to a static buffer.
Sys == [get |-> {}, undo |-> {}, put |-> {}, fails |-> {"loud"}, final |-> FALSE,
        buf |-> "none"]
Get(r)        == [Sys EXCEPT !.get = r]
Undo(r)       == [Sys EXCEPT !.undo = r]
Put(r)        == [Sys EXCEPT !.put = r]
Always(call)  == [call EXCEPT !.fails = {}]
Ignored(call) == [call EXCEPT !.fails = {"quiet"}]

\* A job.  args: the objects it gets a reference to when it is made; keeps: the
\* results its struct owns until they are fetched; gives: what the coroutine
\* gets of a success; cancel: how the coroutine waits, as in ThreadPool.
Program(name, args, script) ==
    [name |-> name, args |-> args, script |-> script, keeps |-> {}, gives |-> {},
     cancel |-> "shielded"]
Giving(p, r) == [p EXCEPT !.gives = r]
Cancellable(p) == [p EXCEPT !.cancel = "cancellable"]

sleep_job(os)    == Program("sleep", {}, <<Ignored(Sys)>>)
\* With a position the waiter is shielded on Unix.
read_job(os)     == Cancellable(Program("read", {"buf"}, <<Sys>>))
write_job(os)    == Cancellable(Program("write", {"buf"}, <<Sys>>))

\* Mutant of open_job: the file stays open when its kind cannot be found out.
open_job_unclosed(os) ==
    Cancellable(Giving(Program("open", {"filename"}, <<Get({"fd"}), Sys>>), {"fd"}))

\* open and fstat; CreateFileW (repeated, after WaitNamedPipeW, while the pipe is
\* busy) and GetFileInformationByHandle.
open_job(os) ==
    Cancellable(Giving(Program("open", {"filename"}, <<Get({"fd"}), Undo({"fd"})>>),
                       {"fd"}))

kind_of_fd_job(os) == Program("kind_of_fd", {}, <<Sys>>)

\* Windows opens the path first and closes the handle in any case.
ByPath(os) == IF os = "windows" THEN <<Get({"handle"}), Put({"handle"})>> ELSE <<Sys>>
file_kind_by_path_job(os) == Program("file_kind_by_path", {"path"}, ByPath(os))
file_size_job(os)         == Program("file_size", {}, <<Sys>>)
file_time_job(os)         == Program("file_time", {"out"}, <<Sys>>)
file_time_by_path_job(os) == Program("file_time_by_path", {"path", "out"}, ByPath(os))
chmod_job(os)             == Program("chmod", {"path"}, <<Sys>>)
fsync_job(os)             == Program("fsync", {}, <<Sys>>)
flock_job(os)  == Cancellable(Giving(Program("flock", {}, <<Get({"lock"})>>), {"lock"}))
remove_job(os) == Program("remove", {"path"}, <<Sys>>)
access_job(os) ==
    Program("access", {"path"},
            IF os = "windows" THEN <<Get({"handle"}), Always(Put({"handle"}))>> ELSE <<Sys>>)

\* Windows renames through a handle; only ERROR_INVALID_PARAMETER leads to the
\* second way.
rename_job(os) ==
    Program("rename", {"old_path", "new_path"},
      IF os = "windows"
      THEN <<Get({"handle", "info"}),
             [Put({"handle", "info"}) EXCEPT !.fails = {"loud", "quiet"}, !.final = TRUE],
             Sys>>
      ELSE <<Sys>>)

symlink_job(os) ==
    Program("symlink", {"target", "path"}, IF os = "windows" THEN <<Sys, Sys>> ELSE <<Sys>>)
mkdir_job(os) == Program("mkdir", {"path"}, <<Sys>>)
rmdir_job(os) == Program("rmdir", {"path"}, <<Sys>>)

\* Unix seeks first to restart; on Windows the end of the directory is no error.
readdir_job(os) ==
    Program("readdir", {"out"},
      IF os = "windows" THEN <<[Sys EXCEPT !.fails = {"loud", "quiet"}]>> ELSE <<Sys, Sys>>)

\* On Windows a short path goes through a static buffer, a long one is written
\* to the string by a second call.
realpath_job(os, long) ==
    Giving(Program(IF long THEN "realpath (long)" ELSE "realpath", {"path"},
      CASE os = "unix"             -> <<Get({"string"})>>
        [] os = "windows" /\ long  -> <<[Sys EXCEPT !.buf = "write"],
                                        Always(Get({"string"})), Undo({"string"})>>
        [] OTHER -> <<[Sys EXCEPT !.buf = "write"],
                      [Always(Get({"string"})) EXCEPT !.buf = "read"]>>),
      {"string"})

\* CreateProcessW with the job object in an attribute list ("spawn attrs"), with
\* AssignProcessToJobObject afterwards ("spawn assign"), or of an orphan.  The first
\* call stands for those on the three standard handles.
spawn_job_windows(how) ==
    LET create == Get({"process", "thread"})
        close  == Always(Put({"thread"})) IN
    [Giving(Program(how, {"command_line", "environment", "cwd"},
       CASE how = "spawn attrs"  -> <<Sys, Get({"attrs"}), Undo({"attrs"}),
                                      [create EXCEPT !.put = {"attrs"}], close>>
         [] how = "spawn assign" -> <<Sys, create, Sys, close>>
         [] how = "spawn orphan" -> <<Sys, create, close>>),
       {"process"})
     EXCEPT !.keeps = {"process"}]

\* posix_spawn; attributes and file actions are destroyed at exit.
spawn_job_unix ==
    Giving(Program("spawn", {"path", "args", "envp", "cwd"},
      <<Always(Get({"attr", "actions"})), Undo({"attr", "actions"}),
        Undo({"attr", "actions"}), [Get({"process"}) EXCEPT !.put = {"attr", "actions"}]>>),
      {"process"})

\* The event that cancels the wait lives as long as the job.
wait_for_process_job_windows ==
    [Program("wait_for_process", {"cancel"}, <<Sys>>) EXCEPT !.cancel = "interrupted"]

\* waitpid reaps the child: only the job knows the exit status then.
wait_for_process_job_unix ==
    Cancellable(Giving(Program("wait_for_process", {}, <<Get({"status"})>>), {"status"}))

bind_job(os) == Program("bind", {"addr"}, <<Sys>>)

\* Most failures leave err at 0 and are told by ret.
getaddrinfo_job(os) ==
    [Giving(Program("getaddrinfo", {"hostname"},
                    <<[Get({"addrinfo"}) EXCEPT !.fails = {"loud", "code"}]>>), {"addrinfo"})
     EXCEPT !.keeps = {"addrinfo"}, !.cancel = "detached"]

inotify_add_watch_job == Giving(Program("inotify_add_watch", {"path"}, <<Get({"watch"})>>),
                                {"watch"})

Programs(os) ==
    {sleep_job(os), read_job(os), write_job(os), open_job(os), kind_of_fd_job(os),
     file_kind_by_path_job(os), file_size_job(os), file_time_job(os),
     file_time_by_path_job(os), fsync_job(os), flock_job(os), remove_job(os),
     access_job(os), rename_job(os), symlink_job(os), mkdir_job(os), rmdir_job(os),
     readdir_job(os), realpath_job(os, FALSE), bind_job(os), getaddrinfo_job(os)}
    \cup IF os = "windows"
         THEN {spawn_job_windows(how) :
                 how \in {"spawn attrs", "spawn assign", "spawn orphan"}}
              \cup {wait_for_process_job_windows, realpath_job(os, TRUE)}
         ELSE {spawn_job_unix, wait_for_process_job_unix, chmod_job(os),
               inotify_add_watch_job}

AllPrograms == Programs("unix") \cup Programs("windows")

Resources ==
    UNION {p.args \cup p.gives \cup UNION {p.script[k].get : k \in DOMAIN p.script} :
             p \in AllPrograms}

\* outcome: what the coroutine got.  failed: a call failed that the job is about
\* (not read by the code).  live: acquisitions minus releases of each resource.
\* mine: results the coroutine has and has not released.  text: whose path the
\* string of realpath holds.
NoJob == [at |-> "none", prog |-> None, pc |-> 0, err |-> FALSE, code |-> FALSE,
          failed |-> FALSE, outcome |-> "waiting", refs |-> {}, fetched |-> FALSE,
          live |-> [r \in Resources |-> 0], mine |-> {}, text |-> None]

TypeOK ==
    /\ buf \in Jobs \cup {None}
    /\ \A j \in Jobs :
         /\ job[j].at \in {"none", "queued", "run", "done"}
         /\ job[j].prog \in AllPrograms \cup {None}
         /\ job[j].at = "run" => job[j].pc \in DOMAIN job[j].prog.script
         /\ job[j].outcome \in {"waiting", "value", "error", "Cancelled"}
         /\ job[j].refs \subseteq {"coroutine", "worker"}
         /\ {job[j].err, job[j].code, job[j].failed, job[j].fetched} \subseteq BOOLEAN
         /\ job[j].live \in [Resources -> Int]
         /\ job[j].mine \subseteq Resources
         /\ job[j].text \in Jobs \cup {None}

Init == job = [j \in Jobs |-> NoJob] /\ buf = None

-----------------------------------------------------------------------------
(* The job object. *)

Acquire(live, rs) == [r \in Resources |-> live[r] + (IF r \in rs THEN 1 ELSE 0)]
Release(live, rs) == [r \in Resources |-> live[r] - (IF r \in rs THEN 1 ELSE 0)]

\* What the finaliser free_*_job releases.
Finalised(j) ==
    j.prog.args \cup (IF j.at = "done" /\ ~ j.failed /\ ~ j.fetched
                      THEN j.prog.keeps ELSE {})

\* moonbit_decref: the last reference runs the finaliser.
Drop(j, ref) ==
    [j EXCEPT !.refs = @ \ {ref},
              !.live = IF j.refs = {ref} THEN Release(@, Finalised(j)) ELSE @]

Freed(j) == job[j].at = "done" /\ job[j].refs = {}

\* moonbitlang_async_make_*_job, and perform_job_in_worker hands the job over.
\* Jobs that exist at the same time are of the same system and one of Pairs.
make_job(j, os, p) ==
    /\ job[j].at = "none"
    /\ \A i \in Jobs \ {j} : job[i].at # "none" =>
         job[i].prog \in Programs(os) /\ <<job[i].prog.name, p.name>> \in Pairs
    /\ job' = [job EXCEPT ![j] = [NoJob EXCEPT
         !.at = "queued", !.prog = p, !.refs = {"coroutine", "worker"},
         !.live = Acquire(@, p.args)]]
    /\ UNCHANGED buf

-----------------------------------------------------------------------------
(* The worker thread. *)

Start(j) ==
    /\ job[j].at = "queued"
    /\ job' = [job EXCEPT ![j].at = "run", ![j].pc = 1]
    /\ UNCHANGED buf

Script(j) == job[j].prog.script
Call(j)   == Script(j)[job[j].pc]

\* Mutant of Goes: the worker function runs past its end.
GoesOn(j, rec, last) == [rec EXCEPT !.pc = @ + 1]

\* To the next call, or the worker function returns.
Goes(j, rec, last) ==
    IF last \/ rec.pc = Len(Script(j)) THEN [rec EXCEPT !.at = "done"]
                                       ELSE [rec EXCEPT !.pc = @ + 1]

CallSucceeds(j) ==
    /\ job[j].at = "run"
    /\ LET call == Call(j)
           rec  == [job[j] EXCEPT !.live = Release(Acquire(@, call.get), call.put),
                                  !.text = IF call.buf = "read" THEN buf ELSE @] IN
       job' = [job EXCEPT ![j] = Goes(j, rec, call.final)]
    /\ buf' = IF Call(j).buf = "write" THEN j ELSE buf

\* Mutant of Reported: err is not set.
Unreported(rec) == [rec EXCEPT !.failed = TRUE]

Reported(rec) == [rec EXCEPT !.failed = TRUE, !.err = TRUE]

\* Also when the call was interrupted to cancel the job.
CallFails(j, how) ==
    /\ job[j].at = "run" /\ how \in Call(j).fails
    /\ LET call == Call(j)
           rec  == [job[j] EXCEPT !.live = Release(@, call.undo \cup call.put)] IN
       job' = [job EXCEPT ![j] =
         CASE how = "loud"  -> Goes(j, Reported(rec), TRUE)
           [] how = "code"  -> Goes(j, [rec EXCEPT !.failed = TRUE, !.code = TRUE], FALSE)
           [] how = "quiet" -> Goes(j, rec, FALSE)]
    /\ UNCHANGED buf

\* worker_enter_idle, or wake_worker with the next job.
WorkerDrops(j) ==
    /\ job[j].at = "done" /\ "worker" \in job[j].refs
    /\ job' = [job EXCEPT ![j] = Drop(@, "worker")]
    /\ UNCHANGED buf

-----------------------------------------------------------------------------
(* The coroutine. *)

Waits(j) == job[j].at # "none" /\ job[j].outcome = "waiting"

\* perform_job_in_worker raises; or getaddrinfo returns Err.
Raises(j) ==
    /\ Waits(j) /\ job[j].at = "done" /\ (job[j].err \/ job[j].code)
    /\ job' = [job EXCEPT ![j] = Drop([@ EXCEPT !.outcome = "error"], "coroutine")]
    /\ UNCHANGED buf

\* Mutant of Fetched: the job does not note that its result was taken.
FetchedUnnoted(rec) == [rec EXCEPT !.mine = rec.prog.gives]

\* moonbitlang_async_get_getaddrinfo_result, get_spawn_job_result_handle, ...
Fetched(rec) == [rec EXCEPT !.mine = rec.prog.gives, !.fetched = TRUE]

\* The operation returns the results, and drops the job.
Returns(j) ==
    /\ Waits(j) /\ job[j].at = "done" /\ ~ job[j].err /\ ~ job[j].code
    /\ job' = [job EXCEPT ![j] =
         Drop(Fetched([@ EXCEPT !.outcome = "value"]), "coroutine")]
    /\ UNCHANGED buf

\* The coroutine is cancelled and its cancel function returns NoWait: always for
\* getaddrinfo, else when no worker has the job, still or any more.
GivesUp(j) ==
    /\ Waits(j)
    /\ \/ job[j].prog.cancel = "detached"
       \/ job[j].prog.cancel = "cancellable" /\ job[j].at \in {"queued", "done"}
    /\ job' = [job EXCEPT ![j] = Drop([@ EXCEPT !.outcome = "Cancelled"], "coroutine")]
    /\ UNCHANGED buf

\* The coroutine closes or frees what it got.
Closes(j) ==
    /\ job[j].mine # {}
    /\ job' = [job EXCEPT ![j].live = Release(@, job[j].mine), ![j].mine = {}]
    /\ UNCHANGED buf

Finished ==
    /\ \A j \in Jobs : job[j].at = "none" \/ (Freed(j) /\ job[j].mine = {})
    /\ UNCHANGED vars

Next ==
    \/ \E j \in Jobs, os \in {"unix", "windows"} : \E p \in Programs(os) : make_job(j, os, p)
    \/ \E j \in Jobs :
         \/ Start(j) \/ CallSucceeds(j) \/ WorkerDrops(j)
         \/ Raises(j) \/ Returns(j) \/ GivesUp(j) \/ Closes(j)
         \/ \E how \in {"loud", "quiet", "code"} : CallFails(j, how)
    \/ Finished

Spec == Init /\ [][Next]_vars

-----------------------------------------------------------------------------
(* Properties. *)

\* A cancelled open, flock or waitpid that had succeeded: nobody has its result
\* (see NoValueDropped of ThreadPool).
ValueDropped(j) == job[j].outcome = "Cancelled" /\ job[j].prog.cancel = "cancellable"

\* AssignProcessToJobObject failed: the handles of the killed child stay open.
AssignFailed(j) == job[j].prog.name = "spawn assign" /\ job[j].failed

\* Nothing is released twice by the worker, the finaliser and the coroutine between
\* them; and when a job is freed and the coroutine has closed what it got,
\* everything that was acquired for the job is released, whichever call failed and
\* whenever the coroutine gave up, with the two exceptions above.
ReleasedOnce ==
    \A j \in Jobs :
      /\ \A r \in Resources : job[j].live[r] >= 0
      /\ Freed(j) /\ job[j].mine = {} /\ ~ ValueDropped(j) /\ ~ AssignFailed(j)
           => \A r \in Resources : job[j].live[r] = 0

\* Another realpath is under way or was: on Windows the two share the buffer.
SharesBuffer(j) ==
    \E i \in Jobs \ {j} : job[i].at # "none" /\ \E k \in DOMAIN Script(i) :
      Script(i)[k].buf # "none"

\* An operation returns a result exactly if what the job was for has succeeded,
\* and until the coroutine closes it the result is there: struct job's comment
\* on err, and for getaddrinfo ret.  The path realpath returns is that of its
\* argument, unless another realpath uses the buffer.
TruthfulOutcome ==
    \A j \in Jobs :
      /\ job[j].outcome = "value" => ~ job[j].failed
      /\ job[j].outcome = "error" => job[j].failed
      /\ \A r \in job[j].mine : job[j].live[r] = 1
      /\ job[j].text \in {j, None} \/ SharesBuffer(j)

=============================================================================
