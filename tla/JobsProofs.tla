----------------------------- MODULE JobsProofs -----------------------------
(***************************************************************************)
(* Proofs about Jobs, for any number of jobs at the same time and any      *)
(* relation Pairs of jobs that may coexist.                                *)
(*                                                                         *)
(* Every script is balanced: what it holds before each call (Before) is    *)
(* what that call releases when it fails, and what it holds at its end is  *)
(* what the job gives.  The inductive invariant then says of every job     *)
(* that it holds its arguments while someone refers to it, and beside them *)
(* what its script holds or, when the worker has returned, the results     *)
(* nobody has taken over.                                                  *)
(***************************************************************************)
EXTENDS Jobs, TLAPS

\* What the script of p holds before call k when the calls so far succeeded.
Before(p, k) ==
    {r \in UNION {p.script[i].get : i \in 1..Len(p.script)} :
       \E i \in 1..(k - 1) :
         r \in p.script[i].get /\ \A m \in i..(k - 1) : r \notin p.script[m].put}

\* What is left when call k fails.
Left(p, k) == Before(p, k) \ (p.script[k].undo \cup p.script[k].put)

\* Call k takes what is free, releases what is held, and leaves nothing behind
\* when the worker returns early.
BalancedCall(p, k) ==
    /\ p.script[k].get \cap Before(p, k) = {}
    /\ p.script[k].put \subseteq Before(p, k)
    /\ p.script[k].undo \subseteq Before(p, k)
    /\ p.script[k].get \cap p.args = {}
    /\ p.script[k].final \/ k = Len(p.script) => Before(p, k + 1) = p.gives
    /\ "loud" \in p.script[k].fails => Left(p, k) = {} \/ p.name = "spawn assign"
    /\ "quiet" \in p.script[k].fails =>
         Left(p, k) = Before(p, k + 1) /\ p.script[k].buf = "none"
    /\ "code" \in p.script[k].fails => k = Len(p.script) /\ Left(p, k) = {}
    /\ p.script[k].buf = "read" => \E i \in 1..(k - 1) : p.script[i].buf = "write"

Balanced(p) ==
    /\ Len(p.script) \in Nat /\ Len(p.script) > 0 /\ DOMAIN p.script = 1..Len(p.script)
    /\ \A k \in 1..Len(p.script) : BalancedCall(p, k)
    /\ p.keeps \subseteq p.gives /\ p.args \cap p.gives = {}
    /\ p.cancel = "detached" => p.keeps = p.gives

-----------------------------------------------------------------------------
(* The scripts. *)

LEMMA BeforeFirst == \A p : Before(p, 1) = {}
BY DEF Before

LEMMA BeforeNext ==
    ASSUME NEW p, Len(p.script) \in Nat, NEW k \in 1..Len(p.script)
    PROVE  Before(p, k + 1) = (Before(p, k) \cup p.script[k].get) \ p.script[k].put
<1> DEFINE All == UNION {p.script[i].get : i \in 1..Len(p.script)}
<1>1. \A i \in 1..Len(p.script) : p.script[i].get \subseteq All
  OBVIOUS
<1>2. \A j : Before(p, j) = {r \in All : \E i \in 1..(j - 1) :
                 r \in p.script[i].get /\ \A m \in i..(j - 1) : r \notin p.script[m].put}
  BY DEF Before
<1> HIDE DEF All
<1>3. k \in Nat /\ k >= 1 /\ (k + 1) - 1 = k
  OBVIOUS
<1>4. ASSUME NEW r, r \in Before(p, k + 1)
      PROVE  r \in (Before(p, k) \cup p.script[k].get) \ p.script[k].put
  <2>1. PICK i \in 1..k : r \in p.script[i].get /\ \A m \in i..k : r \notin p.script[m].put
    BY <1>2, <1>3, <1>4
  <2>2. r \notin p.script[k].put /\ r \in All
    BY <1>2, <1>3, <1>4, <2>1
  <2>3. CASE i = k
    BY <2>1, <2>2, <2>3
  <2>4. CASE i < k
    <3>1. i \in 1..(k - 1) /\ \A m \in i..(k - 1) : m \in i..k
      BY <1>3, <2>4
    <3> QED BY <1>2, <2>1, <2>2, <3>1
  <2> QED BY <1>3, <2>3, <2>4
<1>5. ASSUME NEW r, r \in (Before(p, k) \cup p.script[k].get) \ p.script[k].put
      PROVE  r \in Before(p, k + 1)
  <2>1. CASE r \in p.script[k].get
    <3>1. k \in 1..k /\ \A m \in k..k : m = k
      BY <1>3
    <3>2. r \in All
      BY <1>1, <2>1
    <3> QED BY <1>2, <1>3, <1>5, <2>1, <3>1, <3>2
  <2>2. CASE r \in Before(p, k)
    <3>1. PICK i \in 1..(k - 1) : /\ r \in p.script[i].get /\ r \in All
                                  /\ \A m \in i..(k - 1) : r \notin p.script[m].put
      BY <1>2, <2>2
    <3>2. i \in 1..k /\ \A m \in i..k : m \in i..(k - 1) \/ m = k
      BY <1>3
    <3> QED BY <1>2, <1>3, <1>5, <3>1, <3>2
  <2> QED BY <1>5, <2>1, <2>2
<1> QED BY <1>4, <1>5

\* The first calls of a script, one after another.
LEMMA BeforeCalls ==
    ASSUME NEW p, Len(p.script) \in Nat
    PROVE  /\ Before(p, 1) = {}
           /\ Len(p.script) >= 1 => Before(p, 2) = p.script[1].get \ p.script[1].put
           /\ Len(p.script) >= 2 =>
                Before(p, 3) = (Before(p, 2) \cup p.script[2].get) \ p.script[2].put
           /\ Len(p.script) >= 3 =>
                Before(p, 4) = (Before(p, 3) \cup p.script[3].get) \ p.script[3].put
           /\ Len(p.script) >= 4 =>
                Before(p, 5) = (Before(p, 4) \cup p.script[4].get) \ p.script[4].put
           /\ Len(p.script) >= 5 =>
                Before(p, 6) = (Before(p, 5) \cup p.script[5].get) \ p.script[5].put
<1>1. Before(p, 1) = {}
  BY BeforeFirst
<1>2. ASSUME NEW k \in Nat, k >= 1, Len(p.script) >= k, NEW j, j = k + 1
      PROVE  Before(p, j) = (Before(p, k) \cup p.script[k].get) \ p.script[k].put
  <2>1. k \in 1..Len(p.script)
    BY <1>2
  <2> QED BY <1>2, <2>1, BeforeNext
<1>3. Len(p.script) >= 1 => Before(p, 2) = (Before(p, 1) \cup p.script[1].get) \ p.script[1].put
  BY <1>2
<1>4. Len(p.script) >= 2 => Before(p, 3) = (Before(p, 2) \cup p.script[2].get) \ p.script[2].put
  BY <1>2
<1>5. Len(p.script) >= 3 => Before(p, 4) = (Before(p, 3) \cup p.script[3].get) \ p.script[3].put
  BY <1>2
<1>6. Len(p.script) >= 4 => Before(p, 5) = (Before(p, 4) \cup p.script[4].get) \ p.script[4].put
  BY <1>2
<1>7. Len(p.script) >= 5 => Before(p, 6) = (Before(p, 5) \cup p.script[5].get) \ p.script[5].put
  BY <1>2
<1> QED BY <1>1, <1>3, <1>4, <1>5, <1>6, <1>7

\* What the constructors of calls make.
IsCall(c, get, undo, put, fails, final, static) ==
    /\ c.get = get /\ c.undo = undo /\ c.put = put
    /\ c.fails = fails /\ c.final = final /\ c.buf = static

LEMMA Calls ==
    /\ IsCall(Sys, {}, {}, {}, {"loud"}, FALSE, "none")
    /\ IsCall(Ignored(Sys), {}, {}, {}, {"quiet"}, FALSE, "none")
    /\ IsCall([Sys EXCEPT !.fails = {"loud", "quiet"}], {}, {}, {}, {"loud", "quiet"}, FALSE, "none")
    /\ \A r : /\ IsCall(Get(r), r, {}, {}, {"loud"}, FALSE, "none")
              /\ IsCall(Undo(r), {}, r, {}, {"loud"}, FALSE, "none")
              /\ IsCall(Put(r), {}, {}, r, {"loud"}, FALSE, "none")
              /\ IsCall(Always(Get(r)), r, {}, {}, {}, FALSE, "none")
              /\ IsCall(Always(Put(r)), {}, {}, r, {}, FALSE, "none")
<1>1. /\ IsCall(Sys, {}, {}, {}, {"loud"}, FALSE, "none")
      /\ IsCall(Ignored(Sys), {}, {}, {}, {"quiet"}, FALSE, "none")
      /\ IsCall([Sys EXCEPT !.fails = {"loud", "quiet"}], {}, {}, {}, {"loud", "quiet"}, FALSE, "none")
  BY DEF Sys, Ignored, IsCall
<1>2. ASSUME NEW r
      PROVE  /\ IsCall(Get(r), r, {}, {}, {"loud"}, FALSE, "none")
             /\ IsCall(Undo(r), {}, r, {}, {"loud"}, FALSE, "none")
             /\ IsCall(Put(r), {}, {}, r, {"loud"}, FALSE, "none")
  BY DEF Sys, Get, Undo, Put, IsCall
<1>3. ASSUME NEW r
      PROVE  /\ IsCall(Always(Get(r)), r, {}, {}, {}, FALSE, "none")
             /\ IsCall(Always(Put(r)), {}, {}, r, {}, FALSE, "none")
  BY DEF Sys, Get, Put, Always, IsCall
<1> QED BY <1>1, <1>2, <1>3

\* A call that neither acquires nor releases anything.
Neutral(c) == /\ c.get = {} /\ c.undo = {} /\ c.put = {}
              /\ "code" \notin c.fails /\ c.buf = "none"

\* A program of such calls is balanced.
LEMMA NeutralProgram ==
    ASSUME NEW p, Len(p.script) \in Nat, Len(p.script) > 0,
           DOMAIN p.script = 1..Len(p.script), p.keeps = {}, p.gives = {},
           \A k \in 1..Len(p.script) : Neutral(p.script[k])
    PROVE  Balanced(p)
<1>2. ASSUME NEW k \in 1..(Len(p.script) + 1) PROVE Before(p, k) = {}
  <2>1. \A i \in 1..(k - 1) : i \in 1..Len(p.script)
    OBVIOUS
  <2> QED BY <2>1 DEF Before, Neutral
<1>3. ASSUME NEW k \in 1..Len(p.script) PROVE BalancedCall(p, k)
  <2>1. Before(p, k) = {} /\ Before(p, k + 1) = {}
    BY <1>2
  <2>2. Left(p, k) = {}
    BY <2>1 DEF Left
  <2> QED BY <2>1, <2>2 DEF BalancedCall, Neutral
<1> QED BY <1>3 DEF Balanced

\* A program of one call that acquires what the job gives.
LEMMA AcquiringProgram ==
    ASSUME NEW p, Len(p.script) = 1, DOMAIN p.script = 1..Len(p.script),
           p.script[1].get = p.gives, p.script[1].undo = {}, p.script[1].put = {},
           p.script[1].buf = "none", "quiet" \notin p.script[1].fails,
           p.keeps \subseteq p.gives, p.args \cap p.gives = {},
           p.cancel = "detached" => p.keeps = p.gives
    PROVE  Balanced(p)
<1>1. Before(p, 1) = {}
  BY BeforeFirst
<1>2. Before(p, 1 + 1) = p.gives
  <2>1. 1 \in 1..Len(p.script) /\ Len(p.script) \in Nat
    OBVIOUS
  <2>2. Before(p, 1 + 1) = (Before(p, 1) \cup p.script[1].get) \ p.script[1].put
    BY <2>1, BeforeNext
  <2> QED BY <1>1, <2>2
<1>3. BalancedCall(p, 1)
  <2>1. Left(p, 1) = {}
    BY <1>1 DEF Left
  <2> QED BY <1>1, <1>2, <2>1 DEF BalancedCall
<1>4. \A k \in 1..Len(p.script) : k = 1
  OBVIOUS
<1> QED BY <1>3, <1>4 DEF Balanced

-----------------------------------------------------------------------------
(* The programs. *)

IsProgram(p, args, script, keeps, gives, cancel) ==
    /\ p.args = args /\ p.script = script /\ p.keeps = keeps
    /\ p.gives = gives /\ p.cancel = cancel

LEMMA ProgramsMade ==
    ASSUME NEW name, NEW args, NEW script, NEW r
    PROVE  /\ Program(name, args, script).name = name
           /\ IsProgram(Program(name, args, script), args, script, {}, {}, "shielded")
           /\ IsProgram(Cancellable(Program(name, args, script)), args, script, {}, {},
                        "cancellable")
           /\ IsProgram(Giving(Program(name, args, script), r), args, script, {}, r, "shielded")
           /\ IsProgram(Cancellable(Giving(Program(name, args, script), r)),
                        args, script, {}, r, "cancellable")
<1>1. Program(name, args, script).name = name
  BY DEF Program
<1>2. IsProgram(Program(name, args, script), args, script, {}, {}, "shielded")
  BY DEF Program, IsProgram
<1>3. IsProgram(Cancellable(Program(name, args, script)), args, script, {}, {}, "cancellable")
  BY DEF Program, Cancellable, IsProgram
<1>4. IsProgram(Giving(Program(name, args, script), r), args, script, {}, r, "shielded")
  BY DEF Program, Giving, IsProgram
<1>5. IsProgram(Cancellable(Giving(Program(name, args, script), r)), args, script, {}, r,
                "cancellable")
  BY DEF Program, Giving, Cancellable, IsProgram
<1> QED BY <1>1, <1>2, <1>3, <1>4, <1>5

LEMMA NeutralJobs ==
    /\ \A os \in {"unix", "windows"} :
         /\ Balanced(sleep_job(os)) /\ Balanced(read_job(os)) /\ Balanced(write_job(os))
         /\ Balanced(kind_of_fd_job(os)) /\ Balanced(file_size_job(os))
         /\ Balanced(file_time_job(os)) /\ Balanced(chmod_job(os)) /\ Balanced(fsync_job(os))
         /\ Balanced(remove_job(os)) /\ Balanced(mkdir_job(os)) /\ Balanced(rmdir_job(os))
         /\ Balanced(bind_job(os)) /\ Balanced(symlink_job(os)) /\ Balanced(readdir_job(os))
    /\ Balanced(file_kind_by_path_job("unix")) /\ Balanced(file_time_by_path_job("unix"))
    /\ Balanced(access_job("unix")) /\ Balanced(rename_job("unix"))
    /\ Balanced(wait_for_process_job_windows)
<1>1. \A c \in {Sys, Ignored(Sys), [Sys EXCEPT !.fails = {"loud", "quiet"}]} : Neutral(c)
  <2>1. ASSUME NEW c, NEW fails, IsCall(c, {}, {}, {}, fails, FALSE, "none"), "code" \notin fails
        PROVE  Neutral(c)
    BY <2>1 DEF IsCall, Neutral
  <2> QED BY <2>1, Calls
<1>2. ASSUME NEW p, NEW args, NEW c, NEW script, NEW cancel,
             script \in {<<c>>, <<c, Sys>>}, Neutral(c),
             IsProgram(p, args, script, {}, {}, cancel)
      PROVE  Balanced(p)
  <2>1. Neutral(Sys)
    BY <1>1
  <2>2. CASE script = <<c>>
    <3>1. Len(script) = 1 /\ DOMAIN script = 1..Len(script) /\ script[1] = c
      BY <2>2
    <3>2. \A k \in 1..Len(script) : Neutral(script[k])
      BY <1>2, <3>1
    <3>3. /\ p.keeps = {} /\ p.gives = {} /\ Len(p.script) \in Nat /\ Len(p.script) > 0
          /\ DOMAIN p.script = 1..Len(p.script)
          /\ \A k \in 1..Len(p.script) : Neutral(p.script[k])
      BY <1>2, <3>1, <3>2 DEF IsProgram
    <3> QED BY <3>3, NeutralProgram
  <2>3. CASE script = <<c, Sys>>
    <3>1. /\ Len(script) = 2 /\ DOMAIN script = 1..Len(script)
          /\ script[1] = c /\ script[2] = Sys
      BY <2>3
    <3>2. \A k \in 1..Len(script) : k = 1 \/ k = 2
      BY <3>1
    <3>3. \A k \in 1..Len(script) : Neutral(script[k])
      BY <1>2, <2>1, <3>1, <3>2
    <3>4. /\ p.keeps = {} /\ p.gives = {} /\ Len(p.script) \in Nat /\ Len(p.script) > 0
          /\ DOMAIN p.script = 1..Len(p.script)
          /\ \A k \in 1..Len(p.script) : Neutral(p.script[k])
      BY <1>2, <3>1, <3>3 DEF IsProgram
    <3> QED BY <3>4, NeutralProgram
  <2> QED BY <1>2, <2>2, <2>3
<1>3. ASSUME NEW name, NEW args,
             NEW c \in {Sys, Ignored(Sys), [Sys EXCEPT !.fails = {"loud", "quiet"}]},
             NEW script \in {<<c>>, <<c, Sys>>}
      PROVE  /\ Balanced(Program(name, args, script))
             /\ Balanced(Cancellable(Program(name, args, script)))
  <2>1. Neutral(c)
    BY <1>1
  <2>2. Balanced(Program(name, args, script))
    BY <1>2, <2>1, ProgramsMade
  <2>3. Balanced(Cancellable(Program(name, args, script)))
    BY <1>2, <2>1, ProgramsMade
  <2> QED BY <2>2, <2>3
<1>4. Balanced(wait_for_process_job_windows)
  <2>1. IsProgram(wait_for_process_job_windows, {"cancel"}, <<Sys>>, {}, {}, "interrupted")
    BY DEF wait_for_process_job_windows, Program, IsProgram
  <2> QED BY <1>1, <1>2, <2>1
<1>5. \A name, args : /\ Balanced(Program(name, args, <<Sys>>))
                      /\ Balanced(Cancellable(Program(name, args, <<Sys>>)))
                      /\ Balanced(Program(name, args, <<Sys, Sys>>))
                      /\ Balanced(Program(name, args, <<Ignored(Sys)>>))
                      /\ Balanced(Program(name, args,
                                          <<[Sys EXCEPT !.fails = {"loud", "quiet"}]>>))
  BY <1>3
<1>6. ASSUME NEW os \in {"unix", "windows"}
      PROVE  /\ Balanced(sleep_job(os)) /\ Balanced(read_job(os)) /\ Balanced(write_job(os))
             /\ Balanced(kind_of_fd_job(os)) /\ Balanced(file_size_job(os))
             /\ Balanced(file_time_job(os)) /\ Balanced(chmod_job(os))
             /\ Balanced(fsync_job(os)) /\ Balanced(remove_job(os)) /\ Balanced(mkdir_job(os))
             /\ Balanced(rmdir_job(os)) /\ Balanced(bind_job(os))
  BY <1>5, Zenon DEF sleep_job, read_job, write_job, kind_of_fd_job, file_size_job,
                     file_time_job, chmod_job, fsync_job, remove_job, mkdir_job, rmdir_job,
                     bind_job
<1>7. ASSUME NEW os \in {"unix", "windows"}
      PROVE  Balanced(symlink_job(os)) /\ Balanced(readdir_job(os))
  <2>1. CASE os = "windows"
    <3>1. /\ symlink_job(os) = Program("symlink", {"target", "path"}, <<Sys, Sys>>)
          /\ readdir_job(os) = Program("readdir", {"out"},
                                       <<[Sys EXCEPT !.fails = {"loud", "quiet"}]>>)
      BY <2>1 DEF symlink_job, readdir_job
    <3> QED BY <1>5, <3>1
  <2>2. CASE os = "unix"
    <3>1. /\ symlink_job(os) = Program("symlink", {"target", "path"}, <<Sys>>)
          /\ readdir_job(os) = Program("readdir", {"out"}, <<Sys, Sys>>)
      BY <2>2 DEF symlink_job, readdir_job
    <3> QED BY <1>5, <3>1
  <2> QED BY <2>1, <2>2
<1>8. /\ Balanced(file_kind_by_path_job("unix")) /\ Balanced(file_time_by_path_job("unix"))
      /\ Balanced(access_job("unix")) /\ Balanced(rename_job("unix"))
  <2>1. /\ file_kind_by_path_job("unix") = Program("file_kind_by_path", {"path"}, <<Sys>>)
        /\ file_time_by_path_job("unix") = Program("file_time_by_path", {"path", "out"}, <<Sys>>)
        /\ access_job("unix") = Program("access", {"path"}, <<Sys>>)
        /\ rename_job("unix") = Program("rename", {"old_path", "new_path"}, <<Sys>>)
    BY DEF file_kind_by_path_job, file_time_by_path_job, access_job, rename_job, ByPath
  <2> QED BY <1>5, <2>1
<1> QED BY <1>4, <1>6, <1>7, <1>8

\* A successful call is the whole job.
LEMMA AcquiringJobs ==
    /\ \A os \in {"unix", "windows"} : Balanced(flock_job(os)) /\ Balanced(getaddrinfo_job(os))
    /\ Balanced(realpath_job("unix", FALSE))
    /\ Balanced(wait_for_process_job_unix) /\ Balanced(inotify_add_watch_job)
<1>1. ASSUME NEW p, NEW name, NEW args, NEW r, NEW cancel, args \cap r = {}, cancel # "detached",
             IsProgram(p, args, <<Get(r)>>, {}, r, cancel)
      PROVE  Balanced(p)
  <2>1. IsCall(Get(r), r, {}, {}, {"loud"}, FALSE, "none")
    BY Calls
  <2>2. PICK c : c = Get(r)
    OBVIOUS
  <2>3. Len(p.script) = 1 /\ DOMAIN p.script = 1..Len(p.script) /\ p.script[1] = c
    BY <1>1, <2>2 DEF IsProgram
  <2>4. /\ p.script[1].get = p.gives /\ p.script[1].undo = {} /\ p.script[1].put = {}
        /\ p.script[1].buf = "none" /\ "quiet" \notin p.script[1].fails
    BY <1>1, <2>1, <2>2, <2>3 DEF IsProgram, IsCall
  <2>5. /\ p.keeps \subseteq p.gives /\ p.args \cap p.gives = {}
        /\ p.cancel = "detached" => p.keeps = p.gives
    BY <1>1 DEF IsProgram
  <2> QED BY <2>3, <2>4, <2>5, AcquiringProgram
<1>2. ASSUME NEW os \in {"unix", "windows"} PROVE Balanced(getaddrinfo_job(os))
  <2>1. PICK c : c = [Get({"addrinfo"}) EXCEPT !.fails = {"loud", "code"}]
    OBVIOUS
  <2>2. IsCall(c, {"addrinfo"}, {}, {}, {"loud", "code"}, FALSE, "none")
    BY <2>1 DEF Get, Sys, IsCall
  <2>3. PICK p : p = getaddrinfo_job(os)
    OBVIOUS
  <2>4. IsProgram(p, {"hostname"}, <<c>>, {"addrinfo"}, {"addrinfo"}, "detached")
    BY <2>1, <2>3 DEF getaddrinfo_job, Giving, Program, IsProgram
  <2>5. Len(p.script) = 1 /\ DOMAIN p.script = 1..Len(p.script) /\ p.script[1] = c
    BY <2>4 DEF IsProgram
  <2>6. /\ p.script[1].get = p.gives /\ p.script[1].undo = {} /\ p.script[1].put = {}
        /\ p.script[1].buf = "none" /\ "quiet" \notin p.script[1].fails
    BY <2>2, <2>4, <2>5 DEF IsProgram, IsCall
  <2>7. p.keeps = p.gives /\ p.args \cap p.gives = {}
    BY <2>4 DEF IsProgram
  <2>8. Balanced(p)
    BY <2>5, <2>6, <2>7, AcquiringProgram
  <2> QED BY <2>3, <2>8
<1>3. ASSUME NEW os \in {"unix", "windows"} PROVE Balanced(flock_job(os))
  <2>1. IsProgram(flock_job(os), {}, <<Get({"lock"})>>, {}, {"lock"}, "cancellable")
    BY ProgramsMade DEF flock_job
  <2> QED BY <1>1, <2>1
<1>4. Balanced(realpath_job("unix", FALSE))
  <2>1. PICK p : p = Giving(Program("realpath", {"path"}, <<Get({"string"})>>), {"string"})
    OBVIOUS
  <2>2. IsProgram(p, {"path"}, <<Get({"string"})>>, {}, {"string"}, "shielded")
    BY <2>1, ProgramsMade
  <2>3. Balanced(p)
    BY <1>1, <2>2
  <2> QED BY <2>1, <2>3 DEF realpath_job
<1>5. Balanced(wait_for_process_job_unix)
  <2>1. IsProgram(wait_for_process_job_unix, {}, <<Get({"status"})>>, {}, {"status"},
                  "cancellable")
    BY ProgramsMade DEF wait_for_process_job_unix
  <2> QED BY <1>1, <2>1
<1>6. Balanced(inotify_add_watch_job)
  <2>1. IsProgram(inotify_add_watch_job, {"path"}, <<Get({"watch"})>>, {}, {"watch"}, "shielded")
    BY ProgramsMade DEF inotify_add_watch_job
  <2> QED BY <1>1, <2>1
<1> QED BY <1>2, <1>3, <1>4, <1>5, <1>6

\* What is held before each call of the scripts of several calls, and left when
\* it fails.
LEMMA Tuples ==
    ASSUME NEW a, NEW b, NEW c, NEW d, NEW e
    PROVE  /\ <<a, b>>[1] = a /\ <<a, b>>[2] = b /\ Len(<<a, b>>) = 2
           /\ DOMAIN <<a, b>> = 1..Len(<<a, b>>)
           /\ <<a, b, c>>[1] = a /\ <<a, b, c>>[2] = b /\ <<a, b, c>>[3] = c
           /\ Len(<<a, b, c>>) = 3
           /\ DOMAIN <<a, b, c>> = 1..Len(<<a, b, c>>)
           /\ <<a, b, c, d>>[1] = a /\ <<a, b, c, d>>[2] = b /\ <<a, b, c, d>>[3] = c
           /\ <<a, b, c, d>>[4] = d /\ Len(<<a, b, c, d>>) = 4
           /\ DOMAIN <<a, b, c, d>> = 1..Len(<<a, b, c, d>>)
           /\ <<a, b, c, d, e>>[1] = a /\ <<a, b, c, d, e>>[2] = b
           /\ <<a, b, c, d, e>>[3] = c /\ <<a, b, c, d, e>>[4] = d
           /\ <<a, b, c, d, e>>[5] = e /\ Len(<<a, b, c, d, e>>) = 5
           /\ DOMAIN <<a, b, c, d, e>> = 1..Len(<<a, b, c, d, e>>)
OBVIOUS

LEMMA OpenJob ==
    ASSUME NEW os
    PROVE  Balanced(open_job(os))
<1>1. PICK p, c1, c2 :
        /\ p = open_job(os) /\ c1 = Get({"fd"}) /\ c2 = Undo({"fd"})
  OBVIOUS
<1>2. IsProgram(p, {"filename"}, <<c1, c2>>, {}, {"fd"}, "cancellable")
  BY <1>1 DEF open_job, Cancellable, Giving, Program, IsProgram
<1>3. /\ Len(p.script) = 2 /\ DOMAIN p.script = 1..Len(p.script) /\ p.script[1] = c1
      /\ p.script[2] = c2
  BY <1>2, Tuples DEF IsProgram
<1>4. /\ IsCall(c1, {"fd"}, {}, {}, {"loud"}, FALSE, "none")
      /\ IsCall(c2, {}, {"fd"}, {}, {"loud"}, FALSE, "none")
  BY <1>1 DEF IsCall, Sys, Get, Undo, Put, Always
<1>5. /\ Before(p, 1) = {} /\ Before(p, 2) = {"fd"} /\ Before(p, 3) = {"fd"}
  <2>1. Before(p, 1) = {} /\ Before(p, 2) = {"fd"}
    BY <1>3, <1>4, BeforeCalls, SMTT(60) DEF IsCall
  <2>2. Before(p, 3) = {"fd"}
    BY <1>3, <1>4, <2>1, BeforeCalls, SMTT(60) DEF IsCall
  <2> QED BY <2>1, <2>2
<1>6. /\ Left(p, 1) = {} /\ Left(p, 2) = {}
  BY <1>3, <1>4, <1>5 DEF IsCall, Left
<1>7. BalancedCall(p, 1)
  <2>1. /\ p.script[1].get \cap Before(p, 1) = {} /\ p.script[1].get \cap p.args = {}
        /\ p.script[1].put \subseteq Before(p, 1) /\ p.script[1].undo \subseteq Before(p, 1)
    BY <1>2, <1>3, <1>4, <1>5, <1>6 DEF IsProgram, IsCall
  <2>2. p.script[1].final \/ 1 = Len(p.script) => Before(p, 1 + 1) = p.gives
    BY <1>2, <1>3, <1>4, <1>5, <1>6 DEF IsProgram, IsCall
  <2>3. "loud" \in p.script[1].fails => Left(p, 1) = {} \/ p.name = "spawn assign"
    BY <1>2, <1>3, <1>4, <1>5, <1>6 DEF IsProgram, IsCall
  <2>4. "quiet" \in p.script[1].fails =>
          Left(p, 1) = Before(p, 1 + 1) /\ p.script[1].buf = "none"
    BY <1>2, <1>3, <1>4, <1>5, <1>6 DEF IsProgram, IsCall
  <2>5. "code" \in p.script[1].fails => 1 = Len(p.script) /\ Left(p, 1) = {}
    BY <1>2, <1>3, <1>4, <1>5, <1>6 DEF IsProgram, IsCall
  <2>6. p.script[1].buf = "read" => \E i \in 1..(1 - 1) : p.script[i].buf = "write"
    BY <1>2, <1>3, <1>4, <1>5, <1>6 DEF IsProgram, IsCall
  <2> QED BY <2>1, <2>2, <2>3, <2>4, <2>5, <2>6 DEF BalancedCall
<1>8. BalancedCall(p, 2)
  <2>1. /\ p.script[2].get \cap Before(p, 2) = {} /\ p.script[2].get \cap p.args = {}
        /\ p.script[2].put \subseteq Before(p, 2) /\ p.script[2].undo \subseteq Before(p, 2)
    BY <1>2, <1>3, <1>4, <1>5, <1>6 DEF IsProgram, IsCall
  <2>2. p.script[2].final \/ 2 = Len(p.script) => Before(p, 2 + 1) = p.gives
    BY <1>2, <1>3, <1>4, <1>5, <1>6 DEF IsProgram, IsCall
  <2>3. "loud" \in p.script[2].fails => Left(p, 2) = {} \/ p.name = "spawn assign"
    BY <1>2, <1>3, <1>4, <1>5, <1>6 DEF IsProgram, IsCall
  <2>4. "quiet" \in p.script[2].fails =>
          Left(p, 2) = Before(p, 2 + 1) /\ p.script[2].buf = "none"
    BY <1>2, <1>3, <1>4, <1>5, <1>6 DEF IsProgram, IsCall
  <2>5. "code" \in p.script[2].fails => 2 = Len(p.script) /\ Left(p, 2) = {}
    BY <1>2, <1>3, <1>4, <1>5, <1>6 DEF IsProgram, IsCall
  <2>6. p.script[2].buf = "read" => \E i \in 1..(2 - 1) : p.script[i].buf = "write"
    BY <1>2, <1>3, <1>4, <1>5, <1>6 DEF IsProgram, IsCall
  <2> QED BY <2>1, <2>2, <2>3, <2>4, <2>5, <2>6 DEF BalancedCall
<1>9. \A k \in 1..Len(p.script) : k = 1 \/ k = 2
  BY <1>3
<1>10. p.keeps \subseteq p.gives /\ p.args \cap p.gives = {} /\ p.cancel # "detached"
  BY <1>2 DEF IsProgram
<1>11. Balanced(p)
  BY <1>3, <1>7, <1>8, <1>9, <1>10 DEF Balanced
<1> QED BY <1>1, <1>11

LEMMA KindByPath == Balanced(file_kind_by_path_job("windows"))
<1>1. PICK p, c1, c2 :
        /\ p = file_kind_by_path_job("windows") /\ c1 = Get({"handle"})
        /\ c2 = Put({"handle"})
  OBVIOUS
<1>2. IsProgram(p, {"path"}, <<c1, c2>>, {}, {}, "shielded")
  BY <1>1 DEF file_kind_by_path_job, ByPath, Program, IsProgram
<1>3. /\ Len(p.script) = 2 /\ DOMAIN p.script = 1..Len(p.script) /\ p.script[1] = c1
      /\ p.script[2] = c2
  BY <1>2, Tuples DEF IsProgram
<1>4. /\ IsCall(c1, {"handle"}, {}, {}, {"loud"}, FALSE, "none")
      /\ IsCall(c2, {}, {}, {"handle"}, {"loud"}, FALSE, "none")
  BY <1>1 DEF IsCall, Sys, Get, Undo, Put, Always
<1>5. /\ Before(p, 1) = {} /\ Before(p, 2) = {"handle"} /\ Before(p, 3) = {}
  <2>1. Before(p, 1) = {} /\ Before(p, 2) = {"handle"}
    BY <1>3, <1>4, BeforeCalls, SMTT(60) DEF IsCall
  <2>2. Before(p, 3) = {}
    BY <1>3, <1>4, <2>1, BeforeCalls, SMTT(60) DEF IsCall
  <2> QED BY <2>1, <2>2
<1>6. /\ Left(p, 1) = {} /\ Left(p, 2) = {}
  BY <1>3, <1>4, <1>5 DEF IsCall, Left
<1>7. BalancedCall(p, 1)
  <2>1. /\ p.script[1].get \cap Before(p, 1) = {} /\ p.script[1].get \cap p.args = {}
        /\ p.script[1].put \subseteq Before(p, 1) /\ p.script[1].undo \subseteq Before(p, 1)
    BY <1>2, <1>3, <1>4, <1>5, <1>6 DEF IsProgram, IsCall
  <2>2. p.script[1].final \/ 1 = Len(p.script) => Before(p, 1 + 1) = p.gives
    BY <1>2, <1>3, <1>4, <1>5, <1>6 DEF IsProgram, IsCall
  <2>3. "loud" \in p.script[1].fails => Left(p, 1) = {} \/ p.name = "spawn assign"
    BY <1>2, <1>3, <1>4, <1>5, <1>6 DEF IsProgram, IsCall
  <2>4. "quiet" \in p.script[1].fails =>
          Left(p, 1) = Before(p, 1 + 1) /\ p.script[1].buf = "none"
    BY <1>2, <1>3, <1>4, <1>5, <1>6 DEF IsProgram, IsCall
  <2>5. "code" \in p.script[1].fails => 1 = Len(p.script) /\ Left(p, 1) = {}
    BY <1>2, <1>3, <1>4, <1>5, <1>6 DEF IsProgram, IsCall
  <2>6. p.script[1].buf = "read" => \E i \in 1..(1 - 1) : p.script[i].buf = "write"
    BY <1>2, <1>3, <1>4, <1>5, <1>6 DEF IsProgram, IsCall
  <2> QED BY <2>1, <2>2, <2>3, <2>4, <2>5, <2>6 DEF BalancedCall
<1>8. BalancedCall(p, 2)
  <2>1. /\ p.script[2].get \cap Before(p, 2) = {} /\ p.script[2].get \cap p.args = {}
        /\ p.script[2].put \subseteq Before(p, 2) /\ p.script[2].undo \subseteq Before(p, 2)
    BY <1>2, <1>3, <1>4, <1>5, <1>6 DEF IsProgram, IsCall
  <2>2. p.script[2].final \/ 2 = Len(p.script) => Before(p, 2 + 1) = p.gives
    BY <1>2, <1>3, <1>4, <1>5, <1>6 DEF IsProgram, IsCall
  <2>3. "loud" \in p.script[2].fails => Left(p, 2) = {} \/ p.name = "spawn assign"
    BY <1>2, <1>3, <1>4, <1>5, <1>6 DEF IsProgram, IsCall
  <2>4. "quiet" \in p.script[2].fails =>
          Left(p, 2) = Before(p, 2 + 1) /\ p.script[2].buf = "none"
    BY <1>2, <1>3, <1>4, <1>5, <1>6 DEF IsProgram, IsCall
  <2>5. "code" \in p.script[2].fails => 2 = Len(p.script) /\ Left(p, 2) = {}
    BY <1>2, <1>3, <1>4, <1>5, <1>6 DEF IsProgram, IsCall
  <2>6. p.script[2].buf = "read" => \E i \in 1..(2 - 1) : p.script[i].buf = "write"
    BY <1>2, <1>3, <1>4, <1>5, <1>6 DEF IsProgram, IsCall
  <2> QED BY <2>1, <2>2, <2>3, <2>4, <2>5, <2>6 DEF BalancedCall
<1>9. \A k \in 1..Len(p.script) : k = 1 \/ k = 2
  BY <1>3
<1>10. p.keeps \subseteq p.gives /\ p.args \cap p.gives = {} /\ p.cancel # "detached"
  BY <1>2 DEF IsProgram
<1>11. Balanced(p)
  BY <1>3, <1>7, <1>8, <1>9, <1>10 DEF Balanced
<1> QED BY <1>1, <1>11

LEMMA TimeByPath == Balanced(file_time_by_path_job("windows"))
<1>1. PICK p, c1, c2 :
        /\ p = file_time_by_path_job("windows") /\ c1 = Get({"handle"})
        /\ c2 = Put({"handle"})
  OBVIOUS
<1>2. IsProgram(p, {"path", "out"}, <<c1, c2>>, {}, {}, "shielded")
  BY <1>1 DEF file_time_by_path_job, ByPath, Program, IsProgram
<1>3. /\ Len(p.script) = 2 /\ DOMAIN p.script = 1..Len(p.script) /\ p.script[1] = c1
      /\ p.script[2] = c2
  BY <1>2, Tuples DEF IsProgram
<1>4. /\ IsCall(c1, {"handle"}, {}, {}, {"loud"}, FALSE, "none")
      /\ IsCall(c2, {}, {}, {"handle"}, {"loud"}, FALSE, "none")
  BY <1>1 DEF IsCall, Sys, Get, Undo, Put, Always
<1>5. /\ Before(p, 1) = {} /\ Before(p, 2) = {"handle"} /\ Before(p, 3) = {}
  <2>1. Before(p, 1) = {} /\ Before(p, 2) = {"handle"}
    BY <1>3, <1>4, BeforeCalls, SMTT(60) DEF IsCall
  <2>2. Before(p, 3) = {}
    BY <1>3, <1>4, <2>1, BeforeCalls, SMTT(60) DEF IsCall
  <2> QED BY <2>1, <2>2
<1>6. /\ Left(p, 1) = {} /\ Left(p, 2) = {}
  BY <1>3, <1>4, <1>5 DEF IsCall, Left
<1>7. BalancedCall(p, 1)
  <2>1. /\ p.script[1].get \cap Before(p, 1) = {} /\ p.script[1].get \cap p.args = {}
        /\ p.script[1].put \subseteq Before(p, 1) /\ p.script[1].undo \subseteq Before(p, 1)
    BY <1>2, <1>3, <1>4, <1>5, <1>6 DEF IsProgram, IsCall
  <2>2. p.script[1].final \/ 1 = Len(p.script) => Before(p, 1 + 1) = p.gives
    BY <1>2, <1>3, <1>4, <1>5, <1>6 DEF IsProgram, IsCall
  <2>3. "loud" \in p.script[1].fails => Left(p, 1) = {} \/ p.name = "spawn assign"
    BY <1>2, <1>3, <1>4, <1>5, <1>6 DEF IsProgram, IsCall
  <2>4. "quiet" \in p.script[1].fails =>
          Left(p, 1) = Before(p, 1 + 1) /\ p.script[1].buf = "none"
    BY <1>2, <1>3, <1>4, <1>5, <1>6 DEF IsProgram, IsCall
  <2>5. "code" \in p.script[1].fails => 1 = Len(p.script) /\ Left(p, 1) = {}
    BY <1>2, <1>3, <1>4, <1>5, <1>6 DEF IsProgram, IsCall
  <2>6. p.script[1].buf = "read" => \E i \in 1..(1 - 1) : p.script[i].buf = "write"
    BY <1>2, <1>3, <1>4, <1>5, <1>6 DEF IsProgram, IsCall
  <2> QED BY <2>1, <2>2, <2>3, <2>4, <2>5, <2>6 DEF BalancedCall
<1>8. BalancedCall(p, 2)
  <2>1. /\ p.script[2].get \cap Before(p, 2) = {} /\ p.script[2].get \cap p.args = {}
        /\ p.script[2].put \subseteq Before(p, 2) /\ p.script[2].undo \subseteq Before(p, 2)
    BY <1>2, <1>3, <1>4, <1>5, <1>6 DEF IsProgram, IsCall
  <2>2. p.script[2].final \/ 2 = Len(p.script) => Before(p, 2 + 1) = p.gives
    BY <1>2, <1>3, <1>4, <1>5, <1>6 DEF IsProgram, IsCall
  <2>3. "loud" \in p.script[2].fails => Left(p, 2) = {} \/ p.name = "spawn assign"
    BY <1>2, <1>3, <1>4, <1>5, <1>6 DEF IsProgram, IsCall
  <2>4. "quiet" \in p.script[2].fails =>
          Left(p, 2) = Before(p, 2 + 1) /\ p.script[2].buf = "none"
    BY <1>2, <1>3, <1>4, <1>5, <1>6 DEF IsProgram, IsCall
  <2>5. "code" \in p.script[2].fails => 2 = Len(p.script) /\ Left(p, 2) = {}
    BY <1>2, <1>3, <1>4, <1>5, <1>6 DEF IsProgram, IsCall
  <2>6. p.script[2].buf = "read" => \E i \in 1..(2 - 1) : p.script[i].buf = "write"
    BY <1>2, <1>3, <1>4, <1>5, <1>6 DEF IsProgram, IsCall
  <2> QED BY <2>1, <2>2, <2>3, <2>4, <2>5, <2>6 DEF BalancedCall
<1>9. \A k \in 1..Len(p.script) : k = 1 \/ k = 2
  BY <1>3
<1>10. p.keeps \subseteq p.gives /\ p.args \cap p.gives = {} /\ p.cancel # "detached"
  BY <1>2 DEF IsProgram
<1>11. Balanced(p)
  BY <1>3, <1>7, <1>8, <1>9, <1>10 DEF Balanced
<1> QED BY <1>1, <1>11

LEMMA AccessWindows == Balanced(access_job("windows"))
<1>1. PICK p, c1, c2 :
        /\ p = access_job("windows") /\ c1 = Get({"handle"})
        /\ c2 = Always(Put({"handle"}))
  OBVIOUS
<1>2. IsProgram(p, {"path"}, <<c1, c2>>, {}, {}, "shielded")
  BY <1>1 DEF access_job, Program, IsProgram
<1>3. /\ Len(p.script) = 2 /\ DOMAIN p.script = 1..Len(p.script) /\ p.script[1] = c1
      /\ p.script[2] = c2
  BY <1>2, Tuples DEF IsProgram
<1>4. /\ IsCall(c1, {"handle"}, {}, {}, {"loud"}, FALSE, "none")
      /\ IsCall(c2, {}, {}, {"handle"}, {}, FALSE, "none")
  BY <1>1 DEF IsCall, Sys, Get, Undo, Put, Always
<1>5. /\ Before(p, 1) = {} /\ Before(p, 2) = {"handle"} /\ Before(p, 3) = {}
  <2>1. Before(p, 1) = {} /\ Before(p, 2) = {"handle"}
    BY <1>3, <1>4, BeforeCalls, SMTT(60) DEF IsCall
  <2>2. Before(p, 3) = {}
    BY <1>3, <1>4, <2>1, BeforeCalls, SMTT(60) DEF IsCall
  <2> QED BY <2>1, <2>2
<1>6. /\ Left(p, 1) = {}
  BY <1>3, <1>4, <1>5 DEF IsCall, Left
<1>7. BalancedCall(p, 1)
  <2>1. /\ p.script[1].get \cap Before(p, 1) = {} /\ p.script[1].get \cap p.args = {}
        /\ p.script[1].put \subseteq Before(p, 1) /\ p.script[1].undo \subseteq Before(p, 1)
    BY <1>2, <1>3, <1>4, <1>5, <1>6 DEF IsProgram, IsCall
  <2>2. p.script[1].final \/ 1 = Len(p.script) => Before(p, 1 + 1) = p.gives
    BY <1>2, <1>3, <1>4, <1>5, <1>6 DEF IsProgram, IsCall
  <2>3. "loud" \in p.script[1].fails => Left(p, 1) = {} \/ p.name = "spawn assign"
    BY <1>2, <1>3, <1>4, <1>5, <1>6 DEF IsProgram, IsCall
  <2>4. "quiet" \in p.script[1].fails =>
          Left(p, 1) = Before(p, 1 + 1) /\ p.script[1].buf = "none"
    BY <1>2, <1>3, <1>4, <1>5, <1>6 DEF IsProgram, IsCall
  <2>5. "code" \in p.script[1].fails => 1 = Len(p.script) /\ Left(p, 1) = {}
    BY <1>2, <1>3, <1>4, <1>5, <1>6 DEF IsProgram, IsCall
  <2>6. p.script[1].buf = "read" => \E i \in 1..(1 - 1) : p.script[i].buf = "write"
    BY <1>2, <1>3, <1>4, <1>5, <1>6 DEF IsProgram, IsCall
  <2> QED BY <2>1, <2>2, <2>3, <2>4, <2>5, <2>6 DEF BalancedCall
<1>8. BalancedCall(p, 2)
  <2>1. /\ p.script[2].get \cap Before(p, 2) = {} /\ p.script[2].get \cap p.args = {}
        /\ p.script[2].put \subseteq Before(p, 2) /\ p.script[2].undo \subseteq Before(p, 2)
    BY <1>2, <1>3, <1>4, <1>5, <1>6 DEF IsProgram, IsCall
  <2>2. p.script[2].final \/ 2 = Len(p.script) => Before(p, 2 + 1) = p.gives
    BY <1>2, <1>3, <1>4, <1>5, <1>6 DEF IsProgram, IsCall
  <2>3. "loud" \in p.script[2].fails => Left(p, 2) = {} \/ p.name = "spawn assign"
    BY <1>2, <1>3, <1>4, <1>5, <1>6 DEF IsProgram, IsCall
  <2>4. "quiet" \in p.script[2].fails =>
          Left(p, 2) = Before(p, 2 + 1) /\ p.script[2].buf = "none"
    BY <1>2, <1>3, <1>4, <1>5, <1>6 DEF IsProgram, IsCall
  <2>5. "code" \in p.script[2].fails => 2 = Len(p.script) /\ Left(p, 2) = {}
    BY <1>2, <1>3, <1>4, <1>5, <1>6 DEF IsProgram, IsCall
  <2>6. p.script[2].buf = "read" => \E i \in 1..(2 - 1) : p.script[i].buf = "write"
    BY <1>2, <1>3, <1>4, <1>5, <1>6 DEF IsProgram, IsCall
  <2> QED BY <2>1, <2>2, <2>3, <2>4, <2>5, <2>6 DEF BalancedCall
<1>9. \A k \in 1..Len(p.script) : k = 1 \/ k = 2
  BY <1>3
<1>10. p.keeps \subseteq p.gives /\ p.args \cap p.gives = {} /\ p.cancel # "detached"
  BY <1>2 DEF IsProgram
<1>11. Balanced(p)
  BY <1>3, <1>7, <1>8, <1>9, <1>10 DEF Balanced
<1> QED BY <1>1, <1>11

LEMMA RenameWindows == Balanced(rename_job("windows"))
<1>1. PICK p, c1, c2, c3 :
        /\ p = rename_job("windows") /\ c1 = Get({"handle", "info"})
        /\ c2 = [Put({"handle", "info"}) EXCEPT !.fails = {"loud", "quiet"}, !.final = TRUE]
        /\ c3 = Sys
  OBVIOUS
<1>2. IsProgram(p, {"old_path", "new_path"}, <<c1, c2, c3>>, {}, {}, "shielded")
  BY <1>1 DEF rename_job, Program, IsProgram
<1>3. /\ Len(p.script) = 3 /\ DOMAIN p.script = 1..Len(p.script) /\ p.script[1] = c1
      /\ p.script[2] = c2 /\ p.script[3] = c3
  BY <1>2, Tuples DEF IsProgram
<1>4. /\ IsCall(c1, {"handle", "info"}, {}, {}, {"loud"}, FALSE, "none")
      /\ IsCall(c2, {}, {}, {"handle", "info"}, {"loud", "quiet"}, TRUE, "none")
      /\ IsCall(c3, {}, {}, {}, {"loud"}, FALSE, "none")
  BY <1>1 DEF IsCall, Sys, Get, Undo, Put, Always
<1>5. /\ Before(p, 1) = {} /\ Before(p, 2) = {"handle", "info"} /\ Before(p, 3) = {}
      /\ Before(p, 4) = {}
  <2>1. Before(p, 1) = {} /\ Before(p, 2) = {"handle", "info"}
    BY <1>3, <1>4, BeforeCalls, SMTT(60) DEF IsCall
  <2>2. Before(p, 3) = {}
    BY <1>3, <1>4, <2>1, BeforeCalls, SMTT(60) DEF IsCall
  <2>3. Before(p, 4) = {}
    BY <1>3, <1>4, <2>2, BeforeCalls, SMTT(60) DEF IsCall
  <2> QED BY <2>1, <2>2, <2>3
<1>6. /\ Left(p, 1) = {} /\ Left(p, 2) = {} /\ Left(p, 3) = {}
  BY <1>3, <1>4, <1>5 DEF IsCall, Left
<1>7. BalancedCall(p, 1)
  <2>1. /\ p.script[1].get \cap Before(p, 1) = {} /\ p.script[1].get \cap p.args = {}
        /\ p.script[1].put \subseteq Before(p, 1) /\ p.script[1].undo \subseteq Before(p, 1)
    BY <1>2, <1>3, <1>4, <1>5, <1>6 DEF IsProgram, IsCall
  <2>2. p.script[1].final \/ 1 = Len(p.script) => Before(p, 1 + 1) = p.gives
    BY <1>2, <1>3, <1>4, <1>5, <1>6 DEF IsProgram, IsCall
  <2>3. "loud" \in p.script[1].fails => Left(p, 1) = {} \/ p.name = "spawn assign"
    BY <1>2, <1>3, <1>4, <1>5, <1>6 DEF IsProgram, IsCall
  <2>4. "quiet" \in p.script[1].fails =>
          Left(p, 1) = Before(p, 1 + 1) /\ p.script[1].buf = "none"
    BY <1>2, <1>3, <1>4, <1>5, <1>6 DEF IsProgram, IsCall
  <2>5. "code" \in p.script[1].fails => 1 = Len(p.script) /\ Left(p, 1) = {}
    BY <1>2, <1>3, <1>4, <1>5, <1>6 DEF IsProgram, IsCall
  <2>6. p.script[1].buf = "read" => \E i \in 1..(1 - 1) : p.script[i].buf = "write"
    BY <1>2, <1>3, <1>4, <1>5, <1>6 DEF IsProgram, IsCall
  <2> QED BY <2>1, <2>2, <2>3, <2>4, <2>5, <2>6 DEF BalancedCall
<1>8. BalancedCall(p, 2)
  <2>1. /\ p.script[2].get \cap Before(p, 2) = {} /\ p.script[2].get \cap p.args = {}
        /\ p.script[2].put \subseteq Before(p, 2) /\ p.script[2].undo \subseteq Before(p, 2)
    BY <1>2, <1>3, <1>4, <1>5, <1>6 DEF IsProgram, IsCall
  <2>2. p.script[2].final \/ 2 = Len(p.script) => Before(p, 2 + 1) = p.gives
    BY <1>2, <1>3, <1>4, <1>5, <1>6 DEF IsProgram, IsCall
  <2>3. "loud" \in p.script[2].fails => Left(p, 2) = {} \/ p.name = "spawn assign"
    BY <1>2, <1>3, <1>4, <1>5, <1>6 DEF IsProgram, IsCall
  <2>4. "quiet" \in p.script[2].fails =>
          Left(p, 2) = Before(p, 2 + 1) /\ p.script[2].buf = "none"
    BY <1>2, <1>3, <1>4, <1>5, <1>6 DEF IsProgram, IsCall
  <2>5. "code" \in p.script[2].fails => 2 = Len(p.script) /\ Left(p, 2) = {}
    BY <1>2, <1>3, <1>4, <1>5, <1>6 DEF IsProgram, IsCall
  <2>6. p.script[2].buf = "read" => \E i \in 1..(2 - 1) : p.script[i].buf = "write"
    BY <1>2, <1>3, <1>4, <1>5, <1>6 DEF IsProgram, IsCall
  <2> QED BY <2>1, <2>2, <2>3, <2>4, <2>5, <2>6 DEF BalancedCall
<1>9. BalancedCall(p, 3)
  <2>1. /\ p.script[3].get \cap Before(p, 3) = {} /\ p.script[3].get \cap p.args = {}
        /\ p.script[3].put \subseteq Before(p, 3) /\ p.script[3].undo \subseteq Before(p, 3)
    BY <1>2, <1>3, <1>4, <1>5, <1>6 DEF IsProgram, IsCall
  <2>2. p.script[3].final \/ 3 = Len(p.script) => Before(p, 3 + 1) = p.gives
    BY <1>2, <1>3, <1>4, <1>5, <1>6 DEF IsProgram, IsCall
  <2>3. "loud" \in p.script[3].fails => Left(p, 3) = {} \/ p.name = "spawn assign"
    BY <1>2, <1>3, <1>4, <1>5, <1>6 DEF IsProgram, IsCall
  <2>4. "quiet" \in p.script[3].fails =>
          Left(p, 3) = Before(p, 3 + 1) /\ p.script[3].buf = "none"
    BY <1>2, <1>3, <1>4, <1>5, <1>6 DEF IsProgram, IsCall
  <2>5. "code" \in p.script[3].fails => 3 = Len(p.script) /\ Left(p, 3) = {}
    BY <1>2, <1>3, <1>4, <1>5, <1>6 DEF IsProgram, IsCall
  <2>6. p.script[3].buf = "read" => \E i \in 1..(3 - 1) : p.script[i].buf = "write"
    BY <1>2, <1>3, <1>4, <1>5, <1>6 DEF IsProgram, IsCall
  <2> QED BY <2>1, <2>2, <2>3, <2>4, <2>5, <2>6 DEF BalancedCall
<1>10. \A k \in 1..Len(p.script) : k = 1 \/ k = 2 \/ k = 3
  BY <1>3
<1>11. p.keeps \subseteq p.gives /\ p.args \cap p.gives = {} /\ p.cancel # "detached"
  BY <1>2 DEF IsProgram
<1>12. Balanced(p)
  BY <1>3, <1>7, <1>8, <1>9, <1>10, <1>11 DEF Balanced
<1> QED BY <1>1, <1>12

LEMMA RealpathLong == Balanced(realpath_job("windows", TRUE))
<1>1. PICK p, c1, c2, c3 :
        /\ p = realpath_job("windows", TRUE) /\ c1 = [Sys EXCEPT !.buf = "write"]
        /\ c2 = Always(Get({"string"})) /\ c3 = Undo({"string"})
  OBVIOUS
<1>2. IsProgram(p, {"path"}, <<c1, c2, c3>>, {}, {"string"}, "shielded")
  BY <1>1 DEF realpath_job, Giving, Program, IsProgram
<1>3. /\ Len(p.script) = 3 /\ DOMAIN p.script = 1..Len(p.script) /\ p.script[1] = c1
      /\ p.script[2] = c2 /\ p.script[3] = c3
  BY <1>2, Tuples DEF IsProgram
<1>4. /\ IsCall(c1, {}, {}, {}, {"loud"}, FALSE, "write")
      /\ IsCall(c2, {"string"}, {}, {}, {}, FALSE, "none")
      /\ IsCall(c3, {}, {"string"}, {}, {"loud"}, FALSE, "none")
  BY <1>1 DEF IsCall, Sys, Get, Undo, Put, Always
<1>5. /\ Before(p, 1) = {} /\ Before(p, 2) = {} /\ Before(p, 3) = {"string"}
      /\ Before(p, 4) = {"string"}
  <2>1. Before(p, 1) = {} /\ Before(p, 2) = {}
    BY <1>3, <1>4, BeforeCalls, SMTT(60) DEF IsCall
  <2>2. Before(p, 3) = {"string"}
    BY <1>3, <1>4, <2>1, BeforeCalls, SMTT(60) DEF IsCall
  <2>3. Before(p, 4) = {"string"}
    BY <1>3, <1>4, <2>2, BeforeCalls, SMTT(60) DEF IsCall
  <2> QED BY <2>1, <2>2, <2>3
<1>6. /\ Left(p, 1) = {} /\ Left(p, 3) = {}
  BY <1>3, <1>4, <1>5 DEF IsCall, Left
<1>7. BalancedCall(p, 1)
  <2>1. /\ p.script[1].get \cap Before(p, 1) = {} /\ p.script[1].get \cap p.args = {}
        /\ p.script[1].put \subseteq Before(p, 1) /\ p.script[1].undo \subseteq Before(p, 1)
    BY <1>2, <1>3, <1>4, <1>5, <1>6 DEF IsProgram, IsCall
  <2>2. p.script[1].final \/ 1 = Len(p.script) => Before(p, 1 + 1) = p.gives
    BY <1>2, <1>3, <1>4, <1>5, <1>6 DEF IsProgram, IsCall
  <2>3. "loud" \in p.script[1].fails => Left(p, 1) = {} \/ p.name = "spawn assign"
    BY <1>2, <1>3, <1>4, <1>5, <1>6 DEF IsProgram, IsCall
  <2>4. "quiet" \in p.script[1].fails =>
          Left(p, 1) = Before(p, 1 + 1) /\ p.script[1].buf = "none"
    BY <1>2, <1>3, <1>4, <1>5, <1>6 DEF IsProgram, IsCall
  <2>5. "code" \in p.script[1].fails => 1 = Len(p.script) /\ Left(p, 1) = {}
    BY <1>2, <1>3, <1>4, <1>5, <1>6 DEF IsProgram, IsCall
  <2>6. p.script[1].buf = "read" => \E i \in 1..(1 - 1) : p.script[i].buf = "write"
    BY <1>2, <1>3, <1>4, <1>5, <1>6 DEF IsProgram, IsCall
  <2> QED BY <2>1, <2>2, <2>3, <2>4, <2>5, <2>6 DEF BalancedCall
<1>8. BalancedCall(p, 2)
  <2>1. /\ p.script[2].get \cap Before(p, 2) = {} /\ p.script[2].get \cap p.args = {}
        /\ p.script[2].put \subseteq Before(p, 2) /\ p.script[2].undo \subseteq Before(p, 2)
    BY <1>2, <1>3, <1>4, <1>5, <1>6 DEF IsProgram, IsCall
  <2>2. p.script[2].final \/ 2 = Len(p.script) => Before(p, 2 + 1) = p.gives
    BY <1>2, <1>3, <1>4, <1>5, <1>6 DEF IsProgram, IsCall
  <2>3. "loud" \in p.script[2].fails => Left(p, 2) = {} \/ p.name = "spawn assign"
    BY <1>2, <1>3, <1>4, <1>5, <1>6 DEF IsProgram, IsCall
  <2>4. "quiet" \in p.script[2].fails =>
          Left(p, 2) = Before(p, 2 + 1) /\ p.script[2].buf = "none"
    BY <1>2, <1>3, <1>4, <1>5, <1>6 DEF IsProgram, IsCall
  <2>5. "code" \in p.script[2].fails => 2 = Len(p.script) /\ Left(p, 2) = {}
    BY <1>2, <1>3, <1>4, <1>5, <1>6 DEF IsProgram, IsCall
  <2>6. p.script[2].buf = "read" => \E i \in 1..(2 - 1) : p.script[i].buf = "write"
    BY <1>2, <1>3, <1>4, <1>5, <1>6 DEF IsProgram, IsCall
  <2> QED BY <2>1, <2>2, <2>3, <2>4, <2>5, <2>6 DEF BalancedCall
<1>9. BalancedCall(p, 3)
  <2>1. /\ p.script[3].get \cap Before(p, 3) = {} /\ p.script[3].get \cap p.args = {}
        /\ p.script[3].put \subseteq Before(p, 3) /\ p.script[3].undo \subseteq Before(p, 3)
    BY <1>2, <1>3, <1>4, <1>5, <1>6 DEF IsProgram, IsCall
  <2>2. p.script[3].final \/ 3 = Len(p.script) => Before(p, 3 + 1) = p.gives
    BY <1>2, <1>3, <1>4, <1>5, <1>6 DEF IsProgram, IsCall
  <2>3. "loud" \in p.script[3].fails => Left(p, 3) = {} \/ p.name = "spawn assign"
    BY <1>2, <1>3, <1>4, <1>5, <1>6 DEF IsProgram, IsCall
  <2>4. "quiet" \in p.script[3].fails =>
          Left(p, 3) = Before(p, 3 + 1) /\ p.script[3].buf = "none"
    BY <1>2, <1>3, <1>4, <1>5, <1>6 DEF IsProgram, IsCall
  <2>5. "code" \in p.script[3].fails => 3 = Len(p.script) /\ Left(p, 3) = {}
    BY <1>2, <1>3, <1>4, <1>5, <1>6 DEF IsProgram, IsCall
  <2>6. p.script[3].buf = "read" => \E i \in 1..(3 - 1) : p.script[i].buf = "write"
    BY <1>2, <1>3, <1>4, <1>5, <1>6 DEF IsProgram, IsCall
  <2> QED BY <2>1, <2>2, <2>3, <2>4, <2>5, <2>6 DEF BalancedCall
<1>10. \A k \in 1..Len(p.script) : k = 1 \/ k = 2 \/ k = 3
  BY <1>3
<1>11. p.keeps \subseteq p.gives /\ p.args \cap p.gives = {} /\ p.cancel # "detached"
  BY <1>2 DEF IsProgram
<1>12. Balanced(p)
  BY <1>3, <1>7, <1>8, <1>9, <1>10, <1>11 DEF Balanced
<1> QED BY <1>1, <1>12

LEMMA RealpathShort == Balanced(realpath_job("windows", FALSE))
<1>1. PICK p, c1, c2 :
        /\ p = realpath_job("windows", FALSE) /\ c1 = [Sys EXCEPT !.buf = "write"]
        /\ c2 = [Always(Get({"string"})) EXCEPT !.buf = "read"]
  OBVIOUS
<1>2. IsProgram(p, {"path"}, <<c1, c2>>, {}, {"string"}, "shielded")
  BY <1>1 DEF realpath_job, Giving, Program, IsProgram
<1>3. /\ Len(p.script) = 2 /\ DOMAIN p.script = 1..Len(p.script) /\ p.script[1] = c1
      /\ p.script[2] = c2
  BY <1>2, Tuples DEF IsProgram
<1>4. /\ IsCall(c1, {}, {}, {}, {"loud"}, FALSE, "write")
      /\ IsCall(c2, {"string"}, {}, {}, {}, FALSE, "read")
  BY <1>1 DEF IsCall, Sys, Get, Undo, Put, Always
<1>5. /\ Before(p, 1) = {} /\ Before(p, 2) = {} /\ Before(p, 3) = {"string"}
  <2>1. Before(p, 1) = {} /\ Before(p, 2) = {}
    BY <1>3, <1>4, BeforeCalls, SMTT(60) DEF IsCall
  <2>2. Before(p, 3) = {"string"}
    BY <1>3, <1>4, <2>1, BeforeCalls, SMTT(60) DEF IsCall
  <2> QED BY <2>1, <2>2
<1>6. /\ Left(p, 1) = {}
  BY <1>3, <1>4, <1>5 DEF IsCall, Left
<1>7. BalancedCall(p, 1)
  <2>1. /\ p.script[1].get \cap Before(p, 1) = {} /\ p.script[1].get \cap p.args = {}
        /\ p.script[1].put \subseteq Before(p, 1) /\ p.script[1].undo \subseteq Before(p, 1)
    BY <1>2, <1>3, <1>4, <1>5, <1>6 DEF IsProgram, IsCall
  <2>2. p.script[1].final \/ 1 = Len(p.script) => Before(p, 1 + 1) = p.gives
    BY <1>2, <1>3, <1>4, <1>5, <1>6 DEF IsProgram, IsCall
  <2>3. "loud" \in p.script[1].fails => Left(p, 1) = {} \/ p.name = "spawn assign"
    BY <1>2, <1>3, <1>4, <1>5, <1>6 DEF IsProgram, IsCall
  <2>4. "quiet" \in p.script[1].fails =>
          Left(p, 1) = Before(p, 1 + 1) /\ p.script[1].buf = "none"
    BY <1>2, <1>3, <1>4, <1>5, <1>6 DEF IsProgram, IsCall
  <2>5. "code" \in p.script[1].fails => 1 = Len(p.script) /\ Left(p, 1) = {}
    BY <1>2, <1>3, <1>4, <1>5, <1>6 DEF IsProgram, IsCall
  <2>6. p.script[1].buf = "read" => \E i \in 1..(1 - 1) : p.script[i].buf = "write"
    BY <1>2, <1>3, <1>4, <1>5, <1>6 DEF IsProgram, IsCall
  <2> QED BY <2>1, <2>2, <2>3, <2>4, <2>5, <2>6 DEF BalancedCall
<1>8. BalancedCall(p, 2)
  <2>1. /\ p.script[2].get \cap Before(p, 2) = {} /\ p.script[2].get \cap p.args = {}
        /\ p.script[2].put \subseteq Before(p, 2) /\ p.script[2].undo \subseteq Before(p, 2)
    BY <1>2, <1>3, <1>4, <1>5, <1>6 DEF IsProgram, IsCall
  <2>2. p.script[2].final \/ 2 = Len(p.script) => Before(p, 2 + 1) = p.gives
    BY <1>2, <1>3, <1>4, <1>5, <1>6 DEF IsProgram, IsCall
  <2>3. "loud" \in p.script[2].fails => Left(p, 2) = {} \/ p.name = "spawn assign"
    BY <1>2, <1>3, <1>4, <1>5, <1>6 DEF IsProgram, IsCall
  <2>4. "quiet" \in p.script[2].fails =>
          Left(p, 2) = Before(p, 2 + 1) /\ p.script[2].buf = "none"
    BY <1>2, <1>3, <1>4, <1>5, <1>6 DEF IsProgram, IsCall
  <2>5. "code" \in p.script[2].fails => 2 = Len(p.script) /\ Left(p, 2) = {}
    BY <1>2, <1>3, <1>4, <1>5, <1>6 DEF IsProgram, IsCall
  <2>6. p.script[2].buf = "read" => \E i \in 1..(2 - 1) : p.script[i].buf = "write"
    BY <1>2, <1>3, <1>4, <1>5, <1>6 DEF IsProgram, IsCall
  <2> QED BY <2>1, <2>2, <2>3, <2>4, <2>5, <2>6 DEF BalancedCall
<1>9. \A k \in 1..Len(p.script) : k = 1 \/ k = 2
  BY <1>3
<1>10. p.keeps \subseteq p.gives /\ p.args \cap p.gives = {} /\ p.cancel # "detached"
  BY <1>2 DEF IsProgram
<1>11. Balanced(p)
  BY <1>3, <1>7, <1>8, <1>9, <1>10 DEF Balanced
<1> QED BY <1>1, <1>11

LEMMA SpawnAttrs == Balanced(spawn_job_windows("spawn attrs"))
<1>1. PICK p, c1, c2, c3, c4, c5 :
        /\ p = spawn_job_windows("spawn attrs") /\ c1 = Sys /\ c2 = Get({"attrs"})
        /\ c3 = Undo({"attrs"})
        /\ c4 = [Get({"process", "thread"}) EXCEPT !.put = {"attrs"}]
        /\ c5 = Always(Put({"thread"}))
  OBVIOUS
<1>2. IsProgram(p, {"command_line", "environment", "cwd"}, <<c1, c2, c3, c4, c5>>, {"process"}, {"process"}, "shielded")
  BY <1>1 DEF spawn_job_windows, Giving, Program, IsProgram
<1>3. /\ Len(p.script) = 5 /\ DOMAIN p.script = 1..Len(p.script) /\ p.script[1] = c1
      /\ p.script[2] = c2 /\ p.script[3] = c3 /\ p.script[4] = c4 /\ p.script[5] = c5
  BY <1>2, Tuples DEF IsProgram
<1>4. /\ IsCall(c1, {}, {}, {}, {"loud"}, FALSE, "none")
      /\ IsCall(c2, {"attrs"}, {}, {}, {"loud"}, FALSE, "none")
      /\ IsCall(c3, {}, {"attrs"}, {}, {"loud"}, FALSE, "none")
      /\ IsCall(c4, {"process", "thread"}, {}, {"attrs"}, {"loud"}, FALSE, "none")
      /\ IsCall(c5, {}, {}, {"thread"}, {}, FALSE, "none")
  BY <1>1 DEF IsCall, Sys, Get, Undo, Put, Always
<1>5. /\ Before(p, 1) = {} /\ Before(p, 2) = {} /\ Before(p, 3) = {"attrs"}
      /\ Before(p, 4) = {"attrs"} /\ Before(p, 5) = {"process", "thread"}
      /\ Before(p, 6) = {"process"}
  <2>1. Before(p, 1) = {} /\ Before(p, 2) = {}
    BY <1>3, <1>4, BeforeCalls, SMTT(60) DEF IsCall
  <2>2. Before(p, 3) = {"attrs"}
    BY <1>3, <1>4, <2>1, BeforeCalls, SMTT(60) DEF IsCall
  <2>3. Before(p, 4) = {"attrs"}
    BY <1>3, <1>4, <2>2, BeforeCalls, SMTT(60) DEF IsCall
  <2>4. Before(p, 5) = {"process", "thread"}
    BY <1>3, <1>4, <2>3, BeforeCalls, SMTT(60) DEF IsCall
  <2>5. Before(p, 6) = {"process"}
    BY <1>3, <1>4, <2>4, BeforeCalls, SMTT(60) DEF IsCall
  <2> QED BY <2>1, <2>2, <2>3, <2>4, <2>5
<1>6. /\ Left(p, 1) = {} /\ Left(p, 2) = {} /\ Left(p, 3) = {} /\ Left(p, 4) = {}
  BY <1>3, <1>4, <1>5 DEF IsCall, Left
<1>7. BalancedCall(p, 1)
  <2>1. /\ p.script[1].get \cap Before(p, 1) = {} /\ p.script[1].get \cap p.args = {}
        /\ p.script[1].put \subseteq Before(p, 1) /\ p.script[1].undo \subseteq Before(p, 1)
    BY <1>2, <1>3, <1>4, <1>5, <1>6 DEF IsProgram, IsCall
  <2>2. p.script[1].final \/ 1 = Len(p.script) => Before(p, 1 + 1) = p.gives
    BY <1>2, <1>3, <1>4, <1>5, <1>6 DEF IsProgram, IsCall
  <2>3. "loud" \in p.script[1].fails => Left(p, 1) = {} \/ p.name = "spawn assign"
    BY <1>2, <1>3, <1>4, <1>5, <1>6 DEF IsProgram, IsCall
  <2>4. "quiet" \in p.script[1].fails =>
          Left(p, 1) = Before(p, 1 + 1) /\ p.script[1].buf = "none"
    BY <1>2, <1>3, <1>4, <1>5, <1>6 DEF IsProgram, IsCall
  <2>5. "code" \in p.script[1].fails => 1 = Len(p.script) /\ Left(p, 1) = {}
    BY <1>2, <1>3, <1>4, <1>5, <1>6 DEF IsProgram, IsCall
  <2>6. p.script[1].buf = "read" => \E i \in 1..(1 - 1) : p.script[i].buf = "write"
    BY <1>2, <1>3, <1>4, <1>5, <1>6 DEF IsProgram, IsCall
  <2> QED BY <2>1, <2>2, <2>3, <2>4, <2>5, <2>6 DEF BalancedCall
<1>8. BalancedCall(p, 2)
  <2>1. /\ p.script[2].get \cap Before(p, 2) = {} /\ p.script[2].get \cap p.args = {}
        /\ p.script[2].put \subseteq Before(p, 2) /\ p.script[2].undo \subseteq Before(p, 2)
    BY <1>2, <1>3, <1>4, <1>5, <1>6 DEF IsProgram, IsCall
  <2>2. p.script[2].final \/ 2 = Len(p.script) => Before(p, 2 + 1) = p.gives
    BY <1>2, <1>3, <1>4, <1>5, <1>6 DEF IsProgram, IsCall
  <2>3. "loud" \in p.script[2].fails => Left(p, 2) = {} \/ p.name = "spawn assign"
    BY <1>2, <1>3, <1>4, <1>5, <1>6 DEF IsProgram, IsCall
  <2>4. "quiet" \in p.script[2].fails =>
          Left(p, 2) = Before(p, 2 + 1) /\ p.script[2].buf = "none"
    BY <1>2, <1>3, <1>4, <1>5, <1>6 DEF IsProgram, IsCall
  <2>5. "code" \in p.script[2].fails => 2 = Len(p.script) /\ Left(p, 2) = {}
    BY <1>2, <1>3, <1>4, <1>5, <1>6 DEF IsProgram, IsCall
  <2>6. p.script[2].buf = "read" => \E i \in 1..(2 - 1) : p.script[i].buf = "write"
    BY <1>2, <1>3, <1>4, <1>5, <1>6 DEF IsProgram, IsCall
  <2> QED BY <2>1, <2>2, <2>3, <2>4, <2>5, <2>6 DEF BalancedCall
<1>9. BalancedCall(p, 3)
  <2>1. /\ p.script[3].get \cap Before(p, 3) = {} /\ p.script[3].get \cap p.args = {}
        /\ p.script[3].put \subseteq Before(p, 3) /\ p.script[3].undo \subseteq Before(p, 3)
    BY <1>2, <1>3, <1>4, <1>5, <1>6 DEF IsProgram, IsCall
  <2>2. p.script[3].final \/ 3 = Len(p.script) => Before(p, 3 + 1) = p.gives
    BY <1>2, <1>3, <1>4, <1>5, <1>6 DEF IsProgram, IsCall
  <2>3. "loud" \in p.script[3].fails => Left(p, 3) = {} \/ p.name = "spawn assign"
    BY <1>2, <1>3, <1>4, <1>5, <1>6 DEF IsProgram, IsCall
  <2>4. "quiet" \in p.script[3].fails =>
          Left(p, 3) = Before(p, 3 + 1) /\ p.script[3].buf = "none"
    BY <1>2, <1>3, <1>4, <1>5, <1>6 DEF IsProgram, IsCall
  <2>5. "code" \in p.script[3].fails => 3 = Len(p.script) /\ Left(p, 3) = {}
    BY <1>2, <1>3, <1>4, <1>5, <1>6 DEF IsProgram, IsCall
  <2>6. p.script[3].buf = "read" => \E i \in 1..(3 - 1) : p.script[i].buf = "write"
    BY <1>2, <1>3, <1>4, <1>5, <1>6 DEF IsProgram, IsCall
  <2> QED BY <2>1, <2>2, <2>3, <2>4, <2>5, <2>6 DEF BalancedCall
<1>10. BalancedCall(p, 4)
  <2>1. /\ p.script[4].get \cap Before(p, 4) = {} /\ p.script[4].get \cap p.args = {}
        /\ p.script[4].put \subseteq Before(p, 4) /\ p.script[4].undo \subseteq Before(p, 4)
    BY <1>2, <1>3, <1>4, <1>5, <1>6 DEF IsProgram, IsCall
  <2>2. p.script[4].final \/ 4 = Len(p.script) => Before(p, 4 + 1) = p.gives
    BY <1>2, <1>3, <1>4, <1>5, <1>6 DEF IsProgram, IsCall
  <2>3. "loud" \in p.script[4].fails => Left(p, 4) = {} \/ p.name = "spawn assign"
    BY <1>2, <1>3, <1>4, <1>5, <1>6 DEF IsProgram, IsCall
  <2>4. "quiet" \in p.script[4].fails =>
          Left(p, 4) = Before(p, 4 + 1) /\ p.script[4].buf = "none"
    BY <1>2, <1>3, <1>4, <1>5, <1>6 DEF IsProgram, IsCall
  <2>5. "code" \in p.script[4].fails => 4 = Len(p.script) /\ Left(p, 4) = {}
    BY <1>2, <1>3, <1>4, <1>5, <1>6 DEF IsProgram, IsCall
  <2>6. p.script[4].buf = "read" => \E i \in 1..(4 - 1) : p.script[i].buf = "write"
    BY <1>2, <1>3, <1>4, <1>5, <1>6 DEF IsProgram, IsCall
  <2> QED BY <2>1, <2>2, <2>3, <2>4, <2>5, <2>6 DEF BalancedCall
<1>11. BalancedCall(p, 5)
  <2>1. /\ p.script[5].get \cap Before(p, 5) = {} /\ p.script[5].get \cap p.args = {}
        /\ p.script[5].put \subseteq Before(p, 5) /\ p.script[5].undo \subseteq Before(p, 5)
    BY <1>2, <1>3, <1>4, <1>5, <1>6 DEF IsProgram, IsCall
  <2>2. p.script[5].final \/ 5 = Len(p.script) => Before(p, 5 + 1) = p.gives
    BY <1>2, <1>3, <1>4, <1>5, <1>6 DEF IsProgram, IsCall
  <2>3. "loud" \in p.script[5].fails => Left(p, 5) = {} \/ p.name = "spawn assign"
    BY <1>2, <1>3, <1>4, <1>5, <1>6 DEF IsProgram, IsCall
  <2>4. "quiet" \in p.script[5].fails =>
          Left(p, 5) = Before(p, 5 + 1) /\ p.script[5].buf = "none"
    BY <1>2, <1>3, <1>4, <1>5, <1>6 DEF IsProgram, IsCall
  <2>5. "code" \in p.script[5].fails => 5 = Len(p.script) /\ Left(p, 5) = {}
    BY <1>2, <1>3, <1>4, <1>5, <1>6 DEF IsProgram, IsCall
  <2>6. p.script[5].buf = "read" => \E i \in 1..(5 - 1) : p.script[i].buf = "write"
    BY <1>2, <1>3, <1>4, <1>5, <1>6 DEF IsProgram, IsCall
  <2> QED BY <2>1, <2>2, <2>3, <2>4, <2>5, <2>6 DEF BalancedCall
<1>12. \A k \in 1..Len(p.script) : k = 1 \/ k = 2 \/ k = 3 \/ k = 4 \/ k = 5
  BY <1>3
<1>13. p.keeps \subseteq p.gives /\ p.args \cap p.gives = {} /\ p.cancel # "detached"
  BY <1>2 DEF IsProgram
<1>14. Balanced(p)
  BY <1>3, <1>7, <1>8, <1>9, <1>10, <1>11, <1>12, <1>13 DEF Balanced
<1> QED BY <1>1, <1>14

LEMMA SpawnAssign == Balanced(spawn_job_windows("spawn assign"))
<1>1. PICK p, c1, c2, c3, c4 :
        /\ p = spawn_job_windows("spawn assign") /\ c1 = Sys
        /\ c2 = Get({"process", "thread"}) /\ c3 = Sys /\ c4 = Always(Put({"thread"}))
  OBVIOUS
<1>2. IsProgram(p, {"command_line", "environment", "cwd"}, <<c1, c2, c3, c4>>, {"process"}, {"process"}, "shielded")
  BY <1>1 DEF spawn_job_windows, Giving, Program, IsProgram
<1>3. /\ Len(p.script) = 4 /\ DOMAIN p.script = 1..Len(p.script) /\ p.script[1] = c1
      /\ p.script[2] = c2 /\ p.script[3] = c3 /\ p.script[4] = c4
  BY <1>2, Tuples DEF IsProgram
<1>4. /\ IsCall(c1, {}, {}, {}, {"loud"}, FALSE, "none")
      /\ IsCall(c2, {"process", "thread"}, {}, {}, {"loud"}, FALSE, "none")
      /\ IsCall(c3, {}, {}, {}, {"loud"}, FALSE, "none")
      /\ IsCall(c4, {}, {}, {"thread"}, {}, FALSE, "none")
  BY <1>1 DEF IsCall, Sys, Get, Undo, Put, Always
<1>5. /\ Before(p, 1) = {} /\ Before(p, 2) = {} /\ Before(p, 3) = {"process", "thread"}
      /\ Before(p, 4) = {"process", "thread"} /\ Before(p, 5) = {"process"}
  <2>1. Before(p, 1) = {} /\ Before(p, 2) = {}
    BY <1>3, <1>4, BeforeCalls, SMTT(60) DEF IsCall
  <2>2. Before(p, 3) = {"process", "thread"}
    BY <1>3, <1>4, <2>1, BeforeCalls, SMTT(60) DEF IsCall
  <2>3. Before(p, 4) = {"process", "thread"}
    BY <1>3, <1>4, <2>2, BeforeCalls, SMTT(60) DEF IsCall
  <2>4. Before(p, 5) = {"process"}
    BY <1>3, <1>4, <2>3, BeforeCalls, SMTT(60) DEF IsCall
  <2> QED BY <2>1, <2>2, <2>3, <2>4
<1>6. /\ Left(p, 1) = {} /\ Left(p, 2) = {} /\ Left(p, 3) = {"process", "thread"}
  BY <1>3, <1>4, <1>5 DEF IsCall, Left
<1>7. p.name = "spawn assign"
  BY <1>1 DEF spawn_job_windows, Giving, Program
<1>8. BalancedCall(p, 1)
  <2>1. /\ p.script[1].get \cap Before(p, 1) = {} /\ p.script[1].get \cap p.args = {}
        /\ p.script[1].put \subseteq Before(p, 1) /\ p.script[1].undo \subseteq Before(p, 1)
    BY <1>2, <1>3, <1>4, <1>5, <1>6 DEF IsProgram, IsCall
  <2>2. p.script[1].final \/ 1 = Len(p.script) => Before(p, 1 + 1) = p.gives
    BY <1>2, <1>3, <1>4, <1>5, <1>6 DEF IsProgram, IsCall
  <2>3. "loud" \in p.script[1].fails => Left(p, 1) = {} \/ p.name = "spawn assign"
    BY <1>2, <1>3, <1>4, <1>5, <1>6, <1>7 DEF IsProgram, IsCall
  <2>4. "quiet" \in p.script[1].fails =>
          Left(p, 1) = Before(p, 1 + 1) /\ p.script[1].buf = "none"
    BY <1>2, <1>3, <1>4, <1>5, <1>6 DEF IsProgram, IsCall
  <2>5. "code" \in p.script[1].fails => 1 = Len(p.script) /\ Left(p, 1) = {}
    BY <1>2, <1>3, <1>4, <1>5, <1>6 DEF IsProgram, IsCall
  <2>6. p.script[1].buf = "read" => \E i \in 1..(1 - 1) : p.script[i].buf = "write"
    BY <1>2, <1>3, <1>4, <1>5, <1>6 DEF IsProgram, IsCall
  <2> QED BY <2>1, <2>2, <2>3, <2>4, <2>5, <2>6 DEF BalancedCall
<1>9. BalancedCall(p, 2)
  <2>1. /\ p.script[2].get \cap Before(p, 2) = {} /\ p.script[2].get \cap p.args = {}
        /\ p.script[2].put \subseteq Before(p, 2) /\ p.script[2].undo \subseteq Before(p, 2)
    BY <1>2, <1>3, <1>4, <1>5, <1>6 DEF IsProgram, IsCall
  <2>2. p.script[2].final \/ 2 = Len(p.script) => Before(p, 2 + 1) = p.gives
    BY <1>2, <1>3, <1>4, <1>5, <1>6 DEF IsProgram, IsCall
  <2>3. "loud" \in p.script[2].fails => Left(p, 2) = {} \/ p.name = "spawn assign"
    BY <1>2, <1>3, <1>4, <1>5, <1>6, <1>7 DEF IsProgram, IsCall
  <2>4. "quiet" \in p.script[2].fails =>
          Left(p, 2) = Before(p, 2 + 1) /\ p.script[2].buf = "none"
    BY <1>2, <1>3, <1>4, <1>5, <1>6 DEF IsProgram, IsCall
  <2>5. "code" \in p.script[2].fails => 2 = Len(p.script) /\ Left(p, 2) = {}
    BY <1>2, <1>3, <1>4, <1>5, <1>6 DEF IsProgram, IsCall
  <2>6. p.script[2].buf = "read" => \E i \in 1..(2 - 1) : p.script[i].buf = "write"
    BY <1>2, <1>3, <1>4, <1>5, <1>6 DEF IsProgram, IsCall
  <2> QED BY <2>1, <2>2, <2>3, <2>4, <2>5, <2>6 DEF BalancedCall
<1>10. BalancedCall(p, 3)
  <2>1. /\ p.script[3].get \cap Before(p, 3) = {} /\ p.script[3].get \cap p.args = {}
        /\ p.script[3].put \subseteq Before(p, 3) /\ p.script[3].undo \subseteq Before(p, 3)
    BY <1>2, <1>3, <1>4, <1>5, <1>6 DEF IsProgram, IsCall
  <2>2. p.script[3].final \/ 3 = Len(p.script) => Before(p, 3 + 1) = p.gives
    BY <1>2, <1>3, <1>4, <1>5, <1>6 DEF IsProgram, IsCall
  <2>3. "loud" \in p.script[3].fails => Left(p, 3) = {} \/ p.name = "spawn assign"
    BY <1>2, <1>3, <1>4, <1>5, <1>6, <1>7 DEF IsProgram, IsCall
  <2>4. "quiet" \in p.script[3].fails =>
          Left(p, 3) = Before(p, 3 + 1) /\ p.script[3].buf = "none"
    BY <1>2, <1>3, <1>4, <1>5, <1>6 DEF IsProgram, IsCall
  <2>5. "code" \in p.script[3].fails => 3 = Len(p.script) /\ Left(p, 3) = {}
    BY <1>2, <1>3, <1>4, <1>5, <1>6 DEF IsProgram, IsCall
  <2>6. p.script[3].buf = "read" => \E i \in 1..(3 - 1) : p.script[i].buf = "write"
    BY <1>2, <1>3, <1>4, <1>5, <1>6 DEF IsProgram, IsCall
  <2> QED BY <2>1, <2>2, <2>3, <2>4, <2>5, <2>6 DEF BalancedCall
<1>11. BalancedCall(p, 4)
  <2>1. /\ p.script[4].get \cap Before(p, 4) = {} /\ p.script[4].get \cap p.args = {}
        /\ p.script[4].put \subseteq Before(p, 4) /\ p.script[4].undo \subseteq Before(p, 4)
    BY <1>2, <1>3, <1>4, <1>5, <1>6 DEF IsProgram, IsCall
  <2>2. p.script[4].final \/ 4 = Len(p.script) => Before(p, 4 + 1) = p.gives
    BY <1>2, <1>3, <1>4, <1>5, <1>6 DEF IsProgram, IsCall
  <2>3. "loud" \in p.script[4].fails => Left(p, 4) = {} \/ p.name = "spawn assign"
    BY <1>2, <1>3, <1>4, <1>5, <1>6, <1>7 DEF IsProgram, IsCall
  <2>4. "quiet" \in p.script[4].fails =>
          Left(p, 4) = Before(p, 4 + 1) /\ p.script[4].buf = "none"
    BY <1>2, <1>3, <1>4, <1>5, <1>6 DEF IsProgram, IsCall
  <2>5. "code" \in p.script[4].fails => 4 = Len(p.script) /\ Left(p, 4) = {}
    BY <1>2, <1>3, <1>4, <1>5, <1>6 DEF IsProgram, IsCall
  <2>6. p.script[4].buf = "read" => \E i \in 1..(4 - 1) : p.script[i].buf = "write"
    BY <1>2, <1>3, <1>4, <1>5, <1>6 DEF IsProgram, IsCall
  <2> QED BY <2>1, <2>2, <2>3, <2>4, <2>5, <2>6 DEF BalancedCall
<1>12. \A k \in 1..Len(p.script) : k = 1 \/ k = 2 \/ k = 3 \/ k = 4
  BY <1>3
<1>13. p.keeps \subseteq p.gives /\ p.args \cap p.gives = {} /\ p.cancel # "detached"
  BY <1>2 DEF IsProgram
<1>14. Balanced(p)
  BY <1>3, <1>8, <1>9, <1>10, <1>11, <1>12, <1>13 DEF Balanced
<1> QED BY <1>1, <1>14

LEMMA SpawnOrphan == Balanced(spawn_job_windows("spawn orphan"))
<1>1. PICK p, c1, c2, c3 :
        /\ p = spawn_job_windows("spawn orphan") /\ c1 = Sys
        /\ c2 = Get({"process", "thread"}) /\ c3 = Always(Put({"thread"}))
  OBVIOUS
<1>2. IsProgram(p, {"command_line", "environment", "cwd"}, <<c1, c2, c3>>, {"process"}, {"process"}, "shielded")
  BY <1>1 DEF spawn_job_windows, Giving, Program, IsProgram
<1>3. /\ Len(p.script) = 3 /\ DOMAIN p.script = 1..Len(p.script) /\ p.script[1] = c1
      /\ p.script[2] = c2 /\ p.script[3] = c3
  BY <1>2, Tuples DEF IsProgram
<1>4. /\ IsCall(c1, {}, {}, {}, {"loud"}, FALSE, "none")
      /\ IsCall(c2, {"process", "thread"}, {}, {}, {"loud"}, FALSE, "none")
      /\ IsCall(c3, {}, {}, {"thread"}, {}, FALSE, "none")
  BY <1>1 DEF IsCall, Sys, Get, Undo, Put, Always
<1>5. /\ Before(p, 1) = {} /\ Before(p, 2) = {} /\ Before(p, 3) = {"process", "thread"}
      /\ Before(p, 4) = {"process"}
  <2>1. Before(p, 1) = {} /\ Before(p, 2) = {}
    BY <1>3, <1>4, BeforeCalls, SMTT(60) DEF IsCall
  <2>2. Before(p, 3) = {"process", "thread"}
    BY <1>3, <1>4, <2>1, BeforeCalls, SMTT(60) DEF IsCall
  <2>3. Before(p, 4) = {"process"}
    BY <1>3, <1>4, <2>2, BeforeCalls, SMTT(60) DEF IsCall
  <2> QED BY <2>1, <2>2, <2>3
<1>6. /\ Left(p, 1) = {} /\ Left(p, 2) = {}
  BY <1>3, <1>4, <1>5 DEF IsCall, Left
<1>7. BalancedCall(p, 1)
  <2>1. /\ p.script[1].get \cap Before(p, 1) = {} /\ p.script[1].get \cap p.args = {}
        /\ p.script[1].put \subseteq Before(p, 1) /\ p.script[1].undo \subseteq Before(p, 1)
    BY <1>2, <1>3, <1>4, <1>5, <1>6 DEF IsProgram, IsCall
  <2>2. p.script[1].final \/ 1 = Len(p.script) => Before(p, 1 + 1) = p.gives
    BY <1>2, <1>3, <1>4, <1>5, <1>6 DEF IsProgram, IsCall
  <2>3. "loud" \in p.script[1].fails => Left(p, 1) = {} \/ p.name = "spawn assign"
    BY <1>2, <1>3, <1>4, <1>5, <1>6 DEF IsProgram, IsCall
  <2>4. "quiet" \in p.script[1].fails =>
          Left(p, 1) = Before(p, 1 + 1) /\ p.script[1].buf = "none"
    BY <1>2, <1>3, <1>4, <1>5, <1>6 DEF IsProgram, IsCall
  <2>5. "code" \in p.script[1].fails => 1 = Len(p.script) /\ Left(p, 1) = {}
    BY <1>2, <1>3, <1>4, <1>5, <1>6 DEF IsProgram, IsCall
  <2>6. p.script[1].buf = "read" => \E i \in 1..(1 - 1) : p.script[i].buf = "write"
    BY <1>2, <1>3, <1>4, <1>5, <1>6 DEF IsProgram, IsCall
  <2> QED BY <2>1, <2>2, <2>3, <2>4, <2>5, <2>6 DEF BalancedCall
<1>8. BalancedCall(p, 2)
  <2>1. /\ p.script[2].get \cap Before(p, 2) = {} /\ p.script[2].get \cap p.args = {}
        /\ p.script[2].put \subseteq Before(p, 2) /\ p.script[2].undo \subseteq Before(p, 2)
    BY <1>2, <1>3, <1>4, <1>5, <1>6 DEF IsProgram, IsCall
  <2>2. p.script[2].final \/ 2 = Len(p.script) => Before(p, 2 + 1) = p.gives
    BY <1>2, <1>3, <1>4, <1>5, <1>6 DEF IsProgram, IsCall
  <2>3. "loud" \in p.script[2].fails => Left(p, 2) = {} \/ p.name = "spawn assign"
    BY <1>2, <1>3, <1>4, <1>5, <1>6 DEF IsProgram, IsCall
  <2>4. "quiet" \in p.script[2].fails =>
          Left(p, 2) = Before(p, 2 + 1) /\ p.script[2].buf = "none"
    BY <1>2, <1>3, <1>4, <1>5, <1>6 DEF IsProgram, IsCall
  <2>5. "code" \in p.script[2].fails => 2 = Len(p.script) /\ Left(p, 2) = {}
    BY <1>2, <1>3, <1>4, <1>5, <1>6 DEF IsProgram, IsCall
  <2>6. p.script[2].buf = "read" => \E i \in 1..(2 - 1) : p.script[i].buf = "write"
    BY <1>2, <1>3, <1>4, <1>5, <1>6 DEF IsProgram, IsCall
  <2> QED BY <2>1, <2>2, <2>3, <2>4, <2>5, <2>6 DEF BalancedCall
<1>9. BalancedCall(p, 3)
  <2>1. /\ p.script[3].get \cap Before(p, 3) = {} /\ p.script[3].get \cap p.args = {}
        /\ p.script[3].put \subseteq Before(p, 3) /\ p.script[3].undo \subseteq Before(p, 3)
    BY <1>2, <1>3, <1>4, <1>5, <1>6 DEF IsProgram, IsCall
  <2>2. p.script[3].final \/ 3 = Len(p.script) => Before(p, 3 + 1) = p.gives
    BY <1>2, <1>3, <1>4, <1>5, <1>6 DEF IsProgram, IsCall
  <2>3. "loud" \in p.script[3].fails => Left(p, 3) = {} \/ p.name = "spawn assign"
    BY <1>2, <1>3, <1>4, <1>5, <1>6 DEF IsProgram, IsCall
  <2>4. "quiet" \in p.script[3].fails =>
          Left(p, 3) = Before(p, 3 + 1) /\ p.script[3].buf = "none"
    BY <1>2, <1>3, <1>4, <1>5, <1>6 DEF IsProgram, IsCall
  <2>5. "code" \in p.script[3].fails => 3 = Len(p.script) /\ Left(p, 3) = {}
    BY <1>2, <1>3, <1>4, <1>5, <1>6 DEF IsProgram, IsCall
  <2>6. p.script[3].buf = "read" => \E i \in 1..(3 - 1) : p.script[i].buf = "write"
    BY <1>2, <1>3, <1>4, <1>5, <1>6 DEF IsProgram, IsCall
  <2> QED BY <2>1, <2>2, <2>3, <2>4, <2>5, <2>6 DEF BalancedCall
<1>10. \A k \in 1..Len(p.script) : k = 1 \/ k = 2 \/ k = 3
  BY <1>3
<1>11. p.keeps \subseteq p.gives /\ p.args \cap p.gives = {} /\ p.cancel # "detached"
  BY <1>2 DEF IsProgram
<1>12. Balanced(p)
  BY <1>3, <1>7, <1>8, <1>9, <1>10, <1>11 DEF Balanced
<1> QED BY <1>1, <1>12

LEMMA SpawnUnix == Balanced(spawn_job_unix)
<1>1. PICK p, c1, c2, c3, c4 :
        /\ p = spawn_job_unix /\ c1 = Always(Get({"attr", "actions"}))
        /\ c2 = Undo({"attr", "actions"}) /\ c3 = Undo({"attr", "actions"})
        /\ c4 = [Get({"process"}) EXCEPT !.put = {"attr", "actions"}]
  OBVIOUS
<1>2. IsProgram(p, {"path", "args", "envp", "cwd"}, <<c1, c2, c3, c4>>, {}, {"process"}, "shielded")
  BY <1>1 DEF spawn_job_unix, Giving, Program, IsProgram
<1>3. /\ Len(p.script) = 4 /\ DOMAIN p.script = 1..Len(p.script) /\ p.script[1] = c1
      /\ p.script[2] = c2 /\ p.script[3] = c3 /\ p.script[4] = c4
  BY <1>2, Tuples DEF IsProgram
<1>4. /\ IsCall(c1, {"attr", "actions"}, {}, {}, {}, FALSE, "none")
      /\ IsCall(c2, {}, {"attr", "actions"}, {}, {"loud"}, FALSE, "none")
      /\ IsCall(c3, {}, {"attr", "actions"}, {}, {"loud"}, FALSE, "none")
      /\ IsCall(c4, {"process"}, {}, {"attr", "actions"}, {"loud"}, FALSE, "none")
  BY <1>1 DEF IsCall, Sys, Get, Undo, Put, Always
<1>5. /\ Before(p, 1) = {} /\ Before(p, 2) = {"actions", "attr"}
      /\ Before(p, 3) = {"actions", "attr"} /\ Before(p, 4) = {"actions", "attr"}
      /\ Before(p, 5) = {"process"}
  <2>1. Before(p, 1) = {} /\ Before(p, 2) = {"actions", "attr"}
    BY <1>3, <1>4, BeforeCalls, SMTT(60) DEF IsCall
  <2>2. Before(p, 3) = {"actions", "attr"}
    BY <1>3, <1>4, <2>1, BeforeCalls, SMTT(60) DEF IsCall
  <2>3. Before(p, 4) = {"actions", "attr"}
    BY <1>3, <1>4, <2>2, BeforeCalls, SMTT(60) DEF IsCall
  <2>4. Before(p, 5) = {"process"}
    BY <1>3, <1>4, <2>3, BeforeCalls, SMTT(60) DEF IsCall
  <2> QED BY <2>1, <2>2, <2>3, <2>4
<1>6. /\ Left(p, 2) = {} /\ Left(p, 3) = {} /\ Left(p, 4) = {}
  BY <1>3, <1>4, <1>5 DEF IsCall, Left
<1>7. BalancedCall(p, 1)
  <2>1. /\ p.script[1].get \cap Before(p, 1) = {} /\ p.script[1].get \cap p.args = {}
        /\ p.script[1].put \subseteq Before(p, 1) /\ p.script[1].undo \subseteq Before(p, 1)
    BY <1>2, <1>3, <1>4, <1>5, <1>6 DEF IsProgram, IsCall
  <2>2. p.script[1].final \/ 1 = Len(p.script) => Before(p, 1 + 1) = p.gives
    BY <1>2, <1>3, <1>4, <1>5, <1>6 DEF IsProgram, IsCall
  <2>3. "loud" \in p.script[1].fails => Left(p, 1) = {} \/ p.name = "spawn assign"
    BY <1>2, <1>3, <1>4, <1>5, <1>6 DEF IsProgram, IsCall
  <2>4. "quiet" \in p.script[1].fails =>
          Left(p, 1) = Before(p, 1 + 1) /\ p.script[1].buf = "none"
    BY <1>2, <1>3, <1>4, <1>5, <1>6 DEF IsProgram, IsCall
  <2>5. "code" \in p.script[1].fails => 1 = Len(p.script) /\ Left(p, 1) = {}
    BY <1>2, <1>3, <1>4, <1>5, <1>6 DEF IsProgram, IsCall
  <2>6. p.script[1].buf = "read" => \E i \in 1..(1 - 1) : p.script[i].buf = "write"
    BY <1>2, <1>3, <1>4, <1>5, <1>6 DEF IsProgram, IsCall
  <2> QED BY <2>1, <2>2, <2>3, <2>4, <2>5, <2>6 DEF BalancedCall
<1>8. BalancedCall(p, 2)
  <2>1. /\ p.script[2].get \cap Before(p, 2) = {} /\ p.script[2].get \cap p.args = {}
        /\ p.script[2].put \subseteq Before(p, 2) /\ p.script[2].undo \subseteq Before(p, 2)
    BY <1>2, <1>3, <1>4, <1>5, <1>6 DEF IsProgram, IsCall
  <2>2. p.script[2].final \/ 2 = Len(p.script) => Before(p, 2 + 1) = p.gives
    BY <1>2, <1>3, <1>4, <1>5, <1>6 DEF IsProgram, IsCall
  <2>3. "loud" \in p.script[2].fails => Left(p, 2) = {} \/ p.name = "spawn assign"
    BY <1>2, <1>3, <1>4, <1>5, <1>6 DEF IsProgram, IsCall
  <2>4. "quiet" \in p.script[2].fails =>
          Left(p, 2) = Before(p, 2 + 1) /\ p.script[2].buf = "none"
    BY <1>2, <1>3, <1>4, <1>5, <1>6 DEF IsProgram, IsCall
  <2>5. "code" \in p.script[2].fails => 2 = Len(p.script) /\ Left(p, 2) = {}
    BY <1>2, <1>3, <1>4, <1>5, <1>6 DEF IsProgram, IsCall
  <2>6. p.script[2].buf = "read" => \E i \in 1..(2 - 1) : p.script[i].buf = "write"
    BY <1>2, <1>3, <1>4, <1>5, <1>6 DEF IsProgram, IsCall
  <2> QED BY <2>1, <2>2, <2>3, <2>4, <2>5, <2>6 DEF BalancedCall
<1>9. BalancedCall(p, 3)
  <2>1. /\ p.script[3].get \cap Before(p, 3) = {} /\ p.script[3].get \cap p.args = {}
        /\ p.script[3].put \subseteq Before(p, 3) /\ p.script[3].undo \subseteq Before(p, 3)
    BY <1>2, <1>3, <1>4, <1>5, <1>6 DEF IsProgram, IsCall
  <2>2. p.script[3].final \/ 3 = Len(p.script) => Before(p, 3 + 1) = p.gives
    BY <1>2, <1>3, <1>4, <1>5, <1>6 DEF IsProgram, IsCall
  <2>3. "loud" \in p.script[3].fails => Left(p, 3) = {} \/ p.name = "spawn assign"
    BY <1>2, <1>3, <1>4, <1>5, <1>6 DEF IsProgram, IsCall
  <2>4. "quiet" \in p.script[3].fails =>
          Left(p, 3) = Before(p, 3 + 1) /\ p.script[3].buf = "none"
    BY <1>2, <1>3, <1>4, <1>5, <1>6 DEF IsProgram, IsCall
  <2>5. "code" \in p.script[3].fails => 3 = Len(p.script) /\ Left(p, 3) = {}
    BY <1>2, <1>3, <1>4, <1>5, <1>6 DEF IsProgram, IsCall
  <2>6. p.script[3].buf = "read" => \E i \in 1..(3 - 1) : p.script[i].buf = "write"
    BY <1>2, <1>3, <1>4, <1>5, <1>6 DEF IsProgram, IsCall
  <2> QED BY <2>1, <2>2, <2>3, <2>4, <2>5, <2>6 DEF BalancedCall
<1>10. BalancedCall(p, 4)
  <2>1. /\ p.script[4].get \cap Before(p, 4) = {} /\ p.script[4].get \cap p.args = {}
        /\ p.script[4].put \subseteq Before(p, 4) /\ p.script[4].undo \subseteq Before(p, 4)
    BY <1>2, <1>3, <1>4, <1>5, <1>6 DEF IsProgram, IsCall
  <2>2. p.script[4].final \/ 4 = Len(p.script) => Before(p, 4 + 1) = p.gives
    BY <1>2, <1>3, <1>4, <1>5, <1>6 DEF IsProgram, IsCall
  <2>3. "loud" \in p.script[4].fails => Left(p, 4) = {} \/ p.name = "spawn assign"
    BY <1>2, <1>3, <1>4, <1>5, <1>6 DEF IsProgram, IsCall
  <2>4. "quiet" \in p.script[4].fails =>
          Left(p, 4) = Before(p, 4 + 1) /\ p.script[4].buf = "none"
    BY <1>2, <1>3, <1>4, <1>5, <1>6 DEF IsProgram, IsCall
  <2>5. "code" \in p.script[4].fails => 4 = Len(p.script) /\ Left(p, 4) = {}
    BY <1>2, <1>3, <1>4, <1>5, <1>6 DEF IsProgram, IsCall
  <2>6. p.script[4].buf = "read" => \E i \in 1..(4 - 1) : p.script[i].buf = "write"
    BY <1>2, <1>3, <1>4, <1>5, <1>6 DEF IsProgram, IsCall
  <2> QED BY <2>1, <2>2, <2>3, <2>4, <2>5, <2>6 DEF BalancedCall
<1>11. \A k \in 1..Len(p.script) : k = 1 \/ k = 2 \/ k = 3 \/ k = 4
  BY <1>3
<1>12. p.keeps \subseteq p.gives /\ p.args \cap p.gives = {} /\ p.cancel # "detached"
  BY <1>2 DEF IsProgram
<1>13. Balanced(p)
  BY <1>3, <1>7, <1>8, <1>9, <1>10, <1>11, <1>12 DEF Balanced
<1> QED BY <1>1, <1>13

LEMMA AllBalanced == \A p \in AllPrograms : Balanced(p)
<1>1. \A p \in Programs("unix") :
        \/ p \in {sleep_job("unix"), read_job("unix"), write_job("unix"), open_job("unix"),
                  kind_of_fd_job("unix"), file_kind_by_path_job("unix"), file_size_job("unix"),
                  file_time_job("unix"), file_time_by_path_job("unix"), fsync_job("unix"),
                  flock_job("unix"), remove_job("unix"), access_job("unix"),
                  rename_job("unix"), symlink_job("unix"), mkdir_job("unix"),
                  rmdir_job("unix"), readdir_job("unix"), realpath_job("unix", FALSE),
                  bind_job("unix"), getaddrinfo_job("unix")}
        \/ p \in {spawn_job_unix, wait_for_process_job_unix, chmod_job("unix"),
                  inotify_add_watch_job}
  BY DEF Programs
<1>2. \A p \in Programs("windows") :
        \/ p \in {sleep_job("windows"), read_job("windows"), write_job("windows"),
                  open_job("windows"), kind_of_fd_job("windows"),
                  file_kind_by_path_job("windows"), file_size_job("windows"),
                  file_time_job("windows"), file_time_by_path_job("windows"),
                  fsync_job("windows"), flock_job("windows"), remove_job("windows"),
                  access_job("windows"), rename_job("windows"), symlink_job("windows"),
                  mkdir_job("windows"), rmdir_job("windows"), readdir_job("windows"),
                  realpath_job("windows", FALSE), bind_job("windows"),
                  getaddrinfo_job("windows")}
        \/ p \in {wait_for_process_job_windows, realpath_job("windows", TRUE)}
        \/ p \in {spawn_job_windows("spawn attrs"), spawn_job_windows("spawn assign"),
                  spawn_job_windows("spawn orphan")}
  BY DEF Programs
<1>3. \A p \in Programs("unix") : Balanced(p)
  BY <1>1, NeutralJobs, AcquiringJobs, OpenJob, SpawnUnix
<1>4. \A p \in Programs("windows") : Balanced(p)
  BY <1>2, NeutralJobs, AcquiringJobs, OpenJob, KindByPath, TimeByPath, AccessWindows,
     RenameWindows, RealpathLong, RealpathShort, SpawnAttrs, SpawnAssign, SpawnOrphan
<1> QED BY <1>3, <1>4 DEF AllPrograms

\* Everything a program names is a resource, and a script holds no argument.
LEMMA Parts ==
    ASSUME NEW p \in AllPrograms
    PROVE  /\ p.args \subseteq Resources /\ p.gives \subseteq Resources
           /\ \A k \in 1..Len(p.script) : p.script[k].get \subseteq Resources
           /\ \A k : Before(p, k) \subseteq Resources /\ Before(p, k) \cap p.args = {}
<1>1. /\ DOMAIN p.script = 1..Len(p.script)
      /\ \A k \in 1..Len(p.script) : p.script[k].get \cap p.args = {}
  BY AllBalanced DEF Balanced, BalancedCall
<1> DEFINE Names(q) == q.args \cup q.gives \cup UNION {q.script[k].get : k \in DOMAIN q.script}
<1>2. Names(p) \subseteq Resources
  <2>1. Resources = UNION {Names(q) : q \in AllPrograms}
    BY DEF Resources
  <2> HIDE DEF Names
  <2> QED BY <2>1
<1>3. /\ p.args \subseteq Resources /\ p.gives \subseteq Resources
      /\ \A k \in 1..Len(p.script) : p.script[k].get \subseteq Resources
  BY <1>1, <1>2
<1>4. \A k, r : r \in Before(p, k) => \E i \in 1..Len(p.script) : r \in p.script[i].get
  BY DEF Before
<1> QED BY <1>1, <1>3, <1>4

-----------------------------------------------------------------------------
(* What is held. *)

Counts == [Resources -> {0, 1}]

Held(live) == {r \in Resources : live[r] = 1}

LEMMA Acquired ==
    ASSUME NEW live \in Counts, NEW rs, rs \subseteq Resources, rs \cap Held(live) = {}
    PROVE  Acquire(live, rs) \in Counts /\ Held(Acquire(live, rs)) = Held(live) \cup rs
BY DEF Acquire, Held, Counts

LEMMA Released ==
    ASSUME NEW live \in Counts, NEW rs, rs \subseteq Held(live)
    PROVE  Release(live, rs) \in Counts /\ Held(Release(live, rs)) = Held(live) \ rs
BY DEF Release, Held, Counts

-----------------------------------------------------------------------------
(* The inductive invariant. *)

JobRecord ==
    [at : {"none", "queued", "run", "done"}, prog : AllPrograms \cup {None}, pc : Nat,
     err : BOOLEAN, code : BOOLEAN, failed : BOOLEAN,
     outcome : {"waiting", "value", "error", "Cancelled"},
     refs : SUBSET {"coroutine", "worker"}, fetched : BOOLEAN, live : Counts,
     mine : SUBSET Resources, text : Jobs \cup {None}]

Assigning(rec) == rec.prog.name = "spawn assign" /\ rec.failed

\* The results that are in nobody's hands but the job's, or in the coroutine's.
Results(rec) ==
    CASE rec.at = "run"                                  -> Before(rec.prog, rec.pc)
      [] rec.at = "done" /\ ~ rec.failed /\ rec.fetched  -> rec.mine
      [] rec.at = "done" /\ ~ rec.failed /\ ~ rec.fetched ->
           IF rec.refs = {} THEN rec.prog.gives \ rec.prog.keeps ELSE rec.prog.gives
      [] OTHER -> {}

Arguments(rec) == IF rec.refs = {} THEN {} ELSE rec.prog.args

\* What a job has acquired and not released: its arguments and its results.
HeldOK(rec) ==
    IF Assigning(rec) THEN Arguments(rec) \subseteq Held(rec.live)
                      ELSE Held(rec.live) = Arguments(rec) \cup Results(rec)

\* How far the worker and the coroutine are.
CourseOK(rec) ==
    /\ rec.prog \in AllPrograms
    /\ rec.at \in {"queued", "run"} =>
         "worker" \in rec.refs /\ ~ rec.failed /\ rec.outcome \in {"waiting", "Cancelled"}
    /\ rec.at = "run" => rec.pc \in 1..Len(rec.prog.script)
    /\ rec.failed <=> rec.err \/ rec.code
    /\ rec.outcome = "waiting" <=> "coroutine" \in rec.refs
    /\ rec.fetched <=> rec.outcome = "value"
    /\ rec.outcome = "value" => ~ rec.failed
    /\ rec.outcome = "error" => rec.failed
    /\ rec.mine # {} => rec.fetched /\ rec.mine \subseteq rec.prog.gives
    /\ rec.outcome = "Cancelled" => rec.prog.cancel \in {"detached", "cancellable"}

JobOK(rec) ==
    /\ rec \in JobRecord
    /\ IF rec.at = "none" THEN rec = NoJob ELSE CourseOK(rec) /\ HeldOK(rec)

\* The buffer belongs to the job that has written and not read it yet.
BufferOK(j) ==
    ~ SharesBuffer(j) =>
      /\ job[j].text \in {j, None}
      /\ job[j].at = "run" /\ (\E i \in 1..(job[j].pc - 1) : Script(j)[i].buf = "write")
           => buf = j

IndInv ==
    /\ job \in [Jobs -> JobRecord] /\ buf \in Jobs \cup {None}
    /\ \A j \in Jobs : JobOK(job[j]) /\ BufferOK(j)

LEMMA NoJobOK == JobOK(NoJob) /\ NoJob.at = "none" /\ NoJob.text = None
<1>1. [r \in Resources |-> 0] \in Counts
  BY DEF Counts
<1> QED BY <1>1 DEF JobOK, NoJob, JobRecord

\* When the last reference is dropped, the arguments and the results that nobody
\* took are released, and nothing else.
LEMMA Dropped ==
    ASSUME NEW rec \in JobRecord, rec.prog \in AllPrograms, HeldOK(rec),
           NEW ref \in rec.refs, rec.refs = {ref} => rec.at = "done", rec.at # "none",
           rec.mine # {} => rec.fetched /\ rec.mine \subseteq rec.prog.gives,
           NEW new, new = Drop(rec, ref)
    PROVE  /\ new \in JobRecord /\ HeldOK(new)
           /\ new.at = rec.at /\ new.prog = rec.prog /\ new.pc = rec.pc
           /\ new.err = rec.err /\ new.code = rec.code /\ new.failed = rec.failed
           /\ new.outcome = rec.outcome /\ new.refs = rec.refs \ {ref}
           /\ new.fetched = rec.fetched /\ new.mine = rec.mine /\ new.text = rec.text
<1>1. /\ rec.live \in Counts /\ rec.refs \subseteq {"coroutine", "worker"}
      /\ rec.failed \in BOOLEAN /\ rec.fetched \in BOOLEAN
  BY DEF JobRecord
<1>2. /\ rec.prog.args \cap rec.prog.gives = {} /\ rec.prog.keeps \subseteq rec.prog.gives
      /\ rec.prog.args \subseteq Resources /\ rec.prog.gives \subseteq Resources
  BY AllBalanced, Parts DEF Balanced
<1>3. PICK live : live = IF rec.refs = {ref} THEN Release(rec.live, Finalised(rec)) ELSE rec.live
  OBVIOUS
<1>4. new = [rec EXCEPT !.refs = rec.refs \ {ref}, !.live = live]
  BY <1>3 DEF Drop
<1>5. /\ new.at = rec.at /\ new.prog = rec.prog /\ new.pc = rec.pc
      /\ new.err = rec.err /\ new.code = rec.code /\ new.failed = rec.failed
      /\ new.outcome = rec.outcome /\ new.refs = rec.refs \ {ref} /\ new.live = live
      /\ new.fetched = rec.fetched /\ new.mine = rec.mine /\ new.text = rec.text
  BY <1>4 DEF JobRecord
<1>6. live \in Counts => new \in JobRecord
  BY <1>4 DEF JobRecord
<1>7. CASE rec.refs # {ref}
  <2>1. live = rec.live /\ new.refs # {} /\ rec.refs # {}
    BY <1>3, <1>5, <1>7
  <2>2. Arguments(new) = Arguments(rec) /\ Results(new) = Results(rec)
    BY <1>5, <2>1 DEF Arguments, Results
  <2>3. HeldOK(new)
    BY <1>5, <2>1, <2>2 DEF HeldOK, Assigning
  <2> QED BY <1>1, <1>5, <1>6, <2>1, <2>3
<1>8. CASE rec.refs = {ref}
  <2>1. rec.at = "done" /\ live = Release(rec.live, Finalised(rec)) /\ new.refs = {}
    BY <1>3, <1>5, <1>8
  <2>2. Arguments(rec) = rec.prog.args /\ Arguments(new) = {}
    BY <1>8, <2>1 DEF Arguments
  <2>3. CASE rec.failed
    <3>1. Finalised(rec) = rec.prog.args
      BY <2>3 DEF Finalised
    <3>2. rec.prog.args \subseteq Held(rec.live)
      BY <2>2 DEF HeldOK
    <3>3. live \in Counts /\ Held(live) = Held(rec.live) \ rec.prog.args
      BY <1>1, <2>1, <3>1, <3>2, Released
    <3>4. Results(rec) = {} /\ Results(new) = {}
      BY <1>5, <2>1, <2>3 DEF Results
    <3>5. HeldOK(new)
      BY <1>5, <2>2, <3>3, <3>4 DEF HeldOK, Assigning
    <3> QED BY <1>5, <1>6, <3>3, <3>5
  <2>4. CASE ~ rec.failed /\ rec.fetched
    <3>1. Finalised(rec) = rec.prog.args
      BY <2>4 DEF Finalised
    <3>2. Results(rec) = rec.mine /\ Results(new) = rec.mine
      BY <1>5, <2>1, <2>4 DEF Results
    <3>3. Held(rec.live) = rec.prog.args \cup rec.mine /\ rec.mine \cap rec.prog.args = {}
      BY <1>2, <2>2, <2>4, <3>2 DEF HeldOK, Assigning
    <3>4. live \in Counts /\ Held(live) = Held(rec.live) \ rec.prog.args
      BY <1>1, <2>1, <3>1, <3>3, Released
    <3>5. HeldOK(new)
      BY <1>5, <2>2, <2>4, <3>2, <3>3, <3>4 DEF HeldOK, Assigning
    <3> QED BY <1>5, <1>6, <3>4, <3>5
  <2>5. CASE ~ rec.failed /\ ~ rec.fetched
    <3>1. Finalised(rec) = rec.prog.args \cup rec.prog.keeps
      BY <2>1, <2>5 DEF Finalised
    <3>2. Results(rec) = rec.prog.gives /\ Results(new) = rec.prog.gives \ rec.prog.keeps
      BY <1>5, <1>8, <2>1, <2>5 DEF Results
    <3>3. Held(rec.live) = rec.prog.args \cup rec.prog.gives
      BY <2>2, <2>5, <3>2 DEF HeldOK, Assigning
    <3>4. live \in Counts /\ Held(live) = Held(rec.live) \ (rec.prog.args \cup rec.prog.keeps)
      BY <1>1, <1>2, <2>1, <3>1, <3>3, Released
    <3>5. HeldOK(new)
      BY <1>2, <1>5, <2>2, <2>5, <3>2, <3>3, <3>4 DEF HeldOK, Assigning
    <3> QED BY <1>5, <1>6, <3>4, <3>5
  <2> QED BY <1>1, <2>3, <2>4, <2>5
<1> QED BY <1>7, <1>8

LEMMA Made ==
    ASSUME NEW p \in AllPrograms, NEW new,
           new = [NoJob EXCEPT !.at = "queued", !.prog = p, !.refs = {"coroutine", "worker"},
                               !.live = Acquire(@, p.args)]
    PROVE  JobOK(new) /\ new.at = "queued" /\ new.prog = p /\ new.text = None
<1>1. PICK live : live = Acquire([r \in Resources |-> 0], p.args)
  OBVIOUS
<1>2. /\ [r \in Resources |-> 0] \in Counts /\ Held([r \in Resources |-> 0]) = {}
      /\ p.args \subseteq Resources
  BY Parts DEF Counts, Held
<1>3. live \in Counts /\ Held(live) = p.args
  BY <1>1, <1>2, Acquired
<1>4. /\ new.at = "queued" /\ new.prog = p /\ new.outcome = "waiting" /\ new.mine = {}
      /\ new.err = FALSE /\ new.code = FALSE /\ new.failed = FALSE /\ new.fetched = FALSE
      /\ new.refs = {"coroutine", "worker"} /\ new.live = live /\ new.text = None
  BY <1>1 DEF NoJob
<1>5. new \in JobRecord
  BY <1>1, <1>3 DEF NoJob, JobRecord
<1>6. CourseOK(new)
  BY <1>4 DEF CourseOK
<1>7. Arguments(new) = p.args /\ Results(new) = {}
  BY <1>4 DEF Arguments, Results
<1>8. HeldOK(new)
  BY <1>3, <1>4, <1>7 DEF HeldOK, Assigning
<1> QED BY <1>4, <1>5, <1>6, <1>8 DEF JobOK

LEMMA Started ==
    ASSUME NEW rec, JobOK(rec), rec.at = "queued",
           NEW new, new = [rec EXCEPT !.at = "run", !.pc = 1]
    PROVE  JobOK(new) /\ new.at = "run" /\ new.prog = rec.prog /\ new.text = rec.text /\ new.pc = 1
<1>1. rec \in JobRecord /\ CourseOK(rec) /\ HeldOK(rec)
  BY DEF JobOK
<1>2. /\ new \in JobRecord /\ new.at = "run" /\ new.prog = rec.prog /\ new.pc = 1
      /\ new.err = rec.err /\ new.code = rec.code /\ new.failed = rec.failed
      /\ new.outcome = rec.outcome /\ new.refs = rec.refs /\ new.live = rec.live
      /\ new.fetched = rec.fetched /\ new.mine = rec.mine /\ new.text = rec.text
  BY <1>1 DEF JobRecord
<1>3. 1 \in 1..Len(rec.prog.script)
  BY <1>1, AllBalanced DEF CourseOK, Balanced
<1>4. CourseOK(new)
  BY <1>1, <1>2, <1>3 DEF CourseOK
<1>5. Results(rec) = {} /\ Results(new) = {} /\ Arguments(new) = Arguments(rec)
  BY <1>2, BeforeFirst DEF Results, Arguments
<1>6. HeldOK(new)
  BY <1>1, <1>2, <1>5 DEF HeldOK, Assigning
<1> QED BY <1>2, <1>4, <1>6 DEF JobOK

\* The worker is in a call.
Running(rec) == rec \in JobRecord /\ rec.at = "run" /\ CourseOK(rec)

\* What the worker's steps leave alone.
SameSide(new, rec) ==
    /\ new.prog = rec.prog /\ new.outcome = rec.outcome /\ new.refs = rec.refs
    /\ new.fetched = rec.fetched /\ new.mine = rec.mine

\* The call is over, with everything done that leads to the next one.
Settled(rec, last) ==
    /\ Held(rec.live) = rec.prog.args \cup Before(rec.prog, rec.pc + 1)
    /\ last => rec.prog.script[rec.pc].final

\* The worker has gone from rec to the next call, or returned.
Moved(new, rec) ==
    /\ new.prog = rec.prog /\ new.text = rec.text
    /\ new.at = "done" \/ (new.at = "run" /\ new.pc = rec.pc + 1)

LEMMA Passed ==
    ASSUME NEW j, NEW rec, Running(rec), rec.prog = job[j].prog, NEW last \in BOOLEAN,
           Settled(rec, last), NEW new, new = Goes(j, rec, last)
    PROVE  JobOK(new) /\ Moved(new, rec)
<1>1. /\ rec \in JobRecord /\ rec.pc \in 1..Len(rec.prog.script)
      /\ rec.failed \in BOOLEAN /\ rec.fetched \in BOOLEAN /\ rec.prog \in AllPrograms
  BY DEF Running, CourseOK, JobRecord
<1>2. Len(rec.prog.script) \in Nat /\ BalancedCall(rec.prog, rec.pc)
  BY <1>1, AllBalanced DEF Balanced
<1>3. rec.refs # {} /\ rec.failed = FALSE /\ rec.fetched = FALSE
  BY <1>1 DEF Running, CourseOK
<1>4. CASE last \/ rec.pc = Len(rec.prog.script)
  <2>1. new = [rec EXCEPT !.at = "done"]
    BY <1>4 DEF Goes, Script
  <2>2. /\ new \in JobRecord /\ new.at = "done" /\ new.prog = rec.prog /\ new.pc = rec.pc
        /\ new.err = rec.err /\ new.code = rec.code /\ new.failed = FALSE
        /\ new.outcome = rec.outcome /\ new.refs = rec.refs /\ new.live = rec.live
        /\ new.fetched = FALSE /\ new.mine = rec.mine /\ new.text = rec.text
    BY <1>1, <1>3, <2>1 DEF JobRecord
  <2>3. CourseOK(new)
    BY <1>1, <1>3, <2>2 DEF CourseOK, Running
  <2>4. Before(rec.prog, rec.pc + 1) = rec.prog.gives
    BY <1>2, <1>4 DEF BalancedCall, Settled
  <2>5. Arguments(new) = rec.prog.args /\ Results(new) = rec.prog.gives
    BY <1>3, <2>2 DEF Arguments, Results
  <2>6. HeldOK(new)
    BY <2>2, <2>4, <2>5 DEF HeldOK, Assigning, Settled
  <2> QED BY <2>2, <2>3, <2>6 DEF JobOK, Moved
<1>5. CASE ~ (last \/ rec.pc = Len(rec.prog.script))
  <2>1. new = [rec EXCEPT !.pc = rec.pc + 1]
    BY <1>5 DEF Goes, Script
  <2>2. /\ new \in JobRecord /\ new.at = "run" /\ new.prog = rec.prog /\ new.pc = rec.pc + 1
        /\ new.err = rec.err /\ new.code = rec.code /\ new.failed = FALSE
        /\ new.outcome = rec.outcome /\ new.refs = rec.refs /\ new.live = rec.live
        /\ new.fetched = FALSE /\ new.mine = rec.mine /\ new.text = rec.text
    BY <1>1, <1>3, <2>1 DEF JobRecord, Running
  <2>3. rec.pc + 1 \in 1..Len(rec.prog.script)
    BY <1>1, <1>2, <1>5
  <2>4. CourseOK(new)
    BY <1>1, <1>3, <2>2, <2>3 DEF CourseOK, Running
  <2>5. Arguments(new) = rec.prog.args /\ Results(new) = Before(rec.prog, rec.pc + 1)
    BY <1>3, <2>2 DEF Arguments, Results
  <2>6. HeldOK(new)
    BY <2>2, <2>5 DEF HeldOK, Assigning, Settled
  <2> QED BY <2>2, <2>4, <2>6 DEF JobOK, Moved
<1> QED BY <1>4, <1>5

\* The worker has returned because of a failure, and left nothing behind.
FailedCleanly(new) ==
    /\ new.at = "done" /\ new.failed = TRUE /\ (new.err = TRUE \/ new.code = TRUE)
    /\ new.prog.args \subseteq Held(new.live)
    /\ new.prog.name = "spawn assign" \/ Held(new.live) = new.prog.args

LEMMA Failed ==
    ASSUME NEW rec, Running(rec), NEW new \in JobRecord, SameSide(new, rec), FailedCleanly(new)
    PROVE  JobOK(new)
<1>1. /\ rec.fetched \in BOOLEAN /\ new.err \in BOOLEAN /\ new.code \in BOOLEAN
      /\ rec.failed \in BOOLEAN
  BY DEF Running, JobRecord
<1>2. CourseOK(new)
  BY <1>1 DEF CourseOK, Running, SameSide, FailedCleanly
<1>3. new.refs # {}
  BY DEF Running, CourseOK, SameSide
<1>4. Arguments(new) = new.prog.args /\ Results(new) = {}
  BY <1>3 DEF Arguments, Results, FailedCleanly
<1>5. HeldOK(new)
  BY <1>4 DEF HeldOK, Assigning, FailedCleanly
<1> QED BY <1>2, <1>5 DEF JobOK, FailedCleanly

\* A job in a call: the call is balanced, and what the job holds is known.
LEMMA InCall ==
    ASSUME NEW rec, JobOK(rec), rec.at = "run"
    PROVE  /\ Running(rec) /\ rec.failed = FALSE
           /\ BalancedCall(rec.prog, rec.pc)
           /\ Before(rec.prog, rec.pc + 1) =
                (Before(rec.prog, rec.pc) \cup rec.prog.script[rec.pc].get)
                  \ rec.prog.script[rec.pc].put
           /\ rec.live \in Counts
           /\ Held(rec.live) = rec.prog.args \cup Before(rec.prog, rec.pc)
           /\ Before(rec.prog, rec.pc) \cap rec.prog.args = {}
           /\ rec.prog.script[rec.pc].get \subseteq Resources
<1>1. rec \in JobRecord /\ CourseOK(rec) /\ HeldOK(rec)
  BY DEF JobOK
<1>2. /\ rec.prog \in AllPrograms /\ rec.pc \in 1..Len(rec.prog.script)
      /\ "worker" \in rec.refs /\ ~ rec.failed /\ rec.outcome \in {"waiting", "Cancelled"}
  BY <1>1 DEF CourseOK
<1>3. rec.failed \in BOOLEAN /\ rec.fetched \in BOOLEAN /\ rec.live \in Counts
  BY <1>1 DEF JobRecord
<1>4. Running(rec)
  BY <1>1 DEF Running
<1>5. Len(rec.prog.script) \in Nat /\ BalancedCall(rec.prog, rec.pc)
  BY <1>2, AllBalanced DEF Balanced
<1>6. Before(rec.prog, rec.pc + 1) =
        (Before(rec.prog, rec.pc) \cup rec.prog.script[rec.pc].get) \ rec.prog.script[rec.pc].put
  BY <1>2, <1>5, BeforeNext
<1>7. Held(rec.live) = rec.prog.args \cup Before(rec.prog, rec.pc)
  <2>1. Arguments(rec) = rec.prog.args /\ Results(rec) = Before(rec.prog, rec.pc)
    BY <1>2 DEF Arguments, Results
  <2> QED BY <1>1, <1>2, <2>1 DEF HeldOK, Assigning
<1>8. /\ Before(rec.prog, rec.pc) \cap rec.prog.args = {}
      /\ rec.prog.script[rec.pc].get \subseteq Resources
  BY <1>2, Parts
<1> QED BY <1>2, <1>3, <1>4, <1>5, <1>6, <1>7, <1>8


\* The records that CallSucceeds and CallFails make.
AfterCall(rec, c, text) ==
    [rec EXCEPT !.live = Release(Acquire(@, c.get), c.put), !.text = text]

AfterFault(rec, c) == [rec EXCEPT !.live = Release(@, c.undo \cup c.put)]

FaultGoes(j, mid, how) ==
    CASE how = "loud"  -> Goes(j, Reported(mid), TRUE)
      [] how = "code"  -> Goes(j, [mid EXCEPT !.failed = TRUE, !.code = TRUE], FALSE)
      [] how = "quiet" -> Goes(j, mid, FALSE)

\* The worker is one call further, or has returned.
Advanced(new, rec, text) ==
    /\ new.prog = rec.prog /\ new.at # "none" /\ new.text = text
    /\ new.at = "run" => new.pc = rec.pc + 1

LEMMA Succeeded ==
    ASSUME NEW j, NEW rec, rec = job[j], JobOK(rec), rec.at = "run",
           NEW c, c = rec.prog.script[rec.pc], NEW text \in Jobs \cup {None},
           NEW new, new = Goes(j, AfterCall(rec, c, text), c.final)
    PROVE  JobOK(new) /\ Advanced(new, rec, text)
<1>1. /\ Running(rec) /\ rec.failed = FALSE /\ BalancedCall(rec.prog, rec.pc)
      /\ Before(rec.prog, rec.pc + 1) = (Before(rec.prog, rec.pc) \cup c.get) \ c.put
      /\ rec.live \in Counts /\ Held(rec.live) = rec.prog.args \cup Before(rec.prog, rec.pc)
      /\ Before(rec.prog, rec.pc) \cap rec.prog.args = {} /\ c.get \subseteq Resources
  BY InCall
<1>2. /\ c.get \cap Before(rec.prog, rec.pc) = {} /\ c.get \cap rec.prog.args = {}
      /\ c.put \subseteq Before(rec.prog, rec.pc)
  BY <1>1 DEF BalancedCall
<1>3. PICK one, live : one = Acquire(rec.live, c.get) /\ live = Release(one, c.put)
  OBVIOUS
<1>4. one \in Counts /\ Held(one) = Held(rec.live) \cup c.get
  <2>1. c.get \cap Held(rec.live) = {}
    BY <1>1, <1>2
  <2> QED BY <1>1, <1>3, <2>1, Acquired
<1>5. live \in Counts /\ Held(live) = Held(one) \ c.put
  <2>1. c.put \subseteq Held(one)
    BY <1>1, <1>2, <1>4
  <2> QED BY <1>3, <1>4, <2>1, Released
<1>6. Held(live) = rec.prog.args \cup Before(rec.prog, rec.pc + 1)
  BY <1>1, <1>2, <1>4, <1>5
<1>7. PICK mid : mid = [rec EXCEPT !.live = live, !.text = text]
  OBVIOUS
<1>8. /\ mid \in JobRecord /\ mid.at = rec.at /\ mid.prog = rec.prog /\ mid.pc = rec.pc
      /\ mid.err = rec.err /\ mid.code = rec.code /\ mid.failed = rec.failed
      /\ mid.outcome = rec.outcome /\ mid.refs = rec.refs /\ mid.live = live
      /\ mid.fetched = rec.fetched /\ mid.mine = rec.mine /\ mid.text = text
  BY <1>1, <1>5, <1>7 DEF Running, JobRecord
<1>9. Running(mid)
  BY <1>1, <1>8 DEF Running, CourseOK
<1>10. PICK last \in BOOLEAN : last <=> c.final
  OBVIOUS
<1>11. new = Goes(j, mid, last)
  <2>1. new = Goes(j, mid, c.final)
    BY <1>3, <1>7 DEF AfterCall
  <2> QED BY <1>10, <2>1 DEF Goes
<1>12. JobOK(new) /\ Moved(new, mid)
  <2>1. Settled(mid, last)
    BY <1>6, <1>8, <1>10 DEF Settled
  <2>2. mid.prog = job[j].prog
    BY <1>8
  <2> QED BY <1>9, <1>11, <2>1, <2>2, Passed
<1> QED BY <1>8, <1>12 DEF Moved, Advanced

LEMMA Faulted ==
    ASSUME NEW j, NEW rec, rec = job[j], JobOK(rec), rec.at = "run",
           NEW c, c = rec.prog.script[rec.pc],
           NEW how \in {"loud", "quiet", "code"}, how \in c.fails,
           NEW new, new = FaultGoes(j, AfterFault(rec, c), how)
    PROVE  JobOK(new) /\ Advanced(new, rec, rec.text) /\ (new.at = "run" => c.buf = "none")
<1>1. /\ Running(rec) /\ rec.failed = FALSE /\ BalancedCall(rec.prog, rec.pc)
      /\ rec.live \in Counts /\ Held(rec.live) = rec.prog.args \cup Before(rec.prog, rec.pc)
      /\ Before(rec.prog, rec.pc) \cap rec.prog.args = {}
  BY InCall
<1>2. /\ c.undo \subseteq Before(rec.prog, rec.pc) /\ c.put \subseteq Before(rec.prog, rec.pc)
      /\ Left(rec.prog, rec.pc) = Before(rec.prog, rec.pc) \ (c.undo \cup c.put)
      /\ how = "loud" => Left(rec.prog, rec.pc) = {} \/ rec.prog.name = "spawn assign"
      /\ how = "quiet" => Left(rec.prog, rec.pc) = Before(rec.prog, rec.pc + 1) /\ c.buf = "none"
      /\ how = "code" => rec.pc = Len(rec.prog.script) /\ Left(rec.prog, rec.pc) = {}
  BY <1>1 DEF BalancedCall, Left
<1>3. PICK live : live = Release(rec.live, c.undo \cup c.put)
  OBVIOUS
<1>4. live \in Counts /\ Held(live) = rec.prog.args \cup Left(rec.prog, rec.pc)
  <2>1. c.undo \cup c.put \subseteq Held(rec.live)
    BY <1>1, <1>2
  <2>2. live \in Counts /\ Held(live) = Held(rec.live) \ (c.undo \cup c.put)
    BY <1>1, <1>3, <2>1, Released
  <2> QED BY <1>1, <1>2, <2>2
<1>5. PICK mid : mid = [rec EXCEPT !.live = live] /\ new = FaultGoes(j, mid, how)
  BY <1>3 DEF AfterFault
<1>6. rec \in JobRecord
  BY <1>1 DEF Running
<1>7. CASE how = "quiet"
  <2>1. /\ mid \in JobRecord /\ mid.at = rec.at /\ mid.prog = rec.prog /\ mid.pc = rec.pc
        /\ mid.err = rec.err /\ mid.code = rec.code /\ mid.failed = rec.failed
        /\ mid.outcome = rec.outcome /\ mid.refs = rec.refs /\ mid.live = live
        /\ mid.fetched = rec.fetched /\ mid.mine = rec.mine /\ mid.text = rec.text
    BY <1>4, <1>5, <1>6 DEF JobRecord
  <2>2. Running(mid)
    BY <1>1, <2>1 DEF Running, CourseOK
  <2>3. PICK last \in BOOLEAN : last = FALSE /\ new = Goes(j, mid, last)
    BY <1>5, <1>7 DEF FaultGoes
  <2>4. Settled(mid, last)
    BY <1>2, <1>4, <1>7, <2>1, <2>3 DEF Settled
  <2>5. mid.prog = job[j].prog
    BY <2>1
  <2>6. JobOK(new) /\ Moved(new, mid)
    BY <2>2, <2>3, <2>4, <2>5, Passed
  <2> QED BY <1>2, <1>7, <2>1, <2>6 DEF Moved, Advanced
<1>8. CASE how = "loud"
  <2>1. new = [[[rec EXCEPT !.live = live] EXCEPT !.failed = TRUE, !.err = TRUE]
                  EXCEPT !.at = "done"]
    BY <1>5, <1>8 DEF Goes, Reported, FaultGoes
  <2>2. /\ new \in JobRecord /\ new.at = "done" /\ new.prog = rec.prog
        /\ new.err = TRUE /\ new.failed = TRUE
        /\ new.outcome = rec.outcome /\ new.refs = rec.refs /\ new.live = live
        /\ new.fetched = rec.fetched /\ new.mine = rec.mine /\ new.text = rec.text
    BY <1>4, <1>6, <2>1 DEF JobRecord
  <2>3. SameSide(new, rec) /\ FailedCleanly(new)
    <3>1. /\ new.prog.args \subseteq Held(new.live)
          /\ new.prog.name = "spawn assign" \/ Held(new.live) = new.prog.args
      <4>1. Left(rec.prog, rec.pc) = {} \/ rec.prog.name = "spawn assign"
        BY <1>2, <1>8
      <4>2. Held(new.live) = new.prog.args \cup Left(rec.prog, rec.pc) /\ new.prog = rec.prog
        BY <1>4, <2>2
      <4> QED BY <4>1, <4>2
    <3> QED BY <2>2, <3>1 DEF SameSide, FailedCleanly
  <2>4. JobOK(new)
    BY <1>1, <2>2, <2>3, Failed
  <2> QED BY <2>2, <2>4 DEF Advanced
<1>9. CASE how = "code"
  <2>1. new = [[[rec EXCEPT !.live = live] EXCEPT !.failed = TRUE, !.code = TRUE]
                  EXCEPT !.at = "done"]
    <3>1. PICK end : end = [[rec EXCEPT !.live = live] EXCEPT !.failed = TRUE, !.code = TRUE]
      OBVIOUS
    <3>2. new = Goes(j, end, FALSE)
      BY <1>5, <1>9, <3>1 DEF FaultGoes
    <3>3. end.pc = rec.pc
      BY <1>6, <3>1 DEF JobRecord
    <3> QED BY <1>2, <1>9, <3>1, <3>2, <3>3 DEF Goes, Script
  <2>2. /\ new \in JobRecord /\ new.at = "done" /\ new.prog = rec.prog
        /\ new.code = TRUE /\ new.failed = TRUE
        /\ new.outcome = rec.outcome /\ new.refs = rec.refs /\ new.live = live
        /\ new.fetched = rec.fetched /\ new.mine = rec.mine /\ new.text = rec.text
    BY <1>4, <1>6, <2>1 DEF JobRecord
  <2>3. SameSide(new, rec) /\ FailedCleanly(new)
    <3>1. Held(new.live) = new.prog.args
      BY <1>2, <1>4, <1>9, <2>2
    <3> QED BY <2>2, <3>1 DEF SameSide, FailedCleanly
  <2>4. JobOK(new)
    BY <1>1, <2>2, <2>3, Failed
  <2> QED BY <2>2, <2>4 DEF Advanced
<1> QED BY <1>7, <1>8, <1>9

\* A reference is dropped and the others see no difference.
Kept(new, rec) ==
    new.at = rec.at /\ new.prog = rec.prog /\ new.pc = rec.pc /\ new.text = rec.text

LEMMA DroppedOK ==
    ASSUME NEW rec \in JobRecord, rec.at # "none", HeldOK(rec), NEW ref \in rec.refs,
           rec.refs = {ref} => rec.at = "done",
           CourseOK([rec EXCEPT !.refs = rec.refs \ {ref}]),
           NEW new, new = Drop(rec, ref)
    PROVE  JobOK(new) /\ Kept(new, rec)
<1>1. PICK x : x = [rec EXCEPT !.refs = rec.refs \ {ref}]
  OBVIOUS
<1>2. /\ x.at = rec.at /\ x.prog = rec.prog /\ x.pc = rec.pc
      /\ x.err = rec.err /\ x.code = rec.code /\ x.failed = rec.failed
      /\ x.outcome = rec.outcome /\ x.refs = rec.refs \ {ref}
      /\ x.fetched = rec.fetched /\ x.mine = rec.mine
  BY <1>1 DEF JobRecord
<1>3. CourseOK(x)
  BY <1>1
<1>4. /\ rec.prog \in AllPrograms
      /\ rec.mine # {} => rec.fetched /\ rec.mine \subseteq rec.prog.gives
  BY <1>2, <1>3 DEF CourseOK
<1>5. /\ new \in JobRecord /\ HeldOK(new)
      /\ new.at = rec.at /\ new.prog = rec.prog /\ new.pc = rec.pc
      /\ new.err = rec.err /\ new.code = rec.code /\ new.failed = rec.failed
      /\ new.outcome = rec.outcome /\ new.refs = rec.refs \ {ref}
      /\ new.fetched = rec.fetched /\ new.mine = rec.mine /\ new.text = rec.text
  BY <1>4, Dropped
<1>6. CourseOK(new)
  BY <1>2, <1>3, <1>5 DEF CourseOK
<1> QED BY <1>5, <1>6 DEF JobOK, Kept

\* The worker drops a job that is done.
LEMMA WorkerDropped ==
    ASSUME NEW rec, JobOK(rec), rec.at = "done", "worker" \in rec.refs,
           NEW new, new = Drop(rec, "worker")
    PROVE  JobOK(new) /\ Kept(new, rec)
<1>1. rec \in JobRecord /\ CourseOK(rec) /\ HeldOK(rec)
  BY DEF JobOK
<1>2. PICK x : x = [rec EXCEPT !.refs = rec.refs \ {"worker"}]
  OBVIOUS
<1>3. /\ x.at = rec.at /\ x.prog = rec.prog /\ x.pc = rec.pc
      /\ x.err = rec.err /\ x.code = rec.code /\ x.failed = rec.failed
      /\ x.outcome = rec.outcome /\ x.refs = rec.refs \ {"worker"}
      /\ x.fetched = rec.fetched /\ x.mine = rec.mine
  BY <1>1, <1>2 DEF JobRecord
<1>4. CourseOK(x)
  BY <1>1, <1>3 DEF CourseOK
<1> QED BY <1>1, <1>2, <1>4, DroppedOK

\* The coroutine gets its outcome, takes over the results of a success, and drops
\* the job.
Concluded(mid, rec) ==
    /\ mid.at = rec.at /\ mid.prog = rec.prog /\ mid.pc = rec.pc
    /\ mid.err = rec.err /\ mid.code = rec.code /\ mid.failed = rec.failed
    /\ mid.refs = rec.refs /\ mid.live = rec.live /\ mid.text = rec.text
    /\ \/ /\ mid.outcome = "value" /\ rec.at = "done" /\ rec.err = FALSE /\ rec.code = FALSE
          /\ mid.fetched = TRUE /\ mid.mine = rec.prog.gives
       \/ /\ mid.outcome = "error" /\ rec.at = "done" /\ (rec.err = TRUE \/ rec.code = TRUE)
          /\ mid.fetched = rec.fetched /\ mid.mine = rec.mine
       \/ /\ mid.outcome = "Cancelled" /\ rec.prog.cancel \in {"detached", "cancellable"}
          /\ mid.fetched = rec.fetched /\ mid.mine = rec.mine

LEMMA CoroutineDropped ==
    ASSUME NEW rec, JobOK(rec), rec.at # "none", rec.outcome = "waiting",
           NEW mid \in JobRecord, Concluded(mid, rec),
           NEW new, new = Drop(mid, "coroutine")
    PROVE  JobOK(new) /\ Kept(new, rec)
<1>1. rec \in JobRecord /\ CourseOK(rec) /\ HeldOK(rec)
  BY DEF JobOK
<1>2. /\ rec.failed \in BOOLEAN /\ rec.fetched \in BOOLEAN
      /\ rec.err \in BOOLEAN /\ rec.code \in BOOLEAN
  BY <1>1 DEF JobRecord
<1>3. /\ "coroutine" \in rec.refs /\ rec.fetched = FALSE /\ rec.mine = {}
      /\ rec.at # "done" => "worker" \in rec.refs
      /\ rec.failed <=> rec.err \/ rec.code
  BY <1>1, <1>2 DEF CourseOK, JobRecord
<1>4. PICK x : x = [mid EXCEPT !.refs = mid.refs \ {"coroutine"}]
  OBVIOUS
<1>5. /\ x.at = mid.at /\ x.prog = mid.prog /\ x.pc = mid.pc
      /\ x.err = mid.err /\ x.code = mid.code /\ x.failed = mid.failed
      /\ x.outcome = mid.outcome /\ x.refs = mid.refs \ {"coroutine"}
      /\ x.fetched = mid.fetched /\ x.mine = mid.mine
  BY <1>4 DEF JobRecord
<1>6. CourseOK(x)
  BY <1>1, <1>2, <1>3, <1>5 DEF CourseOK, Concluded
<1>7. HeldOK(mid)
  <2>1. Arguments(mid) = Arguments(rec) /\ (Assigning(mid) <=> Assigning(rec))
    BY DEF Arguments, Assigning, Concluded
  <2>2. Results(mid) = Results(rec)
    <3>1. CASE mid.fetched = rec.fetched
      BY <1>3, <3>1 DEF Results, Concluded
    <3>2. CASE mid.fetched # rec.fetched
      <4>1. rec.at = "done" /\ ~ rec.failed /\ mid.fetched = TRUE /\ mid.mine = rec.prog.gives
        BY <1>3, <3>2 DEF Concluded
      <4>2. mid.at = "done" /\ ~ mid.failed
        BY <4>1 DEF Concluded
      <4>3. Results(mid) = rec.prog.gives
        BY <4>1, <4>2 DEF Results
      <4>4. Results(rec) = rec.prog.gives
        BY <1>3, <4>1 DEF Results
      <4> QED BY <4>3, <4>4
    <3> QED BY <3>1, <3>2
  <2>3. mid.live = rec.live
    BY DEF Concluded
  <2> QED BY <1>1, <2>1, <2>2, <2>3 DEF HeldOK
<1>8. mid.at # "none" /\ "coroutine" \in mid.refs /\ (mid.refs = {"coroutine"} => mid.at = "done")
  BY <1>3 DEF Concluded
<1>9. JobOK(new) /\ Kept(new, mid)
  BY <1>4, <1>6, <1>7, <1>8, DroppedOK
<1> QED BY <1>9 DEF Kept, Concluded

\* The coroutine closes what it got.
LEMMA Closed ==
    ASSUME NEW rec, JobOK(rec), rec.mine # {},
           NEW new, new = [rec EXCEPT !.live = Release(@, rec.mine), !.mine = {}]
    PROVE  JobOK(new) /\ Kept(new, rec)
<1>1. rec \in JobRecord /\ rec.at # "none"
  BY DEF JobOK, NoJob
<1>2. CourseOK(rec) /\ HeldOK(rec)
  BY <1>1 DEF JobOK
<1>3. /\ rec.live \in Counts /\ rec.failed \in BOOLEAN /\ rec.fetched \in BOOLEAN
  BY <1>1 DEF JobRecord
<1>4. /\ rec.fetched = TRUE /\ rec.failed = FALSE /\ rec.at = "done"
      /\ rec.mine \subseteq rec.prog.gives /\ rec.prog \in AllPrograms
  BY <1>1, <1>2, <1>3 DEF CourseOK, JobRecord
<1>5. rec.prog.args \cap rec.prog.gives = {}
  BY <1>4, AllBalanced DEF Balanced
<1>6. Held(rec.live) = Arguments(rec) \cup rec.mine /\ Arguments(rec) \cap rec.mine = {}
  <2>1. Results(rec) = rec.mine
    BY <1>4 DEF Results
  <2> QED BY <1>2, <1>4, <1>5, <2>1 DEF HeldOK, Assigning, Arguments
<1>7. PICK live : live = Release(rec.live, rec.mine)
  OBVIOUS
<1>8. live \in Counts /\ Held(live) = Held(rec.live) \ rec.mine
  BY <1>3, <1>6, <1>7, Released
<1>9. /\ new \in JobRecord /\ new.at = rec.at /\ new.prog = rec.prog /\ new.pc = rec.pc
      /\ new.err = rec.err /\ new.code = rec.code /\ new.failed = rec.failed
      /\ new.outcome = rec.outcome /\ new.refs = rec.refs /\ new.live = live
      /\ new.fetched = rec.fetched /\ new.mine = {} /\ new.text = rec.text
  BY <1>1, <1>7, <1>8 DEF JobRecord
<1>10. CourseOK(new)
  BY <1>2, <1>9 DEF CourseOK
<1>11. Arguments(new) = Arguments(rec) /\ Results(new) = {}
  BY <1>4, <1>9 DEF Arguments, Results
<1>12. HeldOK(new)
  BY <1>4, <1>6, <1>8, <1>9, <1>11 DEF HeldOK, Assigning
<1> QED BY <1>1, <1>9, <1>10, <1>12 DEF JobOK, Kept

-----------------------------------------------------------------------------
(* The steps. *)

\* What a step of job j does to the buffer is in order for j.
OwnBuffer(j, new, b) ==
    ~ SharesBuffer(j) =>
      /\ new.text \in {j, None}
      /\ new.at = "run" /\ (\E i \in 1..(new.pc - 1) : new.prog.script[i].buf = "write")
           => b = j

\* A job that touches the buffer at all is one that others share it with.
UsesBuffer(new) == \E k \in DOMAIN new.prog.script : new.prog.script[k].buf # "none"

\* A step of one job keeps the invariant when the job's record and the buffer do.
LEMMA StepOK ==
    ASSUME IndInv, NEW j \in Jobs, NEW new, JobOK(new), job' = [job EXCEPT ![j] = new],
           new.at # "none", job[j].at # "none" => new.prog = job[j].prog,
           buf' \in Jobs \cup {None}, buf' # buf => UsesBuffer(new),
           OwnBuffer(j, new, buf')
    PROVE  IndInv'
<1>1. /\ job \in [Jobs -> JobRecord] /\ new \in JobRecord
      /\ \A i \in Jobs : JobOK(job[i]) /\ BufferOK(i)
  BY DEF IndInv, JobOK
<1>2. /\ job' \in [Jobs -> JobRecord] /\ job'[j] = new
      /\ \A i \in Jobs : i # j => job'[i] = job[i]
  BY <1>1
<1>3. \A i \in Jobs : JobOK(job'[i])
  BY <1>1, <1>2
<1>4. \A i \in Jobs : SharesBuffer(i)' <=>
        \E o \in Jobs \ {i} : job'[o].at # "none" /\ UsesBuffer(job'[o])
  BY DEF SharesBuffer, Script, UsesBuffer
<1>5. \A i \in Jobs : SharesBuffer(i) <=>
        \E o \in Jobs \ {i} : job[o].at # "none" /\ UsesBuffer(job[o])
  BY DEF SharesBuffer, Script, UsesBuffer
<1>6. \A o \in Jobs : job[o].at # "none" /\ UsesBuffer(job[o])
        => job'[o].at # "none" /\ UsesBuffer(job'[o])
  BY <1>2 DEF UsesBuffer
<1>7. \A i \in Jobs : SharesBuffer(i) => SharesBuffer(i)'
  BY <1>4, <1>5, <1>6
<1>8. BufferOK(j)'
  <2>1. SUFFICES ASSUME ~ SharesBuffer(j)'
                 PROVE  /\ job'[j].text \in {j, None}
                        /\ job'[j].at = "run"
                           /\ (\E i \in 1..(job'[j].pc - 1) : Script(j)'[i].buf = "write")
                             => buf' = j
    BY DEF BufferOK
  <2>2. ~ SharesBuffer(j)
    BY <1>7, <2>1
  <2>3. Script(j)' = new.prog.script
    BY <1>2 DEF Script
  <2> QED BY <1>2, <2>2, <2>3 DEF OwnBuffer
<1>9. ASSUME NEW i \in Jobs, i # j PROVE BufferOK(i)'
  <2>1. SUFFICES ASSUME ~ SharesBuffer(i)'
                 PROVE  /\ job'[i].text \in {i, None}
                        /\ job'[i].at = "run"
                           /\ (\E k \in 1..(job'[i].pc - 1) : Script(i)'[k].buf = "write")
                             => buf' = i
    BY DEF BufferOK
  <2>2. ~ SharesBuffer(i)
    BY <1>7, <2>1
  <2>3. buf' = buf
    BY <1>2, <1>4, <1>9, <2>1
  <2>4. job'[i] = job[i] /\ Script(i)' = Script(i)
    BY <1>2, <1>9 DEF Script
  <2>5. BufferOK(i)
    BY <1>1
  <2> QED BY <2>2, <2>3, <2>4, <2>5 DEF BufferOK
<1> QED BY <1>2, <1>3, <1>8, <1>9 DEF IndInv

\* The steps that change nothing the buffer is about.
LEMMA KeptStep ==
    ASSUME IndInv, NEW j \in Jobs, NEW new, JobOK(new), Kept(new, job[j]),
           job[j].at # "none", job' = [job EXCEPT ![j] = new], buf' = buf
    PROVE  IndInv'
<1>1. BufferOK(j) /\ buf \in Jobs \cup {None}
  BY DEF IndInv
<1>2. new.at # "none" /\ new.prog = job[j].prog
  BY DEF Kept
<1>3. OwnBuffer(j, new, buf')
  BY <1>1 DEF OwnBuffer, BufferOK, Kept, Script
<1> QED BY <1>1, <1>2, <1>3, StepOK

LEMMA InitInv == Init => IndInv
<1>1. SUFFICES ASSUME Init PROVE IndInv
  OBVIOUS
<1>2. \A j \in Jobs : job[j] = NoJob
  BY <1>1 DEF Init
<1>3. NoJob \in JobRecord
  BY NoJobOK DEF JobOK
<1>4. \A j \in Jobs : BufferOK(j)
  BY <1>2, NoJobOK DEF BufferOK
<1> QED BY <1>1, <1>2, <1>3, <1>4, NoJobOK DEF Init, IndInv

LEMMA NextInv == IndInv /\ [Next]_vars => IndInv'
<1> SUFFICES ASSUME IndInv, [Next]_vars PROVE IndInv'
  OBVIOUS
<1>1. /\ job \in [Jobs -> JobRecord] /\ buf \in Jobs \cup {None}
      /\ \A j \in Jobs : JobOK(job[j]) /\ BufferOK(j)
  BY DEF IndInv
<1>2. ASSUME NEW j \in Jobs, NEW os \in {"unix", "windows"}, NEW p \in Programs(os),
             make_job(j, os, p)
      PROVE  IndInv'
  <2>1. PICK new : new = [NoJob EXCEPT !.at = "queued", !.prog = p,
                            !.refs = {"coroutine", "worker"}, !.live = Acquire(@, p.args)]
    OBVIOUS
  <2>2. job[j].at = "none" /\ job' = [job EXCEPT ![j] = new] /\ buf' = buf
    BY <1>2, <2>1 DEF make_job
  <2>3. p \in AllPrograms
    BY DEF AllPrograms
  <2>4. JobOK(new) /\ new.at = "queued" /\ new.prog = p /\ new.text = None
    BY <2>1, <2>3, Made
  <2>5. OwnBuffer(j, new, buf')
    BY <2>4 DEF OwnBuffer
  <2>6. new.at # "none" /\ (job[j].at # "none" => new.prog = job[j].prog)
    BY <2>2, <2>4
  <2> QED BY <1>1, <2>2, <2>4, <2>5, <2>6, StepOK
<1>3. ASSUME NEW j \in Jobs, Start(j) PROVE IndInv'
  <2>1. PICK new : new = [job[j] EXCEPT !.at = "run", !.pc = 1]
    OBVIOUS
  <2>2. job[j].at = "queued" /\ job' = [job EXCEPT ![j] = new] /\ buf' = buf
    BY <1>1, <1>3, <2>1 DEF Start
  <2>3. /\ JobOK(new) /\ new.at = "run" /\ new.prog = job[j].prog
        /\ new.text = job[j].text /\ new.pc = 1
    BY <1>1, <2>1, <2>2, Started
  <2>4. OwnBuffer(j, new, buf')
    <3>1. 1..(new.pc - 1) = {}
      BY <2>3
    <3> QED BY <1>1, <2>3, <3>1 DEF OwnBuffer, BufferOK
  <2> QED BY <1>1, <2>2, <2>3, <2>4, StepOK
<1>4. ASSUME NEW j \in Jobs, CallSucceeds(j) PROVE IndInv'
  <2>1. PICK rec, c, text :
          /\ rec = job[j] /\ c = Call(j)
          /\ text = IF c.buf = "read" THEN buf ELSE rec.text
    OBVIOUS
  <2>2. rec.at = "run" /\ c = rec.prog.script[rec.pc] /\ JobOK(rec) /\ rec \in JobRecord
    BY <1>1, <1>4, <2>1 DEF CallSucceeds, Call, Script
  <2>3. text \in Jobs \cup {None}
    BY <1>1, <2>1, <2>2 DEF JobRecord
  <2>4. PICK new : new = Goes(j, AfterCall(rec, c, text), c.final)
    OBVIOUS
  <2>5. /\ job' = [job EXCEPT ![j] = new]
        /\ buf' = IF c.buf = "write" THEN j ELSE buf
    BY <1>4, <2>1, <2>4 DEF CallSucceeds, AfterCall
  <2>6. /\ JobOK(new) /\ new.prog = rec.prog /\ new.at # "none" /\ new.text = text
        /\ new.at = "run" => new.pc = rec.pc + 1
    <3>1. JobOK(new) /\ Advanced(new, rec, text)
      BY <2>1, <2>2, <2>3, <2>4, Succeeded
    <3> QED BY <3>1 DEF Advanced
  <2>7. /\ BalancedCall(rec.prog, rec.pc) /\ rec.prog \in AllPrograms
        /\ rec.pc \in 1..Len(rec.prog.script)
    BY <2>2, InCall DEF Running, CourseOK
  <2>8. Len(rec.prog.script) \in Nat /\ DOMAIN rec.prog.script = 1..Len(rec.prog.script)
    BY <2>7, AllBalanced DEF Balanced
  <2>9. buf' # buf => UsesBuffer(new)
    <3>1. SUFFICES ASSUME buf' # buf PROVE UsesBuffer(new)
      OBVIOUS
    <3>2. new.prog.script[rec.pc].buf # "none" /\ rec.pc \in DOMAIN new.prog.script
      BY <2>2, <2>5, <2>6, <2>7, <2>8, <3>1
    <3> QED BY <3>2 DEF UsesBuffer
  <2>10. OwnBuffer(j, new, buf')
    <3>1. SUFFICES ASSUME ~ SharesBuffer(j)
                   PROVE  /\ new.text \in {j, None}
                          /\ new.at = "run"
                             /\ (\E i \in 1..(new.pc - 1) : new.prog.script[i].buf = "write")
                               => buf' = j
      BY DEF OwnBuffer
    <3>2. /\ rec.text \in {j, None}
          /\ (\E i \in 1..(rec.pc - 1) : rec.prog.script[i].buf = "write") => buf = j
      BY <1>1, <2>1, <2>2, <3>1 DEF BufferOK, Script
    <3>3. c.buf = "read" => buf = j
      BY <2>2, <2>7, <3>2 DEF BalancedCall
    <3>4. ASSUME new.at = "run", NEW i \in 1..(new.pc - 1), new.prog.script[i].buf = "write"
          PROVE  buf' = j
      <4>1. i \in 1..(rec.pc - 1) \/ i = rec.pc
        BY <2>6, <2>7, <2>8, <3>4
      <4> QED BY <2>2, <2>5, <2>6, <3>2, <3>4, <4>1
    <3> QED BY <2>1, <2>6, <3>2, <3>3, <3>4
  <2>11. buf' \in Jobs \cup {None} /\ new.prog = job[j].prog
    BY <1>1, <2>1, <2>5, <2>6
  <2> QED BY <2>5, <2>6, <2>9, <2>10, <2>11, StepOK
<1>5. ASSUME NEW j \in Jobs, NEW how \in {"loud", "quiet", "code"}, CallFails(j, how)
      PROVE  IndInv'
  <2>1. PICK rec, c, new :
          rec = job[j] /\ c = Call(j) /\ new = FaultGoes(j, AfterFault(rec, c), how)
    OBVIOUS
  <2>2. /\ rec.at = "run" /\ c = rec.prog.script[rec.pc] /\ JobOK(rec) /\ how \in c.fails
        /\ buf' = buf
    BY <1>1, <1>5, <2>1 DEF CallFails, Call, Script
  <2>3. job' = [job EXCEPT ![j] = new]
    BY <1>5, <2>1 DEF CallFails, FaultGoes, AfterFault
  <2>4. /\ JobOK(new) /\ new.prog = rec.prog /\ new.at # "none" /\ new.text = rec.text
        /\ new.at = "run" => new.pc = rec.pc + 1 /\ c.buf = "none"
    <3>1. JobOK(new) /\ Advanced(new, rec, rec.text) /\ (new.at = "run" => c.buf = "none")
      BY <2>1, <2>2, Faulted
    <3> QED BY <3>1 DEF Advanced
  <2>5. rec.pc \in 1..Len(rec.prog.script) /\ rec.prog \in AllPrograms
    BY <2>2, InCall DEF Running, CourseOK
  <2>6. Len(rec.prog.script) \in Nat
    BY <2>5, AllBalanced DEF Balanced
  <2>7. OwnBuffer(j, new, buf')
    <3>1. SUFFICES ASSUME ~ SharesBuffer(j)
                   PROVE  /\ new.text \in {j, None}
                          /\ new.at = "run"
                             /\ (\E i \in 1..(new.pc - 1) : new.prog.script[i].buf = "write")
                               => buf' = j
      BY DEF OwnBuffer
    <3>2. /\ rec.text \in {j, None}
          /\ (\E i \in 1..(rec.pc - 1) : rec.prog.script[i].buf = "write") => buf = j
      BY <1>1, <2>1, <2>2, <3>1 DEF BufferOK, Script
    <3>3. ASSUME new.at = "run", NEW i \in 1..(new.pc - 1), new.prog.script[i].buf = "write"
          PROVE  buf' = j
      <4>1. i \in 1..(rec.pc - 1) \/ i = rec.pc
        BY <2>4, <2>5, <2>6, <3>3
      <4> QED BY <2>2, <2>4, <3>2, <3>3, <4>1
    <3> QED BY <2>4, <3>2, <3>3
  <2>8. new.prog = job[j].prog /\ buf' \in Jobs \cup {None}
    BY <1>1, <2>1, <2>2, <2>4
  <2> QED BY <2>2, <2>3, <2>4, <2>7, <2>8, StepOK
<1>6. ASSUME NEW j \in Jobs, WorkerDrops(j) PROVE IndInv'
  <2>1. PICK new : new = Drop(job[j], "worker")
    OBVIOUS
  <2>2. /\ job[j].at = "done" /\ "worker" \in job[j].refs /\ buf' = buf
        /\ job' = [job EXCEPT ![j] = new]
    BY <1>6, <2>1 DEF WorkerDrops
  <2>3. JobOK(new) /\ Kept(new, job[j])
    BY <1>1, <2>1, <2>2, WorkerDropped
  <2> QED BY <2>2, <2>3, KeptStep
<1>7. ASSUME NEW j \in Jobs, Raises(j) PROVE IndInv'
  <2>1. PICK mid, new : mid = [job[j] EXCEPT !.outcome = "error"] /\ new = Drop(mid, "coroutine")
    OBVIOUS
  <2>2. /\ job[j].at = "done" /\ job[j].outcome = "waiting" /\ (job[j].err \/ job[j].code)
        /\ buf' = buf
    BY <1>7 DEF Raises, Waits
  <2>3. job' = [job EXCEPT ![j] = new]
    BY <1>7, <2>1 DEF Raises
  <2>4. mid \in JobRecord /\ Concluded(mid, job[j])
    <3>1. job[j] \in JobRecord /\ job[j].err \in BOOLEAN /\ job[j].code \in BOOLEAN
      BY <1>1 DEF JobRecord
    <3> QED BY <2>1, <2>2, <3>1 DEF JobRecord, Concluded
  <2>5. JobOK(new) /\ Kept(new, job[j])
    BY <1>1, <2>1, <2>2, <2>4, CoroutineDropped
  <2> QED BY <2>2, <2>3, <2>5, KeptStep
<1>8. ASSUME NEW j \in Jobs, Returns(j) PROVE IndInv'
  <2>1. PICK mid, new : /\ mid = Fetched([job[j] EXCEPT !.outcome = "value"])
                        /\ new = Drop(mid, "coroutine")
    OBVIOUS
  <2>2. /\ job[j].at = "done" /\ job[j].outcome = "waiting" /\ ~ job[j].err /\ ~ job[j].code
        /\ buf' = buf
    BY <1>8 DEF Returns, Waits
  <2>3. job' = [job EXCEPT ![j] = new]
    BY <1>8, <2>1 DEF Returns
  <2>4. mid \in JobRecord /\ Concluded(mid, job[j])
    <3>1. job[j] \in JobRecord /\ job[j].err \in BOOLEAN /\ job[j].code \in BOOLEAN
      BY <1>1 DEF JobRecord
    <3>2. job[j].prog.gives \subseteq Resources
      <4>1. job[j].prog \in AllPrograms
        BY <1>1, <2>2 DEF JobOK, CourseOK
      <4> QED BY <4>1, Parts
    <3>3. mid = [[job[j] EXCEPT !.outcome = "value"]
                   EXCEPT !.mine = job[j].prog.gives, !.fetched = TRUE]
      BY <2>1, <3>1 DEF Fetched, JobRecord
    <3> QED BY <2>2, <3>1, <3>2, <3>3 DEF JobRecord, Concluded
  <2>5. JobOK(new) /\ Kept(new, job[j])
    BY <1>1, <2>1, <2>2, <2>4, CoroutineDropped
  <2> QED BY <2>2, <2>3, <2>5, KeptStep
<1>9. ASSUME NEW j \in Jobs, GivesUp(j) PROVE IndInv'
  <2>1. PICK mid, new : mid = [job[j] EXCEPT !.outcome = "Cancelled"] /\ new = Drop(mid, "coroutine")
    OBVIOUS
  <2>2. /\ job[j].at # "none" /\ job[j].outcome = "waiting" /\ buf' = buf
        /\ job[j].prog.cancel \in {"detached", "cancellable"}
    BY <1>9 DEF GivesUp, Waits
  <2>3. job' = [job EXCEPT ![j] = new]
    BY <1>9, <2>1 DEF GivesUp
  <2>4. mid \in JobRecord /\ Concluded(mid, job[j])
    <3>1. job[j] \in JobRecord
      BY <1>1
    <3> QED BY <2>1, <2>2, <3>1 DEF JobRecord, Concluded
  <2>5. JobOK(new) /\ Kept(new, job[j])
    BY <1>1, <2>1, <2>2, <2>4, CoroutineDropped
  <2> QED BY <2>2, <2>3, <2>5, KeptStep
<1>10. ASSUME NEW j \in Jobs, Closes(j) PROVE IndInv'
  <2>1. PICK new : new = [job[j] EXCEPT !.live = Release(@, job[j].mine), !.mine = {}]
    OBVIOUS
  <2>2. job[j].mine # {} /\ job' = [job EXCEPT ![j] = new] /\ buf' = buf
    BY <1>1, <1>10, <2>1 DEF Closes
  <2>3. JobOK(new) /\ Kept(new, job[j])
    BY <1>1, <2>1, <2>2, Closed
  <2>4. job[j].at # "none"
    BY <1>1, <2>2 DEF JobOK, NoJob
  <2> QED BY <2>2, <2>3, <2>4, KeptStep
<1>11. CASE UNCHANGED vars
  BY <1>1, <1>11 DEF vars, IndInv, BufferOK, SharesBuffer, Script
<1>12. CASE Finished
  BY <1>11, <1>12 DEF Finished
<1> QED BY <1>2, <1>3, <1>4, <1>5, <1>6, <1>7, <1>8, <1>9, <1>10, <1>11, <1>12 DEF Next

-----------------------------------------------------------------------------
(* The theorems. *)

LEMMA Invariant == Spec => []IndInv
BY InitInv, NextInv, PTL DEF Spec

\* The records of the jobs and the owner of realpath_job_worker's static buffer
\* keep their types, and no worker is past the end of its function.
THEOREM JobsTypeCorrect == Spec => []TypeOK
<1>1. IndInv => TypeOK
  <2> SUFFICES ASSUME IndInv PROVE TypeOK
    OBVIOUS
  <2>1. buf \in Jobs \cup {None}
    BY DEF IndInv
  <2>2. ASSUME NEW j \in Jobs
        PROVE  /\ job[j].at \in {"none", "queued", "run", "done"}
               /\ job[j].prog \in AllPrograms \cup {None}
               /\ job[j].at = "run" => job[j].pc \in DOMAIN job[j].prog.script
               /\ job[j].outcome \in {"waiting", "value", "error", "Cancelled"}
               /\ job[j].refs \subseteq {"coroutine", "worker"}
               /\ {job[j].err, job[j].code, job[j].failed, job[j].fetched} \subseteq BOOLEAN
               /\ job[j].live \in [Resources -> Int]
               /\ job[j].mine \subseteq Resources
               /\ job[j].text \in Jobs \cup {None}
    <3>1. job[j] \in JobRecord /\ JobOK(job[j])
      BY DEF IndInv
    <3>2. job[j].at = "run" => job[j].pc \in DOMAIN job[j].prog.script
      <4>1. SUFFICES ASSUME job[j].at = "run" PROVE job[j].pc \in DOMAIN job[j].prog.script
        OBVIOUS
      <4>2. job[j].prog \in AllPrograms /\ job[j].pc \in 1..Len(job[j].prog.script)
        BY <3>1, <4>1 DEF JobOK, CourseOK
      <4> QED BY <4>2, AllBalanced DEF Balanced
    <3>3. job[j].live \in [Resources -> Int]
      <4>1. job[j].live \in Counts
        BY <3>1 DEF JobRecord
      <4> QED BY <4>1 DEF Counts
    <3> QED BY <3>1, <3>2, <3>3 DEF JobRecord
  <2> QED BY <2>1, <2>2 DEF TypeOK
<1> QED BY <1>1, Invariant, PTL

\* Whatever jobs run together, whichever call fails and whenever the coroutine
\* gives up: nothing is released twice, and a job that is freed and closed has
\* released all it acquired, but for a result dropped by a cancellation and the
\* handles after a failed AssignProcessToJobObject.
THEOREM JobsReleaseOnce == Spec => []ReleasedOnce
<1>1. IndInv => ReleasedOnce
  <2> SUFFICES ASSUME IndInv, NEW j \in Jobs
               PROVE  /\ \A r \in Resources : job[j].live[r] >= 0
                      /\ Freed(j) /\ job[j].mine = {} /\ ~ ValueDropped(j) /\ ~ AssignFailed(j)
                           => \A r \in Resources : job[j].live[r] = 0
    BY DEF ReleasedOnce
  <2>1. PICK rec : rec = job[j]
    OBVIOUS
  <2>2. rec \in JobRecord /\ JobOK(rec) /\ rec.live \in Counts
    BY <2>1 DEF IndInv, JobRecord
  <2>3. \A r \in Resources : rec.live[r] \in {0, 1}
    BY <2>2 DEF Counts
  <2>4. ASSUME rec.at = "done", rec.refs = {}, rec.mine = {},
               ~ (rec.outcome = "Cancelled" /\ rec.prog.cancel = "cancellable"),
               ~ (rec.prog.name = "spawn assign" /\ rec.failed)
        PROVE  Held(rec.live) = {}
    <3>1. /\ CourseOK(rec) /\ HeldOK(rec) /\ rec.prog \in AllPrograms
          /\ rec.outcome \in {"waiting", "value", "error", "Cancelled"}
          /\ rec.failed \in BOOLEAN /\ rec.fetched \in BOOLEAN
      BY <2>2, <2>4 DEF JobOK, JobRecord, CourseOK
    <3>2. Held(rec.live) = Results(rec)
      BY <2>4, <3>1 DEF HeldOK, Assigning, Arguments
    <3>3. CASE rec.outcome = "value"
      <4>1. rec.fetched /\ ~ rec.failed
        BY <3>1, <3>3 DEF CourseOK
      <4> QED BY <2>4, <3>2, <4>1 DEF Results
    <3>4. CASE rec.outcome = "error"
      <4>1. rec.failed
        BY <3>1, <3>4 DEF CourseOK
      <4> QED BY <2>4, <3>2, <4>1 DEF Results
    <3>5. CASE rec.outcome = "Cancelled"
      <4>1. rec.prog.cancel = "detached" /\ ~ rec.fetched
        BY <2>4, <3>1, <3>5 DEF CourseOK
      <4>2. rec.prog.gives \ rec.prog.keeps = {}
        BY <3>1, <4>1, AllBalanced DEF Balanced
      <4> QED BY <2>4, <3>2, <4>1, <4>2 DEF Results
    <3>6. rec.outcome # "waiting"
      BY <2>4, <3>1 DEF CourseOK
    <3> QED BY <3>1, <3>3, <3>4, <3>5, <3>6
  <2>5. ASSUME Freed(j), job[j].mine = {}, ~ ValueDropped(j), ~ AssignFailed(j)
        PROVE  Held(rec.live) = {}
    BY <2>1, <2>4, <2>5 DEF Freed, ValueDropped, AssignFailed
  <2>6. Held(rec.live) = {} => \A r \in Resources : rec.live[r] = 0
    BY <2>3 DEF Held
  <2> QED BY <2>1, <2>3, <2>5, <2>6
<1> QED BY <1>1, Invariant, PTL

\* Whatever jobs run together: an operation returns a result exactly if the job has
\* succeeded, the result is there until it is closed, and the path realpath returns
\* is its own, unless another realpath uses the static buffer.
THEOREM JobsAreTruthful == Spec => []TruthfulOutcome
<1>1. IndInv => TruthfulOutcome
  <2> SUFFICES ASSUME IndInv, NEW j \in Jobs
               PROVE  /\ job[j].outcome = "value" => ~ job[j].failed
                      /\ job[j].outcome = "error" => job[j].failed
                      /\ \A r \in job[j].mine : job[j].live[r] = 1
                      /\ job[j].text \in {j, None} \/ SharesBuffer(j)
    BY DEF TruthfulOutcome
  <2>1. PICK rec : rec = job[j]
    OBVIOUS
  <2>2. rec \in JobRecord /\ JobOK(rec) /\ BufferOK(j)
    BY <2>1 DEF IndInv
  <2>3. CASE rec.at = "none"
    <3>1. rec.outcome = "waiting" /\ rec.mine = {} /\ rec.text = None
      BY <2>2, <2>3 DEF JobOK, NoJob
    <3> QED BY <2>1, <3>1
  <2>4. CASE rec.at # "none"
    <3>1. CourseOK(rec) /\ HeldOK(rec)
      BY <2>2, <2>4 DEF JobOK
    <3>2. /\ rec.outcome = "value" => ~ rec.failed
          /\ rec.outcome = "error" => rec.failed
      BY <3>1 DEF CourseOK
    <3>3. \A r \in rec.mine : rec.live[r] = 1
      <4>1. SUFFICES ASSUME rec.mine # {} PROVE rec.mine \subseteq Held(rec.live)
        BY DEF Held
      <4>2. rec.fetched /\ ~ rec.failed /\ rec.at = "done"
        BY <2>2, <2>4, <3>1, <4>1 DEF CourseOK, JobRecord
      <4>3. Results(rec) = rec.mine
        BY <4>2 DEF Results
      <4> QED BY <3>1, <4>2, <4>3 DEF HeldOK, Assigning
    <3> QED BY <2>1, <2>2, <3>2, <3>3 DEF BufferOK
  <2> QED BY <2>3, <2>4
<1> QED BY <1>1, Invariant, PTL

=============================================================================
