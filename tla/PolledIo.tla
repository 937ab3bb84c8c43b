------------------------------ MODULE PolledIo ------------------------------
(***************************************************************************)
(* Non-blocking I/O on Unix: io_unix.mbt and network_unix.mbt over epoll.c *)
(* or kqueue.c.  An operation is tried; when it would block, the coroutine *)
(* is noted in the handle and suspended until the poller reports the       *)
(* handle, and tried once more.  Registration is edge-triggered, so an     *)
(* event that nobody waits for is gone.                                    *)
(*                                                                         *)
(* There is one handle with a coroutine that reads (read, recvfrom,        *)
(* accept) and one that writes (write, sendto, connect), and one child     *)
(* process with a coroutine that waits for it.  A coroutine is named after *)
(* its direction: "r", "w" and "p".                                        *)
(*                                                                         *)
(* at of a coroutine: "run" between operations, "pause" after an operation *)
(* that succeeded at once, "wait" suspended for an event, "end" returned   *)
(***************************************************************************)
EXTENDS Integers

CONSTANTS
    Pollers,      \* subset of {"epoll", "kqueue"}
    MaxReady,     \* bound on the units (bytes, connections) the kernel holds
    MaxUnits      \* bound on the units that pass in each direction

ASSUME PollerAssumption ==
    /\ Pollers \subseteq {"epoll", "kqueue"}
    /\ MaxReady \in Nat \ {0} /\ MaxUnits \in Nat

Directions == {"r", "w"}
Coroutines == Directions \cup {"p"}

VARIABLES
    poller,       \* never changes
    amount,       \* kernel: units that can be read, space that can be written
    passed,       \* kernel: units made ready so far
    hangup,       \* kernel: the peer has shut down its side
    interest,     \* kernel: registered directions
    pending,      \* kernel: directions with an edge that was not reported
    process,      \* "none", "running", "exited", "reaped"
    watched,      \* kernel: the process is registered with the poller
    events,       \* handle.events
    waiter,       \* handle.read, handle.write and the entry in evloop.pids
    open,         \* handle.fd is valid
    at, cancelled, result,
    ready,        \* run_later
    batch         \* what this reschedule still has to run

kernel == <<poller, amount, passed, hangup, interest, pending, process, watched>>
handle == <<events, waiter, open>>
coros  == <<at, cancelled, result, ready, batch>>
vars   == <<kernel, handle, coros>>

TypeOK ==
    /\ poller \in Pollers
    /\ amount \in [Directions -> 0 .. MaxReady]
    /\ passed \in [Directions -> 0 .. MaxUnits]
    /\ interest \subseteq Directions /\ pending \subseteq interest
    /\ events \subseteq Directions
    /\ waiter \subseteq Coroutines
    /\ process \in {"none", "running", "exited", "reaped"}
    /\ {hangup, watched, open} \subseteq BOOLEAN
    /\ at \in [Coroutines -> {"run", "pause", "wait", "end"}]
    /\ cancelled \in [Coroutines -> BOOLEAN]
    /\ result \in [Coroutines -> {"none", "value", "EAGAIN", "error", "Cancelled",
                               "blocked"}]
    /\ ready \subseteq Coroutines /\ batch \subseteq Coroutines

Init ==
    /\ poller \in Pollers
    /\ amount = [r |-> 0, w |-> MaxReady] /\ passed = [d \in Directions |-> 0]
    /\ hangup = FALSE /\ interest = {} /\ pending = {}
    /\ process \in {"none", "running"} /\ watched = FALSE
    /\ events = {} /\ waiter = {} /\ open = TRUE
    /\ at = [c \in Coroutines |-> "run"]
    /\ cancelled = [c \in Coroutines |-> FALSE]
    /\ result = [c \in Coroutines |-> "none"]
    /\ ready = Coroutines /\ batch = {}

-----------------------------------------------------------------------------
(* The kernel. *)

\* An operation in this direction would not block.
Possible(d) == amount[d] > 0 \/ (d = "r" /\ hangup)

\* Data or connections arrive, or the peer makes room.
UnitReady(d) ==
    /\ ~ (d = "r" /\ hangup)
    /\ amount[d] < MaxReady /\ passed[d] < MaxUnits
    /\ amount' = [amount EXCEPT ![d] = @ + 1]
    /\ passed' = [passed EXCEPT ![d] = @ + 1]
    /\ pending' = pending \cup ({d} \cap interest)
    /\ UNCHANGED <<poller, hangup, interest, process, watched, handle, coros>>

\* The peer shuts down its side: end of file for the reader, EPOLLRDHUP.
Hangup ==
    /\ ~ hangup
    /\ hangup' = TRUE
    /\ pending' = pending \cup (IF poller = "epoll" THEN interest ELSE {"r"} \cap interest)
    /\ UNCHANGED <<poller, amount, passed, interest, process, watched, handle, coros>>

Exit ==
    /\ process = "running"
    /\ process' = "exited"
    /\ UNCHANGED <<poller, amount, passed, hangup, interest, pending, watched, handle,
                   coros>>

\* The registered directions in which an operation would not block now.
Now == {d \in interest : Possible(d)}

\* moonbitlang_async_event_get_events with epoll: one event with all conditions that
\* hold now, and a hang-up counts as both.
EpollEvents == IF pending = {} THEN {} ELSE IF hangup THEN Directions ELSE Now

\* moonbitlang_async_event_get_events with kqueue: an event of each filter.
KqueueEvents == pending \cap Now

\* What the poller reports.
Reported == IF poller = "kqueue" THEN KqueueEvents ELSE EpollEvents

-----------------------------------------------------------------------------
(* The event loop. *)

\* Mutant of Woken: an event wakes the writer only if it does not wake the reader.
WokenFirst == waiter \cap (IF "r" \in Reported THEN {"r"} ELSE Reported)

\* EventLoop::poll: the coroutines noted in the handle are woken.
Woken == waiter \cap Reported

\* wait_for_event and the dispatch, then reschedule starts.  The process is
\* reported as long as it is watched.
poll ==
    /\ batch = {}
    /\ LET gone == IF watched /\ process = "exited" THEN {"p"} \cap waiter ELSE {} IN
       /\ ready \cup Woken \cup gone # {} \/ Reported # {}
       /\ batch' = ready \cup Woken \cup gone
    /\ ready' = {} /\ pending' = {}
    /\ UNCHANGED <<poller, amount, passed, hangup, interest, process, watched, handle,
                   at, cancelled, result>>

Runs(c) == c \in batch

\* c has run: it goes to place a, and is ready again or not.
Leaves(c, a, again) ==
    /\ at' = [at EXCEPT ![c] = a]
    /\ batch' = batch \ {c}
    /\ ready' = IF again THEN ready \cup {c} ELSE ready

Ends(c, r) == Leaves(c, "end", FALSE) /\ result' = [result EXCEPT ![c] = r]

\* Mutant of poll_register: the new direction replaces the registered one.
poll_register_replaces(d) ==
    IF d \in events THEN UNCHANGED <<interest, events, pending>>
    ELSE interest' = {d} /\ events' = events \cup {d} /\ pending' = {d} \cap pending

\* moonbitlang_async_poll_register.  epoll modifies the whole interest of the
\* descriptor and looks again at all of it, hang-up included; kqueue adds a filter,
\* and looks at what is possible for it.
EpollRegister(d) ==
    /\ interest' = interest \cup {d}
    /\ pending' = pending \cup {e \in interest' : Possible(e) \/ hangup}

KqueueRegister(d) ==
    /\ interest' = interest \cup {d}
    /\ pending' = pending \cup {e \in {d} : Possible(e)}

\* prepare_read, prepare_write: each direction is registered once.
poll_register(d) ==
    IF d \in events THEN UNCHANGED <<interest, events, pending>>
    ELSE /\ events' = events \cup {d}
         /\ IF poller = "epoll" THEN EpollRegister(d) ELSE KqueueRegister(d)

\* An operation: check_cancellation, registration, the first try.  After a success
\* accept and connect return, the others pause; an error other than EAGAIN is raised.
Operation(d) ==
    /\ Runs(d) /\ at[d] = "run"
    /\ \/ /\ cancelled[d] /\ Ends(d, "Cancelled")
          /\ UNCHANGED <<kernel, handle, cancelled>>
       \/ /\ ~ cancelled[d] /\ open /\ poll_register(d)
          /\ \/ /\ Possible(d)
                /\ amount' = [amount EXCEPT ![d] = IF @ > 0 THEN @ - 1 ELSE 0]
                /\ \E a \in {"pause", "run"} : Leaves(d, a, TRUE)
                /\ UNCHANGED <<waiter, result>>
             \/ /\ ~ Possible(d) /\ waiter' = waiter \cup {d}
                /\ Leaves(d, "wait", FALSE) /\ UNCHANGED <<amount, result>>
             \/ Ends(d, "error") /\ UNCHANGED <<amount, waiter>>
          /\ UNCHANGED <<poller, passed, hangup, process, watched, open, cancelled>>

\* epoll_ctl or kevent fails: poll_register raises.
RegisterFails(d) ==
    /\ Runs(d) /\ at[d] = "run" /\ ~ cancelled[d] /\ open /\ d \notin events
    /\ Ends(d, "error")
    /\ UNCHANGED <<kernel, handle, cancelled>>

\* The coroutine has nothing more to do with the handle.
Return(c) ==
    /\ Runs(c) /\ at[c] = "run" /\ (c = "p" => process = "none")
    /\ Ends(c, "value")
    /\ UNCHANGED <<kernel, handle, cancelled>>

\* The pause after a try that succeeded; a cancelled coroutine loses what it read.
AfterPause(d) ==
    /\ Runs(d) /\ at[d] = "pause"
    /\ IF cancelled[d] THEN Ends(d, "Cancelled")
                       ELSE Leaves(d, "run", TRUE) /\ UNCHANGED result
    /\ UNCHANGED <<kernel, handle, cancelled>>

\* wait_read, wait_write return: the second and last try (connect asks for SO_ERROR
\* instead), which may fail, as it does when the handle was closed meanwhile.
AfterWait(d) ==
    /\ Runs(d) /\ at[d] = "wait" /\ d \in Directions
    /\ waiter' = waiter \ {d}
    /\ \/ cancelled[d] /\ Ends(d, "Cancelled") /\ UNCHANGED amount
       \/ ~ cancelled[d] /\ Ends(d, "error") /\ UNCHANGED amount
       \/ ~ cancelled[d] /\ open /\ ~ Possible(d) /\ Ends(d, "EAGAIN") /\ UNCHANGED amount
       \/ /\ ~ cancelled[d] /\ open /\ Possible(d)
          /\ amount' = [amount EXCEPT ![d] = IF @ > 0 THEN @ - 1 ELSE 0]
          /\ Leaves(d, "run", TRUE) /\ UNCHANGED result
    /\ UNCHANGED <<poller, passed, hangup, interest, pending, process, watched, events,
                   open, cancelled>>

\* Coroutine::cancel by another coroutine or a timer.
Cancel(c) ==
    /\ ~ cancelled[c] /\ at[c] # "end"
    /\ cancelled' = [cancelled EXCEPT ![c] = TRUE]
    /\ ready' = IF c \in batch THEN ready ELSE ready \cup {c}
    /\ UNCHANGED <<kernel, handle, at, result, batch>>

\* Mutant of close: the handle is closed and stays registered.
close_registered ==
    /\ open
    /\ open' = FALSE /\ interest' = {}
    /\ UNCHANGED <<poller, amount, passed, hangup, pending, process, watched, events,
                   waiter, coros>>

\* IoHandle::close by another coroutine: the kernel forgets the registration, and
\* the coroutines that wait are not told.
close ==
    /\ open
    /\ open' = FALSE /\ interest' = {} /\ pending' = {}
    /\ UNCHANGED <<poller, amount, passed, hangup, process, watched, events, waiter, coros>>

-----------------------------------------------------------------------------
(* Process::wait_pid. *)

\* moonbitlang_async_get_process_result: waitpid, in the thread of the loop, which
\* it blocks while the child runs.
get_process_result ==
    /\ Ends("p", IF process = "exited" THEN "value" ELSE "blocked")
    /\ process' = "reaped"

\* moonbitlang_async_poll_register_pid returns -2: only kqueue tells of a process
\* that has exited, a pidfd is registered and reported at once.
AlreadyTerminated == poller = "kqueue" /\ process = "exited"

\* Process::wait_pid up to its suspension; registration may fail.
wait_pid ==
    /\ Runs("p") /\ at["p"] = "run" /\ process \in {"running", "exited"}
    /\ IF AlreadyTerminated
       THEN get_process_result /\ UNCHANGED <<watched, waiter>>
       ELSE \/ /\ ~ cancelled["p"]
               /\ watched' = TRUE /\ waiter' = waiter \cup {"p"}
               /\ Leaves("p", "wait", FALSE)
               /\ UNCHANGED <<process, result>>
            \/ /\ \/ cancelled["p"] /\ Ends("p", "Cancelled")
                  \/ Ends("p", "error")
               /\ UNCHANGED <<process, watched, waiter>>
    /\ UNCHANGED <<poller, amount, passed, hangup, interest, pending, events, open, cancelled>>

\* Mutant of AfterWaitPid: a cancelled wait also asks for the result.
AfterWaitPidAlways ==
    /\ Runs("p") /\ at["p"] = "wait"
    /\ waiter' = waiter \ {"p"} /\ watched' = FALSE
    /\ get_process_result
    /\ UNCHANGED <<poller, amount, passed, hangup, interest, pending, events, open, cancelled>>

\* suspend returns; the registration is removed (with kqueue it stays until the
\* process exits, and its event is ignored then).
AfterWaitPid ==
    /\ Runs("p") /\ at["p"] = "wait"
    /\ waiter' = waiter \ {"p"} /\ watched' = FALSE
    /\ IF cancelled["p"] THEN Ends("p", "Cancelled") /\ UNCHANGED process
                         ELSE get_process_result
    /\ UNCHANGED <<poller, amount, passed, hangup, interest, pending, events, open, cancelled>>

\* Nothing happens any more, or only outside.
Idle == batch = {} /\ ready = {} /\ Reported = {} /\ UNCHANGED vars

LoopStep ==
    \/ poll \/ wait_pid \/ AfterWaitPid
    \/ \E d \in Directions : \/ Operation(d) \/ RegisterFails(d) \/ AfterPause(d)
                             \/ AfterWait(d)
    \/ \E c \in Coroutines : Return(c)

Next ==
    \/ LoopStep \/ Hangup \/ Exit \/ close \/ Idle
    \/ \E d \in Directions : UnitReady(d)
    \/ \E c \in Coroutines : Cancel(c)

Spec == Init /\ [][Next]_vars

\* The thread of the loop keeps running; nothing is assumed of the peer.
FairSpec == Spec /\ WF_vars(LoopStep)

-----------------------------------------------------------------------------
(* Properties. *)

\* No wake-up is lost: while a coroutine waits for what is already possible, the
\* kernel still has an edge to report or the coroutine is about to run.
NoLostWakeup ==
    \A d \in waiter \cap Directions :
      open /\ Possible(d) => pending # {} \/ d \in ready \cup batch

\* A coroutine that is resumed finds what it waited for: its second try does not
\* fail with EAGAIN, and waitpid, which would block the whole loop, finds an
\* exited child.  The exception: epoll reports a peer that has shut down its
\* side to the writer too, and the writer raises EAGAIN.
WokenForAReason ==
    /\ \A d \in Directions : result[d] = "EAGAIN" => d = "w" /\ hangup /\ poller = "epoll"
    /\ result["p"] # "blocked"

\* A coroutine that waits for what has become possible, or for a process that has
\* exited, is resumed, unless the handle is closed under it.
WaitersResume ==
    /\ \A d \in Directions : (at[d] = "wait" /\ Possible(d)) ~> (at[d] # "wait" \/ ~ open)
    /\ (at["p"] = "wait" /\ process = "exited") ~> (at["p"] # "wait")

=============================================================================
