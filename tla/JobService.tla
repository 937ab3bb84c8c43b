----------------------------- MODULE JobService -----------------------------
(***************************************************************************)
(* What the thread pool promises to coroutines.  A submitted job is started *)
(* at most once and ends at most once.  A call returns what its job         *)
(* produced, after the job ended.  Only a cancelled call is given up before *)
(* that, and only the job of a cancelled call is interrupted.               *)
(***************************************************************************)
EXTENDS Integers

CONSTANTS Tasks, Jobs, None

VARIABLES call,   \* [Tasks -> the job waited for, or None]
          asked,  \* tasks whose cancellation was requested
          state,  \* [jobs -> "new", "running", "value", "error", "EINTR"]
          answer  \* [Tasks -> what the last call returned]

vars == <<call, asked, state, answer>>

Init ==
    /\ call = [t \in Tasks |-> None] /\ asked = {}
    /\ state = [id \in {} |-> None]
    /\ answer = [t \in Tasks |-> "none"]

Submit(t, id) ==
    /\ call[t] = None /\ t \notin asked /\ id \notin DOMAIN state
    /\ call' = [call EXCEPT ![t] = id]
    /\ state' = [j \in DOMAIN state \cup {id} |-> IF j = id THEN "new" ELSE state[j]]
    /\ answer' = [answer EXCEPT ![t] = "none"]
    /\ UNCHANGED asked

Start(id) ==
    /\ state[id] = "new"
    /\ state' = [state EXCEPT ![id] = "running"]
    /\ UNCHANGED <<call, asked, answer>>

Finish(id) ==
    /\ state[id] = "running"
    /\ \/ \E result \in {"value", "error"} : state' = [state EXCEPT ![id] = result]
       \/ /\ \E t \in asked : call[t] = id
          /\ state' = [state EXCEPT ![id] = "EINTR"]
    /\ UNCHANGED <<call, asked, answer>>

Cancel(t) ==
    /\ asked' = asked \cup {t}
    /\ UNCHANGED <<call, state, answer>>

Return(t) ==
    /\ call[t] # None
    /\ \/ /\ state[call[t]] \in {"value", "error"}
          /\ answer' = [answer EXCEPT ![t] = state[call[t]]]
       \/ /\ t \in asked
          /\ \/ answer' = [answer EXCEPT ![t] = "Cancelled"]
             \/ state[call[t]] \notin {"new", "running"}
                /\ answer' = [answer EXCEPT ![t] = "error"]
    /\ call' = [call EXCEPT ![t] = None]
    /\ UNCHANGED <<asked, state>>

Next ==
    \/ \E t \in Tasks, id \in Jobs : Submit(t, id)
    \/ \E t \in Tasks : Cancel(t) \/ Return(t)
    \/ \E id \in DOMAIN state : Start(id) \/ Finish(id)

Spec == Init /\ [][Next]_vars

=============================================================================
