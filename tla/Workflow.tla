------------------------------ MODULE Workflow ------------------------------
(***************************************************************************)
(* What the engine promises the owner of one workflow, without crashes,    *)
(* retries or replays: the N steps of the definition are completed one     *)
(* after the other, each at most once; value is the output the next step   *)
(* is given; the workflow succeeds only when every step is completed, and  *)
(* it may fail before.  Once it is over nothing moves any more, except     *)
(* that start_with_timeout may turn the outcome into a failure.            *)
(***************************************************************************)
EXTENDS Integers

CONSTANTS Json, JsonNull, N

VARIABLES status, done, value

vars == <<status, done, value>>

Init == status = "none" /\ done = {} /\ value = JsonNull

Begin(in) ==
    /\ status = "none" /\ status' = "running"
    /\ value' = in /\ done' = done

Advance(i, out) ==
    /\ status = "running" /\ done = 1..(i - 1)
    /\ done' = 1..i /\ value' = out /\ status' = status

Succeed ==
    /\ status = "running" /\ done = 1..N
    /\ status' = "completed" /\ UNCHANGED <<done, value>>

Fail ==
    /\ status = "running"
    /\ status' = "failed" /\ UNCHANGED <<done, value>>

Overrun ==
    /\ status \in {"completed", "failed"}
    /\ status' = "failed" /\ UNCHANGED <<done, value>>

Progress == (\E i \in 1..N, out \in Json : Advance(i, out)) \/ Succeed \/ Fail

Next == (\E in \in Json : Begin(in)) \/ Progress \/ Overrun

Spec == Init /\ [][Next]_vars

FairSpec == Spec /\ WF_vars(Progress)

=============================================================================
