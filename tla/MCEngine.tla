------------------------------ MODULE MCEngine ------------------------------
(***************************************************************************)
(* Small definitions, written with the builder, for checking Engine.       *)
(***************************************************************************)
EXTENDS EngineInvariants

\* A step, a branch, a signal and a sub-workflow.
BranchNames == {"a", "branch", "cond", "yes", "no", "wait", "go", "sub"}
BranchDef ==
    LET first  == then(workflow, "a", with_all(1, FALSE))
        second == branch(first, "branch", "cond", "yes", "no")
    IN sub_workflow(wait_signal(second, "wait", "go"), "sub")

\* A retried and timed step, a parallel group of two children and a step that
\* is tried once however it is configured.
GroupNames == {"a", "p", "q", "group", "last"}
GroupDef ==
    LET first == then(workflow, "a", with_all(2, TRUE))
    IN then(parallel(first, "group", <<"p", "q">>), "last", with_all(0, FALSE))

\* Engines with everything registered, and with something forgotten.
FullyWired == {[handlers |-> Names, subs |-> Names]}
Wired == FullyWired \cup {[handlers |-> Names \cap {"a", "yes", "no", "p"}, subs |-> {}]}

TwoValues == {"null", "obj"}

\* Every JSON object is the same value to these models.
MergeToObject(outputs) == "obj"

=============================================================================
