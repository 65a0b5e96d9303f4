----------------------------- MODULE MCRunWork -----------------------------
(* Instances of the life of a run's work: the lease and the rows of a run    *)
(* and of its reruns (RunExecution) and the worktree from its base to the set *)
(* proposed for review (DiffGate).  They share no variable: part says which   *)
(* of them moves.                                                            *)
EXTENDS RunExecution, DiffGate, TLC

VARIABLE part

\* Runs that have not started are interchangeable: no action orders them.
RunSymmetry == Permutations(Runs \ History)

-----------------------------------------------------------------------------
\* Two files of the base, "a" and the ignored "g"; a new one, "n"; and "o",
\* which a deny glob matches.
ATree(a, n, o, g) == ("a" :> a) @@ ("n" :> n) @@ ("o" :> o) @@ ("g" :> g)
TwoBases == <<ATree(1, 0, 0, 1), ATree(2, 0, 0, 1)>>
SomeTips == {[remote |-> 1, local |-> 1], [remote |-> 2, local |-> 1],
             [remote |-> NoCommit, local |-> NoCommit]}
SmallBudget == [maxDeletedLines |-> 2, maxTotalChangedLines |-> 4,
                maxDeletedFiles |-> 1, maxChangedFiles |-> 3, enforce |-> TRUE]
OneMoreLine == [maxTotalChangedLines |-> 5]
NoParent == [status |-> "none", safety |-> "skipped", base |-> 1,
             tree |-> TwoBases[1], exists |-> FALSE]
AParent(status, safety, tree) ==
    [status |-> status, safety |-> safety, base |-> 1, tree |-> tree, exists |-> TRUE]
\* Asked for changes, with a new file and an edited or a deleted one; failed at
\* a command; and denied.
SomeParents ==
    {NoParent,
     AParent("changes_requested", "allowed", ATree(2, 1, 0, 1)),
     AParent("changes_requested", "allowed", ATree(0, 1, 0, 1)),
     AParent("failed-command", "allowed", ATree(0, 1, 0, 1)),
     AParent("failed-command", "denied", ATree(2, 0, 1, 1)),
     AParent("failed-policy-violation", "denied", ATree(2, 0, 1, 1))}

-----------------------------------------------------------------------------
WorkInit ==
    /\ part \in {"rerun", "worktree"}
    /\ Init /\ GateInit
    /\ part # "worktree" => tips.remote = 2 /\ parent = NoParent

WorkNext ==
    \/ part = "rerun" /\ Next /\ UNCHANGED <<part, gateVars>>
    \/ part = "worktree" /\ GateNext /\ UNCHANGED <<part, vars>>

WorkSpec == WorkInit /\ [][WorkNext]_<<part, vars, gateVars>>
=============================================================================
