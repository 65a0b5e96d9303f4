---------------------------- MODULE RunRegister ----------------------------
(* The life of a row of the `runs` table, as everyone may rely on who reads  *)
(* one: RunExecution, ReviewGovernance, HitchOrchestrator and PullRequests   *)
(* each model a part of the program that moves the status, with their own    *)
(* idea of what the others do in between; each of them implements this.      *)
CONSTANT Runs

VARIABLES
  stage, \* runs.status; "none" without a row, "failed" for every failed-* status
  open   \* the runs whose process has inserted the row and can still write it

registerVars == <<stage, open>>

Verdicts == {"approved", "changes_requested", "rejected"}
Stages == {"none", "running", "generated", "verified", "needs_review", "failed", "cleaned"}
            \cup Verdicts

(* The stages a process may record after one of its own; what is in between  *)
(* may go unseen.                                                            *)
Later == [s \in {"running", "generated", "verified"} |->
            CASE s = "running" -> {"generated", "verified", "needs_review"}
              [] s = "generated" -> {"verified", "needs_review"}
              [] s = "verified" -> {"needs_review"}]

RegisterInit ==
  /\ stage \in [Runs -> Stages]
  /\ open \in SUBSET {r \in Runs : stage[r] # "none"}

Insert(r) ==
  /\ stage[r] = "none"
  /\ stage' = [stage EXCEPT ![r] = "running"]
  /\ open' = open \cup {r}

(* The process goes on with what it remembers: only a row that an operator   *)
(* had cleaned under it by force is not where the process left it.           *)
Proceed(r, s) ==
  /\ r \in open
  /\ \/ stage[r] \in DOMAIN Later /\ s \in Later[stage[r]]
     \/ stage[r] = "cleaned" /\ s \in {"verified", "needs_review"}
  /\ stage' = [stage EXCEPT ![r] = s]
  /\ UNCHANGED open

(* Its recovery may come after the verdict.                                  *)
FailRun(r) ==
  /\ r \in open
  /\ stage' = [stage EXCEPT ![r] = "failed"]
  /\ UNCHANGED open

(* The process ends, by itself or not, and leaves the row where it is.       *)
Leave(r) ==
  /\ open' = open \ {r}
  /\ UNCHANGED stage

Judge(r, verdict) ==
  /\ stage[r] = "needs_review"
  /\ stage' = [stage EXCEPT ![r] = verdict]
  /\ UNCHANGED open

CleanUp(r) ==
  /\ stage[r] \notin {"none", "running", "changes_requested"}
  /\ stage' = [stage EXCEPT ![r] = "cleaned"]
  /\ UNCHANGED open

RegisterNext ==
  \E r \in Runs :
    \/ Insert(r) \/ FailRun(r) \/ Leave(r) \/ CleanUp(r)
    \/ \E s \in Stages : Proceed(r, s)
    \/ \E verdict \in Verdicts : Judge(r, verdict)

RegisterSpec == RegisterInit /\ [][RegisterNext]_registerVars
=============================================================================
