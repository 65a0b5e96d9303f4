--------------------------- MODULE IdempotentWork ---------------------------
(* What the operations ledger promises its clients: a key is accepted once,  *)
(* on the account of one client and within the limits of that client; its    *)
(* work runs at most once; and when the process that was given the key has   *)
(* left, what is recorded of it stands, except that work of which no outcome *)
(* was recorded is given up.  OperationLedger implements it with the rows of *)
(* the `operations` table and processes that may die between any two steps.  *)
EXTENDS Integers, FiniteSets

CONSTANTS
  Keys,                                \* what a client may ask for
  Accounts,                            \* who is charged
  RunKeys,                             \* keys that start runs
  Deferred,                            \* keys whose work only hands the key on
  MaxMutations, MaxRuns, MaxConcurrent, \* the limits of an account
  Hour                                 \* the window of the first two

VARIABLES
  entry,  \* what is recorded of a key
  stage,  \* how far the process came that was given the key
  done,   \* how often the work of a key ran
  clock

idempotentVars == <<entry, stage, done, clock>>

NoEntry == [account |-> "nobody", at |-> 0, outcome |-> "none"]

IdempotentInit ==
  /\ entry = [k \in Keys |-> NoEntry]
  /\ stage = [k \in Keys |-> "new"]
  /\ done = [k \in Keys |-> 0]
  /\ clock = 0

ChargedTo(a) == {k \in Keys : stage[k] # "new" /\ entry[k].account = a}
ChargedLately(a) == {k \in ChargedTo(a) : entry[k].at >= clock - Hour}
OpenRuns(a) == {k \in ChargedTo(a) \cap RunKeys : entry[k].outcome \in {"running", "pending"}}

(* One more for this account is within its limits.                           *)
HasRoom(a, k) ==
  /\ Cardinality(ChargedLately(a)) < MaxMutations
  /\ k \in RunKeys => /\ Cardinality(ChargedLately(a) \cap RunKeys) < MaxRuns
                      /\ Cardinality(OpenRuns(a)) < MaxConcurrent

(* A new key is charged and given to a process.                              *)
Accept(k, a) ==
  /\ stage[k] = "new" /\ HasRoom(a, k)
  /\ entry' = [entry EXCEPT ![k] = [account |-> a, at |-> clock, outcome |-> "running"]]
  /\ stage' = [stage EXCEPT ![k] = "given"]
  /\ UNCHANGED <<done, clock>>

DoWork(k) ==
  /\ stage[k] = "given"
  /\ stage' = [stage EXCEPT ![k] = "worked"]
  /\ done' = [done EXCEPT ![k] = @ + 1]
  /\ UNCHANGED <<entry, clock>>

(* The work is recorded as done, or as handed on.                            *)
Record(k) ==
  /\ stage[k] = "worked"
  /\ entry' = [entry EXCEPT ![k].outcome = IF k \in Deferred THEN "pending" ELSE "succeeded"]
  /\ UNCHANGED <<stage, done, clock>>

(* The process leaves: it returns to its client, or dies.                    *)
Leave(k) ==
  /\ stage[k] \in {"given", "worked"}
  /\ stage' = [stage EXCEPT ![k] = "left"]
  /\ UNCHANGED <<entry, done, clock>>

(* It leaves with an error.                                                  *)
LeaveFailed(k) ==
  /\ stage[k] = "worked"
  /\ stage' = [stage EXCEPT ![k] = "left"]
  /\ entry' = [entry EXCEPT ![k].outcome = "failed"]
  /\ UNCHANGED <<done, clock>>

(* A key without a recorded outcome is given up, by whoever looks after it.  *)
GiveUp(k) ==
  /\ stage[k] # "new" /\ entry[k].outcome = "running"
  /\ entry' = [entry EXCEPT ![k].outcome = "failed"]
  /\ UNCHANGED <<stage, done, clock>>

TimePasses == clock' = clock + 1 /\ UNCHANGED <<entry, stage, done>>

IdempotentNext ==
  \/ \E k \in Keys, a \in Accounts : Accept(k, a)
  \/ \E k \in Keys : DoWork(k) \/ Record(k) \/ Leave(k) \/ LeaveFailed(k) \/ GiveUp(k)
  \/ TimePasses

IdempotentSpec == IdempotentInit /\ [][IdempotentNext]_idempotentVars
=============================================================================
