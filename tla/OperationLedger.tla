-------------------------- MODULE OperationLedger --------------------------
(* Mutations asked for by MCP clients: the operations ledger of              *)
(* operations/operation-runner.ts, the client's budget (mcp/security/        *)
(* limits.ts), out-of-band confirmation (mcp/security/confirmation.ts,       *)
(* mcp/confirmation-runner.ts) and the doctor's repair of stale operations   *)
(* (db/repair.ts).  Callers are MCP server processes, Operators are          *)
(* `harness operation confirm | reject` commands; they share the database    *)
(* only.  A key stands for (operation_type, target_id, idempotency_key).     *)
EXTENDS Integers, Sequences, FiniteSets, SequencesExt

CONSTANTS Callers, Operators,
          Casts,           \* which processes take part: a set of sets of them
          Keys,            \* keys a client may call with
          Requests,        \* confirmation requests a client may leave
          KeyOf,           \* request -> the key stored in its input_json
          Client,          \* caller or request -> client name
          RunKeys,         \* keys of RUN_BUDGET_OPERATIONS
          Deferred,        \* keys whose work is left to an external executor
          MaxMutations, MaxRuns, MaxConcurrent, Hour,
          Ttl,             \* config.confirmation.ttlSeconds
          MayReject, MayCrash, DbMayFail, MayRepair,
          MaxRows, MaxNow  \* bounds on the ledger and on the clock

ASSUME LedgerAssumption ==
  /\ {MaxMutations, MaxRuns, MaxConcurrent, Hour, Ttl, MaxRows, MaxNow} \subseteq Nat
  /\ Keys # {} /\ RunKeys \subseteq Keys /\ Deferred \subseteq Keys
  /\ KeyOf \in [Requests -> Keys]
  /\ Casts \subseteq SUBSET (Callers \cup Operators)
  /\ {MayReject, MayCrash, DbMayFail, MayRepair} \subseteq BOOLEAN

Procs == Callers \cup Operators
Statuses == {"running", "pending", "succeeded", "failed"}
RequestStatuses == {"none", "pending", "confirmed", "rejected", "expired", "consumed"}

VARIABLES
  ops,       \* the operations table
  requests,  \* mcp_confirmation_requests
  proc,      \* the processes
  effects,   \* what the outside world saw: how often the work of a key ran
  now,
  disturbed  \* history: operations repaired under a living process, or whose
             \* event was lost after the outcome had been written

ledgerVars == <<ops, requests, proc, effects, now, disturbed>>

Rows == 1 .. Len(ops)
Idle == [pc |-> "idle", key |-> CHOOSE k \in Keys : TRUE, actor |-> "nobody", op |-> 0,
         request |-> CHOOSE r \in Requests \cup {"none"} : TRUE]

LedgerInit ==
  /\ ops = <<>>
  /\ requests = [r \in Requests |-> [status |-> "none", expires |-> 0, op |-> 0]]
  /\ \E cast \in Casts :
       proc = [p \in Procs |-> IF p \in cast THEN Idle ELSE [Idle EXCEPT !.pc = "absent"]]
  /\ effects = [k \in Keys |-> 0]
  /\ now = 0
  /\ disturbed = {}

Goto(p, pc) == proc' = [proc EXCEPT ![p].pc = pc]

(* p has reserved operation i and not yet returned.                         *)
WorksOn(p, i) == proc[p].op = i /\ proc[p].pc \in {"work", "finish", "event", "fail"}

(* A direct call returns to its client; a confirmed request is consumed next.*)
Returned(p) == IF p \in Operators THEN "consume" ELSE "idle"

----------------------------------------------------------------------------
(* checkMutationBudget.                                                       *)

Recent(actor) == {i \in Rows : ops[i].actor = actor /\ ops[i].at >= now - Hour}
InFlightRuns(actor) ==
  {i \in Rows : /\ ops[i].actor = actor /\ ops[i].key \in RunKeys
                /\ ops[i].status \in {"pending", "running"}}

(* Bug: the check forgets that the operation it admits counts as well. *)
WithinBudgetOffByOne(actor, key) ==
  /\ Cardinality(Recent(actor)) =< MaxMutations
  /\ key \in RunKeys =>
       /\ Cardinality({i \in Recent(actor) : ops[i].key \in RunKeys}) =< MaxRuns
       /\ Cardinality(InFlightRuns(actor)) =< MaxConcurrent

WithinBudget(actor, key) ==
  /\ Cardinality(Recent(actor)) < MaxMutations
  /\ key \in RunKeys =>
       /\ Cardinality({i \in Recent(actor) : ops[i].key \in RunKeys}) < MaxRuns
       /\ Cardinality(InFlightRuns(actor)) < MaxConcurrent

----------------------------------------------------------------------------
(* runOperation.                                                              *)

Call(p, k) ==
  /\ p \in Callers /\ proc[p].pc = "idle"
  /\ proc' = [proc EXCEPT ![p] = [Idle EXCEPT !.pc = "reserve", !.key = k, !.actor = Client[p]]]
  /\ UNCHANGED <<ops, requests, effects, now, disturbed>>

Prior(k) == {i \in Rows : ops[i].key = k}

(* Bug: a failed key is claimed again by whoever repeats it. *)
ReplayReclaimsFailed(p) ==
  \E i \in Prior(proc[p].key) :
    /\ ops' = [ops EXCEPT ![i].status = "running"]
    /\ proc' = [proc EXCEPT ![p].pc = "work", ![p].op = i]

(* A key seen before is answered from its row: a running one with a conflict *)
(* and a failed one with its error, neither of which names an operation.     *)
Replay(p) ==
  \E i \in Prior(proc[p].key) :
    /\ proc' = [proc EXCEPT ![p].pc = Returned(p),
                            ![p].op = IF ops[i].status \in {"succeeded", "pending"} THEN i ELSE 0]
    /\ UNCHANGED ops

(* A new key is charged to the budget and inserted as running.               *)
StartOperation(p) ==
  IF WithinBudget(proc[p].actor, proc[p].key)
  THEN /\ Len(ops) < MaxRows
       /\ ops' = Append(ops, [key |-> proc[p].key, actor |-> proc[p].actor,
                              status |-> "running", at |-> now])
       /\ proc' = [proc EXCEPT ![p].pc = "work", ![p].op = Len(ops) + 1]
  ELSE Goto(p, Returned(p)) /\ UNCHANGED ops

(* The reservation, one IMMEDIATE transaction.                               *)
Reserve(p) ==
  /\ proc[p].pc = "reserve"
  /\ IF Prior(proc[p].key) # {} THEN Replay(p) ELSE StartOperation(p)
  /\ UNCHANGED <<requests, effects, now, disturbed>>

(* The work itself, which may throw after it has touched the world.          *)
Work(p) ==
  /\ proc[p].pc = "work"
  /\ effects' = [effects EXCEPT ![proc[p].key] = @ + 1]
  /\ \E pc \in {"finish", "fail"} : Goto(p, pc)
  /\ UNCHANGED <<ops, requests, now, disturbed>>

(* succeedOperation / markOperationPending: by id, whatever the row says.    *)
Finish(p) ==
  /\ proc[p].pc = "finish"
  /\ ops' = [ops EXCEPT ![proc[p].op].status = IF proc[p].key \in Deferred THEN "pending" ELSE "succeeded"]
  /\ Goto(p, "event")
  /\ UNCHANGED <<requests, effects, now, disturbed>>

(* appendOperationEvent, then the outcome is read back and returned; an      *)
(* error here is caught like an error of the work.                           *)
AppendEvent(p) ==
  /\ proc[p].pc = "event"
  /\ \/ /\ Goto(p, Returned(p))
        /\ UNCHANGED disturbed
     \/ /\ DbMayFail
        /\ Goto(p, "fail")
        /\ disturbed' = disturbed \cup {proc[p].op}
  /\ UNCHANGED <<ops, requests, effects, now>>

FailOperation(p) ==
  /\ proc[p].pc = "fail"
  /\ ops' = [ops EXCEPT ![proc[p].op].status = "failed"]
  /\ proc' = [proc EXCEPT ![p].pc = Returned(p), ![p].op = 0]
  /\ UNCHANGED <<requests, effects, now, disturbed>>

----------------------------------------------------------------------------
(* Confirmation requests.  mutateConfirmation reads the row and updates it   *)
(* in two statements without a transaction.                                  *)

CreateConfirmation(p, r) ==
  /\ p \in Callers /\ proc[p].pc = "idle"
  /\ requests[r].status = "none"
  /\ requests' = [requests EXCEPT ![r] = [status |-> "pending", expires |-> now + Ttl, op |-> 0]]
  /\ UNCHANGED <<ops, proc, effects, now, disturbed>>

(* The first half: a pending request past its time becomes expired; only a   *)
(* pending one goes on.                                                      *)
CheckPending(p, r, pc) ==
  IF requests[r].status = "pending" /\ requests[r].expires =< now
  THEN requests' = [requests EXCEPT ![r].status = "expired"] /\ UNCHANGED proc
  ELSE /\ requests[r].status = "pending"
       /\ proc' = [proc EXCEPT ![p] = [Idle EXCEPT !.pc = pc, !.request = r,
                                                   !.key = KeyOf[r], !.actor = Client[r]]]
       /\ UNCHANGED requests

ConfirmRead(p, r) ==
  /\ p \in Operators /\ proc[p].pc = "idle"
  /\ requests[r].status # "none"
  /\ CheckPending(p, r, "confirm")
  /\ UNCHANGED <<ops, effects, now, disturbed>>

RejectRead(p, r) ==
  /\ MayReject
  /\ p \in Operators /\ proc[p].pc = "idle"
  /\ requests[r].status # "none"
  /\ CheckPending(p, r, "reject")
  /\ UNCHANGED <<ops, effects, now, disturbed>>

(* The second half, guarded by nothing.  The handler runs after a confirm;   *)
(* it may refuse or throw before it reaches the ledger.                      *)
ConfirmWrite(p) ==
  /\ proc[p].pc = "confirm"
  /\ requests' = [requests EXCEPT ![proc[p].request].status = "confirmed"]
  /\ \E pc \in {"reserve", "consume"} : Goto(p, pc)
  /\ UNCHANGED <<ops, effects, now, disturbed>>

RejectWrite(p) ==
  /\ proc[p].pc = "reject"
  /\ requests' = [requests EXCEPT ![proc[p].request].status = "rejected"]
  /\ Goto(p, "idle")
  /\ UNCHANGED <<ops, effects, now, disturbed>>

(* consumeMcpConfirmationRequest: the handler has returned, with an          *)
(* operation id only when it was started or replayed.  A request that is no  *)
(* longer confirmed makes it throw, and failMcpConfirmationRequest with it.  *)
ConsumeRead(p) ==
  /\ proc[p].pc = "consume"
  /\ IF requests[proc[p].request].status = "confirmed" THEN Goto(p, "consuming") ELSE Goto(p, "idle")
  /\ UNCHANGED <<ops, requests, effects, now, disturbed>>

ConsumeWrite(p) ==
  /\ proc[p].pc = "consuming"
  /\ requests' = [requests EXCEPT ![proc[p].request] = [@ EXCEPT !.status = "consumed", !.op = proc[p].op]]
  /\ Goto(p, "idle")
  /\ UNCHANGED <<ops, effects, now, disturbed>>

----------------------------------------------------------------------------
(* operations.mark_stale_failed: running for more than an hour is stale.     *)
RepairStale(i) ==
  /\ MayRepair
  /\ ops[i].status = "running" /\ ops[i].at < now - Hour
  /\ ops' = [ops EXCEPT ![i].status = "failed"]
  /\ disturbed' = IF \E p \in Procs : WorksOn(p, i) THEN disturbed \cup {i} ELSE disturbed
  /\ UNCHANGED <<requests, proc, effects, now>>

Crash(p) ==
  /\ MayCrash
  /\ proc[p].pc \notin {"idle", "absent"}
  /\ proc' = [proc EXCEPT ![p] = Idle]
  /\ UNCHANGED <<ops, requests, effects, now, disturbed>>

Tick == now < MaxNow /\ now' = now + 1 /\ UNCHANGED <<ops, requests, proc, effects, disturbed>>

ProcStep(p) ==
  \/ Reserve(p) \/ Work(p) \/ Finish(p) \/ AppendEvent(p) \/ FailOperation(p)
  \/ ConfirmWrite(p) \/ RejectWrite(p) \/ ConsumeRead(p) \/ ConsumeWrite(p)

LedgerNext ==
  \/ \E p \in Callers, k \in Keys \ {KeyOf[r] : r \in Requests} : Call(p, k)
  \/ \E p \in Callers, r \in Requests : CreateConfirmation(p, r)
  \/ \E p \in Operators, r \in Requests : ConfirmRead(p, r) \/ RejectRead(p, r)
  \/ \E p \in Procs : ProcStep(p) \/ Crash(p)
  \/ \E i \in Rows : RepairStale(i)
  \/ Tick

LedgerSpec == LedgerInit /\ [][LedgerNext]_ledgerVars

----------------------------------------------------------------------------
Pcs == {"absent", "idle", "reserve", "work", "finish", "event", "fail",
        "confirm", "reject", "consume", "consuming"}

LedgerTypeOK ==
  /\ \A i \in Rows : ops[i].key \in Keys /\ ops[i].status \in Statuses /\ ops[i].at \in 0 .. now
  /\ \A r \in Requests : /\ requests[r].status \in RequestStatuses
                         /\ requests[r].expires \in 0 .. now + Ttl
                         /\ requests[r].op \in 0 .. Len(ops)
  /\ \A p \in Procs : proc[p].pc \in Pcs /\ proc[p].key \in Keys /\ proc[p].op \in 0 .. Len(ops)
  /\ effects \in [Keys -> Nat]
  /\ now \in 0 .. MaxNow
  /\ disturbed \subseteq Rows

(* However often a key is sent, by several clients, after crashes, timeouts  *)
(* and repairs, and however many operators confirm one request, its work     *)
(* runs at most once (the reservation transaction of runOperation).          *)
AtMostOnce == \A k \in Keys : effects[k] =< 1

(* No client ever has more operations in the last hour, or more runs in      *)
(* flight, than its limits say, though calls race (assertMutationBudget      *)
(* inside the reservation).  A disturbed operation can come back into flight *)
(* after its slot was given away, and is not counted here.                   *)
BudgetHolds ==
  \A a \in {Client[x] : x \in DOMAIN Client} :
    /\ Cardinality(Recent(a)) =< MaxMutations
    /\ Cardinality({i \in Recent(a) : ops[i].key \in RunKeys}) =< MaxRuns
    /\ Cardinality(InFlightRuns(a) \ disturbed) =< MaxConcurrent

----------------------------------------------------------------------------
(* Refinement.                                                                *)

(* The row of a key, as its client sees it.                                  *)
EntryOf(k) ==
  IF Prior(k) = {}
  THEN [account |-> "nobody", at |-> 0, outcome |-> "none"]
  ELSE LET i == CHOOSE j \in Prior(k) : TRUE
       IN  [account |-> ops[i].actor, at |-> ops[i].at, outcome |-> ops[i].status]

(* How far the process came that reserved the key.                           *)
At(k, pcs) == \E p \in Procs : proc[p].key = k /\ proc[p].pc \in pcs
StageOf(k) ==
  IF Prior(k) = {} THEN "new"
  ELSE IF At(k, {"work"}) THEN "given"
  ELSE IF At(k, {"finish", "event", "fail"}) THEN "worked" ELSE "left"

Idempotent == INSTANCE IdempotentWork WITH
  Accounts <- {Client[x] : x \in Callers \cup Requests},
  entry <- [k \in Keys |-> EntryOf(k)],
  stage <- [k \in Keys |-> StageOf(k)],
  done <- effects,
  clock <- now

(* The operations table makes the work of a key idempotent: whatever races,  *)
(* dies, is repeated, confirmed twice or repaired, a key is accepted once,   *)
(* on one client's account and within its limits, and an outcome that was    *)
(* recorded is not replaced once the process that recorded it has left.      *)
ImplementsIdempotentWork == Idempotent!IdempotentSpec

============================================================================
