-------------------------- MODULE OperationsProofs --------------------------
(***************************************************************************)
(* Proofs about the operations ledger, for any number of callers,           *)
(* operators, keys and requests and for any limits, about the MCP tools,    *)
(* for any rows, clients and configurations, and about the commands on      *)
(* agents' workspaces, for any agents, worktrees, branches and files.       *)
(*                                                                          *)
(* That the work of a key runs at most once follows from three facts: a     *)
(* key has one row, a row is worked on by one process only, and a process   *)
(* that is about to work is the first to do so.  That the budget holds      *)
(* needs one more: the row of a process that has not written its outcome    *)
(* is running, unless the doctor's repair disturbed it.                     *)
(*                                                                          *)
(* That the ledger implements IdempotentWork rests on the same facts: the   *)
(* entry of a key is its only row, and the process counter of its only      *)
(* process says how far it has come.                                        *)
(*                                                                          *)
(* That answers and writes stay in the scope of the client is a matter of   *)
(* the registry and the table of handlers: each tool is either checked by   *)
(* its handler or names a row that the permission layer resolved, and that  *)
(* row is of a class whose project never changes.                           *)
(*                                                                          *)
(* That `workspace conflicts` misses nothing follows each change through    *)
(* the command: listed, to be read, seen by the first of the two git reads  *)
(* of its worktree or certain to be seen by the second, reported.           *)
(***************************************************************************)
EXTENDS OperationLedger, McpTools, AgentWorkspaces, FiniteSetTheorems, TLAPS

Actors == {Client[x] : x \in Callers \cup Requests} \cup {"nobody"}

OpRow == [key : Keys, actor : Actors, status : Statuses, at : Nat]

Request == [status : RequestStatuses, expires : Nat, op : Nat]

Process == [pc : Pcs, key : Keys, actor : Actors, op : Nat,
            request : Requests \cup {"none"}]

\* The shapes of the tables and of the processes.
LedgerShapes ==
  /\ ops \in Seq(OpRow)
  /\ requests \in [Requests -> Request]
  /\ proc \in [Procs -> Process]
  /\ effects \in [Keys -> Nat]
  /\ now \in 0 .. MaxNow
  /\ disturbed \subseteq Rows

\* Times are past and row numbers exist.
LedgerRefers ==
  /\ \A i \in Rows : ops[i].at =< now
  /\ \A r \in Requests : requests[r].expires =< now + Ttl /\ requests[r].op =< Len(ops)
  /\ \A p \in Procs : proc[p].op =< Len(ops)

\* A process has reserved an operation and not yet returned.
Busy == {"work", "finish", "event", "fail"}

KeysAreUnique == \A i, j \in Rows : ops[i].key = ops[j].key => i = j

\* The process works on the row it reserved, and on the key of that row.
WorkersHaveRows ==
  \A p \in Procs : proc[p].pc \in Busy =>
    proc[p].op \in Rows /\ ops[proc[p].op].key = proc[p].key

OneWorker ==
  \A p, q \in Procs :
    (proc[p].pc \in Busy /\ proc[q].pc \in Busy /\ proc[p].op = proc[q].op) => p = q

\* No work without a row, and none yet for a process that is about to work.
WorkIsNew ==
  /\ \A k \in Keys : (\A i \in Rows : ops[i].key # k) => effects[k] = 0
  /\ \A p \in Procs : proc[p].pc = "work" => effects[proc[p].key] = 0

\* Until its outcome is written a row is running or was repaired.
UnwrittenIsRunning ==
  \A p \in Procs : proc[p].pc \in {"work", "finish"} =>
    ops[proc[p].op].status = "running" \/ proc[p].op \in disturbed

WorkInv ==
  /\ KeysAreUnique
  /\ WorkersHaveRows
  /\ OneWorker
  /\ WorkIsNew
  /\ AtMostOnce
  /\ UnwrittenIsRunning

LedgerInv == LedgerShapes /\ LedgerRefers /\ WorkInv

----------------------------------------------------------------------------
(* Shapes.                                                                  *)

LEMMA IdleShape ==
  /\ Idle \in Process
  /\ Idle.op = 0
  /\ Idle.pc = "idle"
  /\ \A c \in Pcs : [Idle EXCEPT !.pc = c] \in Process
  <1>1. (CHOOSE k \in Keys : TRUE) \in Keys
    BY LedgerAssumption
  <1>2. (CHOOSE r \in Requests \cup {"none"} : TRUE) \in Requests \cup {"none"}
    OBVIOUS
  <1> QED
    BY <1>1, <1>2 DEF Idle, Process, Pcs, Actors

LEMMA PcNames ==
  /\ {"idle", "reserve", "work", "finish", "event", "fail", "confirm", "reject",
      "consume", "consuming"} \subseteq Pcs
  /\ Busy \subseteq Pcs
  /\ \A p : Returned(p) \in Pcs /\ Returned(p) \notin Busy
  /\ {"idle", "reserve", "confirm", "reject", "consume", "consuming"} \cap Busy = {}
  BY DEF Pcs, Busy, Returned

\* A step of one process, as the others see it.
LEMMA OneProcess ==
  ASSUME LedgerShapes, NEW p \in Procs, NEW z \in Process,
         proc' = [proc EXCEPT ![p] = z]
  PROVE  /\ proc' \in [Procs -> Process]
         /\ proc'[p] = z
         /\ \A q \in Procs : q # p => proc'[q] = proc[q]
  BY DEF LedgerShapes

\* Writing the status of a row keeps the rest of the table.
LEMMA StatusWritten ==
  ASSUME LedgerShapes, NEW i \in Rows, NEW s \in Statuses,
         ops' = [ops EXCEPT ![i].status = s]
  PROVE  /\ ops' \in Seq(OpRow)
         /\ Len(ops') = Len(ops) /\ Rows' = Rows
         /\ ops'[i].status = s
         /\ \A j \in Rows : /\ ops'[j].key = ops[j].key
                            /\ ops'[j].actor = ops[j].actor
                            /\ ops'[j].at = ops[j].at
                            /\ j # i => ops'[j] = ops[j]
  <1>1. ops \in Seq(OpRow) /\ Rows = DOMAIN ops /\ ops[i] \in OpRow
    BY DEF LedgerShapes, Rows
  <1> DEFINE w == [ops[i] EXCEPT !.status = s]
  <1>2. /\ w \in OpRow /\ w.status = s /\ w.key = ops[i].key
        /\ w.actor = ops[i].actor /\ w.at = ops[i].at
    BY <1>1 DEF OpRow
  <1>3. ops' = [ops EXCEPT ![i] = w]
    OBVIOUS
  <1> HIDE DEF w
  <1>4. ops' \in Seq(OpRow) /\ Len(ops') = Len(ops) /\ DOMAIN ops' = DOMAIN ops
    BY ONLY <1>1, <1>2, <1>3, i \in Rows
  <1>5. ops'[i] = w /\ \A j \in Rows : j # i => ops'[j] = ops[j]
    BY ONLY <1>1, <1>3, i \in Rows
  <1> QED
    BY <1>1, <1>2, <1>4, <1>5 DEF Rows

\* A new row behind the others.
LEMMA RowAppended ==
  ASSUME LedgerShapes, NEW w \in OpRow, ops' = Append(ops, w)
  PROVE  /\ ops' \in Seq(OpRow)
         /\ Len(ops') = Len(ops) + 1 /\ Len(ops) \in Nat
         /\ Rows' = Rows \cup {Len(ops) + 1}
         /\ Len(ops) + 1 \notin Rows
         /\ ops'[Len(ops) + 1] = w
         /\ \A j \in Rows : ops'[j] = ops[j]
  <1>1. ops \in Seq(OpRow) /\ Len(ops) \in Nat /\ Rows = 1 .. Len(ops)
    BY DEF LedgerShapes, Rows
  <1>2. /\ ops' \in Seq(OpRow) /\ Len(ops') = Len(ops) + 1
        /\ ops'[Len(ops) + 1] = w
        /\ \A j \in 1 .. Len(ops) : ops'[j] = ops[j]
    BY <1>1
  <1> QED
    BY <1>1, <1>2 DEF Rows

----------------------------------------------------------------------------
(* What keeps the work in order.                                            *)

\* A step of a process that touches neither rows nor the world: it returns,
\* starts, or goes on from its outcome.
LEMMA QuietStep ==
  ASSUME LedgerInv, LedgerShapes', NEW p \in Procs,
         ops' = ops, effects' = effects, disturbed \subseteq disturbed',
         \A q \in Procs : q # p => proc'[q] = proc[q],
         \/ proc'[p].pc \notin Busy
         \/ /\ proc[p].pc \in Busy /\ proc'[p].pc \in {"event", "fail"}
            /\ proc'[p].op = proc[p].op /\ proc'[p].key = proc[p].key
         \/ proc'[p] = proc[p]
  PROVE  WorkInv'
  <1>1. WorkInv /\ Rows' = Rows
    BY DEF LedgerInv, Rows
  <1>2. KeysAreUnique'
    BY <1>1 DEF WorkInv, KeysAreUnique
  <1>3. WorkersHaveRows'
    BY <1>1 DEF WorkInv, WorkersHaveRows, Busy
  <1>4. OneWorker'
    BY <1>1 DEF WorkInv, OneWorker, Busy
  <1>5. WorkIsNew'
    BY <1>1 DEF WorkInv, WorkIsNew, Busy
  <1>6. AtMostOnce'
    BY <1>1 DEF WorkInv, AtMostOnce
  <1>7. UnwrittenIsRunning'
    BY <1>1 DEF WorkInv, UnwrittenIsRunning, Busy
  <1> QED
    BY <1>2, <1>3, <1>4, <1>5, <1>6, <1>7 DEF WorkInv

\* The outcome of a row is written, by the process that works on it, by one
\* that gives up, or by the doctor.
LEMMA OutcomeStep ==
  ASSUME LedgerInv, LedgerShapes', NEW i \in Rows, NEW s \in Statuses,
         ops' = [ops EXCEPT ![i].status = s], effects' = effects,
         disturbed \subseteq disturbed',
         \/ /\ proc' = proc
            /\ (\E p \in Procs : WorksOn(p, i)) => i \in disturbed'
         \/ \E p \in Procs :
              /\ proc[p].pc \in Busy /\ proc[p].op = i
              /\ \A q \in Procs : q # p => proc'[q] = proc[q]
              /\ \/ proc'[p].pc \notin Busy
                 \/ /\ proc'[p].pc = "event"
                    /\ proc'[p].op = proc[p].op /\ proc'[p].key = proc[p].key
  PROVE  WorkInv'
  <1>1. WorkInv /\ LedgerShapes
    BY DEF LedgerInv
  <1>2. /\ Rows' = Rows
        /\ \A j \in Rows : ops'[j].key = ops[j].key /\ (j # i => ops'[j] = ops[j])
    BY <1>1, StatusWritten
  <1>3. KeysAreUnique'
    BY <1>1, <1>2 DEF WorkInv, KeysAreUnique
  <1>4. \A q \in Procs : proc'[q].pc \in Busy =>
          /\ proc[q].pc \in Busy
          /\ proc'[q].op = proc[q].op /\ proc'[q].key = proc[q].key
          /\ proc'[q].pc \in {"work", "finish"} => proc'[q] = proc[q]
    BY DEF Busy
  <1>5. WorkersHaveRows'
    BY <1>1, <1>2, <1>4 DEF WorkInv, WorkersHaveRows
  <1>6. OneWorker'
    BY <1>1, <1>4 DEF WorkInv, OneWorker
  <1>7. WorkIsNew' /\ AtMostOnce'
    <2>1. \A k \in Keys : (\A j \in Rows' : ops'[j].key # k) => effects'[k] = 0
      BY <1>1, <1>2 DEF WorkInv, WorkIsNew
    <2>2. \A p \in Procs : proc'[p].pc = "work" => effects'[proc'[p].key] = 0
      BY <1>1, <1>4 DEF WorkInv, WorkIsNew, Busy
    <2>3. AtMostOnce'
      BY <1>1 DEF WorkInv, AtMostOnce
    <2> QED
      BY <2>1, <2>2, <2>3 DEF WorkIsNew
  <1>8. UnwrittenIsRunning'
    <2> SUFFICES ASSUME NEW q \in Procs, proc'[q].pc \in {"work", "finish"}
                 PROVE  ops'[proc'[q].op].status = "running" \/ proc'[q].op \in disturbed'
      BY DEF UnwrittenIsRunning
    <2>1. proc'[q] = proc[q] /\ proc[q].pc \in Busy
      BY <1>4 DEF Busy
    <2>2. proc[q].op \in Rows
      BY <1>1, <2>1 DEF WorkInv, WorkersHaveRows
    <2>3. CASE proc[q].op # i
      BY <1>1, <1>2, <2>1, <2>2, <2>3 DEF WorkInv, UnwrittenIsRunning
    <2>4. CASE proc[q].op = i
      <3>1. ASSUME NEW p \in Procs, proc[p].pc \in Busy, proc[p].op = i,
                   proc'[p].pc \notin Busy \/ proc'[p].pc = "event"
            PROVE  FALSE
        <4>1. p = q
          BY <1>1, <2>1, <2>4, <3>1 DEF WorkInv, OneWorker
        <4> QED
          BY <2>1, <3>1, <4>1 DEF Busy
      <3>2. proc' = proc /\ WorksOn(q, i)
        BY <2>1, <2>4, <3>1 DEF WorksOn, Busy
      <3> QED
        BY <2>1, <2>4, <3>1, <3>2
    <2> QED
      BY <2>3, <2>4
  <1> QED
    BY <1>3, <1>5, <1>6, <1>7, <1>8 DEF WorkInv

\* A key seen for the first time gets a row and a process that works on it.
LEMMA ReserveRowStep ==
  ASSUME LedgerInv, LedgerShapes', NEW p \in Procs, NEW w \in OpRow,
         ops' = Append(ops, w), w.key = proc[p].key, w.status = "running",
         Prior(proc[p].key) = {},
         effects' = effects, disturbed' = disturbed,
         \A q \in Procs : q # p => proc'[q] = proc[q],
         proc'[p].op = Len(ops) + 1, proc'[p].key = proc[p].key
  PROVE  WorkInv'
  <1>1. WorkInv /\ LedgerShapes /\ proc[p].key \in Keys
    BY DEF LedgerInv, LedgerShapes, Process
  <1>2. /\ Rows' = Rows \cup {Len(ops) + 1}
        /\ Len(ops) + 1 \notin Rows
        /\ ops'[Len(ops) + 1] = w
        /\ \A j \in Rows : ops'[j] = ops[j]
    BY <1>1, RowAppended
  <1>3. \A j \in Rows : ops[j].key # proc[p].key
    BY DEF Prior
  <1>4. effects[proc[p].key] = 0
    BY <1>1, <1>3 DEF WorkInv, WorkIsNew
  <1>5. KeysAreUnique'
    <2>1. \A i, j \in Rows : ops[i].key = ops[j].key => i = j
      BY <1>1 DEF WorkInv, KeysAreUnique
    <2>2. \A i, j \in Rows' : ops'[i].key = ops'[j].key => i = j
      BY ONLY <1>2, <1>3, <2>1, w.key = proc[p].key
    <2> QED
      BY <2>2 DEF KeysAreUnique
  <1>6. \A q \in Procs : q # p /\ proc'[q].pc \in Busy => proc'[q].op \in Rows
    BY <1>1 DEF WorkInv, WorkersHaveRows
  <1>7. WorkersHaveRows'
    <2> SUFFICES ASSUME NEW q \in Procs, proc'[q].pc \in Busy
                 PROVE  proc'[q].op \in Rows' /\ ops'[proc'[q].op].key = proc'[q].key
      BY DEF WorkersHaveRows
    <2>1. CASE q = p
      BY ONLY <1>2, <2>1, w.key = proc[p].key, proc'[p].op = Len(ops) + 1,
              proc'[p].key = proc[p].key
    <2>2. CASE q # p
      <3>1. proc'[q] = proc[q]
        BY <2>2
      <3>2. proc[q].op \in Rows /\ ops[proc[q].op].key = proc[q].key
        BY <1>1, <3>1 DEF WorkInv, WorkersHaveRows
      <3> QED
        BY ONLY <1>2, <3>1, <3>2
    <2> QED
      BY <2>1, <2>2
  <1>8. OneWorker'
    BY <1>1, <1>2, <1>6 DEF WorkInv, OneWorker
  <1>9. WorkIsNew'
    BY <1>1, <1>2, <1>4, ZenonT(60) DEF WorkInv, WorkIsNew
  <1>10. AtMostOnce'
    BY <1>1 DEF WorkInv, AtMostOnce
  <1>11. UnwrittenIsRunning'
    <2> SUFFICES ASSUME NEW q \in Procs, proc'[q].pc \in {"work", "finish"}
                 PROVE  ops'[proc'[q].op].status = "running" \/ proc'[q].op \in disturbed
      BY DEF UnwrittenIsRunning
    <2>1. CASE q = p
      BY <1>2, <2>1
    <2>2. CASE q # p
      BY <1>1, <1>2, <1>6, <2>2 DEF WorkInv, UnwrittenIsRunning, Busy
    <2> QED
      BY <2>1, <2>2
  <1> QED
    BY <1>5, <1>7, <1>8, <1>9, <1>10, <1>11 DEF WorkInv

\* The work runs: the first time for its key.
LEMMA WorkStep ==
  ASSUME LedgerInv, LedgerShapes', NEW p \in Procs, Work(p)
  PROVE  WorkInv'
  <1>1. WorkInv /\ LedgerShapes /\ Rows' = Rows /\ ops' = ops
    BY DEF LedgerInv, Work, Rows
  <1> DEFINE k == proc[p].key
  <1>2. /\ proc[p].pc = "work" /\ k \in Keys /\ disturbed' = disturbed
        /\ proc[p].op \in Rows /\ ops[proc[p].op].key = k
        /\ effects[k] = 0
    BY <1>1 DEF Work, LedgerShapes, Process, WorkInv, WorkersHaveRows, Busy, WorkIsNew
  <1>3. /\ effects' = [effects EXCEPT ![k] = 1]
    BY <1>2 DEF Work
  <1>4. effects'[k] = 1 /\ \A m \in Keys \ {k} : effects'[m] = effects[m]
    BY <1>1, <1>2, <1>3 DEF LedgerShapes
  <1>5. /\ proc'[p].pc \in {"finish", "fail"}
        /\ proc'[p].op = proc[p].op /\ proc'[p].key = proc[p].key
        /\ \A q \in Procs : q # p => proc'[q] = proc[q]
    BY <1>1 DEF Work, Goto, LedgerShapes, Process
  <1> HIDE DEF k
  <1>6. KeysAreUnique' /\ WorkersHaveRows' /\ OneWorker'
    BY <1>1, <1>2, <1>5 DEF WorkInv, KeysAreUnique, WorkersHaveRows, OneWorker, Busy
  <1>7. AtMostOnce'
    BY <1>1, <1>4 DEF WorkInv, AtMostOnce
  <1>8. WorkIsNew'
    <2>1. \A m \in Keys : (\A j \in Rows : ops[j].key # m) => effects'[m] = 0
      BY <1>1, <1>2, <1>4 DEF WorkInv, WorkIsNew
    <2>2. ASSUME NEW q \in Procs, proc'[q].pc = "work"
          PROVE  effects'[proc'[q].key] = 0
      <3>1. q # p /\ proc'[q] = proc[q]
        BY <1>5, <2>2
      <3>2. /\ proc[q].op \in Rows /\ ops[proc[q].op].key = proc[q].key
            /\ effects[proc[q].key] = 0 /\ proc[q].key \in Keys
        BY <1>1, <2>2, <3>1
           DEF WorkInv, WorkersHaveRows, WorkIsNew, Busy, LedgerShapes, Process
      <3>3. proc[q].key # k
        <4>1. proc[q].key = k => proc[q].op = proc[p].op
          BY <1>1, <1>2, <3>2 DEF WorkInv, KeysAreUnique
        <4>2. proc[q].op # proc[p].op
          BY <1>1, <1>2, <2>2, <3>1 DEF WorkInv, OneWorker, Busy
        <4> QED
          BY <4>1, <4>2
      <3> QED
        BY <1>4, <3>1, <3>2, <3>3
    <2> QED
      BY <1>1, <2>1, <2>2 DEF WorkIsNew
  <1>9. UnwrittenIsRunning'
    BY <1>1, <1>2, <1>5 DEF WorkInv, UnwrittenIsRunning
  <1> QED
    BY <1>6, <1>7, <1>8, <1>9 DEF WorkInv

----------------------------------------------------------------------------
(* Every operation keeps the shapes and the order of the work.              *)

\* Steps that move one process and leave the tables alone, or change only a
\* confirmation request.
LEMMA RequestStatusShape ==
  ASSUME LedgerShapes, LedgerRefers, NEW r, NEW s \in RequestStatuses,
         requests' = [requests EXCEPT ![r].status = s]
  PROVE  /\ requests' \in [Requests -> Request]
         /\ \A x \in Requests : requests'[x].expires = requests[x].expires
                                /\ requests'[x].op = requests[x].op
  BY DEF LedgerShapes, Request

\* p moves to another place in its code.
LEMMA GotoShape ==
  ASSUME LedgerShapes, LedgerRefers, NEW p \in Procs, NEW c \in Pcs, Goto(p, c)
  PROVE  /\ proc' \in [Procs -> Process]
         /\ \A q \in Procs : q # p => proc'[q] = proc[q]
         /\ proc'[p].pc = c /\ proc'[p].op = proc[p].op /\ proc'[p].key = proc[p].key
  <1> DEFINE z == [proc[p] EXCEPT !.pc = c]
  <1>1. z \in Process /\ z.pc = c /\ z.op = proc[p].op /\ z.key = proc[p].key
    BY DEF LedgerShapes, Process
  <1>2. proc' = [proc EXCEPT ![p] = z]
    BY DEF Goto
  <1> HIDE DEF z
  <1> QED
    BY <1>1, <1>2, OneProcess

\* p moves and remembers another operation.
GotoWith(p, c, i) == proc' = [proc EXCEPT ![p].pc = c, ![p].op = i]

LEMMA GotoOpShape ==
  ASSUME LedgerShapes, NEW p \in Procs, NEW c \in Pcs, NEW i \in Nat,
         GotoWith(p, c, i)
  PROVE  /\ proc' \in [Procs -> Process]
         /\ \A q \in Procs : q # p => proc'[q] = proc[q]
         /\ proc'[p].pc = c /\ proc'[p].op = i /\ proc'[p].key = proc[p].key
  <1> DEFINE z == [proc[p] EXCEPT !.pc = c, !.op = i]
  <1>1. z \in Process /\ z.pc = c /\ z.op = i /\ z.key = proc[p].key
    BY DEF LedgerShapes, Process
  <1>2. proc' = [proc EXCEPT ![p] = z]
    BY DEF LedgerShapes, GotoWith
  <1> HIDE DEF z
  <1> QED
    BY <1>1, <1>2, OneProcess

\* A step that leaves the operations, the world and the clock alone and moves
\* p out of, or outside, the ledger.
LEMMA OutsideStep ==
  ASSUME LedgerInv, NEW p \in Procs,
         UNCHANGED <<ops, effects, now, disturbed>>,
         requests' \in [Requests -> Request],
         \A x \in Requests : /\ requests'[x].expires =< now + Ttl
                             /\ requests'[x].op =< Len(ops),
         proc' \in [Procs -> Process],
         \A q \in Procs : q # p => proc'[q] = proc[q],
         proc'[p].pc \notin Busy \/ proc'[p] = proc[p],
         proc'[p].op =< Len(ops)
  PROVE  LedgerInv'
  <1>1. LedgerShapes' /\ LedgerRefers' 
    BY DEF LedgerInv, LedgerShapes, LedgerRefers, Rows
  <1>2. WorkInv'
    BY <1>1, QuietStep
  <1> QED
    BY <1>1, <1>2 DEF LedgerInv

LEMMA CallStep ==
  ASSUME LedgerInv, NEW p \in Callers, NEW k \in Keys, Call(p, k)
  PROVE  LedgerInv'
  <1>1. Client[p] \in Actors /\ p \in Procs /\ "reserve" \in Pcs /\ "reserve" \notin Busy
    BY PcNames DEF Actors, Procs
  <1> DEFINE z == [Idle EXCEPT !.pc = "reserve", !.key = k, !.actor = Client[p]]
  <1>2. z \in Process /\ z.op = 0 /\ z.pc = "reserve"
    BY <1>1, IdleShape DEF Process
  <1>3. proc' = [proc EXCEPT ![p] = z] /\ UNCHANGED <<ops, requests, effects, now, disturbed>>
    BY DEF Call
  <1> HIDE DEF z
  <1>4. /\ proc' \in [Procs -> Process] /\ proc'[p] = z
        /\ \A q \in Procs : q # p => proc'[q] = proc[q]
    BY <1>1, <1>2, <1>3, OneProcess DEF LedgerInv
  <1>5. 0 =< Len(ops)
    BY DEF LedgerInv, LedgerShapes
  <1> QED
    BY <1>1, <1>2, <1>3, <1>4, <1>5, OutsideStep
       DEF LedgerInv, LedgerShapes, LedgerRefers

LEMMA CreateConfirmationStep ==
  ASSUME LedgerInv, NEW p \in Callers, NEW r \in Requests, CreateConfirmation(p, r)
  PROVE  LedgerInv'
  <1>1. p \in Procs /\ now \in Nat /\ Ttl \in Nat /\ Len(ops) \in Nat
    BY LedgerAssumption DEF LedgerInv, LedgerShapes, Procs
  <1> DEFINE w == [status |-> "pending", expires |-> now + Ttl, op |-> 0]
  <1>2. w \in Request /\ w.expires = now + Ttl /\ w.op = 0
    BY <1>1 DEF Request, RequestStatuses
  <1>3. requests' = [requests EXCEPT ![r] = w] /\ UNCHANGED <<ops, proc, effects, now, disturbed>>
    BY DEF CreateConfirmation
  <1> HIDE DEF w
  <1>4. /\ requests' \in [Requests -> Request]
        /\ \A x \in Requests : requests'[x] \in {requests[x], w}
    BY <1>2, <1>3 DEF LedgerInv, LedgerShapes
  <1>5. \A x \in Requests : requests'[x].expires =< now + Ttl /\ requests'[x].op =< Len(ops)
    BY <1>1, <1>2, <1>4 DEF LedgerInv, LedgerRefers
  <1> QED
    BY <1>1, <1>3, <1>4, <1>5, OutsideStep DEF LedgerInv, LedgerShapes, LedgerRefers

\* confirm and reject, up to the check that the request is pending.
LEMMA CheckPendingStep ==
  ASSUME LedgerInv, NEW p \in Operators, NEW r \in Requests, NEW c \in {"confirm", "reject"},
         CheckPending(p, r, c), UNCHANGED <<ops, effects, now, disturbed>>
  PROVE  LedgerInv'
  <1>1. /\ p \in Procs /\ c \in Pcs /\ c \notin Busy /\ KeyOf[r] \in Keys
        /\ Client[r] \in Actors /\ 0 =< Len(ops)
        /\ LedgerShapes /\ LedgerRefers
    BY LedgerAssumption DEF Procs, Pcs, Busy, Actors, LedgerInv, LedgerShapes
  <1>2. CASE requests' = [requests EXCEPT ![r].status = "expired"] /\ proc' = proc
    <2>1. /\ requests' \in [Requests -> Request]
          /\ \A x \in Requests : requests'[x].expires = requests[x].expires
                                 /\ requests'[x].op = requests[x].op
      BY <1>1, <1>2, RequestStatusShape DEF RequestStatuses
    <2> QED
      BY <1>1, <1>2, <2>1, OutsideStep DEF LedgerShapes, LedgerRefers
  <1>3. CASE requests' = requests /\ proc' # proc
    <2> DEFINE z == [Idle EXCEPT !.pc = c, !.request = r, !.key = KeyOf[r], !.actor = Client[r]]
    <2>1. z \in Process /\ z.op = 0 /\ z.pc = c
      BY <1>1, IdleShape DEF Process
    <2>2. proc' = [proc EXCEPT ![p] = z]
      BY <1>3 DEF CheckPending
    <2> HIDE DEF z
    <2>3. /\ proc' \in [Procs -> Process] /\ proc'[p] = z
          /\ \A q \in Procs : q # p => proc'[q] = proc[q]
      BY <1>1, <2>1, <2>2, OneProcess
    <2> QED
      BY <1>1, <1>3, <2>1, <2>3, OutsideStep DEF LedgerShapes, LedgerRefers
  <1>4. CASE requests' = requests /\ proc' = proc
    BY <1>1, <1>4, OutsideStep DEF LedgerShapes, LedgerRefers
  <1> QED
    BY <1>2, <1>3, <1>4 DEF CheckPending

\* The second half of confirm, reject and consume.
LEMMA RequestSteps ==
  ASSUME LedgerInv, NEW p \in Procs,
         ConfirmWrite(p) \/ RejectWrite(p) \/ ConsumeRead(p) \/ ConsumeWrite(p)
  PROVE  LedgerInv'
  <1>1. /\ LedgerShapes /\ LedgerRefers
        /\ {"reserve", "consume", "idle", "consuming"} \subseteq Pcs
        /\ UNCHANGED <<ops, effects, now, disturbed>>
    BY DEF LedgerInv, Pcs, ConfirmWrite, RejectWrite, ConsumeRead, ConsumeWrite
  <1>2. PICK c \in {"reserve", "consume", "idle", "consuming"} : Goto(p, c)
    BY DEF ConfirmWrite, RejectWrite, ConsumeRead, ConsumeWrite
  <1>3. /\ proc' \in [Procs -> Process]
        /\ \A q \in Procs : q # p => proc'[q] = proc[q]
        /\ proc'[p].pc \notin Busy /\ proc'[p].op =< Len(ops)
    BY <1>1, <1>2, GotoShape DEF Busy, LedgerRefers
  <1>4. /\ requests' \in [Requests -> Request]
        /\ \A x \in Requests : /\ requests'[x].expires = requests[x].expires
                               /\ requests'[x].op =< Len(ops)
    <2>1. CASE ConfirmWrite(p)
      BY <1>1, <2>1, RequestStatusShape DEF ConfirmWrite, RequestStatuses, LedgerRefers
    <2>2. CASE RejectWrite(p)
      BY <1>1, <2>2, RequestStatusShape DEF RejectWrite, RequestStatuses, LedgerRefers
    <2>3. CASE ConsumeRead(p)
      BY <1>1, <2>3 DEF ConsumeRead, LedgerShapes, LedgerRefers
    <2>4. CASE ConsumeWrite(p)
      <3> DEFINE x == proc[p].request
                 w == [requests[x] EXCEPT !.status = "consumed", !.op = proc[p].op]
      <3>1. requests' = [requests EXCEPT ![x] = w]
        BY <2>4 DEF ConsumeWrite
      <3>2. x \in Requests => w \in Request /\ w.expires = requests[x].expires /\ w.op = proc[p].op
        BY <1>1 DEF LedgerShapes, Request, RequestStatuses, Process
      <3>3. proc[p].op =< Len(ops)
        BY <1>1 DEF LedgerRefers
      <3> HIDE DEF w, x
      <3> QED
        BY <1>1, <3>1, <3>2, <3>3 DEF LedgerShapes, LedgerRefers
    <2> QED
      BY <2>1, <2>2, <2>3, <2>4
  <1> QED
    BY <1>1, <1>3, <1>4, OutsideStep DEF LedgerRefers

LEMMA ReserveStep ==
  ASSUME LedgerInv, NEW p \in Procs, Reserve(p)
  PROVE  LedgerInv'
  <1>1. /\ LedgerShapes /\ LedgerRefers /\ Len(ops) \in Nat
        /\ UNCHANGED <<requests, effects, now, disturbed>>
        /\ Returned(p) \in Pcs /\ Returned(p) \notin Busy
    BY PcNames DEF LedgerInv, LedgerShapes, Reserve
  <1>2. ASSUME NEW i \in 0 .. Len(ops),
               GotoWith(p, Returned(p), i), ops' = ops
        PROVE  LedgerInv'
    <2>1. /\ proc' \in [Procs -> Process]
          /\ \A q \in Procs : q # p => proc'[q] = proc[q]
          /\ proc'[p].pc \notin Busy /\ proc'[p].op = i
      BY <1>1, <1>2, GotoOpShape
    <2> QED
      BY <1>1, <1>2, <2>1, OutsideStep DEF LedgerShapes, LedgerRefers
  <1>3. CASE Prior(proc[p].key) # {}
    <2>1. PICK i \in Prior(proc[p].key) :
            /\ GotoWith(p, Returned(p), IF ops[i].status \in {"succeeded", "pending"} THEN i ELSE 0)
            /\ ops' = ops
      BY <1>3 DEF Reserve, Replay, GotoWith
    <2>2. i \in 0 .. Len(ops) /\ 0 \in 0 .. Len(ops)
      BY <1>1 DEF Prior, Rows
    <2> QED
      BY <1>2, <2>1, <2>2
  <1>4. CASE Prior(proc[p].key) = {} /\ ~WithinBudget(proc[p].actor, proc[p].key)
    <2>1. Goto(p, Returned(p)) /\ ops' = ops
      BY <1>4 DEF Reserve, StartOperation
    <2>2. /\ proc' \in [Procs -> Process]
          /\ \A q \in Procs : q # p => proc'[q] = proc[q]
          /\ proc'[p].pc \notin Busy /\ proc'[p].op = proc[p].op
      BY <1>1, <2>1, GotoShape
    <2> QED
      BY <1>1, <2>1, <2>2, OutsideStep DEF LedgerShapes, LedgerRefers
  <1>5. CASE Prior(proc[p].key) = {} /\ WithinBudget(proc[p].actor, proc[p].key)
    <2> DEFINE w == [key |-> proc[p].key, actor |-> proc[p].actor,
                     status |-> "running", at |-> now]
    <2>1. /\ ops' = Append(ops, w)
          /\ GotoWith(p, "work", Len(ops) + 1)
      BY <1>5 DEF Reserve, StartOperation, GotoWith
    <2>2. w \in OpRow /\ w.key = proc[p].key /\ w.status = "running" /\ w.at = now
      BY <1>1, LedgerAssumption DEF LedgerShapes, Process, OpRow, Statuses
    <2> HIDE DEF w
    <2>3. /\ ops' \in Seq(OpRow) /\ Len(ops') = Len(ops) + 1
          /\ Rows' = Rows \cup {Len(ops) + 1}
          /\ ops'[Len(ops) + 1] = w
          /\ \A j \in Rows : ops'[j] = ops[j]
      BY <1>1, <2>1, <2>2, RowAppended
    <2>4. /\ proc' \in [Procs -> Process]
          /\ \A q \in Procs : q # p => proc'[q] = proc[q]
          /\ proc'[p].op = Len(ops) + 1 /\ proc'[p].key = proc[p].key
      <3>1. "work" \in Pcs /\ Len(ops) + 1 \in Nat
        BY <1>1, PcNames
      <3> QED
        BY <1>1, <2>1, <3>1, GotoOpShape
    <2>5. LedgerShapes'
      BY <1>1, <2>3, <2>4 DEF LedgerShapes
    <2>6. LedgerRefers'
      <3>1. \A i \in Rows' : ops'[i].at =< now
        BY <1>1, <2>2, <2>3 DEF LedgerRefers, LedgerShapes
      <3>2. \A r \in Requests : /\ requests[r].expires =< now + Ttl
                                /\ requests[r].op =< Len(ops)
                                /\ requests[r].op \in Nat
        BY <1>1 DEF LedgerRefers, LedgerShapes, Request
      <3>3. \A q \in Procs : q # p => proc'[q].op =< Len(ops) /\ proc[q].op \in Nat
        BY <1>1, <2>4 DEF LedgerRefers, LedgerShapes, Process
      <3> QED
        BY ONLY <1>1, <2>3, <2>4, <3>1, <3>2, <3>3 DEF LedgerRefers
    <2>7. WorkInv'
      BY <1>1, <1>5, <2>1, <2>2, <2>4, <2>5, ReserveRowStep
    <2> QED
      BY <2>5, <2>6, <2>7 DEF LedgerInv
  <1> QED
    BY <1>3, <1>4, <1>5

\* A row's outcome is written and p goes on.
LEMMA WorkSteps ==
  ASSUME LedgerInv, NEW p \in Procs,
         Work(p) \/ Finish(p) \/ AppendEvent(p) \/ FailOperation(p)
  PROVE  LedgerInv'
  <1>1. /\ LedgerShapes /\ LedgerRefers /\ WorkInv /\ Len(ops) \in Nat
        /\ proc[p].pc \in Busy
        /\ UNCHANGED <<requests, now>>
        /\ Returned(p) \in Pcs /\ Returned(p) \notin Busy
    BY PcNames DEF LedgerInv, LedgerShapes, Work, Finish, AppendEvent, FailOperation, Busy
  <1>2. proc[p].op \in Rows /\ proc[p].key \in Keys
    BY <1>1 DEF WorkInv, WorkersHaveRows, LedgerShapes, Process
  <1>3. CASE Work(p)
    <2>1. PICK c \in {"finish", "fail"} : Goto(p, c)
      BY <1>3 DEF Work
    <2>2. /\ proc' \in [Procs -> Process]
          /\ \A q \in Procs : q # p => proc'[q] = proc[q]
          /\ proc'[p].op = proc[p].op
      BY <1>1, <2>1, GotoShape, PcNames
    <2>3. effects' \in [Keys -> Nat] /\ UNCHANGED <<ops, disturbed>>
      BY <1>1, <1>2, <1>3 DEF Work, LedgerShapes
    <2>4. LedgerShapes' /\ LedgerRefers'
      BY <1>1, <2>2, <2>3 DEF LedgerShapes, LedgerRefers, Rows
    <2> QED
      BY <1>3, <2>4, WorkStep DEF LedgerInv
  <1>4. CASE AppendEvent(p)
    <2>1. PICK c \in {Returned(p), "fail"} : Goto(p, c)
      BY <1>4 DEF AppendEvent
    <2>2. /\ proc' \in [Procs -> Process]
          /\ \A q \in Procs : q # p => proc'[q] = proc[q]
          /\ proc'[p].pc = c /\ proc'[p].op = proc[p].op /\ proc'[p].key = proc[p].key
      BY <1>1, <2>1, GotoShape, PcNames
    <2>3. /\ UNCHANGED <<ops, effects>>
          /\ disturbed' \in {disturbed, disturbed \cup {proc[p].op}}
      BY <1>4 DEF AppendEvent
    <2>4. LedgerShapes' /\ LedgerRefers'
      BY <1>1, <1>2, <2>2, <2>3 DEF LedgerShapes, LedgerRefers, Rows
    <2>5. WorkInv'
      BY <1>1, <2>1, <2>2, <2>3, <2>4, QuietStep
    <2> QED
      BY <2>4, <2>5 DEF LedgerInv
  <1>5. ASSUME NEW s \in Statuses, ops' = [ops EXCEPT ![proc[p].op].status = s],
               UNCHANGED <<effects, disturbed>>,
               proc' \in [Procs -> Process],
               \A q \in Procs : q # p => proc'[q] = proc[q],
               proc'[p].op \in {0, proc[p].op},
               \/ proc'[p].pc \notin Busy
               \/ /\ proc'[p].pc = "event"
                  /\ proc'[p].op = proc[p].op /\ proc'[p].key = proc[p].key
        PROVE  LedgerInv'
    <2>1. /\ ops' \in Seq(OpRow) /\ Len(ops') = Len(ops) /\ Rows' = Rows
          /\ \A j \in Rows : ops'[j].at = ops[j].at
      BY <1>1, <1>2, <1>5, StatusWritten
    <2>a. LedgerShapes'
      BY <1>1, <1>5, <2>1 DEF LedgerShapes
    <2>b. proc'[p].op =< Len(ops) /\ \A q \in Procs : q # p => proc'[q].op =< Len(ops)
      BY <1>1, <1>5 DEF LedgerRefers
    <2>c. LedgerRefers'
      BY <1>1, <1>5, <2>1, <2>b DEF LedgerRefers
    <2>2. LedgerShapes' /\ LedgerRefers'
      BY <2>a, <2>c
    <2>3. WorkInv'
      BY <1>1, <1>2, <1>5, <2>2, OutcomeStep
    <2> QED
      BY <2>2, <2>3 DEF LedgerInv
  <1>6. CASE Finish(p)
    <2>1. Goto(p, "event")
      BY <1>6 DEF Finish
    <2>2. /\ proc' \in [Procs -> Process]
          /\ \A q \in Procs : q # p => proc'[q] = proc[q]
          /\ proc'[p].pc = "event" /\ proc'[p].op = proc[p].op /\ proc'[p].key = proc[p].key
      BY <1>1, <2>1, GotoShape, PcNames
    <2>3. \E s \in Statuses : ops' = [ops EXCEPT ![proc[p].op].status = s]
      BY <1>6 DEF Finish, Statuses
    <2> QED
      BY <1>5, <1>6, <2>2, <2>3 DEF Finish
  <1>7. CASE FailOperation(p)
    <2>1. /\ proc' \in [Procs -> Process]
          /\ \A q \in Procs : q # p => proc'[q] = proc[q]
          /\ proc'[p].pc = Returned(p) /\ proc'[p].op = 0
      <3>1. GotoWith(p, Returned(p), 0)
        BY <1>7 DEF FailOperation, GotoWith
      <3> QED
        BY <1>1, <3>1, GotoOpShape
    <2>2. "failed" \in Statuses /\ ops' = [ops EXCEPT ![proc[p].op].status = "failed"]
      BY <1>7 DEF FailOperation, Statuses
    <2> QED
      BY <1>1, <1>5, <1>7, <2>1, <2>2 DEF FailOperation
  <1> QED
    BY <1>3, <1>4, <1>6, <1>7

LEMMA RepairStep ==
  ASSUME LedgerInv, NEW i \in Rows, RepairStale(i)
  PROVE  LedgerInv'
  <1>1. /\ LedgerShapes /\ LedgerRefers /\ "failed" \in Statuses
        /\ ops' = [ops EXCEPT ![i].status = "failed"]
        /\ UNCHANGED <<requests, proc, effects, now>>
        /\ disturbed' \in {disturbed, disturbed \cup {i}}
        /\ (\E p \in Procs : WorksOn(p, i)) => i \in disturbed'
    BY DEF LedgerInv, RepairStale, Statuses
  <1>2. /\ ops' \in Seq(OpRow) /\ Len(ops') = Len(ops) /\ Rows' = Rows
        /\ \A j \in Rows : ops'[j].at = ops[j].at
    BY <1>1, StatusWritten
  <1>3. LedgerShapes' /\ LedgerRefers'
    BY <1>1, <1>2 DEF LedgerShapes, LedgerRefers
  <1>4. WorkInv'
    BY <1>1, <1>3, OutcomeStep
  <1> QED
    BY <1>3, <1>4 DEF LedgerInv

LEMMA CrashStep ==
  ASSUME LedgerInv, NEW p \in Procs, Crash(p)
  PROVE  LedgerInv'
  <1>1. /\ proc' = [proc EXCEPT ![p] = Idle]
        /\ UNCHANGED <<ops, requests, effects, now, disturbed>>
        /\ Idle \in Process /\ Idle.op = 0 /\ Idle.pc = "idle"
        /\ LedgerShapes /\ LedgerRefers /\ Len(ops) \in Nat
    BY IdleShape DEF Crash, LedgerInv, LedgerShapes
  <1>2. /\ proc' \in [Procs -> Process] /\ proc'[p] = Idle
        /\ \A q \in Procs : q # p => proc'[q] = proc[q]
    BY <1>1, OneProcess
  <1>3. proc'[p].pc \notin Busy /\ proc'[p].op =< Len(ops)
    BY <1>1, <1>2, PcNames
  <1> QED
    BY <1>1, <1>2, <1>3, OutsideStep DEF LedgerShapes, LedgerRefers

LEMMA TickStep ==
  ASSUME LedgerInv, Tick
  PROVE  LedgerInv'
  <1>1. /\ LedgerShapes /\ LedgerRefers /\ WorkInv
        /\ now' = now + 1 /\ now' \in 0 .. MaxNow
        /\ UNCHANGED <<ops, requests, proc, effects, disturbed>>
    BY LedgerAssumption DEF LedgerInv, LedgerShapes, Tick
  <1>2. LedgerShapes'
    BY <1>1 DEF LedgerShapes, Rows
  <1>3. LedgerRefers'
    <2>1. /\ \A i \in Rows : ops[i].at =< now + 1
          /\ \A r \in Requests : requests[r].expires =< now + 1 + Ttl
      <3>1. \A i \in Rows : ops[i] \in OpRow
        BY <1>1 DEF LedgerShapes, Rows
      <3>2. \A i \in Rows : ops[i].at \in Nat /\ ops[i].at =< now
        BY <1>1, <3>1 DEF LedgerRefers, OpRow
      <3>3. \A r \in Requests : requests[r].expires \in Nat /\ requests[r].expires =< now + Ttl
        BY <1>1 DEF LedgerRefers, LedgerShapes, Request
      <3>4. now \in Nat /\ Ttl \in Nat
        BY <1>1, LedgerAssumption DEF LedgerShapes
      <3> QED
        BY ONLY <3>2, <3>3, <3>4
    <2> QED
      BY <1>1, <2>1 DEF LedgerRefers, Rows
  <1>4. WorkInv'
    BY <1>1 DEF WorkInv, KeysAreUnique, WorkersHaveRows, OneWorker, WorkIsNew,
       AtMostOnce, UnwrittenIsRunning, Rows
  <1> QED
    BY <1>2, <1>3, <1>4 DEF LedgerInv

LEMMA LedgerStep ==
  ASSUME LedgerInv, [LedgerNext]_ledgerVars
  PROVE  LedgerInv'
  <1>1. CASE \E p \in Callers, k \in Keys \ {KeyOf[r] : r \in Requests} : Call(p, k)
    BY <1>1, CallStep
  <1>2. CASE \E p \in Callers, r \in Requests : CreateConfirmation(p, r)
    BY <1>2, CreateConfirmationStep
  <1>3. CASE \E p \in Operators, r \in Requests : ConfirmRead(p, r) \/ RejectRead(p, r)
    BY <1>3, CheckPendingStep DEF ConfirmRead, RejectRead
  <1>4. CASE \E p \in Procs : ProcStep(p) \/ Crash(p)
    BY <1>4, ReserveStep, WorkSteps, RequestSteps, CrashStep DEF ProcStep
  <1>5. CASE \E i \in Rows : RepairStale(i)
    BY <1>5, RepairStep
  <1>6. CASE Tick
    BY <1>6, TickStep
  <1>7. CASE UNCHANGED ledgerVars
    BY <1>7 DEF ledgerVars, LedgerInv, LedgerShapes, LedgerRefers, WorkInv, KeysAreUnique,
       WorkersHaveRows, OneWorker, WorkIsNew, AtMostOnce, UnwrittenIsRunning, Rows
  <1> QED
    BY <1>1, <1>2, <1>3, <1>4, <1>5, <1>6, <1>7 DEF LedgerNext

LEMMA LedgerInitInv == LedgerInit => LedgerInv
  <1> SUFFICES ASSUME LedgerInit PROVE LedgerInv
    OBVIOUS
  <1>1. /\ ops = <<>> /\ Rows = {} /\ Len(ops) = 0 /\ ops \in Seq(OpRow)
        /\ effects = [k \in Keys |-> 0] /\ now = 0 /\ disturbed = {}
    BY DEF LedgerInit, Rows
  <1>2. /\ requests \in [Requests -> Request]
        /\ \A r \in Requests : requests[r].expires = 0 /\ requests[r].op = 0
    BY DEF LedgerInit, Request, RequestStatuses
  <1>3. /\ proc \in [Procs -> Process]
        /\ \A p \in Procs : proc[p].op = 0 /\ proc[p].pc \in {"idle", "absent"}
    <2>1. PICK cast \in Casts :
            proc = [p \in Procs |-> IF p \in cast THEN Idle ELSE [Idle EXCEPT !.pc = "absent"]]
      BY DEF LedgerInit
    <2> DEFINE z == [Idle EXCEPT !.pc = "absent"]
    <2>2. z \in Process /\ z.op = 0 /\ z.pc = "absent"
      BY IdleShape DEF Process, Pcs
    <2>3. proc = [p \in Procs |-> IF p \in cast THEN Idle ELSE z]
      BY <2>1
    <2> HIDE DEF z
    <2> QED
      BY <2>2, <2>3, IdleShape
  <1>4. LedgerShapes
    BY <1>1, <1>2, <1>3, LedgerAssumption DEF LedgerShapes
  <1>5. LedgerRefers
    BY <1>1, <1>2, <1>3, LedgerAssumption DEF LedgerRefers
  <1>6. WorkInv
    BY <1>1, <1>3 DEF WorkInv, KeysAreUnique, WorkersHaveRows, OneWorker, WorkIsNew,
       AtMostOnce, UnwrittenIsRunning, Busy
  <1> QED
    BY <1>4, <1>5, <1>6 DEF LedgerInv

\* The types, the account of the work and the limits of the ledger together,
\* through every call, crash, confirmation and repair (runOperation, db repair).
THEOREM LedgerInvariant == LedgerSpec => []LedgerInv
  <1>1. LedgerInv /\ [LedgerNext]_ledgerVars => LedgerInv'
    BY LedgerStep
  <1> QED
    BY LedgerInitInv, <1>1, PTL DEF LedgerSpec

\* The operations table, the confirmation requests and the processes of
\* runOperation and confirmation-runner stay in their types.
THEOREM LedgerTypeCorrect == LedgerSpec => []LedgerTypeOK
  <1>1. LedgerInv => LedgerTypeOK
    <2> SUFFICES ASSUME LedgerInv PROVE LedgerTypeOK
      OBVIOUS
    <2>1. LedgerShapes /\ LedgerRefers /\ Len(ops) \in Nat /\ now \in Nat /\ Ttl \in Nat
      BY LedgerAssumption DEF LedgerInv, LedgerShapes
    <2>2. \A i \in Rows : ops[i] \in OpRow
      BY <2>1 DEF LedgerShapes, Rows
    <2>3. \A i \in Rows : ops[i].key \in Keys /\ ops[i].status \in Statuses /\ ops[i].at \in 0 .. now
      BY <2>1, <2>2 DEF LedgerRefers, OpRow
    <2>4. \A r \in Requests : /\ requests[r].status \in RequestStatuses
                              /\ requests[r].expires \in 0 .. now + Ttl
                              /\ requests[r].op \in 0 .. Len(ops)
      BY <2>1 DEF LedgerShapes, LedgerRefers, Request
    <2>5. \A p \in Procs : proc[p].pc \in Pcs /\ proc[p].key \in Keys /\ proc[p].op \in 0 .. Len(ops)
      BY <2>1 DEF LedgerShapes, LedgerRefers, Process
    <2> QED
      BY <2>1, <2>3, <2>4, <2>5 DEF LedgerTypeOK, LedgerShapes
  <1> QED
    BY LedgerInvariant, <1>1, PTL

\* The reservation transaction of runOperation lets the work of a key run at
\* most once, for any number of clients, operators, crashes and repairs.
THEOREM WorkRunsAtMostOnce == LedgerSpec => []AtMostOnce
  <1>1. LedgerInv => AtMostOnce
    BY DEF LedgerInv, WorkInv
  <1> QED
    BY LedgerInvariant, <1>1, PTL

----------------------------------------------------------------------------
(* The budget.                                                              *)

LEMMA BoundOfSubset ==
  ASSUME NEW S, IsFiniteSet(S), NEW T \in SUBSET S, NEW m \in Nat, Cardinality(S) =< m
  PROVE  Cardinality(T) =< m
  <1>1. Cardinality(T) =< Cardinality(S) /\ IsFiniteSet(T)
    BY FS_Subset
  <1>2. Cardinality(T) \in Nat /\ Cardinality(S) \in Nat
    BY <1>1, FS_CardinalityType
  <1> QED
    BY <1>1, <1>2

LEMMA BoundOfOneMore ==
  ASSUME NEW S, IsFiniteSet(S), NEW n, NEW T \in SUBSET (S \cup {n}), NEW m \in Nat,
         Cardinality(S) < m
  PROVE  Cardinality(T) =< m
  <1>1. IsFiniteSet(S \cup {n}) /\ Cardinality(S \cup {n}) \in {Cardinality(S), Cardinality(S) + 1}
    BY FS_AddElement
  <1>2. Cardinality(S) \in Nat
    BY FS_CardinalityType
  <1>3. Cardinality(S \cup {n}) =< m
    BY <1>1, <1>2
  <1> QED
    BY <1>1, <1>3, BoundOfSubset

\* The three counts of checkMutationBudget for one client.
RecentRuns(a) == {i \in Recent(a) : ops[i].key \in RunKeys}

CountedRuns(a) == InFlightRuns(a) \ disturbed

WithinLimits(a) ==
  /\ Cardinality(Recent(a)) =< MaxMutations
  /\ Cardinality(RecentRuns(a)) =< MaxRuns
  /\ Cardinality(CountedRuns(a)) =< MaxConcurrent

LEMMA CountsAreFinite ==
  ASSUME LedgerShapes
  PROVE  /\ IsFiniteSet(Rows)
         /\ \A a : /\ IsFiniteSet(Recent(a)) /\ IsFiniteSet(RecentRuns(a))
                   /\ IsFiniteSet(InFlightRuns(a)) /\ IsFiniteSet(CountedRuns(a))
  <1>1. IsFiniteSet(Rows)
    <2>1. Len(ops) \in Nat
      BY DEF LedgerShapes
    <2> QED
      BY <2>1, FS_Interval DEF Rows
  <1>2. \A T \in SUBSET Rows : IsFiniteSet(T)
    BY <1>1, FS_Subset
  <1> QED
    BY <1>1, <1>2 DEF Recent, RecentRuns, InFlightRuns, CountedRuns

\* A step that adds no row and brings none back into flight, except disturbed
\* ones, only lowers the counts.
LEMMA CountsShrink ==
  ASSUME LedgerInv, LedgerInv', Rows' = Rows, now =< now', disturbed \subseteq disturbed',
         \A j \in Rows : /\ ops'[j].key = ops[j].key /\ ops'[j].actor = ops[j].actor
                         /\ ops'[j].at = ops[j].at
                         /\ \/ ops'[j].status = ops[j].status
                            \/ ops'[j].status \notin {"pending", "running"}
                            \/ ops[j].status \in {"pending", "running"}
                            \/ j \in disturbed,
         NEW a, WithinLimits(a)
  PROVE  WithinLimits(a)'
  <1>1. \A j \in Rows : ops[j].at \in Nat
    <2>1. \A j \in Rows : ops[j] \in OpRow
      BY DEF LedgerInv, LedgerShapes, Rows
    <2> QED
      BY <2>1 DEF OpRow
  <1>2. now \in Nat /\ now' \in Nat /\ Hour \in Nat
    BY LedgerAssumption DEF LedgerInv, LedgerShapes
  <1>3. Recent(a)' \subseteq Recent(a)
    <2> SUFFICES ASSUME NEW j \in Rows, ops'[j].actor = a, ops'[j].at >= now' - Hour
                 PROVE  ops[j].actor = a /\ ops[j].at >= now - Hour
      BY DEF Recent
    <2>1. ops[j].actor = a /\ ops[j].at >= now' - Hour /\ ops[j].at \in Nat
      BY <1>1
    <2> QED
      BY ONLY <1>2, <2>1, now =< now'
  <1>4. RecentRuns(a)' \subseteq RecentRuns(a)
    <2>1. Recent(a) \subseteq Rows
      BY DEF Recent
    <2> QED
      BY <1>3, <2>1 DEF RecentRuns
  <1>5. CountedRuns(a)' \subseteq CountedRuns(a)
    BY DEF CountedRuns, InFlightRuns
  <1>6. /\ IsFiniteSet(Recent(a)) /\ IsFiniteSet(RecentRuns(a)) /\ IsFiniteSet(CountedRuns(a))
        /\ {MaxMutations, MaxRuns, MaxConcurrent} \subseteq Nat
    BY CountsAreFinite, LedgerAssumption DEF LedgerInv
  <1>7. Cardinality(Recent(a)') =< MaxMutations
    BY <1>3, <1>6, BoundOfSubset DEF WithinLimits
  <1>8. Cardinality(RecentRuns(a)') =< MaxRuns
    BY <1>4, <1>6, BoundOfSubset DEF WithinLimits
  <1>9. Cardinality(CountedRuns(a)') =< MaxConcurrent
    BY <1>5, <1>6, BoundOfSubset DEF WithinLimits
  <1> QED
    BY <1>7, <1>8, <1>9 DEF WithinLimits

\* The reservation adds a row for its own actor, after the check.
LEMMA ReservationIsCharged ==
  ASSUME LedgerInv, LedgerInv', NEW p \in Procs, Reserve(p), Prior(proc[p].key) = {},
         WithinBudget(proc[p].actor, proc[p].key),
         NEW a, WithinLimits(a)
  PROVE  WithinLimits(a)'
  <1> DEFINE n == Len(ops) + 1
  <1>1. PICK w \in OpRow : /\ ops' = Append(ops, w)
                           /\ w.key = proc[p].key /\ w.actor = proc[p].actor
    <2> DEFINE v == [key |-> proc[p].key, actor |-> proc[p].actor,
                     status |-> "running", at |-> now]
    <2>1. ops' = Append(ops, v)
      BY DEF Reserve, StartOperation
    <2>2. v \in OpRow /\ v.key = proc[p].key /\ v.actor = proc[p].actor
      BY DEF LedgerInv, LedgerShapes, Process, OpRow, Statuses
    <2> QED
      BY <2>1, <2>2
  <1>2. /\ Rows' = Rows \cup {n} /\ n \notin Rows /\ ops'[n] = w
        /\ \A j \in Rows : ops'[j] = ops[j]
        /\ now' = now /\ disturbed' = disturbed
    BY <1>1, RowAppended DEF LedgerInv, Reserve
  <1> HIDE DEF n
  <1>3. /\ Recent(a)' \subseteq Recent(a) \cup {n}
        /\ a # proc[p].actor => Recent(a)' \subseteq Recent(a)
    BY <1>1, <1>2 DEF Recent
  <1>4. /\ RecentRuns(a)' \subseteq RecentRuns(a) \cup {n}
        /\ ~(a = proc[p].actor /\ proc[p].key \in RunKeys) =>
             RecentRuns(a)' \subseteq RecentRuns(a)
    BY <1>1, <1>2 DEF RecentRuns, Recent
  <1>5. /\ CountedRuns(a)' \subseteq CountedRuns(a) \cup {n}
        /\ ~(a = proc[p].actor /\ proc[p].key \in RunKeys) =>
             CountedRuns(a)' \subseteq CountedRuns(a)
    <2>1. \A j \in CountedRuns(a)' :
            /\ j \in Rows => j \in CountedRuns(a)
            /\ j = n => a = proc[p].actor /\ proc[p].key \in RunKeys
      BY ONLY <1>1, <1>2 DEF CountedRuns, InFlightRuns
    <2>2. CountedRuns(a)' \subseteq Rows \cup {n}
      BY <1>2 DEF CountedRuns, InFlightRuns
    <2> QED
      BY <2>1, <2>2
  <1>6. /\ IsFiniteSet(Recent(a)) /\ IsFiniteSet(RecentRuns(a)) /\ IsFiniteSet(CountedRuns(a))
        /\ IsFiniteSet(InFlightRuns(a))
        /\ {MaxMutations, MaxRuns, MaxConcurrent} \subseteq Nat
    BY CountsAreFinite, LedgerAssumption DEF LedgerInv
  <1>7. Cardinality(Recent(a)') =< MaxMutations
    <2>1. CASE a = proc[p].actor
      <3>1. Cardinality(Recent(a)) < MaxMutations
        BY <2>1 DEF WithinBudget
      <3> QED
        BY <1>3, <1>6, <3>1, BoundOfOneMore
    <2>2. CASE a # proc[p].actor
      BY <1>3, <1>6, <2>2, BoundOfSubset DEF WithinLimits
    <2> QED
      BY <2>1, <2>2
  <1>8. Cardinality(RecentRuns(a)') =< MaxRuns /\ Cardinality(CountedRuns(a)') =< MaxConcurrent
    <2>1. CASE a = proc[p].actor /\ proc[p].key \in RunKeys
      <3>1. Cardinality(RecentRuns(a)) < MaxRuns /\ Cardinality(InFlightRuns(a)) < MaxConcurrent
        BY <2>1 DEF WithinBudget, RecentRuns
      <3>2. CountedRuns(a)' \subseteq InFlightRuns(a) \cup {n}
        BY <1>5 DEF CountedRuns
      <3> QED
        BY <1>4, <1>6, <3>1, <3>2, BoundOfOneMore
    <2>2. CASE ~(a = proc[p].actor /\ proc[p].key \in RunKeys)
      BY <1>4, <1>5, <1>6, <2>2, BoundOfSubset DEF WithinLimits
    <2> QED
      BY <2>1, <2>2
  <1> QED
    BY <1>7, <1>8 DEF WithinLimits

LEMMA BudgetStep ==
  ASSUME LedgerInv, [LedgerNext]_ledgerVars, NEW a, WithinLimits(a)
  PROVE  WithinLimits(a)'
  <1>0. LedgerInv' /\ LedgerShapes /\ WorkInv /\ now \in Nat
    BY LedgerStep DEF LedgerInv, LedgerShapes
  <1>1. CASE ops' = ops /\ now' \in {now, now + 1} /\ disturbed \subseteq disturbed'
    <2>1. Rows' = Rows /\ now =< now'
      BY <1>0, <1>1 DEF Rows
    <2> QED
      BY <1>0, <1>1, <2>1, CountsShrink
  <1>2. ASSUME NEW i \in Rows, NEW s \in Statuses, ops' = [ops EXCEPT ![i].status = s],
               now' = now, disturbed \subseteq disturbed',
               s = "failed" \/ ops[i].status = "running" \/ i \in disturbed \/ s = "succeeded"
        PROVE  WithinLimits(a)'
    <2>1. /\ Rows' = Rows /\ ops'[i].status = s
          /\ \A j \in Rows : /\ ops'[j].key = ops[j].key
                             /\ ops'[j].actor = ops[j].actor
                             /\ ops'[j].at = ops[j].at
                             /\ j # i => ops'[j] = ops[j]
      BY <1>0, <1>2, StatusWritten
    <2>2. \A j \in Rows : \/ ops'[j].status = ops[j].status
                          \/ ops'[j].status \notin {"pending", "running"}
                          \/ ops[j].status \in {"pending", "running"}
                          \/ j \in disturbed
      BY <1>2, <2>1
    <2>3. now =< now'
      BY <1>0, <1>2
    <2> QED
      BY <1>0, <1>2, <2>1, <2>2, <2>3, CountsShrink
  <1>3. CASE \E p \in Callers, k \in Keys \ {KeyOf[r] : r \in Requests} : Call(p, k)
    BY <1>1, <1>3 DEF Call
  <1>4. CASE \E p \in Callers, r \in Requests : CreateConfirmation(p, r)
    BY <1>1, <1>4 DEF CreateConfirmation
  <1>5. CASE \E p \in Operators, r \in Requests : ConfirmRead(p, r) \/ RejectRead(p, r)
    BY <1>1, <1>5 DEF ConfirmRead, RejectRead
  <1>6. ASSUME NEW p \in Procs,
               \/ ConfirmWrite(p) \/ RejectWrite(p) \/ ConsumeRead(p) \/ ConsumeWrite(p)
               \/ Crash(p) \/ Work(p) \/ AppendEvent(p)
        PROVE  WithinLimits(a)'
    BY <1>1, <1>6 DEF ConfirmWrite, RejectWrite, ConsumeRead, ConsumeWrite, Crash, Work, AppendEvent
  <1>7. ASSUME NEW p \in Procs, Reserve(p) PROVE WithinLimits(a)'
    <2>1. CASE Prior(proc[p].key) = {} /\ WithinBudget(proc[p].actor, proc[p].key)
      BY <1>0, <1>7, <2>1, ReservationIsCharged
    <2>2. CASE ~(Prior(proc[p].key) = {} /\ WithinBudget(proc[p].actor, proc[p].key))
      BY <1>1, <1>7, <2>2 DEF Reserve, Replay, StartOperation
    <2> QED
      BY <2>1, <2>2
  <1>8. ASSUME NEW p \in Procs, Finish(p) \/ FailOperation(p) PROVE WithinLimits(a)'
    <2>1. /\ proc[p].op \in Rows /\ now' = now /\ disturbed' = disturbed
          /\ proc[p].pc = "finish" => ops[proc[p].op].status = "running" \/ proc[p].op \in disturbed
      BY <1>0, <1>8 DEF WorkInv, WorkersHaveRows, UnwrittenIsRunning, Busy, Finish, FailOperation
    <2>2. CASE Finish(p)
      <3>1. \E s \in Statuses : ops' = [ops EXCEPT ![proc[p].op].status = s]
        BY <2>2 DEF Finish, Statuses
      <3>2. proc[p].pc = "finish"
        BY <2>2 DEF Finish
      <3> QED
        BY <1>2, <2>1, <3>1, <3>2
    <2>3. CASE FailOperation(p)
      <3>1. "failed" \in Statuses /\ ops' = [ops EXCEPT ![proc[p].op].status = "failed"]
        BY <2>3 DEF FailOperation, Statuses
      <3> QED
        BY <1>2, <2>1, <3>1
    <2> QED
      BY <1>8, <2>2, <2>3
  <1>9. ASSUME NEW i \in Rows, RepairStale(i) PROVE WithinLimits(a)'
    <2>1. /\ "failed" \in Statuses /\ ops' = [ops EXCEPT ![i].status = "failed"]
          /\ now' = now /\ disturbed \subseteq disturbed'
      BY <1>9 DEF RepairStale, Statuses
    <2> QED
      BY <1>2, <2>1
  <1>10. CASE Tick
    BY <1>1, <1>10 DEF Tick
  <1>11. CASE UNCHANGED ledgerVars
    BY <1>1, <1>11 DEF ledgerVars
  <1> QED
    BY <1>3, <1>4, <1>5, <1>6, <1>7, <1>8, <1>9, <1>10, <1>11 DEF LedgerNext, ProcStep

\* No client exceeds its hourly or concurrent limits through the ledger,
\* however calls race: assertMutationBudget runs inside the reservation.
THEOREM BudgetIsKept == LedgerSpec => []BudgetHolds
  <1>1. LedgerInit => BudgetHolds
    <2> SUFFICES ASSUME LedgerInit, NEW a PROVE WithinLimits(a)
      BY DEF BudgetHolds, WithinLimits, RecentRuns, CountedRuns
    <2>1. Rows = {}
      BY DEF LedgerInit, Rows
    <2>2. Recent(a) = {} /\ RecentRuns(a) = {} /\ CountedRuns(a) = {}
      BY <2>1 DEF Recent, RecentRuns, CountedRuns, InFlightRuns
    <2> QED
      BY <2>2, FS_EmptySet, LedgerAssumption DEF WithinLimits
  <1>2. LedgerInv /\ BudgetHolds /\ [LedgerNext]_ledgerVars => BudgetHolds'
    <2> SUFFICES ASSUME LedgerInv, BudgetHolds, [LedgerNext]_ledgerVars,
                        NEW a \in {Client[x] : x \in DOMAIN Client}
                 PROVE  WithinLimits(a)'
      BY DEF BudgetHolds, WithinLimits, RecentRuns, CountedRuns
    <2>1. WithinLimits(a)
      BY DEF BudgetHolds, WithinLimits, RecentRuns, CountedRuns
    <2> QED
      BY <2>1, BudgetStep
  <1> QED
    BY LedgerInvariant, <1>1, <1>2, PTL DEF LedgerSpec

----------------------------------------------------------------------------
(* The ledger is idempotent.                                                *)

\* The actor of a call that is not charged yet is a client.
ActorsAreClients ==
  \A p \in Procs : proc[p].pc \in {"confirm", "reserve"} =>
    proc[p].actor \in {Client[x] : x \in Callers \cup Requests}

\* A process that calls or confirms does so for a client, and keeps the client
\* until its key is reserved (runOperation, confirmation-runner).
LEMMA ActorsStep ==
  ASSUME LedgerInv, ActorsAreClients, [LedgerNext]_ledgerVars
  PROVE  ActorsAreClients'
  <1>1. LedgerShapes
    BY DEF LedgerInv
  <1> SUFFICES ASSUME NEW q \in Procs, proc'[q].pc \in {"confirm", "reserve"}
               PROVE  proc'[q].actor \in {Client[x] : x \in Callers \cup Requests}
    BY DEF ActorsAreClients
  <1>2. \A c : [Idle EXCEPT !.pc = c].pc = c
    BY DEF Idle
  <1>3. ASSUME NEW p \in Callers, NEW k \in Keys, Call(p, k)
        PROVE  proc'[q].actor \in {Client[x] : x \in Callers \cup Requests}
    <2>1. p \in Procs /\ \A s \in Procs : s # p => proc'[s] = proc[s]
      BY <1>1, <1>3 DEF Call, Procs, LedgerShapes
    <2>2. proc'[p].actor = Client[p]
      BY <1>1, <1>3, <2>1 DEF Call, LedgerShapes, Idle
    <2> QED
      BY <2>1, <2>2 DEF ActorsAreClients
  <1>4. ASSUME NEW p \in Operators, NEW r \in Requests, NEW c \in {"confirm", "reject"},
               CheckPending(p, r, c)
        PROVE  proc'[q].actor \in {Client[x] : x \in Callers \cup Requests}
    <2>1. p \in Procs
      BY DEF Procs
    <2>2. \/ proc' = proc
          \/ /\ \A s \in Procs : s # p => proc'[s] = proc[s]
             /\ proc'[p].actor = Client[r]
      BY <1>1, <1>4, <2>1 DEF CheckPending, LedgerShapes, Idle
    <2> QED
      BY <2>1, <2>2 DEF ActorsAreClients
  <1>5. ASSUME NEW p \in Procs, NEW c \in Pcs, Goto(p, c),
               c \notin {"confirm", "reserve"} \/ proc[p].pc = "confirm"
        PROVE  proc'[q].actor \in {Client[x] : x \in Callers \cup Requests}
    <2>1. /\ \A s \in Procs : s # p => proc'[s] = proc[s]
          /\ proc'[p].pc = c /\ proc'[p].actor = proc[p].actor
      BY <1>1, <1>5 DEF Goto, LedgerShapes, Process
    <2> QED
      BY <1>5, <2>1 DEF ActorsAreClients
  <1>6. ASSUME NEW p \in Procs, NEW c \in Pcs \ {"confirm", "reserve"}, NEW i \in Nat,
               GotoWith(p, c, i)
        PROVE  proc'[q].actor \in {Client[x] : x \in Callers \cup Requests}
    <2>1. /\ \A s \in Procs : s # p => proc'[s] = proc[s]
          /\ proc'[p].pc = c
      BY <1>1, <1>6, GotoOpShape
    <2> QED
      BY <2>1 DEF ActorsAreClients
  <1> DEFINE Quiet == Pcs \ {"confirm", "reserve"}
  <1>7. ASSUME NEW p \in Procs, ProcStep(p)
        PROVE  proc'[q].actor \in {Client[x] : x \in Callers \cup Requests}
    <2>1. /\ Returned(p) \in Quiet /\ Len(ops) + 1 \in Nat /\ 0 \in Nat
          /\ {"work", "finish", "event", "fail", "idle", "consume", "consuming"} \subseteq Quiet
          /\ {"reserve", "consume"} \subseteq Pcs
      BY <1>1 DEF Pcs, Returned, LedgerShapes
    <2>2. CASE Reserve(p)
      <3>1. \/ \E i \in Nat : GotoWith(p, Returned(p), i)
            \/ GotoWith(p, "work", Len(ops) + 1)
            \/ Goto(p, Returned(p))
        <4>1. ASSUME NEW i \in Prior(proc[p].key)
              PROVE  (IF ops[i].status \in {"succeeded", "pending"} THEN i ELSE 0) \in Nat
          BY DEF Prior, Rows
        <4> QED
          BY <2>2, <4>1 DEF Reserve, Replay, StartOperation, GotoWith
      <3> QED
        BY <1>5, <1>6, <2>1, <3>1
    <2>3. CASE FailOperation(p)
      <3>1. GotoWith(p, Returned(p), 0)
        BY <2>3 DEF FailOperation, GotoWith
      <3> QED
        BY <1>6, <2>1, <3>1
    <2>4. CASE ConfirmWrite(p)
      BY <1>5, <2>1, <2>4 DEF ConfirmWrite
    <2>5. CASE Work(p) \/ Finish(p) \/ AppendEvent(p) \/ RejectWrite(p) \/ ConsumeRead(p) \/ ConsumeWrite(p)
      <3>1. \E c \in Quiet : Goto(p, c)
        BY <2>1, <2>5 DEF Work, Finish, AppendEvent, RejectWrite, ConsumeRead, ConsumeWrite
      <3> QED
        BY <1>5, <3>1
    <2> QED
      BY <1>7, <2>2, <2>3, <2>4, <2>5 DEF ProcStep
  <1>8. ASSUME NEW p \in Procs, Crash(p)
        PROVE  proc'[q].actor \in {Client[x] : x \in Callers \cup Requests}
    <2>1. proc'[p].pc = "idle" /\ \A s \in Procs : s # p => proc'[s] = proc[s]
      BY <1>1, <1>8, IdleShape DEF Crash, LedgerShapes
    <2> QED
      BY <2>1 DEF ActorsAreClients
  <1>9. CASE proc' = proc
    BY <1>9 DEF ActorsAreClients
  <1> HIDE DEF Quiet
  <1> QED
    BY <1>3, <1>4, <1>7, <1>8, <1>9
       DEF LedgerNext, ledgerVars, ConfirmRead, RejectRead, CreateConfirmation, RepairStale, Tick

\* What the client of the i-th row sees.
EntryAt(i) == [account |-> ops[i].actor, at |-> ops[i].at, outcome |-> ops[i].status]

\* A key is answered from its only row (the UNIQUE index of `operations`).
LEMMA EntryIs ==
  ASSUME LedgerInv, NEW i \in Rows
  PROVE  /\ ops[i].key \in Keys
         /\ Prior(ops[i].key) = {i}
         /\ EntryOf(ops[i].key) = EntryAt(i)
  <1>1. KeysAreUnique /\ ops[i] \in OpRow
    BY DEF LedgerInv, WorkInv, LedgerShapes, Rows
  <1>2. ops[i].key \in Keys
    BY <1>1 DEF OpRow
  <1>3. Prior(ops[i].key) = {i}
    BY <1>1 DEF KeysAreUnique, Prior
  <1>4. (CHOOSE j \in Prior(ops[i].key) : TRUE) = i
    BY <1>3
  <1> QED
    BY <1>2, <1>3, <1>4 DEF EntryOf, EntryAt

\* The process that reserved a key is the only one that works on it, and its
\* program counter says how far the key has come.
LEMMA StageIs ==
  ASSUME LedgerInv, NEW p \in Procs, proc[p].pc \in Busy
  PROVE  /\ proc[p].key \in Keys
         /\ proc[p].op \in Rows /\ ops[proc[p].op].key = proc[p].key
         /\ Prior(proc[p].key) # {}
         /\ StageOf(proc[p].key) = IF proc[p].pc = "work" THEN "given" ELSE "worked"
         /\ \A q \in Procs : q # p /\ proc[q].key = proc[p].key => proc[q].pc \notin Busy
  <1>1. /\ proc[p].op \in Rows /\ ops[proc[p].op].key = proc[p].key
        /\ proc[p].key \in Keys
    BY DEF LedgerInv, WorkInv, WorkersHaveRows, LedgerShapes, Process
  <1>2. Prior(proc[p].key) # {}
    BY <1>1 DEF Prior
  <1>3. ASSUME NEW q \in Procs, q # p, proc[q].key = proc[p].key
        PROVE  proc[q].pc \notin Busy
    BY <1>1, <1>3 DEF LedgerInv, WorkInv, WorkersHaveRows, OneWorker, KeysAreUnique
  <1>4. At(proc[p].key, {"work"}) <=> proc[p].pc = "work"
    BY <1>3 DEF At, Busy
  <1>5. proc[p].pc # "work" => At(proc[p].key, {"finish", "event", "fail"})
    BY DEF At, Busy
  <1> QED
    BY <1>1, <1>2, <1>3, <1>4, <1>5 DEF StageOf

\* A key that p has nothing to do with stays where it is.
LEMMA StageElsewhere ==
  ASSUME NEW k, NEW p \in Procs, Prior(k)' = Prior(k),
         \A q \in Procs : q # p => proc'[q] = proc[q],
         proc[p].pc \in Busy => proc[p].key # k,
         proc'[p].pc \in Busy => proc'[p].key # k
  PROVE  StageOf(k)' = StageOf(k)
  <1>1. At(k, {"work"})' <=> At(k, {"work"})
    BY DEF At, Busy
  <1>2. At(k, {"finish", "event", "fail"})' <=> At(k, {"finish", "event", "fail"})
    BY DEF At, Busy
  <1> QED
    BY <1>1, <1>2 DEF StageOf

\* Where a key is whose process is at this place of its code.
StageAt(pc) == IF pc = "work" THEN "given" ELSE IF pc \in Busy THEN "worked" ELSE "left"

\* The process that reserved a key goes on, or leaves it.
LEMMA StageMoves ==
  ASSUME LedgerInv, NEW p \in Procs, proc[p].pc \in Busy,
         NEW k \in Keys, k = proc[p].key,
         \A m \in Keys : Prior(m)' = Prior(m),
         \A q \in Procs : q # p => proc'[q] = proc[q],
         proc'[p].pc \in Busy => proc'[p].key = k
  PROVE  [m \in Keys |-> StageOf(m)'] =
           [[m \in Keys |-> StageOf(m)] EXCEPT ![k] = StageAt(proc'[p].pc)]
  <1>1. /\ Prior(k) # {}
        /\ \A q \in Procs : q # p /\ proc[q].key = k => proc[q].pc \notin Busy
    BY StageIs
  <1>2. \A m \in Keys : m # k => StageOf(m)' = StageOf(m)
    BY StageElsewhere
  <1>3. At(k, {"work"})' <=> proc'[p].pc = "work"
    <2>1. proc'[p].pc = "work" => proc'[p].key = k
      BY DEF Busy
    <2> QED
      BY <1>1, <2>1 DEF At, Busy
  <1>4. At(k, {"finish", "event", "fail"})' <=> proc'[p].pc \in {"finish", "event", "fail"}
    <2>1. proc'[p].pc \in {"finish", "event", "fail"} => proc'[p].key = k
      BY DEF Busy
    <2> QED
      BY <1>1, <2>1 DEF At, Busy
  <1>5. StageOf(k)' = StageAt(proc'[p].pc)
    <2>1. Prior(k)' # {}
      BY <1>1
    <2> QED
      BY <1>3, <1>4, <2>1 DEF StageOf, StageAt, Busy
  <1> QED
    BY <1>2, <1>5

\* A row that gets another status is another entry of its key only.
LEMMA EntryMoves ==
  ASSUME LedgerInv, NEW i \in Rows, NEW s, NEW k \in Keys, k = ops[i].key,
         ops' = [ops EXCEPT ![i].status = s]
  PROVE  /\ \A m \in Keys : Prior(m)' = Prior(m)
         /\ [m \in Keys |-> EntryOf(m)'] = [[m \in Keys |-> EntryOf(m)] EXCEPT ![k].outcome = s]
  <1>1. /\ ops \in Seq(OpRow) /\ ops[i] \in OpRow
    BY DEF LedgerInv, WorkInv, LedgerShapes, Rows
  <1>2. /\ Rows' = Rows
        /\ \A j \in Rows : j # i => ops'[j] = ops[j]
        /\ ops'[i] = [ops[i] EXCEPT !.status = s]
    BY <1>1 DEF Rows
  <1>3. /\ ops'[i].key = ops[i].key /\ ops'[i].actor = ops[i].actor
        /\ ops'[i].at = ops[i].at /\ ops'[i].status = s
    BY <1>1, <1>2 DEF OpRow
  <1>4. \A m \in Keys : Prior(m)' = Prior(m)
    BY <1>2, <1>3 DEF Prior
  <1>5. Prior(k) = {i} /\ EntryOf(k) = EntryAt(i)
    BY EntryIs
  <1>6. EntryOf(k)' = [account |-> ops[i].actor, at |-> ops[i].at, outcome |-> s]
    <2>1. Prior(k)' = {i}
      BY <1>4, <1>5
    <2>2. Prior(k)' # {} /\ (CHOOSE j \in Prior(k)' : TRUE) = i
      BY <2>1
    <2> QED
      BY <2>2, <1>3 DEF EntryOf
  <1>7. EntryOf(k)' = [EntryOf(k) EXCEPT !.outcome = s]
    BY <1>5, <1>6 DEF EntryAt
  <1>8. ASSUME NEW m \in Keys, m # k
        PROVE  EntryOf(m)' = EntryOf(m)
    <2>1. \A j \in Prior(m) : ops'[j] = ops[j]
      BY <1>2, <1>8, <1>5 DEF Prior
    <2>2. Prior(m)' = Prior(m)
      BY <1>4
    <2>3. CASE Prior(m) = {}
      BY <2>2, <2>3 DEF EntryOf
    <2>4. CASE Prior(m) # {}
      <3>1. (CHOOSE j \in Prior(m) : TRUE) \in Prior(m)
        BY <2>4
      <3> QED
        BY <2>1, <2>2, <2>4, <3>1 DEF EntryOf
    <2> QED
      BY <2>3, <2>4
  <1> QED
    BY <1>4, <1>7, <1>8

\* What the clients see of the table and of the processes.
Entries == [k \in Keys |-> EntryOf(k)]
Stages == [k \in Keys |-> StageOf(k)]

\* The entries are the rows.
LEMMA EntriesStay ==
  ASSUME ops' = ops
  PROVE  Entries' = Entries /\ \A m \in Keys : Prior(m)' = Prior(m)
  <1>1. \A m : Prior(m)' = Prior(m)
    BY DEF Prior, Rows
  <1>2. \A m : EntryOf(m)' = EntryOf(m)
    BY <1>1 DEF EntryOf
  <1> QED
    BY <1>1, <1>2 DEF Entries

\* A process outside the ledger that stays outside shows its clients nothing.
LEMMA OutsideShowsNothing ==
  ASSUME NEW p \in Procs, ops' = ops, effects' = effects, now' = now,
         \A q \in Procs : q # p => proc'[q] = proc[q],
         proc[p].pc \notin Busy, proc'[p].pc \notin Busy
  PROVE  UNCHANGED Idempotent!idempotentVars
  <1>1. Entries' = Entries /\ \A m \in Keys : Prior(m)' = Prior(m)
    BY EntriesStay
  <1>2. \A m \in Keys : StageOf(m)' = StageOf(m)
    BY <1>1, StageElsewhere
  <1>3. Stages' = Stages
    BY <1>2 DEF Stages
  <1> QED
    BY <1>1, <1>3 DEF Idempotent!idempotentVars, Entries, Stages

\* Nor does a call, a confirmation, or what is done with its request.
LEMMA QuietShowsNothing ==
  ASSUME LedgerInv, NEW p \in Procs,
         \/ \E k \in Keys : Call(p, k)
         \/ \E r \in Requests : CreateConfirmation(p, r) \/ ConfirmRead(p, r) \/ RejectRead(p, r)
         \/ ConfirmWrite(p) \/ RejectWrite(p) \/ ConsumeRead(p) \/ ConsumeWrite(p)
         \/ Crash(p) /\ proc[p].pc \notin Busy
         \/ Reserve(p) /\ ops' = ops
  PROVE  UNCHANGED Idempotent!idempotentVars
  <1>1. LedgerShapes /\ LedgerRefers /\ UNCHANGED <<effects, now>>
    BY DEF LedgerInv, Call, CreateConfirmation, ConfirmRead, RejectRead, ConfirmWrite,
           RejectWrite, ConsumeRead, ConsumeWrite, Crash, Reserve
  <1>2. ASSUME ops' = ops, proc[p].pc \notin Busy,
               \/ proc' = proc
               \/ \E c \in Pcs \ Busy : Goto(p, c)
               \/ \E c \in Pcs \ Busy, i \in Nat : GotoWith(p, c, i)
               \/ \E z \in Process : z.pc \notin Busy /\ proc' = [proc EXCEPT ![p] = z]
        PROVE  UNCHANGED Idempotent!idempotentVars
    <2>1. /\ \A q \in Procs : q # p => proc'[q] = proc[q]
          /\ proc'[p].pc \notin Busy
      BY <1>1, <1>2, GotoShape, GotoOpShape, OneProcess
    <2> QED
      BY <1>1, <1>2, <2>1, OutsideShowsNothing
  <1>3. ASSUME NEW k \in Keys, Call(p, k)
        PROVE  \E z \in Process : z.pc \notin Busy /\ proc' = [proc EXCEPT ![p] = z]
    <2> DEFINE z == [Idle EXCEPT !.pc = "reserve", !.key = k, !.actor = Client[p]]
    <2>1. Client[p] \in Actors /\ "reserve" \in Pcs
      BY <1>3, PcNames DEF Call, Actors
    <2>2. z \in Process /\ z.pc = "reserve"
      BY <2>1, IdleShape DEF Process
    <2>3. proc' = [proc EXCEPT ![p] = z]
      BY <1>3 DEF Call
    <2> HIDE DEF z
    <2> QED
      BY <2>2, <2>3 DEF Busy
  <1>4. ASSUME NEW r \in Requests, NEW c \in {"confirm", "reject"}, CheckPending(p, r, c)
        PROVE  \/ proc' = proc
               \/ \E z \in Process : z.pc \notin Busy /\ proc' = [proc EXCEPT ![p] = z]
    <2> DEFINE z == [Idle EXCEPT !.pc = c, !.request = r, !.key = KeyOf[r], !.actor = Client[r]]
    <2>0. Client[r] \in Actors /\ KeyOf[r] \in Keys /\ c \in Pcs
      BY LedgerAssumption DEF Actors, Pcs
    <2>1. z \in Process /\ z.pc = c
      BY <2>0, IdleShape DEF Process
    <2>2. proc' = proc \/ proc' = [proc EXCEPT ![p] = z]
      BY <1>4 DEF CheckPending
    <2> HIDE DEF z
    <2> QED
      BY <2>1, <2>2 DEF Busy
  <1>5. {"idle", "reserve", "consume", "consuming", Returned(p)} \subseteq Pcs \ Busy
    BY PcNames
  <1>6. CASE \E k \in Keys : Call(p, k)
    <2>1. ops' = ops /\ proc[p].pc \notin Busy
      BY <1>6 DEF Call, Busy
    <2> QED
      BY <1>2, <1>3, <1>6, <2>1
  <1>7. CASE \E r \in Requests : CreateConfirmation(p, r)
    BY <1>2, <1>7 DEF CreateConfirmation, Busy
  <1>8. CASE \E r \in Requests : ConfirmRead(p, r) \/ RejectRead(p, r)
    <2>1. ops' = ops /\ proc[p].pc \notin Busy
      BY <1>8 DEF ConfirmRead, RejectRead, Busy
    <2>2. \E r \in Requests, c \in {"confirm", "reject"} : CheckPending(p, r, c)
      BY <1>8 DEF ConfirmRead, RejectRead
    <2> QED
      BY <1>2, <1>4, <2>1, <2>2
  <1>9. CASE ConfirmWrite(p) \/ RejectWrite(p) \/ ConsumeRead(p) \/ ConsumeWrite(p)
    <2>1. ops' = ops /\ proc[p].pc \notin Busy
      BY <1>9 DEF ConfirmWrite, RejectWrite, ConsumeRead, ConsumeWrite, Busy
    <2>2. \E c \in Pcs \ Busy : Goto(p, c)
      BY <1>5, <1>9 DEF ConfirmWrite, RejectWrite, ConsumeRead, ConsumeWrite
    <2> QED
      BY <1>2, <2>1, <2>2
  <1>10. CASE Crash(p) /\ proc[p].pc \notin Busy
    BY <1>2, <1>5, <1>10, IdleShape DEF Crash
  <1>11. CASE Reserve(p) /\ ops' = ops
    <2>1. proc[p].pc \notin Busy
      BY <1>11 DEF Reserve, Busy
    <2>2. (\E i \in Nat : GotoWith(p, Returned(p), i)) \/ Goto(p, Returned(p))
      <3>1. CASE Prior(proc[p].key) # {}
        <4>1. PICK i \in Prior(proc[p].key) :
                GotoWith(p, Returned(p), IF ops[i].status \in {"succeeded", "pending"} THEN i ELSE 0)
          BY <1>11, <3>1 DEF Reserve, Replay, GotoWith
        <4>2. i \in Nat /\ 0 \in Nat
          BY DEF Prior, Rows
        <4> QED
          BY <4>1, <4>2
      <3>2. CASE Prior(proc[p].key) = {} /\ ~WithinBudget(proc[p].actor, proc[p].key)
        BY <1>11, <3>2 DEF Reserve, StartOperation
      <3>3. CASE Prior(proc[p].key) = {} /\ WithinBudget(proc[p].actor, proc[p].key)
        <4>1. \E w : ops' = Append(ops, w)
          BY <1>11, <3>3 DEF Reserve, StartOperation
        <4>2. ops \in Seq(OpRow)
          BY <1>1 DEF LedgerShapes
        <4>3. \A w : Len(Append(ops, w)) = Len(ops) + 1 /\ Len(ops) \in Nat
          BY <4>2
        <4> QED
          BY <1>11, <4>1, <4>3
      <3> QED
        BY <3>1, <3>2, <3>3
    <2> QED
      BY <1>2, <1>5, <1>11, <2>1, <2>2
  <1> QED
    BY <1>6, <1>7, <1>8, <1>9, <1>10, <1>11

\* The work of a key runs when its process was given it.
LEMMA WorkShows ==
  ASSUME LedgerInv, NEW p \in Procs, Work(p)
  PROVE  \E k \in Keys : Idempotent!DoWork(k)
  <1>1. PICK k \in Keys : k = proc[p].key
    BY StageIs DEF Work, Busy
  <1>2. /\ LedgerShapes /\ LedgerRefers /\ ops' = ops /\ now' = now
        /\ proc[p].pc = "work" /\ proc[p].pc \in Busy
    BY DEF LedgerInv, Work, Busy
  <1>3. effects' = [effects EXCEPT ![k] = @ + 1]
    BY <1>1 DEF Work
  <1>4. PICK c \in {"finish", "fail"} : Goto(p, c)
    BY DEF Work
  <1>5. /\ \A q \in Procs : q # p => proc'[q] = proc[q]
        /\ proc'[p].pc = c /\ proc'[p].key = k
    BY <1>1, <1>2, <1>4, GotoShape, PcNames
  <1>6. Entries' = Entries /\ \A m \in Keys : Prior(m)' = Prior(m)
    BY <1>2, EntriesStay
  <1>7. [m \in Keys |-> StageOf(m)'] = [[m \in Keys |-> StageOf(m)] EXCEPT ![k] = "worked"]
    <2>1. StageAt(proc'[p].pc) = "worked"
      BY <1>4, <1>5 DEF StageAt, Busy
    <2> QED
      BY <1>1, <1>2, <1>5, <1>6, <2>1, StageMoves
  <1>8. StageOf(k) = "given"
    BY <1>1, <1>2, StageIs
  <1>9. Idempotent!DoWork(k)
    BY <1>2, <1>3, <1>6, <1>7, <1>8 DEF Idempotent!DoWork, Entries
  <1> QED
    BY <1>9

\* A call whose event was stored returns; one that dies leaves its key as it
\* is; one whose event is lost shows nothing yet.
LEMMA LeaveShows ==
  ASSUME LedgerInv, NEW p \in Procs,
         AppendEvent(p) \/ (Crash(p) /\ proc[p].pc \in Busy)
  PROVE  (\E k \in Keys : Idempotent!Leave(k)) \/ UNCHANGED Idempotent!idempotentVars
  <1>1. proc[p].pc \in Busy
    BY DEF AppendEvent, Busy
  <1>2. PICK k \in Keys : k = proc[p].key
    BY <1>1, StageIs
  <1>3. LedgerShapes /\ LedgerRefers /\ ops' = ops /\ now' = now /\ effects' = effects
    BY DEF LedgerInv, AppendEvent, Crash
  <1>4. Entries' = Entries /\ \A m \in Keys : Prior(m)' = Prior(m)
    BY <1>3, EntriesStay
  <1>5. StageOf(k) = IF proc[p].pc = "work" THEN "given" ELSE "worked"
    BY <1>1, <1>2, StageIs
  <1>6. CASE Goto(p, "fail") /\ proc[p].pc = "event"
    <2>1. /\ \A q \in Procs : q # p => proc'[q] = proc[q]
          /\ proc'[p].pc = "fail" /\ proc'[p].key = k
      BY <1>2, <1>3, <1>6, GotoShape, PcNames
    <2>2. StageAt(proc'[p].pc) = "worked"
      BY <2>1 DEF StageAt, Busy
    <2>3. [m \in Keys |-> StageOf(m)'] = [[m \in Keys |-> StageOf(m)] EXCEPT ![k] = "worked"]
      BY <1>1, <1>2, <1>4, <2>1, <2>2, StageMoves
    <2>4. [m \in Keys |-> StageOf(m)'] = [m \in Keys |-> StageOf(m)]
      BY <1>5, <1>6, <2>3
    <2> QED
      BY <1>3, <1>4, <2>4 DEF Idempotent!idempotentVars, Entries
  <1>7. ASSUME \A q \in Procs : q # p => proc'[q] = proc[q], proc'[p].pc \notin Busy
        PROVE  Idempotent!Leave(k)
    <2>1. StageAt(proc'[p].pc) = "left"
      BY <1>7 DEF StageAt, Busy
    <2>2. [m \in Keys |-> StageOf(m)'] = [[m \in Keys |-> StageOf(m)] EXCEPT ![k] = "left"]
      BY <1>1, <1>2, <1>4, <1>7, <2>1, StageMoves
    <2> QED
      BY <1>3, <1>4, <1>5, <2>2 DEF Idempotent!Leave, Entries
  <1>8. CASE Goto(p, Returned(p))
    <2>1. /\ \A q \in Procs : q # p => proc'[q] = proc[q]
          /\ proc'[p].pc \notin Busy
      BY <1>3, <1>8, GotoShape, PcNames
    <2> QED
      BY <1>7, <2>1
  <1>9. CASE Crash(p)
    <2>1. /\ \A q \in Procs : q # p => proc'[q] = proc[q]
          /\ proc'[p].pc \notin Busy
      BY <1>3, <1>9, OneProcess, IdleShape, PcNames DEF Crash
    <2> QED
      BY <1>7, <2>1
  <1> QED
    BY <1>6, <1>8, <1>9 DEF AppendEvent

\* The outcome is written before the event is.
LEMMA FinishShows ==
  ASSUME LedgerInv, NEW p \in Procs, Finish(p)
  PROVE  \E k \in Keys : Idempotent!Record(k)
  <1>1. PICK k \in Keys : k = proc[p].key
    BY StageIs DEF Finish, Busy
  <1>2. /\ LedgerShapes /\ LedgerRefers /\ effects' = effects /\ now' = now
        /\ proc[p].pc = "finish" /\ proc[p].pc \in Busy /\ Goto(p, "event")
    BY DEF LedgerInv, Finish, Busy
  <1>3. proc[p].op \in Rows /\ k = ops[proc[p].op].key
    BY <1>1, <1>2, StageIs
  <1> DEFINE s == IF k \in Deferred THEN "pending" ELSE "succeeded"
  <1>4. ops' = [ops EXCEPT ![proc[p].op].status = s]
    BY <1>1 DEF Finish
  <1> HIDE DEF s
  <1>5. /\ \A m \in Keys : Prior(m)' = Prior(m)
        /\ [m \in Keys |-> EntryOf(m)'] = [[m \in Keys |-> EntryOf(m)] EXCEPT ![k].outcome = s]
    BY <1>3, <1>4, EntryMoves
  <1>6. /\ \A q \in Procs : q # p => proc'[q] = proc[q]
        /\ proc'[p].pc = "event" /\ proc'[p].key = k
    BY <1>1, <1>2, GotoShape, PcNames
  <1>7. [m \in Keys |-> StageOf(m)'] = [m \in Keys |-> StageOf(m)]
    <2>1. StageAt(proc'[p].pc) = "worked"
      BY <1>6 DEF StageAt, Busy
    <2>a. proc[p].pc \in Busy /\ \A m \in Keys : Prior(m)' = Prior(m)
      BY <1>2, <1>5
    <2>2. [m \in Keys |-> StageOf(m)'] = [[m \in Keys |-> StageOf(m)] EXCEPT ![k] = "worked"]
      BY ONLY LedgerInv, p \in Procs, k \in Keys, <1>1, <1>6, <2>1, <2>a, StageMoves
    <2>3. StageOf(k) = "worked"
      BY <1>1, <1>2, StageIs
    <2> QED
      BY <2>2, <2>3
  <1>8. StageOf(k) = "worked"
    BY <1>1, <1>2, StageIs
  <1>9. Idempotent!Record(k)
    BY <1>2, <1>5, <1>7, <1>8 DEF Idempotent!Record, s
  <1> QED
    BY <1>9

\* An error, of the work or of the event, fails the key and leaves it.
LEMMA FailShows ==
  ASSUME LedgerInv, NEW p \in Procs, FailOperation(p)
  PROVE  \E k \in Keys : Idempotent!LeaveFailed(k)
  <1>1. PICK k \in Keys : k = proc[p].key
    BY StageIs DEF FailOperation, Busy
  <1>2. /\ LedgerShapes /\ LedgerRefers /\ effects' = effects /\ now' = now
        /\ proc[p].pc = "fail" /\ proc[p].pc \in Busy
        /\ ops' = [ops EXCEPT ![proc[p].op].status = "failed"]
    BY DEF LedgerInv, FailOperation, Busy
  <1>3. proc[p].op \in Rows /\ k = ops[proc[p].op].key
    BY <1>1, <1>2, StageIs
  <1>5. /\ \A m \in Keys : Prior(m)' = Prior(m)
        /\ [m \in Keys |-> EntryOf(m)'] = [[m \in Keys |-> EntryOf(m)] EXCEPT ![k].outcome = "failed"]
    BY <1>2, <1>3, EntryMoves
  <1>6. /\ \A q \in Procs : q # p => proc'[q] = proc[q]
        /\ proc'[p].pc \notin Busy
    <2>1. GotoWith(p, Returned(p), 0) /\ 0 \in Nat
      BY DEF FailOperation, GotoWith
    <2> QED
      BY <1>2, <2>1, GotoOpShape, PcNames
  <1>7. [m \in Keys |-> StageOf(m)'] = [[m \in Keys |-> StageOf(m)] EXCEPT ![k] = "left"]
    <2>1. StageAt(proc'[p].pc) = "left"
      BY <1>6 DEF StageAt, Busy
    <2>a. proc[p].pc \in Busy /\ \A m \in Keys : Prior(m)' = Prior(m)
      BY <1>2, <1>5
    <2> QED
      BY ONLY LedgerInv, p \in Procs, k \in Keys, <1>1, <1>6, <2>1, <2>a, StageMoves
  <1>8. StageOf(k) = "worked"
    BY <1>1, <1>2, StageIs
  <1>9. Idempotent!LeaveFailed(k)
    BY <1>2, <1>5, <1>7, <1>8 DEF Idempotent!LeaveFailed
  <1> QED
    BY <1>9

\* The doctor gives up an operation whose row still says running.
LEMMA RepairShows ==
  ASSUME LedgerInv, NEW i \in Rows, RepairStale(i)
  PROVE  \E k \in Keys : Idempotent!GiveUp(k)
  <1>1. PICK k \in Keys : k = ops[i].key /\ Prior(k) = {i} /\ EntryOf(k) = EntryAt(i)
    BY EntryIs
  <1>2. /\ effects' = effects /\ now' = now /\ proc' = proc
        /\ ops[i].status = "running"
        /\ ops' = [ops EXCEPT ![i].status = "failed"]
    BY DEF RepairStale
  <1>3. /\ \A m \in Keys : Prior(m)' = Prior(m)
        /\ [m \in Keys |-> EntryOf(m)'] = [[m \in Keys |-> EntryOf(m)] EXCEPT ![k].outcome = "failed"]
    BY <1>1, <1>2, EntryMoves
  <1>4. [m \in Keys |-> StageOf(m)'] = [m \in Keys |-> StageOf(m)]
    BY <1>2, <1>3 DEF StageOf, At
  <1>5. StageOf(k) # "new" /\ EntryOf(k).outcome = "running"
    BY <1>1, <1>2 DEF StageOf, EntryAt
  <1>6. Idempotent!GiveUp(k)
    BY <1>2, <1>3, <1>4, <1>5 DEF Idempotent!GiveUp
  <1> QED
    BY <1>6

\* No more keys than rows that carry them.
LEMMA KeysOfRows ==
  ASSUME LedgerShapes, NEW S \in SUBSET Rows, NEW T, \A k \in T : \E i \in S : ops[i].key = k
  PROVE  Cardinality(T) \in Nat /\ Cardinality(S) \in Nat /\ Cardinality(T) =< Cardinality(S)
  <1> DEFINE S2 == {i \in S : ops[i].key \in T}
             f == [i \in S2 |-> ops[i].key]
  <1>1. IsFiniteSet(S)
    BY CountsAreFinite, FS_Subset
  <1>2. IsFiniteSet(S2) /\ Cardinality(S2) =< Cardinality(S)
    BY <1>1, FS_Subset
  <1>3. f \in [S2 -> T] /\ \A k \in T : \E i \in S2 : f[i] = k
    OBVIOUS
  <1>4. f \in Surjection(S2, T)
    BY <1>3, Z3 DEF Surjection
  <1> HIDE DEF S2, f
  <1>5. IsFiniteSet(T) /\ Cardinality(T) =< Cardinality(S2)
    BY <1>2, <1>4, FS_Surjection
  <1>6. Cardinality(T) \in Nat /\ Cardinality(S2) \in Nat /\ Cardinality(S) \in Nat
    BY <1>1, <1>2, <1>5, FS_CardinalityType
  <1> QED
    BY <1>2, <1>5, <1>6

\* A key that is charged to a client has a row of this client.
LEMMA ChargedHasRow ==
  ASSUME LedgerInv, NEW k \in Keys, StageOf(k) # "new"
  PROVE  \E i \in Rows : ops[i].key = k /\ EntryOf(k) = EntryAt(i)
  <1>1. PICK i \in Prior(k) : TRUE
    BY DEF StageOf
  <1>2. i \in Rows /\ ops[i].key = k
    BY DEF Prior
  <1> QED
    BY <1>2, EntryIs

\* A count is a count in either specification.
LEMMA SameCount == \A S : Idempotent!Cardinality(S) = Cardinality(S)
  BY DEF Idempotent!Cardinality, Cardinality

\* What checkMutationBudget lets through is within the limits of the client.
LEMMA BudgetIsRoom ==
  ASSUME LedgerInv, NEW a, NEW k \in Keys, WithinBudget(a, k)
  PROVE  Idempotent!HasRoom(a, k)
  <1>0. LedgerShapes /\ {MaxMutations, MaxRuns, MaxConcurrent} \subseteq Nat
    BY LedgerAssumption DEF LedgerInv
  <1>1. ASSUME NEW m \in Idempotent!ChargedTo(a)
        PROVE  \E i \in Rows : /\ ops[i].key = m /\ ops[i].actor = a
                               /\ EntryOf(m).at = ops[i].at
                               /\ EntryOf(m).outcome = ops[i].status
    <2>1. m \in Keys /\ StageOf(m) # "new" /\ EntryOf(m).account = a
      BY <1>1 DEF Idempotent!ChargedTo
    <2>2. PICK i \in Rows : ops[i].key = m /\ EntryOf(m) = EntryAt(i)
      BY <2>1, ChargedHasRow
    <2> QED
      BY <2>1, <2>2 DEF EntryAt
  <1>2. \A m \in Idempotent!ChargedTo(a) : m \in Keys
    BY DEF Idempotent!ChargedTo
  <1>3. \A m \in Idempotent!ChargedLately(a) : \E i \in Recent(a) : ops[i].key = m
    BY <1>1, <1>2 DEF Idempotent!ChargedLately, Recent
  <1>4. \A m \in Idempotent!ChargedLately(a) \cap RunKeys : \E i \in RecentRuns(a) : ops[i].key = m
    BY <1>3 DEF RecentRuns
  <1>5. \A m \in Idempotent!OpenRuns(a) : \E i \in InFlightRuns(a) : ops[i].key = m
    BY <1>1, <1>2 DEF Idempotent!OpenRuns, InFlightRuns
  <1>6. /\ Recent(a) \in SUBSET Rows /\ RecentRuns(a) \in SUBSET Rows
        /\ InFlightRuns(a) \in SUBSET Rows
    BY DEF Recent, RecentRuns, InFlightRuns
  <1>7. Cardinality(Idempotent!ChargedLately(a)) < MaxMutations
    <2>1. /\ Cardinality(Idempotent!ChargedLately(a)) \in Nat /\ Cardinality(Recent(a)) \in Nat
          /\ Cardinality(Idempotent!ChargedLately(a)) =< Cardinality(Recent(a))
      BY <1>0, <1>3, <1>6, KeysOfRows
    <2> QED
      BY <1>0, <2>1 DEF WithinBudget
  <1>8. ASSUME k \in RunKeys
        PROVE  /\ Cardinality(Idempotent!ChargedLately(a) \cap RunKeys) < MaxRuns
               /\ Cardinality(Idempotent!OpenRuns(a)) < MaxConcurrent
    <2>1. LET T == Idempotent!ChargedLately(a) \cap RunKeys
          IN  /\ Cardinality(T) \in Nat /\ Cardinality(RecentRuns(a)) \in Nat
              /\ Cardinality(T) =< Cardinality(RecentRuns(a))
      BY <1>0, <1>4, <1>6, KeysOfRows
    <2>2. /\ Cardinality(Idempotent!OpenRuns(a)) \in Nat /\ Cardinality(InFlightRuns(a)) \in Nat
          /\ Cardinality(Idempotent!OpenRuns(a)) =< Cardinality(InFlightRuns(a))
      BY <1>0, <1>5, <1>6, KeysOfRows
    <2>3. Cardinality(RecentRuns(a)) < MaxRuns /\ Cardinality(InFlightRuns(a)) < MaxConcurrent
      BY <1>8 DEF WithinBudget, RecentRuns
    <2> QED
      BY <1>0, <2>1, <2>2, <2>3
  <1> QED
    BY <1>7, <1>8, SameCount DEF Idempotent!HasRoom

\* The reservation of a new key charges it to the client of the call.
LEMMA ReserveShows ==
  ASSUME LedgerInv, ActorsAreClients, NEW p \in Procs, Reserve(p)
  PROVE  \/ \E k \in Keys, a \in {Client[x] : x \in Callers \cup Requests} : Idempotent!Accept(k, a)
         \/ UNCHANGED Idempotent!idempotentVars
  <1>1. /\ LedgerShapes /\ LedgerRefers /\ Len(ops) \in Nat
        /\ effects' = effects /\ now' = now /\ proc[p].pc = "reserve"
    BY DEF LedgerInv, LedgerShapes, Reserve
  <1>2. CASE ops' = ops
    BY <1>2, QuietShowsNothing
  <1>3. CASE Prior(proc[p].key) = {} /\ WithinBudget(proc[p].actor, proc[p].key)
    <2>1. PICK k \in Keys : k = proc[p].key
      BY <1>1 DEF LedgerShapes, Process
    <2>2. PICK a \in {Client[x] : x \in Callers \cup Requests} : a = proc[p].actor
      BY <1>1 DEF ActorsAreClients
    <2> DEFINE w == [key |-> k, actor |-> a, status |-> "running", at |-> now]
               n == Len(ops) + 1
    <2>3. ops' = Append(ops, w) /\ GotoWith(p, "work", n)
      BY <1>3, <2>1, <2>2 DEF Reserve, StartOperation, GotoWith
    <2>4. /\ w \in OpRow /\ w.key = k /\ w.actor = a /\ w.status = "running" /\ w.at = now
      BY <1>1, LedgerAssumption DEF LedgerShapes, OpRow, Statuses, Actors
    <2> HIDE DEF w
    <2>5. /\ Rows' = Rows \cup {n} /\ n \notin Rows /\ ops'[n] = w
          /\ \A j \in Rows : ops'[j] = ops[j]
      BY <1>1, <2>3, <2>4, RowAppended
    <2>6. n \in Nat
      BY <1>1
    <2> HIDE DEF n
    <2>7. /\ \A q \in Procs : q # p => proc'[q] = proc[q]
          /\ proc'[p].pc = "work" /\ proc'[p].key = k
      BY <1>1, <2>1, <2>3, <2>6, GotoOpShape, PcNames
    <2>8. Prior(k) = {} /\ Prior(k)' = {n}
      BY <1>3, <2>1, <2>4, <2>5 DEF Prior
    <2>9. \A m \in Keys : m # k => Prior(m)' = Prior(m)
      BY <2>4, <2>5 DEF Prior
    <2>10. [m \in Keys |-> StageOf(m)'] = [[m \in Keys |-> StageOf(m)] EXCEPT ![k] = "given"]
      <3>1. \A m \in Keys : m # k => StageOf(m)' = StageOf(m)
        BY <2>1, <2>7, <2>9, StageElsewhere
      <3>2. StageOf(k)' = "given"
        BY <2>7, <2>8 DEF StageOf, At
      <3> QED
        BY <3>1, <3>2
    <2>11. \A m \in Keys : m # k => EntryOf(m)' = EntryOf(m)
      <3> SUFFICES ASSUME NEW m \in Keys, m # k PROVE EntryOf(m)' = EntryOf(m)
        OBVIOUS
      <3>1. Prior(m)' = Prior(m)
        BY <2>9
      <3>2. CASE Prior(m) = {}
        BY <3>1, <3>2 DEF EntryOf
      <3>3. CASE Prior(m) # {}
        <4>1. (CHOOSE j \in Prior(m) : TRUE) \in Rows
          BY <3>3 DEF Prior
        <4> QED
          BY <2>5, <3>1, <3>3, <4>1 DEF EntryOf
      <3> QED
        BY <3>2, <3>3
    <2>12. EntryOf(k)' = [account |-> a, at |-> now, outcome |-> "running"]
      <3>1. Prior(k)' # {} /\ (CHOOSE j \in Prior(k)' : TRUE) = n
        BY <2>8
      <3> QED
        BY <2>4, <2>5, <3>1 DEF EntryOf
    <2>13. [m \in Keys |-> EntryOf(m)'] =
             [[m \in Keys |-> EntryOf(m)] EXCEPT
                ![k] = [account |-> a, at |-> now, outcome |-> "running"]]
      BY <2>11, <2>12
    <2>14. StageOf(k) = "new"
      BY <2>8 DEF StageOf
    <2>15. Idempotent!HasRoom(a, k)
      BY <1>3, <2>1, <2>2, BudgetIsRoom
    <2>16. Idempotent!Accept(k, a)
      BY ONLY <1>1, <2>1, <2>10, <2>13, <2>14, <2>15 DEF Idempotent!Accept
    <2> QED
      BY <2>16
  <1>4. CASE ~(Prior(proc[p].key) = {} /\ WithinBudget(proc[p].actor, proc[p].key))
    <2>1. ops' = ops
      BY <1>4 DEF Reserve, Replay, StartOperation
    <2> QED
      BY <1>2, <2>1
  <1> QED
    BY <1>3, <1>4

\* The clock of the ledger is the clock of the account.
LEMMA TickShows ==
  ASSUME Tick
  PROVE  Idempotent!TimePasses
  <1>1. ops' = ops /\ proc' = proc /\ effects' = effects /\ now' = now + 1
    BY DEF Tick
  <1>2. Entries' = Entries /\ \A m \in Keys : Prior(m)' = Prior(m)
    BY <1>1, EntriesStay
  <1>3. [m \in Keys |-> StageOf(m)'] = [m \in Keys |-> StageOf(m)]
    BY <1>1, <1>2 DEF StageOf, At
  <1> QED
    BY <1>1, <1>2, <1>3 DEF Idempotent!TimePasses, Entries

\* Every step of the ledger is one of the account of its keys, or none.
LEMMA LedgerStepRefines ==
  ASSUME LedgerInv, ActorsAreClients, [LedgerNext]_ledgerVars
  PROVE  [Idempotent!IdempotentNext]_(Idempotent!idempotentVars)
  <1>1. CASE \E p \in Callers, k \in Keys \ {KeyOf[r] : r \in Requests} : Call(p, k)
    BY <1>1, QuietShowsNothing DEF Procs
  <1>2. CASE \E p \in Callers, r \in Requests : CreateConfirmation(p, r)
    BY <1>2, QuietShowsNothing DEF Procs
  <1>3. CASE \E p \in Operators, r \in Requests : ConfirmRead(p, r) \/ RejectRead(p, r)
    BY <1>3, QuietShowsNothing DEF Procs
  <1>4. ASSUME NEW p \in Procs, ProcStep(p) \/ Crash(p)
        PROVE  [Idempotent!IdempotentNext]_(Idempotent!idempotentVars)
    <2>1. CASE Reserve(p)
      BY <2>1, ReserveShows DEF Idempotent!IdempotentNext
    <2>2. CASE Work(p)
      BY <2>2, WorkShows DEF Idempotent!IdempotentNext
    <2>3. CASE Finish(p)
      BY <2>3, FinishShows DEF Idempotent!IdempotentNext
    <2>4. CASE FailOperation(p)
      BY <2>4, FailShows DEF Idempotent!IdempotentNext
    <2>5. CASE AppendEvent(p) \/ (Crash(p) /\ proc[p].pc \in Busy)
      BY <2>5, LeaveShows DEF Idempotent!IdempotentNext
    <2>6. CASE \/ ConfirmWrite(p) \/ RejectWrite(p) \/ ConsumeRead(p) \/ ConsumeWrite(p)
               \/ Crash(p) /\ proc[p].pc \notin Busy
      BY <2>6, QuietShowsNothing
    <2> QED
      BY <1>4, <2>1, <2>2, <2>3, <2>4, <2>5, <2>6 DEF ProcStep
  <1>5. CASE \E i \in Rows : RepairStale(i)
    BY <1>5, RepairShows DEF Idempotent!IdempotentNext
  <1>6. CASE Tick
    BY <1>6, TickShows DEF Idempotent!IdempotentNext
  <1>7. CASE UNCHANGED ledgerVars
    <2>1. ops' = ops /\ proc' = proc /\ effects' = effects /\ now' = now
      BY <1>7 DEF ledgerVars
    <2>2. Entries' = Entries /\ \A m \in Keys : Prior(m)' = Prior(m)
      BY <2>1, EntriesStay
    <2>3. [m \in Keys |-> StageOf(m)'] = [m \in Keys |-> StageOf(m)]
      BY <2>1, <2>2 DEF StageOf, At
    <2> QED
      BY <2>1, <2>2, <2>3 DEF Idempotent!idempotentVars, Entries
  <1> QED
    BY <1>1, <1>2, <1>3, <1>4, <1>5, <1>6, <1>7 DEF LedgerNext

\* An empty table has accepted nothing.
LEMMA LedgerInitRefines ==
  ASSUME LedgerInit
  PROVE  Idempotent!IdempotentInit /\ ActorsAreClients
  <1>1. ops = <<>> /\ effects = [k \in Keys |-> 0] /\ now = 0
    BY DEF LedgerInit
  <1>2. \A k \in Keys : Prior(k) = {}
    BY <1>1 DEF Prior, Rows
  <1>3. \A k \in Keys : EntryOf(k) = [account |-> "nobody", at |-> 0, outcome |-> "none"]
                        /\ StageOf(k) = "new"
    BY <1>2 DEF EntryOf, StageOf
  <1>4. Idempotent!IdempotentInit
    BY <1>1, <1>3 DEF Idempotent!IdempotentInit, Idempotent!NoEntry
  <1>5. \A p \in Procs : proc[p].pc \in {"idle", "absent"}
    <2>1. PICK cast \in Casts :
            proc = [p \in Procs |-> IF p \in cast THEN Idle ELSE [Idle EXCEPT !.pc = "absent"]]
      BY DEF LedgerInit
    <2>2. Idle.pc = "idle" /\ [Idle EXCEPT !.pc = "absent"].pc = "absent"
      BY IdleShape DEF Process, Pcs
    <2> QED
      BY <2>1, <2>2
  <1> QED
    BY <1>4, <1>5 DEF ActorsAreClients

\* The operations table makes the work of a key idempotent: every step of
\* runOperation, of the confirmation commands, of the doctor's repair and of a
\* process that dies is a step of IdempotentWork or shows nothing.
THEOREM LedgerImplementsIdempotentWork == LedgerSpec => ImplementsIdempotentWork
  <1>1. LedgerInit => Idempotent!IdempotentInit /\ ActorsAreClients
    BY LedgerInitRefines
  <1>2. LedgerInv /\ ActorsAreClients /\ [LedgerNext]_ledgerVars => ActorsAreClients'
    BY ActorsStep
  <1>3. LedgerInv /\ ActorsAreClients /\ [LedgerNext]_ledgerVars =>
          [Idempotent!IdempotentNext]_(Idempotent!idempotentVars)
    BY LedgerStepRefines
  <1> QED
    BY <1>1, <1>2, <1>3, LedgerInvariant, PTL
       DEF LedgerSpec, ImplementsIdempotentWork, Idempotent!IdempotentSpec

-----------------------------------------------------------------------------
(* The MCP tools.                                                           *)

(* What the registry (mcp/registry) and the handlers (mcp/tools) say of one *)
(* tool.  A tool that shows rows is checked by its handler, or names a row  *)
(* that the permission layer resolved.                                      *)
Showers(t, h) ==
  \/ h.shows = {}
  \/ h.check \in {"row", "project", "optional", "aggregate"}
  \/ h.check = "filter" /\ t.names = "none"
  \/ h.check = "some" /\ t.names = "none" /\ h.shows = {"doctor"}
  \/ h.check = "portableList" /\ t.names = "project" /\ h.shows = {"ops"}
  \/ h.check = "portable" /\ t.names = "ops" /\ h.shows = {"ops"}
  \/ h.check = "preview" /\ t.names \in {"run", "doctor"}
  \/ h.check = "hitchOfRun" /\ t.name = "review.process" /\ t.scope = "row"
       /\ t.names = "run" /\ h.shows = {"run"}
  \/ h.check = "none" /\ t.scope = "owned" /\ t.names = "hitch"
  \/ h.check = "tracked" /\ t.kind = "read"

NamesASecond == {"run.start", "review.auto", "rerun.start", "review.process",
                 "phase.link_hitch", "workspace.checkpoint", "phase.add", "ops_knowledge.record"}

(* The checks that look at one row only.                                    *)
Alone == {"project", "row", "none", "opsDeprecate", "preview", "global"}

(* A tool that writes is a mutation and, if it writes the row it names, is  *)
(* checked or resolved for that row; a second row is always checked.        *)
Writers(t, h) ==
  \/ h.writes = {} /\ t.name \notin NamesASecond
  \/ /\ t.kind \in {"mutation", "dangerous"}
     /\ h.check \in Alone => t.name \notin NamesASecond
     /\ \/ h.check \in {"project", "projectAndHitch"}
        \/ h.check \in {"row", "rowAndSecondary"} /\ t.names \in {"course", "phase"}
        \/ h.check = "hitchOfRun" /\ t.scope = "row" /\ t.names = "run" /\ h.writes = {"run"}
        \/ h.check = "none" /\ t.scope = "owned"
        \/ h.check = "none" /\ t.scope = "row" /\ t.names = "backlog" /\ h.writes = {"backlog"}
        \/ h.check = "preview" /\ t.kind = "dangerous" /\ t.names \in {"run", "doctor"}
        \/ h.check = "global"
        \/ h.check = "opsRecord" /\ t.name = "ops_knowledge.record"
        \/ h.check = "opsDeprecate" /\ t.names = "ops"
        \/ h.check = "workspaceScope" /\ t.name = "workspace.checkpoint" /\ t.names = "workspace"

Fits(t, h) ==
  /\ Showers(t, h) /\ Writers(t, h)
  /\ h.check = "preview" => t.kind = "dangerous" /\ t.names \in {"run", "doctor"}
  /\ h.check = "tracked" => t.kind = "read"
  /\ h.check \in {"opsRecord", "opsDeprecate", "workspaceScope"} => t.kind = "mutation"

Registered(t) ==
  /\ t.scope \in {"owned", "finding"} =>
       t.names \in {"hitch", "finding", "candidate", "course", "phase", "doctor"}
  /\ t.name \in ResourceTools => t.kind = "read"

\* The resolvers of owned rows are used for tables whose projects never move.
LEMMA ToolsAreRegistered ==
  ASSUME NEW t \in McpToolDefinitions
  PROVE  Registered(t)
BY DEF McpToolDefinitions, ProjectReadTools, RunReadTools, CatalogReadTools, OpsWriteTools, SystemReadTools, HitchReadTools, DryRunTools, RunMutationTools, BacklogMutationTools, HitchMutationTools, KnowledgeDecisionTools, DangerousRunTools, DangerousHitchAndDbTools, CourseTools, PhaseTools, WorkspaceTools, Tools, Registered, ResourceTools

\* Every handler fits the tool it is registered under (mcp/tools/index.ts).
LEMMA ToolsFitHandlers ==
  ASSUME NEW t \in McpToolDefinitions, NEW h \in ToolHandlers, h.name = t.name
  PROVE  Fits(t, h)
<1> USE DEF ToolHandlers, ReadHandlers, DryRunHandlers, Handlers, Tools, Fits, Showers, Writers, NamesASecond, Alone,
            ProjectReadHandlers, ProjectInspectionHandlers, RunReadHandlers, ReviewReadHandlers, BacklogReadHandlers, KnowledgeReadHandlers, OpsKnowledgeReadHandlers, SystemReadHandlers, AggregateHandlers, HitchReadHandlers, CourseReadHandlers, RunDryRunHandlers, RunPreviewHandlers, DbDryRunHandlers, BlobDryRunHandlers, RunMutationHandlers, RerunHandlers, OrchestrateHandlers, BacklogAndKnowledgeHandlers, OpsKnowledgeWriteHandlers, DangerousRunHandlers, DangerousDbHandlers, HitchStartHandlers, RecordFindingsHandlers, HitchFindingHandlers, HitchCheckHandlers, HitchEndHandlers, CourseMutationHandlers, PhaseMutationHandlers, WorkspaceHandlers
<1>1. CASE t \in ProjectReadTools
  BY <1>1 DEF ProjectReadTools
<1>2. CASE t \in RunReadTools
  BY <1>2 DEF RunReadTools
<1>3. CASE t \in CatalogReadTools
  BY <1>3 DEF CatalogReadTools
<1>4. CASE t \in OpsWriteTools
  BY <1>4 DEF OpsWriteTools
<1>5. CASE t \in SystemReadTools
  BY <1>5 DEF SystemReadTools
<1>6. CASE t \in HitchReadTools
  BY <1>6 DEF HitchReadTools
<1>7. CASE t \in DryRunTools
  BY <1>7 DEF DryRunTools
<1>8. CASE t \in RunMutationTools
  BY <1>8 DEF RunMutationTools
<1>9. CASE t \in BacklogMutationTools
  BY <1>9 DEF BacklogMutationTools
<1>10. CASE t \in HitchMutationTools
  BY <1>10 DEF HitchMutationTools
<1>11. CASE t \in KnowledgeDecisionTools
  BY <1>11 DEF KnowledgeDecisionTools
<1>12. CASE t \in DangerousRunTools
  BY <1>12 DEF DangerousRunTools
<1>13. CASE t \in DangerousHitchAndDbTools
  BY <1>13 DEF DangerousHitchAndDbTools
<1>14. CASE t \in CourseTools
  BY <1>14 DEF CourseTools
<1>15. CASE t \in PhaseTools
  BY <1>15 DEF PhaseTools
<1>16. CASE t \in WorkspaceTools
  BY <1>16 DEF WorkspaceTools
<1> QED
  BY <1>1, <1>2, <1>3, <1>4, <1>5, <1>6, <1>7, <1>8, <1>9, <1>10, <1>11, <1>12, <1>13, <1>14, <1>15, <1>16 DEF McpToolDefinitions

\* A table of handlers has one for each name it lists.
LEMMA HandlersHold ==
  ASSUME NEW check, NEW shows, NEW writes, NEW tools, NEW n \in tools
  PROVE  \E h \in Handlers(check, shows, writes, tools) : h.name = n
<1> DEFINE h == [name |-> n, check |-> check, shows |-> shows, writes |-> writes]
<1>1. h \in Handlers(check, shows, writes, tools) /\ h.name = n
  BY DEF Handlers
<1> QED
  BY <1>1

\* No tool of the registry is without a handler.
LEMMA ToolsAreHandled ==
  ASSUME NEW t \in McpToolDefinitions
  PROVE  \E h \in ToolHandlers : h.name = t.name
<1> USE DEF ToolHandlers, ReadHandlers, DryRunHandlers
<1>1. CASE t \in ProjectReadTools
  <2>1. \E h \in ProjectReadHandlers \cup ProjectInspectionHandlers : h.name = t.name
    BY <1>1, HandlersHold DEF ProjectReadTools, Tools, ProjectReadHandlers, ProjectInspectionHandlers
  <2> QED
    BY <2>1
<1>2. CASE t \in RunReadTools
  <2>1. \E h \in RunReadHandlers \cup ReviewReadHandlers : h.name = t.name
    BY <1>2, HandlersHold DEF RunReadTools, Tools, RunReadHandlers, ReviewReadHandlers
  <2> QED
    BY <2>1
<1>3. CASE t \in CatalogReadTools
  <2>1. \E h \in BacklogReadHandlers \cup KnowledgeReadHandlers \cup OpsKnowledgeReadHandlers : h.name = t.name
    BY <1>3, HandlersHold DEF CatalogReadTools, Tools, BacklogReadHandlers, KnowledgeReadHandlers, OpsKnowledgeReadHandlers
  <2> QED
    BY <2>1
<1>4. CASE t \in OpsWriteTools
  <2>1. \E h \in OpsKnowledgeWriteHandlers : h.name = t.name
    BY <1>4, HandlersHold DEF OpsWriteTools, Tools, OpsKnowledgeWriteHandlers
  <2> QED
    BY <2>1
<1>5. CASE t \in SystemReadTools
  <2>1. \E h \in SystemReadHandlers \cup AggregateHandlers : h.name = t.name
    BY <1>5, HandlersHold DEF SystemReadTools, Tools, SystemReadHandlers, AggregateHandlers
  <2> QED
    BY <2>1
<1>6. CASE t \in HitchReadTools
  <2>1. \E h \in HitchReadHandlers : h.name = t.name
    BY <1>6, HandlersHold DEF HitchReadTools, Tools, HitchReadHandlers
  <2> QED
    BY <2>1
<1>7. CASE t \in DryRunTools
  <2>1. \E h \in ProjectInspectionHandlers \cup RunDryRunHandlers \cup RunPreviewHandlers \cup DbDryRunHandlers \cup BlobDryRunHandlers : h.name = t.name
    BY <1>7, HandlersHold DEF DryRunTools, Tools, ProjectInspectionHandlers, RunDryRunHandlers, RunPreviewHandlers, DbDryRunHandlers, BlobDryRunHandlers
  <2> QED
    BY <2>1
<1>8. CASE t \in RunMutationTools
  <2>1. \E h \in RunMutationHandlers \cup RerunHandlers \cup OrchestrateHandlers : h.name = t.name
    BY <1>8, HandlersHold DEF RunMutationTools, Tools, RunMutationHandlers, RerunHandlers, OrchestrateHandlers
  <2> QED
    BY <2>1
<1>9. CASE t \in BacklogMutationTools
  <2>1. \E h \in BacklogAndKnowledgeHandlers : h.name = t.name
    BY <1>9, HandlersHold DEF BacklogMutationTools, Tools, BacklogAndKnowledgeHandlers
  <2> QED
    BY <2>1
<1>10. CASE t \in HitchMutationTools
  <2>1. \E h \in HitchStartHandlers \cup RecordFindingsHandlers \cup HitchFindingHandlers \cup HitchCheckHandlers : h.name = t.name
    BY <1>10, HandlersHold DEF HitchMutationTools, Tools, HitchStartHandlers, RecordFindingsHandlers, HitchFindingHandlers, HitchCheckHandlers
  <2> QED
    BY <2>1
<1>11. CASE t \in KnowledgeDecisionTools
  <2>1. \E h \in BacklogAndKnowledgeHandlers : h.name = t.name
    BY <1>11, HandlersHold DEF KnowledgeDecisionTools, Tools, BacklogAndKnowledgeHandlers
  <2> QED
    BY <2>1
<1>12. CASE t \in DangerousRunTools
  <2>1. \E h \in DangerousRunHandlers : h.name = t.name
    BY <1>12, HandlersHold DEF DangerousRunTools, Tools, DangerousRunHandlers
  <2> QED
    BY <2>1
<1>13. CASE t \in DangerousHitchAndDbTools
  <2>1. \E h \in HitchEndHandlers \cup DangerousDbHandlers : h.name = t.name
    BY <1>13, HandlersHold DEF DangerousHitchAndDbTools, Tools, HitchEndHandlers, DangerousDbHandlers
  <2> QED
    BY <2>1
<1>14. CASE t \in CourseTools
  <2>1. \E h \in CourseReadHandlers \cup CourseMutationHandlers : h.name = t.name
    BY <1>14, HandlersHold DEF CourseTools, Tools, CourseReadHandlers, CourseMutationHandlers
  <2> QED
    BY <2>1
<1>15. CASE t \in PhaseTools
  <2>1. \E h \in PhaseMutationHandlers : h.name = t.name
    BY <1>15, HandlersHold DEF PhaseTools, Tools, PhaseMutationHandlers
  <2> QED
    BY <2>1
<1>16. CASE t \in WorkspaceTools
  <2>1. \E h \in WorkspaceHandlers : h.name = t.name
    BY <1>16, HandlersHold DEF WorkspaceTools, Tools, WorkspaceHandlers
  <2> QED
    BY <2>1
<1> QED
  BY <1>1, <1>2, <1>3, <1>4, <1>5, <1>6, <1>7, <1>8, <1>9, <1>10, <1>11, <1>12, <1>13, <1>14, <1>15, <1>16 DEF McpToolDefinitions

-----------------------------------------------------------------------------
(* The inductive invariant.                                                 *)

(* A call that is being worked for, or waits for its confirmation.          *)
Live == {"permitted", "pending", "writing", "git"}

InScope(c, projects) == projects # {} /\ projects \subseteq AllowedProjects[c]

(* Rows are neither made nor lost, and a workspace is linked to a hitch.    *)
TablesKeepTheirRows ==
  /\ DOMAIN home = RowsOf("ops")
  /\ link \in [RowsOf("workspace") -> RowsOf("hitch") \cup {NoRow}]

(* A call has all the fields of its record, with the arguments that its     *)
(* schema admits.                                                           *)
Recorded(r) ==
  /\ r = [stage |-> r.stage, client |-> r.client, tool |-> r.tool, x |-> r.x, y |-> r.y,
          confirmed |-> r.confirmed, shown |-> r.shown, written |-> r.written]
  /\ r.client \in Clients /\ r.tool \in McpToolDefinitions
  /\ r.x \in FirstArguments(r.tool) /\ r.y \in SecondArguments(r.tool)
  /\ r.confirmed \in BOOLEAN

(* What the permission layer said of the row a call names stays true, since *)
(* only workspaces and operational entries move.                            *)
ScopeHolds(c, t, x) ==
  /\ t.scope \in {"owned", "finding"} => InScope(c, HomeOf(x))
  /\ t.scope = "row" /\ t.names \in {"run", "backlog"} => HomeOf(x) \subseteq AllowedProjects[c]

InItsScope(r) == Restricted(r.client) => ScopeHolds(r.client, r.tool, r.x)

Changing(t) == t.kind \in {"mutation", "dangerous"}

(* What the permission decision said of a change stays true.                *)
Permitted(r) ==
  Changing(r.tool) => /\ Mode[r.client] = "guarded-mutation"
                      /\ \/ r.confirmed \/ r.stage = "pending" \/ r.tool.kind = "dangerous"
                         \/ r.tool.name \in AllowedOperations[r.client]

(* A request that waits for its confirmation was previewed.                 *)
Previewed(r) ==
  (/\ r.confirmed \/ r.stage = "pending"
   /\ Restricted(r.client) /\ HandlerOf(r.tool.name).check = "preview")
  => InScope(r.client, HomeOf(r.x))

(* The client may change these rows: WritesStayInScope, said of a call.     *)
MayWrite(r, written) ==
  /\ Mode[r.client] = "guarded-mutation"
  /\ r.confirmed \/ r.tool.name \in AllowedOperations[r.client]
  /\ Restricted(r.client) =>
       \A w \in written : InScope(r.client, w[2]) \/ (w[1] \in {"run", "backlog"} /\ w[2] = {})

(* The client may see this row: AnswersStayInScope, said of one row.        *)
AnswerInScope(c, t, s) ==
  \/ InScope(c, s[2])
  \/ ClassOf[s[1]] = "ops" /\ s[2] = {}
  \/ t.name = "review.process" /\ s[2] = {}
  \/ ClassOf[s[1]] = "doctor" /\ s[2] \cap AllowedProjects[c] # {}

(* What each stage has been granted.                                        *)
Granted(r) ==
  /\ r.stage = "writing" => MayWrite(r, r.written)
  /\ r.stage = "git" /\ Restricted(r.client) => \A s \in r.shown : InScope(r.client, s[2])
  /\ r.stage = "pending" /\ Restricted(r.client) =>
       \A s \in r.shown : AnswerInScope(r.client, r.tool, s)

LiveCall(r) == Recorded(r) /\ InItsScope(r) /\ Permitted(r) /\ Previewed(r) /\ Granted(r)

McpInvariant ==
  /\ TablesKeepTheirRows
  /\ request.stage \in Live \cup {"idle", "answered"}
  /\ request.stage \in Live => LiveCall(request)
  /\ AnswersStayInScope /\ WritesStayInScope

-----------------------------------------------------------------------------
(* The permission layer.                                                    *)

\* HandlerOf finds the handler of a tool.
LEMMA HandlerFits ==
  ASSUME NEW t \in McpToolDefinitions
  PROVE  Fits(t, HandlerOf(t.name))
<1>1. HandlerOf(t.name) \in ToolHandlers /\ HandlerOf(t.name).name = t.name
  BY ToolsAreHandled DEF HandlerOf
<1> QED
  BY <1>1, ToolsFitHandlers

\* The row a call names is of the table that its tool is about.
LEMMA NamedRow ==
  ASSUME NEW t \in McpToolDefinitions, NEW x \in FirstArguments(t)
  PROVE  /\ t.names \notin {"none", "project"} => x \in McpRows /\ x # NoRow /\ ClassOf[x] = t.names
         /\ t.names = "none" => x = NoRow
BY McpAssumption DEF FirstArguments, RowsOf

\* The project that the permission layer resolved and let through is that of
\* the row, for each way of resolving (permissions.ts, isProjectAllowed).
LEMMA ScopeGranted ==
  ASSUME NEW c \in Clients, NEW t \in McpToolDefinitions, NEW x, NEW y, Restricted(c),
         IsProjectAllowed(c, ResolveProjectIdForPermission(c, t, x, y))
  PROVE  ScopeHolds(c, t, x)
<1> DEFINE p == ResolveProjectIdForPermission(c, t, x, y)
<1>1. p = {} \/ p \subseteq AllowedProjects[c]
  BY DEF IsProjectAllowed
<1>2. Unresolved # {} /\ ~(Unresolved \subseteq AllowedProjects[c])
  BY McpAssumption DEF Unresolved
<1>3. ASSUME t.scope = "owned" PROVE InScope(c, HomeOf(x))
  <2>1. p = IF HomeOf(x) = {} THEN Unresolved ELSE HomeOf(x)
    BY <1>3 DEF ResolveProjectIdForPermission, ResolveCourseProject, ResolveOwnedProject,
       UnresolvedProject
  <2> HIDE DEF p
  <2> QED
    BY <1>1, <1>2, <2>1 DEF InScope
<1>4. ASSUME t.scope = "finding" PROVE InScope(c, HomeOf(x))
  <2>1. p = IF ~VisibleToRestrictedClient(c, x) THEN Unresolved ELSE {}
    BY <1>4 DEF ResolveProjectIdForPermission, ResolveDoctorFindingProject
  <2> HIDE DEF p
  <2> QED
    BY <1>1, <1>2, <2>1 DEF InScope, VisibleToRestrictedClient
<1>5. ASSUME t.scope = "row" PROVE HomeOf(x) \subseteq AllowedProjects[c]
  <2>1. p = HomeOf(x)
    BY <1>5 DEF ResolveProjectIdForPermission, ResolveRowProject
  <2> HIDE DEF p
  <2> QED
    BY <1>1, <2>1
<1> QED
  BY <1>3, <1>4, <1>5 DEF ScopeHolds

\* What a decision other than "deny" says (decideMcpPermission).
LEMMA DecisionMeans ==
  ASSUME NEW c, NEW name, NEW kind, NEW projects,
         DecideMcpPermission(c, name, kind, projects) # "deny"
  PROVE  /\ IsProjectAllowed(c, projects)
         /\ kind \in {"mutation", "dangerous"} => Mode[c] = "guarded-mutation"
         /\ kind = "mutation" /\ DecideMcpPermission(c, name, kind, projects) # "confirm" =>
              name \in AllowedOperations[c]
BY DEF DecideMcpPermission

-----------------------------------------------------------------------------
(* What the handlers show and write.                                        *)

\* A handler that admits a call shows a restricted client rows it may see.
LEMMA ShownIsInScope ==
  ASSUME NEW c \in Clients, NEW t \in McpToolDefinitions, NEW h, Showers(t, h), h.check # "tracked",
         NEW x \in FirstArguments(t), NEW y, NEW confirmed \in BOOLEAN, Restricted(c),
         ScopeHolds(c, t, x), HandlerAdmits(c, h.check, x, y, confirmed),
         h.check = "preview" /\ confirmed => InScope(c, HomeOf(x))
  PROVE  \A s \in Shown(c, h, t, x) : AnswerInScope(c, t, s)
<1>1. ASSUME NEW class \in h.shows, t.names = class, x # NoRow
      PROVE  AnswerInScope(c, t, <<x, HomeOf(x)>>)
  <2>1. CASE h.check \in {"row", "project", "optional", "aggregate"}
    BY <1>1, <2>1 DEF HandlerAdmits, EnsureProjectVisible, ResolveFromArgs,
       ResolveAggregateProject, AnswerInScope, InScope
  <2>2. CASE h.check = "portable" /\ t.names = "ops"
    BY <2>2, NamedRow DEF HandlerAdmits, EnsureProjectVisible, AnswerInScope, InScope
  <2>3. CASE h.check = "preview"
    BY <2>3 DEF HandlerAdmits, EnsureProjectVisible, AnswerInScope, InScope
  <2>4. CASE h.check = "hitchOfRun" /\ t.name = "review.process" /\ t.scope = "row" /\ t.names = "run"
    BY <2>4 DEF ScopeHolds, AnswerInScope, InScope
  <2>5. CASE h.check = "none" /\ t.scope = "owned"
    BY <2>5 DEF ScopeHolds, AnswerInScope
  <2>6. CASE t.names = "none" \/ h.shows = {}
    BY <1>1, <2>6, NamedRow
  <2>7. CASE h.check = "portableList" /\ t.names = "project" /\ h.shows = {"ops"}
    BY <1>1, <2>7
  <2> QED
    BY <2>1, <2>2, <2>3, <2>4, <2>5, <2>6, <2>7 DEF Showers
<1>2. ASSUME NEW class \in h.shows, ~(t.names = class /\ x # NoRow),
             NEW r \in Listed(c, h.check, class, x)
      PROVE  AnswerInScope(c, t, <<r, HomeOf(r)>>)
  <2>1. /\ ClassOf[r] = class
        /\ x # NoRow => HomeOf(r) = HomeOf(x)
        /\ x = NoRow => \/ InScope(c, HomeOf(r))
                        \/ h.check = "some" /\ HomeOf(r) \cap AllowedProjects[c] # {}
                        \/ h.check = "portableList" /\ HomeOf(r) = {}
    BY <1>2 DEF Listed, RowsOf, EnsureProjectVisible, FindingShows, InScope
  <2>2. CASE h.check \in {"row", "project", "optional", "aggregate", "portableList"}
    <3>1. x # NoRow => InScope(c, HomeOf(x))
      BY <2>2 DEF HandlerAdmits, EnsureProjectVisible, ResolveFromArgs, ResolveAggregateProject,
         InScope
    <3>2. h.check = "portableList" => class = "ops"
      BY <1>2 DEF Showers
    <3> QED
      BY <2>1, <2>2, <3>1, <3>2 DEF AnswerInScope
  <2>3. CASE t.names = "none"
    <3>1. h.check = "some" => class = "doctor"
      BY <1>2 DEF Showers
    <3>2. h.check = "portableList" => class = "ops"
      BY <1>2 DEF Showers
    <3> QED
      BY <2>1, <2>3, <3>1, <3>2, NamedRow DEF AnswerInScope
  <2>4. CASE h.check = "preview" /\ t.names \in {"run", "doctor"}
    <3>1. x # NoRow /\ InScope(c, HomeOf(x))
      BY <2>4, NamedRow DEF HandlerAdmits, EnsureProjectVisible, InScope
    <3> QED
      BY <2>1, <3>1 DEF AnswerInScope
  <2>5. CASE h.check = "none" /\ t.scope = "owned" /\ t.names = "hitch"
    <3>1. x # NoRow /\ InScope(c, HomeOf(x))
      BY <2>5, NamedRow DEF ScopeHolds
    <3> QED
      BY <2>1, <3>1 DEF AnswerInScope
  <2>6. CASE t.names \in {"ops", "run"} /\ h.shows = {t.names}
    BY <1>2, <2>6, NamedRow
  <2>7. CASE h.shows = {}
    BY <1>2, <2>7
  <2> QED
    BY <2>2, <2>3, <2>4, <2>5, <2>6, <2>7 DEF Showers
<1>3. SUFFICES ASSUME NEW s \in Shown(c, h, t, x) PROVE AnswerInScope(c, t, s)
  OBVIOUS
<1>4. PICK class \in h.shows :
         s \in IF t.names = class /\ x # NoRow THEN {<<x, HomeOf(x)>>}
               ELSE {<<r, HomeOf(r)>> : r \in Listed(c, h.check, class, x)}
  BY <1>3 DEF Shown
<1>5. CASE t.names = class /\ x # NoRow
  BY <1>1, <1>4, <1>5
<1>6. CASE ~(t.names = class /\ x # NoRow)
  <2>1. PICK r \in Listed(c, h.check, class, x) : s = <<r, HomeOf(r)>>
    BY <1>4, <1>6
  <2> QED
    BY <1>2, <1>6, <2>1
<1> QED
  BY <1>5, <1>6

(* A restricted client may write this row.                                  *)
WriteInScope(c, w) == InScope(c, w[2]) \/ (w[1] \in {"run", "backlog"} /\ w[2] = {})

\* A handler that admits a call writes rows that a restricted client may write.
LEMMA WrittenIsInScope ==
  ASSUME NEW c \in Clients, NEW t \in McpToolDefinitions, NEW h, Writers(t, h),
         NEW x \in FirstArguments(t), NEW y \in SecondArguments(t), NEW confirmed \in BOOLEAN,
         Restricted(c), ScopeHolds(c, t, x), HandlerAdmits(c, h.check, x, y, confirmed),
         h.check = "preview" /\ confirmed => InScope(c, HomeOf(x))
  PROVE  \A w \in Written(h, t, x, y) : WriteInScope(c, w)
<1>1. t.name \notin NamesASecond => y = NoRow
  BY DEF SecondArguments, NamesASecond
<1>2. ASSUME y # NoRow PROVE InScope(c, HomeOf(y))
  <2>1. CASE h.check \in {"projectAndHitch", "hitchOfRun", "rowAndSecondary"}
    BY <1>2, <2>1 DEF HandlerAdmits, ValidateHitchLink, EnsureProjectVisible, InScope
  <2>2. CASE h.check = "opsRecord"
    BY <1>2, <2>2 DEF HandlerAdmits, AuthorizeOpsWrite, VisibleToRestrictedClient, InScope
  <2>3. CASE h.check = "workspaceScope"
    BY <1>2, <2>3 DEF HandlerAdmits, CheckWorkspaceProjectScope, VisibleToRestrictedClient, InScope
  <2> QED
    BY <1>1, <1>2, <2>1, <2>2, <2>3 DEF Writers, Alone
<1>3. ASSUME NEW class \in h.writes
      PROVE  WriteInScope(c, <<class, IF x = NoRow THEN {} ELSE HomeOf(x)>>)
  <2>1. CASE h.check \in {"project", "projectAndHitch", "opsRecord"}
    BY <2>1 DEF HandlerAdmits, EnsureProjectVisible, ResolveFromArgs, WriteInScope, InScope
  <2>2. CASE h.check \in {"row", "rowAndSecondary"} /\ t.names \in {"course", "phase"}
    <3>1. x # NoRow /\ InScope(c, HomeOf(x))
      BY <2>2, NamedRow DEF HandlerAdmits, EnsureProjectVisible, InScope
    <3> QED
      BY <3>1 DEF WriteInScope
  <2>3. CASE /\ t.scope = "row"
             /\ \/ t.names = "run" /\ h.writes = {"run"}
                \/ t.names = "backlog" /\ h.writes = {"backlog"}
    <3>1. x # NoRow /\ HomeOf(x) \subseteq AllowedProjects[c]
      BY <2>3, NamedRow DEF ScopeHolds
    <3> QED
      BY <1>3, <2>3, <3>1 DEF WriteInScope, InScope
  <2>4. CASE t.scope = "owned"
    <3>1. x # NoRow /\ InScope(c, HomeOf(x))
      BY <2>4, NamedRow, ToolsAreRegistered DEF ScopeHolds, Registered
    <3> QED
      BY <3>1 DEF WriteInScope
  <2>5. CASE h.check = "preview" /\ t.names \in {"run", "doctor"}
    <3>1. x # NoRow /\ InScope(c, HomeOf(x))
      BY <2>5, NamedRow DEF HandlerAdmits, EnsureProjectVisible, InScope
    <3> QED
      BY <3>1 DEF WriteInScope
  <2>6. CASE h.check = "global"
    BY <2>6 DEF HandlerAdmits
  <2>7. CASE h.check = "opsDeprecate" /\ t.names = "ops"
    <3>1. x # NoRow /\ InScope(c, HomeOf(x))
      BY <2>7, NamedRow DEF HandlerAdmits, AuthorizeOpsWrite, VisibleToRestrictedClient, InScope
    <3> QED
      BY <3>1 DEF WriteInScope
  <2>8. CASE h.check = "workspaceScope" /\ t.names = "workspace"
    <3>1. x # NoRow /\ InScope(c, HomeOf(x))
      BY <2>8, NamedRow DEF HandlerAdmits, CheckWorkspaceProjectScope, VisibleToRestrictedClient,
         InScope
    <3> QED
      BY <3>1 DEF WriteInScope
  <2> QED
    BY <1>3, <2>1, <2>2, <2>3, <2>4, <2>5, <2>6, <2>7, <2>8 DEF Writers
<1>4. SUFFICES ASSUME NEW w \in Written(h, t, x, y) PROVE WriteInScope(c, w)
  OBVIOUS
<1>5. CASE \E class \in h.writes : w = <<class, IF x = NoRow THEN {} ELSE HomeOf(x)>>
  BY <1>3, <1>5
<1>6. CASE y # NoRow /\ w = <<ClassOf[y], HomeOf(y)>>
  BY <1>2, <1>6 DEF WriteInScope
<1> QED
  BY <1>4, <1>5, <1>6 DEF Written

-----------------------------------------------------------------------------
(* Every step keeps the invariant.                                          *)

\* A call is answered with rows the client may see and may write.
LEMMA AnswersKeepIt ==
  ASSUME TablesKeepTheirRows', NEW r, NEW shown, NEW written,
         request' = Answer(r, shown, written),
         Restricted(r.client) => \A s \in shown : AnswerInScope(r.client, r.tool, s),
         written # {} => MayWrite(r, written)
  PROVE  McpInvariant'
<1>1. /\ request'.stage = "answered" /\ request'.client = r.client /\ request'.tool = r.tool
      /\ request'.confirmed = r.confirmed /\ request'.shown = shown /\ request'.written = written
  BY DEF Answer
<1>2. AnswersStayInScope'
  BY <1>1 DEF AnswersStayInScope, AnswerInScope, InScope
<1>3. WritesStayInScope'
  BY <1>1 DEF WritesStayInScope, MayWrite, InScope
<1> QED
  BY <1>1, <1>2, <1>3 DEF McpInvariant, Live

\* A call goes on to its next stage.
LEMMA LiveCallsKeepIt ==
  ASSUME TablesKeepTheirRows', NEW r, request' = r, r.stage \in Live, LiveCall(r),
         HomeOf(r.x)' = HomeOf(r.x)
  PROVE  McpInvariant'
<1>1. r.stage # "answered" /\ r.stage # "idle"
  BY DEF Live
<1>2. LiveCall(r)'
  <2>1. Recorded(r)' /\ Permitted(r)' /\ Granted(r)'
    BY DEF LiveCall, Recorded, Permitted, Granted, MayWrite, AnswerInScope
  <2>2. InItsScope(r)' /\ Previewed(r)'
    BY DEF LiveCall, InItsScope, ScopeHolds, Previewed
  <2> QED
    BY <2>1, <2>2 DEF LiveCall
<1>3. AnswersStayInScope' /\ WritesStayInScope'
  BY <1>1 DEF AnswersStayInScope, WritesStayInScope, LiveCall, Granted, AnswerInScope, InScope
<1> QED
  BY <1>1, <1>2, <1>3 DEF McpInvariant

\* A step that moves no row moves no project.
LEMMA NothingMoves ==
  ASSUME McpInvariant, UNCHANGED <<home, link>>
  PROVE  TablesKeepTheirRows' /\ \A x : HomeOf(x)' = HomeOf(x)
BY DEF McpInvariant, TablesKeepTheirRows, HomeOf

\* The tool that links a workspace names one.
LEMMA CheckpointNamesWorkspace ==
  ASSUME NEW t \in McpToolDefinitions, t.name = "workspace.checkpoint"
  PROVE  t.names = "workspace" /\ t.kind = "mutation"
BY DEF McpToolDefinitions, ProjectReadTools, RunReadTools, CatalogReadTools, OpsWriteTools,
   SystemReadTools, HitchReadTools, DryRunTools, RunMutationTools, BacklogMutationTools,
   HitchMutationTools, KnowledgeDecisionTools, DangerousRunTools, DangerousHitchAndDbTools,
   CourseTools, PhaseTools, WorkspaceTools, Tools

\* callTool up to the handler.
LEMMA McpCallStep ==
  ASSUME McpInvariant, NEW c \in Clients, NEW t \in McpToolDefinitions,
         NEW x \in FirstArguments(t), NEW y \in SecondArguments(t), CallTool(c, t, x, y)
  PROVE  McpInvariant'
<1> DEFINE r(stage) == [stage |-> stage, client |-> c, tool |-> t, x |-> x, y |-> y,
                        confirmed |-> FALSE, shown |-> {}, written |-> {}]
           decision == DecideMcpPermission(c, t.name, t.kind,
                          ResolveProjectIdForPermission(c, t, x, y))
<1>1. /\ \/ decision = "deny" /\ request' = Answer(r("permitted"), {}, {})
         \/ decision = "confirm" /\ t.kind = "mutation" /\ request' = r("pending")
         \/ /\ decision # "deny" /\ ~(decision = "confirm" /\ t.kind = "mutation")
            /\ request' = r("permitted")
      /\ UNCHANGED <<home, link>>
  BY DEF CallTool, RequestConfirmation
<1>2. TablesKeepTheirRows' /\ HomeOf(x)' = HomeOf(x)
  BY <1>1, NothingMoves
<1>3. ASSUME decision # "deny"
      PROVE  /\ Restricted(c) => ScopeHolds(c, t, x)
             /\ Changing(t) => /\ Mode[c] = "guarded-mutation"
                               /\ \/ decision = "confirm" \/ t.kind = "dangerous"
                                  \/ t.name \in AllowedOperations[c]
  BY <1>3, DecisionMeans, ScopeGranted DEF Changing
<1>4. HandlerOf(t.name).check = "preview" => t.kind = "dangerous"
  BY HandlerFits DEF Fits
<1> HIDE DEF decision
<1>5. CASE request' = Answer(r("permitted"), {}, {})
  BY <1>2, <1>5, AnswersKeepIt
<1>6. CASE decision = "confirm" /\ t.kind = "mutation" /\ request' = r("pending")
  <2>1. LiveCall(r("pending"))
    BY <1>3, <1>4, <1>6 DEF LiveCall, Recorded, InItsScope, Permitted, Previewed, Granted
  <2> QED
    BY <1>2, <1>6, <2>1, LiveCallsKeepIt DEF Live
<1>7. CASE /\ decision # "deny" /\ ~(decision = "confirm" /\ t.kind = "mutation")
           /\ request' = r("permitted")
  <2>1. LiveCall(r("permitted"))
    BY <1>3, <1>7 DEF LiveCall, Recorded, InItsScope, Permitted, Previewed, Granted, Changing
  <2> QED
    BY <1>2, <1>7, <2>1, LiveCallsKeepIt DEF Live
<1> QED
  BY <1>1, <1>5, <1>6, <1>7

\* resources/read up to the handler.
LEMMA ResourceStep ==
  ASSUME McpInvariant, NEW c \in Clients, NEW t \in McpToolDefinitions,
         NEW x \in FirstArguments(t), ReadResource(c, t, x)
  PROVE  McpInvariant'
<1> DEFINE r == [stage |-> "permitted", client |-> c, tool |-> t, x |-> x, y |-> NoRow,
                 confirmed |-> FALSE, shown |-> {}, written |-> {}]
           projects == ResolveProjectIdForPermission(c, t, x, NoRow)
<1>1. /\ \/ request' = Answer(r, {}, {})
         \/ DecideMcpPermission(c, t.name, "read", projects) = "allow" /\ request' = r
      /\ UNCHANGED <<home, link>>
  BY DEF ReadResource
<1>2. TablesKeepTheirRows' /\ HomeOf(x)' = HomeOf(x)
  BY <1>1, NothingMoves
<1>3. t.kind = "read" /\ NoRow \in SecondArguments(t)
  BY ToolsAreRegistered DEF ReadResource, Registered, SecondArguments
<1>4. CASE request' = Answer(r, {}, {})
  BY <1>2, <1>4, AnswersKeepIt
<1>5. CASE DecideMcpPermission(c, t.name, "read", projects) = "allow" /\ request' = r
  <2>1. Restricted(c) => ScopeHolds(c, t, x)
    BY <1>5, DecisionMeans, ScopeGranted
  <2>2. LiveCall(r)
    BY <1>3, <2>1 DEF LiveCall, Recorded, InItsScope, Permitted, Previewed, Granted, Changing
  <2> QED
    BY <1>2, <1>5, <2>2, LiveCallsKeepIt DEF Live
<1> QED
  BY <1>1, <1>4, <1>5

\* An empty answer shows and writes nothing.
LEMMA RefusalsKeepIt ==
  ASSUME McpInvariant, Refuse
  PROVE  McpInvariant'
<1>1. TablesKeepTheirRows'
  BY NothingMoves DEF Refuse
<1> QED
  BY <1>1, AnswersKeepIt DEF Refuse

\* The handler of a call: refused, previewed, answered, or between its check
\* and its write or its git commands.
LEMMA HandleStep ==
  ASSUME McpInvariant, HandleCall
  PROVE  McpInvariant'
<1> DEFINE r == request
           h == HandlerOf(r.tool.name)
           shown == Shown(r.client, h, r.tool, r.x)
           written == Written(h, r.tool, r.x, r.y)
           own == {<<w, HomeOf(w)>> : w \in {v \in RowsOf("workspace") :
                                         EnsureProjectVisible(r.client, HomeOf(v))}}
           recorded(stage, s, w) ==
             [stage |-> stage, client |-> r.client, tool |-> r.tool, x |-> r.x, y |-> r.y,
              confirmed |-> r.confirmed, shown |-> s, written |-> w]
<1>1. r.stage = "permitted" /\ LiveCall(r)
  BY DEF HandleCall, McpInvariant, Live
<1>2. /\ Fits(r.tool, h)
      /\ Restricted(r.client) => ScopeHolds(r.client, r.tool, r.x)
      /\ h.check = "preview" /\ r.confirmed /\ Restricted(r.client) => InScope(r.client, HomeOf(r.x))
  BY <1>1, HandlerFits DEF LiveCall, Recorded, InItsScope, Previewed
<1>3. r = recorded("permitted", r.shown, r.written) /\ r.confirmed \in BOOLEAN
  BY <1>1 DEF LiveCall, Recorded
<1>4. \/ Refuse
      \/ /\ HandlerAdmits(r.client, h.check, r.x, r.y, r.confirmed) /\ UNCHANGED <<home, link>>
         /\ \/ /\ AsksFirst(r) /\ request' = recorded("pending", shown, r.written)
            \/ /\ AsksFirst(r) => r.tool.name \in AllowedOperations[r.client]
               /\ h.check # "tracked" /\ request' = Answer(r, shown, written)
            \/ /\ h.check \in {"opsRecord", "opsDeprecate", "workspaceScope"}
               /\ request' = recorded("writing", r.shown, written)
            \/ /\ h.check = "tracked" /\ request' = recorded("git", own, r.written)
  BY <1>3 DEF HandleCall, RequestConfirmation, HandlerWork
<1>5. CASE Refuse
  BY <1>5, RefusalsKeepIt
<1>6. CASE HandlerAdmits(r.client, h.check, r.x, r.y, r.confirmed) /\ UNCHANGED <<home, link>>
  <2>1. TablesKeepTheirRows' /\ \A x : HomeOf(x)' = HomeOf(x)
    BY <1>6, NothingMoves
  <2>2. ASSUME h.check # "tracked", Restricted(r.client)
        PROVE  \A s \in shown : AnswerInScope(r.client, r.tool, s)
    BY <1>1, <1>2, <1>6, <2>2, ShownIsInScope DEF LiveCall, Recorded, Fits
  <2>3. Restricted(r.client) => \A w \in written : WriteInScope(r.client, w)
    BY <1>1, <1>2, <1>6, WrittenIsInScope DEF LiveCall, Recorded, Fits
  <2>4. written # {} => Changing(r.tool)
    <3>1. h.writes = {} /\ r.tool.name \notin NamesASecond => written = {}
      BY <1>1 DEF LiveCall, Recorded, Written, SecondArguments, NamesASecond
    <3> QED
      BY <1>2, <3>1 DEF Fits, Writers, Changing
  <2> HIDE DEF shown, written, own, h
  <2>5. CASE AsksFirst(r) /\ request' = recorded("pending", shown, r.written)
    <3>1. h.check # "tracked" /\ ~r.confirmed
      BY <1>2, <2>5 DEF AsksFirst, Fits
    <3>2. h.check = "preview" /\ Restricted(r.client) => InScope(r.client, HomeOf(r.x))
      BY <1>6, <3>1 DEF HandlerAdmits, EnsureProjectVisible, InScope
    <3>3. LiveCall(recorded("pending", shown, r.written))
      BY <1>1, <2>2, <2>5, <3>1, <3>2
         DEF LiveCall, Recorded, InItsScope, Permitted, Previewed, Granted, h
    <3> QED
      BY <2>1, <2>5, <3>3, LiveCallsKeepIt DEF Live
  <2>6. CASE /\ AsksFirst(r) => r.tool.name \in AllowedOperations[r.client]
             /\ h.check # "tracked" /\ request' = Answer(r, shown, written)
    <3>1. written # {} => MayWrite(r, written)
      BY <1>1, <2>3, <2>4, <2>6 DEF LiveCall, Permitted, MayWrite, WriteInScope, AsksFirst
    <3> QED
      BY <2>1, <2>2, <2>6, <3>1, AnswersKeepIt
  <2>7. CASE /\ h.check \in {"opsRecord", "opsDeprecate", "workspaceScope"}
             /\ request' = recorded("writing", r.shown, written)
    <3>1. r.tool.kind = "mutation"
      BY <1>2, <2>7 DEF Fits
    <3>2. MayWrite(r, written)
      BY <1>1, <2>3, <3>1 DEF LiveCall, Permitted, Changing, MayWrite, WriteInScope
    <3>3. LiveCall(recorded("writing", r.shown, written))
      BY <1>1, <3>2 DEF LiveCall, Recorded, InItsScope, Permitted, Previewed, Granted, MayWrite
    <3> QED
      BY <2>1, <2>7, <3>3, LiveCallsKeepIt DEF Live
  <2>8. CASE h.check = "tracked" /\ request' = recorded("git", own, r.written)
    <3>1. Restricted(r.client) => \A s \in own : InScope(r.client, s[2])
      BY DEF own, EnsureProjectVisible, InScope
    <3>2. LiveCall(recorded("git", own, r.written))
      BY <1>1, <3>1 DEF LiveCall, Recorded, InItsScope, Permitted, Previewed, Granted
    <3> QED
      BY <2>1, <2>8, <3>2, LiveCallsKeepIt DEF Live
  <2> QED
    BY <1>4, <1>5, <2>5, <2>6, <2>7, <2>8
<1> QED
  BY <1>4, <1>5, <1>6

\* The write of a call that was authorized before.
LEMMA WriteStep ==
  ASSUME McpInvariant, WriteAuthorized
  PROVE  McpInvariant'
<1>1. request.stage = "writing" /\ Recorded(request) /\ MayWrite(request, request.written)
  BY DEF WriteAuthorized, McpInvariant, Live, LiveCall, Granted
<1>2. TablesKeepTheirRows'
  <2>1. DOMAIN home' = RowsOf("ops")
    BY DEF WriteAuthorized, McpInvariant, TablesKeepTheirRows
  <2>2. CASE request.tool.name = "workspace.checkpoint" /\ request.y # NoRow
    <3>1. request.x \in RowsOf("workspace") /\ request.y \in RowsOf("hitch")
      BY <1>1, <2>2, CheckpointNamesWorkspace DEF Recorded, FirstArguments, SecondArguments
    <3> QED
      BY <2>1, <2>2, <3>1 DEF WriteAuthorized, McpInvariant, TablesKeepTheirRows
  <2>3. CASE ~(request.tool.name = "workspace.checkpoint" /\ request.y # NoRow)
    BY <2>1, <2>3 DEF WriteAuthorized, McpInvariant, TablesKeepTheirRows
  <2> QED
    BY <2>2, <2>3
<1> QED
  BY <1>1, <1>2, AnswersKeepIt DEF WriteAuthorized

\* The answers after git.
LEMMA GitStep ==
  ASSUME McpInvariant, WorkspaceRecover \/ WorkspaceAnswer
  PROVE  McpInvariant'
<1> DEFINE r == request
<1>1. /\ r.stage = "git" /\ UNCHANGED <<home, link>>
      /\ Restricted(r.client) => \A s \in r.shown : InScope(r.client, s[2])
  BY DEF WorkspaceRecover, WorkspaceAnswer, McpInvariant, Live, LiveCall, Granted
<1>2. TablesKeepTheirRows'
  BY <1>1, NothingMoves
<1>3. ASSUME NEW shown, request' = Answer(r, shown, {}),
             Restricted(r.client) => \A s \in shown : InScope(r.client, s[2])
      PROVE  McpInvariant'
  BY <1>2, <1>3, AnswersKeepIt DEF AnswerInScope
<1>4. CASE WorkspaceRecover
  <2> DEFINE shown == IF EnsureProjectVisible(r.client, HomeOf(r.x))
                        THEN {<<r.x, HomeOf(r.x)>>} ELSE {}
  <2>1. Restricted(r.client) => \A s \in shown : InScope(r.client, s[2])
    BY DEF EnsureProjectVisible, InScope
  <2>2. request' = Answer(r, shown, {})
    BY <1>4 DEF WorkspaceRecover
  <2> HIDE DEF shown
  <2> QED
    BY <1>3, <2>1, <2>2
<1>5. CASE WorkspaceAnswer
  <2> DEFINE shown == IF r.tool.name = "workspace.inspect"
                        THEN {s \in r.shown : s[1] = r.x} ELSE r.shown
  <2>1. Restricted(r.client) => \A s \in shown : InScope(r.client, s[2])
    BY <1>1
  <2>2. request' = Answer(r, shown, {})
    BY <1>5 DEF WorkspaceAnswer
  <2> HIDE DEF shown
  <2> QED
    BY <1>3, <2>1, <2>2
<1> QED
  BY <1>4, <1>5

\* An operator confirms what was previewed.
LEMMA ConfirmStep ==
  ASSUME McpInvariant, ConfirmMcpRequest
  PROVE  McpInvariant'
<1> DEFINE q == request
           r == [stage |-> "permitted", client |-> q.client, tool |-> q.tool, x |-> q.x, y |-> q.y,
                 confirmed |-> TRUE, shown |-> {}, written |-> q.written]
<1>1. q.stage = "pending" /\ LiveCall(q) /\ UNCHANGED <<home, link>>
  BY DEF ConfirmMcpRequest, McpInvariant, Live
<1>2. TablesKeepTheirRows' /\ \A x : HomeOf(x)' = HomeOf(x)
  BY <1>1, NothingMoves
<1>3. request' = r
  BY <1>1 DEF ConfirmMcpRequest, LiveCall, Recorded
<1>4. LiveCall(r)
  BY <1>1 DEF LiveCall, Recorded, InItsScope, Permitted, Previewed, Granted
<1> QED
  BY <1>2, <1>3, <1>4, LiveCallsKeepIt DEF Live

\* The answer is delivered.
LEMMA DeliverStep ==
  ASSUME McpInvariant, Deliver
  PROVE  McpInvariant'
<1>1. request'.stage = "idle" /\ TablesKeepTheirRows'
  BY NothingMoves DEF Deliver, NoRequest
<1> QED
  BY <1>1 DEF McpInvariant, Live, AnswersStayInScope, WritesStayInScope

\* Only workspaces and operational entries have projects that change.
LEMMA SettledHome ==
  ASSUME TablesKeepTheirRows, TablesKeepTheirRows', NEW x, ClassOf[x] \notin {"workspace", "ops"}
  PROVE  HomeOf(x)' = HomeOf(x)
<1>1. x \notin DOMAIN link /\ x \notin DOMAIN home
  BY DEF TablesKeepTheirRows, RowsOf
<1>2. x \notin DOMAIN link' /\ x \notin DOMAIN home'
  BY DEF TablesKeepTheirRows, RowsOf
<1> QED
  BY <1>1, <1>2 DEF HomeOf

\* A row that moves under a call disturbs nothing the call was granted.
LEMMA RowsMoveElsewhere ==
  ASSUME McpInvariant, TablesKeepTheirRows', UNCHANGED request
  PROVE  McpInvariant'
<1> DEFINE r == request
<1>1. ASSUME r.stage \in Live PROVE LiveCall(r)'
  <2>1. LiveCall(r) /\ Recorded(r)' /\ Permitted(r)' /\ Granted(r)'
    BY <1>1 DEF McpInvariant, LiveCall, Recorded, Permitted, Granted, MayWrite, AnswerInScope
  <2>2. r.tool.names \notin {"none", "project"} => ClassOf[r.x] = r.tool.names
    BY <2>1, NamedRow DEF LiveCall, Recorded
  <2>3. r.tool.names \notin {"none", "project", "workspace", "ops"} => HomeOf(r.x)' = HomeOf(r.x)
    BY <2>2, SettledHome DEF McpInvariant
  <2>4. /\ r.tool.scope \in {"owned", "finding"} =>
             r.tool.names \notin {"none", "project", "workspace", "ops"}
        /\ HandlerOf(r.tool.name).check = "preview" => r.tool.names \in {"run", "doctor"}
    BY <2>1, ToolsAreRegistered, HandlerFits DEF LiveCall, Recorded, Registered, Fits
  <2>5. InItsScope(r)'
    BY <2>1, <2>3, <2>4 DEF LiveCall, InItsScope, ScopeHolds
  <2>6. Previewed(r)'
    BY <2>1, <2>3, <2>4 DEF LiveCall, Previewed
  <2> QED
    BY <2>1, <2>5, <2>6 DEF LiveCall
<1>2. AnswersStayInScope' /\ WritesStayInScope'
  BY DEF McpInvariant, AnswersStayInScope, WritesStayInScope
<1> QED
  BY <1>1, <1>2 DEF McpInvariant

\* Another process moves a row.
LEMMA RowsMove ==
  ASSUME McpInvariant,
         \/ \E w \in DOMAIN link, y \in RowsOf("hitch") \cup {NoRow} : RelinkElsewhere(w, y)
         \/ \E e \in RowsOf("ops"), x \in RowsOf("project") \cup {NoRow} :
               RecordElsewhere(e, ResolveFromArgs(x))
  PROVE  McpInvariant'
<1>1. UNCHANGED request /\ TablesKeepTheirRows'
  BY DEF RelinkElsewhere, RecordElsewhere, McpInvariant, TablesKeepTheirRows
<1> QED
  BY <1>1, RowsMoveElsewhere

\* Each stage of a call keeps what the permission layer and its handler granted
\* it, whatever moves meanwhile (mcp/server.ts, callTool).
THEOREM McpInvariantHolds == McpSpec => []McpInvariant
<1>1. McpInit => McpInvariant
  BY McpAssumption DEF McpInit, McpInvariant, TablesKeepTheirRows, NoRequest, Live,
     AnswersStayInScope, WritesStayInScope
<1>2. ASSUME McpInvariant, [McpNext]_mcpVars PROVE McpInvariant'
  <2>1. CASE /\ request.stage = "idle"
             /\ \E c \in Clients, t \in McpToolDefinitions :
                  \/ \E x \in FirstArguments(t), y \in SecondArguments(t) : CallTool(c, t, x, y)
                  \/ \E x \in FirstArguments(t) : ReadResource(c, t, x)
                  \/ RateLimited(c, t)
    <3>1. PICK c \in Clients, t \in McpToolDefinitions :
                  \/ \E x \in FirstArguments(t), y \in SecondArguments(t) : CallTool(c, t, x, y)
                  \/ \E x \in FirstArguments(t) : ReadResource(c, t, x)
                  \/ RateLimited(c, t)
      BY <2>1
    <3>2. CASE \E x \in FirstArguments(t), y \in SecondArguments(t) : CallTool(c, t, x, y)
      BY <1>2, <3>2, McpCallStep
    <3>3. CASE \E x \in FirstArguments(t) : ReadResource(c, t, x)
      BY <1>2, <3>3, ResourceStep
    <3>4. CASE RateLimited(c, t)
      <4>1. TablesKeepTheirRows'
        BY <1>2, <3>4, NothingMoves DEF RateLimited
      <4> QED
        BY <3>4, <4>1, AnswersKeepIt DEF RateLimited
    <3> QED
      BY <3>1, <3>2, <3>3, <3>4
  <2>2. CASE HandleCall
    BY <1>2, <2>2, HandleStep
  <2>3. CASE WriteAuthorized
    BY <1>2, <2>3, WriteStep
  <2>4. CASE WorkspaceRecover \/ WorkspaceAnswer
    BY <1>2, <2>4, GitStep
  <2>5. CASE ConfirmMcpRequest
    BY <1>2, <2>5, ConfirmStep
  <2>6. CASE Deliver
    BY <1>2, <2>6, DeliverStep
  <2>7. CASE \/ \E w \in DOMAIN link, y \in RowsOf("hitch") \cup {NoRow} : RelinkElsewhere(w, y)
             \/ \E e \in RowsOf("ops"), x \in RowsOf("project") \cup {NoRow} :
                   RecordElsewhere(e, ResolveFromArgs(x))
    BY <1>2, <2>7, RowsMove
  <2>8. CASE UNCHANGED mcpVars
    <3>1. UNCHANGED request /\ TablesKeepTheirRows'
      BY <1>2, <2>8 DEF mcpVars, McpInvariant, TablesKeepTheirRows
    <3> QED
      BY <1>2, <3>1, RowsMoveElsewhere
  <2> QED
    BY <1>2, <2>1, <2>2, <2>3, <2>4, <2>5, <2>6, <2>7, <2>8 DEF McpNext
<1> QED
  BY <1>1, <1>2, PTL DEF McpSpec

\* No answer of the MCP server shows a restricted client a row outside its
\* projects, for any configuration and any rows (ensureProjectVisible).
THEOREM AnswersAreScoped == McpSpec => []AnswersStayInScope
<1>1. McpInvariant => AnswersStayInScope
  BY DEF McpInvariant
<1> QED
  BY <1>1, McpInvariantHolds, PTL

\* No call writes without guarded-mutation mode and a confirmation or an
\* allowlisted operation, nor outside the projects of its client, for any
\* configuration and any rows (decideMcpPermission and the handlers).
THEOREM WritesAreScoped == McpSpec => []WritesStayInScope
<1>1. McpInvariant => WritesStayInScope
  BY DEF McpInvariant
<1> QED
  BY <1>1, McpInvariantHolds, PTL

-----------------------------------------------------------------------------
(* The commands on agents' workspaces.                                      *)

(* A worktree is a branch and what is dirty in it; only an absent one has   *)
(* the branch "absent".                                                     *)
TreesOK ==
  /\ DOMAIN trees = WsPaths
  /\ \A p \in WsPaths : /\ trees[p] = [branch |-> trees[p].branch, dirty |-> trees[p].dirty]
                        /\ trees[p].branch = "absent" => trees[p] = Absent

(* An agent has at most one row.                                            *)
OneRowEach(rows) ==
  DOMAIN rows = WsAgents /\ \A a \in WsAgents : \A r, s \in rows[a] : r = s

Watching == {"status", "conflicts"}

Shaped(c) ==
  c = [op |-> c.op, at |-> c.at, agent |-> c.agent, rows |-> c.rows, todo |-> c.todo,
       lines |-> c.lines, read |-> c.read, target |-> c.target, steps |-> c.steps]

CommandOK ==
  /\ Shaped(cmd)
  /\ cmd.op \in Watching =>
       cmd.at \in {"reconcile", "inspect", "inspect-second", "answered", "failed"}
  /\ cmd.op = "status" /\ cmd.at # "failed" => OneRowEach(cmd.rows)

(* A change that is followed was listed, is still to be read in its tree,   *)
(* or has been reported; between the two reads of its tree it was seen by   *)
(* the first one or will be by the second.                                  *)
WasListed(c) == \E w \in ReconcileLive(cmd.rows) : w.path = c[1]

ToBeRead(w, c) == w.path = c[1] /\ w.branch = trees[c[1]].branch

Reported(c) == \E l \in cmd.lines : l.ws.path = c[1] /\ c[2] \in l.files

ChangeIsFollowed(c) ==
  /\ c \in WsPaths \X SourceFiles /\ c[2] \in Changed(c[1])
  /\ cmd.at = "reconcile" => WasListed(c)
  /\ cmd.at \in {"inspect", "inspect-second"} =>
       Reported(c) \/ \E w \in cmd.todo : ToBeRead(w, c)
  /\ cmd.at = "inspect-second" =>
       \A w \in cmd.target :
          ToBeRead(w, c) => c[2] \in cmd.read \cup CommittedSinceBase(w.branch)
  /\ cmd.at = "answered" => Reported(c)

ChangesAreFollowed == cmd.op = "conflicts" => \A c \in steady : ChangeIsFollowed(c)

WorkspacesInv == TreesOK /\ DOMAIN ahead = WsBranches /\ OneRowEach(wsRows)
                   /\ CommandOK /\ ChangesAreFollowed

-----------------------------------------------------------------------------
(* git and the agents.                                                      *)

\* git worktree add makes a worktree on a branch.
LEMMA AddKeepsTrees ==
  ASSUME TreesOK, NEW p, NEW b, WorktreeAdd(p, b)
  PROVE  TreesOK'
<1>1. ASSUME p \in WsPaths PROVE b # "absent"
  BY <1>1 DEF WorktreeAdd, CheckedOut, Absent
<1> QED
  BY <1>1 DEF TreesOK, WorktreeAdd, Absent

\* A worktree that is gone.
LEMMA DropKeepsTrees ==
  ASSUME TreesOK, NEW p, trees' = [trees EXCEPT ![p] = Absent]
  PROVE  TreesOK'
BY DEF TreesOK, Absent

\* A step of the agents keeps what is followed: a change that stays steady
\* stays on its branch, and what was committed stays committed.
LEMMA GitMoves ==
  ASSUME WorkspacesInv, TreesOK', DOMAIN ahead' = WsBranches, UNCHANGED <<wsRows, cmd>>,
         \A c \in steady' : /\ c \in steady
                            /\ c[2] \in Changed(c[1]) => c[2] \in Changed(c[1])'
                            /\ trees'[c[1]].branch = trees[c[1]].branch
                            /\ c[2] \in CommittedSinceBase(trees[c[1]].branch) =>
                                 c[2] \in CommittedSinceBase(trees[c[1]].branch)'
  PROVE  WorkspacesInv'
<1>1. OneRowEach(wsRows)' /\ CommandOK'
  BY DEF WorkspacesInv, OneRowEach, CommandOK
<1>2. ASSUME cmd'.op = "conflicts", NEW c \in steady' PROVE ChangeIsFollowed(c)'
  <2>1. ChangeIsFollowed(c)
    BY <1>2 DEF WorkspacesInv, ChangesAreFollowed
  <2>2. c[1] \in WsPaths /\ trees'[c[1]].branch = trees[c[1]].branch
    BY <1>2, <2>1 DEF ChangeIsFollowed
  <2>3. WasListed(c) => WasListed(c)'
    <3>1. HAVE WasListed(c)
    <3>2. PICK w \in ReconcileLive(cmd.rows) : w.path = c[1]
      BY <3>1 DEF WasListed
    <3>3. PICK p \in ListWorktrees : trees[p].branch # "detached"
             /\ \E a \in ReconcileAgent(cmd.rows, p) :
                  w = [path |-> p, branch |-> trees[p].branch, agent |-> a]
      BY <3>2 DEF ReconcileLive
    <3>4. p = c[1]
      BY <3>2, <3>3
    <3>5. p \in ListWorktrees' /\ trees'[p].branch = trees[p].branch
      <4>1. p \in WsPaths /\ trees[p].branch # "absent"
        BY <3>3 DEF WorkspacesInv, TreesOK, ListWorktrees
      <4> QED
        BY <2>2, <3>4, <4>1 DEF ListWorktrees, Absent
    <3>6. \A a : a \in ReconcileAgent(cmd.rows, p) <=> a \in ReconcileAgent(cmd.rows, p)'
      BY <3>5 DEF ReconcileAgent, AgentNameFromBranch, RecordByPath
    <3>7. w \in ReconcileLive(cmd.rows)'
      BY <3>3, <3>5, <3>6 DEF ReconcileLive
    <3> QED
      BY <3>2, <3>7 DEF WasListed
  <2>4. /\ Reported(c)' <=> Reported(c)
        /\ \A w : ToBeRead(w, c)' <=> ToBeRead(w, c)
    BY <2>2 DEF Reported, ToBeRead
  <2>5. ASSUME cmd.at = "inspect-second", NEW w \in cmd.target, ToBeRead(w, c)
        PROVE  c[2] \in (cmd.read \cup CommittedSinceBase(w.branch))'
    BY <1>2, <2>1, <2>5 DEF ChangeIsFollowed, ToBeRead, CommittedSinceBase
  <2> QED
    BY <1>2, <2>1, <2>3, <2>4, <2>5 DEF ChangeIsFollowed
<1> QED
  BY <1>1, <1>2 DEF WorkspacesInv, ChangesAreFollowed


\* A row that is written is the only one of its agent.
LEMMA UpsertKeepsRows ==
  ASSUME NEW rows, OneRowEach(rows), NEW a, NEW ws
  PROVE  OneRowEach(Upsert(rows, a, ws))
BY DEF OneRowEach, Upsert

\* Linking a hitch adds no row.
LEMMA LinkKeepsRows ==
  ASSUME NEW rows, OneRowEach(rows), NEW a, NEW h
  PROVE  OneRowEach(LinkHitch(rows, a, h))
BY DEF OneRowEach, LinkHitch

\* Rows may change under a command: it works with those it read.
LEMMA RowsChange ==
  ASSUME WorkspacesInv, OneRowEach(wsRows)', UNCHANGED <<gitVars, cmd, steady>>
  PROVE  WorkspacesInv'
<1>1. TreesOK' /\ DOMAIN ahead' = WsBranches /\ CommandOK'
  BY DEF WorkspacesInv, TreesOK, CommandOK, OneRowEach, gitVars
<1>2. ASSUME NEW c, ChangeIsFollowed(c) PROVE ChangeIsFollowed(c)'
  BY <1>2 DEF ChangeIsFollowed, gitVars, WasListed, ReconcileLive, ReconcileAgent,
     RecordByPath, AgentNameFromBranch, ListWorktrees, Reported, ToBeRead, Changed, CommittedSinceBase
<1> QED
  BY <1>1, <1>2 DEF WorkspacesInv, ChangesAreFollowed

\* What the agents and the orchestrators do beside the harness command.
LEMMA AgentStep ==
  ASSUME WorkspacesInv, AgentsNext
  PROVE  WorkspacesInv'
<1> USE DEF WorkspacesInv
<1>1. ASSUME NEW p \in WsPaths, NEW f \in SourceFiles, AgentEdits(p, f) PROVE WorkspacesInv'
  <2>1. TreesOK'
    BY <1>1 DEF AgentEdits, TreesOK, ListWorktrees
  <2>2. UNCHANGED <<wsRows, cmd, ahead, baseFound>> /\ KeepSteady
    BY <1>1 DEF AgentEdits
  <2> QED
    BY <2>1, <2>2, GitMoves DEF KeepSteady, CommittedSinceBase
<1>2. ASSUME NEW p \in WsPaths, AgentCommits(p) PROVE WorkspacesInv'
  <2>1. TreesOK' /\ DOMAIN ahead' = WsBranches
    BY <1>2 DEF AgentCommits, TreesOK, ListWorktrees, Absent
  <2>2. UNCHANGED <<wsRows, cmd, baseFound>> /\ KeepSteady
    BY <1>2 DEF AgentCommits
  <2>3. \A b \in WsBranches : ahead[b] \subseteq ahead'[b]
    BY <1>2 DEF AgentCommits
  <2> QED
    BY <2>1, <2>2, <2>3, GitMoves DEF KeepSteady, CommittedSinceBase
<1>3. ASSUME NEW p \in WsPaths, UserDropsTree(p) PROVE WorkspacesInv'
  <2>1. TreesOK'
    BY <1>3, DropKeepsTrees DEF UserDropsTree
  <2>2. UNCHANGED <<wsRows, cmd, ahead, baseFound>> /\ KeepSteady
    BY <1>3 DEF UserDropsTree
  <2> QED
    BY <2>1, <2>2, GitMoves DEF KeepSteady, CommittedSinceBase
<1>4. ASSUME NEW p \in WsPaths, NEW b \in WsBranches \cup {"detached"}, AgentSwitches(p, b)
      PROVE  WorkspacesInv'
  <2>1. TreesOK'
    BY <1>4, WorkspacesAssumption DEF AgentSwitches, TreesOK, ListWorktrees
  <2>2. UNCHANGED <<wsRows, cmd, ahead, baseFound>> /\ KeepSteady
    BY <1>4 DEF AgentSwitches
  <2> QED
    BY <2>1, <2>2, GitMoves DEF KeepSteady, CommittedSinceBase
<1>5. ASSUME NEW p \in WsPaths, NEW b \in WsBranches, UserAddsTree(p, b) PROVE WorkspacesInv'
  <2>1. TreesOK'
    BY <1>5, AddKeepsTrees DEF UserAddsTree
  <2>2. UNCHANGED <<wsRows, cmd, ahead, baseFound>> /\ KeepSteady
    BY <1>5 DEF UserAddsTree
  <2> QED
    BY <2>1, <2>2, GitMoves DEF KeepSteady, CommittedSinceBase
<1>6. ASSUME NEW b \in WsBranches, BranchMerged(b) PROVE WorkspacesInv'
  <2>1. TreesOK' /\ DOMAIN ahead' = WsBranches /\ UNCHANGED <<trees, wsRows, cmd, baseFound>>
    BY <1>6 DEF BranchMerged, TreesOK
  <2>2. /\ steady' = {c \in steady : trees[c[1]].branch = b => c[2] \notin ahead[b]}
        /\ \A d \in WsBranches \ {b} : ahead'[d] = ahead[d]
    BY <1>6 DEF BranchMerged
  <2>3. \A c \in steady' :
             /\ c \in steady
             /\ c[2] \in CommittedSinceBase(trees[c[1]].branch) =>
                  c[2] \in CommittedSinceBase(trees[c[1]].branch)'
    BY <2>1, <2>2 DEF CommittedSinceBase
  <2>4. \A c \in steady' : c[2] \in Changed(c[1]) => c[2] \in Changed(c[1])'
    BY <2>1, <2>3 DEF Changed
  <2> QED
    BY <2>1, <2>3, <2>4, GitMoves
<1>7. ASSUME NEW p \in WsPaths, NEW h \in LinkedHitches, LinkAgentWorkspaceToHitch(p, h)
      PROVE  WorkspacesInv'
  <2>1. PICK a \in ReconcileAgent(wsRows, p) :
           wsRows' = LinkHitch(Upsert(wsRows, a, [path |-> p]), a, h)
    BY <1>7 DEF LinkAgentWorkspaceToHitch
  <2>2. OneRowEach(wsRows)'
    BY <2>1, UpsertKeepsRows, LinkKeepsRows
  <2> QED
    BY <1>7, <2>2, RowsChange DEF LinkAgentWorkspaceToHitch
<1> QED
  BY <1>1, <1>2, <1>3, <1>4, <1>5, <1>6, <1>7 DEF AgentsNext


-----------------------------------------------------------------------------
(* The commands.                                                            *)

\* A command that neither of the two properties is about.
LEMMA OtherCommands ==
  ASSUME TreesOK', DOMAIN ahead' = WsBranches, OneRowEach(wsRows)', Shaped(cmd'),
         cmd'.op \notin Watching
  PROVE  WorkspacesInv'
BY DEF WorkspacesInv, CommandOK, ChangesAreFollowed, Watching

\* A command that fails reports nothing.
LEMMA Refusals ==
  ASSUME WorkspacesInv, Refused(cmd), UNCHANGED <<gitVars, wsRows, steady>>
  PROVE  WorkspacesInv'
<1>1. /\ Shaped(cmd') /\ cmd'.op = cmd.op /\ cmd'.at = "failed"
      /\ TreesOK' /\ DOMAIN ahead' = WsBranches /\ OneRowEach(wsRows)'
  BY DEF Refused, IdleCmd, Shaped, WorkspacesInv, TreesOK, OneRowEach, gitVars
<1>2. ASSUME NEW c, ChangeIsFollowed(c) PROVE ChangeIsFollowed(c)'
  BY <1>1, <1>2 DEF ChangeIsFollowed, gitVars, Changed, CommittedSinceBase
<1> QED
  BY <1>1, <1>2 DEF WorkspacesInv, CommandOK, ChangesAreFollowed, Watching

\* The steps of the commands that write, and of those that read nothing more.
LEMMA WriterStep ==
  ASSUME WorkspacesInv,
         \/ \E a \in WsAgents : Begin("create", a, "create-list") \/ Begin("adopt", a, "adopt-list")
         \/ Begin("verify", "none", "verify") \/ Begin("verify", "none", "verify-rm")
         \/ CreateList \/ CreateBranchExists \/ CreateAdd \/ CreateAddFails
         \/ CreateRelist \/ CreateUpsert
         \/ \E p \in WsPaths : AdoptList(p)
         \/ AdoptRows \/ VerifyPr \/ RemoveDetachedWorktree
         \/ \E hs \in {{}} \cup {{h} : h \in LinkedHitches} : Checkpoint(hs)
         \/ Recover \/ RemoveRow \/ CommandEnds
         \/ \E force \in BOOLEAN : RemoveTree(force)
         \/ \E keepBranch \in BOOLEAN : RemoveBranch(keepBranch)
  PROVE  WorkspacesInv'
<1> USE DEF WorkspacesInv
<1>1. Shaped(cmd) /\ OneRowEach(wsRows)
  BY DEF CommandOK
<1>2. cmd.at \notin {"reconcile", "inspect", "inspect-second", "answered", "failed"} =>
        cmd.op \notin Watching
  BY DEF CommandOK
<1>3. UNCHANGED gitVars => TreesOK' /\ DOMAIN ahead' = WsBranches
  BY DEF gitVars, TreesOK
<1>4. UNCHANGED wsRows => OneRowEach(wsRows)'
  BY DEF OneRowEach
<1>5. CASE \/ \E a \in WsAgents : Begin("create", a, "create-list") \/ Begin("adopt", a, "adopt-list")
           \/ Begin("verify", "none", "verify") \/ Begin("verify", "none", "verify-rm")
  <2>1. Shaped(cmd') /\ cmd'.op \notin Watching /\ UNCHANGED <<gitVars, wsRows>>
    BY <1>5 DEF Begin, IdleCmd, Shaped, Watching
  <2> QED
    BY <1>3, <1>4, <2>1, OtherCommands
<1>6. CASE CreateList \/ CreateBranchExists \/ CreateAddFails \/ CreateRelist
           \/ (\E p \in WsPaths : AdoptList(p))
  <2>1. cmd.op \notin Watching /\ UNCHANGED <<gitVars, wsRows>>
    BY <1>2, <1>6 DEF CreateList, CreateBranchExists, CreateAddFails, CreateRelist, AdoptList
  <2>2. Shaped(cmd') /\ cmd'.op = cmd.op
    BY <1>1, <1>6 DEF CreateList, CreateBranchExists, CreateAddFails, CreateRelist, AdoptList,
       Refused, IdleCmd, Shaped
  <2> QED
    BY <1>3, <1>4, <2>1, <2>2, OtherCommands
<1>7. CASE CreateAdd
  <2>1. cmd.op \notin Watching /\ Shaped(cmd') /\ cmd'.op = cmd.op
    BY <1>1, <1>2, <1>7 DEF CreateAdd, Shaped
  <2>2. TreesOK' /\ DOMAIN ahead' = WsBranches /\ UNCHANGED wsRows
    BY <1>7, AddKeepsTrees DEF CreateAdd
  <2> QED
    BY <1>4, <2>1, <2>2, OtherCommands
<1>8. CASE CreateUpsert \/ AdoptRows \/ (\E hs \in {{}} \cup {{h} : h \in LinkedHitches} : Checkpoint(hs))
           \/ RemoveRow
  <2>1. cmd.op \notin Watching /\ UNCHANGED gitVars
    BY <1>2, <1>8 DEF CreateUpsert, AdoptRows, Checkpoint, RemoveRow
  <2>2. Shaped(cmd') /\ cmd'.op = cmd.op
    BY <1>1, <1>8 DEF CreateUpsert, AdoptRows, Checkpoint, RemoveRow, Answered, Refused, IdleCmd, Shaped
  <2>3. OneRowEach(wsRows)'
    <3>1. CASE RemoveRow
      BY <1>1, <3>1 DEF RemoveRow, OneRowEach
    <3>2. CASE CreateUpsert \/ AdoptRows
      BY <1>1, <1>4, <3>2, UpsertKeepsRows DEF CreateUpsert, AdoptRows
    <3>3. ASSUME NEW hs \in {{}} \cup {{h} : h \in LinkedHitches}, Checkpoint(hs)
          PROVE  OneRowEach(wsRows)'
      BY <1>1, <3>3, UpsertKeepsRows, LinkKeepsRows DEF Checkpoint
    <3> QED
      BY <1>8, <3>1, <3>2, <3>3
  <2> QED
    BY <1>3, <2>1, <2>2, <2>3, OtherCommands
<1>9. CASE VerifyPr \/ RemoveDetachedWorktree
  <2>1. cmd.op \notin Watching /\ Shaped(cmd') /\ cmd'.op = cmd.op
    BY <1>1, <1>2, <1>9 DEF VerifyPr, RemoveDetachedWorktree, Answered, Refused, IdleCmd, Shaped
  <2>2. TreesOK' /\ DOMAIN ahead' = WsBranches /\ UNCHANGED wsRows
    <3>1. CASE UNCHANGED trees
      BY <1>9, <3>1 DEF VerifyPr, RemoveDetachedWorktree, TreesOK
    <3>2. CASE WorktreeAdd(VerifyPath, "detached")
      BY <1>9, <3>2, AddKeepsTrees DEF VerifyPr, RemoveDetachedWorktree
    <3>3. CASE trees' = [trees EXCEPT ![VerifyPath] = Absent]
      BY <1>9, <3>3, DropKeepsTrees DEF VerifyPr, RemoveDetachedWorktree
    <3> QED
      BY <1>9, <3>1, <3>2, <3>3 DEF VerifyPr, RemoveDetachedWorktree
  <2> QED
    BY <1>4, <2>1, <2>2, OtherCommands
<1>10. CASE Recover
  <2>1. cmd.op \notin Watching /\ UNCHANGED <<gitVars, wsRows>>
    BY <1>2, <1>10 DEF Recover
  <2>2. Shaped(cmd') /\ cmd'.op = cmd.op
    BY <1>1, <1>10 DEF Recover, Answered, Shaped
  <2> QED
    BY <1>3, <1>4, <2>1, <2>2, OtherCommands
<1>11. CASE CommandEnds
  <2>1. Shaped(cmd') /\ cmd'.op \notin Watching /\ UNCHANGED <<gitVars, wsRows>>
    BY <1>11 DEF CommandEnds, IdleCmd, Shaped, Watching
  <2> QED
    BY <1>3, <1>4, <2>1, OtherCommands
<1>12. ASSUME NEW force \in BOOLEAN, RemoveTree(force) PROVE WorkspacesInv'
  <2>1. cmd.op \notin Watching /\ Shaped(cmd') /\ cmd'.op = cmd.op
    BY <1>1, <1>2, <1>12 DEF RemoveTree, Refused, IdleCmd, Shaped
  <2>2. TreesOK' /\ DOMAIN ahead' = WsBranches /\ UNCHANGED wsRows
    <3>1. CASE UNCHANGED trees
      BY <1>12, <3>1 DEF RemoveTree, TreesOK
    <3>2. ASSUME NEW p, trees' = [trees EXCEPT ![p] = Absent] PROVE TreesOK'
      BY <3>2, DropKeepsTrees
    <3> QED
      BY <1>12, <3>1, <3>2 DEF RemoveTree
  <2> QED
    BY <1>4, <2>1, <2>2, OtherCommands
<1>13. ASSUME NEW keepBranch \in BOOLEAN, RemoveBranch(keepBranch) PROVE WorkspacesInv'
  <2>1. cmd.op \notin Watching /\ Shaped(cmd') /\ cmd'.op = cmd.op
    BY <1>1, <1>2, <1>13 DEF RemoveBranch, Shaped
  <2>2. TreesOK' /\ DOMAIN ahead' = WsBranches /\ UNCHANGED wsRows
    BY <1>13 DEF RemoveBranch, TreesOK
  <2> QED
    BY <1>4, <2>1, <2>2, OtherCommands
<1> QED
  BY <1>5, <1>6, <1>7, <1>8, <1>9, <1>10, <1>11, <1>12, <1>13


\* A step of a command that reads rows and worktrees, and writes nothing.
LEMMA ReaderStep ==
  ASSUME WorkspacesInv, UNCHANGED <<gitVars, wsRows>>, CommandOK',
         cmd'.op = "conflicts" => \A c \in steady' : ChangeIsFollowed(c)'
  PROVE  WorkspacesInv'
BY DEF WorkspacesInv, ChangesAreFollowed, gitVars, TreesOK, OneRowEach

\* What is read of git stays the same while a command takes its step.
LEMMA GitRests ==
  ASSUME UNCHANGED gitVars
  PROVE  \A c, w : /\ Changed(c[1])' = Changed(c[1])
                   /\ ToBeRead(w, c)' <=> ToBeRead(w, c)
                   /\ CommittedSinceBase(w.branch)' = CommittedSinceBase(w.branch)
BY DEF gitVars, Changed, ToBeRead, CommittedSinceBase

\* The rows are read, and the worktrees of `conflicts` are followed from here.
LEMMA RowsAreRead ==
  ASSUME WorkspacesInv, NEW op \in Readers, NEW a, ReadRows(op, a)
  PROVE  WorkspacesInv'
<1>1. /\ cmd' = [op |-> op, at |-> "reconcile", agent |-> a, rows |-> wsRows, todo |-> {},
                 lines |-> {}, read |-> {}, target |-> {}, steps |-> {}]
      /\ UNCHANGED <<gitVars, wsRows>>
  BY DEF ReadRows, IdleCmd
<1>2. CommandOK'
  <2>1. OneRowEach(wsRows)
    BY DEF WorkspacesInv
  <2> QED
    BY <1>1, <2>1 DEF CommandOK, Shaped, Watching, OneRowEach
<1>3. ASSUME op = "conflicts", NEW c \in steady' PROVE ChangeIsFollowed(c)'
  <2>1. /\ c \in WsPaths \X SourceFiles /\ c[2] \in Changed(c[1])
        /\ \E w \in ReconcileLive(wsRows) : w.path = c[1]
    BY <1>3 DEF ReadRows
  <2>2. ReconcileLive(wsRows) = ReconcileLive(cmd.rows)'
    BY <1>1 DEF gitVars, ReconcileLive, ReconcileAgent, RecordByPath, AgentNameFromBranch,
       ListWorktrees
  <2>3. Changed(c[1])' = Changed(c[1])
    BY <1>1, GitRests
  <2> QED
    BY <1>1, <2>1, <2>2, <2>3 DEF ChangeIsFollowed, WasListed
<1> QED
  BY <1>1, <1>2, <1>3, ReaderStep

\* Every worktree that was listed is to be read.
LEMMA WorktreesAreListed ==
  ASSUME WorkspacesInv, Reconcile
  PROVE  WorkspacesInv'
<1> DEFINE live == IF cmd.op \in OneAgent THEN ResolveLiveWorkspace(cmd.rows, cmd.agent)
                   ELSE ReconcileLive(cmd.rows)
<1>1. CASE Refused(cmd)
  BY <1>1, Refusals DEF Reconcile
<1>2. CASE cmd.op \notin Watching /\ ~Refused(cmd)
  <2>1. Shaped(cmd') /\ cmd'.op = cmd.op
    BY <1>2 DEF Reconcile, WorkspacesInv, CommandOK, Shaped, Answered
  <2> QED
    BY <1>2, <2>1, OtherCommands DEF Reconcile, WorkspacesInv, gitVars, TreesOK, OneRowEach
<1>3. CASE cmd.op \in Watching
  <2>1. /\ cmd' = [op |-> cmd.op, at |-> "inspect", agent |-> cmd.agent, rows |-> cmd.rows,
                   todo |-> ReconcileLive(cmd.rows), lines |-> cmd.lines, read |-> cmd.read,
                   target |-> cmd.target, steps |-> cmd.steps]
        /\ UNCHANGED <<gitVars, wsRows, steady>>
    BY <1>3 DEF Reconcile, Watching, OneAgent, WorkspacesInv, CommandOK, Shaped
  <2>2. CommandOK'
    BY <1>3, <2>1 DEF Reconcile, WorkspacesInv, CommandOK, Shaped, Watching, OneRowEach
  <2>3. ASSUME cmd.op = "conflicts", NEW c \in steady PROVE ChangeIsFollowed(c)'
    <3>1. ChangeIsFollowed(c) /\ cmd.at = "reconcile"
      BY <2>3 DEF WorkspacesInv, ChangesAreFollowed, Reconcile
    <3>2. PICK w \in ReconcileLive(cmd.rows) : w.path = c[1]
      BY <3>1 DEF ChangeIsFollowed, WasListed
    <3>3. ToBeRead(w, c)
      BY <3>2 DEF ToBeRead, ReconcileLive
    <3>4. w \in cmd'.todo /\ ToBeRead(w, c)'
      BY <2>1, <3>2, <3>3, GitRests
    <3>5. Changed(c[1])' = Changed(c[1])
      BY <2>1, GitRests
    <3> QED
      BY <2>1, <3>1, <3>4, <3>5 DEF ChangeIsFollowed
  <2> QED
    BY <2>1, <2>2, <2>3, ReaderStep
<1> QED
  BY <1>1, <1>2, <1>3

\* The first read of a worktree sees what is dirty; what it does not see is
\* committed, and stays so while the change is followed.
LEMMA TreeIsReadFirst ==
  ASSUME WorkspacesInv, InspectFirst
  PROVE  WorkspacesInv'
<1>1. PICK w \in cmd.todo :
        CASE w.path \in ListWorktrees ->
               cmd' = [cmd EXCEPT !.at = "inspect-second", !.target = {w},
                                  !.read = ReadTree("status", w)]
          [] w.path \notin ListWorktrees /\ cmd.op = "status" ->
               cmd' = [cmd EXCEPT !.todo = @ \ {w}]
          [] OTHER -> Refused(cmd)
  BY DEF InspectFirst, FirstOf, ReadOrder
<1>2. cmd.at = "inspect" /\ UNCHANGED <<gitVars, wsRows, steady>>
  BY DEF InspectFirst
<1>3. CASE w.path \in ListWorktrees
  <2>1. cmd' = [op |-> cmd.op, at |-> "inspect-second", agent |-> cmd.agent, rows |-> cmd.rows,
                todo |-> cmd.todo, lines |-> cmd.lines, read |-> trees[w.path].dirty,
                target |-> {w}, steps |-> cmd.steps]
    BY <1>1, <1>3 DEF ReadTree, WorkspacesInv, CommandOK, Shaped
  <2>2. CommandOK'
    BY <1>2, <2>1 DEF WorkspacesInv, CommandOK, Shaped, Watching, OneRowEach
  <2>3. ASSUME cmd.op = "conflicts", NEW c \in steady PROVE ChangeIsFollowed(c)'
    <3>1. ChangeIsFollowed(c)
      BY <2>3 DEF WorkspacesInv, ChangesAreFollowed
    <3>2. ToBeRead(w, c) => c[2] \in trees[w.path].dirty \cup CommittedSinceBase(w.branch)
      BY <3>1 DEF ChangeIsFollowed, ToBeRead, Changed
    <3>3. Reported(c)' <=> Reported(c)
      BY <2>1 DEF Reported
    <3>4. /\ Changed(c[1])' = Changed(c[1])
          /\ \A v : ToBeRead(v, c)' <=> ToBeRead(v, c)
          /\ CommittedSinceBase(w.branch)' = CommittedSinceBase(w.branch)
      BY <1>2, GitRests
    <3> QED
      BY <1>2, <2>1, <3>1, <3>2, <3>3, <3>4 DEF ChangeIsFollowed
  <2> QED
    BY <1>2, <2>1, <2>2, <2>3, ReaderStep
<1>4. CASE w.path \notin ListWorktrees /\ cmd.op = "status"
  <2>1. cmd' = [op |-> cmd.op, at |-> "inspect", agent |-> cmd.agent, rows |-> cmd.rows,
                todo |-> cmd.todo \ {w}, lines |-> cmd.lines, read |-> cmd.read,
                target |-> cmd.target, steps |-> cmd.steps]
    BY <1>1, <1>2, <1>4 DEF WorkspacesInv, CommandOK, Shaped
  <2>2. CommandOK'
    BY <1>2, <2>1 DEF WorkspacesInv, CommandOK, Shaped, Watching, OneRowEach
  <2> QED
    BY <1>2, <1>4, <2>1, <2>2, ReaderStep
<1>5. CASE Refused(cmd)
  BY <1>2, <1>5, Refusals
<1> QED
  BY <1>1, <1>3, <1>4, <1>5

\* After the second read the line of a worktree has what either of them saw.
LEMMA TreeIsReadSecond ==
  ASSUME WorkspacesInv, InspectSecond
  PROVE  WorkspacesInv'
<1> DEFINE line(w) ==
      [ws |-> w,
       files |-> IF cmd.op = "conflicts" THEN cmd.read \cup CommittedSinceBase(w.branch) ELSE cmd.read,
       ahead |-> cmd.op # "conflicts" /\ CommittedSinceBase(w.branch) # {}]
<1>1. PICK w \in cmd.target :
        \/ Refused(cmd)
        \/ cmd' = [cmd EXCEPT !.at = "inspect", !.todo = @ \ {w}, !.target = {},
                              !.read = {}, !.lines = @ \cup {line(w)}]
  BY DEF InspectSecond, ReadOrder, ReadTree
<1>2. cmd.at = "inspect-second" /\ UNCHANGED <<gitVars, wsRows, steady>>
  BY DEF InspectSecond
<1>3. CASE Refused(cmd)
  BY <1>2, <1>3, Refusals
<1>4. CASE cmd' = [cmd EXCEPT !.at = "inspect", !.todo = @ \ {w}, !.target = {},
                              !.read = {}, !.lines = @ \cup {line(w)}]
  <2>0. line(w).ws = w /\ (cmd.op = "conflicts" =>
                             line(w).files = cmd.read \cup CommittedSinceBase(w.branch))
    OBVIOUS
  <2> HIDE DEF line
  <2>1. cmd' = [op |-> cmd.op, at |-> "inspect", agent |-> cmd.agent, rows |-> cmd.rows,
                todo |-> cmd.todo \ {w}, lines |-> cmd.lines \cup {line(w)}, read |-> {},
                target |-> {}, steps |-> cmd.steps]
    BY <1>4 DEF WorkspacesInv, CommandOK, Shaped
  <2>2. CommandOK'
    BY <1>2, <2>1 DEF WorkspacesInv, CommandOK, Shaped, Watching, OneRowEach
  <2>3. ASSUME cmd.op = "conflicts", NEW c \in steady PROVE ChangeIsFollowed(c)'
    <3>1. ChangeIsFollowed(c)
      BY <2>3 DEF WorkspacesInv, ChangesAreFollowed
    <3>2. ToBeRead(w, c) => Reported(c)'
      BY <1>2, <2>0, <2>1, <2>3, <3>1 DEF ChangeIsFollowed, ToBeRead, Reported
    <3>3. Reported(c) => Reported(c)'
      BY <2>1 DEF Reported
    <3>4. /\ Changed(c[1])' = Changed(c[1])
          /\ \A v : ToBeRead(v, c)' <=> ToBeRead(v, c)
      BY <1>2, GitRests
    <3>5. Reported(c)' \/ \E v \in cmd'.todo : ToBeRead(v, c)'
      BY <1>2, <2>1, <3>1, <3>2, <3>3, <3>4 DEF ChangeIsFollowed
    <3> QED
      BY <2>1, <3>1, <3>4, <3>5 DEF ChangeIsFollowed
  <2> QED
    BY <1>2, <2>1, <2>2, <2>3, ReaderStep
<1> QED
  BY <1>1, <1>3, <1>4

\* When no worktree is left to be read, what is followed has been reported.
LEMMA TreesAreRead ==
  ASSUME WorkspacesInv, InspectDone
  PROVE  WorkspacesInv'
<1>1. cmd.at = "inspect" /\ cmd.todo = {} /\ UNCHANGED <<gitVars, wsRows, steady>>
  BY DEF InspectDone
<1>2. CASE cmd.op \in {"checkpoint", "recover"}
  <2>1. Shaped(cmd') /\ cmd'.op = cmd.op
    BY <1>2 DEF InspectDone, WorkspacesInv, CommandOK, Shaped
  <2> QED
    BY <1>1, <1>2, <2>1, OtherCommands DEF WorkspacesInv, gitVars, TreesOK, OneRowEach, Watching
<1>3. CASE cmd.op \notin {"checkpoint", "recover"}
  <2>1. cmd' = [op |-> cmd.op, at |-> "answered", agent |-> cmd.agent, rows |-> cmd.rows,
                todo |-> cmd.todo, lines |-> cmd.lines, read |-> cmd.read,
                target |-> cmd.target, steps |-> cmd.steps]
    BY <1>3 DEF InspectDone, Answered, WorkspacesInv, CommandOK, Shaped
  <2>2. CommandOK'
    BY <1>1, <2>1 DEF WorkspacesInv, CommandOK, Shaped, Watching, OneRowEach
  <2>3. ASSUME cmd.op = "conflicts", NEW c \in steady PROVE ChangeIsFollowed(c)'
    <3>1. ChangeIsFollowed(c)
      BY <2>3 DEF WorkspacesInv, ChangesAreFollowed
    <3>2. Reported(c)'
      BY <1>1, <2>1, <3>1 DEF ChangeIsFollowed, Reported
    <3>3. Changed(c[1])' = Changed(c[1])
      BY <1>1, GitRests
    <3> QED
      BY <2>1, <3>1, <3>2, <3>3 DEF ChangeIsFollowed
  <2> QED
    BY <1>1, <2>1, <2>2, <2>3, ReaderStep
<1> QED
  BY <1>2, <1>3

-----------------------------------------------------------------------------
(* The theorems.                                                            *)

\* Worktrees, rows and the command at work fit one another through every git
\* command of an agent and every step of a harness command.
THEOREM WorkspacesInvariant == WorkspacesSpec => []WorkspacesInv
<1>1. WorkspacesInit => WorkspacesInv
  BY DEF WorkspacesInit, WorkspacesInv, TreesOK, OneRowEach, CommandOK, Shaped, Watching,
     ChangesAreFollowed, IdleCmd, Absent
<1>2. ASSUME WorkspacesInv, [WorkspacesNext]_workspaceVars PROVE WorkspacesInv'
  <2>1. CASE AgentsNext
    BY <1>2, <2>1, AgentStep
  <2>2. CASE CommandNext
    <3>1. ASSUME NEW op \in Readers, NEW a, ReadRows(op, a) PROVE WorkspacesInv'
      BY <1>2, <3>1, RowsAreRead
    <3>2. CASE Reconcile \/ InspectFirst \/ InspectSecond \/ InspectDone
      BY <1>2, <3>2, WorktreesAreListed, TreeIsReadFirst, TreeIsReadSecond, TreesAreRead
    <3> QED
      BY <1>2, <2>2, <3>1, <3>2, WriterStep DEF CommandNext
  <2>3. CASE UNCHANGED workspaceVars
    <3>1. UNCHANGED <<gitVars, cmd, steady, wsRows>> /\ OneRowEach(wsRows)'
      BY <1>2, <2>3 DEF workspaceVars, gitVars, WorkspacesInv, OneRowEach
    <3> QED
      BY <1>2, <3>1, RowsChange
  <2> QED
    BY <1>2, <2>1, <2>2, <2>3 DEF WorkspacesNext
<1> QED
  BY <1>1, <1>2, PTL DEF WorkspacesSpec

\* `workspace conflicts` reports what two worktrees had both changed all the
\* while, and `workspace status` shows a hitch only where it was recorded, for
\* any agents, worktrees, branches and files (cli/workspace.ts).
THEOREM AnswersAreTrue == WorkspacesSpec => []AnswersFitTheTrees
<1>1. ASSUME WorkspacesInv PROVE OverlapIsReported
  <2>1. SUFFICES ASSUME cmd.op = "conflicts", cmd.at = "answered", NEW c \in steady, NEW d \in steady,
                        c[1] # d[1], c[2] = d[2]
                 PROVE  \E x, y \in cmd.lines :
                           /\ x.ws.path = c[1] /\ y.ws.path = d[1]
                           /\ <<x.ws.agent, y.ws.agent, c[2]>> \in ConflictsAnswer
    BY DEF OverlapIsReported
  <2>2. Reported(c) /\ Reported(d) /\ c[2] \in SourceFiles
    BY <1>1, <2>1 DEF WorkspacesInv, ChangesAreFollowed, ChangeIsFollowed
  <2>3. PICK x \in cmd.lines : x.ws.path = c[1] /\ c[2] \in x.files
    BY <2>2 DEF Reported
  <2>4. PICK y \in cmd.lines : y.ws.path = d[1] /\ c[2] \in y.files
    BY <2>1, <2>2 DEF Reported
  <2>5. <<x, y, c[2]>> \in {u \in cmd.lines \X cmd.lines \X SourceFiles :
            u[1].ws.path # u[2].ws.path /\ u[3] \in u[1].files /\ u[3] \in u[2].files}
    BY <2>1, <2>2, <2>3, <2>4
  <2>6. <<x.ws.agent, y.ws.agent, c[2]>> \in ConflictsAnswer
    BY <2>5 DEF ConflictsAnswer, FindWorkspaceConflicts
  <2> QED
    BY <2>3, <2>4, <2>6
<1>2. ASSUME WorkspacesInv PROVE HitchShownAtItsPath
  <2>1. SUFFICES ASSUME cmd.op = "status", cmd.at = "answered", NEW l \in StatusLines,
                        NEW h \in l.hitch
                 PROVE  \E a \in WsAgents : \E r \in cmd.rows[a] : r.path = l.path /\ h \in r.hitch
    BY DEF HitchShownAtItsPath
  <2>2. OneRowEach(cmd.rows)
    BY <1>2, <2>1 DEF WorkspacesInv, CommandOK
  <2>3. CASE \E m \in cmd.lines : l.path = m.ws.path /\ l.hitch = UNION {r.hitch : r \in RowShown(cmd.rows, m.ws)}
    <3>1. PICK m \in cmd.lines :
             l.path = m.ws.path /\ l.hitch = UNION {r.hitch : r \in RowShown(cmd.rows, m.ws)}
      BY <2>3
    <3>2. PICK r \in RowShown(cmd.rows, m.ws) : h \in r.hitch
      BY <2>1, <3>1
    <3>3. PICK a \in RecordByPath(cmd.rows, m.ws.path) : r \in cmd.rows[a]
      BY <3>2 DEF RowShown
    <3>4. a \in WsAgents /\ \E s \in cmd.rows[a] : s.path = m.ws.path
      BY <3>3 DEF RecordByPath, WsAgents
    <3> QED
      BY <2>2, <3>1, <3>2, <3>3, <3>4 DEF OneRowEach
  <2>4. CASE \E a \in WsAgents : \E r \in cmd.rows[a] : l.path = r.path /\ l.hitch = r.hitch
    BY <2>1, <2>4
  <2> DEFINE hitches(m) == UNION {r.hitch : r \in RowShown(cmd.rows, m.ws)}
             label(m) == ProgressLabel(FALSE, DecisionOf(hitches(m)), m.files # {}, m.ahead)
             shown == {[path |-> m.ws.path, hitch |-> hitches(m), label |-> label(m)] : m \in cmd.lines}
             stale == ProgressLabel(TRUE, {}, FALSE, FALSE)
             rowLines(a) == {[path |-> r.path, hitch |-> r.hitch, label |-> stale] : r \in cmd.rows[a]}
  <2>5. l \in shown \/ \E a \in ReconcileStale(cmd.rows) : l \in rowLines(a)
    BY <2>1 DEF StatusLines
  <2>6. CASE l \in shown
    <3> HIDE DEF hitches, label
    <3>1. \E m \in cmd.lines : l.path = m.ws.path /\ l.hitch = hitches(m)
      BY <2>6
    <3> QED
      BY <2>3, <3>1 DEF hitches
  <2>7. CASE \E a \in ReconcileStale(cmd.rows) : l \in rowLines(a)
    <3>1. PICK a \in ReconcileStale(cmd.rows) : l \in rowLines(a)
      BY <2>7
    <3>2. a \in WsAgents
      BY <3>1 DEF ReconcileStale
    <3> HIDE DEF stale
    <3>3. \E r \in cmd.rows[a] : l.path = r.path /\ l.hitch = r.hitch
      BY <3>1
    <3> QED
      BY <2>4, <3>2, <3>3
  <2> QED
    BY <2>5, <2>6, <2>7
<1> QED
  BY <1>1, <1>2, WorkspacesInvariant, PTL DEF AnswersFitTheTrees
=============================================================================
