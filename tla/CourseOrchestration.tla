------------------------ MODULE CourseOrchestration ------------------------
(***************************************************************************)
(* Course orchestration (src/src/roadmap): `harness course orchestrate`    *)
(* and its MCP tool walk the phase tree of a course in pre-order and drive  *)
(* the hitches linked to each phase, under a lease of the course.           *)
(*                                                                         *)
(* Several invocations may run at once.  Each holds the course's lease, a   *)
(* FencedLock (implemented by DomainLock), extends it from a timer while a  *)
(* hitch is driven and is aborted when the lease turns out to be lost.  The *)
(* operator and other clients edit the course meanwhile: phase statuses,    *)
(* links, the lease itself; and other drivers move the hitches.             *)
(***************************************************************************)
EXTENDS FencedLock, Sequences, SequencesExt

CONSTANTS
    PreOrder,    \* the phases of the course in tree pre-order
    Depth,       \* depth of each phase in the tree
    Hitches,     \* hitch sessions
    Course,      \* the lease's domain key `course:<id>`
    MaxDriven,   \* --max-driven-hitches of each invocation, normalised
    InitialLinks,\* the links of the course the walks may start from
    Touched,     \* the phases and hitches the operator and others edit
    MaxEdits     \* bound on the number of their edits

Drivers == Clients
Phases == ToSet(PreOrder)

ASSUME CourseAssumption ==
    /\ Names = {Course}
    /\ MaxDriven \in [Drivers -> 1..10]
    /\ Depth \in [Phases -> Nat]

VARIABLES
    courseStatus,  \* courses.status
    phase,         \* phases.status, "absent" before the INSERT
    links,         \* phase_hitches of a phase, oldest link first
    decision,      \* class of the live convergence decision of a hitch
    walk,          \* one record per invocation of the orchestrator
    edits

rows == <<courseStatus, phase, links, decision>>
courseVars == <<fenceVars, rows, walk, edits>>

-----------------------------------------------------------------------------
(* What a convergence decision means to the course.                        *)

\* drivable: allowedByConvergence("hitch.orchestrate") holds; blocked: one of
\* BLOCKED_DECISIONS; ready: close_ready or closed without open P0/P1 findings
\* in scope; ready_open: closed over such findings; other: everything else.
Decisions == {"drivable", "blocked", "ready", "ready_open", "other"}

PhaseStatuses == {"pending", "in_progress", "closed", "blocked"}

Present(p) == phase[p] # "absent"

\* The phases of rollupCourse: the tree flattened in pre-order.
rollupCourse == SelectSeq(PreOrder, Present)

\* isLeafPhase: the next phase of the rollup is not deeper.
IsLeafPhase(rollup, i) ==
    i = Len(rollup) \/ Depth[rollup[i + 1]] <= Depth[rollup[i]]

Drivable(h) == decision[h] = "drivable"

DecideCoursePhaseAction(p, leaf) ==
    CASE phase[p] = "closed" -> "skip_closed"
      [] phase[p] = "blocked" -> "skip_blocked"
      [] links[p] = <<>> -> IF leaf THEN "needs_link" ELSE "container"
      [] \E h \in ToSet(links[p]) : decision[h] = "blocked" -> "blocked_hitch"
      [] \E h \in ToSet(links[p]) : Drivable(h) -> "drive"
      [] \A h \in ToSet(links[p]) : decision[h] = "ready" -> "ready_to_close"
      [] OTHER -> "report_only"

-----------------------------------------------------------------------------
(* Walks.                                                                  *)

\* A PhaseOutcome.  Of the actions the report tells apart, the walk itself
\* only looks at one.
Outcome(p, action) == [phase |-> p, blocked |-> action = "blocked_hitch"]

NoWalk == [pc |-> "idle", lockId |-> 0, rollup |-> <<>>, i |-> 1,
           todo |-> <<>>, driven |-> 0, phaseDriven |-> FALSE,
           subtreeBlocked |-> FALSE, aborted |-> FALSE, outcomes |-> <<>>, stop |-> "none",
           op |-> "none"]

Running(d) == walk[d].pc \notin {"idle", "stopped", "crashed"}

Current(d) == walk[d].rollup[walk[d].i]

\* `assertHeld` and the `EXISTS` guard of a status write.
LeaseHeldBy(d) == Holds(d, Course, walk[d].lockId)

\* What `heartbeat` and `release` match: the row is not released, expired or not.
RowIsMine(d) == owner[Course] = d /\ token[Course] = walk[d].lockId

\* The walk leaves the phase with this outcome and goes on to the next one.
Leave(w, action) ==
    [w EXCEPT !.pc = "phase", !.i = @ + 1, !.todo = <<>>, !.phaseDriven = FALSE,
              !.outcomes = Append(@, Outcome(w.rollup[w.i], action)),
              !.subtreeBlocked = @ \/ action = "blocked_hitch"]

Stop(w, reason) == [w EXCEPT !.pc = "release", !.stop = reason]

Set(d, w) == walk' = [walk EXCEPT ![d] = w]

\* run refuses a course that is not active (course_not_active).
RequireActive == courseStatus = "active"

Fail(w) == [w EXCEPT !.pc = "end", !.stop = "error"]

\* The command and the MCP tool record an operation, then the orchestrator
\* starts ...
StartOperation(d) ==
    /\ walk[d].pc = "idle"
    /\ \E w \in {[walk[d] EXCEPT !.pc = "acquire", !.op = "running"]} :
         Set(d, IF RequireActive THEN w ELSE Fail(w))
    /\ UNCHANGED <<fenceVars, rows, edits>>

\* ... and its end is recorded: succeeded with the result, or failed.
EndOperation(d) ==
    /\ walk[d].pc = "end"
    /\ Set(d, [NoWalk EXCEPT !.pc = "stopped",
                 !.op = IF walk[d].stop = "completed" THEN "succeeded" ELSE "failed"])
    /\ UNCHANGED <<fenceVars, rows, edits>>

AcquireLease(d) ==
    /\ walk[d].pc = "acquire"
    /\ Grant(d, Course)
    /\ Set(d, [walk[d] EXCEPT !.pc = "rollup", !.lockId = token'[Course]])
    /\ UNCHANGED <<rows, edits>>

LeaseBusy(d) ==
    /\ walk[d].pc = "acquire"
    /\ owner[Course] # Nobody /\ live[Course]
    /\ Set(d, Fail(walk[d]))
    /\ UNCHANGED <<fenceVars, rows, edits>>

RollUp(d) ==
    /\ walk[d].pc = "rollup"
    /\ Set(d, [walk[d] EXCEPT !.pc = "phase", !.rollup = rollupCourse])
    /\ UNCHANGED <<fenceVars, rows, edits>>

\* Mutant: a blocked subtree is forgotten at the next phase.
SubtreeBlockedForgets(w) == FALSE

\* A new root ends the isolation of the subtree before it.
SubtreeBlocked(w) == w.subtreeBlocked /\ Depth[w.rollup[w.i]] # 0

\* The head of the loop over the phases: one phase is dispatched.
DispatchPhase(d) ==
    /\ walk[d].pc = "phase" /\ walk[d].i <= Len(walk[d].rollup)
    /\ \E w \in {[walk[d] EXCEPT !.subtreeBlocked = SubtreeBlocked(walk[d])]} :
         \E action \in {DecideCoursePhaseAction(Current(d), IsLeafPhase(w.rollup, w.i))} :
           Set(d, CASE w.subtreeBlocked -> Leave(w, "blocked_subtree")
                    [] ~w.subtreeBlocked /\ action = "drive" ->
                         [w EXCEPT !.pc = "gate", !.todo = SelectSeq(links[Current(d)], Drivable)]
                    [] OTHER -> Leave(w, action))
    /\ UNCHANGED <<fenceVars, rows, edits>>

WalkCompletes(d) ==
    /\ walk[d].pc = "phase" /\ walk[d].i > Len(walk[d].rollup)
    /\ Set(d, Stop(walk[d], "completed"))
    /\ UNCHANGED <<fenceVars, rows, edits>>

\* Every hitch of the phase was handled.
FinishPhase(d) ==
    /\ walk[d].pc = "gate" /\ walk[d].todo = <<>>
    /\ Set(d, Leave(walk[d], IF walk[d].phaseDriven THEN "drive" ELSE "report_only"))
    /\ UNCHANGED <<fenceVars, rows, edits>>

\* The budget of driven hitches is used up: the remaining phases are reported
\* as not driven.
BudgetReached(d) ==
    /\ walk[d].pc = "gate" /\ walk[d].todo # <<>>
    /\ walk[d].driven >= MaxDriven[d]
    /\ \E w \in {Leave(walk[d],
                   IF walk[d].phaseDriven THEN "partially_driven" ELSE "not_driven")} :
         Set(d, Stop([w EXCEPT !.outcomes = @ \o
                        [k \in 1..(Len(w.rollup) - w.i + 1) |->
                           Outcome(w.rollup[w.i + k - 1], "not_driven")]],
                     "budget_reached"))
    /\ UNCHANGED <<fenceVars, rows, edits>>

\* Before each hitch: the phase's status is read again, the lease is extended
\* and the hitch is evaluated again.  A lost lease stops the walk.
DriveGate(d) ==
    /\ walk[d].pc = "gate" /\ walk[d].todo # <<>>
    /\ walk[d].driven < MaxDriven[d]
    /\ IF phase[Current(d)] \in {"blocked", "closed"}
         THEN /\ Set(d, Leave(walk[d], "skip_" \o phase[Current(d)]))
              /\ UNCHANGED fenceVars
         ELSE \/ /\ ~RowIsMine(d)
                 /\ Set(d, Stop(walk[d], "lease_lost"))
                 /\ UNCHANGED fenceVars
              \/ /\ Renew(d, Course, walk[d].lockId)
                 /\ Set(d, CASE decision[Head(walk[d].todo)] = "drivable" ->
                                  [walk[d] EXCEPT !.pc = "transition"]
                             [] decision[Head(walk[d].todo)] = "blocked" ->
                                  Leave(walk[d], "blocked_hitch")
                             [] OTHER -> [walk[d] EXCEPT !.todo = Tail(@)])
    /\ UNCHANGED <<rows, edits>>

Drive(w) == [w EXCEPT !.pc = "driving"]

\* transitionPhaseBeforeFirstDrive up to `assertHeld`.
BeforeFirstDrive(d) ==
    /\ walk[d].pc = "transition"
    /\ Set(d, CASE walk[d].phaseDriven -> Drive(walk[d])
                [] ~walk[d].phaseDriven /\ phase[Current(d)] \in {"blocked", "closed"} ->
                     Leave(walk[d], "skip_" \o phase[Current(d)])
                [] ~walk[d].phaseDriven /\ phase[Current(d)] = "in_progress" ->
                     Drive(walk[d])
                [] OTHER -> IF LeaseHeldBy(d)
                              THEN [walk[d] EXCEPT !.pc = "cas"]
                              ELSE Stop(walk[d], "lease_lost"))
    /\ UNCHANGED <<fenceVars, rows, edits>>

\* Mutant: the UPDATE has no `status IN (...)` and no lease guard.
TransitionStatusBlindly(d) ==
    /\ walk[d].pc = "cas"
    /\ phase' = [phase EXCEPT ![Current(d)] = "in_progress"]
    /\ Set(d, Drive(walk[d]))
    /\ UNCHANGED <<fenceVars, courseStatus, links, decision, edits>>

\* The guarded UPDATE, and the reread when it matched no row.
TransitionStatus(d) ==
    /\ walk[d].pc = "cas"
    /\ IF ~LeaseHeldBy(d)
         THEN Set(d, Stop(walk[d], "lease_lost")) /\ UNCHANGED phase
         ELSE IF phase[Current(d)] = "pending"
           THEN /\ phase' = [phase EXCEPT ![Current(d)] = "in_progress"]
                /\ Set(d, Drive(walk[d]))
           ELSE /\ Set(d, IF phase[Current(d)] \in {"blocked", "closed"}
                            THEN Leave(walk[d], "skip_" \o phase[Current(d)])
                            ELSE Drive(walk[d]))
                /\ UNCHANGED phase
    /\ UNCHANGED <<fenceVars, courseStatus, links, decision, edits>>

\* One step of the hitch's own orchestrator; it looks at the abort signal
\* between steps.
HitchStep(d) ==
    /\ walk[d].pc = "driving" /\ ~walk[d].aborted
    /\ \E x \in {"drivable", "blocked", "ready"} :
         decision' = [decision EXCEPT ![Head(walk[d].todo)] = x]
    /\ UNCHANGED <<fenceVars, courseStatus, phase, links, walk, edits>>

\* Mutant: the timer swallows the error of a lost lease.
HeartbeatTimerSilent(d) ==
    /\ walk[d].pc = "driving" /\ ~walk[d].aborted
    /\ IF RowIsMine(d) THEN Renew(d, Course, walk[d].lockId) ELSE UNCHANGED fenceVars
    /\ UNCHANGED <<rows, walk, edits>>

\* The setInterval of runWithLeaseHeartbeat: it extends the lease, or aborts
\* the drive and stops.
HeartbeatTimer(d) ==
    /\ walk[d].pc = "driving" /\ ~walk[d].aborted
    /\ \/ Renew(d, Course, walk[d].lockId) /\ UNCHANGED walk
       \/ /\ ~RowIsMine(d)
          /\ Set(d, [walk[d] EXCEPT !.aborted = TRUE])
          /\ UNCHANGED fenceVars
    /\ UNCHANGED <<rows, edits>>

\* The aborted drive settles; whatever it returned, the walk stops.
DriveAborted(d) ==
    /\ walk[d].pc = "driving" /\ walk[d].aborted
    /\ Set(d, Stop(walk[d], "lease_lost"))
    /\ UNCHANGED <<fenceVars, rows, edits>>

\* makeRunners throws: neither the hitch nor the course names a project, the
\* hitch has no domain, or its run cannot be prepared.
RunnersUnavailable(d) ==
    /\ walk[d].pc = "driving" /\ ~walk[d].aborted
    /\ Set(d, Stop(walk[d], "error"))
    /\ UNCHANGED <<fenceVars, rows, edits>>

\* The drive throws: a lease of a run was lost or busy, or anything else.
DriveThrows(d) ==
    /\ walk[d].pc = "driving" /\ ~walk[d].aborted
    /\ \E reason \in {"lease_lost", "lease_busy", "error"} :
         Set(d, Stop(walk[d], reason))
    /\ UNCHANGED <<fenceVars, rows, edits>>

\* The drive returns; an escalation, or a decision that still blocks the
\* hitch, isolates the subtree.
DriveReturns(d) ==
    /\ walk[d].pc = "driving" /\ ~walk[d].aborted
    /\ \E escalated \in BOOLEAN :
       \E w \in {[walk[d] EXCEPT !.driven = @ + 1, !.phaseDriven = TRUE]} :
         Set(d, IF escalated \/ decision[Head(w.todo)] = "blocked"
                  THEN Leave(w, "blocked_hitch")
                  ELSE [w EXCEPT !.pc = "gate", !.todo = Tail(@)])
    /\ UNCHANGED <<fenceVars, rows, edits>>

\* The finally block: release matches the row by lock_id and holder; the
\* result, if there is one, is returned.
ReleaseLease(d) ==
    /\ walk[d].pc = "release"
    /\ IF RowIsMine(d) THEN End(Course) ELSE UNCHANGED fenceVars
    /\ Set(d, [NoWalk EXCEPT !.pc = "end", !.op = "running",
                 !.stop = IF walk[d].stop \in {"completed", "budget_reached"}
                            THEN "completed" ELSE "error"])
    /\ UNCHANGED <<rows, edits>>

\* The process of the invocation dies; its lease stays until it lapses.
CrashDriver(d) ==
    /\ Running(d)
    /\ Set(d, [NoWalk EXCEPT !.pc = "crashed", !.op = walk[d].op])
    /\ UNCHANGED <<fenceVars, rows, edits>>

-----------------------------------------------------------------------------
(* The operator, other clients and the clock.                              *)

Edit == edits < MaxEdits /\ edits' = edits + 1

\* `phase update --status` and harness.phase.update: any status, any time.
SetStatus(p, s) ==
    /\ Edit /\ Present(p) /\ phase[p] # s
    /\ phase' = [phase EXCEPT ![p] = s]
    /\ UNCHANGED <<fenceVars, courseStatus, links, decision, walk>>

\* The parent must exist: the closest phase before p that is less deep.
AddPhase(p) ==
    /\ Edit /\ ~Present(p)
    /\ Depth[p] > 0 =>
         \E q \in Phases : Present(q) /\ Depth[q] = Depth[p] - 1
    /\ phase' = [phase EXCEPT ![p] = "pending"]
    /\ UNCHANGED <<fenceVars, courseStatus, links, decision, walk>>

\* `course pause`, `resume` and `close`.
SetCourseStatus(s) ==
    /\ Edit /\ courseStatus # s
    /\ courseStatus' = s
    /\ UNCHANGED <<fenceVars, phase, links, decision, walk>>

Linked(h) == \E p \in Phases : h \in ToSet(links[p])

\* linkHitch: hitch_id is the primary key, so a hitch has one phase.
LinkHitch(p, h) ==
    /\ Edit /\ Present(p) /\ ~Linked(h)
    /\ links' = [links EXCEPT ![p] = Append(@, h)]
    /\ UNCHANGED <<fenceVars, courseStatus, phase, decision, walk>>

UnlinkHitch(h) ==
    /\ Edit /\ Linked(h)
    /\ links' = [p \in Phases |-> SelectSeq(links[p], LAMBDA x : x # h)]
    /\ UNCHANGED <<fenceVars, courseStatus, phase, decision, walk>>

\* A hitch is moved by someone else: its own orchestrator or the operator.
HitchMoves(h, x) ==
    /\ Edit /\ decision[h] # x
    /\ decision' = [decision EXCEPT ![h] = x]
    /\ UNCHANGED <<fenceVars, courseStatus, phase, links, walk>>

\* `harness lock release` on the course's lease.
OperatorEndsLease ==
    /\ Edit /\ End(Course)
    /\ UNCHANGED <<rows, walk>>

LeaseLapses ==
    /\ owner[Course] # Nobody /\ live[Course]
    /\ Lapse({Course})
    /\ UNCHANGED <<rows, walk, edits>>

-----------------------------------------------------------------------------
CourseInit ==
    /\ FenceInit
    /\ courseStatus = "active"
    /\ links \in InitialLinks
    /\ phase = [p \in Phases |->
                 IF p = Last(PreOrder) /\ links[p] = <<>> THEN "absent" ELSE "pending"]
    /\ decision = [h \in Hitches |-> "drivable"]
    /\ walk = [d \in Drivers |-> NoWalk]
    /\ edits = 0

Walk(d) ==
    \/ StartOperation(d) \/ EndOperation(d) \/ RunnersUnavailable(d)
    \/ AcquireLease(d) \/ LeaseBusy(d) \/ RollUp(d)
    \/ DispatchPhase(d) \/ WalkCompletes(d) \/ FinishPhase(d)
    \/ BudgetReached(d) \/ DriveGate(d)
    \/ BeforeFirstDrive(d) \/ TransitionStatus(d)
    \/ DriveAborted(d) \/ DriveThrows(d) \/ DriveReturns(d) \/ ReleaseLease(d)

Edits ==
    \/ \E p \in Touched \cap Phases, s \in PhaseStatuses : SetStatus(p, s)
    \/ \E p \in Phases : AddPhase(p)
    \/ \E s \in {"active", "paused", "closed"} : SetCourseStatus(s)
    \/ \E p \in Phases, h \in Hitches : LinkHitch(p, h)
    \/ \E h \in Touched \cap Hitches : UnlinkHitch(h)
    \/ \E h \in Touched \cap Hitches, x \in Decisions : HitchMoves(h, x)
    \/ OperatorEndsLease

CourseNext ==
    \/ \E d \in Drivers : Walk(d)
    \/ \E d \in Drivers : HitchStep(d)
    \/ \E d \in Drivers : HeartbeatTimer(d)
    \/ \E d \in Drivers : CrashDriver(d)
    \/ Edits
    \/ LeaseLapses

\* A living process keeps its timer firing, and an aborted drive settles: the
\* coder process is killed and the hitch loop stops between steps.  Nothing
\* is assumed of a drive that is not aborted.
CourseFairness ==
    \A d \in Drivers : WF_courseVars(HeartbeatTimer(d)) /\ WF_courseVars(DriveAborted(d))

CourseSpec == CourseInit /\ [][CourseNext]_courseVars /\ CourseFairness

-----------------------------------------------------------------------------
(* Properties.                                                             *)

\* What the operator declared stands: a walk changes a phase only from pending
\* to in_progress and only under its own lease, however the status and the
\* lease moved between its checks and its UPDATE (transitionStatus).
DeclaredStatusStands ==
    [][\A d \in Drivers, p \in Phases :
         (walk'[d] # walk[d] /\ phase'[p] # phase[p]) =>
            /\ phase[p] = "pending" /\ phase'[p] = "in_progress"
            /\ LeaseHeldBy(d)]_courseVars

\* No walk writes late: the one that changes a phase has the last lease that
\* was ever granted, and every other walk, whatever it still remembers, an
\* earlier one or none (assertHeld and the EXISTS guard compare lock ids).
NewestLeaseWrites ==
    [][\A d \in Drivers, p \in Phases :
         (walk'[d] # walk[d] /\ phase'[p] # phase[p]) =>
            /\ walk[d].lockId = issued
            /\ \A e \in Drivers \ {d} : walk[e].lockId < issued]_courseVars

\* Subtree isolation: between a phase a walk reported with a blocked hitch and
\* one it drives, a new root of the tree begins, whether the hitch was blocked
\* at dispatch, at the gate, escalated or left blocked by its drive
\* (subtreeBlocked).
BlockedSubtreeRests ==
    \A d \in Drivers : \E w \in {walk[d]} :
        w.pc \in {"transition", "cas", "driving"} =>
            \A k \in 1..Len(w.outcomes) :
                w.outcomes[k].blocked =>
                    \E r \in (k + 1)..w.i : Depth[w.rollup[r]] = 0

\* A drive does not outlive the lease it runs under: when the row was ended or
\* taken over, the drive stops, however many steps the hitch has left
\* (runWithLeaseHeartbeat's abort).
LostDriveStops ==
    \A d \in Drivers :
        (walk[d].pc = "driving" /\ ~RowIsMine(d)) ~> (walk[d].pc # "driving")
=============================================================================
