---------------------------- MODULE RoadmapProofs ----------------------------
(***************************************************************************)
(* Proofs about the roadmap: the specification of a phase after a human    *)
(* ratified it (PhaseSpec), and the walks of `course orchestrate` over the *)
(* phase tree (CourseOrchestration).                                       *)
(***************************************************************************)
EXTENDS CourseOrchestration, PhaseSpec, TLAPS

-----------------------------------------------------------------------------
(* Ratified specifications.  The property is inductive, because the three  *)
(* comparisons of spec-gates.ts compose: what does not widen twice in a    *)
(* row does not widen, and nothing widens itself.                          *)

LEMMA WideningIsReflexive ==
    ASSUME NEW s
    PROVE  /\ ~IsScopeWidening(s.scope, s.scope)
           /\ ~CloseConditionsLoosenGate(s.condition, s.condition)
BY DEF IsScopeWidening, TargetFilesWiden, ArrayFieldWidens, ExcludedCategoriesWiden,
       CloseConditionsLoosenGate

LEMMA WideningIsTransitive ==
    ASSUME NEW a, NEW b, NEW c,
           ~IsScopeWidening(a, b), ~IsScopeWidening(b, c)
    PROVE  ~IsScopeWidening(a, c)
<1>1. ~TargetFilesWiden(a.files, c.files)
  BY DEF IsScopeWidening, TargetFilesWiden
<1>2. ~ArrayFieldWidens(a.operations, c.operations)
  BY DEF IsScopeWidening, ArrayFieldWidens
<1>3. ~ExcludedCategoriesWiden(a.excluded, c.excluded)
  BY DEF IsScopeWidening, ExcludedCategoriesWiden
<1>4. QED  BY <1>1, <1>2, <1>3 DEF IsScopeWidening

LEMMA LooseningIsTransitive ==
    ASSUME NEW a, NEW b, NEW c,
           ~CloseConditionsLoosenGate(a, b), ~CloseConditionsLoosenGate(b, c)
    PROVE  ~CloseConditionsLoosenGate(a, c)
BY DEF CloseConditionsLoosenGate

LEMMA UnflaggedStepTightens ==
    ASSUME NEW prev, NEW next, ~Loosens(prev, next, NoFlags)
    PROVE  /\ ~IsScopeWidening(prev.scope, next.scope)
           /\ ~CloseConditionsLoosenGate(prev.condition, next.condition)
BY DEF Loosens, NoFlags

\* Only updateSpec and recordSpecApproval touch what the property is about.
LEMMA SpecStep ==
    RatifiedSpecOnlyTightens /\ [PhaseNext]_specVars => RatifiedSpecOnlyTightens'
<1> SUFFICES ASSUME RatifiedSpecOnlyTightens, [PhaseNext]_specVars
             PROVE  RatifiedSpecOnlyTightens'
  OBVIOUS
<1>1. CASE UNCHANGED <<spec, approval, flagged>>
  BY <1>1 DEF RatifiedSpecOnlyTightens
<1>2. CASE RecordSpecApproval
  BY <1>2, WideningIsReflexive
     DEF RecordSpecApproval, PhaseSpecHash, RatifiedSpecOnlyTightens
<1>3. ASSUME NEW next, NEW flags, UpdateSpec(next, flags)
      PROVE  RatifiedSpecOnlyTightens'
  <2>1. SUFFICES ASSUME approval' # Undefined, ~flagged'
                 PROVE  /\ ~IsScopeWidening(approval'[1], spec'.scope)
                        /\ ~CloseConditionsLoosenGate(approval'[2], spec'.condition)
    BY DEF RatifiedSpecOnlyTightens
  <2>2. approval' = approval /\ spec' = next
    BY <1>3 DEF UpdateSpec
  <2>3. ~flagged /\ ~Loosens(spec, next, NoFlags)
    BY <1>3, <2>1 DEF UpdateSpec
  <2>4. /\ ~IsScopeWidening(approval[1], spec.scope)
        /\ ~CloseConditionsLoosenGate(approval[2], spec.condition)
    BY <2>1, <2>2, <2>3 DEF RatifiedSpecOnlyTightens
  <2>5. QED
    BY <2>2, <2>3, <2>4, UnflaggedStepTightens, WideningIsTransitive, LooseningIsTransitive
<1>4. CASE CliPhaseUpdate
  BY <1>1, <1>3, <1>4 DEF CliPhaseUpdate, PhaseUpdate, SetNote
<1>5. CASE CliPhaseRatify \/ \E c \in McpClients : PhaseRatifyTool(c)
  BY <1>2, <1>5 DEF CliPhaseRatify, PhaseRatifyTool
<1>6. CASE \/ CliPhaseLinkHitch \/ LinkInsert \/ CliPhaseStartHitch \/ CliPhaseUnlinkHitch
           \/ \E c \in McpClients : PhaseLinkHitchTool(c)
           \/ \E c \in McpClients : PhaseStartHitchTool(c)
  BY <1>1, <1>6
     DEF CliPhaseLinkHitch, CliPhaseStartHitch, CliPhaseUnlinkHitch, PhaseLinkHitchTool,
         PhaseStartHitchTool, LinkCheck, LinkInsert, StartHitch, UnlinkPhaseHitch
<1>7. QED  BY <1>1, <1>4, <1>5, <1>6 DEF PhaseNext, specVars

\* However many updates of single fields follow an approval, and whichever
\* hitches are linked, checked or started between them, the spec stays within
\* the approved one until a flag says otherwise (updateSpec,
\* recordSpecApproval).
THEOREM RatificationHolds == PhaseBehaviour => []RatifiedSpecOnlyTightens
<1>1. PhaseInit => RatifiedSpecOnlyTightens
  BY DEF PhaseInit, RatifiedSpecOnlyTightens
<1>2. QED  BY <1>1, SpecStep, PTL DEF PhaseBehaviour

-----------------------------------------------------------------------------
(* Walks.  A walk accounts for the phases it left: one outcome for each,   *)
(* and for each outcome with a blocked hitch either a root after it or the *)
(* flag that isolates the subtree.                                         *)

WalkFields == DOMAIN NoWalk

IsSeq(s) == s \in Seq(ToSet(s))

\* A tree begins after the k-th phase of the rollup, at the i-th at the latest.
RootBetween(w, k, i) == \E r \in (k + 1)..i : Depth[w.rollup[r]] = 0

BlockedBefore(w) == {k \in 1..(w.i - 1) : w.outcomes[k].blocked}

\* One outcome for every phase before the current one.
Accounted(w) ==
    /\ w.i \in Nat \ {0}
    /\ IsSeq(w.outcomes)
    /\ Len(w.outcomes) = w.i - 1

\* At the loop's head the flag or a root separates the walk from each blocked
\* phase; inside a phase only a root does, since the dispatch reset the flag.
WalkRests(w) ==
    /\ w.pc \in {"idle", "acquire", "rollup"} =>
          w.i = 1 /\ w.outcomes = <<>>
    /\ w.pc = "phase" =>
          /\ Accounted(w)
          /\ \A k \in BlockedBefore(w) : w.subtreeBlocked \/ RootBetween(w, k, w.i - 1)
    /\ w.pc \in {"gate", "transition", "cas", "driving"} =>
          /\ Accounted(w)
          /\ \A k \in BlockedBefore(w) : RootBetween(w, k, w.i)

WalkShapes ==
    /\ DOMAIN phase = Phases
    /\ DOMAIN walk = Drivers
    /\ \A d \in Drivers : DOMAIN walk[d] = WalkFields

CourseInv == WalkShapes /\ \A d \in Drivers : WalkRests(walk[d])

\* Nothing is assumed of what a report holds: a sequence of anything grows.
LEMMA AppendedSeq ==
    ASSUME NEW s, NEW e, IsSeq(s)
    PROVE  /\ IsSeq(Append(s, e))
           /\ Len(Append(s, e)) = Len(s) + 1
           /\ \A k \in 1..Len(s) : Append(s, e)[k] = s[k]
           /\ Append(s, e)[Len(s) + 1] = e
<1> DEFINE S == ToSet(s) \cup {e}
           t == Append(s, e)
<1>1. s \in Seq(S)
  <2>1. /\ Len(s) \in Nat /\ DOMAIN s = 1..Len(s)
        /\ \A k \in 1..Len(s) : s[k] \in ToSet(s)
    BY DEF IsSeq
  <2>2. s = [k \in 1..Len(s) |-> s[k]]
    BY <2>1 DEF IsSeq
  <2>3. QED  BY <2>1, <2>2
<1>2. /\ t \in Seq(S) /\ Len(t) = Len(s) + 1 /\ Len(s) \in Nat
      /\ \A k \in 1..Len(s) : t[k] = s[k]
      /\ t[Len(s) + 1] = e
  BY <1>1
<1> HIDE DEF t
<1>3. IsSeq(t)
  <2>1. DOMAIN t = 1..Len(t) /\ Len(t) \in Nat
    BY <1>2
  <2>2. \A k \in 1..Len(t) : t[k] \in ToSet(t)
    BY <2>1 DEF ToSet
  <2>3. t = [k \in 1..Len(t) |-> t[k]]
    BY <1>2, <2>1
  <2>4. QED  BY <2>1, <2>2, <2>3 DEF IsSeq
<1>4. QED  BY <1>2, <1>3 DEF t

\* Leaving a phase reports it, and a blocked hitch raises the flag.
LEMMA LeaveRests ==
    ASSUME NEW w, NEW action, DOMAIN w = WalkFields, Accounted(w),
           \A k \in BlockedBefore(w) : w.subtreeBlocked \/ RootBetween(w, k, w.i)
    PROVE  /\ DOMAIN Leave(w, action) = WalkFields
           /\ WalkRests(Leave(w, action))
<1> DEFINE v == Leave(w, action)
           e == Outcome(w.rollup[w.i], action)
<1>1. /\ DOMAIN v = WalkFields /\ v.pc = "phase" /\ v.i = w.i + 1
      /\ v.outcomes = Append(w.outcomes, e)
      /\ v.rollup = w.rollup
      /\ v.subtreeBlocked = (w.subtreeBlocked \/ action = "blocked_hitch")
  BY DEF Leave, WalkFields, NoWalk
<1> HIDE DEF v
<1>2. /\ IsSeq(v.outcomes) /\ Len(v.outcomes) = w.i
      /\ \A k \in 1..(w.i - 1) : v.outcomes[k] = w.outcomes[k]
      /\ v.outcomes[w.i] = e
  <2>1. IsSeq(w.outcomes) /\ Len(w.outcomes) = w.i - 1 /\ w.i \in Nat \ {0}
    BY DEF Accounted
  <2>2. Len(w.outcomes) + 1 = w.i
    BY <2>1
  <2>3. QED  BY <1>1, <2>1, <2>2, AppendedSeq
<1>3. Accounted(v)
  BY <1>1, <1>2 DEF Accounted
<1>4. ASSUME NEW k \in BlockedBefore(v)
      PROVE  v.subtreeBlocked \/ RootBetween(v, k, v.i - 1)
  <2>1. k \in 1..w.i /\ v.outcomes[k].blocked /\ v.i - 1 = w.i
    BY <1>1 DEF BlockedBefore, Accounted
  <2>2. CASE k = w.i
    <3>1. e.blocked
      BY <1>2, <2>1, <2>2
    <3>2. action = "blocked_hitch"
      BY <3>1 DEF Outcome
    <3>3. QED  BY <1>1, <3>2
  <2>3. CASE k # w.i
    <3>1. k \in BlockedBefore(w)
      BY <1>2, <2>1, <2>3 DEF BlockedBefore, Accounted
    <3>2. QED  BY <1>1, <2>1, <3>1 DEF RootBetween
  <2>4. QED  BY <2>2, <2>3
<1>5. QED  BY <1>1, <1>3, <1>4 DEF WalkRests, v

\* What a step leaves of the walk it makes: the other walks keep theirs.
LEMMA WalkMoves ==
    ASSUME CourseInv, DOMAIN phase' = Phases,
           NEW d \in Drivers, NEW w, Set(d, w), DOMAIN w = WalkFields, WalkRests(w)
    PROVE  CourseInv'
<1>1. /\ DOMAIN walk' = Drivers
      /\ walk'[d] = w
      /\ \A e \in Drivers \ {d} : walk'[e] = walk[e]
  BY DEF CourseInv, WalkShapes, Set
<1>2. WalkShapes'
  BY <1>1 DEF CourseInv, WalkShapes
<1>3. \A e \in Drivers : WalkRests(walk'[e])
  BY <1>1 DEF CourseInv
<1>4. (\A e \in Drivers : WalkRests(walk[e]))'
  BY <1>3 DEF WalkRests, Accounted, BlockedBefore, RootBetween, IsSeq
<1>5. QED  BY <1>2, <1>4 DEF CourseInv

LEMMA StopRests ==
    ASSUME NEW w, NEW reason, DOMAIN w = WalkFields
    PROVE  DOMAIN Stop(w, reason) = WalkFields /\ WalkRests(Stop(w, reason))
BY DEF Stop, WalkFields, NoWalk, WalkRests

LEMMA FailRests ==
    ASSUME NEW w, DOMAIN w = WalkFields
    PROVE  DOMAIN Fail(w) = WalkFields /\ WalkRests(Fail(w))
BY DEF Fail, WalkFields, NoWalk, WalkRests

\* A walk that moves between the steps of one phase keeps its account.
LEMMA SamePhaseRests ==
    ASSUME NEW w, NEW v, DOMAIN v = WalkFields, WalkRests(w),
           w.pc \in {"gate", "transition", "cas", "driving"},
           v.pc \in {"gate", "transition", "cas", "driving"},
           v.i = w.i, v.outcomes = w.outcomes, v.rollup = w.rollup
    PROVE  WalkRests(v)
BY DEF WalkRests, Accounted, BlockedBefore, RootBetween

LEMMA CourseStarts == CourseInit => CourseInv
BY DEF CourseInit, CourseInv, WalkShapes, WalkRests, NoWalk, WalkFields

InPhase == {"gate", "transition", "cas", "driving"}

\* Leaving from anywhere inside a phase.
LEMMA InPhaseLeaves ==
    ASSUME NEW w, NEW action, DOMAIN w = WalkFields, WalkRests(w), w.pc \in InPhase
    PROVE  /\ DOMAIN Leave(w, action) = WalkFields
           /\ WalkRests(Leave(w, action))
BY LeaveRests DEF WalkRests, InPhase

\* Every step of an invocation, one by one.
LEMMA WalkStep ==
    ASSUME CourseInv, NEW d \in Drivers, Walk(d)
    PROVE  CourseInv'
<1> DEFINE w == walk[d]
<1>0. /\ DOMAIN w = WalkFields /\ WalkRests(w)
      /\ DOMAIN phase = Phases
  BY DEF CourseInv, WalkShapes
<1>1. CASE StartOperation(d)
  <2>1. PICK x \in {[w EXCEPT !.pc = "acquire", !.op = "running"]} :
                Set(d, IF RequireActive THEN x ELSE Fail(x))
    BY <1>1 DEF StartOperation
  <2>2. DOMAIN x = WalkFields /\ WalkRests(x)
    BY <1>0, <1>1, <2>1 DEF WalkFields, NoWalk, WalkRests, StartOperation
  <2>3. DOMAIN phase' = Phases
    BY <1>0, <1>1 DEF StartOperation, rows
  <2>4. QED  BY <2>1, <2>2, <2>3, FailRests, WalkMoves
<1>2. CASE EndOperation(d)
  <2> DEFINE v == [NoWalk EXCEPT !.pc = "stopped",
                     !.op = IF w.stop = "completed" THEN "succeeded" ELSE "failed"]
  <2>1. DOMAIN v = WalkFields /\ WalkRests(v)
    BY DEF WalkFields, NoWalk, WalkRests
  <2>2. DOMAIN phase' = Phases /\ Set(d, v)
    BY <1>0, <1>2 DEF EndOperation, rows
  <2>3. QED  BY <2>1, <2>2, WalkMoves
<1>3. CASE AcquireLease(d)
  <2> DEFINE v == [w EXCEPT !.pc = "rollup", !.lockId = token'[Course]]
  <2>1. DOMAIN v = WalkFields /\ WalkRests(v)
    BY <1>0, <1>3 DEF WalkFields, NoWalk, WalkRests, AcquireLease
  <2>2. DOMAIN phase' = Phases /\ Set(d, v)
    BY <1>0, <1>3 DEF AcquireLease, rows
  <2>3. QED  BY <2>1, <2>2, WalkMoves
<1>4. CASE LeaseBusy(d)
  <2>1. DOMAIN phase' = Phases /\ Set(d, Fail(w))
    BY <1>0, <1>4 DEF LeaseBusy, rows
  <2>2. QED  BY <1>0, <2>1, FailRests, WalkMoves
<1>5. CASE RollUp(d)
  <2> DEFINE v == [w EXCEPT !.pc = "phase", !.rollup = rollupCourse]
  <2>1. /\ DOMAIN v = WalkFields /\ v.pc = "phase" /\ v.i = 1 /\ v.outcomes = <<>>
    BY <1>0, <1>5 DEF WalkFields, NoWalk, WalkRests, RollUp
  <2> HIDE DEF v
  <2>2. WalkRests(v)
    BY <2>1 DEF WalkRests, Accounted, IsSeq, BlockedBefore
  <2>3. DOMAIN phase' = Phases /\ Set(d, v)
    BY <1>0, <1>5 DEF RollUp, rows, v
  <2>4. QED  BY <2>1, <2>2, <2>3, WalkMoves
<1>6. CASE DispatchPhase(d)
  <2>1. PICK v \in {[w EXCEPT !.subtreeBlocked = SubtreeBlocked(w)]} :
        \E action \in {DecideCoursePhaseAction(Current(d), IsLeafPhase(v.rollup, v.i))} :
          Set(d, CASE v.subtreeBlocked -> Leave(v, "blocked_subtree")
                   [] ~v.subtreeBlocked /\ action = "drive" ->
                        [v EXCEPT !.pc = "gate", !.todo = SelectSeq(links[Current(d)], Drivable)]
                   [] OTHER -> Leave(v, action))
    BY <1>6 DEF DispatchPhase
  <2>2. PICK action :
          Set(d, CASE v.subtreeBlocked -> Leave(v, "blocked_subtree")
                   [] ~v.subtreeBlocked /\ action = "drive" ->
                        [v EXCEPT !.pc = "gate", !.todo = SelectSeq(links[Current(d)], Drivable)]
                   [] OTHER -> Leave(v, action))
    BY <2>1
  <2>3. /\ DOMAIN v = WalkFields /\ v.i = w.i /\ v.outcomes = w.outcomes
        /\ v.rollup = w.rollup /\ v.subtreeBlocked = SubtreeBlocked(w)
    BY <1>0, <2>1 DEF WalkFields, NoWalk
  <2>4. /\ w.pc = "phase" /\ Accounted(w) /\ w.i \in Nat \ {0}
        /\ \A k \in BlockedBefore(w) : w.subtreeBlocked \/ RootBetween(w, k, w.i - 1)
    BY <1>0, <1>6 DEF DispatchPhase, WalkRests, Accounted
  <2>5. Accounted(v) /\ BlockedBefore(v) = BlockedBefore(w)
    BY <2>3, <2>4 DEF Accounted, BlockedBefore
  <2>6. ASSUME NEW k \in BlockedBefore(v), ~v.subtreeBlocked
        PROVE  RootBetween(v, k, v.i)
    <3>1. k \in 1..(w.i - 1) /\ (w.subtreeBlocked \/ RootBetween(w, k, w.i - 1))
      BY <2>4, <2>5, <2>6 DEF BlockedBefore
    <3>2. ~w.subtreeBlocked \/ Depth[w.rollup[w.i]] = 0
      BY <2>3, <2>6 DEF SubtreeBlocked
    <3>3. QED  BY <2>3, <2>4, <3>1, <3>2 DEF RootBetween
  <2>7. /\ DOMAIN Leave(v, action) = WalkFields /\ WalkRests(Leave(v, action))
        /\ DOMAIN Leave(v, "blocked_subtree") = WalkFields
        /\ WalkRests(Leave(v, "blocked_subtree"))
    BY <2>3, <2>5, <2>6, LeaveRests
  <2>8. DOMAIN phase' = Phases
    BY <1>0, <1>6 DEF DispatchPhase, rows
  <2>9. CASE v.subtreeBlocked \/ action # "drive"
    <3>1. Set(d, Leave(v, "blocked_subtree")) \/ Set(d, Leave(v, action))
      BY <2>2, <2>9
    <3>2. QED  BY <2>7, <2>8, <3>1, WalkMoves
  <2>10. CASE ~v.subtreeBlocked /\ action = "drive"
    <3> DEFINE x == [v EXCEPT !.pc = "gate", !.todo = SelectSeq(links[Current(d)], Drivable)]
    <3>1. Set(d, x)
      BY <2>2, <2>10
    <3>2. /\ DOMAIN x = WalkFields /\ x.pc = "gate" /\ x.i = v.i
          /\ x.outcomes = v.outcomes /\ x.rollup = v.rollup
      BY <2>3 DEF WalkFields, NoWalk
    <3> HIDE DEF x
    <3>3. WalkRests(x)
      <4>1. Accounted(x) /\ BlockedBefore(x) = BlockedBefore(v)
        BY <2>5, <3>2 DEF Accounted, BlockedBefore
      <4>2. \A k \in BlockedBefore(x) : RootBetween(x, k, x.i)
        BY <2>6, <2>10, <3>2, <4>1 DEF RootBetween
      <4>3. QED  BY <3>2, <4>1, <4>2 DEF WalkRests
    <3>4. QED  BY <2>8, <3>1, <3>2, <3>3, WalkMoves
  <2>11. QED  BY <2>9, <2>10
<1>7. CASE WalkCompletes(d) \/ DriveAborted(d) \/ RunnersUnavailable(d) \/ DriveThrows(d)
  <2>1. DOMAIN phase' = Phases /\ \E reason : Set(d, Stop(w, reason))
    BY <1>0, <1>7 DEF WalkCompletes, DriveAborted, RunnersUnavailable, DriveThrows, rows
  <2>2. QED  BY <1>0, <2>1, StopRests, WalkMoves
<1>8. CASE FinishPhase(d)
  <2>1. DOMAIN phase' = Phases /\ w.pc \in InPhase /\ \E action : Set(d, Leave(w, action))
    BY <1>0, <1>8 DEF FinishPhase, rows, InPhase
  <2>2. QED  BY <1>0, <2>1, InPhaseLeaves, WalkMoves
<1>9. CASE BudgetReached(d)
  <2>1. PICK x : /\ \E action : x = Leave(w, action)
                 /\ Set(d, Stop([x EXCEPT !.outcomes = @ \o
                        [k \in 1..(Len(x.rollup) - x.i + 1) |->
                           Outcome(x.rollup[x.i + k - 1], "not_driven")]],
                     "budget_reached"))
    BY <1>9 DEF BudgetReached
  <2>2. DOMAIN x = WalkFields
    BY <1>0, <2>1 DEF Leave, WalkFields, NoWalk
  <2>3. PICK y : Set(d, Stop(y, "budget_reached")) /\ DOMAIN y = WalkFields
    BY <2>1, <2>2
  <2>4. DOMAIN phase' = Phases
    BY <1>0, <1>9 DEF BudgetReached, rows
  <2>5. QED  BY <2>3, <2>4, StopRests, WalkMoves
<1>10. CASE DriveGate(d)
  <2>0. DOMAIN phase' = Phases /\ w.pc \in InPhase /\ w.pc = "gate"
    BY <1>0, <1>10 DEF DriveGate, rows, InPhase
  <2>1. \/ \E action : Set(d, Leave(w, action))
        \/ \E reason : Set(d, Stop(w, reason))
        \/ Set(d, [w EXCEPT !.pc = "transition"])
        \/ Set(d, [w EXCEPT !.todo = Tail(@)])
    BY <1>10 DEF DriveGate
  <2>2. /\ DOMAIN [w EXCEPT !.pc = "transition"] = WalkFields
        /\ DOMAIN [w EXCEPT !.todo = Tail(@)] = WalkFields
        /\ WalkRests([w EXCEPT !.pc = "transition"])
        /\ WalkRests([w EXCEPT !.todo = Tail(@)])
    BY <1>0, <2>0, SamePhaseRests DEF WalkFields, NoWalk
  <2>3. QED  BY <1>0, <2>0, <2>1, <2>2, InPhaseLeaves, StopRests, WalkMoves
<1>11. CASE BeforeFirstDrive(d)
  <2>0. DOMAIN phase' = Phases /\ w.pc \in InPhase /\ w.pc = "transition"
    BY <1>0, <1>11 DEF BeforeFirstDrive, rows, InPhase
  <2>1. \/ \E action : Set(d, Leave(w, action))
        \/ \E reason : Set(d, Stop(w, reason))
        \/ Set(d, Drive(w))
        \/ Set(d, [w EXCEPT !.pc = "cas"])
    BY <1>11 DEF BeforeFirstDrive
  <2>2. /\ DOMAIN [w EXCEPT !.pc = "cas"] = WalkFields /\ DOMAIN Drive(w) = WalkFields
        /\ WalkRests([w EXCEPT !.pc = "cas"]) /\ WalkRests(Drive(w))
    BY <1>0, <2>0, SamePhaseRests DEF WalkFields, NoWalk, Drive
  <2>3. QED  BY <1>0, <2>0, <2>1, <2>2, InPhaseLeaves, StopRests, WalkMoves
<1>12. CASE TransitionStatus(d)
  <2>0. DOMAIN phase' = Phases /\ w.pc \in InPhase /\ w.pc = "cas"
    BY <1>0, <1>12 DEF TransitionStatus, InPhase
  <2>1. \/ \E action : Set(d, Leave(w, action))
        \/ \E reason : Set(d, Stop(w, reason))
        \/ Set(d, Drive(w))
    BY <1>12 DEF TransitionStatus
  <2>2. DOMAIN Drive(w) = WalkFields /\ WalkRests(Drive(w))
    BY <1>0, <2>0, SamePhaseRests DEF WalkFields, NoWalk, Drive
  <2>3. QED  BY <1>0, <2>0, <2>1, <2>2, InPhaseLeaves, StopRests, WalkMoves
<1>13. CASE DriveReturns(d)
  <2>1. PICK x \in {[w EXCEPT !.driven = @ + 1, !.phaseDriven = TRUE]} :
              \/ Set(d, Leave(x, "blocked_hitch"))
              \/ Set(d, [x EXCEPT !.pc = "gate", !.todo = Tail(@)])
    BY <1>13 DEF DriveReturns
  <2>2. DOMAIN phase' = Phases /\ w.pc = "driving"
    BY <1>0, <1>13 DEF DriveReturns, rows
  <2>3. /\ DOMAIN x = WalkFields /\ x.pc = "driving" /\ x.i = w.i
        /\ x.outcomes = w.outcomes /\ x.rollup = w.rollup
    BY <1>0, <2>1, <2>2 DEF WalkFields, NoWalk
  <2>4. WalkRests(x) /\ x.pc \in InPhase
    BY <1>0, <2>2, <2>3, SamePhaseRests DEF InPhase
  <2>5. /\ DOMAIN [x EXCEPT !.pc = "gate", !.todo = Tail(@)] = WalkFields
        /\ WalkRests([x EXCEPT !.pc = "gate", !.todo = Tail(@)])
    BY <2>3, <2>4, SamePhaseRests, ZenonT(60) DEF WalkFields, NoWalk
  <2>6. QED  BY <2>1, <2>2, <2>3, <2>4, <2>5, InPhaseLeaves, WalkMoves
<1>14. CASE ReleaseLease(d)
  <2>1. PICK v : /\ v = [NoWalk EXCEPT !.pc = "end", !.op = "running",
                          !.stop = IF w.stop \in {"completed", "budget_reached"}
                                     THEN "completed" ELSE "error"]
                 /\ Set(d, v)
    BY <1>14 DEF ReleaseLease
  <2>2. DOMAIN v = WalkFields /\ WalkRests(v)
    BY <2>1 DEF WalkFields, NoWalk, WalkRests
  <2>3. DOMAIN phase' = Phases
    BY <1>0, <1>14 DEF ReleaseLease, rows
  <2>4. QED  BY <2>1, <2>2, <2>3, WalkMoves
<1>15. QED
  BY <1>1, <1>2, <1>3, <1>4, <1>5, <1>6, <1>7, <1>8, <1>9, <1>10, <1>11, <1>12, <1>13, <1>14
     DEF Walk

\* A step that leaves the walks and the phases' names alone.
LEMMA WalksStay ==
    ASSUME CourseInv, UNCHANGED walk, DOMAIN phase' = Phases
    PROVE  CourseInv'
BY DEF CourseInv, WalkShapes, WalkRests, Accounted, BlockedBefore, RootBetween, IsSeq

LEMMA CourseStep == CourseInv /\ [CourseNext]_courseVars => CourseInv'
<1> SUFFICES ASSUME CourseInv, [CourseNext]_courseVars
             PROVE  CourseInv'
  OBVIOUS
<1>0. DOMAIN phase = Phases
  BY DEF CourseInv, WalkShapes
<1>1. CASE \E d \in Drivers : Walk(d)
  BY <1>1, WalkStep
<1>2. CASE \E d \in Drivers : HitchStep(d)
  BY <1>0, <1>2, WalksStay DEF HitchStep
<1>3. ASSUME NEW d \in Drivers, HeartbeatTimer(d)
      PROVE  CourseInv'
  <2>1. CASE UNCHANGED walk
    BY <1>0, <1>3, <2>1, WalksStay DEF HeartbeatTimer, rows
  <2>2. CASE Set(d, [walk[d] EXCEPT !.aborted = TRUE])
    <3> DEFINE v == [walk[d] EXCEPT !.aborted = TRUE]
    <3>1. /\ DOMAIN v = WalkFields /\ v.pc = walk[d].pc /\ walk[d].pc = "driving"
          /\ v.i = walk[d].i /\ v.outcomes = walk[d].outcomes /\ v.rollup = walk[d].rollup
          /\ WalkRests(walk[d])
      BY <1>3 DEF CourseInv, WalkShapes, WalkFields, NoWalk, HeartbeatTimer
    <3>2. WalkRests(v)
      BY <3>1, SamePhaseRests
    <3>3. DOMAIN phase' = Phases
      BY <1>0, <1>3 DEF HeartbeatTimer, rows
    <3>4. QED  BY <2>2, <3>1, <3>2, <3>3, WalkMoves
  <2>3. QED  BY <1>3, <2>1, <2>2 DEF HeartbeatTimer
<1>4. ASSUME NEW d \in Drivers, CrashDriver(d)
      PROVE  CourseInv'
  <2> DEFINE v == [NoWalk EXCEPT !.pc = "crashed", !.op = walk[d].op]
  <2>1. DOMAIN v = WalkFields /\ WalkRests(v)
    BY DEF WalkFields, NoWalk, WalkRests
  <2>2. Set(d, v) /\ DOMAIN phase' = Phases
    BY <1>0, <1>4 DEF CrashDriver, rows
  <2>3. QED  BY <2>1, <2>2, WalkMoves
<1>5. CASE Edits
  <2>1. UNCHANGED walk /\ DOMAIN phase' = Phases
    BY <1>0, <1>5
       DEF Edits, SetStatus, AddPhase, SetCourseStatus, LinkHitch, UnlinkHitch, HitchMoves,
           OperatorEndsLease, rows
  <2>2. QED  BY <2>1, WalksStay
<1>6. CASE LeaseLapses \/ UNCHANGED courseVars
  BY <1>0, <1>6, WalksStay DEF LeaseLapses, rows, courseVars
<1>7. QED  BY <1>1, <1>2, <1>3, <1>4, <1>5, <1>6 DEF CourseNext

\* The accounts of all walks stand, through crashes, lost leases and edits of
\* the course (CourseOrchestrator.run).
THEOREM CourseInvariant == CourseSpec => []CourseInv
<1>1. QED  BY CourseStarts, CourseStep, PTL DEF CourseSpec

\* For any phase tree, any number of invocations and hitches and any budget:
\* a walk never drives a phase between a blocked one and the next root
\* (subtreeBlocked).
THEOREM BlockedTreesRest == CourseSpec => []BlockedSubtreeRests
<1>1. CourseInv => BlockedSubtreeRests
  <2> SUFFICES ASSUME CourseInv, NEW d \in Drivers,
                      walk[d].pc \in {"transition", "cas", "driving"},
                      NEW k \in 1..Len(walk[d].outcomes), walk[d].outcomes[k].blocked
               PROVE  \E r \in (k + 1)..walk[d].i : Depth[walk[d].rollup[r]] = 0
    BY DEF BlockedSubtreeRests
  <2>1. Accounted(walk[d]) /\ \A j \in BlockedBefore(walk[d]) : RootBetween(walk[d], j, walk[d].i)
    BY DEF CourseInv, WalkRests
  <2>2. k \in BlockedBefore(walk[d])
    BY <2>1 DEF Accounted, BlockedBefore
  <2>3. QED  BY <2>1, <2>2 DEF RootBetween
<1>2. QED  BY <1>1, CourseInvariant, PTL

StatusStands ==
    \A d \in Drivers, p \in Phases :
        (walk'[d] # walk[d] /\ phase'[p] # phase[p]) =>
            /\ phase[p] = "pending" /\ phase'[p] = "in_progress"
            /\ LeaseHeldBy(d)

\* Only the guarded UPDATE moves a walk and a phase in one step.
LEMMA StatusStep == CourseInv /\ [CourseNext]_courseVars => StatusStands
<1> SUFFICES ASSUME CourseInv, [CourseNext]_courseVars,
                    NEW d \in Drivers, NEW p \in Phases,
                    walk'[d] # walk[d], phase'[p] # phase[p]
             PROVE  /\ phase[p] = "pending" /\ phase'[p] = "in_progress"
                    /\ LeaseHeldBy(d)
  BY DEF StatusStands
<1>1. PICK e \in Drivers : TransitionStatus(e)
  BY DEF CourseNext, courseVars, rows, Edits, SetStatus, AddPhase, SetCourseStatus, LinkHitch,
         UnlinkHitch, HitchMoves, OperatorEndsLease, LeaseLapses, HitchStep, HeartbeatTimer,
         CrashDriver, Walk, StartOperation, EndOperation, RunnersUnavailable, AcquireLease,
         LeaseBusy, RollUp, DispatchPhase, WalkCompletes, FinishPhase, BudgetReached, DriveGate,
         BeforeFirstDrive, DriveAborted, DriveThrows, DriveReturns, ReleaseLease
<1>2. \E w : Set(e, w)
  BY <1>1 DEF TransitionStatus
<1>3. e = d
  BY <1>2 DEF Set, CourseInv, WalkShapes
<1>4. /\ LeaseHeldBy(d) /\ phase[Current(d)] = "pending"
      /\ phase' = [phase EXCEPT ![Current(d)] = "in_progress"]
  BY <1>1, <1>3 DEF TransitionStatus
<1>5. p = Current(d)
  BY <1>4 DEF CourseInv, WalkShapes
<1>6. QED  BY <1>4, <1>5 DEF CourseInv, WalkShapes

\* A walk changes a phase only from pending to in_progress and only while it
\* holds the course's lease (transitionStatus).
THEOREM DeclarationsStand == CourseSpec => DeclaredStatusStands
<1>1. CourseInv /\ [CourseNext]_courseVars => [StatusStands]_courseVars
  BY StatusStep
<1>2. QED  BY <1>1, CourseInvariant, PTL DEF CourseSpec, DeclaredStatusStands, StatusStands

-----------------------------------------------------------------------------
(* The lease.  A course is a user of FencedLock; the tokens of the lock     *)
(* order the walks.                                                        *)

TokensOK ==
    /\ issued \in Nat
    /\ owner \in [Names -> Clients \cup {Nobody}] /\ DOMAIN token = Names /\ DOMAIN live = Names
    /\ \A n \in Names : IF owner[n] = Nobody THEN token[n] = 0 ELSE token[n] \in 1..issued
    /\ \A m, n \in Names : token[m] = token[n] /\ token[m] # 0 => m = n

\* A lock changes its token to none, or to one that no lock ever had.
TokensRise ==
    \A n \in Names :
        token'[n] \in {0, token[n]} \/ (token'[n] = issued' /\ issued' = issued + 1)

LEMMA FenceStep ==
    ASSUME TokensOK, [FenceNext]_fenceVars
    PROVE  TokensOK' /\ TokensRise
<1>1. ASSUME NEW c \in Clients, NEW n \in Names, Grant(c, n)
      PROVE  TokensOK' /\ TokensRise
  <2>1. /\ issued' = issued + 1 /\ owner' = [owner EXCEPT ![n] = c] /\ c # Nobody
        /\ token' = [token EXCEPT ![n] = issued + 1] /\ live' = [live EXCEPT ![n] = TRUE]
    BY <1>1, NobodyAssumption DEF Grant
  <2>2. \A m \in Names : token[m] \in 0..issued
    BY DEF TokensOK
  <2>3. /\ token'[n] = issued' /\ owner'[n] = c
        /\ \A m \in Names \ {n} : token'[m] = token[m] /\ owner'[m] = owner[m]
    BY <2>1 DEF TokensOK
  <2>4. /\ issued' \in Nat /\ issued' = issued + 1
        /\ owner' \in [Names -> Clients \cup {Nobody}] /\ DOMAIN token' = Names /\ DOMAIN live' = Names
    BY <2>1 DEF TokensOK
  <2>5. \A m \in Names : IF owner'[m] = Nobody THEN token'[m] = 0 ELSE token'[m] \in 1..issued'
    BY <2>1, <2>3, <2>4 DEF TokensOK
  <2>6. \A m, k \in Names : token'[m] = token'[k] /\ token'[m] # 0 => m = k
    BY <2>2, <2>3, <2>4 DEF TokensOK
  <2>7. QED  BY <2>3, <2>4, <2>5, <2>6 DEF TokensOK, TokensRise
<1>2. ASSUME NEW n \in Names, End(n)
      PROVE  TokensOK' /\ TokensRise
  BY <1>2, NobodyAssumption DEF End, TokensOK, TokensRise
<1>3. ASSUME UNCHANGED <<owner, token, issued>>, DOMAIN live' = Names
      PROVE  TokensOK' /\ TokensRise
  BY <1>3 DEF TokensOK, TokensRise
<1>4. CASE \E c \in Clients, n \in Names : Renew(c, n, token[n])
  BY <1>3, <1>4 DEF Renew, TokensOK
<1>5. CASE \E lapsed \in SUBSET Names : Lapse(lapsed)
  BY <1>3, <1>5 DEF Lapse
<1>6. CASE UNCHANGED fenceVars
  BY <1>3, <1>6 DEF fenceVars, TokensOK
<1>7. QED  BY <1>1, <1>2, <1>4, <1>5, <1>6 DEF FenceNext

LEMMA FenceStarts == FenceInit => TokensOK
<1> SUFFICES ASSUME FenceInit PROVE TokensOK
  OBVIOUS
<1>1. QED  BY DEF FenceInit, TokensOK

\* What every user of the lock may build on, for any locks and clients: two
\* grants never share a token, and a later grant has a larger one, also across
\* locks (acquire takes the token from one sequence).
THEOREM TokensOrderGrants == FenceSpec => [][TokensRise]_fenceVars /\ []TokensOK
<1>1. TokensOK /\ [FenceNext]_fenceVars => TokensOK' /\ [TokensRise]_fenceVars
  BY FenceStep
<1>2. QED  BY FenceStarts, <1>1, PTL DEF FenceSpec

\* Every step of a course is one of its lock, or does not touch it.
LEMMA CourseKeepsToTheLock == [CourseNext]_courseVars => [FenceNext]_fenceVars
<1> SUFFICES ASSUME [CourseNext]_courseVars PROVE [FenceNext]_fenceVars
  OBVIOUS
<1>1. Course \in Names /\ Drivers = Clients
  BY CourseAssumption DEF Drivers
<1>2. ASSUME NEW d \in Drivers, Renew(d, Course, walk[d].lockId)
      PROVE  FenceNext
  <2>1. Renew(d, Course, token[Course])
    BY <1>2 DEF Renew
  <2>2. QED  BY <1>1, <2>1 DEF FenceNext
<1>3. ASSUME NEW d \in Drivers, Walk(d)
      PROVE  [FenceNext]_fenceVars
  <2>1. CASE AcquireLease(d)
    <3>1. Grant(d, Course)
      BY <2>1 DEF AcquireLease
    <3>2. QED  BY <1>1, <3>1 DEF FenceNext
  <2>2. CASE ReleaseLease(d)
    <3>1. End(Course) \/ UNCHANGED fenceVars
      BY <2>2 DEF ReleaseLease
    <3>2. QED  BY <1>1, <3>1 DEF FenceNext
  <2>3. CASE DriveGate(d)
    <3>1. Renew(d, Course, walk[d].lockId) \/ UNCHANGED fenceVars
      BY <2>3 DEF DriveGate
    <3>2. QED  BY <1>2, <3>1
  <2>4. ASSUME ~AcquireLease(d), ~ReleaseLease(d), ~DriveGate(d)
        PROVE  UNCHANGED fenceVars
    BY <1>3, <2>4 DEF Walk, StartOperation, EndOperation, RunnersUnavailable, LeaseBusy, RollUp,
       DispatchPhase, WalkCompletes, FinishPhase, BudgetReached, BeforeFirstDrive,
       TransitionStatus, DriveAborted, DriveThrows, DriveReturns
  <2>5. QED  BY <2>1, <2>2, <2>3, <2>4
<1>4. ASSUME NEW d \in Drivers, HeartbeatTimer(d)
      PROVE  [FenceNext]_fenceVars
  <2>1. Renew(d, Course, walk[d].lockId) \/ UNCHANGED fenceVars
    BY <1>4 DEF HeartbeatTimer
  <2>2. QED  BY <1>2, <2>1
<1>5. CASE OperatorEndsLease
  <2>1. End(Course)
    BY <1>5 DEF OperatorEndsLease
  <2>2. QED  BY <1>1, <2>1 DEF FenceNext
<1>6. CASE LeaseLapses
  <2>1. Lapse({Course}) /\ {Course} \in SUBSET Names
    BY <1>1, <1>6 DEF LeaseLapses
  <2>2. QED  BY <2>1 DEF FenceNext
<1>7. CASE UNCHANGED courseVars
  BY <1>7 DEF courseVars
<1>8. ASSUME \/ \E d \in Drivers : HitchStep(d) \/ CrashDriver(d)
             \/ Edits /\ ~OperatorEndsLease
      PROVE  UNCHANGED fenceVars
  BY <1>8 DEF HitchStep, CrashDriver, Edits, SetStatus, AddPhase, SetCourseStatus, LinkHitch,
     UnlinkHitch, HitchMoves
<1>9. QED  BY <1>3, <1>4, <1>5, <1>6, <1>7, <1>8 DEF CourseNext

\* A course is a user of the lock that DomainLock implements: however many
\* invocations, crashes and operators there are, they only do to the lease
\* what the lock allows (CourseOrchestrator.run, runWithLeaseHeartbeat).
THEOREM CourseUsesTheLock == CourseSpec => FenceSpec
<1>1. CourseInit => FenceInit
  BY DEF CourseInit
<1>2. QED  BY <1>1, CourseKeepsToTheLock, PTL DEF CourseSpec, FenceSpec

\* The lock id a walk remembers is one that was granted to it alone; the grant
\* that still stands is the last one, since a course has one lock.
LeaseInv ==
    /\ token[Course] \in {0, issued}
    /\ \A d \in Drivers : walk[d].lockId \in 0..issued
    /\ \A d, e \in Drivers : walk[d].lockId = walk[e].lockId /\ walk[d].lockId # 0 => d = e

\* Only AcquireLease gives a walk another lock id.
LEMMA LockIdOf ==
    ASSUME NEW w, DOMAIN w = WalkFields, NEW action, NEW reason
    PROVE  /\ Leave(w, action).lockId = w.lockId /\ DOMAIN Leave(w, action) = WalkFields
           /\ Stop(w, reason).lockId = w.lockId
           /\ Fail(w).lockId = w.lockId
           /\ Drive(w).lockId = w.lockId
           /\ NoWalk.lockId = 0
BY DEF Leave, Stop, Fail, Drive, WalkFields, NoWalk

\* A walk keeps its lock id, or forgets it.
Remembers(d) ==
    \E w : /\ walk' = [walk EXCEPT ![d] = w]
           /\ w.lockId \in {0, walk[d].lockId}

LEMMA WalkRemembers ==
    ASSUME CourseInv, NEW d \in Drivers, Walk(d) \/ HeartbeatTimer(d) \/ CrashDriver(d)
    PROVE  AcquireLease(d) \/ Remembers(d) \/ UNCHANGED walk
<1> DEFINE w == walk[d]
<1>0. DOMAIN w = WalkFields
  BY DEF CourseInv, WalkShapes
<1>1. ASSUME NEW v, Set(d, v), v.lockId \in {0, w.lockId}
      PROVE  Remembers(d)
  BY <1>1 DEF Set, Remembers
<1>2. CASE StartOperation(d)
  <2>1. PICK v \in {[w EXCEPT !.pc = "acquire", !.op = "running"]} :
          Set(d, IF RequireActive THEN v ELSE Fail(v))
    BY <1>2 DEF StartOperation
  <2>2. v.lockId = w.lockId /\ Fail(v).lockId = v.lockId
    BY <1>0, <2>1, LockIdOf DEF WalkFields, NoWalk
  <2>3. QED  BY <1>1, <2>1, <2>2
<1>3. CASE EndOperation(d)
  <2>1. [NoWalk EXCEPT !.pc = "stopped",
           !.op = IF w.stop = "completed" THEN "succeeded" ELSE "failed"].lockId = 0
    BY DEF NoWalk
  <2>2. QED  BY <1>1, <1>3, <2>1 DEF EndOperation
<1>4. CASE LeaseBusy(d)
  BY <1>0, <1>1, <1>4, LockIdOf DEF LeaseBusy
<1>5. CASE RollUp(d)
  <2>1. [w EXCEPT !.pc = "phase", !.rollup = rollupCourse].lockId = w.lockId
    BY <1>0 DEF WalkFields, NoWalk
  <2>2. QED  BY <1>1, <1>5, <2>1 DEF RollUp
<1>6. CASE DispatchPhase(d)
  <2>1. PICK v \in {[w EXCEPT !.subtreeBlocked = SubtreeBlocked(w)]} :
          \E action : Set(d, CASE v.subtreeBlocked -> Leave(v, "blocked_subtree")
                    [] ~v.subtreeBlocked /\ action = "drive" ->
                         [v EXCEPT !.pc = "gate", !.todo = SelectSeq(links[Current(d)], Drivable)]
                    [] OTHER -> Leave(v, action))
    BY <1>6 DEF DispatchPhase
  <2>2. PICK action :
             Set(d, CASE v.subtreeBlocked -> Leave(v, "blocked_subtree")
                    [] ~v.subtreeBlocked /\ action = "drive" ->
                         [v EXCEPT !.pc = "gate", !.todo = SelectSeq(links[Current(d)], Drivable)]
                    [] OTHER -> Leave(v, action))
    BY <2>1
  <2>3. DOMAIN v = WalkFields /\ v.lockId = w.lockId
    BY <1>0, <2>1 DEF WalkFields, NoWalk
  <2>4. [v EXCEPT !.pc = "gate", !.todo = SelectSeq(links[Current(d)], Drivable)].lockId = w.lockId
    BY <2>3 DEF WalkFields, NoWalk
  <2>5. \A a : Leave(v, a).lockId = w.lockId
    BY <2>3, LockIdOf
  <2>6. QED  BY <1>1, <2>2, <2>4, <2>5
<1>7. CASE WalkCompletes(d)
  BY <1>0, <1>1, <1>7, LockIdOf DEF WalkCompletes
<1>8. CASE FinishPhase(d)
  BY <1>0, <1>1, <1>8, LockIdOf DEF FinishPhase
<1>9. CASE BudgetReached(d)
  <2>1. PICK v \in {Leave(w, IF w.phaseDriven THEN "partially_driven" ELSE "not_driven")} :
          Set(d, Stop([v EXCEPT !.outcomes = @ \o
                        [k \in 1..(Len(v.rollup) - v.i + 1) |->
                           Outcome(v.rollup[v.i + k - 1], "not_driven")]],
                     "budget_reached"))
    BY <1>9 DEF BudgetReached
  <2>2. v.lockId = w.lockId /\ DOMAIN v = WalkFields
    BY <1>0, <2>1, LockIdOf
  <2>3. PICK o : Set(d, Stop([v EXCEPT !.outcomes = o], "budget_reached"))
    BY <2>1
  <2>4. Stop([v EXCEPT !.outcomes = o], "budget_reached").lockId = w.lockId
    BY <2>2 DEF Stop, WalkFields, NoWalk
  <2>5. QED  BY <1>1, <2>3, <2>4
<1>10. CASE DriveGate(d)
  <2>1. \E v : Set(d, v) /\ \/ \E a : v = Leave(w, a)
                            \/ v = Stop(w, "lease_lost")
                            \/ v = [w EXCEPT !.pc = "transition"]
                            \/ v = [w EXCEPT !.todo = Tail(@)]
    BY <1>10 DEF DriveGate
  <2>2. [w EXCEPT !.pc = "transition"].lockId = w.lockId /\ [w EXCEPT !.todo = Tail(@)].lockId = w.lockId
    BY <1>0 DEF WalkFields, NoWalk
  <2>3. QED  BY <1>0, <1>1, <2>1, <2>2, LockIdOf
<1>11. CASE BeforeFirstDrive(d) \/ TransitionStatus(d)
  <2>1. \E v : Set(d, v) /\ \/ \E a : v = Leave(w, a)
                            \/ v = Stop(w, "lease_lost") \/ v = Drive(w)
                            \/ v = [w EXCEPT !.pc = "cas"]
    BY <1>11 DEF BeforeFirstDrive, TransitionStatus
  <2>2. [w EXCEPT !.pc = "cas"].lockId = w.lockId
    BY <1>0 DEF WalkFields, NoWalk
  <2>3. QED  BY <1>0, <1>1, <2>1, <2>2, LockIdOf
<1>12. CASE DriveAborted(d) \/ DriveThrows(d) \/ RunnersUnavailable(d)
  BY <1>0, <1>1, <1>12, LockIdOf DEF DriveAborted, DriveThrows, RunnersUnavailable
<1>13. CASE DriveReturns(d)
  <2>1. PICK v \in {[w EXCEPT !.driven = @ + 1, !.phaseDriven = TRUE]} : \E escalated \in BOOLEAN :
          Set(d, IF escalated \/ decision[Head(v.todo)] = "blocked"
                  THEN Leave(v, "blocked_hitch")
                  ELSE [v EXCEPT !.pc = "gate", !.todo = Tail(@)])
    BY <1>13 DEF DriveReturns
  <2>2. v.lockId = w.lockId /\ DOMAIN v = WalkFields
    BY <1>0, <2>1 DEF WalkFields, NoWalk
  <2>3. /\ Leave(v, "blocked_hitch").lockId = w.lockId
        /\ [v EXCEPT !.pc = "gate", !.todo = Tail(@)].lockId = w.lockId
    BY <2>2, LockIdOf DEF WalkFields, NoWalk
  <2>4. QED  BY <1>1, <2>1, <2>3
<1>14. CASE ReleaseLease(d)
  <2> DEFINE v == [NoWalk EXCEPT !.pc = "end", !.op = "running",
                    !.stop = IF w.stop \in {"completed", "budget_reached"}
                               THEN "completed" ELSE "error"]
  <2>1. v.lockId = 0
    BY DEF NoWalk
  <2>2. Set(d, v)
    BY <1>14 DEF ReleaseLease
  <2>3. QED  BY <1>1, <2>1, <2>2
<1>15. CASE HeartbeatTimer(d)
  <2>1. [w EXCEPT !.aborted = TRUE].lockId = w.lockId
    BY <1>0 DEF WalkFields, NoWalk
  <2>2. QED  BY <1>1, <1>15, <2>1 DEF HeartbeatTimer
<1>16. CASE CrashDriver(d)
  <2>1. [NoWalk EXCEPT !.pc = "crashed", !.op = w.op].lockId = 0
    BY DEF NoWalk
  <2>2. QED  BY <1>1, <1>16, <2>1 DEF CrashDriver
<1>17. QED
  BY <1>2, <1>3, <1>4, <1>5, <1>6, <1>7, <1>8, <1>9, <1>10, <1>11, <1>12, <1>13, <1>14, <1>15, <1>16
     DEF Walk

LEMMA LeaseStep ==
    ASSUME CourseInv, TokensOK, LeaseInv, [CourseNext]_courseVars
    PROVE  LeaseInv'
<1>0. /\ DOMAIN walk = Drivers /\ Names = {Course} /\ Drivers = Clients
      /\ issued \in Nat /\ Course \in Names /\ DOMAIN token = Names
  BY CourseAssumption DEF CourseInv, WalkShapes, TokensOK, Drivers
<1>1. TokensRise /\ TokensOK'
  BY CourseKeepsToTheLock, FenceStep
<1>2. /\ token'[Course] \in {0, issued'} /\ issued' \in Nat
      /\ issued' = issued \/ issued' = issued + 1
  <2>1. \/ \E c \in Clients, n \in Names : Grant(c, n)
        \/ issued' = issued
    BY CourseKeepsToTheLock DEF FenceNext, Renew, End, Lapse, fenceVars
  <2>2. ASSUME NEW c \in Clients, NEW n \in Names, Grant(c, n)
        PROVE  token'[Course] = issued' /\ issued' = issued + 1
    BY <1>0, <2>2 DEF Grant
  <2>3. QED  BY <1>0, <1>1, <2>1, <2>2 DEF LeaseInv, TokensRise
<1>3. CASE UNCHANGED walk
  BY <1>0, <1>2, <1>3 DEF LeaseInv
<1>4. ASSUME NEW d \in Drivers, Remembers(d)
      PROVE  LeaseInv'
  <2>1. PICK w : walk' = [walk EXCEPT ![d] = w] /\ w.lockId \in {0, walk[d].lockId}
    BY <1>4 DEF Remembers
  <2>2. walk'[d] = w /\ \A e \in Drivers : e # d => walk'[e] = walk[e]
    BY <1>0, <2>1
  <2>3. \A e \in Drivers : walk'[e].lockId \in {0, walk[e].lockId}
    BY <2>1, <2>2
  <2>4. \A e \in Drivers : walk'[e].lockId \in 0..issued'
    BY <1>0, <1>2, <2>3 DEF LeaseInv
  <2>5. QED  BY <1>2, <2>3, <2>4 DEF LeaseInv
<1>5. ASSUME NEW d \in Drivers, AcquireLease(d)
      PROVE  LeaseInv'
  <2>1. /\ issued' = issued + 1 /\ token'[Course] = issued + 1
        /\ walk' = [walk EXCEPT ![d] = [walk[d] EXCEPT !.pc = "rollup", !.lockId = token'[Course]]]
    BY <1>0, <1>5 DEF AcquireLease, Grant, Set
  <2>2. [walk[d] EXCEPT !.pc = "rollup", !.lockId = token'[Course]].lockId = issued + 1
    BY <2>1 DEF CourseInv, WalkShapes, WalkFields, NoWalk
  <2>3. walk'[d].lockId = issued + 1 /\ \A e \in Drivers : e # d => walk'[e] = walk[e]
    BY <1>0, <2>1, <2>2
  <2>4. \A e \in Drivers : walk[e].lockId \in 0..issued
    BY DEF LeaseInv
  <2>5. \A e \in Drivers : walk'[e].lockId \in 0..issued'
    BY <1>0, <2>1, <2>3, <2>4
  <2>6. ASSUME NEW e \in Drivers, NEW f \in Drivers,
               walk'[e].lockId = walk'[f].lockId, walk'[e].lockId # 0
        PROVE  e = f
    BY <1>0, <2>3, <2>4, <2>6 DEF LeaseInv
  <2>7. QED  BY <1>2, <2>5, <2>6 DEF LeaseInv
<1>6. \/ \E d \in Drivers : Walk(d) \/ HeartbeatTimer(d) \/ CrashDriver(d)
      \/ UNCHANGED walk
  BY DEF CourseNext, courseVars, HitchStep, LeaseLapses, Edits, SetStatus, AddPhase,
     SetCourseStatus, LinkHitch, UnlinkHitch, HitchMoves, OperatorEndsLease
<1>7. QED  BY <1>3, <1>4, <1>5, <1>6, WalkRemembers

\* For any phase tree and number of invocations: the walk that changes a phase
\* has the lease that was granted last, and no other walk remembers it, so an
\* invocation that stalled, lost its lease and woke up changes nothing
\* (transitionStatus's EXISTS guard, assertHeld).
THEOREM NewestLeasesWrite == CourseSpec => NewestLeaseWrites
<1> DEFINE Newest ==
      \A d \in Drivers, p \in Phases :
         (walk'[d] # walk[d] /\ phase'[p] # phase[p]) =>
            /\ walk[d].lockId = issued
            /\ \A e \in Drivers \ {d} : walk[e].lockId < issued
<1>1. CourseInit => LeaseInv
  <2> SUFFICES ASSUME CourseInit PROVE LeaseInv
    OBVIOUS
  <2>1. NoWalk.lockId = 0 /\ Course \in Names
    BY CourseAssumption DEF NoWalk
  <2>2. issued = 0 /\ token[Course] = 0 /\ \A d \in Drivers : walk[d].lockId = 0
    BY <2>1 DEF CourseInit, FenceInit
  <2>3. QED  BY <2>2 DEF LeaseInv
<1>2. CourseInv /\ TokensOK /\ LeaseInv /\ [CourseNext]_courseVars => LeaseInv'
  BY LeaseStep
<1>3. CourseInv /\ TokensOK /\ LeaseInv /\ [CourseNext]_courseVars => [Newest]_courseVars
  <2> SUFFICES ASSUME CourseInv, TokensOK, LeaseInv, [CourseNext]_courseVars,
                      NEW d \in Drivers, NEW p \in Phases,
                      walk'[d] # walk[d], phase'[p] # phase[p]
               PROVE  /\ walk[d].lockId = issued
                      /\ \A e \in Drivers \ {d} : walk[e].lockId < issued
    OBVIOUS
  <2>1. LeaseHeldBy(d)
    BY StatusStep DEF StatusStands
  <2>2. owner[Course] = d /\ token[Course] = walk[d].lockId /\ d # Nobody /\ Course \in Names
    BY <2>1, NobodyAssumption, CourseAssumption DEF LeaseHeldBy, Holds, Drivers
  <2>3. token[Course] \in 1..issued /\ issued \in Nat
    BY <2>2 DEF TokensOK
  <2>4. walk[d].lockId = issued /\ issued # 0
    BY <2>2, <2>3 DEF LeaseInv
  <2>5. ASSUME NEW e \in Drivers \ {d}
        PROVE  walk[e].lockId < issued
    <3>1. walk[e].lockId # walk[d].lockId /\ walk[e].lockId \in 0..issued
      BY <2>4, <2>5 DEF LeaseInv
    <3>2. QED  BY <2>3, <2>4, <3>1
  <2>6. QED  BY <2>4, <2>5
<1>4. CourseSpec => []TokensOK
  BY CourseUsesTheLock, TokensOrderGrants, PTL
<1>5. QED
  BY <1>1, <1>2, <1>3, <1>4, CourseInvariant, PTL DEF CourseSpec, NewestLeaseWrites
=============================================================================
