-------------------------- MODULE PullRequestProofs --------------------------
(***************************************************************************)
(* Proofs about PullRequests: what the commands push and what auto-merge    *)
(* merges is the reviewed commit.                                          *)
(*                                                                         *)
(* The invariant follows one commit on its way.  Between the gates and the  *)
(* push the reviewed paths keep their content, so the first commit that any *)
(* command makes is the last one; once it was pushed the branch is settled; *)
(* and what a command carries to the merge is that commit, with CI passed   *)
(* on it.                                                                  *)
(***************************************************************************)
EXTENDS PullRequests, TLAPS

InGates == {"add", "retry", "commit", "verify", "push"}
Carrying == {"find", "create", "record", "created", "ci", "gate", "merge"}
CommandPcs == InGates \cup Carrying \cup {"idle", "gates", "failed", "awaiting", "close"}

Messages == {Message[c] : c \in Callers} \cup {"hand", "other"}
CommitRecs == [msg: Messages, tree: CommitTrees]
Logs == Seq(CommitRecs)
CallRecs == [tries: Nat, pc: CommandPcs, staged: BOOLEAN, sha: Logs, number: Nat, ci: BOOLEAN]
PrRecs == [state: {"open", "closed", "merged"}, draft: BOOLEAN,
           by: Callers \cup {"nobody"}, head: Logs]

Worktrees == [branch: {"run", "other", "none"}, tree: Trees, log: Logs]

PrShapes ==
    /\ wt \in Worktrees
    /\ ~WorktreeExists => wt.log = <<>>
    /\ origin \in Logs
    /\ prs \in Seq(PrRecs)
    /\ prRow \in [status: {"none", "created", "failed"}, number: Nat]
    /\ call \in [Callers -> CallRecs]

\* What a command between its gates and its push can rely on unless a cleanup
\* takes the worktree: nobody edits the tree, a second commit is impossible
\* once the first one is there.
GateHolds(r) ==
    /\ r.pc \in InGates => Content(wt.tree) = "reviewed"
    /\ r.pc = "commit" /\ ~r.staged /\ WorktreeExists => Content(HeadTree) = "reviewed"
    /\ r.pc = "verify" /\ WorktreeExists => Content(HeadTree) = "reviewed"
    /\ r.pc = "push" /\ WorktreeExists => IsReviewedCommit(wt.log)

\* The branch was pushed, and the local one, as long as there is one, is the
\* reviewed commit for good.
Settled == (WorktreeExists => IsReviewedCommit(wt.log)) /\ origin # <<>>

\* A command with a pull request on its hands has the reviewed commit as its
\* head; CI is only held to have passed on that head.
CarriesReviewed(r) ==
    /\ r.pc \in {"find", "create", "record"} => Settled
    /\ r.pc \in Carrying /\ r.sha # <<>> => IsReviewedCommit(r.sha)
    /\ r.ci => r.pc \in {"gate", "merge", "close"} /\ r.sha \in green
    /\ r.pc \in {"ci", "gate", "merge"} => r.sha # <<>>
    /\ r.pc = "merge" => r.ci

\* A pull request is nobody's until it is merged.
PrsHold ==
    \A i \in 1..Len(prs) :
        /\ prs[i].state # "merged" => prs[i].by = "nobody"
        /\ prs[i].state = "merged" /\ prs[i].by \in CloseCallers =>
              IsReviewedCommit(prs[i].head) /\ prs[i].head \in green

MergeInv ==
    /\ PrCreated => Settled
    /\ \A c \in Callers : CarriesReviewed(call[c])
    /\ PrsHold

\* The second half needs that nobody commits by hand after a push.
PrInv ==
    /\ PrShapes
    /\ \A c \in Callers : GateHolds(call[c])
    /\ ~HandCommitsAfterPush => MergeInv

-----------------------------------------------------------------------------
(* The commands' steps.                                                    *)

LEMMA PrStarts == PrInit => PrInv
<1> SUFFICES ASSUME PrInit PROVE PrInv
  OBVIOUS
<1>1. Idle \in CallRecs /\ Idle.pc = "idle" /\ ~Idle.ci
  BY DEF Idle, CallRecs, CommandPcs, Logs
<1>2. PrShapes
  BY <1>1 DEF PrInit, PrShapes, Trees, Logs, NoCalls, WorktreeExists, Worktrees
<1>3. \A c \in Callers : call[c] = Idle
  BY DEF PrInit, NoCalls
<1>4. \A c \in Callers : GateHolds(call[c]) /\ CarriesReviewed(call[c])
  BY <1>1, <1>3 DEF GateHolds, InGates, Carrying, CarriesReviewed, WorktreeExists
<1>5. ~PrCreated /\ PrsHold
  BY DEF PrInit, PrCreated, PrsHold
<1>6. QED  BY <1>2, <1>4, <1>5 DEF PrInv, MergeInv

LEMMA OneCommit ==
    ASSUME NEW log \in Logs, log # <<>>, Len(log) <= 1
    PROVE  Len(log) = 1 /\ Last(log) = log[1]
<1>1. log \in Seq(CommitRecs) /\ Len(log) \in Nat
  BY DEF Logs
<1>2. Len(log) # 0
  BY <1>1
<1>3. QED  BY <1>1, <1>2 DEF Last

\* The caller's record is replaced.
Moved(c, r) == call' = [call EXCEPT ![c] = r]

\* A command's step that leaves the worktree alone.
LEMMA FrameOfCaller ==
    ASSUME PrInv, NEW c \in Callers, NEW r \in CallRecs, Moved(c, r),
           wt' = wt, origin' \in Logs, origin # <<>> => origin' # <<>>,
           prs' \in Seq(PrRecs),
           prRow' \in [status: {"none", "created", "failed"}, number: Nat],
           green \subseteq green',
           GateHolds(r),
           ~HandCommitsAfterPush => CarriesReviewed(r)' /\ PrsHold' /\ (PrCreated' => Settled')
    PROVE  PrInv'
<1>1. /\ call' \in [Callers -> CallRecs] /\ call'[c] = r
      /\ \A e \in Callers \ {c} : call'[e] = call[e]
  BY DEF PrInv, PrShapes, Moved, WorktreeExists, Worktrees
<1>2. PrShapes'
  BY <1>1 DEF PrInv, PrShapes, WorktreeExists, Worktrees
<1>3. (\A e \in Callers : GateHolds(call[e]))'
  BY <1>1 DEF PrInv, GateHolds, HeadTree, IsReviewedCommit, WorktreeExists
<1>4. ASSUME ~HandCommitsAfterPush
      PROVE  (\A e \in Callers : CarriesReviewed(call[e]))'
  <2>1. \A e \in Callers : CarriesReviewed(call[e])
    BY <1>4 DEF PrInv, MergeInv
  <2>2. ASSUME NEW e \in Callers \ {c}
        PROVE  CarriesReviewed(call[e])'
    BY <1>1, <2>1 DEF CarriesReviewed, Settled, IsReviewedCommit, WorktreeExists
  <2>3. CarriesReviewed(call[c])'
    BY <1>1, <1>4 DEF CarriesReviewed, Settled, IsReviewedCommit, WorktreeExists
  <2>4. QED  BY <2>2, <2>3
<1>5. QED  BY <1>2, <1>3, <1>4 DEF PrInv, MergeInv

\* A command that only moves on.
LEMMA CallerMoves ==
    ASSUME PrInv, NEW c \in Callers, NEW r \in CallRecs, Moved(c, r),
           UNCHANGED <<wt, origin, prs, green, prRow>>,
           GateHolds(r), ~HandCommitsAfterPush => CarriesReviewed(r)
    PROVE  PrInv'
<1>1. CarriesReviewed(r) => CarriesReviewed(r)'
  BY DEF CarriesReviewed, Settled, IsReviewedCommit, WorktreeExists
<1>2. ~HandCommitsAfterPush => PrsHold' /\ (PrCreated' => Settled')
  BY DEF PrInv, MergeInv, PrsHold, IsReviewedCommit, PrCreated, Settled, WorktreeExists
<1>3. QED  BY <1>1, <1>2, FrameOfCaller DEF PrInv, PrShapes, WorktreeExists, Worktrees

LEMMA StepIs ==
    ASSUME PrShapes, NEW c \in Callers, NEW pc \in CommandPcs, Step(c, pc)
    PROVE  \E r \in CallRecs :
              /\ Moved(c, r) /\ r.pc = pc /\ r.staged = call[c].staged
              /\ r.sha = call[c].sha /\ r.ci = call[c].ci /\ r.number = call[c].number
<1> DEFINE r == [call[c] EXCEPT !.pc = pc]
<1>1. call[c] \in CallRecs
  BY DEF PrShapes, WorktreeExists, Worktrees
<1>2. /\ r \in CallRecs /\ r.pc = pc /\ r.staged = call[c].staged
      /\ r.sha = call[c].sha /\ r.ci = call[c].ci /\ r.number = call[c].number
  BY <1>1 DEF CallRecs
<1>3. Moved(c, r)
  <2>1. [call[c] EXCEPT !.pc = pc, !.tries = @] = r
    BY <1>1 DEF CallRecs
  <2>2. call' = [call EXCEPT ![c] = [call[c] EXCEPT !.pc = pc, !.tries = @]]
    BY DEF Step, PrShapes, WorktreeExists, Worktrees
  <2>3. QED  BY <2>1, <2>2 DEF Moved
<1>4. QED  BY <1>2, <1>3

LEMMA EndedIs ==
    ASSUME PrShapes, NEW c \in Callers
    PROVE  /\ Ended(c) \in CallRecs /\ Ended(c).pc = "idle" /\ ~Ended(c).ci
           /\ \A n \in Nat : [Ended(c) EXCEPT !.tries = n] \in CallRecs
           /\ \A n \in Nat : [Ended(c) EXCEPT !.tries = n].pc = "idle"
           /\ \A n \in Nat : ~[Ended(c) EXCEPT !.tries = n].ci
<1>1. Idle \in CallRecs /\ Idle.pc = "idle" /\ ~Idle.ci
  BY DEF Idle, CallRecs, CommandPcs, Logs
<1>2. call[c].tries \in Nat
  BY DEF PrShapes, CallRecs, WorktreeExists, Worktrees
<1>3. Ended(c) \in CallRecs /\ Ended(c).pc = "idle" /\ ~Ended(c).ci
  BY <1>1, <1>2 DEF Ended, CallRecs
<1>4. QED  BY <1>3 DEF CallRecs

\* A record that is idle promises nothing.
LEMMA IdlePromisesNothing ==
    ASSUME NEW r, r.pc \in {"idle", "gates", "failed", "awaiting", "close"}, ~r.ci
    PROVE  GateHolds(r) /\ CarriesReviewed(r)
BY DEF GateHolds, CarriesReviewed, InGates, Carrying, WorktreeExists

\* A command that fails or ends keeps nothing that could be wrong.
LEMMA CallerEnds ==
    ASSUME PrInv, NEW c \in Callers, End(c),
           UNCHANGED <<wt, origin, prs, green, prRow>>
    PROVE  PrInv'
<1>1. PrShapes
  BY DEF PrInv
<1>2. /\ Ended(c) \in CallRecs /\ GateHolds(Ended(c)) /\ CarriesReviewed(Ended(c))
  BY <1>1, EndedIs, IdlePromisesNothing
<1>3. Moved(c, Ended(c))
  BY DEF End, Moved
<1>4. QED  BY <1>2, <1>3, CallerMoves

\* What a command carries on when it only changes its place.
LEMMA CarriesOn ==
    ASSUME NEW q, NEW r, CarriesReviewed(q),
           r.sha = q.sha, r.ci = q.ci,
           r.pc \in Carrying => q.pc \in Carrying \/ r.sha = <<>>,
           r.pc \in {"find", "create", "record"} => q.pc \in {"find", "create", "record"},
           r.pc \in {"ci", "gate", "merge"} => q.sha # <<>>,
           r.pc = "merge" => q.ci,
           r.ci => r.pc \in {"gate", "merge", "close"}
    PROVE  CarriesReviewed(r)
BY DEF CarriesReviewed

\* A command starts on its way to the gates, or gives up before them.
LEMMA GatesStart ==
    ASSUME PrInv, NEW c \in Callers,
           call' = [call EXCEPT ![c].pc = "gates", ![c].tries = @ + 1],
           ~call[c].ci \/ HandCommitsAfterPush,
           UNCHANGED <<wt, origin, prs, green, prRow>>
    PROVE  PrInv'
<1> DEFINE q == call[c]
<1>0. PrShapes /\ q \in CallRecs /\ q.tries \in Nat
  BY DEF PrInv, PrShapes, CallRecs, WorktreeExists, Worktrees
<1>1. PICK n \in Nat : n = q.tries + 1
  BY <1>0
<1>2. call' = [call EXCEPT ![c] = [q EXCEPT !.pc = "gates", !.tries = n]]
  <2>1. call' = [call EXCEPT ![c] = [call[c] EXCEPT !.pc = "gates", !.tries = @ + 1]]
    BY <1>0 DEF PrShapes, WorktreeExists, Worktrees
  <2>2. QED  BY <2>1, <1>1, <1>0 DEF CallRecs
<1>3. PICK v \in CallRecs : v = [q EXCEPT !.pc = "gates", !.tries = n]
  BY <1>0 DEF CallRecs, CommandPcs
<1>4. v.pc = "gates" /\ v.ci = q.ci /\ v.sha = q.sha
  BY <1>0, <1>3 DEF CallRecs
<1>5. Moved(c, v)
  BY <1>2, <1>3 DEF Moved
<1>6. GateHolds(v) /\ (~HandCommitsAfterPush => CarriesReviewed(v))
  BY <1>4 DEF GateHolds, CarriesReviewed, InGates, Carrying, WorktreeExists
<1>7. QED  BY <1>5, <1>6, CallerMoves

LEMMA GivesUp ==
    ASSUME PrInv, NEW c \in Callers,
           call' = [call EXCEPT ![c] = [Ended(c) EXCEPT !.tries = @ + 1]],
           UNCHANGED <<wt, origin, prs, green, prRow>>
    PROVE  PrInv'
<1>0. PrShapes
  BY DEF PrInv
<1>1. PICK n \in Nat : n = Ended(c).tries + 1
  BY <1>0, EndedIs DEF CallRecs
<1> DEFINE e == [Ended(c) EXCEPT !.tries = n]
<1>2. [Ended(c) EXCEPT !.tries = @ + 1] = e
  BY <1>1
<1>3. e \in CallRecs /\ e.pc = "idle" /\ ~e.ci
  BY <1>0, EndedIs
<1>4. Moved(c, e)
  BY <1>2 DEF Moved
<1> HIDE DEF e
<1>5. GateHolds(e) /\ CarriesReviewed(e)
  BY <1>3, IdlePromisesNothing
<1>6. QED  BY <1>3, <1>4, <1>5, CallerMoves

\* createPullRequest on the database's answer.
LEMMA CreateKeeps ==
    ASSUME PrInv, NEW c \in Callers, CreatePullRequest(c),
           call[c].pc \in {"idle", "awaiting"}, ~call[c].ci \/ HandCommitsAfterPush,
           UNCHANGED <<wt, origin, prs, green, prRow>>
    PROVE  PrInv'
<1> DEFINE q == call[c]
<1>0. /\ PrShapes /\ q \in CallRecs /\ wt.log \in Logs
      /\ prRow.number \in Nat /\ q.tries \in Nat
  BY DEF PrInv, PrShapes, CallRecs, WorktreeExists, Worktrees
<1>1. CASE PrCreated
  <2> DEFINE r == ExistingPrResult(c)
  <2>0. PICK n \in Nat : n = q.tries + 1
    BY <1>0
  <2>1. r = [q EXCEPT !.pc = "created", !.tries = n, !.number = prRow.number, !.sha = wt.log]
    BY <2>0 DEF ExistingPrResult
  <2>2. /\ r \in CallRecs /\ r.pc = "created" /\ r.sha = wt.log /\ r.ci = q.ci
    BY <1>0, <2>1 DEF CallRecs, CommandPcs, Carrying
  <2>3. Moved(c, r)
    BY <1>1 DEF CreatePullRequest, Moved
  <2> HIDE DEF r
  <2>4. GateHolds(r)
    BY <2>2 DEF GateHolds, InGates, WorktreeExists
  <2>5. ~HandCommitsAfterPush => CarriesReviewed(r)
    <3>1. ~WorktreeExists => wt.log = <<>>
      BY <1>0 DEF PrShapes
    <3>2. ~HandCommitsAfterPush => Settled /\ CarriesReviewed(q)
      BY <1>1 DEF PrInv, MergeInv
    <3>3. QED  BY <2>2, <3>1, <3>2 DEF Settled, CarriesReviewed
  <2>6. QED  BY <2>2, <2>3, <2>4, <2>5, CallerMoves
<1>2. CASE ~PrCreated /\ RunIsApproved
  BY <1>2, GatesStart DEF CreatePullRequest
<1>3. CASE ~PrCreated /\ ~RunIsApproved
  BY <1>3, GivesUp DEF CreatePullRequest
<1>4. QED  BY <1>1, <1>2, <1>3

\* The steps that only read the world.
LEMMA ReadingStep ==
    ASSUME PrInv, NEW c \in Callers,
           \/ PrCreateCommand(c) \/ CloseAndPr(c) \/ SalvageReviewBranch(c)
           \/ PushGates(c) \/ StageReviewed(c) \/ VerifyBranch(c) \/ FindOpenPr(c)
           \/ PrCreateDone(c) \/ IngestVerdicts(c) \/ GhCiStatus(c) \/ MergeGate(c)
           \/ AwaitEnds(c) \/ CloseHitch(c) \/ CrashCaller(c)
    PROVE  PrInv'
<1> DEFINE q == call[c]
<1>0. /\ PrShapes /\ q \in CallRecs /\ GateHolds(q)
      /\ ~HandCommitsAfterPush => CarriesReviewed(q)
  BY DEF PrInv, PrShapes, MergeInv, WorktreeExists, Worktrees
<1>00. UNCHANGED <<wt, origin, prs, green, prRow>>
  BY DEF PrCreateCommand, CloseAndPr, SalvageReviewBranch, PushGates, StageReviewed,
         VerifyBranch, FindOpenPr, PrCreateDone, IngestVerdicts, GhCiStatus, MergeGate,
         AwaitEnds, CloseHitch, CrashCaller, world
<1>01. q.pc \notin {"gate", "merge", "close"} => (~q.ci \/ HandCommitsAfterPush)
  BY <1>0 DEF CarriesReviewed
<1>1. CASE PrCreateCommand(c)
  BY <1>00, <1>01, <1>1, CreateKeeps DEF PrCreateCommand, Start
<1>2. CASE CloseAndPr(c)
  <2>1. CASE HardBlocked
    BY <1>00, <1>2, <2>1, GivesUp DEF CloseAndPr
  <2>2. CASE ~HardBlocked
    BY <1>00, <1>01, <1>2, <2>2, CreateKeeps DEF CloseAndPr
  <2>3. QED  BY <2>1, <2>2
<1>3. CASE SalvageReviewBranch(c)
  BY <1>00, <1>01, <1>3, GatesStart DEF SalvageReviewBranch, Start
<1>4. ASSUME End(c)
      PROVE  PrInv'
  BY <1>00, <1>4, CallerEnds
<1>5. ASSUME Fail(c)
      PROVE  PrInv'
  BY <1>4, <1>5 DEF Fail
<1>6. ASSUME NEW r \in CallRecs, Moved(c, r), GateHolds(r),
             ~HandCommitsAfterPush => CarriesReviewed(r)
      PROVE  PrInv'
  BY <1>00, <1>6, CallerMoves
<1>7. CASE PushGates(c)
  <2>1. CASE Fail(c)
    BY <1>5, <2>1
  <2>2. CASE /\ Content(wt.tree) = "reviewed"
             /\ call' = [call EXCEPT ![c].pc = IF wt.log = <<>> THEN "add" ELSE "retry"]
    <3>1. PICK p \in {"add", "retry"} : call' = [call EXCEPT ![c].pc = p]
      BY <2>2
    <3>2. PICK r \in CallRecs : r = [q EXCEPT !.pc = p]
      BY <1>0 DEF CallRecs, CommandPcs, InGates
    <3>3. r.pc = p /\ r.ci = q.ci /\ Moved(c, r)
      BY <1>0, <3>1, <3>2 DEF CallRecs, Moved, PrShapes, WorktreeExists, Worktrees
    <3>4. q.pc = "gates"
      BY <1>7 DEF PushGates
    <3>5. GateHolds(r) /\ (~HandCommitsAfterPush => CarriesReviewed(r))
      BY <1>01, <2>2, <3>3, <3>4 DEF GateHolds, CarriesReviewed, Carrying, WorktreeExists
    <3>6. QED  BY <1>6, <3>3, <3>5
  <2>3. QED  BY <1>7, <2>1, <2>2 DEF PushGates, ReviewedFingerprintMatches
<1>8. CASE StageReviewed(c)
  <2>1. CASE Fail(c)
    BY <1>5, <2>1
  <2>2. CASE call' = [call EXCEPT ![c].pc = "commit", ![c].staged = StagesSomething]
    <3>1. PICK b \in BOOLEAN : b = StagesSomething
      BY DEF StagesSomething
    <3>2. PICK r \in CallRecs : r = [q EXCEPT !.pc = "commit", !.staged = b]
      BY <1>0 DEF CallRecs, CommandPcs, InGates
    <3>20. call' = [call EXCEPT ![c] = [call[c] EXCEPT !.pc = "commit", !.staged = b]]
      BY <2>2, <3>1, <1>0 DEF PrShapes, WorktreeExists, Worktrees
    <3>3. r.pc = "commit" /\ r.ci = q.ci /\ r.staged = b /\ Moved(c, r)
      BY <1>0, <3>20, <3>2 DEF CallRecs, Moved, PrShapes, WorktreeExists, Worktrees
    <3>4. q.pc \in {"add", "retry"} /\ Content(wt.tree) = "reviewed"
      BY <1>0, <1>8 DEF StageReviewed, GateHolds, InGates, WorktreeExists
    <3>5. GateHolds(r) /\ (~HandCommitsAfterPush => CarriesReviewed(r))
      BY <1>01, <3>1, <3>3, <3>4 DEF GateHolds, CarriesReviewed, Carrying, StagesSomething, WorktreeExists
    <3>6. QED  BY <1>6, <3>3, <3>5
  <2>3. QED  BY <1>8, <2>1, <2>2 DEF StageReviewed
<1>9. CASE VerifyBranch(c)
  <2>1. CASE Fail(c)
    BY <1>5, <2>1
  <2>2. CASE SingleReviewedCommit /\ HeadMessageAuthentic(c) /\ BranchPathsReviewed /\ Step(c, "push")
    <3>1. PICK r \in CallRecs : Moved(c, r) /\ r.pc = "push" /\ r.ci = q.ci
      BY <1>0, <2>2, StepIs DEF CommandPcs, InGates
    <3>20. WorktreeExists
      BY <1>0, <2>2 DEF HeadMessageAuthentic, PrShapes, Worktrees
    <3>2. q.pc = "verify" /\ Content(wt.tree) = "reviewed" /\ Content(HeadTree) = "reviewed"
      BY <1>0, <1>9, <3>20 DEF VerifyBranch, GateHolds, InGates, WorktreeExists
    <3>3. IsReviewedCommit(wt.log)
      <4>1. Len(wt.log) = 1 /\ Last(wt.log) = wt.log[1]
        BY <1>0, <2>2, OneCommit DEF SingleReviewedCommit, HeadMessageAuthentic, PrShapes, WorktreeExists, Worktrees
      <4>2. HeadTree = wt.log[1].tree
        BY <2>2, <4>1 DEF HeadTree, HeadMessageAuthentic
      <4>3. HeadTree = "reviewed"
        BY <2>2, <3>2 DEF Content, BranchPathsReviewed
      <4>4. wt.log[1].msg = Message[c]
        BY <2>2, <4>1 DEF HeadMessageAuthentic
      <4>5. QED  BY <4>1, <4>2, <4>3, <4>4 DEF IsReviewedCommit
    <3>4. GateHolds(r) /\ (~HandCommitsAfterPush => CarriesReviewed(r))
      BY <1>01, <3>1, <3>2, <3>3 DEF GateHolds, CarriesReviewed, Carrying, WorktreeExists
    <3>5. QED  BY <1>6, <3>1, <3>4
  <2>3. QED  BY <1>9, <2>1, <2>2 DEF VerifyBranch
<1>10. CASE FindOpenPr(c)
  <2>0. q.pc = "find"
    BY <1>10 DEF FindOpenPr
  <2>1. ASSUME NEW p \in {"create", "failed"}, Step(c, p)
        PROVE  PrInv'
    <3>1. PICK r \in CallRecs : Moved(c, r) /\ r.pc = p /\ r.ci = q.ci /\ r.sha = q.sha
      BY <1>0, <2>1, StepIs DEF CommandPcs, Carrying
    <3>2. GateHolds(r) /\ (~HandCommitsAfterPush => CarriesReviewed(r))
      BY <1>0, <1>01, <2>0, <3>1, CarriesOn DEF GateHolds, InGates, Carrying, WorktreeExists
    <3>3. QED  BY <1>6, <3>1, <3>2
  <2>2. ASSUME NEW i \in OpenPr, call' = [call EXCEPT ![c].pc = "record", ![c].number = i]
        PROVE  PrInv'
    <3>0. i \in Nat
      BY <1>0, <2>2 DEF OpenPr, PrShapes, WorktreeExists, Worktrees
    <3>1. PICK r \in CallRecs : r = [q EXCEPT !.pc = "record", !.number = i]
      BY <1>0, <3>0 DEF CallRecs, CommandPcs, Carrying
    <3>2. r.pc = "record" /\ r.ci = q.ci /\ r.sha = q.sha
      BY <1>0, <3>1 DEF CallRecs
    <3>3. Moved(c, r)
      BY <1>0, <2>2, <3>1 DEF Moved, PrShapes, WorktreeExists, Worktrees
    <3>4. GateHolds(r) /\ (~HandCommitsAfterPush => CarriesReviewed(r))
      BY <1>0, <1>01, <2>0, <3>2, CarriesOn DEF GateHolds, InGates, Carrying, WorktreeExists
    <3>5. QED  BY <1>6, <3>3, <3>4
  <2>3. QED  BY <1>10, <2>1, <2>2 DEF FindOpenPr
<1>11. CASE PrCreateDone(c) \/ AwaitEnds(c) \/ CloseHitch(c) \/ CrashCaller(c)
  BY <1>4, <1>11 DEF PrCreateDone, AwaitEnds, CloseHitch, CrashCaller
<1>12. CASE IngestVerdicts(c)
  <2>1. CASE Fail(c)
    BY <1>5, <2>1
  <2>2. ASSUME NEW p \in {"ci", "gate"}, Step(c, p), q.sha # <<>>
        PROVE  PrInv'
    <3>0. q.pc = "created" /\ q.sha # <<>>
      BY <1>12, <2>2 DEF IngestVerdicts
    <3>1. PICK r \in CallRecs : Moved(c, r) /\ r.pc = p /\ r.ci = q.ci /\ r.sha = q.sha
      BY <1>0, <2>2, StepIs DEF CommandPcs, Carrying
    <3>2. GateHolds(r) /\ (~HandCommitsAfterPush => CarriesReviewed(r))
      BY <1>0, <1>01, <3>0, <3>1, CarriesOn DEF GateHolds, InGates, Carrying, WorktreeExists
    <3>3. QED  BY <1>6, <3>1, <3>2
  <2>3. QED  BY <1>12, <2>1, <2>2 DEF IngestVerdicts
<1>13. CASE GhCiStatus(c)
  <2>0. q.pc = "ci"
    BY <1>13 DEF GhCiStatus
  <2>1. CASE Step(c, "gate")
    <3>1. PICK r \in CallRecs : Moved(c, r) /\ r.pc = "gate" /\ r.ci = q.ci /\ r.sha = q.sha
      BY <1>0, <2>1, StepIs DEF CommandPcs, Carrying
    <3>2. GateHolds(r) /\ (~HandCommitsAfterPush => CarriesReviewed(r))
      BY <1>0, <2>0, <3>1 DEF GateHolds, CarriesReviewed, InGates, Carrying, WorktreeExists
    <3>3. QED  BY <1>6, <3>1, <3>2
  <2>2. CASE /\ origin = q.sha /\ origin \in green
             /\ call' = [call EXCEPT ![c].pc = "gate", ![c].ci = TRUE]
    <3>1. PICK r \in CallRecs : r = [q EXCEPT !.pc = "gate", !.ci = TRUE]
      BY <1>0 DEF CallRecs, CommandPcs, Carrying
    <3>2. r.pc = "gate" /\ r.ci /\ r.sha = q.sha
      BY <1>0, <3>1 DEF CallRecs
    <3>3. Moved(c, r)
      BY <1>0, <2>2, <3>1 DEF Moved, PrShapes, WorktreeExists, Worktrees
    <3>4. GateHolds(r) /\ (~HandCommitsAfterPush => CarriesReviewed(r))
      BY <1>0, <2>0, <2>2, <3>2 DEF GateHolds, CarriesReviewed, InGates, Carrying, WorktreeExists
    <3>5. QED  BY <1>6, <3>3, <3>4
  <2>3. QED  BY <1>13, <2>1, <2>2 DEF GhCiStatus
<1>14. CASE MergeGate(c)
  <2>0. q.pc = "gate"
    BY <1>14 DEF MergeGate
  <2>1. CASE Step(c, "merge") /\ GatePasses(q.ci \/ ~TierEligible)
    <3>0. q.ci
      BY <2>1 DEF GatePasses
    <3>1. PICK r \in CallRecs : Moved(c, r) /\ r.pc = "merge" /\ r.ci = q.ci /\ r.sha = q.sha
      BY <1>0, <2>1, StepIs DEF CommandPcs, Carrying
    <3>2. GateHolds(r) /\ (~HandCommitsAfterPush => CarriesReviewed(r))
      BY <1>0, <2>0, <3>0, <3>1 DEF GateHolds, CarriesReviewed, InGates, Carrying, WorktreeExists
    <3>3. QED  BY <1>6, <3>1, <3>2
  <2>2. CASE Step(c, "awaiting") /\ ~q.ci
    <3>1. PICK r \in CallRecs : Moved(c, r) /\ r.pc = "awaiting" /\ r.ci = q.ci
      BY <1>0, <2>2, StepIs DEF CommandPcs
    <3>2. GateHolds(r) /\ CarriesReviewed(r)
      BY <2>2, <3>1, IdlePromisesNothing
    <3>3. QED  BY <1>6, <3>1, <3>2
  <2>3. CASE End(c)
    BY <1>4, <2>3
  <2>4. CASE Fail(c)
    BY <1>5, <2>4
  <2>5. QED
    <3>1. ~GatePasses(q.ci \/ ~TierEligible) /\ ~HardBlocked /\ TierEligible => ~q.ci
      BY DEF GatePasses
    <3>2. \/ Step(c, "merge") /\ GatePasses(q.ci \/ ~TierEligible)
          \/ Fail(c)
          \/ Step(c, "awaiting") /\ TierEligible
             /\ ~GatePasses(q.ci \/ ~TierEligible) /\ ~HardBlocked
          \/ End(c)
      BY <1>14 DEF MergeGate
    <3>3. QED  BY <2>1, <2>2, <2>3, <2>4, <3>1, <3>2
<1>15. QED
  BY <1>1, <1>2, <1>3, <1>7, <1>8, <1>9, <1>10, <1>11, <1>12, <1>13, <1>14

\* A commit is only made while there is none with the reviewed content.
LEMMA CommitKeeps ==
    ASSUME PrInv, NEW c \in Callers, CommitReviewed(c)
    PROVE  PrInv'
<1> DEFINE q == call[c]
<1>0. /\ PrShapes /\ q \in CallRecs /\ GateHolds(q)
      /\ ~HandCommitsAfterPush => CarriesReviewed(q)
  BY DEF PrInv, PrShapes, MergeInv, WorktreeExists, Worktrees
<1>1. /\ UNCHANGED <<origin, prs, green, prRow>>
      /\ q.pc = "commit" /\ Content(wt.tree) = "reviewed"
  BY <1>0 DEF CommitReviewed, GateHolds, InGates, WorktreeExists
<1>2. ASSUME UNCHANGED wt, Step(c, "verify"), WorktreeExists => Content(HeadTree) = "reviewed"
      PROVE  PrInv'
  <2>1. PICK r \in CallRecs : Moved(c, r) /\ r.pc = "verify" /\ r.ci = q.ci
    BY <1>0, <1>2, StepIs DEF CommandPcs, InGates
  <2>2. GateHolds(r) /\ (~HandCommitsAfterPush => CarriesReviewed(r))
    BY <1>0, <1>1, <1>2, <2>1 DEF GateHolds, CarriesReviewed, InGates, Carrying, WorktreeExists
  <2>3. QED  BY <1>1, <1>2, <2>1, <2>2, CallerMoves
<1>3. CASE ~q.staged /\ Step(c, "verify") /\ UNCHANGED <<wt, hitch>>
  BY <1>0, <1>1, <1>2, <1>3 DEF GateHolds, WorktreeExists
<1>4. CASE Fail(c) /\ UNCHANGED wt
  BY <1>1, <1>4, CallerEnds DEF Fail
<1>5. CASE /\ WorktreeExists /\ StagesSomething /\ Step(c, "verify")
           /\ wt' = [wt EXCEPT !.log = Append(@, Commit(Message[c], Content(wt.tree)))]
  <2> DEFINE m == Commit(Message[c], "reviewed")
  <2>1. /\ wt'.log = Append(wt.log, m) /\ wt'.tree = wt.tree
        /\ m \in CommitRecs /\ m.tree = "reviewed"
        /\ wt' \in Worktrees /\ WorktreeExists'
        /\ wt.log \in Seq(CommitRecs)
    <3>1. m \in CommitRecs /\ m.tree = "reviewed"
      BY DEF Commit, CommitRecs, Messages, CommitTrees, Trees
    <3>2. wt.log \in Seq(CommitRecs)
      BY <1>0 DEF PrShapes, Logs, WorktreeExists, Worktrees
    <3>3. Append(wt.log, m) \in Logs
      BY <3>1, <3>2 DEF Logs
    <3>4. wt' = [wt EXCEPT !.log = Append(wt.log, m)]
      BY <1>1, <1>5
    <3>5. QED  BY <1>0, <1>5, <3>1, <3>2, <3>3, <3>4 DEF PrShapes, Worktrees, WorktreeExists
  <2>2. HeadTree' = "reviewed"
    <3>0. wt'.log = Append(wt.log, m) /\ m \in CommitRecs /\ wt.log \in Seq(CommitRecs)
      BY <2>1
    <3>1. wt'.log # <<>> /\ Last(wt'.log) = m
      BY ONLY <3>0 DEF Last
    <3>2. QED  BY <2>1, <3>1 DEF HeadTree
  <2>3. ~IsReviewedCommit(wt.log) /\ ~Settled
    <3>1. Content(HeadTree) # "reviewed"
      BY <1>1, <1>5 DEF StagesSomething
    <3>2. ASSUME IsReviewedCommit(wt.log)
          PROVE  FALSE
      <4>1. wt.log # <<>> /\ Last(wt.log).tree = "reviewed"
        BY <2>1, <3>2 DEF IsReviewedCommit, Last
      <4>2. QED  BY <3>1, <4>1 DEF HeadTree, Content
    <3>3. QED  BY <1>5, <3>2 DEF Settled
  <2>4. PICK r \in CallRecs : Moved(c, r) /\ r.pc = "verify" /\ r.ci = q.ci
    BY <1>0, <1>5, StepIs DEF CommandPcs, InGates
  <2>5. /\ call' \in [Callers -> CallRecs] /\ call'[c] = r
        /\ \A e \in Callers \ {c} : call'[e] = call[e]
    BY <1>0, <2>4 DEF PrShapes, Moved, WorktreeExists, Worktrees
  <2>6. PrShapes'
    BY <1>0, <1>1, <2>1, <2>5 DEF PrShapes, WorktreeExists, Worktrees
  <2>7. Content(HeadTree') = "reviewed" /\ Content(wt'.tree) = "reviewed"
    BY <1>1, <2>1, <2>2 DEF Content
  <2>8. ASSUME NEW e \in Callers
        PROVE  GateHolds(call[e])'
    <3>1. CASE e = c
      BY <2>4, <2>5, <2>7, <3>1 DEF GateHolds, WorktreeExists
    <3>2. CASE e # c
      <4>1. call'[e] = call[e] /\ call[e].pc # "push"
        BY <1>5, <2>3, <2>5, <3>2 DEF PrInv, GateHolds, WorktreeExists
      <4>2. QED  BY <2>7, <4>1 DEF GateHolds, WorktreeExists
    <3>3. QED  BY <3>1, <3>2
  <2>9. ASSUME ~HandCommitsAfterPush
        PROVE  MergeInv'
    <3>1. MergeInv
      BY <2>9 DEF PrInv
    <3>2. ASSUME NEW e \in Callers
          PROVE  CarriesReviewed(call[e])'
      <4>1. CASE e = c
        BY <1>0, <1>1, <2>4, <2>5, <2>9, <4>1 DEF CarriesReviewed, Carrying
      <4>2. CASE e # c
        <5>1. CarriesReviewed(call[e]) /\ call'[e] = call[e]
          BY <2>5, <3>1, <4>2 DEF MergeInv
        <5>2. QED  BY <1>1, <2>3, <5>1 DEF CarriesReviewed, IsReviewedCommit
      <4>3. QED  BY <4>1, <4>2
    <3>3. PrsHold' /\ ~PrCreated'
      BY <1>1, <2>3, <3>1 DEF MergeInv, PrsHold, PrCreated, IsReviewedCommit
    <3>4. QED  BY <3>2, <3>3 DEF MergeInv
  <2>10. QED  BY <2>6, <2>8, <2>9 DEF PrInv
<1>6. QED  BY <1>3, <1>4, <1>5 DEF CommitReviewed

LEMMA ReplacedInSeq ==
    ASSUME NEW S, NEW s \in Seq(S), NEW i \in 1..Len(s), NEW e \in S,
           NEW t, t = [s EXCEPT ![i] = e]
    PROVE  /\ t \in Seq(S) /\ Len(t) = Len(s) /\ t[i] = e
           /\ \A j \in 1..Len(s) : j # i => t[j] = s[j]
<1>1. s \in [1..Len(s) -> S] /\ Len(s) \in Nat
  OBVIOUS
<1>2. t \in [1..Len(s) -> S]
  BY <1>1
<1>3. t \in Seq(S) /\ Len(t) = Len(s)
  BY <1>1, <1>2
<1>4. QED  BY <1>1, <1>3

LEMMA ReviewedCarriesOver ==
    ASSUME wt' = wt, origin # <<>> => origin' # <<>>, green \subseteq green',
           NEW r, CarriesReviewed(r)
    PROVE  CarriesReviewed(r)'
BY DEF CarriesReviewed, Settled, IsReviewedCommit, WorktreeExists

LEMMA PushKeeps ==
    ASSUME PrInv, NEW c \in Callers, PushBranch(c)
    PROVE  PrInv'
<1> DEFINE q == call[c]
<1>0. /\ PrShapes /\ q \in CallRecs /\ GateHolds(q) /\ q.pc = "push"
      /\ ~HandCommitsAfterPush => CarriesReviewed(q) /\ PrsHold /\ (PrCreated => Settled)
  BY DEF PrInv, PrShapes, MergeInv, PushBranch, WorktreeExists, Worktrees
<1>1. UNCHANGED <<wt, prs, green, prRow>>
  BY DEF PushBranch
<1>2. wt.log \in Logs /\ (WorktreeExists => IsReviewedCommit(wt.log) /\ wt.log # <<>>)
  BY <1>0 DEF GateHolds, PrShapes, IsReviewedCommit, WorktreeExists, Worktrees
<1>3. origin' \in Logs /\ (origin # <<>> => origin' # <<>>)
  BY <1>0, <1>2 DEF PushBranch, PrShapes, WorktreeExists, Worktrees
<1>4. ~HandCommitsAfterPush => PrsHold' /\ (PrCreated' => Settled')
  BY <1>0, <1>1, <1>3 DEF PrsHold, IsReviewedCommit, PrCreated, Settled, WorktreeExists
<1>5. ASSUME End(c)
      PROVE  PrInv'
  <2>1. Ended(c) \in CallRecs /\ GateHolds(Ended(c)) /\ CarriesReviewed(Ended(c)) /\ Moved(c, Ended(c))
    BY <1>0, <1>5, EndedIs, IdlePromisesNothing DEF End, Moved
  <2>3. PICK e \in CallRecs : e = Ended(c)
    BY <2>1
  <2>4. CarriesReviewed(e)'
    BY <1>1, <1>3, <2>1, <2>3, ReviewedCarriesOver
  <2>5. QED  BY <1>0, <1>1, <1>3, <1>4, <2>1, <2>3, <2>4, FrameOfCaller DEF PrShapes, WorktreeExists, Worktrees
<1>6. ASSUME WorktreeExists, origin' = wt.log,
             call' = [call EXCEPT ![c].pc = "find", ![c].sha = wt.log]
      PROVE  PrInv'
  <2>1. PICK r \in CallRecs : r = [q EXCEPT !.pc = "find", !.sha = wt.log]
    BY <1>0, <1>2 DEF CallRecs, CommandPcs, Carrying
  <2>2. r.pc = "find" /\ r.sha = wt.log /\ r.ci = q.ci
    BY <1>0, <2>1 DEF CallRecs
  <2>3. Moved(c, r)
    BY <1>0, <1>6, <2>1 DEF Moved, PrShapes, WorktreeExists, Worktrees
  <2>4. GateHolds(r)
    BY <2>2 DEF GateHolds, InGates, WorktreeExists
  <2>5. ~HandCommitsAfterPush => CarriesReviewed(r)'
    BY <1>0, <1>1, <1>2, <1>6, <2>2 DEF CarriesReviewed, Settled, IsReviewedCommit, Carrying, WorktreeExists
  <2>6. QED  BY <1>0, <1>1, <1>3, <1>4, <2>3, <2>4, <2>5, FrameOfCaller DEF PrShapes, WorktreeExists, Worktrees
<1>7. QED  BY <1>5, <1>6 DEF PushBranch, ClosePushFailed

LEMMA CreateAtGitHubKeeps ==
    ASSUME PrInv, NEW c \in Callers, GhPrCreate(c)
    PROVE  PrInv'
<1> DEFINE q == call[c]
<1>0. /\ PrShapes /\ q \in CallRecs /\ GateHolds(q) /\ q.pc = "create" /\ Len(prs) \in Nat
      /\ ~HandCommitsAfterPush => CarriesReviewed(q) /\ PrsHold /\ (PrCreated => Settled)
  BY DEF PrInv, PrShapes, MergeInv, GhPrCreate, WorktreeExists, Worktrees
<1>1. UNCHANGED <<wt, origin, green, prRow>>
  BY DEF GhPrCreate
<1>2. prs' \in Seq(PrRecs) /\ (~HandCommitsAfterPush => PrsHold' /\ (PrCreated' => Settled'))
  <2>1. CASE UNCHANGED prs
    BY <1>0, <1>1, <2>1 DEF PrsHold, IsReviewedCommit, PrCreated, Settled, PrShapes, WorktreeExists, Worktrees
  <2>2. ASSUME NEW p \in PrRecs, p.state = "open", p.by = "nobody", prs' = Append(prs, p)
        PROVE  prs' \in Seq(PrRecs) /\ (~HandCommitsAfterPush => PrsHold' /\ (PrCreated' => Settled'))
    <3>1. /\ prs' \in Seq(PrRecs) /\ Len(prs') = Len(prs) + 1
          /\ \A i \in 1..Len(prs) : prs'[i] = prs[i]
          /\ prs'[Len(prs) + 1] = p
      BY <1>0, <2>2 DEF PrShapes, WorktreeExists, Worktrees
    <3>2. PrsHold => PrsHold'
      BY <1>0, <1>1, <2>2, <3>1 DEF PrsHold, IsReviewedCommit
    <3>3. QED  BY <1>0, <1>1, <3>1, <3>2 DEF PrCreated, Settled, IsReviewedCommit, WorktreeExists
  <2>3. [state |-> "open", draft |-> c \notin CloseCallers, by |-> "nobody", head |-> <<>>] \in PrRecs
    BY DEF PrRecs, Logs
  <2>4. QED  BY <2>1, <2>2, <2>3 DEF GhPrCreate
<1>3. ASSUME NEW r \in CallRecs, Moved(c, r), r.pc \in {"record", "failed"},
             r.sha = q.sha, r.ci = q.ci
      PROVE  PrInv'
  <2>1. GateHolds(r) /\ (~HandCommitsAfterPush => CarriesReviewed(r))
    BY <1>0, <1>3 DEF GateHolds, CarriesReviewed, InGates, Carrying, WorktreeExists
  <2>2. ~HandCommitsAfterPush => CarriesReviewed(r)'
    BY <1>1, <2>1, ReviewedCarriesOver
  <2>3. QED  BY <1>0, <1>1, <1>2, <1>3, <2>1, <2>2, FrameOfCaller DEF PrShapes, WorktreeExists, Worktrees
<1>4. CASE Step(c, "failed")
  <2>1. PICK r \in CallRecs : Moved(c, r) /\ r.pc = "failed" /\ r.sha = q.sha /\ r.ci = q.ci
    BY <1>0, <1>4, StepIs DEF CommandPcs
  <2>2. QED  BY <1>3, <2>1
<1>5. CASE call' = [call EXCEPT ![c].pc = "record", ![c].number = Len(prs) + 1]
  <2>1. PICK n \in Nat : n = Len(prs) + 1
    BY <1>0
  <2>2. PICK r \in CallRecs : r = [q EXCEPT !.pc = "record", !.number = n]
    BY <1>0 DEF CallRecs, CommandPcs, Carrying
  <2>3. r.pc = "record" /\ r.sha = q.sha /\ r.ci = q.ci
    BY <1>0, <2>2 DEF CallRecs
  <2>4. call' = [call EXCEPT ![c].pc = "record", ![c].number = n]
    BY <1>5, <2>1
  <2>5. Moved(c, r)
    BY <1>0, <2>4, <2>2 DEF Moved, PrShapes, WorktreeExists, Worktrees
  <2>6. QED  BY <1>3, <2>3, <2>5
<1>6. QED  BY <1>4, <1>5 DEF GhPrCreate

LEMMA RecordKeeps ==
    ASSUME PrInv, NEW c \in Callers, RecordFailedPr(c) \/ RecordPrCreated(c)
    PROVE  PrInv'
<1> DEFINE q == call[c]
<1>0. /\ PrShapes /\ q \in CallRecs /\ GateHolds(q) /\ q.number \in Nat
      /\ ~HandCommitsAfterPush => CarriesReviewed(q) /\ PrsHold /\ (PrCreated => Settled)
  BY DEF PrInv, PrShapes, MergeInv, CallRecs, WorktreeExists, Worktrees
<1>1. UNCHANGED <<wt, origin, green, prs>>
  BY DEF RecordFailedPr, RecordPrCreated, world
<1>2. PrsHold => PrsHold'
  BY <1>1 DEF PrsHold, IsReviewedCommit
<1>3. ASSUME NEW r \in CallRecs, Moved(c, r), GateHolds(r),
             ~HandCommitsAfterPush => CarriesReviewed(r),
             prRow' \in [status: {"none", "created", "failed"}, number: Nat],
             ~HandCommitsAfterPush => (PrCreated' => Settled)
      PROVE  PrInv'
  <2>1. ~HandCommitsAfterPush => CarriesReviewed(r)' /\ PrsHold' /\ (PrCreated' => Settled')
    BY <1>0, <1>1, <1>2, <1>3, ReviewedCarriesOver DEF Settled, IsReviewedCommit, WorktreeExists
  <2>2. QED  BY <1>0, <1>1, <1>3, <2>1, FrameOfCaller DEF PrShapes, WorktreeExists, Worktrees
<1>4. /\ Ended(c) \in CallRecs /\ GateHolds(Ended(c)) /\ CarriesReviewed(Ended(c))
      /\ End(c) => Moved(c, Ended(c))
  BY <1>0, EndedIs, IdlePromisesNothing DEF End, Moved
<1>5. CASE RecordFailedPr(c)
  <2>1. prRow' \in [status: {"none", "created", "failed"}, number: Nat] /\ ~PrCreated'
    BY <1>5 DEF RecordFailedPr, PrCreated
  <2>2. QED  BY <1>3, <1>4, <1>5, <2>1 DEF RecordFailedPr, Fail
<1>6. CASE RecordPrCreated(c)
  <2>1. CASE Fail(c) /\ UNCHANGED prRow
    BY <1>0, <1>3, <1>4, <2>1 DEF Fail, PrShapes, PrCreated, WorktreeExists, Worktrees
  <2>2. CASE prRow' = [status |-> "created", number |-> q.number] /\ Step(c, "created")
    <3>1. PICK r \in CallRecs : Moved(c, r) /\ r.pc = "created" /\ r.sha = q.sha /\ r.ci = q.ci
      BY <1>0, <2>2, StepIs DEF CommandPcs, Carrying
    <3>2. q.pc = "record"
      BY <1>6 DEF RecordPrCreated
    <3>3. GateHolds(r) /\ (~HandCommitsAfterPush => CarriesReviewed(r) /\ Settled)
      BY <1>0, <3>1, <3>2 DEF GateHolds, CarriesReviewed, InGates, Carrying, WorktreeExists
    <3>4. QED  BY <1>0, <1>3, <2>2, <3>1, <3>3
  <2>3. QED  BY <1>6, <2>1, <2>2 DEF RecordPrCreated
<1>7. QED  BY <1>5, <1>6

LEMMA MergeKeeps ==
    ASSUME PrInv, NEW c \in Callers, GhPrMerge(c)
    PROVE  PrInv'
<1> DEFINE q == call[c]
<1>0. /\ PrShapes /\ q \in CallRecs /\ GateHolds(q) /\ q.pc = "merge"
      /\ ~HandCommitsAfterPush => CarriesReviewed(q) /\ PrsHold /\ (PrCreated => Settled)
  BY DEF PrInv, PrShapes, MergeInv, GhPrMerge, WorktreeExists, Worktrees
<1>1. UNCHANGED <<wt, origin, green, prRow>>
  BY DEF GhPrMerge
<1>2. PICK i : /\ i = q.number
               /\ \/ UNCHANGED prs
                  \/ /\ origin = q.sha
                     /\ prs' = [prs EXCEPT ![i].state = "merged", ![i].by = c, ![i].head = origin]
  BY DEF GhPrMerge
<1>3. prs' \in Seq(PrRecs) /\ (~HandCommitsAfterPush => PrsHold')
  <2>1. CASE UNCHANGED prs
    BY <1>0, <1>1, <2>1 DEF PrsHold, IsReviewedCommit, PrShapes, WorktreeExists, Worktrees
  <2>2. CASE /\ origin = q.sha /\ i \in 1..Len(prs)
             /\ prs' = [prs EXCEPT ![i].state = "merged", ![i].by = c, ![i].head = origin]
    <3>0. prs[i] \in PrRecs /\ origin \in Logs /\ c \in Callers \cup {"nobody"}
      BY <1>0, <2>2 DEF PrShapes, WorktreeExists, Worktrees
    <3>1. PICK p \in PrRecs : p = [prs[i] EXCEPT !.state = "merged", !.by = c, !.head = origin]
      BY <3>0 DEF PrRecs
    <3>2. p.state = "merged" /\ p.head = origin
      BY <3>0, <3>1 DEF PrRecs
    <3>3. prs' = [prs EXCEPT ![i] = p]
      BY <1>0, <2>2, <3>1 DEF PrShapes, WorktreeExists, Worktrees
    <3>4. /\ prs' \in Seq(PrRecs) /\ Len(prs') = Len(prs) /\ prs'[i] = p
          /\ \A j \in 1..Len(prs) : j # i => prs'[j] = prs[j]
      <4>1. prs \in Seq(PrRecs)
        BY <1>0 DEF PrShapes, WorktreeExists, Worktrees
      <4>2. i \in 1..Len(prs) /\ p \in PrRecs
        BY <2>2
      <4>3. QED  BY ONLY <3>3, <4>1, <4>2, ReplacedInSeq
    <3>5. ~HandCommitsAfterPush => IsReviewedCommit(origin) /\ origin \in green
      BY <1>0, <2>2 DEF CarriesReviewed, Carrying
    <3>6. ~HandCommitsAfterPush => PrsHold'
      BY <1>0, <1>1, <3>2, <3>4, <3>5 DEF PrsHold, IsReviewedCommit
    <3>7. QED  BY <3>4, <3>6
  <2>3. CASE /\ i \notin 1..Len(prs)
             /\ prs' = [prs EXCEPT ![i].state = "merged", ![i].by = c, ![i].head = origin]
    <3>1. prs' = prs
      BY <1>0, <2>3 DEF PrShapes, WorktreeExists, Worktrees
    <3>2. QED  BY <2>1, <3>1
  <2>4. QED  BY <1>2, <2>1, <2>2, <2>3
<1>4. ~HandCommitsAfterPush => (PrCreated' => Settled')
  BY <1>0, <1>1 DEF PrCreated, Settled, IsReviewedCommit, WorktreeExists
<1>5. ASSUME NEW r \in CallRecs, Moved(c, r), GateHolds(r),
             ~HandCommitsAfterPush => CarriesReviewed(r)
      PROVE  PrInv'
  <2>1. ~HandCommitsAfterPush => CarriesReviewed(r)'
    BY <1>1, <1>5, ReviewedCarriesOver
  <2>2. QED  BY <1>0, <1>1, <1>3, <1>4, <1>5, <2>1, FrameOfCaller DEF PrShapes, WorktreeExists, Worktrees
<1>6. CASE Fail(c)
  <2>1. /\ Ended(c) \in CallRecs /\ GateHolds(Ended(c)) /\ CarriesReviewed(Ended(c))
        /\ Moved(c, Ended(c))
    BY <1>0, <1>6, EndedIs, IdlePromisesNothing DEF Fail, End, Moved
  <2>2. QED  BY <1>5, <2>1
<1>7. CASE Step(c, "close")
  <2>1. PICK r \in CallRecs : Moved(c, r) /\ r.pc = "close" /\ r.sha = q.sha /\ r.ci = q.ci
    BY <1>0, <1>7, StepIs DEF CommandPcs
  <2>2. GateHolds(r) /\ (~HandCommitsAfterPush => CarriesReviewed(r))
    BY <1>0, <2>1 DEF GateHolds, CarriesReviewed, InGates, Carrying, WorktreeExists
  <2>3. QED  BY <1>5, <2>1, <2>2
<1>8. QED  BY <1>6, <1>7 DEF GhPrMerge

-----------------------------------------------------------------------------
(* Everybody else, and the theorems.                                       *)

\* Whoever else acts leaves the commands' records alone, and the worktree
\* while one of them is between its gates and its push.
LEMMA FrameOfOthers ==
    ASSUME PrInv, UNCHANGED <<call, wt, prRow>>,
           origin' \in Logs, origin # <<>> => origin' # <<>>,
           prs' \in Seq(PrRecs), green \subseteq green',
           ~HandCommitsAfterPush => PrsHold'
    PROVE  PrInv'
<1>1. PrShapes'
  BY DEF PrInv, PrShapes, WorktreeExists, Worktrees
<1>2. (\A e \in Callers : GateHolds(call[e]))'
  BY DEF PrInv, GateHolds, HeadTree, IsReviewedCommit, WorktreeExists
<1>3. ASSUME ~HandCommitsAfterPush
      PROVE  MergeInv'
  <2>1. MergeInv
    BY <1>3 DEF PrInv
  <2>2. (\A e \in Callers : CarriesReviewed(call[e]))'
    BY <2>1 DEF MergeInv, CarriesReviewed, Settled, IsReviewedCommit, WorktreeExists
  <2>3. PrCreated' => Settled'
    BY <2>1 DEF MergeInv, PrCreated, Settled, IsReviewedCommit, WorktreeExists
  <2>4. QED  BY <1>3, <2>2, <2>3 DEF MergeInv
<1>4. QED  BY <1>1, <1>2, <1>3 DEF PrInv

LEMMA WorktreeMoves ==
    ASSUME PrInv, UNCHANGED <<call, origin, prs, green, prRow>>, Quiet,
           wt' \in Worktrees, WorktreeExists, WorktreeExists',
           ~HandCommitsAfterPush => wt'.log = wt.log \/ origin = <<>>
    PROVE  PrInv'
<1>1. PrShapes'
  BY DEF PrInv, PrShapes, WorktreeExists, Worktrees
<1>2. (\A e \in Callers : GateHolds(call[e]))'
  BY DEF Quiet, GateHolds, InGates, WorktreeExists
<1>3. ASSUME ~HandCommitsAfterPush
      PROVE  MergeInv'
  <2>1. MergeInv /\ (Settled => Settled')
    BY <1>3 DEF PrInv, Settled, IsReviewedCommit, WorktreeExists
  <2>2. (\A e \in Callers : CarriesReviewed(call[e]))'
    BY <2>1 DEF MergeInv, CarriesReviewed, IsReviewedCommit
  <2>3. PrsHold' /\ (PrCreated' => Settled')
    BY <2>1 DEF MergeInv, PrCreated, PrsHold, IsReviewedCommit
  <2>4. QED  BY <2>2, <2>3 DEF MergeInv
<1>4. QED  BY <1>1, <1>2, <1>3 DEF PrInv

\* A cleanup may take the worktree at any time; what was pushed stays.
LEMMA RemovalKeeps ==
    ASSUME PrInv, CleanupRemoves
    PROVE  PrInv'
<1>1. /\ UNCHANGED <<call, origin, prs, green, prRow>>
      /\ wt' \in Worktrees /\ wt'.log = <<>> /\ wt'.tree = wt.tree /\ ~WorktreeExists'
  <2>1. wt \in Worktrees /\ <<>> \in Logs
    BY DEF PrInv, PrShapes, Logs
  <2>2. wt' = [wt EXCEPT !.branch = "none", !.log = <<>>]
    BY DEF CleanupRemoves
  <2>3. wt'.branch = "none" /\ wt'.log = <<>> /\ wt'.tree = wt.tree /\ wt' \in Worktrees
    BY <2>1, <2>2 DEF Worktrees
  <2>4. QED  BY <2>3 DEF CleanupRemoves, WorktreeExists
<1>2. PrShapes'
  BY <1>1 DEF PrInv, PrShapes, Worktrees
<1>3. (\A e \in Callers : GateHolds(call[e]))'
  BY <1>1 DEF PrInv, GateHolds
<1>4. ASSUME ~HandCommitsAfterPush
      PROVE  MergeInv'
  <2>1. MergeInv /\ (Settled => Settled')
    BY <1>1, <1>4 DEF PrInv, Settled
  <2>2. (\A e \in Callers : CarriesReviewed(call[e]))'
    BY <1>1, <2>1 DEF MergeInv, CarriesReviewed, IsReviewedCommit
  <2>3. PrsHold' /\ (PrCreated' => Settled')
    BY <1>1, <2>1 DEF MergeInv, PrCreated, PrsHold, IsReviewedCommit
  <2>4. QED  BY <2>2, <2>3 DEF MergeInv
<1>5. QED  BY <1>2, <1>3, <1>4 DEF PrInv

LEMMA OtherStep ==
    ASSUME PrInv, Others
    PROVE  PrInv'
<1>0. /\ PrShapes /\ origin \in Logs /\ wt.log \in Logs
      /\ wt \in Worktrees
  BY DEF PrInv, PrShapes, WorktreeExists, Worktrees
<1>00. UNCHANGED prs /\ green \subseteq green' => (~HandCommitsAfterPush => PrsHold')
  BY DEF PrInv, MergeInv, PrsHold, IsReviewedCommit
<1>1. ASSUME NEW tree \in Trees, EditWorktree(tree)
      PROVE  PrInv'
  <2>1. /\ wt' \in Worktrees /\ wt'.log = wt.log /\ WorktreeExists /\ WorktreeExists'
        /\ UNCHANGED <<call, origin, prs, green, prRow>> /\ Quiet
    BY <1>0, <1>1 DEF EditWorktree, Worktrees, WorktreeExists
  <2>2. QED  BY <2>1, WorktreeMoves
<1>2. ASSUME NEW msg \in Messages, NEW tree \in CommitTrees, CommitByHand(msg, tree)
      PROVE  PrInv'
  <2>1. Commit(msg, tree) \in CommitRecs
    BY DEF Commit, CommitRecs
  <2>2. Append(wt.log, Commit(msg, tree)) \in Logs
    BY <1>0, <2>1 DEF Logs
  <2>3. wt' = [wt EXCEPT !.log = Append(wt.log, Commit(msg, tree))]
    BY <1>2 DEF CommitByHand
  <2>4. wt' \in Worktrees /\ WorktreeExists /\ WorktreeExists'
    BY <1>0, <1>2, <2>2, <2>3 DEF CommitByHand, Worktrees, WorktreeExists
  <2>5. /\ UNCHANGED <<call, origin, prs, green, prRow>> /\ Quiet
        /\ ~HandCommitsAfterPush => origin = <<>>
    BY <1>2 DEF CommitByHand, HandMayCommit
  <2>6. QED  BY <2>4, <2>5, WorktreeMoves
<1>3. CASE CheckoutOther
  <2>1. /\ wt' \in Worktrees /\ wt'.log = wt.log /\ WorktreeExists /\ WorktreeExists'
        /\ UNCHANGED <<call, origin, prs, green, prRow>> /\ Quiet
    BY <1>0, <1>3 DEF CheckoutOther, Worktrees, WorktreeExists
  <2>2. QED  BY <2>1, WorktreeMoves
<1>4. CASE PushByHand
  <2>1. origin' = wt.log /\ IsPrefix(origin, wt.log) /\ UNCHANGED <<call, wt, prRow, prs, green>>
    BY <1>4 DEF PushByHand
  <2>2. origin # <<>> => wt.log # <<>>
    BY <1>0, <2>1 DEF IsPrefix, Logs
  <2>3. QED  BY <1>0, <1>00, <2>1, <2>2, FrameOfOthers DEF PrShapes, WorktreeExists, Worktrees
<1>5. CASE PushFromElsewhere
  <2>1. Commit("other", "drifted") \in CommitRecs
    BY DEF Commit, CommitRecs, Messages, CommitTrees, Trees
  <2>2. /\ origin' \in Logs /\ origin' # <<>> /\ UNCHANGED <<call, wt, prRow, prs, green>>
    BY <1>0, <1>5, <2>1 DEF PushFromElsewhere, Logs
  <2>3. QED  BY <1>0, <1>00, <2>2, FrameOfOthers DEF PrShapes, WorktreeExists, Worktrees
<1>6. CASE CiPasses \/ (\E verdict : ReviewDecides(verdict)) \/ CleanupRecords
             \/ VerdictArrives \/ ConsensusMoves
  <2>1. UNCHANGED <<call, wt, prRow, prs, origin>> /\ green \subseteq green'
    BY <1>6 DEF CiPasses, ReviewDecides, CleanupRecords, VerdictArrives, ConsensusMoves
  <2>2. QED  BY <1>0, <1>00, <2>1, FrameOfOthers DEF PrShapes, WorktreeExists, Worktrees
<1>7. ASSUME NEW i \in 1..Len(prs), NEW state \in {"closed", "merged"}, SettlePr(i, state)
      PROVE  PrInv'
  <2>1. prs \in Seq(PrRecs) /\ prs[i] \in PrRecs
    BY <1>0 DEF PrShapes, WorktreeExists, Worktrees
  <2>2. PICK p \in PrRecs : p = [prs[i] EXCEPT !.state = state, !.head = origin]
    BY <1>0, <2>1 DEF PrRecs
  <2>3. p.state = state /\ p.by = prs[i].by
    BY <2>1, <2>2 DEF PrRecs
  <2>4. prs' = [prs EXCEPT ![i] = p]
    BY <1>7, <2>1, <2>2 DEF SettlePr
  <2>5. /\ prs' \in Seq(PrRecs) /\ Len(prs') = Len(prs) /\ prs'[i] = p
        /\ \A j \in 1..Len(prs) : j # i => prs'[j] = prs[j]
    BY <2>1, <2>4, ReplacedInSeq
  <2>6. UNCHANGED <<call, wt, prRow, origin, green>> /\ prs[i].state = "open"
    BY <1>7 DEF SettlePr
  <2>7. ASSUME ~HandCommitsAfterPush
        PROVE  PrsHold'
    <3>1. PrsHold /\ p.by = "nobody" /\ "nobody" \notin CloseCallers
      BY <2>3, <2>6, <2>7, PullRequestAssumption DEF PrInv, MergeInv, PrsHold, Callers
    <3>2. QED  BY <2>5, <2>6, <3>1 DEF PrsHold, IsReviewedCommit
  <2>8. QED  BY <1>0, <2>5, <2>6, <2>7, FrameOfOthers DEF PrShapes, WorktreeExists, Worktrees
<1>8. \A c \in Callers : Message[c] \in Messages
  BY DEF Messages
<1>9. QED
  BY <1>1, <1>2, <1>3, <1>4, <1>5, <1>6, <1>7, <1>8, RemovalKeeps DEF Others, Messages, CommitTrees, Trees

LEMMA PrStep == PrInv /\ [PrNext]_prVars => PrInv'
<1> SUFFICES ASSUME PrInv, [PrNext]_prVars PROVE PrInv'
  OBVIOUS
<1>1. ASSUME NEW c \in Callers, CallerSteps(c)
      PROVE  PrInv'
  BY <1>1, ReadingStep, CommitKeeps, PushKeeps, CreateAtGitHubKeeps, RecordKeeps, MergeKeeps
     DEF CallerSteps
<1>2. CASE Others
  BY <1>2, OtherStep
<1>3. CASE UNCHANGED prVars
  <2>1. UNCHANGED <<call, wt, prRow, origin, prs, green>>
    BY <1>3 DEF prVars, world
  <2>2. ~HandCommitsAfterPush => PrsHold'
    BY <2>1 DEF PrInv, MergeInv, PrsHold, IsReviewedCommit
  <2>3. QED  BY <2>1, <2>2, FrameOfOthers DEF PrInv, PrShapes, WorktreeExists, Worktrees
<1>4. QED  BY <1>1, <1>2, <1>3 DEF PrNext

\* All of it holds in every state the commands, git, GitHub, the reviewers and
\* the people who work on the branch can reach.
THEOREM PullRequestInvariant == PrSpec => []PrInv
BY PrStarts, PrStep, PTL DEF PrSpec

OnlyReviewedGoesOut ==
    \A c \in Callers :
        (call[c].pc = "push" /\ call'[c] # call[c] /\ origin' # origin) =>
            IsReviewedCommit(origin')

\* For any set of callers, any messages and any number of retries: what a
\* command pushes is one commit with the reviewed content and a message of the
\* harness, also when people commit after a push (commitAndPushReviewed).
THEOREM PushesAreReviewed == PrSpec => OnlyReviewedIsPushed
<1>1. PrInv /\ [PrNext]_prVars => [OnlyReviewedGoesOut]_prVars
  <2> SUFFICES ASSUME PrInv, PrNext, NEW c \in Callers,
                      call[c].pc = "push", call'[c] # call[c], origin' # origin
               PROVE  IsReviewedCommit(origin')
    BY DEF OnlyReviewedGoesOut
  <2>1. ~Others
    <3>1. Others => UNCHANGED call
      BY DEF Others, EditWorktree, CommitByHand, CheckoutOther, PushByHand, PushFromElsewhere,
             CiPasses, SettlePr, ReviewDecides, CleanupRemoves, CleanupRecords, VerdictArrives, ConsensusMoves
    <3>2. QED  BY <3>1
  <2>2. PICK e \in Callers : PushBranch(e)
    BY <2>1, ZenonT(60) DEF PrNext, CallerSteps, PrCreateCommand, CloseAndPr, SalvageReviewBranch, PushGates,
         StageReviewed, CommitReviewed, VerifyBranch, FindOpenPr, GhPrCreate, RecordFailedPr,
         RecordPrCreated, PrCreateDone, IngestVerdicts, GhCiStatus, MergeGate, GhPrMerge,
         AwaitEnds, CloseHitch, CrashCaller, world
  <2>3. origin' = wt.log /\ WorktreeExists
    BY <2>2 DEF PushBranch
  <2>4. IsReviewedCommit(wt.log)
    BY <2>2, <2>3 DEF PushBranch, PrInv, GateHolds, WorktreeExists
  <2>5. QED  BY <2>3, <2>4
<1>2. QED  BY <1>1, PullRequestInvariant, PTL DEF PrSpec, OnlyReviewedIsPushed, OnlyReviewedGoesOut

\* What auto-merge merges is the reviewed commit and CI passed on it, as long
\* as nobody commits in the run's worktree after its branch was pushed: a
\* recorded pull request is taken to have the local tip as its reviewed head
\* (existingPrResult), which such a commit would move.
THEOREM MergesAreReviewed ==
    ASSUME ~HandCommitsAfterPush
    PROVE  PrSpec => []MergedIsReviewed
<1>1. PrInv => MergedIsReviewed
  BY DEF PrInv, MergeInv, PrsHold, MergedIsReviewed
<1>2. QED  BY <1>1, PullRequestInvariant, PTL
-----------------------------------------------------------------------------
(* The run's row implements RunRegister.                                   *)

RunStatusOK ==
    status \in {"needs_review", "approved", "changes_requested", "rejected", "cleaned"}

\* Only a verdict and a cleanup write the row: no command does.
StatusMoves ==
    \/ status' = status
    \/ status = "needs_review" /\ status' \in {"approved", "changes_requested", "rejected"}
    \/ status # "changes_requested" /\ status' = "cleaned"

LEMMA StatusStep ==
    ASSUME [PrNext]_prVars
    PROVE  StatusMoves
<1>1. ASSUME NEW c \in Callers, CallerSteps(c)
      PROVE  status' = status
  BY <1>1, ZenonT(60) DEF CallerSteps, PrCreateCommand, CloseAndPr, SalvageReviewBranch,
     PushGates, StageReviewed, CommitReviewed, VerifyBranch, PushBranch, FindOpenPr,
     GhPrCreate, RecordFailedPr, RecordPrCreated, PrCreateDone, IngestVerdicts, GhCiStatus,
     MergeGate, GhPrMerge, AwaitEnds, CloseHitch, CrashCaller, world
<1>2. ASSUME NEW verdict \in {"approved", "changes_requested", "rejected"},
             ReviewDecides(verdict)
      PROVE  StatusMoves
  BY <1>2 DEF ReviewDecides, StatusMoves
<1>3. CASE CleanupRecords
  BY <1>3 DEF CleanupRecords, CleanupAllowed, StatusMoves
<1>4. ASSUME Others, \A verdict \in {"approved", "changes_requested", "rejected"} :
                        ~ReviewDecides(verdict), ~CleanupRecords
      PROVE  status' = status
  BY <1>4 DEF Others, EditWorktree, CommitByHand, CheckoutOther, PushByHand,
     PushFromElsewhere, CiPasses, SettlePr, CleanupRemoves, VerdictArrives, ConsensusMoves
<1>5. CASE UNCHANGED prVars
  BY <1>5 DEF prVars, world, StatusMoves
<1>6. QED  BY <1>1, <1>2, <1>3, <1>4, <1>5 DEF PrNext, StatusMoves

\* For any set of commands: what they, the reviewers and a cleanup do to the
\* run is what RunRegister lets happen to a row whose process has ended, the
\* same promise RunExecution's rows keep (applyReviewDecision, recordCleanup).
THEOREM PullRequestsImplementRegister == PrSpec => ImplementsRegister
<1> DEFINE St == [r \in {"run"} |-> status]
<1>1. PrInit => RunStatusOK /\ Register!RegisterInit
  <2> SUFFICES ASSUME PrInit PROVE RunStatusOK /\ Register!RegisterInit
    OBVIOUS
  <2>1. status \in {"needs_review", "approved"}
    BY DEF PrInit
  <2>2. St \in [{"run"} -> Register!Stages]
    BY <2>1 DEF Register!Stages, Register!Verdicts
  <2>3. QED  BY <2>1, <2>2 DEF RunStatusOK, Register!RegisterInit
<1>2. RunStatusOK /\ [PrNext]_prVars => RunStatusOK'
  BY StatusStep DEF RunStatusOK, StatusMoves
<1>3. RunStatusOK /\ [PrNext]_prVars => [Register!RegisterNext]_(Register!registerVars)
  <2> SUFFICES ASSUME RunStatusOK, StatusMoves
               PROVE  [Register!RegisterNext]_(Register!registerVars)
    BY StatusStep
  <2>1. St["run"] = status /\ "run" \in {"run"}
    OBVIOUS
  <2>2. St' = [St EXCEPT !["run"] = status']
    OBVIOUS
  <2>3. CASE status' = status
    BY <2>3 DEF Register!registerVars
  <2>4. CASE status = "needs_review" /\ status' \in {"approved", "changes_requested", "rejected"}
    <3>1. Register!Judge("run", status')
      BY <2>1, <2>2, <2>4 DEF Register!Judge
    <3>2. QED  BY <2>4, <3>1 DEF Register!RegisterNext, Register!Verdicts
  <2>5. CASE status # "changes_requested" /\ status' = "cleaned"
    <3>1. Register!CleanUp("run")
      BY <2>1, <2>2, <2>5 DEF Register!CleanUp, RunStatusOK
    <3>2. QED  BY <3>1 DEF Register!RegisterNext
  <2>6. QED  BY <2>3, <2>4, <2>5 DEF StatusMoves
<1>4. QED
  BY <1>1, <1>2, <1>3, PTL DEF PrSpec, ImplementsRegister, Register!RegisterSpec
=============================================================================
