------------------------------ MODULE CardRun ------------------------------
(***************************************************************************)
(* One card's way through the real-mode state machine: runTask and         *)
(* runStateMachineLoop (orchestrator/state-machine.js), the handlers of    *)
(* steps/scripted.js, merge-forward.js, the re-enqueues of finalizePark,   *)
(* the merge-wait resume of orphan-scan.js and a maintainer's retry and    *)
(* continue (park-loop.js).                                                *)
(*                                                                         *)
(* A step is one handler; MERGE, whose two halves a crash can separate, is *)
(* two.  Every answer of a model call, of git, gh, the bench or CI is a    *)
(* choice.  The tree is known by the proofs it has; the pull request by    *)
(* what GitHub says of it.                                                 *)
(***************************************************************************)
EXTENDS Naturals, FiniteSets

CONSTANTS
  Cause,                 \* root causes DIAGNOSE can name
  DiagnoseBudget,        \* config.diagnoseBudget
  ValidateRejectBudget,  \* config.validateRejectBudget
  CiRetryBudget,         \* config.ciRetryBudget
  MainMovedRegateBudget, \* config.mainMovedRegateBudget
  TransientRetryBudget,  \* config.transientRetryBudget
  PoolWaits,             \* waits that fit in config.poolExhaustionWaitCapMs
  MergeWaitResumeMax,
  HopLimit,              \* HOP_LIMIT
  MaxReplies             \* bound: replies a maintainer gives

ASSUME CardRunAssumption ==
  /\ DiagnoseBudget \in Nat /\ ValidateRejectBudget \in Nat /\ CiRetryBudget \in Nat
  /\ MainMovedRegateBudget \in Nat /\ TransientRetryBudget \in Nat /\ PoolWaits \in Nat
  /\ MergeWaitResumeMax \in Nat /\ HopLimit \in Nat /\ MaxReplies \in Nat

VARIABLES
  st,      \* the state the run is in, or QUEUED, PARKED, DONE
  ctx,     \* the run's memory
  hops,    \* handlers this run has been through
  task,    \* the queue entry, task.json once it is taken
  park,    \* the last park: one a `continue` can resume, or not
  tried,   \* journal.jsonl: the sites whose merge-forward was attempted
  proof,   \* what has been shown of the tree in the worktree
  pr,      \* the attempt's pull request on GitHub
  bill,    \* history: what this change was charged since a maintainer's last reply
  refills, \* history: re-enqueues that forgot it
  replies

bills == <<bill, refills>>
vars == <<st, ctx, hops, task, park, tried, proof, pr, bills, replies>>

-----------------------------------------------------------------------------
Site == {"GATE", "CI_CHECKS"}
Running == {"INTAKE", "WORKTREE", "PLAN", "IMPLEMENT", "CHECK", "DIAGNOSE", "PUSH_PR",
            "GATE", "CI_CHECKS", "VALIDATE", "MERGE", "FINISH"}
State == Running \cup {"QUEUED", "PARKED", "DONE"}

\* What a machine re-enqueue carries: RESUME_CARRIED_COUNTERS, seenRootCauses.
Counters == [diagnoseAttempts : Nat, validateRejects : Nat, ciImplementRetries : Nat,
             outOfScopeRecheckUsed : Nat, seenRootCauses : SUBSET Cause]
Zero == [diagnoseAttempts |-> 0, validateRejects |-> 0, ciImplementRetries |-> 0,
         outOfScopeRecheckUsed |-> 0, seenRootCauses |-> {}]

\* outOfScopeRecheckPending: the site asked again, and whether the tree is
\* still the one DIAGNOSE called out of scope (headSha).
Pending == [from : Site \cup {"none"}, same : BOOLEAN]
NoPending == [from |-> "none", same |-> FALSE]

Ctx == [cameFrom : Running \cup {"none"}, counters : Counters, pending : Pending,
        mainMoveUsed : Nat, mergeForward : Site \cup {"none"},
        awaitingCheck : Site \cup {"none"},
        resumePush : BOOLEAN, resumeWait : BOOLEAN, enqueued : BOOLEAN]
NewCtx == [cameFrom |-> "none", counters |-> Zero, pending |-> NoPending,
           mainMoveUsed |-> 0, mergeForward |-> "none", awaitingCheck |-> "none",
           resumePush |-> FALSE, resumeWait |-> FALSE, enqueued |-> FALSE]

\* task.resume: none, a maintainer's continue, a pool wait, a merge wait.
Resume ==
  {r \in [kind : {"none", "continue", "pool", "mergeWait"},
          startState : {"none", "CHECK", "IMPLEMENT", "MERGE"},
          counters : Counters, pending : Pending, mergeWaits : Nat] :
     /\ r.kind = "none" <=> r.startState = "none"
     /\ r.kind = "mergeWait" <=> r.startState = "MERGE"}
NoResume == [kind |-> "none", startState |-> "none", counters |-> Zero,
             pending |-> NoPending, mergeWaits |-> 0]

Proof == {"check", "pushed", "gate", "ci", "validate"}
Pr == {"none", "open", "queued", "dropped", "merged", "closed"}
OpenPr == {"open", "queued", "dropped"}   \* dropped: removed from the merge queue

TypeOK ==
  /\ st \in State /\ ctx \in Ctx /\ hops \in Nat
  /\ task \in [resume : Resume, transientRetries : Nat, poolWaits : Nat]
  /\ park \in {"none", "resumable", "final"}
  /\ tried \subseteq Site /\ proof \subseteq Proof /\ pr \in Pr
  /\ bill \in Counters /\ refills \in Nat /\ replies \in 0..MaxReplies

Init ==
  /\ st = "QUEUED" /\ ctx = NewCtx /\ hops = 0
  /\ task = [resume |-> NoResume, transientRetries |-> 0, poolWaits |-> 0]
  /\ park = "none" /\ tried = {} /\ proof = {} /\ pr = "none"
  /\ bill = Zero /\ refills = 0 /\ replies = 0

-----------------------------------------------------------------------------
(* Moves of runStateMachineLoop and finalizePark.                          *)

Step(s) == st = s /\ hops < HopLimit

\* A new tree has no proofs, and a pending recheck is of the old one.
Kept(pending, p) == IF p = {} THEN [pending EXCEPT !.same = FALSE] ELSE pending

\* A handler returns the next state, leaving the memory c and the proofs p.
To(next, c, p) ==
  /\ st' = next /\ hops' = hops + 1 /\ proof' = p
  /\ ctx' = [c EXCEPT !.cameFrom = st, !.pending = Kept(@, p)]

\* finalizePark for a reason it does not retry: the process and its memory
\* end; what the worktree holds is found out by whoever resumes.
Park(class) ==
  /\ st' = "PARKED" /\ park' = class
  /\ ctx' = NewCtx /\ hops' = 0 /\ proof' = {}
  /\ UNCHANGED <<task, tried, pr, bills, replies>>

\* RESUMABLE_PARK_REASONS
Resumable == {"merge-conflict", "gate-merge-refused", "main-moved-merge-failed",
              "main-moved-twice", "merge-behind-base", "resume-precondition-failed",
              "diagnose-out-of-scope", "live-proof-missing"}
ParkOn(reason) == Park(IF reason \in Resumable THEN "resumable" ELSE "final")

\* reEnqueueTask: the process ends, the entry is what the next one knows.  One
\* without a resume starts over with no charges.
Requeue(t) ==
  /\ st' = "QUEUED" /\ task' = t
  /\ ctx' = NewCtx /\ hops' = 0 /\ proof' = {}
  /\ refills' = IF t.resume.kind = "none" THEN refills + 1 ELSE refills
  /\ UNCHANGED <<park, tried, pr, bill, replies>>

SkipsWork == {"PLAN", "IMPLEMENT", "DIAGNOSE"}   \* RESUME_SKIPS_WORK_STATES

\* carriedResume
CarriedResume(last) ==
  CASE task.resume.kind = "none" -> NoResume
    [] task.resume.kind = "pool" /\ last \in SkipsWork -> NoResume
    [] OTHER -> [task.resume EXCEPT
         !.startState = IF task.resume.kind = "mergeWait" THEN "MERGE"
                        ELSE IF last = "IMPLEMENT" THEN "IMPLEMENT" ELSE "CHECK",
         !.counters = ctx.counters, !.pending = ctx.pending]

\* poolWaitResume: a run that is not itself a resume gets one out of VALIDATE.
PoolWaitResume(last) ==
  IF task.resume.kind \in {"continue", "mergeWait"} THEN CarriedResume(last)
  ELSE IF last = "VALIDATE"
  THEN [kind |-> "pool", startState |-> "CHECK", counters |-> ctx.counters,
        pending |-> ctx.pending, mergeWaits |-> 0]
  ELSE NoResume

\* Where TRANSIENT_RETRY_REASONS come from: nightly-red-holding-intake and
\* claim-rate-limited; the bench's; llm-transport-failed of the steps.
TransientAt == {"INTAKE", "WORKTREE", "GATE", "PLAN", "IMPLEMENT", "DIAGNOSE", "VALIDATE"}

\* isTransientRetryReason, while the budget lasts.
MayRetry == st \in TransientAt /\ task.transientRetries < TransientRetryBudget

Transient ==
  \/ /\ MayRetry
     /\ Requeue([task EXCEPT !.transientRetries = @ + 1, !.resume = CarriedResume(st)])
  \/ ~MayRetry /\ Park("final")

\* Where ACCOUNT_POOL_PARK_REASON_FAMILY comes from: the steps that call a model.
PoolAt == {"PLAN", "IMPLEMENT", "DIAGNOSE", "VALIDATE"}

\* poolCooldownDeadlineMs: the entry waits for the first account to recover.
MayWait == st \in PoolAt /\ task.poolWaits < PoolWaits

PoolWait ==
  \/ /\ MayWait
     /\ Requeue([task EXCEPT !.poolWaits = @ + 1, !.resume = PoolWaitResume(st)])
  \/ ~MayWait /\ Park("final")

\* A charge k made to a set of counters: the run's, and the bill.
Plus(n, k) == [n EXCEPT ![k] = @ + 1]
Charge(k) == [ctx EXCEPT !.counters = Plus(@, k)]

-----------------------------------------------------------------------------
(* runTask: a process takes the entry.                                     *)

Start(s, c) ==
  /\ st' = s /\ ctx' = c /\ hops' = 0
  /\ UNCHANGED <<park, tried, pr, replies>>

TakeFresh ==
  /\ st = "QUEUED" /\ task.resume.kind = "none"
  /\ Start("INTAKE", NewCtx)
  /\ UNCHANGED <<task, proof, bills>>

\* restoreResumeCounters
Restored_WithoutCounters == NewCtx
Restored == [NewCtx EXCEPT !.counters = task.resume.counters, !.pending = task.resume.pending]

\* prepareResume accepts the pull request and the worktree, which holds the
\* tree that was pushed, or work in flight on top of it.
TakeResume ==
  /\ st = "QUEUED" /\ task.resume.kind # "none" /\ pr \in OpenPr
  /\ \E p \in {{}, {"pushed"}} :
       /\ proof' = p
       /\ Start(task.resume.startState,
                [Restored EXCEPT !.pending = Kept(@, p),
                                 !.resumePush = (task.resume.startState = "CHECK"),
                                 !.resumeWait = (task.resume.startState = "MERGE")])
  /\ UNCHANGED <<task, bills>>

\* restartRefusedMachineResume: a refused pool-wait resume starts over at
\* INTAKE, with what the change was charged.
RestartRefused ==
  /\ st = "QUEUED" /\ task.resume.kind = "pool"
  /\ Start("INTAKE", Restored)
  /\ task' = [task EXCEPT !.resume = NoResume]
  /\ UNCHANGED <<proof, bills>>

\* Refused because the pull request of a merge wait has merged.
ResumeMerged ==
  /\ st = "QUEUED" /\ task.resume.startState = "MERGE" /\ pr = "merged"
  /\ Start("FINISH", [Restored EXCEPT !.cameFrom = "MERGE"])
  /\ UNCHANGED <<task, proof, bills>>

\* Any other refusal parks: resume-precondition-failed, or a reason of its own.
RefuseResume ==
  /\ st = "QUEUED" /\ task.resume.kind # "none"
  /\ task.resume.startState = "MERGE" => pr # "merged"
  /\ \/ Park("final")
     \/ task.resume.kind # "pool" /\ Park("resumable")

-----------------------------------------------------------------------------
(* The handlers, INTAKE to PUSH_PR.                                        *)

Intake ==
  /\ Step("INTAKE")
  /\ \/ To("WORKTREE", ctx, proof) /\ UNCHANGED <<task, park, tried, pr, bills, replies>>
     \/ Park("final")
     \/ Transient

\* sweepWorktreeLeftovers closes the last attempt's open pull request and
\* deletes its branch; the worktree is new.
FreshWorktree ==
  /\ To("PLAN", ctx, {})
  /\ pr' = "none"
  /\ UNCHANGED <<task, park, tried, bills, replies>>

Worktree == Step("WORKTREE") /\ (FreshWorktree \/ Park("final") \/ Transient)

\* decidePlanReuse: a card that ran before may find the plan of then, written
\* for the same main, and no model is called.
PlanReused ==
  /\ replies + task.transientRetries + task.poolWaits > 0
  /\ To("IMPLEMENT", ctx, proof)
  /\ UNCHANGED <<task, park, tried, pr, bills, replies>>

\* guardDeclaredFiles, of a new plan and of a reused one
ProtectedFiles == ParkOn("plan-requires-protected-files")

\* planInvalidDetail: the reply is no plan, from the fallback model neither.
PlanInvalid == ParkOn("plan-invalid")

PlanWritten ==
  /\ To("IMPLEMENT", ctx, proof)
  /\ UNCHANGED <<task, park, tried, pr, bills, replies>>

Plan ==
  /\ Step("PLAN")
  /\ PlanReused \/ PlanWritten \/ ProtectedFiles \/ PlanInvalid \/ Transient \/ PoolWait

\* stopReasonMayPark: IMPLEMENT may stop a card nothing was charged to yet.
MayStop == ctx.counters.diagnoseAttempts + ctx.counters.validateRejects
           + ctx.counters.ciImplementRetries = 0

\* implementStopReason
Stopped == MayStop /\ ParkOn("implement-stopped")

\* The session reports files (parseFilesChanged), and the worktree moved; or it
\* reports none, or claims a change the worktree does not have.
Changed ==
  /\ To("CHECK", ctx, {})
  /\ UNCHANGED <<task, park, tried, pr, bills, replies>>

NothingChanged ==
  /\ \E p \in {{}, proof} : To("DIAGNOSE", ctx, p)
  /\ UNCHANGED <<task, park, tried, pr, bills, replies>>

Implement ==
  /\ Step("IMPLEMENT") /\ ctx.mergeForward = "none"
  /\ Changed \/ NothingChanged \/ Stopped \/ Transient \/ PoolWait

\* sitePark: the park of a site whose merge of main is refused.
SitePark(site) == ParkOn(IF site = "CI_CHECKS" THEN "main-moved-merge-failed"
                                               ELSE "gate-merge-refused")

\* settleMergeForward: the session's result is a merge of main on the branch.
MergeResolved ==
  /\ To("CHECK", [ctx EXCEPT !.mergeForward = "none", !.awaitingCheck = ctx.mergeForward], {})
  /\ UNCHANGED <<task, park, tried, pr, bills, replies>>

\* handleMergeForwardImplement; mergeForwardFallback puts the branch back and
\* the card parks as it would have without the attempt.
MergeForward ==
  /\ Step("IMPLEMENT") /\ ctx.mergeForward # "none"
  /\ MergeResolved \/ SitePark(ctx.mergeForward)

\* runInvariantCheck: an invariant of the plan is broken; or a check is red.
CheckRed == To("DIAGNOSE", ctx, proof)

\* realCheck
CheckGreen == To("PUSH_PR", [ctx EXCEPT !.awaitingCheck = "none"], proof \cup {"check"})

Check ==
  /\ Step("CHECK")
  /\ CheckRed \/ CheckGreen
  /\ UNCHANGED <<task, park, tried, pr, bills, replies>>

\* The push is refused when it has nothing new, except right after a resume.
NothingToPush == "pushed" \in proof /\ ~ctx.resumePush

\* New commits take a queued pull request out of the merge queue.
PushPr ==
  /\ Step("PUSH_PR")
  /\ \/ /\ ~NothingToPush
        /\ To("GATE", [ctx EXCEPT !.resumePush = FALSE], proof \cup {"pushed"})
        /\ pr' = IF pr \notin OpenPr THEN "open"
                 ELSE IF pr = "queued" /\ "pushed" \notin proof THEN "dropped" ELSE pr
        /\ UNCHANGED <<task, park, tried, bills, replies>>
     \/ Park("final")

-----------------------------------------------------------------------------
(* GATE, CI_CHECKS and the moved main branch.                              *)

\* settleOutOfScopeRecheck: a site that does not fail again answers the recheck.
Settled(c) == IF c.pending.from = st THEN [c EXCEPT !.pending = NoPending] ELSE c

\* offerMergeForward: IMPLEMENT resolves the conflict, once per site.
OfferMergeForward(moved) ==
  /\ st \notin tried
  /\ To("IMPLEMENT", [moved EXCEPT !.mergeForward = st], proof)
  /\ tried' = tried \cup {st}

\* main moved under the branch and touches the same files: one re-gate of the
\* budget, never from a red main; a conflict is IMPLEMENT's or the maintainer's.
MainMoved ==
  LET moved == Settled([ctx EXCEPT !.mainMoveUsed = @ + 1]) IN
  \/ Park("final")
  \/ Park("resumable")
  \/ /\ ctx.mainMoveUsed < MainMovedRegateBudget
     /\ UNCHANGED <<task, park, pr, bills, replies>>
     /\ \/ (\E p \in {{}, proof} : To("CHECK", moved, p)) /\ UNCHANGED tried
        \/ OfferMergeForward(moved)

Gate ==
  /\ Step("GATE")
  /\ \/ /\ \/ To("CI_CHECKS", Settled(ctx), proof \cup {"gate"})
           \/ To("DIAGNOSE", ctx, proof)
        /\ UNCHANGED <<task, park, tried, pr, bills, replies>>
     \/ MainMoved
     \/ Park("final")
     \/ Transient

\* chargeCiImplementRetry: Lint and Coverage failures go back to IMPLEMENT.
CiImplementRetry_Uncharged ==
  /\ ctx.counters.ciImplementRetries < CiRetryBudget
  /\ To("IMPLEMENT", Settled(ctx), proof)
  /\ UNCHANGED <<task, park, tried, pr, bills, replies>>
CiImplementRetry ==
  /\ ctx.counters.ciImplementRetries < CiRetryBudget
  /\ To("IMPLEMENT", Settled(Charge("ciImplementRetries")), proof)
  /\ bill' = Plus(bill, "ciImplementRetries")
  /\ UNCHANGED <<task, park, tried, pr, refills, replies>>

CiChecks ==
  /\ Step("CI_CHECKS")
  /\ \/ /\ \/ To("VALIDATE", Settled(ctx), proof \cup {"ci"})
           \/ To("DIAGNOSE", ctx, proof)
        /\ UNCHANGED <<task, park, tried, pr, bills, replies>>
     \/ CiImplementRetry
     \/ MainMoved
     \/ Park("final")

-----------------------------------------------------------------------------
(* DIAGNOSE.                                                               *)

\* resolveDiagnoseHeadSha: git tells the head, or does not.
HeadRead == BOOLEAN

\* takeMatchingRecheck
MatchingRecheck ==
  IF ctx.pending.from = ctx.cameFrom /\ ctx.pending.same THEN HeadRead ELSE {FALSE}

\* What one diagnosis adds to a set of counters.
Diagnosed(n, cause, rechecks) ==
  [n EXCEPT !.diagnoseAttempts = @ + 1, !.seenRootCauses = @ \cup {cause},
            !.outOfScopeRecheckUsed = @ + rechecks]

\* A park of CHECK_RED_REASONS; mergeForwardCheckRedFallback makes it the park
\* of the merge-forward whose result is red.
DiagnosePark(reason) ==
  IF ctx.awaitingCheck = "none" THEN ParkOn(reason) ELSE SitePark(ctx.awaitingCheck)

\* recheckFailedPark: the site asked again failed again, on the same head.
Unanswered(match, reason) ==
  DiagnosePark(IF match THEN "diagnose-out-of-scope" ELSE reason)

\* OUT_OF_SCOPE_RECHECK_STATES and OUT_OF_SCOPE_RECHECK_BUDGET
Rechecks(match) == ~match /\ ctx.counters.outOfScopeRecheckUsed = 0 /\ ctx.cameFrom \in Site

\* routeOutOfScopeDiagnosis: the failure is not the card's.  Its site is asked
\* once more, with the same tree.
OutOfScope(match, cause) ==
  \/ ~Rechecks(match) /\ DiagnosePark("diagnose-out-of-scope")
  \/ /\ Rechecks(match)
     /\ To(ctx.cameFrom,
           [ctx EXCEPT !.counters = Diagnosed(@, cause, 1),
                       !.pending = [from |-> ctx.cameFrom, same |-> TRUE]], proof)
     /\ bill' = Diagnosed(bill, cause, 1)
     /\ UNCHANGED <<task, park, tried, pr, refills, replies>>

\* A cause of the card: new, and with budget left, it goes to IMPLEMENT.
NewCause(cause) ==
  \/ /\ cause \in ctx.counters.seenRootCauses
     /\ DiagnosePark("diagnose-duplicate-root-cause")
  \/ /\ cause \notin ctx.counters.seenRootCauses
     /\ ctx.counters.diagnoseAttempts + 1 >= DiagnoseBudget
     /\ DiagnosePark("diagnose-budget-exhausted")
  \/ /\ cause \notin ctx.counters.seenRootCauses
     /\ ctx.counters.diagnoseAttempts + 1 < DiagnoseBudget
     /\ To("IMPLEMENT", [ctx EXCEPT !.counters = Diagnosed(@, cause, 0),
                                    !.pending = NoPending], proof)
     /\ bill' = Diagnosed(bill, cause, 0)
     /\ UNCHANGED <<task, park, tried, pr, refills, replies>>

\* A reply without a root cause, flat or nested (unwrapNestedDiagnoseContract).
NoCause(match) == Unanswered(match, "diagnose-no-new-cause")

\* prepareJudgeInputs: the log of the failed gate, or the diff, is missing.
JudgeInputsMissing == ParkOn("judge-inputs-missing")

BudgetSpent ==
  /\ ctx.counters.diagnoseAttempts >= DiagnoseBudget
  /\ \E match \in MatchingRecheck : Unanswered(match, "diagnose-budget-exhausted")

Diagnosis ==
  \E match \in MatchingRecheck :
    NoCause(match) \/ \E cause \in Cause : OutOfScope(match, cause) \/ NewCause(cause)

Diagnose ==
  /\ Step("DIAGNOSE")
  /\ \/ BudgetSpent
     \/ /\ ctx.counters.diagnoseAttempts < DiagnoseBudget
        /\ Diagnosis \/ JudgeInputsMissing \/ Park("final") \/ Transient \/ PoolWait

-----------------------------------------------------------------------------
(* VALIDATE, MERGE and FINISH.                                             *)

\* The citations are judged first, in a session of their own.
CitationsFail ==
  \E reason \in {"citation-verifier-failed", "citation-false",
                 "citation-verifier-unrecognized-verdict"} : ParkOn(reason)

Passed ==
  /\ To("MERGE", ctx, proof \cup {"validate"})
  /\ UNCHANGED <<task, park, tried, pr, bills, replies>>

Rejected ==
  \/ /\ ctx.counters.validateRejects + 1 < ValidateRejectBudget
     /\ To("IMPLEMENT", Charge("validateRejects"), proof)
     /\ bill' = Plus(bill, "validateRejects")
     /\ UNCHANGED <<task, park, tried, pr, refills, replies>>
  \/ /\ ctx.counters.validateRejects + 1 >= ValidateRejectBudget
     /\ ParkOn("validate-reject-budget-exhausted")

Validate ==
  /\ Step("VALIDATE")
  /\ \/ JudgeInputsMissing \/ CitationsFail \/ Passed \/ Rejected
     \/ Park("final") \/ Transient \/ PoolWait

\* gh pr merge puts the pull request into the merge queue.
Enqueue ==
  /\ Step("MERGE") /\ ~ctx.resumeWait /\ ~ctx.enqueued
  /\ \/ /\ pr \in OpenPr \cup {"merged"}
        /\ ctx' = [ctx EXCEPT !.enqueued = TRUE]
        /\ pr' = IF pr = "merged" THEN pr ELSE "queued"
        /\ UNCHANGED <<st, hops, task, park, tried, proof, bills, replies>>
     \/ Park("final")

\* parkFromMergeCause: the cause GitHub gives, where main moved.
CausePark == \E reason \in {"merge-conflict", "merge-behind-base"} : ParkOn(reason)

\* regateAfterNonLanding: GitHub says the base moved under a pull request it
\* will not merge.
RegateMerge_SkipsCheck ==
  /\ pr = "dropped"
  /\ \/ /\ ctx.mainMoveUsed < MainMovedRegateBudget
        /\ \E p \in {{}, proof} :
             To("GATE", [ctx EXCEPT !.mainMoveUsed = @ + 1, !.enqueued = FALSE], p)
        /\ UNCHANGED <<task, park, tried, pr, bills, replies>>
     \/ CausePark
RegateMerge ==
  /\ pr = "dropped"
  /\ \/ /\ ctx.mainMoveUsed < MainMovedRegateBudget
        /\ \E p \in {{}, proof} :
             To("CHECK", [ctx EXCEPT !.mainMoveUsed = @ + 1, !.enqueued = FALSE], p)
        /\ UNCHANGED <<task, park, tried, pr, bills, replies>>
     \/ CausePark

Landed ==
  /\ pr = "merged"
  /\ To("FINISH", [ctx EXCEPT !.enqueued = FALSE, !.resumeWait = FALSE], proof)
  /\ UNCHANGED <<task, park, tried, pr, bills, replies>>

\* Closed, removed from the queue, blocked, a draft, red checks, or waited for
\* too long, twice: no park a continue can resume (settleResumedMergeWait).
NotLanding == pr # "merged" /\ Park("final")

\* pr:wait, then what GitHub says of the pull request.  A resumed wait does not
\* re-gate (settleResumedMergeWait), and nobody waits for ever.
MergeWait_TrustsTheWait ==
  /\ Step("MERGE") /\ (ctx.enqueued \/ ctx.resumeWait)
  /\ \/ Landed \/ NotLanding
     \/ ctx.enqueued /\ RegateMerge
     \/ /\ ctx.resumeWait /\ pr = "dropped"
        /\ To("FINISH", [ctx EXCEPT !.resumeWait = FALSE], proof)
        /\ UNCHANGED <<task, park, tried, pr, bills, replies>>
MergeWait ==
  /\ Step("MERGE") /\ (ctx.enqueued \/ ctx.resumeWait)
  /\ Landed \/ NotLanding \/ (ctx.enqueued /\ RegateMerge)

Finish ==
  /\ Step("FINISH")
  /\ \/ /\ To("DONE", ctx, proof)
        /\ UNCHANGED <<task, park, tried, pr, bills, replies>>
     \/ Park("final")

\* The guard at the head of runStateMachineLoop: state-machine-runaway.
Runaway == st \in Running /\ hops >= HopLimit /\ Park("final")

-----------------------------------------------------------------------------
(* GitHub, crashes and the maintainer.                                     *)

QueueMerges ==
  /\ pr = "queued" /\ pr' = "merged"
  /\ UNCHANGED <<st, ctx, hops, task, park, tried, proof, bills, replies>>

QueueDrops ==
  /\ pr = "queued" /\ pr' = "dropped"
  /\ UNCHANGED <<st, ctx, hops, task, park, tried, proof, bills, replies>>

Closed ==
  /\ pr \in OpenPr /\ pr' = "closed"
  /\ UNCHANGED <<st, ctx, hops, task, park, tried, proof, bills, replies>>

\* The worker dies: a repark child or an orphan scan parks the card ...
Crash == st \in Running /\ Park("final")

\* ... unless its daemon died too and the scan finds it in MERGE with its pull
\* request in the queue, or landed (resumeMergeWaitOrphan).  The state it reads
\* has no seenRootCauses.
MergeWaitOrphan_Uncounted ==
  /\ st = "MERGE" /\ pr \in {"queued", "merged"}
  /\ task.resume.mergeWaits < MergeWaitResumeMax
  /\ Requeue([task EXCEPT !.resume =
       [kind |-> "mergeWait", startState |-> "MERGE",
        counters |-> [ctx.counters EXCEPT !.seenRootCauses = {}],
        pending |-> ctx.pending, mergeWaits |-> @.mergeWaits]])
MergeWaitOrphan ==
  /\ st = "MERGE" /\ pr \in {"queued", "merged"}
  /\ task.resume.mergeWaits < MergeWaitResumeMax
  /\ Requeue([task EXCEPT !.resume =
       [kind |-> "mergeWait", startState |-> "MERGE",
        counters |-> [ctx.counters EXCEPT !.seenRootCauses = {}],
        pending |-> ctx.pending, mergeWaits |-> @.mergeWaits + 1]])

\* What the change was charged is forgiven.
Reply ==
  /\ st = "PARKED" /\ replies < MaxReplies
  /\ st' = "QUEUED" /\ replies' = replies + 1
  /\ bill' = Zero /\ refills' = 0
  /\ UNCHANGED <<ctx, hops, park, tried, proof, pr>>

Retry ==
  /\ Reply
  /\ task' = [resume |-> NoResume, transientRetries |-> 0, poolWaits |-> 0]

\* continueEligibility
MayContinue == park = "resumable" /\ pr # "none"

Continue ==
  /\ Reply
  /\ MayContinue
  /\ task' = [resume |-> [NoResume EXCEPT !.kind = "continue", !.startState = "CHECK"],
              transientRetries |-> 0, poolWaits |-> 0]

-----------------------------------------------------------------------------
Take == TakeFresh \/ TakeResume \/ RestartRefused \/ ResumeMerged \/ RefuseResume

Work ==
  \/ Intake \/ Worktree \/ Plan \/ Implement \/ MergeForward \/ Check \/ Diagnose
  \/ PushPr \/ Gate \/ CiChecks \/ Validate \/ Enqueue \/ MergeWait \/ Finish \/ Runaway

GitHub == QueueMerges \/ QueueDrops \/ Closed

Next == Take \/ Work \/ GitHub \/ Crash \/ MergeWaitOrphan \/ Retry \/ Continue

Spec == Init /\ [][Next]_vars

\* A queued entry is taken and a handler returns; GitHub owes nothing.
Fairness == WF_vars(Take) /\ WF_vars(Work)
FairSpec == Spec /\ Fairness

-----------------------------------------------------------------------------
(* Properties.                                                             *)

\* Only a tree that was checked, pushed, gated, green in CI and validated is
\* put into the merge queue, whichever loops, rechecks, re-gates and resumes
\* led there.
EnqueuesOnlyProven == [][pr # "queued" /\ pr' = "queued" => proof = Proof]_vars

\* A card is FINISHed, and DONE, only when GitHub merged its pull request.
DoneOnlyLanded == st \in {"FINISH", "DONE"} => pr = "merged"

\* Every way back to an earlier state is paid for from a budget: a run is as
\* long as the way to where it is, and six states for each charge.
Rank(s) ==
  CASE s \in {"QUEUED", "PARKED", "INTAKE"} -> 0
    [] s = "WORKTREE" -> 1 [] s = "PLAN" -> 2 [] s = "IMPLEMENT" -> 3
    [] s = "CHECK" -> 4 [] s = "PUSH_PR" -> 5 [] s = "GATE" -> 6
    [] s = "CI_CHECKS" -> 7 [] s \in {"VALIDATE", "DIAGNOSE"} -> 8
    [] s = "MERGE" -> 9 [] s = "FINISH" -> 10 [] s = "DONE" -> 11

Paid(c) == c.counters.diagnoseAttempts + c.counters.validateRejects
           + c.counters.ciImplementRetries + c.mainMoveUsed

EveryWayBackIsPaid == hops <= Rank(st) + 6 * Paid(ctx)

\* HOP_LIMIT is a guard against a handler's bug: no run the budgets allow ever
\* meets it (doc/state-machine-spec.md, state-machine-runaway).
NoRunaway == hops < HopLimit

\* Between two replies of a maintainer a change is charged each budget once,
\* and once more for every re-enqueue that starts it over; the waits and
\* resumes that carry the counters refill nothing (RESUME_CARRIED_COUNTERS),
\* and what starts it over is itself paid with a retry or a wait.
SpentWithinBudgets ==
  /\ refills <= task.transientRetries + task.poolWaits
  /\ bill.diagnoseAttempts <= DiagnoseBudget * (1 + refills)
  /\ bill.validateRejects <= ValidateRejectBudget * (1 + refills)
  /\ bill.ciImplementRetries <= CiRetryBudget * (1 + refills)
  /\ bill.outOfScopeRecheckUsed <= 1 + refills

\* A run that resumed a merge wait never leaves MERGE and FINISH (carriedResume
\* relies on it to send it back to MERGE).
MergeWaitStaysInMerge ==
  task.resume.kind = "mergeWait" => st \in {"QUEUED", "MERGE", "FINISH", "PARKED", "DONE"}

\* Every card that is queued comes to rest, however often its machine-made
\* re-enqueues bring it back.
CardSettles == st = "QUEUED" ~> st \in {"PARKED", "DONE"}
=============================================================================
