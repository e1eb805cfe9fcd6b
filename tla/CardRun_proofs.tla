--------------------------- MODULE CardRun_proofs ---------------------------
(***************************************************************************)
(* What holds of a card's run for all budgets, any number of wake-ups and  *)
(* replies: its types, that it lands only what was proved, that HOP_LIMIT  *)
(* is never met, how far a card can be from its rest, and what a change is *)
(* charged between two replies.                                            *)
(***************************************************************************)
EXTENDS CardRun, TLAPS

USE DEF bills

-----------------------------------------------------------------------------
(* What each handler comes to: a hop, a park, a re-enqueue.                *)

Rest == Park("final") \/ Park("resumable")

LEMMA ParkOnCases == ASSUME NEW reason, ParkOn(reason) PROVE Rest
  BY DEF ParkOn, Rest

LEMMA SiteParkCases == ASSUME NEW site, SitePark(site) PROVE Rest
  BY ParkOnCases DEF SitePark

LEMMA DiagnoseParkCases == ASSUME NEW reason, DiagnosePark(reason) PROVE Rest
  BY ParkOnCases, SiteParkCases DEF DiagnosePark

LEMMA WorktreeCases ==
  ASSUME Worktree
  PROVE  \/ To("PLAN", ctx, {}) /\ pr' = "none" /\ UNCHANGED <<task, park, tried, bills, replies>>
         \/ Park("final") \/ Transient
  BY DEF Worktree, FreshWorktree

LEMMA PlanCases ==
  ASSUME Plan
  PROVE  \/ To("IMPLEMENT", ctx, proof) /\ UNCHANGED <<task, park, tried, pr, bills, replies>>
         \/ Rest \/ Transient \/ PoolWait
  BY ParkOnCases DEF Plan, PlanReused, PlanWritten, ProtectedFiles, PlanInvalid

LEMMA ImplementCases ==
  ASSUME Implement
  PROVE  \/ /\ To("CHECK", ctx, {}) \/ To("DIAGNOSE", ctx, {}) \/ To("DIAGNOSE", ctx, proof)
            /\ UNCHANGED <<task, park, tried, pr, bills, replies>>
         \/ Rest \/ Transient \/ PoolWait
  BY ParkOnCases DEF Implement, Changed, NothingChanged, Stopped

LEMMA MergeForwardCases ==
  ASSUME MergeForward
  PROVE  \/ /\ To("CHECK", [ctx EXCEPT !.mergeForward = "none",
                                      !.awaitingCheck = ctx.mergeForward], {})
            /\ UNCHANGED <<task, park, tried, pr, bills, replies>>
         \/ Rest
  BY SiteParkCases DEF MergeForward, MergeResolved

LEMMA CheckCases ==
  ASSUME Check
  PROVE  /\ \/ To("DIAGNOSE", ctx, proof)
            \/ To("PUSH_PR", [ctx EXCEPT !.awaitingCheck = "none"], proof \cup {"check"})
         /\ UNCHANGED <<task, park, tried, pr, bills, replies>>
  BY DEF Check, CheckRed, CheckGreen

\* A diagnosis with budget left that does not park: a recheck, or a new cause.
LEMMA DiagnoseCases ==
  ASSUME Diagnose
  PROVE  \/ Rest \/ Transient \/ PoolWait
         \/ /\ ctx.counters.diagnoseAttempts < DiagnoseBudget
            /\ \E match \in BOOLEAN : \E cause \in Cause :
                 OutOfScope(match, cause) \/ NewCause(cause)
  <1>1. CASE BudgetSpent BY <1>1, DiagnoseParkCases DEF BudgetSpent, Unanswered
  <1>2. CASE Diagnosis /\ ctx.counters.diagnoseAttempts < DiagnoseBudget
    <2>1. PICK match \in MatchingRecheck :
            NoCause(match) \/ \E cause \in Cause : OutOfScope(match, cause) \/ NewCause(cause)
      BY <1>2 DEF Diagnosis
    <2>2. match \in BOOLEAN BY DEF MatchingRecheck, HeadRead
    <2>3. CASE NoCause(match) BY <2>3, DiagnoseParkCases DEF NoCause, Unanswered
    <2> QED BY <1>2, <2>1, <2>2, <2>3
  <1>3. CASE JudgeInputsMissing BY <1>3, ParkOnCases DEF JudgeInputsMissing
  <1> QED BY <1>1, <1>2, <1>3 DEF Diagnose, Rest

LEMMA ValidateCases ==
  ASSUME Validate
  PROVE  \/ /\ To("MERGE", ctx, proof \cup {"validate"})
            /\ UNCHANGED <<task, park, tried, pr, bills, replies>>
         \/ /\ ctx.counters.validateRejects + 1 < ValidateRejectBudget
            /\ To("IMPLEMENT", Charge("validateRejects"), proof)
            /\ bill' = Plus(bill, "validateRejects")
            /\ UNCHANGED <<task, park, tried, pr, refills, replies>>
         \/ Rest \/ Transient \/ PoolWait
  <1>1. CASE JudgeInputsMissing BY <1>1, ParkOnCases DEF JudgeInputsMissing
  <1>2. CASE CitationsFail BY <1>2, ParkOnCases DEF CitationsFail
  <1>3. CASE Rejected BY <1>3, ParkOnCases DEF Rejected
  <1> QED BY <1>1, <1>2, <1>3 DEF Validate, Passed, Rest

LEMMA RegateCases ==
  ASSUME RegateMerge
  PROVE  \/ /\ ctx.mainMoveUsed < MainMovedRegateBudget
            /\ \E p \in {{}, proof} :
                 To("CHECK", [ctx EXCEPT !.mainMoveUsed = @ + 1, !.enqueued = FALSE], p)
            /\ UNCHANGED <<task, park, tried, pr, bills, replies>>
         \/ Rest
  BY ParkOnCases DEF RegateMerge, CausePark

LEMMA MergeWaitCases ==
  ASSUME MergeWait
  PROVE  \/ /\ pr = "merged"
            /\ To("FINISH", [ctx EXCEPT !.enqueued = FALSE, !.resumeWait = FALSE], proof)
            /\ UNCHANGED <<task, park, tried, pr, bills, replies>>
         \/ ctx.enqueued /\ RegateMerge
         \/ Rest
  BY DEF MergeWait, Landed, NotLanding, Rest

-----------------------------------------------------------------------------
(* The moves keep the types.                                               *)

LEMMA PlusType ==
  ASSUME NEW n \in Counters
  PROVE  /\ Plus(n, "validateRejects") \in Counters
         /\ Plus(n, "ciImplementRetries") \in Counters
  BY SMTT(20) DEF Counters, Plus

LEMMA DiagnosedType ==
  ASSUME NEW n \in Counters, NEW c \in Cause, NEW r \in {0, 1}
  PROVE  Diagnosed(n, c, r) \in Counters
  <1> DEFINE n1 == [n EXCEPT !.diagnoseAttempts = @ + 1]
             n2 == [n1 EXCEPT !.seenRootCauses = @ \cup {c}]
             n3 == [n2 EXCEPT !.outOfScopeRecheckUsed = @ + r]
  <1>1. n1 \in Counters BY DEF Counters
  <1> HIDE DEF n1
  <1>2. n2 \in Counters BY <1>1 DEF Counters
  <1> HIDE DEF n2
  <1>3. n3 \in Counters BY <1>2 DEF Counters
  <1> HIDE DEF n3
  <1>4. Diagnosed(n, c, r) = n3 BY DEF n1, n2, n3, Diagnosed, Counters
  <1> QED BY <1>3, <1>4

LEMMA NewTypes == Zero \in Counters /\ NewCtx \in Ctx /\ NoResume \in Resume
  BY DEF Zero, Counters, NewCtx, Ctx, NoResume, Resume, NoPending, Pending

LEMMA ParkType ==
  ASSUME TypeOK, NEW class \in {"resumable", "final"}, Park(class)
  PROVE  TypeOK'
  BY NewTypes DEF TypeOK, Park, State

LEMMA RequeueType ==
  ASSUME TypeOK, NEW t \in [resume : Resume, transientRetries : Nat, poolWaits : Nat],
         Requeue(t)
  PROVE  TypeOK'
  BY NewTypes DEF TypeOK, Requeue, State

LEMMA ToType ==
  ASSUME TypeOK, NEW s \in State, NEW c \in Ctx, NEW p \in SUBSET Proof, To(s, c, p),
         st \in Running
  PROVE  st' \in State /\ ctx' \in Ctx /\ hops' \in Nat /\ proof' \in SUBSET Proof
  <1>1. ctx' \in Ctx
    <2>1. Kept(c.pending, p) \in Pending BY DEF Ctx, Pending, Kept
    <2> QED BY <2>1 DEF To, Ctx
  <1>2. st' \in State /\ hops' \in Nat /\ proof' \in SUBSET Proof BY DEF TypeOK, To
  <1> QED BY <1>1, <1>2

LEMMA ResumeTypes ==
  ASSUME TypeOK, NEW s
  PROVE  CarriedResume(s) \in Resume /\ PoolWaitResume(s) \in Resume
  <1>1. CarriedResume(s) \in Resume
    BY NewTypes DEF TypeOK, CarriedResume, Resume, Ctx
  <1>2. PoolWaitResume(s) \in Resume
    BY <1>1, NewTypes DEF TypeOK, PoolWaitResume, Resume, Ctx
  <1> QED BY <1>1, <1>2

LEMMA TransientType == ASSUME TypeOK, Transient PROVE TypeOK'
  <1>1. CASE Park("final") BY <1>1, ParkType
  <1>2. CASE Requeue([task EXCEPT !.transientRetries = @ + 1, !.resume = CarriedResume(st)])
    <2> DEFINE T == [resume : Resume, transientRetries : Nat, poolWaits : Nat]
               t == [task EXCEPT !.transientRetries = @ + 1, !.resume = CarriedResume(st)]
    <2>1. [task EXCEPT !.transientRetries = @ + 1] \in T BY DEF TypeOK
    <2>2. CarriedResume(st) \in Resume BY ResumeTypes
    <2>3. t \in T BY <2>1, <2>2 DEF TypeOK
    <2> QED BY <1>2, <2>3, RequeueType
  <1> QED BY <1>1, <1>2 DEF Transient

LEMMA PoolWaitType == ASSUME TypeOK, PoolWait PROVE TypeOK'
  <1>1. CASE Park("final") BY <1>1, ParkType
  <1>2. CASE Requeue([task EXCEPT !.poolWaits = @ + 1, !.resume = PoolWaitResume(st)])
    <2> DEFINE T == [resume : Resume, transientRetries : Nat, poolWaits : Nat]
               t == [task EXCEPT !.poolWaits = @ + 1, !.resume = PoolWaitResume(st)]
    <2>1. [task EXCEPT !.poolWaits = @ + 1] \in T BY DEF TypeOK
    <2>2. PoolWaitResume(st) \in Resume BY ResumeTypes
    <2>3. t \in T BY <2>1, <2>2 DEF TypeOK
    <2> QED BY <1>2, <2>3, RequeueType
  <1> QED BY <1>1, <1>2 DEF PoolWait

LEMMA RestoredType == ASSUME TypeOK PROVE Restored \in Ctx
  BY NewTypes DEF TypeOK, Restored, Ctx, Resume

LEMMA MovedType ==
  ASSUME TypeOK, NEW s \in State, NEW c \in Ctx, NEW p \in SUBSET Proof, To(s, c, p),
         st \in Running, UNCHANGED <<task, park, tried, pr, bills, replies>>
  PROVE  TypeOK'
  BY ToType DEF TypeOK

-----------------------------------------------------------------------------
(* Every action keeps the types.                                           *)

LEMMA TakeType == ASSUME TypeOK, Take PROVE TypeOK'
  <1>1. CASE TakeFresh BY <1>1, NewTypes DEF TypeOK, TakeFresh, Start, State, Running
  <1>2. CASE TakeResume
    <2> PICK p \in {{}, {"pushed"}} :
          /\ proof' = p
          /\ Start(task.resume.startState,
                   [Restored EXCEPT !.pending = Kept(@, p),
                                    !.resumePush = (task.resume.startState = "CHECK"),
                                    !.resumeWait = (task.resume.startState = "MERGE")])
      BY <1>2 DEF TakeResume
    <2>1. Kept(Restored.pending, p) \in Pending BY RestoredType DEF Ctx, Pending, Kept
    <2>2. ctx' \in Ctx BY <2>1, RestoredType DEF Start, Ctx
    <2>3. task.resume.startState \in State BY <1>2 DEF TypeOK, Resume, TakeResume, State, Running
    <2> QED BY <1>2, <2>2, <2>3 DEF TypeOK, TakeResume, Start, Proof
  <1>3. CASE RestartRefused
    BY <1>3, RestoredType, NewTypes DEF TypeOK, RestartRefused, Start, State, Running
  <1>4. CASE ResumeMerged
    <2>1. [Restored EXCEPT !.cameFrom = "MERGE"] \in Ctx BY RestoredType DEF Ctx, Running
    <2> QED BY <1>4, <2>1 DEF TypeOK, ResumeMerged, Start, State, Running
  <1>5. CASE RefuseResume BY <1>5, ParkType DEF RefuseResume
  <1> QED BY <1>1, <1>2, <1>3, <1>4, <1>5 DEF Take

LEMMA MainMovedType == ASSUME TypeOK, MainMoved, st \in Site PROVE TypeOK'
  <1> DEFINE c1 == [ctx EXCEPT !.mainMoveUsed = @ + 1]
             moved == Settled(c1)
  <1>1. c1 \in Ctx BY DEF TypeOK, Ctx
  <1> HIDE DEF c1
  <1>2. moved \in Ctx BY <1>1 DEF Settled, Ctx, NoPending, Pending
  <1>3. [moved EXCEPT !.mergeForward = st] \in Ctx BY <1>2 DEF Ctx
  <1>4. st \in Running BY DEF Site, Running
  <1> HIDE DEF moved
  <1>5. CASE Park("final") \/ Park("resumable") BY <1>5, ParkType
  <1>6. CASE (\E p \in {{}, proof} : To("CHECK", moved, p))
             /\ UNCHANGED <<task, park, tried, pr, bills, replies>>
    BY <1>2, <1>4, <1>6, MovedType DEF TypeOK, State, Running
  <1>7. CASE /\ To("IMPLEMENT", [moved EXCEPT !.mergeForward = st], proof)
             /\ tried' = tried \cup {st}
             /\ UNCHANGED <<task, park, pr, bills, replies>>
    <2>1. /\ st' \in State /\ ctx' \in Ctx /\ hops' \in Nat /\ proof' \in SUBSET Proof
      BY <1>3, <1>4, <1>7, ToType DEF TypeOK, State, Running
    <2> QED BY <1>7, <2>1 DEF TypeOK
  <1> QED BY <1>5, <1>6, <1>7 DEF MainMoved, OfferMergeForward, moved, c1

LEMMA GateType == ASSUME TypeOK, Gate PROVE TypeOK'
  <1>0. st \in Running /\ st \in Site BY DEF Gate, Step, Running, Site
  <1>1. Settled(ctx) \in Ctx BY DEF TypeOK, Settled, Ctx, NoPending, Pending
  <1>2. CASE /\ \/ To("CI_CHECKS", Settled(ctx), proof \cup {"gate"})
                \/ To("DIAGNOSE", ctx, proof)
             /\ UNCHANGED <<task, park, tried, pr, bills, replies>>
    BY <1>0, <1>1, <1>2, MovedType DEF TypeOK, State, Running, Proof
  <1>3. CASE MainMoved BY <1>0, <1>3, MainMovedType
  <1>4. CASE Park("final") BY <1>4, ParkType
  <1>5. CASE Transient BY <1>5, TransientType
  <1> QED BY <1>2, <1>3, <1>4, <1>5 DEF Gate

LEMMA ChargeType ==
  ASSUME TypeOK, NEW k \in {"validateRejects", "ciImplementRetries"}
  PROVE  Charge(k) \in Ctx /\ Plus(bill, k) \in Counters
  <1>1. ctx.counters \in Counters /\ bill \in Counters BY DEF TypeOK, Ctx
  <1>2. Plus(ctx.counters, k) \in Counters /\ Plus(bill, k) \in Counters BY <1>1, PlusType
  <1> QED BY <1>2 DEF TypeOK, Ctx, Charge

LEMMA CiChecksType == ASSUME TypeOK, CiChecks PROVE TypeOK'
  <1>0. st \in Running /\ st \in Site BY DEF CiChecks, Step, Running, Site
  <1>1. Settled(ctx) \in Ctx BY DEF TypeOK, Settled, Ctx, NoPending, Pending
  <1>2. CASE /\ \/ To("VALIDATE", Settled(ctx), proof \cup {"ci"})
                \/ To("DIAGNOSE", ctx, proof)
             /\ UNCHANGED <<task, park, tried, pr, bills, replies>>
    BY <1>0, <1>1, <1>2, MovedType DEF TypeOK, State, Running, Proof
  <1>3. CASE CiImplementRetry
    <2> DEFINE c == Charge("ciImplementRetries")
    <2>1. c \in Ctx /\ Plus(bill, "ciImplementRetries") \in Counters BY ChargeType
    <2> HIDE DEF c
    <2>2. Settled(c) \in Ctx BY <2>1 DEF Settled, Ctx, NoPending, Pending
    <2>3. To("IMPLEMENT", Settled(c), proof) BY <1>3 DEF CiImplementRetry, c
    <2>4. st' \in State /\ ctx' \in Ctx /\ hops' \in Nat /\ proof' \in SUBSET Proof
      BY <1>0, <2>2, <2>3, ToType DEF TypeOK, State, Running
    <2> QED BY <1>3, <2>1, <2>4 DEF TypeOK, CiImplementRetry
  <1>4. CASE MainMoved BY <1>0, <1>4, MainMovedType
  <1>5. CASE Park("final") BY <1>5, ParkType
  <1> QED BY <1>2, <1>3, <1>4, <1>5 DEF CiChecks

LEMMA DiagnoseType == ASSUME TypeOK, Diagnose PROVE TypeOK'
  <1>0. st \in Running BY DEF Diagnose, Step, Running
  <1>1. ASSUME Rest PROVE TypeOK' BY <1>1, ParkType DEF Rest
  <1>2. ASSUME NEW reason, DiagnosePark(reason) PROVE TypeOK' BY <1>1, <1>2, DiagnoseParkCases
  <1>3. ASSUME NEW c \in Cause, NEW r \in {0, 1}
        PROVE  Diagnosed(ctx.counters, c, r) \in Counters /\ Diagnosed(bill, c, r) \in Counters
    BY <1>3, DiagnosedType DEF TypeOK, Ctx
  <1>4. ASSUME NEW match, NEW cause \in Cause, OutOfScope(match, cause) PROVE TypeOK'
    <2>1. CASE DiagnosePark("diagnose-out-of-scope") BY <2>1, <1>2
    <2>2. CASE Rechecks(match) /\ ~DiagnosePark("diagnose-out-of-scope")
      <3> DEFINE c == [ctx EXCEPT !.counters = Diagnosed(@, cause, 1),
                                  !.pending = [from |-> ctx.cameFrom, same |-> TRUE]]
      <3>1. ctx.cameFrom \in Site BY <2>2 DEF Rechecks
      <3>2. c \in Ctx BY <1>3, <3>1 DEF TypeOK, Ctx, Pending
      <3> HIDE DEF c
      <3>3. /\ To(ctx.cameFrom, c, proof) /\ bill' = Diagnosed(bill, cause, 1)
            /\ UNCHANGED <<task, park, tried, pr, refills, replies>>
        BY <1>4, <2>2 DEF OutOfScope, c
      <3>4. st' \in State /\ ctx' \in Ctx /\ hops' \in Nat /\ proof' \in SUBSET Proof
        BY <1>0, <3>1, <3>2, <3>3, ToType DEF TypeOK, State, Running, Site
      <3> QED BY <1>3, <3>3, <3>4 DEF TypeOK
    <2> QED BY <1>4, <2>1, <2>2 DEF OutOfScope
  <1>5. ASSUME NEW cause \in Cause, NewCause(cause) PROVE TypeOK'
    <2>1. CASE \E reason : DiagnosePark(reason) BY <2>1, <1>2
    <2>2. CASE ~\E reason : DiagnosePark(reason)
      <3> DEFINE c == [ctx EXCEPT !.counters = Diagnosed(@, cause, 0), !.pending = NoPending]
      <3>2. c \in Ctx BY <1>3 DEF TypeOK, Ctx, Pending, NoPending
      <3> HIDE DEF c
      <3>3. /\ To("IMPLEMENT", c, proof) /\ bill' = Diagnosed(bill, cause, 0)
            /\ UNCHANGED <<task, park, tried, pr, refills, replies>>
        BY <1>5, <2>2 DEF NewCause, c
      <3>4. st' \in State /\ ctx' \in Ctx /\ hops' \in Nat /\ proof' \in SUBSET Proof
        BY <1>0, <3>2, <3>3, ToType DEF TypeOK, State, Running
      <3> QED BY <1>3, <3>3, <3>4 DEF TypeOK
    <2> QED BY <2>1, <2>2
  <1> QED BY <1>1, <1>4, <1>5, TransientType, PoolWaitType, DiagnoseCases

LEMMA EarlyType ==
  ASSUME TypeOK,
         Intake \/ Worktree \/ Plan \/ Implement \/ MergeForward \/ Check \/ PushPr
  PROVE  TypeOK'
  <1>0. st \in Running
    BY DEF Intake, Worktree, Plan, Implement, MergeForward, Check, PushPr, Step, Running
  <1>1. CASE Intake
    BY <1>0, <1>1, MovedType, ParkType, TransientType DEF Intake, TypeOK, State, Running
  <1>2. CASE Worktree
    <2>1. CASE Park("final") BY <2>1, ParkType
    <2>2. CASE To("PLAN", ctx, {}) /\ pr' = "none" /\ UNCHANGED <<task, park, tried, bills, replies>>
      <3>1. st' \in State /\ ctx' \in Ctx /\ hops' \in Nat /\ proof' \in SUBSET Proof
        BY <1>0, <2>2, ToType DEF TypeOK, State, Running
      <3> QED BY <2>2, <3>1 DEF TypeOK, Pr
    <2> QED BY <1>2, <2>1, <2>2, WorktreeCases, TransientType
  <1>3. CASE Plan
    BY <1>0, <1>3, PlanCases, MovedType, ParkType, TransientType, PoolWaitType
       DEF Rest, TypeOK, State, Running
  <1>4. CASE Implement
    <2>1. CASE /\ To("CHECK", ctx, {}) \/ To("DIAGNOSE", ctx, {}) \/ To("DIAGNOSE", ctx, proof)
               /\ UNCHANGED <<task, park, tried, pr, bills, replies>>
      BY <1>0, <2>1, MovedType DEF TypeOK, State, Running
    <2> QED BY <1>4, <2>1, ImplementCases, ParkType, TransientType, PoolWaitType DEF Rest
  <1>5. CASE MergeForward
    <2> DEFINE c == [ctx EXCEPT !.mergeForward = "none", !.awaitingCheck = ctx.mergeForward]
    <2>1. c \in Ctx BY DEF TypeOK, Ctx
    <2> HIDE DEF c
    <2>2. CASE To("CHECK", c, {}) /\ UNCHANGED <<task, park, tried, pr, bills, replies>>
      BY <1>0, <2>1, <2>2, MovedType DEF State, Running
    <2> QED BY <1>5, <2>2, MergeForwardCases, ParkType DEF Rest, c
  <1>6. CASE Check
    <2> DEFINE c == [ctx EXCEPT !.awaitingCheck = "none"]
    <2>1. c \in Ctx BY DEF TypeOK, Ctx
    <2> HIDE DEF c
    <2>2. CASE To("PUSH_PR", c, proof \cup {"check"})
      BY <1>0, <1>6, <2>1, <2>2, CheckCases, MovedType DEF TypeOK, State, Running, Proof
    <2>3. CASE To("DIAGNOSE", ctx, proof)
      BY <1>0, <1>6, <2>3, CheckCases, MovedType DEF TypeOK, State, Running
    <2> QED BY <1>6, <2>2, <2>3, CheckCases DEF c
  <1>7. CASE PushPr
    <2> DEFINE c == [ctx EXCEPT !.resumePush = FALSE]
    <2>1. c \in Ctx BY DEF TypeOK, Ctx
    <2> HIDE DEF c
    <2>2. CASE Park("final") BY <2>2, ParkType
    <2>3. CASE /\ To("GATE", c, proof \cup {"pushed"})
               /\ pr' = IF pr \notin OpenPr THEN "open"
                        ELSE IF pr = "queued" /\ "pushed" \notin proof THEN "dropped" ELSE pr
               /\ UNCHANGED <<task, park, tried, bills, replies>>
      <3>1. st' \in State /\ ctx' \in Ctx /\ hops' \in Nat /\ proof' \in SUBSET Proof
        BY <1>0, <2>1, <2>3, ToType DEF TypeOK, State, Running, Proof
      <3> QED BY <2>3, <3>1 DEF TypeOK, Pr
    <2> QED BY <1>7, <2>2, <2>3 DEF PushPr, c
  <1> QED BY <1>1, <1>2, <1>3, <1>4, <1>5, <1>6, <1>7

LEMMA LateType ==
  ASSUME TypeOK, Validate \/ Enqueue \/ MergeWait \/ Finish \/ Runaway
  PROVE  TypeOK'
  <1>0. st \in Running BY DEF Validate, Enqueue, MergeWait, Finish, Runaway, Step, Running
  <1>1. CASE Validate
    <2>1. CASE To("MERGE", ctx, proof \cup {"validate"})
               /\ UNCHANGED <<task, park, tried, pr, bills, replies>>
      BY <1>0, <2>1, MovedType DEF TypeOK, State, Running, Proof
    <2>2. CASE /\ To("IMPLEMENT", Charge("validateRejects"), proof)
               /\ bill' = Plus(bill, "validateRejects")
               /\ UNCHANGED <<task, park, tried, pr, refills, replies>>
      <3>1. st' \in State /\ ctx' \in Ctx /\ hops' \in Nat /\ proof' \in SUBSET Proof
        BY <1>0, <2>2, ChargeType, ToType DEF TypeOK, State, Running
      <3> QED BY <2>2, <3>1, ChargeType DEF TypeOK
    <2> QED BY <1>1, <2>1, <2>2, ValidateCases, ParkType, TransientType, PoolWaitType DEF Rest
  <1>2. CASE Enqueue
    <2>1. CASE Park("final") BY <2>1, ParkType
    <2>2. CASE ~Park("final") BY <1>2, <2>2 DEF TypeOK, Enqueue, Ctx, Pr
    <2> QED BY <2>1, <2>2
  <1>3. CASE MergeWait
    <2>1. CASE RegateMerge
      <3> DEFINE c == [ctx EXCEPT !.mainMoveUsed = @ + 1, !.enqueued = FALSE]
      <3>1. c \in Ctx
        <4>1. [ctx EXCEPT !.mainMoveUsed = @ + 1] \in Ctx BY DEF TypeOK, Ctx
        <4> QED BY <4>1 DEF Ctx
      <3> HIDE DEF c
      <3>2. CASE (\E p \in {{}, proof} : To("CHECK", c, p))
                 /\ UNCHANGED <<task, park, tried, pr, bills, replies>>
        BY <1>0, <3>1, <3>2, MovedType DEF TypeOK, State, Running
      <3> QED BY <2>1, <3>2, RegateCases, ParkType DEF Rest, c
    <2>2. CASE To("FINISH", [ctx EXCEPT !.enqueued = FALSE, !.resumeWait = FALSE], proof)
               /\ UNCHANGED <<task, park, tried, pr, bills, replies>>
      <3> DEFINE c == [ctx EXCEPT !.enqueued = FALSE, !.resumeWait = FALSE]
      <3>1. c \in Ctx BY DEF TypeOK, Ctx
      <3> HIDE DEF c
      <3>2. To("FINISH", c, proof) BY <2>2 DEF c
      <3> QED BY <1>0, <2>2, <3>1, <3>2, MovedType DEF TypeOK, State, Running
    <2> QED BY <1>3, <2>1, <2>2, MergeWaitCases, ParkType DEF Rest
  <1>4. CASE Finish
    BY <1>0, <1>4, MovedType, ParkType DEF Finish, TypeOK, State
  <1>5. CASE Runaway BY <1>5, ParkType DEF Runaway
  <1> QED BY <1>1, <1>2, <1>3, <1>4, <1>5

LEMMA OutsideType ==
  ASSUME TypeOK, GitHub \/ Crash \/ MergeWaitOrphan \/ Retry \/ Continue
  PROVE  TypeOK'
  <1>1. CASE GitHub BY <1>1 DEF TypeOK, GitHub, QueueMerges, QueueDrops, Closed, Pr
  <1>2. CASE Crash BY <1>2, ParkType DEF Crash
  <1>3. CASE MergeWaitOrphan
    <2> DEFINE r == [kind |-> "mergeWait", startState |-> "MERGE",
                     counters |-> [ctx.counters EXCEPT !.seenRootCauses = {}],
                     pending |-> ctx.pending, mergeWaits |-> task.resume.mergeWaits + 1]
    <2>1. [ctx.counters EXCEPT !.seenRootCauses = {}] \in Counters
      BY DEF TypeOK, Ctx, Counters
    <2>2. ctx.pending \in Pending /\ task.resume.mergeWaits + 1 \in Nat
      BY DEF TypeOK, Ctx, Resume
    <2>3. r \in Resume BY <2>1, <2>2 DEF Resume
    <2>4. Requeue([task EXCEPT !.resume = r]) BY <1>3 DEF MergeWaitOrphan
    <2> HIDE DEF r
    <2>5. [task EXCEPT !.resume = r] \in [resume : Resume, transientRetries : Nat, poolWaits : Nat]
      BY <2>3 DEF TypeOK
    <2> QED BY <2>4, <2>5, RequeueType
  <1>4. CASE Retry BY <1>4, NewTypes, CardRunAssumption DEF TypeOK, Retry, Reply, State
  <1>5. CASE Continue
    <2>1. [NoResume EXCEPT !.kind = "continue", !.startState = "CHECK"] \in Resume
      BY NewTypes DEF Resume, NoResume
    <2> QED BY <1>5, <2>1, NewTypes, CardRunAssumption DEF TypeOK, Continue, Reply, State
  <1> QED BY <1>1, <1>2, <1>3, <1>4, <1>5

LEMMA NextType == ASSUME TypeOK, [Next]_vars PROVE TypeOK'
  <1>1. CASE UNCHANGED vars BY <1>1 DEF TypeOK, vars
  <1>2. CASE Next
    BY <1>2, TakeType, EarlyType, DiagnoseType, GateType, CiChecksType, LateType, OutsideType
       DEF Next, Work
  <1> QED BY <1>1, <1>2

\* A card's run keeps its types through every handler, park, re-enqueue,
\* resume and reply, for all budgets.
THEOREM TypeCorrect == Spec => []TypeOK
  <1>1. Init => TypeOK BY CardRunAssumption, NewTypes DEF Init, TypeOK, State, Pr
  <1>2. TypeOK /\ [Next]_vars => TypeOK' BY NextType
  <1> QED BY <1>1, <1>2, PTL DEF Spec

-----------------------------------------------------------------------------
(* How long a run can be.  The inductive invariant: every way back is paid  *)
(* for, and what the run and the entry it may come back from were charged   *)
(* is within the budgets.                                                   *)

Within(n) ==
  /\ n.diagnoseAttempts <= DiagnoseBudget /\ n.validateRejects <= ValidateRejectBudget
  /\ n.ciImplementRetries <= CiRetryBudget

LengthInv ==
  /\ EveryWayBackIsPaid
  /\ Within(ctx.counters) /\ ctx.mainMoveUsed <= MainMovedRegateBudget
  /\ Within(task.resume.counters)

LEMMA Ranks ==
  /\ \A s \in State : Rank(s) \in 0..11
  /\ Rank("INTAKE") = 0 /\ Rank("WORKTREE") = 1 /\ Rank("PLAN") = 2
  /\ Rank("IMPLEMENT") = 3 /\ Rank("CHECK") = 4 /\ Rank("PUSH_PR") = 5
  /\ Rank("GATE") = 6 /\ Rank("CI_CHECKS") = 7 /\ Rank("VALIDATE") = 8
  /\ Rank("DIAGNOSE") = 8 /\ Rank("MERGE") = 9 /\ Rank("FINISH") = 10 /\ Rank("DONE") = 11
  BY DEF Rank, State, Running

LEMMA PaidNat == ASSUME NEW c \in Ctx PROVE Paid(c) \in Nat
  BY DEF Paid, Ctx, Counters

LEMMA NewWithin ==
  Within(NewCtx.counters) /\ NewCtx.mainMoveUsed = 0 /\ Within(NoResume.counters)
  BY CardRunAssumption DEF Within, NewCtx, Zero, NoResume

\* A new process starts with no hops, in any state.
LEMMA StartLength ==
  ASSUME TypeOK, TypeOK', hops' = 0, Within(ctx'.counters), ctx'.mainMoveUsed = 0,
         Within(task'.resume.counters)
  PROVE  LengthInv'
  <1>1. Rank(st)' \in Nat
    <2>1. st' \in State BY DEF TypeOK
    <2>2. Rank(st') \in 0..11 BY <2>1, Ranks
    <2> QED BY <2>2
  <1>2. Paid(ctx)' \in Nat
    <2>1. ctx' \in Ctx BY DEF TypeOK
    <2> QED BY <2>1 DEF Paid, Ctx, Counters
  <1> QED BY <1>1, <1>2, CardRunAssumption DEF LengthInv, EveryWayBackIsPaid, Within

LEMMA ParkLength ==
  ASSUME TypeOK, LengthInv, NEW class \in {"resumable", "final"}, Park(class)
  PROVE  LengthInv'
  <1>1. TypeOK' BY ParkType
  <1> QED BY <1>1, NewWithin, StartLength DEF Park, LengthInv

LEMMA RequeueLength ==
  ASSUME TypeOK, LengthInv, Transient \/ PoolWait \/ MergeWaitOrphan
  PROVE  LengthInv'
  <1>0. TypeOK'
    BY TransientType, PoolWaitType, OutsideType
  <1>1. CASE Park("final") BY <1>1, ParkLength
  <1>2. CASE ~Park("final")
    <2>1. \A s : Within(CarriedResume(s).counters)
      BY NewWithin DEF CarriedResume, LengthInv, TypeOK, Resume
    <2>2. \A s : Within(PoolWaitResume(s).counters)
      BY <2>1, NewWithin DEF PoolWaitResume, LengthInv, TypeOK, Resume
    <2>3. Within([ctx.counters EXCEPT !.seenRootCauses = {}])
      BY DEF LengthInv, Within, TypeOK, Ctx, Counters
    <2>4. Within(task'.resume.counters) /\ hops' = 0 /\ ctx' = NewCtx
      <3>1. CASE Transient
        BY <1>2, <2>1, <3>1 DEF Transient, Requeue, TypeOK
      <3>2. CASE PoolWait
        BY <1>2, <2>2, <3>2 DEF PoolWait, Requeue, TypeOK
      <3>3. CASE MergeWaitOrphan
        BY <2>3, <3>3 DEF MergeWaitOrphan, Requeue, TypeOK
      <3> QED BY <3>1, <3>2, <3>3
    <2> QED BY <1>0, <2>4, NewWithin, StartLength
  <1> QED BY <1>1, <1>2

\* One hop to s with the memory c: forward, or back and charged.
LEMMA MoveLength ==
  ASSUME TypeOK, LengthInv, st \in Running, NEW s \in State, NEW c \in Ctx, NEW p,
         To(s, c, p), task' = task,
         Within(c.counters), c.mainMoveUsed <= MainMovedRegateBudget,
         \/ Paid(c) >= Paid(ctx) /\ Rank(st) + 1 <= Rank(s)
         \/ Paid(c) >= Paid(ctx) + 1 /\ Rank(st) + 1 <= Rank(s) + 6
  PROVE  LengthInv'
  <1>1. ctx' = [c EXCEPT !.cameFrom = st, !.pending = Kept(@, p)] /\ st' = s /\ hops' = hops + 1
    BY DEF To
  <1>2. ctx'.counters = c.counters /\ ctx'.mainMoveUsed = c.mainMoveUsed
    BY <1>1 DEF Ctx
  <1>3. Paid(ctx') = Paid(c) BY <1>2 DEF Paid
  <1>4. Paid(c) \in Nat /\ Paid(ctx) \in Nat /\ Rank(s) \in Nat /\ Rank(st) \in Nat
    BY PaidNat, Ranks DEF TypeOK
  <1>5. hops \in Nat /\ hops <= Rank(st) + 6 * Paid(ctx) BY DEF TypeOK, LengthInv, EveryWayBackIsPaid
  <1>6. hops + 1 <= Rank(s) + 6 * Paid(c) BY <1>4, <1>5
  <1>7. EveryWayBackIsPaid' BY <1>1, <1>3, <1>6 DEF EveryWayBackIsPaid
  <1> QED BY <1>2, <1>7 DEF LengthInv, Within

\* A forward hop that leaves what was charged alone.
LEMMA ForwardLength ==
  ASSUME TypeOK, LengthInv, st \in Running, NEW s \in State, NEW c \in Ctx, NEW p,
         To(s, c, p), task' = task,
         c.counters = ctx.counters, c.mainMoveUsed = ctx.mainMoveUsed, Rank(st) + 1 <= Rank(s)
  PROVE  LengthInv'
  <1>1. Paid(c) = Paid(ctx) BY DEF Paid
  <1>2. Paid(ctx) \in Nat BY PaidNat DEF TypeOK
  <1>3. Within(c.counters) /\ c.mainMoveUsed <= MainMovedRegateBudget BY DEF LengthInv
  <1> QED BY <1>1, <1>2, <1>3, MoveLength

LEMMA TakeLength == ASSUME TypeOK, LengthInv, Take PROVE LengthInv'
  <1>0. TypeOK' BY TakeType
  <1>1. CASE TakeFresh
    BY <1>0, <1>1, NewWithin, StartLength DEF TakeFresh, Start, LengthInv
  <1>2. Restored.counters = task.resume.counters /\ Restored.mainMoveUsed = 0
    BY DEF Restored, NewCtx
  <1>3. CASE TakeResume
    <2>1. /\ ctx'.counters = task.resume.counters /\ ctx'.mainMoveUsed = 0
          /\ hops' = 0 /\ task' = task
      BY <1>2, <1>3, RestoredType DEF TakeResume, Start, Ctx
    <2> QED BY <1>0, <2>1, StartLength DEF LengthInv
  <1>4. CASE RestartRefused
    <2>1. /\ ctx' = Restored /\ hops' = 0 /\ task'.resume = NoResume
      BY <1>4 DEF RestartRefused, Start, TypeOK
    <2> QED BY <1>0, <1>2, <2>1, NewWithin, StartLength DEF LengthInv
  <1>5. CASE ResumeMerged
    <2>1. /\ ctx'.counters = task.resume.counters /\ ctx'.mainMoveUsed = 0
          /\ hops' = 0 /\ task' = task
      BY <1>2, <1>5, RestoredType DEF ResumeMerged, Start, Ctx
    <2> QED BY <1>0, <2>1, StartLength DEF LengthInv
  <1>6. CASE RefuseResume BY <1>6, ParkLength DEF RefuseResume
  <1> QED BY <1>1, <1>3, <1>4, <1>5, <1>6 DEF Take

LEMMA SettledFacts ==
  ASSUME NEW c \in Ctx
  PROVE  /\ Settled(c) \in Ctx /\ Settled(c).counters = c.counters
         /\ Settled(c).mainMoveUsed = c.mainMoveUsed
  BY DEF Settled, Ctx, NoPending, Pending

\* A main branch that moved costs one re-gate of the budget.
LEMMA RegateLength ==
  ASSUME TypeOK, LengthInv, st \in {"GATE", "CI_CHECKS", "MERGE"},
         NEW s \in {"CHECK", "IMPLEMENT"}, s = "IMPLEMENT" => st # "MERGE",
         NEW c \in Ctx, NEW p, To(s, c, p), task' = task,
         c.counters = ctx.counters, c.mainMoveUsed = ctx.mainMoveUsed + 1,
         ctx.mainMoveUsed < MainMovedRegateBudget
  PROVE  LengthInv'
  <1>1. Paid(c) = Paid(ctx) + 1 BY DEF Paid, TypeOK, Ctx, Counters
  <1>2. Within(c.counters) /\ c.mainMoveUsed <= MainMovedRegateBudget
    BY CardRunAssumption DEF LengthInv, TypeOK, Ctx
  <1>3. Rank(st) + 1 <= Rank(s) + 6 BY Ranks
  <1>4. st \in Running /\ s \in State BY DEF Running, State
  <1>5. Paid(ctx) \in Nat BY PaidNat DEF TypeOK
  <1> QED BY <1>1, <1>2, <1>3, <1>4, <1>5, MoveLength

LEMMA MainMovedLength ==
  ASSUME TypeOK, LengthInv, MainMoved, st \in Site
  PROVE  LengthInv'
  <1> DEFINE c1 == [ctx EXCEPT !.mainMoveUsed = @ + 1]
             moved == Settled(c1)
             m2 == [moved EXCEPT !.mergeForward = st]
  <1>1. c1 \in Ctx /\ c1.counters = ctx.counters /\ c1.mainMoveUsed = ctx.mainMoveUsed + 1
    BY DEF TypeOK, Ctx
  <1> HIDE DEF c1
  <1>2. moved \in Ctx /\ moved.counters = ctx.counters
        /\ moved.mainMoveUsed = ctx.mainMoveUsed + 1
    BY <1>1, SettledFacts
  <1> HIDE DEF moved
  <1>3. m2 \in Ctx /\ m2.counters = ctx.counters /\ m2.mainMoveUsed = ctx.mainMoveUsed + 1
    BY <1>2 DEF Ctx
  <1> HIDE DEF m2
  <1>4. CASE Park("final") \/ Park("resumable") BY <1>4, ParkLength
  <1>5. CASE /\ ctx.mainMoveUsed < MainMovedRegateBudget /\ task' = task
             /\ \/ \E p \in {{}, proof} : To("CHECK", moved, p)
                \/ To("IMPLEMENT", m2, proof)
    BY <1>2, <1>3, <1>5, RegateLength DEF Site
  <1> QED BY <1>4, <1>5 DEF MainMoved, OfferMergeForward, c1, moved, m2

LEMMA EarlyLength ==
  ASSUME TypeOK, LengthInv,
         Intake \/ Worktree \/ Plan \/ Implement \/ MergeForward \/ Check \/ PushPr
  PROVE  LengthInv'
  <1>0. st \in Running
    BY DEF Intake, Worktree, Plan, Implement, MergeForward, Check, PushPr, Step, Running
  <1>1. ASSUME NEW class \in {"resumable", "final"}, Park(class) PROVE LengthInv'
    BY <1>1, ParkLength
  <1>2. CASE Transient \/ PoolWait BY <1>2, RequeueLength
  <1>3. ASSUME NEW s \in State, NEW p, To(s, ctx, p), task' = task, Rank(st) + 1 <= Rank(s)
        PROVE  LengthInv'
    BY <1>0, <1>3, ForwardLength DEF TypeOK
  <1>4. CASE Intake BY <1>1, <1>2, <1>3, <1>4, Ranks DEF Intake, Step, State, Running
  <1>5. CASE Worktree
    <2>1. CASE To("PLAN", ctx, {}) /\ task' = task
      BY <1>3, <1>5, <2>1, Ranks DEF Worktree, Step, State, Running
    <2> QED BY <1>1, <1>2, <1>5, <2>1, WorktreeCases
  <1>6. CASE Plan
    BY <1>1, <1>2, <1>3, <1>6, PlanCases, Ranks DEF Rest, Plan, Step, State, Running
  <1>7. CASE Implement
    <2>1. CASE /\ To("CHECK", ctx, {}) \/ To("DIAGNOSE", ctx, {}) \/ To("DIAGNOSE", ctx, proof)
               /\ task' = task
      BY <1>3, <1>7, <2>1, Ranks DEF Implement, Step, State, Running
    <2> QED BY <1>1, <1>2, <1>7, <2>1, ImplementCases DEF Rest
  <1>8. CASE MergeForward
    <2> DEFINE c == [ctx EXCEPT !.mergeForward = "none", !.awaitingCheck = ctx.mergeForward]
    <2>1. c \in Ctx /\ c.counters = ctx.counters /\ c.mainMoveUsed = ctx.mainMoveUsed
      BY DEF TypeOK, Ctx
    <2> HIDE DEF c
    <2>2. st = "IMPLEMENT" BY <1>8 DEF MergeForward, Step
    <2>3. CASE To("CHECK", c, {}) /\ task' = task
      BY <1>0, <2>1, <2>2, <2>3, Ranks, ForwardLength DEF State, Running
    <2> QED BY <1>1, <1>8, <2>3, MergeForwardCases DEF Rest, c
  <1>9. CASE Check
    <2> DEFINE c == [ctx EXCEPT !.awaitingCheck = "none"]
    <2>1. c \in Ctx /\ c.counters = ctx.counters /\ c.mainMoveUsed = ctx.mainMoveUsed
      BY DEF TypeOK, Ctx
    <2> HIDE DEF c
    <2>2. st = "CHECK" BY <1>9 DEF Check, Step
    <2>3. CASE To("PUSH_PR", c, proof \cup {"check"}) /\ task' = task
      BY <1>0, <2>1, <2>2, <2>3, Ranks, ForwardLength DEF State, Running
    <2>4. CASE To("DIAGNOSE", ctx, proof) /\ task' = task
      BY <1>3, <2>2, <2>4, Ranks DEF State, Running
    <2> QED BY <1>9, <2>3, <2>4, CheckCases DEF c
  <1>10. CASE PushPr
    <2> DEFINE c == [ctx EXCEPT !.resumePush = FALSE]
    <2>1. c \in Ctx /\ c.counters = ctx.counters /\ c.mainMoveUsed = ctx.mainMoveUsed
      BY DEF TypeOK, Ctx
    <2> HIDE DEF c
    <2>2. st = "PUSH_PR" BY <1>10 DEF PushPr, Step
    <2>3. CASE To("GATE", c, proof \cup {"pushed"}) /\ task' = task
      BY <1>0, <2>1, <2>2, <2>3, Ranks, ForwardLength DEF State, Running
    <2> QED BY <1>1, <1>10, <2>3 DEF PushPr, c
  <1> QED BY <1>4, <1>5, <1>6, <1>7, <1>8, <1>9, <1>10

LEMMA SiteLength == ASSUME TypeOK, LengthInv, Gate \/ CiChecks PROVE LengthInv'
  <1>0. st \in Running /\ st \in Site BY DEF Gate, CiChecks, Step, Running, Site
  <1>1. CASE MainMoved BY <1>0, <1>1, MainMovedLength
  <1>2. CASE Park("final") BY <1>2, ParkLength
  <1>3. CASE Transient BY <1>3, RequeueLength
  <1>4. ASSUME NEW s \in State, NEW p, To(s, Settled(ctx), p) \/ To(s, ctx, p), task' = task,
               Rank(st) + 1 <= Rank(s)
        PROVE  LengthInv'
    BY <1>0, <1>4, SettledFacts, ForwardLength DEF TypeOK
  <1>5. CASE Gate /\ (To("CI_CHECKS", Settled(ctx), proof \cup {"gate"})
                      \/ To("DIAGNOSE", ctx, proof)) /\ task' = task
    BY <1>4, <1>5, Ranks DEF Gate, Step, State, Running
  <1>6. CASE CiChecks /\ (To("VALIDATE", Settled(ctx), proof \cup {"ci"})
                          \/ To("DIAGNOSE", ctx, proof)) /\ task' = task
    BY <1>4, <1>6, Ranks DEF CiChecks, Step, State, Running
  <1>7. CASE CiChecks /\ CiImplementRetry
    <2> DEFINE c0 == Charge("ciImplementRetries")
               c == Settled(c0)
    <2>1. /\ c0 \in Ctx /\ c0.mainMoveUsed = ctx.mainMoveUsed
          /\ c0.counters = Plus(ctx.counters, "ciImplementRetries")
      BY ChargeType DEF TypeOK, Ctx, Charge
    <2> HIDE DEF c0
    <2>2. c \in Ctx /\ c.counters = c0.counters /\ c.mainMoveUsed = ctx.mainMoveUsed
      BY <2>1, SettledFacts
    <2>3. To("IMPLEMENT", c, proof) /\ task' = task BY <1>7 DEF CiImplementRetry, c0
    <2> HIDE DEF c
    <2>4. Within(c.counters) /\ Paid(c) = Paid(ctx) + 1
      <3>1. ctx.counters \in Counters BY DEF TypeOK, Ctx
      <3>2. /\ c.counters.diagnoseAttempts = ctx.counters.diagnoseAttempts
            /\ c.counters.validateRejects = ctx.counters.validateRejects
            /\ c.counters.ciImplementRetries = ctx.counters.ciImplementRetries + 1
        BY <3>1, <2>1, <2>2 DEF Plus, Counters
      <3>3. /\ ctx.counters.diagnoseAttempts \in Nat /\ ctx.counters.validateRejects \in Nat
            /\ ctx.counters.ciImplementRetries \in Nat /\ ctx.mainMoveUsed \in Nat
        BY DEF TypeOK, Ctx, Counters
      <3>4. ctx.counters.ciImplementRetries < CiRetryBudget BY <1>7 DEF CiImplementRetry
      <3> QED BY <2>2, <3>2, <3>3, <3>4, CardRunAssumption DEF LengthInv, Within, Paid
    <2>5. Rank(st) + 1 <= Rank("IMPLEMENT") + 6 BY <1>7, Ranks DEF CiChecks, Step
    <2>6. Paid(ctx) \in Nat BY PaidNat DEF TypeOK
    <2>7. c.mainMoveUsed <= MainMovedRegateBudget BY <2>2 DEF LengthInv
    <2> QED BY <1>0, <2>2, <2>3, <2>4, <2>5, <2>6, <2>7, MoveLength DEF State, Running
  <1> QED BY <1>1, <1>2, <1>3, <1>5, <1>6, <1>7 DEF Gate, CiChecks, CiImplementRetry

LEMMA DiagnosedFacts ==
  ASSUME NEW n \in Counters, NEW cause \in Cause, NEW r \in {0, 1}
  PROVE  /\ Diagnosed(n, cause, r).diagnoseAttempts = n.diagnoseAttempts + 1
         /\ Diagnosed(n, cause, r).validateRejects = n.validateRejects
         /\ Diagnosed(n, cause, r).ciImplementRetries = n.ciImplementRetries
  BY DEF Diagnosed, Counters

LEMMA DiagnoseLength == ASSUME TypeOK, LengthInv, Diagnose PROVE LengthInv'
  <1>0. st \in Running /\ st = "DIAGNOSE" BY DEF Diagnose, Step, Running
  <1>1. ASSUME Rest PROVE LengthInv' BY <1>1, ParkLength DEF Rest
  <1>2. ASSUME NEW reason, DiagnosePark(reason) PROVE LengthInv'
    BY <1>1, <1>2, DiagnoseParkCases
  <1>4. CASE Transient \/ PoolWait BY <1>4, RequeueLength
  <1>5. ASSUME NEW cause \in Cause, NEW r \in {0, 1}, NEW s \in Site \cup {"IMPLEMENT"},
               NEW c \in Ctx, c.counters = Diagnosed(ctx.counters, cause, r),
               c.mainMoveUsed = ctx.mainMoveUsed, To(s, c, proof), task' = task,
               ctx.counters.diagnoseAttempts < DiagnoseBudget
        PROVE  LengthInv'
    <2>1. /\ c.counters.diagnoseAttempts = ctx.counters.diagnoseAttempts + 1
          /\ c.counters.validateRejects = ctx.counters.validateRejects
          /\ c.counters.ciImplementRetries = ctx.counters.ciImplementRetries
      BY <1>5, DiagnosedFacts DEF TypeOK, Ctx
    <2>2. /\ ctx.counters.diagnoseAttempts \in Nat /\ ctx.counters.validateRejects \in Nat
          /\ ctx.counters.ciImplementRetries \in Nat /\ ctx.mainMoveUsed \in Nat
      BY DEF TypeOK, Ctx, Counters
    <2>3. Within(c.counters) /\ Paid(c) = Paid(ctx) + 1
      BY <1>5, <2>1, <2>2, CardRunAssumption DEF LengthInv, Within, Paid
    <2>4. Rank(st) + 1 <= Rank(s) + 6 /\ s \in State BY <1>0, Ranks DEF Site, State, Running
    <2>5. Paid(ctx) \in Nat /\ c.mainMoveUsed <= MainMovedRegateBudget
      BY <1>5, PaidNat DEF TypeOK, LengthInv
    <2> QED BY <1>0, <1>5, <2>3, <2>4, <2>5, MoveLength
  <1>6. ASSUME NEW match, NEW cause \in Cause, OutOfScope(match, cause),
               ctx.counters.diagnoseAttempts < DiagnoseBudget
        PROVE  LengthInv'
    <2>1. CASE DiagnosePark("diagnose-out-of-scope") BY <2>1, <1>2
    <2>2. CASE ~DiagnosePark("diagnose-out-of-scope")
      <3> DEFINE c == [ctx EXCEPT !.counters = Diagnosed(@, cause, 1),
                                  !.pending = [from |-> ctx.cameFrom, same |-> TRUE]]
      <3>1. ctx.cameFrom \in Site BY <1>6, <2>2 DEF OutOfScope, Rechecks
      <3>2. Diagnosed(ctx.counters, cause, 1) \in Counters BY DiagnosedType DEF TypeOK, Ctx
      <3>3. /\ c \in Ctx /\ c.counters = Diagnosed(ctx.counters, cause, 1)
            /\ c.mainMoveUsed = ctx.mainMoveUsed
        BY <3>1, <3>2 DEF TypeOK, Ctx, Pending
      <3> HIDE DEF c
      <3>4. To(ctx.cameFrom, c, proof) /\ task' = task BY <1>6, <2>2 DEF OutOfScope, c
      <3> QED BY <1>5, <1>6, <3>1, <3>3, <3>4
    <2> QED BY <2>1, <2>2
  <1>7. ASSUME NEW cause \in Cause, NewCause(cause),
               ctx.counters.diagnoseAttempts < DiagnoseBudget
        PROVE  LengthInv'
    <2>1. CASE \E reason : DiagnosePark(reason) BY <2>1, <1>2
    <2>2. CASE ~\E reason : DiagnosePark(reason)
      <3> DEFINE c == [ctx EXCEPT !.counters = Diagnosed(@, cause, 0), !.pending = NoPending]
      <3>2. Diagnosed(ctx.counters, cause, 0) \in Counters BY DiagnosedType DEF TypeOK, Ctx
      <3>3. /\ c \in Ctx /\ c.counters = Diagnosed(ctx.counters, cause, 0)
            /\ c.mainMoveUsed = ctx.mainMoveUsed
        BY <3>2 DEF TypeOK, Ctx, Pending, NoPending
      <3> HIDE DEF c
      <3>4. To("IMPLEMENT", c, proof) /\ task' = task BY <1>7, <2>2 DEF NewCause, c
      <3> QED BY <1>5, <1>7, <3>3, <3>4
    <2> QED BY <2>1, <2>2
  <1> QED BY <1>1, <1>4, <1>6, <1>7, DiagnoseCases

LEMMA LateLength ==
  ASSUME TypeOK, LengthInv, Validate \/ Enqueue \/ MergeWait \/ Finish \/ Runaway
  PROVE  LengthInv'
  <1>1. CASE Park("final") \/ Park("resumable") BY <1>1, ParkLength
  <1>2. CASE Transient \/ PoolWait BY <1>2, RequeueLength
  <1>3. ASSUME NEW s \in State, NEW p, To(s, ctx, p), task' = task, Rank(st) + 1 <= Rank(s),
               st \in Running
        PROVE  LengthInv'
    BY <1>3, ForwardLength DEF TypeOK
  <1>4. CASE Validate /\ To("MERGE", ctx, proof \cup {"validate"}) /\ task' = task
    BY <1>3, <1>4, Ranks DEF Validate, Step, State, Running
  <1>5. CASE /\ Validate /\ ctx.counters.validateRejects + 1 < ValidateRejectBudget
             /\ To("IMPLEMENT", Charge("validateRejects"), proof) /\ task' = task
    <2> DEFINE c == Charge("validateRejects")
    <2>1. /\ c \in Ctx /\ c.mainMoveUsed = ctx.mainMoveUsed
          /\ c.counters = Plus(ctx.counters, "validateRejects")
      BY ChargeType DEF TypeOK, Ctx, Charge
    <2>2. To("IMPLEMENT", c, proof) BY <1>5
    <2> HIDE DEF c
    <2>3. ctx.counters \in Counters BY DEF TypeOK, Ctx
    <2>4. /\ c.counters.diagnoseAttempts = ctx.counters.diagnoseAttempts
          /\ c.counters.validateRejects = ctx.counters.validateRejects + 1
          /\ c.counters.ciImplementRetries = ctx.counters.ciImplementRetries
      BY <2>1, <2>3 DEF Plus, Counters
    <2>5. /\ ctx.counters.diagnoseAttempts \in Nat /\ ctx.counters.validateRejects \in Nat
          /\ ctx.counters.ciImplementRetries \in Nat /\ ctx.mainMoveUsed \in Nat
      BY DEF TypeOK, Ctx, Counters
    <2>6. Within(c.counters) /\ Paid(c) = Paid(ctx) + 1
      BY <1>5, <2>1, <2>4, <2>5, CardRunAssumption DEF LengthInv, Within, Paid
    <2>7. Rank(st) + 1 <= Rank("IMPLEMENT") + 6 /\ st \in Running
      BY <1>5, Ranks DEF Validate, Step, Running
    <2>8. Paid(ctx) \in Nat /\ c.mainMoveUsed <= MainMovedRegateBudget
      BY <2>1, PaidNat DEF TypeOK, LengthInv
    <2> QED BY <1>5, <2>1, <2>2, <2>6, <2>7, <2>8, MoveLength DEF State, Running
  <1>6. CASE Enqueue /\ ~Park("final")
    <2>1. /\ ctx'.counters = ctx.counters /\ ctx'.mainMoveUsed = ctx.mainMoveUsed
          /\ UNCHANGED <<st, hops, task>>
      BY <1>6 DEF Enqueue, TypeOK, Ctx
    <2> QED BY <2>1 DEF LengthInv, EveryWayBackIsPaid, Paid, Within
  <1>7. CASE MergeWait /\ RegateMerge
    <2> DEFINE c == [ctx EXCEPT !.mainMoveUsed = @ + 1, !.enqueued = FALSE]
               c1 == [ctx EXCEPT !.mainMoveUsed = @ + 1]
    <2>1. c1 \in Ctx /\ c1.counters = ctx.counters /\ c1.mainMoveUsed = ctx.mainMoveUsed + 1
      BY DEF TypeOK, Ctx
    <2>2. c \in Ctx /\ c.counters = ctx.counters /\ c.mainMoveUsed = ctx.mainMoveUsed + 1
      BY <2>1 DEF Ctx
    <2> HIDE DEF c, c1
    <2>3. st = "MERGE" BY <1>7 DEF MergeWait, Step
    <2>4. CASE /\ ctx.mainMoveUsed < MainMovedRegateBudget /\ task' = task
               /\ \E p \in {{}, proof} : To("CHECK", c, p)
      BY <2>2, <2>3, <2>4, RegateLength
    <2> QED BY <1>1, <1>7, <2>4, RegateCases DEF Rest, c
  <1>8. CASE /\ MergeWait /\ task' = task
             /\ To("FINISH", [ctx EXCEPT !.enqueued = FALSE, !.resumeWait = FALSE], proof)
    <2> DEFINE c == [ctx EXCEPT !.enqueued = FALSE, !.resumeWait = FALSE]
    <2>1. c \in Ctx /\ c.counters = ctx.counters /\ c.mainMoveUsed = ctx.mainMoveUsed
      BY DEF TypeOK, Ctx
    <2>2. To("FINISH", c, proof) BY <1>8
    <2> HIDE DEF c
    <2>3. st = "MERGE" BY <1>8 DEF MergeWait, Step
    <2> QED BY <1>8, <2>1, <2>2, <2>3, Ranks, ForwardLength DEF State, Running
  <1>9. CASE Finish /\ To("DONE", ctx, proof) /\ task' = task
    BY <1>3, <1>9, Ranks DEF Finish, Step, State, Running
  <1>10. CASE Validate BY <1>1, <1>2, <1>4, <1>5, <1>10, ValidateCases DEF Rest
  <1>11. CASE Enqueue BY <1>1, <1>6, <1>11
  <1>12. CASE MergeWait BY <1>1, <1>7, <1>8, <1>12, MergeWaitCases DEF Rest
  <1>13. CASE Finish BY <1>1, <1>9, <1>13 DEF Finish
  <1>14. CASE Runaway BY <1>1, <1>14 DEF Runaway
  <1> QED BY <1>10, <1>11, <1>12, <1>13, <1>14

LEMMA OutsideLength ==
  ASSUME TypeOK, LengthInv, GitHub \/ Crash \/ MergeWaitOrphan \/ Retry \/ Continue
  PROVE  LengthInv'
  <1>0. TypeOK' BY OutsideType
  <1>1. CASE GitHub
    BY <1>1 DEF GitHub, QueueMerges, QueueDrops, Closed, LengthInv, EveryWayBackIsPaid, Paid, Within
  <1>2. CASE Crash BY <1>2, ParkLength DEF Crash
  <1>3. CASE MergeWaitOrphan BY <1>3, RequeueLength
  <1>4. CASE Retry \/ Continue
    <2>1. Within(task'.resume.counters)
      <3>1. CASE Retry
        <4>1. task'.resume = NoResume BY <3>1 DEF Retry
        <4> QED BY <4>1, NewWithin
      <3>2. CASE Continue
        <4>1. task'.resume = [NoResume EXCEPT !.kind = "continue", !.startState = "CHECK"]
          BY <3>2 DEF Continue
        <4>2. task'.resume.counters = NoResume.counters BY <4>1 DEF NoResume
        <4> QED BY <4>2, NewWithin
      <3> QED BY <1>4, <3>1, <3>2
    <2>2. st = "PARKED" /\ st' = "QUEUED" /\ UNCHANGED <<ctx, hops>>
      BY <1>4 DEF Retry, Continue, Reply
    <2>3. Rank("PARKED") = 0 /\ Rank("QUEUED") = 0 BY DEF Rank
    <2> QED BY <2>1, <2>2, <2>3 DEF LengthInv, EveryWayBackIsPaid, Paid, Within
  <1> QED BY <1>1, <1>2, <1>3, <1>4

LEMMA NextLength == ASSUME TypeOK, LengthInv, [Next]_vars PROVE LengthInv'
  <1>1. CASE UNCHANGED vars
    BY <1>1 DEF vars, LengthInv, EveryWayBackIsPaid, Paid, Within
  <1>2. CASE Next
    BY <1>2, TakeLength, EarlyLength, DiagnoseLength, SiteLength, LateLength, OutsideLength
       DEF Next, Work
  <1> QED BY <1>1, <1>2

LEMMA InitLength == Init => LengthInv
  <1> SUFFICES ASSUME Init PROVE LengthInv OBVIOUS
  <1>1. Rank("QUEUED") = 0 BY DEF Rank
  <1>2. Paid(NewCtx) = 0 BY DEF Paid, NewCtx, Zero
  <1> QED BY <1>1, <1>2, NewWithin, CardRunAssumption DEF Init, LengthInv, EveryWayBackIsPaid

\* A run is no longer than the way to where it is and six handlers for each
\* charge: every way back through DIAGNOSE, VALIDATE, CI_CHECKS, a moved main
\* or a merge-forward is paid for.
THEOREM WaysBackArePaid == Spec => []EveryWayBackIsPaid
  <1>1. Init => TypeOK /\ LengthInv
    BY InitLength, CardRunAssumption, NewTypes DEF Init, TypeOK, State, Pr
  <1>2. TypeOK /\ LengthInv /\ [Next]_vars => (TypeOK /\ LengthInv)' BY NextType, NextLength
  <1>3. LengthInv => EveryWayBackIsPaid BY DEF LengthInv
  <1> QED BY <1>1, <1>2, <1>3, PTL DEF Spec

\* HOP_LIMIT is never met if it is larger than what the budgets allow: the
\* runaway park is only ever the answer to a handler's bug.
THEOREM LegitimateRunsNeverRunAway ==
  ASSUME 11 + 6 * (DiagnoseBudget + ValidateRejectBudget + CiRetryBudget
                   + MainMovedRegateBudget) < HopLimit
  PROVE  Spec => []NoRunaway
  <1>1. Init => TypeOK /\ LengthInv
    BY InitLength, CardRunAssumption, NewTypes DEF Init, TypeOK, State, Pr
  <1>2. TypeOK /\ LengthInv /\ [Next]_vars => (TypeOK /\ LengthInv)' BY NextType, NextLength
  <1>3. TypeOK /\ LengthInv => NoRunaway
    <2> SUFFICES ASSUME TypeOK, LengthInv PROVE NoRunaway OBVIOUS
    <2>1. /\ ctx.counters.diagnoseAttempts \in Nat /\ ctx.counters.validateRejects \in Nat
          /\ ctx.counters.ciImplementRetries \in Nat /\ ctx.mainMoveUsed \in Nat
      BY DEF TypeOK, Ctx, Counters
    <2>2. Paid(ctx) <= DiagnoseBudget + ValidateRejectBudget + CiRetryBudget
                       + MainMovedRegateBudget
      BY <2>1, CardRunAssumption DEF LengthInv, Within, Paid
    <2>3. Rank(st) \in 0..11 /\ Paid(ctx) \in Nat BY Ranks, PaidNat DEF TypeOK
    <2> QED BY <2>2, <2>3, CardRunAssumption DEF LengthInv, EveryWayBackIsPaid, NoRunaway, TypeOK
  <1> QED BY <1>1, <1>2, <1>3, PTL DEF Spec

-----------------------------------------------------------------------------
(* What is landed.  The inductive invariant of the merge queue: a state is *)
(* entered with the proofs of the states before it, whatever loop led back *)
(* to it; only a resumed merge wait knows nothing of its tree.             *)

Needs(s) ==
  CASE s = "PUSH_PR" -> {"check"}
    [] s = "GATE" -> {"check", "pushed"}
    [] s = "CI_CHECKS" -> {"check", "pushed", "gate"}
    [] s = "VALIDATE" -> Proof \ {"validate"}
    [] s = "MERGE" -> Proof
    [] OTHER -> {}

ProvenInv ==
  /\ ~ctx.resumeWait => Needs(st) \subseteq proof
  /\ ctx.resumeWait => st = "MERGE" /\ ~ctx.enqueued
  /\ st = "DIAGNOSE" /\ ctx.cameFrom \in Site => Needs(ctx.cameFrom) \subseteq proof

LEMMA NeedsOf ==
  /\ \A s \in State \ {"PUSH_PR", "GATE", "CI_CHECKS", "VALIDATE", "MERGE"} : Needs(s) = {}
  /\ Needs("PUSH_PR") = {"check"} /\ Needs("GATE") = {"check", "pushed"}
  /\ Needs("CI_CHECKS") = {"check", "pushed", "gate"}
  /\ Needs("VALIDATE") = {"check", "pushed", "gate", "ci"} /\ Needs("MERGE") = Proof
  BY DEF Needs, Proof

LEMMA RestProven == ASSUME st' \in {"QUEUED", "PARKED"}, ctx' = NewCtx PROVE ProvenInv'
  BY DEF ProvenInv, Needs, NewCtx

LEMMA ParkProven == ASSUME NEW class, Park(class) PROVE ProvenInv'
  BY RestProven DEF Park

LEMMA RestsProven == ASSUME Rest PROVE ProvenInv'
  BY ParkProven DEF Rest

LEMMA TransientProven == ASSUME Transient PROVE ProvenInv'
  BY RestProven DEF Transient, Park, Requeue

LEMMA PoolWaitProven == ASSUME PoolWait PROVE ProvenInv'
  BY RestProven DEF PoolWait, Park, Requeue

\* A handler that returns s leaves the proofs s needs, and DIAGNOSE those of
\* the site it may send the tree back to.
LEMMA ToProven ==
  ASSUME NEW s \in State, NEW c \in Ctx, NEW p, To(s, c, p), ~c.resumeWait,
         Needs(s) \subseteq p, s = "DIAGNOSE" /\ st \in Site => Needs(st) \subseteq p
  PROVE  ProvenInv'
  BY DEF To, Ctx, ProvenInv

\* Where no proof is needed, any tree will do.
LEMMA ToAnyProven ==
  ASSUME NEW s \in {"INTAKE", "WORKTREE", "PLAN", "IMPLEMENT", "CHECK", "FINISH", "DONE"},
         NEW c \in Ctx, NEW p, To(s, c, p), ~c.resumeWait
  PROVE  ProvenInv'
  <1>1. s \in State /\ Needs(s) = {} /\ s # "DIAGNOSE" BY NeedsOf DEF State, Running
  <1> QED BY <1>1, ToProven

LEMMA TakeProven == ASSUME TypeOK, Take PROVE ProvenInv'
  <1>1. ~NewCtx.resumeWait /\ ~Restored.resumeWait /\ ~Restored.enqueued
    BY DEF Restored, NewCtx
  <1>2. Restored \in Ctx BY RestoredType
  <1>3. CASE TakeFresh BY <1>1, <1>3 DEF TakeFresh, Start, ProvenInv, Needs
  <1>4. CASE TakeResume
    <2> PICK p \in {{}, {"pushed"}} :
          Start(task.resume.startState,
                [Restored EXCEPT !.pending = Kept(@, p),
                                 !.resumePush = (task.resume.startState = "CHECK"),
                                 !.resumeWait = (task.resume.startState = "MERGE")])
      BY <1>4 DEF TakeResume
    <2>1. task.resume.startState \in {"CHECK", "IMPLEMENT", "MERGE"}
      BY <1>4 DEF TypeOK, Resume, TakeResume
    <2>2. /\ st' = task.resume.startState
          /\ ctx'.resumeWait = (st' = "MERGE") /\ ~ctx'.enqueued
      BY <1>1, <1>2 DEF Start, Ctx
    <2> QED BY <2>1, <2>2 DEF ProvenInv, Needs
  <1>5. CASE RestartRefused BY <1>1, <1>5 DEF RestartRefused, Start, ProvenInv, Needs
  <1>6. CASE ResumeMerged
    <2>1. st' = "FINISH" /\ ~ctx'.resumeWait
      BY <1>1, <1>2, <1>6 DEF ResumeMerged, Start, Ctx
    <2> QED BY <2>1 DEF ProvenInv, Needs
  <1>7. CASE RefuseResume BY <1>7, ParkProven DEF RefuseResume
  <1> QED BY <1>3, <1>4, <1>5, <1>6, <1>7 DEF Take

LEMMA EarlyProven ==
  ASSUME TypeOK, ProvenInv,
         Intake \/ Worktree \/ Plan \/ Implement \/ MergeForward \/ Check \/ PushPr
  PROVE  ProvenInv'
  <1>0. ctx \in Ctx /\ (st # "MERGE" => ~ctx.resumeWait) BY DEF TypeOK, ProvenInv
  <1>1. CASE Intake
    BY <1>0, <1>1, ToAnyProven, ParkProven, TransientProven DEF Intake, Step
  <1>2. CASE Worktree
    BY <1>0, <1>2, WorktreeCases, ToAnyProven, ParkProven, TransientProven DEF Worktree, Step
  <1>3. CASE Plan
    BY <1>0, <1>3, PlanCases, ToAnyProven, RestsProven, TransientProven, PoolWaitProven
       DEF Plan, Step
  <1>4. CASE Implement
    <2>1. st = "IMPLEMENT" /\ st \notin Site BY <1>4 DEF Implement, Step, Site
    <2>2. ASSUME NEW p, To("CHECK", ctx, p) PROVE ProvenInv'
      BY <1>0, <2>1, <2>2, ToAnyProven
    <2>3. ASSUME NEW p, To("DIAGNOSE", ctx, p) PROVE ProvenInv'
      BY <1>0, <2>1, <2>3, ToProven, NeedsOf DEF State, Running
    <2> QED BY <1>4, <2>2, <2>3, ImplementCases, RestsProven, TransientProven, PoolWaitProven
  <1>5. CASE MergeForward
    <2> DEFINE c == [ctx EXCEPT !.mergeForward = "none", !.awaitingCheck = ctx.mergeForward]
    <2>1. c \in Ctx /\ c.resumeWait = ctx.resumeWait BY DEF TypeOK, Ctx
    <2>2. CASE To("CHECK", c, {})
      <3> HIDE DEF c
      <3> QED BY <1>0, <1>5, <2>1, <2>2, ToAnyProven DEF MergeForward, Step
    <2> QED BY <1>5, <2>2, MergeForwardCases, RestsProven
  <1>6. CASE Check
    <2> DEFINE c == [ctx EXCEPT !.awaitingCheck = "none"]
    <2>1. c \in Ctx /\ c.resumeWait = ctx.resumeWait BY DEF TypeOK, Ctx
    <2>2. st = "CHECK" /\ st \notin Site BY <1>6 DEF Check, Step, Site
    <2>3. CASE To("DIAGNOSE", ctx, proof)
      BY <1>0, <2>2, <2>3, ToProven, NeedsOf DEF State, Running
    <2>4. CASE To("PUSH_PR", c, proof \cup {"check"})
      <3> HIDE DEF c
      <3> QED BY <1>0, <2>1, <2>2, <2>4, ToProven, NeedsOf DEF State, Running
    <2> QED BY <1>6, <2>3, <2>4, CheckCases
  <1>7. CASE PushPr
    <2> DEFINE c == [ctx EXCEPT !.resumePush = FALSE]
    <2>1. c \in Ctx /\ c.resumeWait = ctx.resumeWait BY DEF TypeOK, Ctx
    <2>2. st = "PUSH_PR" BY <1>7 DEF PushPr, Step
    <2>3. Needs("GATE") \subseteq proof \cup {"pushed"}
      BY <1>0, <2>2, NeedsOf DEF ProvenInv
    <2>4. CASE To("GATE", c, proof \cup {"pushed"})
      <3> HIDE DEF c
      <3> QED BY <1>0, <2>1, <2>2, <2>3, <2>4, ToProven DEF State, Running
    <2> QED BY <1>7, <2>4, ParkProven DEF PushPr
  <1> QED BY <1>1, <1>2, <1>3, <1>4, <1>5, <1>6, <1>7

LEMMA SettledProven ==
  ASSUME NEW c \in Ctx PROVE Settled(c) \in Ctx /\ Settled(c).resumeWait = c.resumeWait
  BY DEF Settled, Ctx, NoPending, Pending

LEMMA MainMovedProven ==
  ASSUME TypeOK, ProvenInv, MainMoved, st \in Site
  PROVE  ProvenInv'
  <1> DEFINE c1 == [ctx EXCEPT !.mainMoveUsed = @ + 1]
             moved == Settled(c1)
             back == [moved EXCEPT !.mergeForward = st]
  <1>1. c1 \in Ctx /\ c1.resumeWait = ctx.resumeWait BY DEF TypeOK, Ctx
  <1>2. ~ctx.resumeWait BY DEF ProvenInv, Site
  <1> HIDE DEF c1
  <1>3. moved \in Ctx /\ ~moved.resumeWait BY <1>1, <1>2, SettledProven
  <1>4. back \in Ctx /\ ~back.resumeWait BY <1>3 DEF Ctx
  <1> HIDE DEF moved
  <1>5. ASSUME NEW p, To("CHECK", moved, p) PROVE ProvenInv' BY <1>3, <1>5, ToAnyProven
  <1> HIDE DEF back
  <1>6. CASE To("IMPLEMENT", back, proof) BY <1>4, <1>6, ToAnyProven
  <1> QED BY <1>5, <1>6, ParkProven DEF MainMoved, OfferMergeForward, moved, c1, back

LEMMA SiteProven ==
  ASSUME TypeOK, ProvenInv, Gate \/ CiChecks
  PROVE  ProvenInv'
  <1>0. ctx \in Ctx /\ (st # "MERGE" => ~ctx.resumeWait) BY DEF TypeOK, ProvenInv
  <1>1. Settled(ctx) \in Ctx /\ Settled(ctx).resumeWait = ctx.resumeWait
    BY <1>0, SettledProven
  <1>2. CASE Gate
    <2>1. st = "GATE" /\ ~ctx.resumeWait /\ Needs("GATE") \subseteq proof
      BY <1>0, <1>2 DEF Gate, Step, ProvenInv
    <2>2. CASE To("CI_CHECKS", Settled(ctx), proof \cup {"gate"})
      BY <1>1, <2>1, <2>2, ToProven, NeedsOf DEF State, Running
    <2>3. CASE To("DIAGNOSE", ctx, proof)
      BY <1>0, <2>1, <2>3, ToProven, NeedsOf DEF State, Running
    <2>4. CASE MainMoved BY <2>1, <2>4, MainMovedProven DEF Site
    <2> QED BY <1>2, <2>2, <2>3, <2>4, ParkProven, TransientProven DEF Gate
  <1>3. CASE CiChecks
    <2>1. st = "CI_CHECKS" /\ ~ctx.resumeWait /\ Needs("CI_CHECKS") \subseteq proof
      BY <1>0, <1>3 DEF CiChecks, Step, ProvenInv
    <2>2. CASE To("VALIDATE", Settled(ctx), proof \cup {"ci"})
      BY <1>1, <2>1, <2>2, ToProven, NeedsOf DEF State, Running
    <2>3. CASE To("DIAGNOSE", ctx, proof)
      BY <1>0, <2>1, <2>3, ToProven, NeedsOf DEF State, Running
    <2>4. CASE MainMoved BY <2>1, <2>4, MainMovedProven DEF Site
    <2>5. CASE CiImplementRetry
      <3> DEFINE c == Charge("ciImplementRetries")
      <3>1. c \in Ctx /\ c.resumeWait = ctx.resumeWait
        BY <1>0, PlusType DEF Charge, Ctx
      <3>2. Settled(c) \in Ctx /\ ~Settled(c).resumeWait BY <2>1, <3>1, SettledProven
      <3> QED BY <2>5, <3>2, ToAnyProven DEF CiImplementRetry
    <2> QED BY <1>3, <2>2, <2>3, <2>4, <2>5, ParkProven DEF CiChecks
  <1> QED BY <1>2, <1>3

LEMMA DiagnoseProven == ASSUME TypeOK, ProvenInv, Diagnose PROVE ProvenInv'
  <1>0. /\ st = "DIAGNOSE" /\ ctx \in Ctx /\ ~ctx.resumeWait
        /\ ctx.cameFrom \in Site => Needs(ctx.cameFrom) \subseteq proof
    BY DEF TypeOK, ProvenInv, Diagnose, Step
  <1>1. ASSUME NEW reason, DiagnosePark(reason) PROVE ProvenInv'
    BY <1>1, DiagnoseParkCases, RestsProven
  <1>2. ASSUME NEW match, NEW cause \in Cause, OutOfScope(match, cause) PROVE ProvenInv'
    <2> DEFINE c == [ctx EXCEPT !.counters = Diagnosed(@, cause, 1),
                                !.pending = [from |-> ctx.cameFrom, same |-> TRUE]]
    <2>1. CASE /\ Rechecks(match) /\ To(ctx.cameFrom, c, proof)
      <3>1. ctx.cameFrom \in Site BY <2>1 DEF Rechecks
      <3>2. c.counters \in Counters BY <1>0, DiagnosedType DEF Ctx
      <3>3. c \in Ctx /\ ~c.resumeWait BY <1>0, <3>1, <3>2 DEF Ctx, Pending
      <3> HIDE DEF c
      <3>4. ctx.cameFrom \in State /\ ctx.cameFrom # "DIAGNOSE" BY <3>1 DEF Site, State, Running
      <3> QED BY <1>0, <2>1, <3>1, <3>3, <3>4, ToProven
    <2> QED BY <1>1, <1>2, <2>1 DEF OutOfScope
  <1>3. ASSUME NEW cause \in Cause, NewCause(cause) PROVE ProvenInv'
    <2> DEFINE c == [ctx EXCEPT !.counters = Diagnosed(@, cause, 0), !.pending = NoPending]
    <2>1. CASE To("IMPLEMENT", c, proof)
      <3>1. c.counters \in Counters BY <1>0, DiagnosedType DEF Ctx
      <3>2. c \in Ctx /\ ~c.resumeWait BY <1>0, <3>1 DEF Ctx, Pending, NoPending
      <3> HIDE DEF c
      <3> QED BY <2>1, <3>2, ToAnyProven
    <2> QED BY <1>1, <1>3, <2>1 DEF NewCause
  <1> QED BY <1>2, <1>3, DiagnoseCases, RestsProven, TransientProven, PoolWaitProven

LEMMA LateProven ==
  ASSUME TypeOK, ProvenInv, Validate \/ Enqueue \/ MergeWait \/ Finish \/ Runaway
  PROVE  ProvenInv'
  <1>0. ctx \in Ctx BY DEF TypeOK
  <1>1. CASE Validate
    <2>1. st = "VALIDATE" /\ ~ctx.resumeWait /\ Needs("VALIDATE") \subseteq proof
      BY <1>1 DEF Validate, Step, ProvenInv
    <2>2. CASE To("MERGE", ctx, proof \cup {"validate"})
      <3>1. Proof \subseteq proof \cup {"validate"} BY <2>1, NeedsOf DEF Proof
      <3> QED BY <1>0, <2>1, <2>2, <3>1, ToProven, NeedsOf DEF State, Running
    <2>3. CASE To("IMPLEMENT", Charge("validateRejects"), proof)
      <3>1. Charge("validateRejects") \in Ctx
            /\ Charge("validateRejects").resumeWait = ctx.resumeWait
        BY <1>0, PlusType DEF Charge, Ctx
      <3> QED BY <2>1, <2>3, <3>1, ToAnyProven
    <2> QED BY <1>1, <2>2, <2>3, ValidateCases, RestsProven, TransientProven, PoolWaitProven
  <1>2. CASE Enqueue
    <2>1. CASE ctx' = [ctx EXCEPT !.enqueued = TRUE] /\ UNCHANGED <<st, proof>>
      <3>1. st = "MERGE" /\ ~ctx.resumeWait BY <1>2 DEF Enqueue, Step
      <3>2. ~ctx'.resumeWait BY <1>0, <2>1, <3>1 DEF Ctx
      <3> QED BY <2>1, <3>1, <3>2 DEF ProvenInv
    <2> QED BY <1>2, <2>1, ParkProven DEF Enqueue
  <1>3. CASE MergeWait
    <2>1. ASSUME RegateMerge, ctx.enqueued PROVE ProvenInv'
      <3> DEFINE c == [ctx EXCEPT !.mainMoveUsed = @ + 1, !.enqueued = FALSE]
                 c0 == [ctx EXCEPT !.mainMoveUsed = @ + 1]
      <3>1. c0 \in Ctx /\ c0.resumeWait = ctx.resumeWait BY <1>0 DEF Ctx
      <3>2. c \in Ctx /\ ~c.resumeWait BY <2>1, <3>1 DEF Ctx, ProvenInv
      <3> HIDE DEF c
      <3>3. ASSUME NEW p, To("CHECK", c, p) PROVE ProvenInv' BY <3>2, <3>3, ToAnyProven
      <3> QED BY <2>1, <3>3, RegateCases, RestsProven DEF c
    <2>2. CASE To("FINISH", [ctx EXCEPT !.enqueued = FALSE, !.resumeWait = FALSE], proof)
      <3> DEFINE c == [ctx EXCEPT !.enqueued = FALSE, !.resumeWait = FALSE]
      <3>1. c \in Ctx /\ ~c.resumeWait BY <1>0 DEF Ctx
      <3>2. To("FINISH", c, proof) BY <2>2
      <3> HIDE DEF c
      <3> QED BY <3>1, <3>2, ToAnyProven
    <2> QED BY <1>3, <2>1, <2>2, MergeWaitCases, RestsProven
  <1>4. CASE Finish
    <2>1. ~ctx.resumeWait BY <1>4 DEF Finish, Step, ProvenInv
    <2> QED BY <1>0, <1>4, <2>1, ToAnyProven, ParkProven DEF Finish
  <1>5. CASE Runaway BY <1>5, ParkProven DEF Runaway
  <1> QED BY <1>1, <1>2, <1>3, <1>4, <1>5

LEMMA OutsideProven ==
  ASSUME TypeOK, ProvenInv, GitHub \/ Crash \/ MergeWaitOrphan \/ Retry \/ Continue
  PROVE  ProvenInv'
  <1>1. CASE GitHub BY <1>1 DEF GitHub, QueueMerges, QueueDrops, Closed, ProvenInv
  <1>2. CASE Crash BY <1>2, ParkProven DEF Crash
  <1>3. CASE MergeWaitOrphan BY <1>3, RestProven DEF MergeWaitOrphan, Requeue
  <1>4. CASE Retry \/ Continue
    <2>1. st = "PARKED" /\ st' = "QUEUED" /\ UNCHANGED <<ctx, proof>>
      BY <1>4 DEF Retry, Continue, Reply
    <2> QED BY <2>1 DEF ProvenInv, Needs
  <1> QED BY <1>1, <1>2, <1>3, <1>4

LEMMA NextProven == ASSUME TypeOK, ProvenInv, [Next]_vars PROVE ProvenInv'
  <1>1. CASE UNCHANGED vars BY <1>1 DEF vars, ProvenInv
  <1>2. CASE Next
    BY <1>2, TakeProven, EarlyProven, SiteProven, DiagnoseProven, LateProven, OutsideProven
       DEF Next, Work
  <1> QED BY <1>1, <1>2

\* No step but Enqueue puts a pull request into the queue.
LEMMA OnlyEnqueues ==
  ASSUME TypeOK, [Next]_vars, pr # "queued", pr' = "queued"
  PROVE  Enqueue /\ st = "MERGE" /\ ~ctx.resumeWait
  <1>1. pr' # pr OBVIOUS
  <1>2. ~Take
    BY <1>1 DEF Take, TakeFresh, TakeResume, RestartRefused, ResumeMerged, RefuseResume,
                Start, Park
  <1>a. ~Rest /\ ~Transient /\ ~PoolWait
    BY <1>1 DEF Rest, Park, Transient, PoolWait, Requeue
  <1>b. \A reason : ~DiagnosePark(reason) BY <1>a, DiagnoseParkCases
  <1>3. ~(Intake \/ Plan \/ Implement \/ MergeForward \/ Check)
    BY <1>1, <1>a, PlanCases, ImplementCases, MergeForwardCases, CheckCases DEF Intake, Rest
  <1>4. ~(Worktree \/ PushPr) BY <1>1, <1>a, WorktreeCases DEF PushPr, Rest, Park
  <1>5. ~(Gate \/ CiChecks)
    BY <1>1 DEF Gate, CiChecks, MainMoved, OfferMergeForward, CiImplementRetry, Park,
                Transient, Requeue
  <1>6. ~Diagnose
    BY <1>1, <1>a, <1>b, DiagnoseCases DEF OutOfScope, NewCause
  <1>7. ~(Validate \/ MergeWait \/ Finish \/ Runaway)
    BY <1>1, <1>a, ValidateCases, MergeWaitCases, RegateCases DEF Finish, Runaway, Rest
  <1>8. ~(GitHub \/ Crash \/ MergeWaitOrphan \/ Retry \/ Continue)
    BY <1>1 DEF GitHub, QueueMerges, QueueDrops, Closed, Crash, MergeWaitOrphan, Retry,
                Continue, Reply, Park, Requeue
  <1>9. Next BY <1>1 DEF vars
  <1>10. Enqueue BY <1>2, <1>3, <1>4, <1>5, <1>6, <1>7, <1>8, <1>9 DEF Next, Work
  <1> QED BY <1>10 DEF Enqueue, Step

\* Only a tree that was checked, pushed, gated, green in CI and validated is
\* put into the merge queue, for all budgets and any number of loops,
\* wake-ups and replies.
THEOREM OnlyProvenIsEnqueued == Spec => EnqueuesOnlyProven
  <1>1. Init => TypeOK /\ ProvenInv
    BY RestProven, CardRunAssumption, NewTypes
       DEF Init, TypeOK, State, Pr, ProvenInv, NewCtx, Needs
  <1>2. TypeOK /\ ProvenInv /\ [Next]_vars => (TypeOK /\ ProvenInv)' BY NextType, NextProven
  <1>3. TypeOK /\ ProvenInv /\ [Next]_vars
          => [pr # "queued" /\ pr' = "queued" => proof = Proof]_vars
    <2> SUFFICES ASSUME TypeOK, ProvenInv, [Next]_vars, pr # "queued", pr' = "queued"
                 PROVE  proof = Proof
      OBVIOUS
    <2>1. Needs("MERGE") \subseteq proof BY OnlyEnqueues DEF ProvenInv
    <2> QED BY <2>1, NeedsOf DEF TypeOK
  <1> QED BY <1>1, <1>2, <1>3, PTL DEF Spec, EnqueuesOnlyProven

-----------------------------------------------------------------------------
(* FINISH and DONE are reached only through a merged pull request.         *)

LEMMA NextLanded == ASSUME TypeOK, DoneOnlyLanded, [Next]_vars PROVE DoneOnlyLanded'
  <1>1. CASE UNCHANGED vars BY <1>1 DEF vars, DoneOnlyLanded
  <1>2. CASE Take
    BY <1>2 DEF Take, TakeFresh, TakeResume, RestartRefused, ResumeMerged, RefuseResume,
                Start, Park, DoneOnlyLanded, TypeOK, Resume
  <1>a. ASSUME Rest \/ Transient \/ PoolWait PROVE DoneOnlyLanded'
    BY <1>a DEF Rest, Park, Transient, PoolWait, Requeue, DoneOnlyLanded
  <1>b. ASSUME NEW reason, DiagnosePark(reason) PROVE DoneOnlyLanded'
    BY <1>a, <1>b, DiagnoseParkCases
  <1>3. CASE Intake \/ Worktree \/ Plan \/ Implement \/ MergeForward \/ Check \/ PushPr
    BY <1>3, <1>a, WorktreeCases, PlanCases, ImplementCases, MergeForwardCases, CheckCases
       DEF Intake, PushPr, To, Rest, Park, DoneOnlyLanded
  <1>4. CASE Gate \/ CiChecks
    BY <1>4 DEF Gate, CiChecks, MainMoved, OfferMergeForward, CiImplementRetry, To, Park,
                Transient, Requeue, DoneOnlyLanded
  <1>5. CASE Diagnose
    BY <1>5, <1>a, <1>b, DiagnoseCases
       DEF OutOfScope, Rechecks, NewCause, Site, To, DoneOnlyLanded
  <1>6. CASE Validate \/ Enqueue \/ MergeWait \/ Finish \/ Runaway
    BY <1>6, <1>a, ValidateCases, MergeWaitCases, RegateCases
       DEF Enqueue, Finish, Runaway, Step, To, Rest, Park, DoneOnlyLanded
  <1>7. CASE GitHub \/ Crash \/ MergeWaitOrphan \/ Retry \/ Continue
    BY <1>7 DEF GitHub, QueueMerges, QueueDrops, Closed, OpenPr, Crash, MergeWaitOrphan,
                Retry, Continue, Reply, Park, Requeue, DoneOnlyLanded
  <1> QED BY <1>1, <1>2, <1>3, <1>4, <1>5, <1>6, <1>7 DEF Next, Work

\* A card is FINISHed, and DONE, only when GitHub merged its pull request.
THEOREM OnlyLandedIsDone == Spec => []DoneOnlyLanded
  <1>1. Init => TypeOK /\ DoneOnlyLanded
    BY CardRunAssumption, NewTypes DEF Init, TypeOK, State, Pr, DoneOnlyLanded
  <1>2. TypeOK /\ DoneOnlyLanded /\ [Next]_vars => (TypeOK /\ DoneOnlyLanded)'
    BY NextType, NextLanded
  <1> QED BY <1>1, <1>2, PTL DEF Spec

-----------------------------------------------------------------------------
(* What brings a card to rest.  CardSettles needs fairness; that nothing   *)
(* but a reply can put the rest off for ever does not.  Every step of the  *)
(* program uses up one of the wake-ups its budgets allow or, between two   *)
(* of them, leaves fewer steps to take.                                    *)

\* The times this attempt was queued again without a maintainer.
Wakeups == task.transientRetries + task.poolWaits + task.resume.mergeWaits

\* Each has its budget, and only an entry that resumes a merge wait has
\* merge waits to count.
WakeupsInv ==
  /\ hops <= HopLimit
  /\ task.transientRetries <= TransientRetryBudget
  /\ task.poolWaits <= PoolWaits
  /\ task.resume.mergeWaits <= MergeWaitResumeMax
  /\ task.resume.kind # "mergeWait" => task.resume.mergeWaits = 0

\* An upper bound of the steps a run may still take: two for each hop, as
\* MERGE has two halves.
Left ==
  CASE st = "QUEUED" -> 2 * HopLimit + 3
    [] st \in Running -> 2 * (HopLimit - hops) + (IF ctx.enqueued THEN 1 ELSE 2)
    [] OTHER -> 0

Nearer == Wakeups' = Wakeups /\ Left' < Left
Onward == WakeupsInv' /\ (Wakeups' > Wakeups \/ Nearer)

\* The three shapes of a handler that does not park or queue the card.
Hop ==
  /\ st \in Running /\ hops < HopLimit
  /\ st' \in Running \cup {"DONE"} /\ hops' = hops + 1 /\ task' = task

LEMMA TaskCounts ==
  ASSUME TypeOK
  PROVE  /\ task.transientRetries \in Nat /\ task.poolWaits \in Nat
         /\ task.resume \in Resume /\ task.resume.mergeWaits \in Nat
         /\ hops \in Nat /\ HopLimit \in Nat /\ Wakeups \in Nat
  BY CardRunAssumption DEF TypeOK, Resume, Wakeups

LEMMA LeftOf ==
  ASSUME TypeOK, WakeupsInv
  PROVE  /\ Left \in Nat
         /\ st = "QUEUED" => Left = 2 * HopLimit + 3
         /\ st \in Running => Left \in 1..(2 * HopLimit + 2)
         /\ st \in Running => Left >= 2 * (HopLimit - hops) + 1
  BY TaskCounts DEF WakeupsInv, Left, Running

\* A park leaves nothing to do.
LEMMA ParkOnward ==
  ASSUME TypeOK, WakeupsInv, st \in Running \cup {"QUEUED"}, NEW class, Park(class)
  PROVE  Onward
  <1>1. Left > 0 /\ Left \in Nat BY LeftOf, TaskCounts
  <1>2. Left' = 0 BY DEF Park, Left, Running
  <1>3. task' = task /\ hops' = 0 BY DEF Park
  <1> QED BY <1>1, <1>2, <1>3, TaskCounts DEF Onward, Nearer, WakeupsInv, Wakeups

LEMMA RestOnward ==
  ASSUME TypeOK, WakeupsInv, st \in Running \cup {"QUEUED"}, Rest PROVE Onward
  BY ParkOnward DEF Rest

\* A hop has one fewer before it, whether or not it leaves MERGE.
LEMMA HopOnward == ASSUME TypeOK, WakeupsInv, Hop PROVE Onward
  <1>1. hops \in Nat /\ HopLimit \in Nat /\ Left \in Nat /\ Left >= 2 * (HopLimit - hops) + 1
    BY LeftOf, TaskCounts DEF Hop
  <1>2. Left' <= 2 * (HopLimit - hops') + 2 /\ Left' \in Nat
    BY <1>1 DEF Hop, Left, Running
  <1>3. Left' < Left BY <1>1, <1>2 DEF Hop
  <1> QED BY <1>1, <1>3 DEF Hop, Onward, Nearer, WakeupsInv, Wakeups

\* A re-enqueue pays for itself, and loses no wake-up that was paid before.
LEMMA CarriedWaits ==
  ASSUME TypeOK, WakeupsInv, NEW s
  PROVE  /\ CarriedResume(s).mergeWaits = task.resume.mergeWaits
         /\ PoolWaitResume(s).mergeWaits = task.resume.mergeWaits
         /\ CarriedResume(s).kind # "mergeWait" => CarriedResume(s).mergeWaits = 0
         /\ PoolWaitResume(s).kind # "mergeWait" => PoolWaitResume(s).mergeWaits = 0
  <1>1. task.resume \in Resume /\ task.resume.mergeWaits \in Nat BY TaskCounts
  <1>2. /\ CarriedResume(s).mergeWaits = task.resume.mergeWaits
        /\ CarriedResume(s).kind # "mergeWait" => CarriedResume(s).mergeWaits = 0
    BY <1>1 DEF CarriedResume, NoResume, WakeupsInv, Resume
  <1> QED BY <1>1, <1>2 DEF PoolWaitResume, NoResume, WakeupsInv, Resume

LEMMA RequeueOnward ==
  ASSUME TypeOK, WakeupsInv, st \in Running, Transient \/ PoolWait
  PROVE  Onward
  <1>1. CASE Park("final") BY <1>1, ParkOnward
  <1>2. ASSUME NEW r, NEW a \in Nat, NEW b \in Nat,
               a <= TransientRetryBudget, b <= PoolWaits,
               a + b = task.transientRetries + task.poolWaits + 1,
               r.mergeWaits = task.resume.mergeWaits,
               r.kind # "mergeWait" => r.mergeWaits = 0,
               task'.transientRetries = a, task'.poolWaits = b, task'.resume = r, hops' = 0
        PROVE  Onward
    BY <1>2, TaskCounts DEF Onward, WakeupsInv, Wakeups
  <1>3. CASE MayRetry /\ Requeue([task EXCEPT !.transientRetries = @ + 1,
                                             !.resume = CarriedResume(st)])
    <2>1. /\ task'.transientRetries = task.transientRetries + 1
          /\ task'.poolWaits = task.poolWaits /\ task'.resume = CarriedResume(st) /\ hops' = 0
      BY <1>3 DEF Requeue, TypeOK
    <2>2. task.transientRetries + 1 <= TransientRetryBudget /\ task.poolWaits <= PoolWaits
      BY <1>3, TaskCounts, CardRunAssumption DEF MayRetry, WakeupsInv
    <2> QED BY <1>2, <2>1, <2>2, CarriedWaits, TaskCounts
  <1>4. CASE MayWait /\ Requeue([task EXCEPT !.poolWaits = @ + 1,
                                            !.resume = PoolWaitResume(st)])
    <2>1. /\ task'.transientRetries = task.transientRetries
          /\ task'.poolWaits = task.poolWaits + 1 /\ task'.resume = PoolWaitResume(st) /\ hops' = 0
      BY <1>4 DEF Requeue, TypeOK
    <2>2. task.transientRetries <= TransientRetryBudget /\ task.poolWaits + 1 <= PoolWaits
      BY <1>4, TaskCounts, CardRunAssumption DEF MayWait, WakeupsInv
    <2> QED BY <1>2, <2>1, <2>2, CarriedWaits, TaskCounts
  <1> QED BY <1>1, <1>3, <1>4 DEF Transient, PoolWait

LEMMA ToHop ==
  ASSUME st \in Running, hops < HopLimit, NEW s \in Running \cup {"DONE"}, NEW c, NEW p,
         To(s, c, p), task' = task
  PROVE  Hop
  BY DEF To, Hop

\* Which shape each handler has.
LEMMA EarlyShape ==
  ASSUME Intake \/ Worktree \/ Plan \/ Implement \/ MergeForward \/ Check \/ PushPr
  PROVE  st \in Running /\ (Hop \/ Rest \/ Transient \/ PoolWait)
  <1>1. st \in Running /\ hops < HopLimit
    BY DEF Intake, Worktree, Plan, Implement, MergeForward, Check, PushPr, Step, Running
  <1>2. ASSUME NEW s \in Running, NEW c, NEW p, To(s, c, p), task' = task PROVE Hop
    BY <1>1, <1>2, ToHop
  <1>3. CASE Intake BY <1>1, <1>2, <1>3 DEF Intake, Rest, Running
  <1>4. CASE Worktree BY <1>1, <1>2, <1>4, WorktreeCases DEF Rest, Running
  <1>5. CASE Plan BY <1>1, <1>2, <1>5, PlanCases DEF Running
  <1>6. CASE Implement BY <1>1, <1>2, <1>6, ImplementCases DEF Running
  <1>7. CASE MergeForward BY <1>1, <1>2, <1>7, MergeForwardCases DEF Running
  <1>8. CASE Check BY <1>1, <1>2, <1>8, CheckCases DEF Running
  <1>9. CASE PushPr BY <1>1, <1>2, <1>9 DEF PushPr, Rest, Running
  <1> QED BY <1>3, <1>4, <1>5, <1>6, <1>7, <1>8, <1>9

LEMMA SiteShape ==
  ASSUME Gate \/ CiChecks
  PROVE  st \in Running /\ (Hop \/ Rest \/ Transient)
  <1>1. st \in Running /\ hops < HopLimit BY DEF Gate, CiChecks, Step, Running
  <1>2. ASSUME NEW s \in Running, NEW c, NEW p, To(s, c, p), task' = task PROVE Hop
    BY <1>1, <1>2, ToHop
  <1>3. CASE MainMoved
    <2> DEFINE moved == Settled([ctx EXCEPT !.mainMoveUsed = @ + 1])
               back == [moved EXCEPT !.mergeForward = st]
    <2> HIDE DEF moved, back
    <2>1. ASSUME NEW p, To("CHECK", moved, p), task' = task PROVE Hop
      BY <1>2, <2>1 DEF Running
    <2>2. ASSUME To("IMPLEMENT", back, proof), task' = task PROVE Hop
      BY <1>2, <2>2 DEF Running
    <2> QED BY <1>1, <1>3, <2>1, <2>2 DEF MainMoved, OfferMergeForward, Rest, moved, back
  <1>4. CASE CiImplementRetry
    <2> DEFINE c == Settled(Charge("ciImplementRetries"))
    <2>1. To("IMPLEMENT", c, proof) /\ task' = task BY <1>4 DEF CiImplementRetry
    <2> HIDE DEF c
    <2> QED BY <1>1, <1>2, <2>1 DEF Running
  <1>5. CASE Gate BY <1>1, <1>2, <1>3, <1>5 DEF Gate, Rest, Running
  <1>6. CASE CiChecks BY <1>1, <1>2, <1>3, <1>4, <1>6 DEF CiChecks, Rest, Running
  <1> QED BY <1>5, <1>6

LEMMA DiagnoseShape ==
  ASSUME Diagnose PROVE st \in Running /\ (Hop \/ Rest \/ Transient \/ PoolWait)
  <1>1. st \in Running /\ hops < HopLimit BY DEF Diagnose, Step, Running
  <1>2. ASSUME NEW s \in Running, NEW c, NEW p, To(s, c, p), task' = task PROVE Hop
    BY <1>1, <1>2, ToHop
  <1>3. ASSUME NEW match, NEW cause, OutOfScope(match, cause) PROVE Hop \/ Rest
    <2>1. CASE Rechecks(match)
      <3>1. ctx.cameFrom \in Running BY <2>1 DEF Rechecks, Site, Running
      <3> QED BY <1>2, <1>3, <2>1, <3>1 DEF OutOfScope
    <2> QED BY <1>3, <2>1, DiagnoseParkCases DEF OutOfScope
  <1>4. ASSUME NEW cause, NewCause(cause) PROVE Hop \/ Rest
    BY <1>2, <1>4, DiagnoseParkCases DEF NewCause, Running
  <1> QED BY <1>1, <1>3, <1>4, DiagnoseCases

LEMMA LateShape ==
  ASSUME Validate \/ MergeWait \/ Finish \/ Runaway
  PROVE  st \in Running /\ (Hop \/ Rest \/ Transient \/ PoolWait)
  <1>1. ASSUME NEW s \in Running \cup {"DONE"}, NEW c, NEW p, To(s, c, p), task' = task,
               st \in Running, hops < HopLimit
        PROVE Hop
    BY <1>1, ToHop
  <1>2. CASE Validate
    <2>1. st \in Running /\ hops < HopLimit BY <1>2 DEF Validate, Step, Running
    <2> QED BY <1>1, <1>2, <2>1, ValidateCases DEF Running
  <1>3. CASE MergeWait
    <2>1. st \in Running /\ hops < HopLimit BY <1>3 DEF MergeWait, Step, Running
    <2>2. CASE RegateMerge BY <1>1, <2>1, <2>2, RegateCases DEF Running
    <2> QED BY <1>1, <1>3, <2>1, <2>2, MergeWaitCases DEF Running
  <1>4. CASE Finish
    <2>1. st \in Running /\ hops < HopLimit BY <1>4 DEF Finish, Step, Running
    <2> QED BY <1>1, <1>4, <2>1 DEF Finish, Rest
  <1>5. CASE Runaway BY <1>5 DEF Runaway, Rest
  <1> QED BY <1>2, <1>3, <1>4, <1>5

\* Putting the pull request into the queue is the first half of MERGE.
LEMMA EnqueueOnward == ASSUME TypeOK, WakeupsInv, Enqueue PROVE Onward
  <1>1. st = "MERGE" /\ st \in Running /\ ~ctx.enqueued BY DEF Enqueue, Step, Running
  <1>2. CASE ctx' = [ctx EXCEPT !.enqueued = TRUE] /\ UNCHANGED <<st, hops, task>>
    <2>1. ctx'.enqueued BY <1>2 DEF TypeOK, Ctx
    <2>2. Left = 2 * (HopLimit - hops) + 2 /\ Left' = 2 * (HopLimit - hops) + 1
      BY <1>1, <1>2, <2>1 DEF Left
    <2>3. Left' < Left BY <2>2, TaskCounts
    <2> QED BY <1>2, <2>3 DEF Onward, Nearer, WakeupsInv, Wakeups
  <1> QED BY <1>1, <1>2, ParkOnward DEF Enqueue

LEMMA WorkOnward == ASSUME TypeOK, WakeupsInv, Work PROVE Onward
  <1>1. CASE Enqueue BY <1>1, EnqueueOnward
  <1>2. ASSUME st \in Running, Hop \/ Rest \/ Transient \/ PoolWait PROVE Onward
    BY <1>2, HopOnward, RestOnward, RequeueOnward
  <1> QED BY <1>1, <1>2, EarlyShape, SiteShape, DiagnoseShape, LateShape DEF Work

\* To take an entry uses nothing up, and what it starts has fewer steps to go.
LEMMA TakeOnward == ASSUME TypeOK, WakeupsInv, Take PROVE Onward
  <1>0. st = "QUEUED" /\ st \in Running \cup {"QUEUED"}
    BY DEF Take, TakeFresh, TakeResume, RestartRefused, ResumeMerged, RefuseResume
  <1>1. ASSUME NEW s \in Running, NEW c, Start(s, c),
               task'.transientRetries = task.transientRetries, task'.poolWaits = task.poolWaits,
               task'.resume.mergeWaits = task.resume.mergeWaits,
               task'.resume.kind # "mergeWait" => task'.resume.mergeWaits = 0
        PROVE  Onward
    <2>1. st' \in Running /\ hops' = 0 BY <1>1 DEF Start
    <2>2. Left' <= 2 * HopLimit + 2 /\ Left' \in Nat
      BY <2>1, TaskCounts DEF Left, Running
    <2>3. Left' < Left BY <1>0, <2>2, LeftOf, TaskCounts
    <2> QED BY <1>1, <2>1, <2>3, TaskCounts DEF Onward, Nearer, WakeupsInv, Wakeups
  <1>2. CASE TakeFresh
    BY <1>1, <1>2 DEF TakeFresh, Running, WakeupsInv
  <1>3. CASE TakeResume
    <2>1. task.resume.startState \in Running
      BY <1>3, TaskCounts DEF TakeResume, Resume, Running
    <2> QED BY <1>1, <1>3, <2>1 DEF TakeResume, WakeupsInv
  <1>4. CASE RestartRefused
    <2>1. /\ task'.transientRetries = task.transientRetries /\ task'.poolWaits = task.poolWaits
          /\ task'.resume = NoResume
      BY <1>4 DEF RestartRefused, TypeOK
    <2>2. task'.resume.mergeWaits = 0 /\ task.resume.mergeWaits = 0
      BY <1>4, <2>1 DEF RestartRefused, NoResume, WakeupsInv
    <2> QED BY <1>1, <1>4, <2>1, <2>2 DEF RestartRefused, Running
  <1>5. CASE ResumeMerged BY <1>1, <1>5 DEF ResumeMerged, Running, WakeupsInv
  <1>6. CASE RefuseResume BY <1>0, <1>6, ParkOnward DEF RefuseResume
  <1> QED BY <1>2, <1>3, <1>4, <1>5, <1>6 DEF Take

\* A resumed merge wait is counted whether or not the run resumed one before.
LEMMA OrphanOnward == ASSUME TypeOK, WakeupsInv, MergeWaitOrphan PROVE Onward
  <1>1. /\ task'.transientRetries = task.transientRetries /\ task'.poolWaits = task.poolWaits
        /\ task'.resume.mergeWaits = task.resume.mergeWaits + 1
        /\ task'.resume.kind = "mergeWait" /\ hops' = 0
        /\ task.resume.mergeWaits < MergeWaitResumeMax
    BY DEF MergeWaitOrphan, Requeue, TypeOK
  <1> QED BY <1>1, TaskCounts, CardRunAssumption DEF Onward, WakeupsInv, Wakeups

LEMMA ReplyWakeups == ASSUME TypeOK, WakeupsInv, Retry \/ Continue PROVE WakeupsInv'
  <1> DEFINE r == [NoResume EXCEPT !.kind = "continue", !.startState = "CHECK"]
  <1>0. r.mergeWaits = 0 /\ NoResume.mergeWaits = 0 BY DEF NoResume
  <1> HIDE DEF r
  <1>1. task'.transientRetries = 0 /\ task'.poolWaits = 0 /\ hops' = hops
    BY DEF Retry, Continue, Reply
  <1>2. CASE Retry
    <2>1. task'.resume = NoResume BY <1>2 DEF Retry
    <2> QED BY <1>0, <1>1, <2>1, CardRunAssumption DEF WakeupsInv
  <1>3. CASE Continue
    <2>1. task'.resume = r BY <1>3 DEF Continue, r
    <2> QED BY <1>0, <1>1, <2>1, CardRunAssumption DEF WakeupsInv
  <1> QED BY <1>2, <1>3

LEMMA GitHubStays ==
  ASSUME WakeupsInv, GitHub \/ UNCHANGED vars
  PROVE  WakeupsInv' /\ UNCHANGED <<Wakeups, Left>>
  BY DEF GitHub, QueueMerges, QueueDrops, Closed, vars, WakeupsInv, Wakeups, Left

LEMMA NextWakeups ==
  ASSUME TypeOK, WakeupsInv, [Next]_vars
  PROVE  /\ WakeupsInv'
         /\ Retry \/ Continue \/ Onward \/ UNCHANGED <<Wakeups, Left>>
  <1>1. CASE Crash BY <1>1, ParkOnward DEF Crash, Onward
  <1> QED BY <1>1, TakeOnward, WorkOnward, OrphanOnward, ReplyWakeups, GitHubStays
      DEF Next, Onward

LEMMA WakeupsHold == Spec => [](TypeOK /\ WakeupsInv)
  <1>1. Init => TypeOK /\ WakeupsInv
    BY CardRunAssumption, NewTypes
       DEF Init, TypeOK, State, Pr, WakeupsInv, NoResume
  <1>2. TypeOK /\ WakeupsInv /\ [Next]_vars => (TypeOK /\ WakeupsInv)'
    BY NextType, NextWakeups
  <1> QED BY <1>1, <1>2, PTL DEF Spec

\* The two measures are bounded: an attempt is queued again by the machine no
\* more often than its three budgets add up to, and a run has a last step.
THEOREM WakeupsAreBounded ==
  Spec => [](/\ Wakeups <= TransientRetryBudget + PoolWaits + MergeWaitResumeMax
             /\ Left \in 0..(2 * HopLimit + 3))
  <1>1. TypeOK /\ WakeupsInv
        => /\ Wakeups <= TransientRetryBudget + PoolWaits + MergeWaitResumeMax
           /\ Left \in 0..(2 * HopLimit + 3)
    <2> SUFFICES ASSUME TypeOK, WakeupsInv
                 PROVE  /\ Wakeups <= TransientRetryBudget + PoolWaits + MergeWaitResumeMax
                        /\ Left \in 0..(2 * HopLimit + 3)
      OBVIOUS
    <2>1. Wakeups <= TransientRetryBudget + PoolWaits + MergeWaitResumeMax
      BY TaskCounts, CardRunAssumption DEF WakeupsInv, Wakeups
    <2>2. st \notin Running \cup {"QUEUED"} => Left = 0 BY DEF Left, Running
    <2> QED BY <2>1, <2>2, LeftOf, TaskCounts
  <1> QED BY <1>1, WakeupsHold, PTL

\* Only a reply puts off a card's rest: every other step of the program, a
\* crash included, is paid with a wake-up or takes the card nearer to its
\* rest, and what GitHub does changes neither.  With WakeupsAreBounded this
\* is what CardSettles needs besides the scheduling of Take and Work.
THEOREM OnlyRepliesProlong ==
  Spec => [][\/ Retry \/ Continue
             \/ Wakeups' > Wakeups
             \/ Wakeups' = Wakeups /\ Left' < Left
             \/ GitHub /\ UNCHANGED <<Wakeups, Left>>]_vars
  <1> DEFINE Step1 == \/ Retry \/ Continue
                      \/ Wakeups' > Wakeups
                      \/ Wakeups' = Wakeups /\ Left' < Left
                      \/ GitHub /\ UNCHANGED <<Wakeups, Left>>
  <1>1. TypeOK /\ WakeupsInv /\ [Next]_vars => [Step1]_vars
    <2> SUFFICES ASSUME TypeOK, WakeupsInv, Next PROVE Step1
      OBVIOUS
    <2>1. CASE Crash BY <2>1, ParkOnward DEF Crash, Onward, Nearer
    <2> QED BY <2>1, TakeOnward, WorkOnward, OrphanOnward, GitHubStays
        DEF Next, Onward, Nearer
  <1> QED BY <1>1, WakeupsHold, PTL DEF Spec
-----------------------------------------------------------------------------
(* A run that resumed a merge wait stays in MERGE and FINISH.              *)

MergeWaitInv ==
  task.resume.kind = "mergeWait" =>
    /\ st \in {"QUEUED", "MERGE", "FINISH", "PARKED", "DONE"}
    /\ st = "MERGE" => ctx.resumeWait /\ ~ctx.enqueued

LEMMA RequeueRests == ASSUME Rest \/ Transient \/ PoolWait PROVE st' \in {"PARKED", "QUEUED"}
  BY DEF Rest, Transient, PoolWait, Park, Requeue

LEMMA TakeWait == ASSUME TypeOK, MergeWaitInv, Take PROVE MergeWaitInv'
  <1>1. CASE TakeFresh BY <1>1 DEF TakeFresh, Start, MergeWaitInv
  <1>2. CASE TakeResume
    <2> PICK p \in {{}, {"pushed"}} :
          Start(task.resume.startState,
                [Restored EXCEPT !.pending = Kept(@, p),
                                 !.resumePush = (task.resume.startState = "CHECK"),
                                 !.resumeWait = (task.resume.startState = "MERGE")])
      BY <1>2 DEF TakeResume
    <2>1. Restored \in Ctx /\ ~Restored.enqueued BY RestoredType DEF Restored, NewCtx
    <2>2. /\ st' = task.resume.startState /\ task' = task /\ ~ctx'.enqueued
          /\ ctx'.resumeWait = (st' = "MERGE")
      BY <1>2, <2>1 DEF TakeResume, Start, Ctx
    <2>3. task.resume.kind = "mergeWait" <=> task.resume.startState = "MERGE"
      BY DEF TypeOK, Resume
    <2> QED BY <2>2, <2>3 DEF MergeWaitInv
  <1>3. CASE RestartRefused
    <2>1. task'.resume.kind = "none" BY <1>3 DEF RestartRefused, NoResume, TypeOK
    <2> QED BY <2>1 DEF MergeWaitInv
  <1>4. CASE ResumeMerged
    <2>1. st' = "FINISH" BY <1>4 DEF ResumeMerged, Start
    <2> QED BY <2>1 DEF MergeWaitInv
  <1>5. CASE RefuseResume
    <2>1. st' = "PARKED" BY <1>5 DEF RefuseResume, Park
    <2> QED BY <2>1 DEF MergeWaitInv
  <1> QED BY <1>1, <1>2, <1>3, <1>4, <1>5 DEF Take

LEMMA NextWait == ASSUME TypeOK, MergeWaitInv, [Next]_vars PROVE MergeWaitInv'
  <1>1. ASSUME st' \in {"QUEUED", "PARKED", "DONE"} PROVE MergeWaitInv'
    BY <1>1 DEF MergeWaitInv
  <1>2. ASSUME st \in Running \ {"MERGE", "FINISH"}, Hop PROVE MergeWaitInv'
    BY <1>2 DEF MergeWaitInv, Hop, Running
  <1>3. CASE Take BY <1>3, TakeWait
  <1>4. CASE Intake \/ Worktree \/ Plan \/ Implement \/ MergeForward \/ Check \/ PushPr
    <2>1. st \in Running \ {"MERGE", "FINISH"}
      BY <1>4 DEF Intake, Worktree, Plan, Implement, MergeForward, Check, PushPr, Step, Running
    <2> QED BY <1>1, <1>2, <1>4, <2>1, EarlyShape, RequeueRests
  <1>5. CASE Gate \/ CiChecks \/ Diagnose \/ Validate
    <2>1. st \in Running \ {"MERGE", "FINISH"}
      BY <1>5 DEF Gate, CiChecks, Diagnose, Validate, Step, Running
    <2> QED BY <1>1, <1>2, <1>5, <2>1, SiteShape, DiagnoseShape, LateShape, RequeueRests
  <1>6. CASE Enqueue
    <2>1. CASE Park("final") BY <1>1, <2>1 DEF Park
    <2>2. CASE task' = task
      <3>1. task.resume.kind # "mergeWait" BY <1>6 DEF Enqueue, Step, MergeWaitInv
      <3> QED BY <2>2, <3>1 DEF MergeWaitInv
    <2> QED BY <1>6, <2>1, <2>2 DEF Enqueue
  <1>7. CASE MergeWait
    <2>1. ASSUME Rest PROVE MergeWaitInv' BY <1>1, <2>1, RequeueRests
    <2>2. CASE st' = "FINISH" BY <2>2 DEF MergeWaitInv
    <2>3. CASE ctx.enqueued /\ RegateMerge
      <3>1. task.resume.kind # "mergeWait" BY <1>7, <2>3 DEF MergeWait, Step, MergeWaitInv
      <3>2. task' = task \/ Rest BY <2>3, RegateCases
      <3> QED BY <2>1, <3>1, <3>2 DEF MergeWaitInv
    <2> QED BY <1>7, <2>1, <2>2, <2>3, MergeWaitCases DEF To
  <1>8. CASE Finish \/ Runaway \/ Crash BY <1>1, <1>8 DEF Finish, Runaway, Crash, Park, To
  <1>9. CASE MergeWaitOrphan \/ Retry \/ Continue
    BY <1>1, <1>9 DEF MergeWaitOrphan, Requeue, Retry, Continue, Reply
  <1>10. CASE GitHub \/ UNCHANGED vars
    BY <1>10 DEF GitHub, QueueMerges, QueueDrops, Closed, vars, MergeWaitInv
  <1> QED BY <1>3, <1>4, <1>5, <1>6, <1>7, <1>8, <1>9, <1>10 DEF Next, Work

\* A resumed merge wait ends in MERGE or FINISH: it is never re-gated
\* (settleResumedMergeWait, carriedResume).
THEOREM ResumedWaitsAreNotRegated == Spec => []MergeWaitStaysInMerge
  <1>1. Init => TypeOK /\ MergeWaitInv
    BY CardRunAssumption, NewTypes DEF Init, TypeOK, State, Pr, MergeWaitInv, NoResume
  <1>2. TypeOK /\ MergeWaitInv /\ [Next]_vars => (TypeOK /\ MergeWaitInv)' BY NextType, NextWait
  <1>3. MergeWaitInv => MergeWaitStaysInMerge BY DEF MergeWaitInv, MergeWaitStaysInMerge
  <1> QED BY <1>1, <1>2, <1>3, PTL DEF Spec

-----------------------------------------------------------------------------
(* The bill.  The inductive invariant: what a run's counters do not show of *)
(* the bill was forgotten by the re-enqueues that are counted, each of them *)
(* no more than a budget.                                                   *)

Covers(n, b, r) ==
  /\ b.diagnoseAttempts <= DiagnoseBudget * r + n.diagnoseAttempts
  /\ b.validateRejects <= ValidateRejectBudget * r + n.validateRejects
  /\ b.ciImplementRetries <= CiRetryBudget * r + n.ciImplementRetries
  /\ b.outOfScopeRecheckUsed <= r + n.outOfScopeRecheckUsed

Spends(b, r) ==
  /\ b.diagnoseAttempts <= DiagnoseBudget * (1 + r)
  /\ b.validateRejects <= ValidateRejectBudget * (1 + r)
  /\ b.ciImplementRetries <= CiRetryBudget * (1 + r)
  /\ b.outOfScopeRecheckUsed <= 1 + r

Carried == IF task.resume.kind = "none" THEN Zero ELSE task.resume.counters

ChargeInv ==
  /\ SpentWithinBudgets
  /\ ctx.counters.outOfScopeRecheckUsed <= 1
  /\ st \in Running => Covers(ctx.counters, bill, refills)
  /\ st = "QUEUED" => Covers(Carried, bill, refills) /\ Carried.outOfScopeRecheckUsed <= 1

LEMMA Distributes ==
  ASSUME NEW budget \in Nat, NEW r \in Nat
  PROVE  /\ budget * r \in Nat
         /\ budget * (1 + r) = budget * r + budget
         /\ budget * (r + 1) = budget * r + budget
         /\ budget * (1 + (r + 1)) = budget * r + budget + budget
  OBVIOUS

LEMMA CoveredSpends ==
  ASSUME NEW n \in Counters, NEW b \in Counters, NEW r \in Nat,
         Covers(n, b, r), Within(n), n.outOfScopeRecheckUsed <= 1
  PROVE  Spends(b, r)
  BY Distributes, CardRunAssumption DEF Covers, Within, Spends, Counters

\* A new start may be charged each budget once more.
LEMMA SpentCovers ==
  ASSUME NEW b \in Counters, NEW r \in Nat, Spends(b, r)
  PROVE  Covers(Zero, b, r + 1) /\ Spends(b, r + 1)
  BY Distributes, CardRunAssumption DEF Covers, Spends, Zero, Counters

LEMMA PlusCovers ==
  ASSUME NEW n \in Counters, NEW b \in Counters, NEW r \in Nat, Covers(n, b, r),
         NEW k \in {"validateRejects", "ciImplementRetries"}
  PROVE  /\ Covers(Plus(n, k), Plus(b, k), r) /\ Plus(n, k) \in Counters /\ Plus(b, k) \in Counters
         /\ Plus(n, k).outOfScopeRecheckUsed = n.outOfScopeRecheckUsed
  <1>1. CASE k = "validateRejects"
    BY <1>1, PlusType, Distributes, CardRunAssumption DEF Covers, Plus, Counters
  <1>2. CASE k = "ciImplementRetries"
    BY <1>2, PlusType, Distributes, CardRunAssumption DEF Covers, Plus, Counters
  <1> QED BY <1>1, <1>2

LEMMA DiagnosedCovers ==
  ASSUME NEW n \in Counters, NEW b \in Counters, NEW r \in Nat, Covers(n, b, r),
         NEW cause \in Cause, NEW x \in {0, 1}
  PROVE  /\ Covers(Diagnosed(n, cause, x), Diagnosed(b, cause, x), r)
         /\ Diagnosed(n, cause, x) \in Counters /\ Diagnosed(b, cause, x) \in Counters
         /\ Diagnosed(n, cause, x).outOfScopeRecheckUsed = n.outOfScopeRecheckUsed + x
  <1>1. ASSUME NEW m \in Counters
        PROVE  /\ Diagnosed(m, cause, x).diagnoseAttempts = m.diagnoseAttempts + 1
               /\ Diagnosed(m, cause, x).validateRejects = m.validateRejects
               /\ Diagnosed(m, cause, x).ciImplementRetries = m.ciImplementRetries
               /\ Diagnosed(m, cause, x).outOfScopeRecheckUsed = m.outOfScopeRecheckUsed + x
    BY DEF Diagnosed, Counters
  <1>2. /\ n.diagnoseAttempts \in Nat /\ b.diagnoseAttempts \in Nat
        /\ n.outOfScopeRecheckUsed \in Nat /\ b.outOfScopeRecheckUsed \in Nat
        /\ DiagnoseBudget * r \in Nat
    BY CardRunAssumption, Distributes DEF Counters
  <1>3. Covers(Diagnosed(n, cause, x), Diagnosed(b, cause, x), r)
    BY <1>1, <1>2 DEF Covers
  <1> QED BY <1>1, <1>3, DiagnosedType

\* What a handler that does not park or queue the card does to the counters.
Same == ctx'.counters = ctx.counters /\ UNCHANGED <<task, bills>>
Charged(k) ==
  /\ ctx'.counters = Plus(ctx.counters, k) /\ bill' = Plus(bill, k)
  /\ UNCHANGED <<task, refills>>
Judged ==
  \E cause \in Cause, x \in {0, 1} :
    /\ x = 1 => ctx.counters.outOfScopeRecheckUsed = 0
    /\ ctx'.counters = Diagnosed(ctx.counters, cause, x) /\ bill' = Diagnosed(bill, cause, x)
    /\ UNCHANGED <<task, refills>>
Charges == Same \/ Charged("validateRejects") \/ Charged("ciImplementRetries") \/ Judged

LEMMA ToCounters ==
  ASSUME NEW s, NEW c \in Ctx, NEW p, To(s, c, p) PROVE ctx'.counters = c.counters
  BY DEF To, Ctx

LEMMA ToSame ==
  ASSUME NEW s, NEW c \in Ctx, NEW p, To(s, c, p), c.counters = ctx.counters,
         UNCHANGED <<task, bills>>
  PROVE  Same
  BY ToCounters DEF Same

LEMMA EarlyCharges ==
  ASSUME TypeOK, Intake \/ Worktree \/ Plan \/ Implement \/ MergeForward \/ Check \/ PushPr
  PROVE  Same \/ Rest \/ Transient \/ PoolWait
  <1>0. ctx \in Ctx BY DEF TypeOK
  <1>1. ASSUME NEW s, NEW p, To(s, ctx, p), UNCHANGED <<task, bills>> PROVE Same
    BY <1>0, <1>1, ToSame
  <1>2. CASE Intake BY <1>1, <1>2 DEF Intake, Rest
  <1>3. CASE Worktree BY <1>1, <1>3, WorktreeCases DEF Rest
  <1>4. CASE Plan BY <1>1, <1>4, PlanCases
  <1>5. CASE Implement BY <1>1, <1>5, ImplementCases
  <1>6. CASE MergeForward
    <2> DEFINE c == [ctx EXCEPT !.mergeForward = "none", !.awaitingCheck = ctx.mergeForward]
    <2>1. c \in Ctx /\ c.counters = ctx.counters BY <1>0 DEF Ctx
    <2>2. CASE To("CHECK", c, {}) /\ UNCHANGED <<task, bills>>
      <3> HIDE DEF c
      <3> QED BY <2>1, <2>2, ToSame
    <2> QED BY <1>6, <2>2, MergeForwardCases
  <1>7. CASE Check
    <2> DEFINE c == [ctx EXCEPT !.awaitingCheck = "none"]
    <2>1. c \in Ctx /\ c.counters = ctx.counters BY <1>0 DEF Ctx
    <2>2. CASE To("PUSH_PR", c, proof \cup {"check"}) /\ UNCHANGED <<task, bills>>
      <3> HIDE DEF c
      <3> QED BY <2>1, <2>2, ToSame
    <2> QED BY <1>1, <1>7, <2>2, CheckCases
  <1>8. CASE PushPr
    <2> DEFINE c == [ctx EXCEPT !.resumePush = FALSE]
    <2>1. c \in Ctx /\ c.counters = ctx.counters BY <1>0 DEF Ctx
    <2>2. CASE To("GATE", c, proof \cup {"pushed"}) /\ UNCHANGED <<task, bills>>
      <3> HIDE DEF c
      <3> QED BY <2>1, <2>2, ToSame
    <2> QED BY <1>8, <2>2 DEF PushPr, Rest
  <1> QED BY <1>2, <1>3, <1>4, <1>5, <1>6, <1>7, <1>8

LEMMA SettledCounters ==
  ASSUME NEW c \in Ctx PROVE Settled(c) \in Ctx /\ Settled(c).counters = c.counters
  BY DEF Settled, Ctx, NoPending, Pending

LEMMA SiteCharges ==
  ASSUME TypeOK, Gate \/ CiChecks
  PROVE  Same \/ Charged("ciImplementRetries") \/ Rest \/ Transient
  <1>0. ctx \in Ctx /\ Settled(ctx) \in Ctx /\ Settled(ctx).counters = ctx.counters
    BY SettledCounters DEF TypeOK
  <1>1. ASSUME NEW s, NEW c \in Ctx, NEW p, To(s, c, p), c.counters = ctx.counters,
               UNCHANGED <<task, bills>>
        PROVE  Same
    BY <1>1, ToSame
  <1>2. CASE MainMoved
    <2> DEFINE c1 == [ctx EXCEPT !.mainMoveUsed = @ + 1]
               moved == Settled(c1)
               back == [moved EXCEPT !.mergeForward = st]
    <2>1. c1 \in Ctx /\ c1.counters = ctx.counters BY <1>0 DEF Ctx
    <2>0. st \in Site BY DEF Gate, CiChecks, Step, Site
    <2> HIDE DEF c1
    <2>2. moved \in Ctx /\ moved.counters = ctx.counters BY <2>1, SettledCounters
    <2>3. back \in Ctx /\ back.counters = ctx.counters BY <2>0, <2>2 DEF Ctx
    <2> HIDE DEF moved
    <2>4. ASSUME NEW p, To("CHECK", moved, p), UNCHANGED <<task, bills>> PROVE Same
      BY <1>1, <2>2, <2>4
    <2> HIDE DEF back
    <2>5. CASE To("IMPLEMENT", back, proof) /\ UNCHANGED <<task, bills>>
      BY <1>1, <2>3, <2>5
    <2> QED BY <1>2, <2>4, <2>5 DEF MainMoved, OfferMergeForward, Rest, moved, c1, back
  <1>3. CASE CiImplementRetry
    <2> DEFINE c == Charge("ciImplementRetries")
    <2>1. c \in Ctx /\ c.counters = Plus(ctx.counters, "ciImplementRetries")
      BY <1>0, ChargeType DEF Charge, Ctx
    <2> HIDE DEF c
    <2>2. Settled(c) \in Ctx /\ Settled(c).counters = c.counters BY <2>1, SettledCounters
    <2>3. /\ To("IMPLEMENT", Settled(c), proof) /\ UNCHANGED <<task, refills>>
          /\ bill' = Plus(bill, "ciImplementRetries")
      BY <1>3 DEF CiImplementRetry, c
    <2> QED BY <2>1, <2>2, <2>3, ToCounters DEF Charged
  <1>4. CASE Gate BY <1>0, <1>1, <1>2, <1>4 DEF Gate, Rest
  <1>5. CASE CiChecks BY <1>0, <1>1, <1>2, <1>3, <1>5 DEF CiChecks, Rest
  <1> QED BY <1>4, <1>5

LEMMA DiagnoseCharges ==
  ASSUME TypeOK, Diagnose PROVE Judged \/ Rest \/ Transient \/ PoolWait
  <1>0. ctx \in Ctx BY DEF TypeOK
  <1>1. ASSUME NEW match, NEW cause \in Cause, OutOfScope(match, cause) PROVE Judged \/ Rest
    <2> DEFINE c == [ctx EXCEPT !.counters = Diagnosed(@, cause, 1),
                                !.pending = [from |-> ctx.cameFrom, same |-> TRUE]]
    <2>1. CASE /\ Rechecks(match) /\ To(ctx.cameFrom, c, proof)
               /\ bill' = Diagnosed(bill, cause, 1) /\ UNCHANGED <<task, refills>>
      <3>1. ctx.cameFrom \in Site /\ ctx.counters.outOfScopeRecheckUsed = 0
        BY <2>1 DEF Rechecks
      <3>2. Diagnosed(ctx.counters, cause, 1) \in Counters BY <1>0, DiagnosedType DEF Ctx
      <3>3. c.counters = Diagnosed(ctx.counters, cause, 1) BY <1>0 DEF Ctx
      <3>4. c \in Ctx BY <1>0, <3>1, <3>2 DEF Ctx, Pending
      <3> HIDE DEF c
      <3>5. ctx'.counters = Diagnosed(ctx.counters, cause, 1) BY <2>1, <3>3, <3>4, ToCounters
      <3> QED BY <2>1, <3>1, <3>5 DEF Judged
    <2> QED BY <1>1, <2>1, DiagnoseParkCases DEF OutOfScope
  <1>2. ASSUME NEW cause \in Cause, NewCause(cause) PROVE Judged \/ Rest
    <2> DEFINE c == [ctx EXCEPT !.counters = Diagnosed(@, cause, 0), !.pending = NoPending]
    <2>1. CASE /\ To("IMPLEMENT", c, proof) /\ bill' = Diagnosed(bill, cause, 0)
               /\ UNCHANGED <<task, refills>>
      <3>1. Diagnosed(ctx.counters, cause, 0) \in Counters BY <1>0, DiagnosedType DEF Ctx
      <3>2. c.counters = Diagnosed(ctx.counters, cause, 0) BY <1>0 DEF Ctx
      <3>3. c \in Ctx BY <1>0, <3>1 DEF Ctx, Pending, NoPending
      <3> HIDE DEF c
      <3>4. ctx'.counters = Diagnosed(ctx.counters, cause, 0) BY <2>1, <3>2, <3>3, ToCounters
      <3> QED BY <2>1, <3>4 DEF Judged
    <2> QED BY <1>2, <2>1, DiagnoseParkCases DEF NewCause
  <1> QED BY <1>1, <1>2, DiagnoseCases

LEMMA LateCharges ==
  ASSUME TypeOK, Validate \/ Enqueue \/ MergeWait \/ Finish \/ Runaway
  PROVE  Same \/ Charged("validateRejects") \/ Rest \/ Transient \/ PoolWait
  <1>0. ctx \in Ctx BY DEF TypeOK
  <1>1. CASE Validate
    <2>1. CASE To("MERGE", ctx, proof \cup {"validate"}) /\ UNCHANGED <<task, bills>>
      BY <1>0, <2>1, ToSame
    <2>2. CASE /\ To("IMPLEMENT", Charge("validateRejects"), proof) /\ UNCHANGED <<task, refills>>
               /\ bill' = Plus(bill, "validateRejects")
      <3>1. Charge("validateRejects") \in Ctx
            /\ Charge("validateRejects").counters = Plus(ctx.counters, "validateRejects")
        BY <1>0, ChargeType DEF Charge, Ctx
      <3> QED BY <2>2, <3>1, ToCounters DEF Charged
    <2> QED BY <1>1, <2>1, <2>2, ValidateCases
  <1>2. CASE Enqueue BY <1>0, <1>2 DEF Enqueue, Rest, Same, Ctx
  <1>3. CASE MergeWait
    <2> DEFINE c0 == [ctx EXCEPT !.mainMoveUsed = @ + 1]
               c == [c0 EXCEPT !.enqueued = FALSE]
               d == [ctx EXCEPT !.enqueued = FALSE, !.resumeWait = FALSE]
    <2>1. c0 \in Ctx /\ c0.counters = ctx.counters BY <1>0 DEF Ctx
    <2> HIDE DEF c0
    <2>2. c \in Ctx /\ c.counters = ctx.counters BY <2>1 DEF Ctx
    <2>3. d \in Ctx /\ d.counters = ctx.counters BY <1>0 DEF Ctx
    <2>4. [ctx EXCEPT !.mainMoveUsed = @ + 1, !.enqueued = FALSE] = c BY <1>0 DEF c0, Ctx
    <2> HIDE DEF c, d
    <2>5. ASSUME NEW p, To("CHECK", c, p), UNCHANGED <<task, bills>> PROVE Same
      BY <2>2, <2>5, ToSame
    <2>6. ASSUME To("FINISH", d, proof), UNCHANGED <<task, bills>> PROVE Same
      BY <2>3, <2>6, ToSame
    <2>7. CASE RegateMerge BY <2>4, <2>5, <2>7, RegateCases
    <2> QED BY <1>3, <2>6, <2>7, MergeWaitCases DEF d
  <1>4. CASE Finish
    <2>1. CASE To("DONE", ctx, proof) /\ UNCHANGED <<task, bills>> BY <1>0, <2>1, ToSame
    <2> QED BY <1>4, <2>1 DEF Finish, Rest
  <1>5. CASE Runaway BY <1>5 DEF Runaway, Rest
  <1> QED BY <1>1, <1>2, <1>3, <1>4, <1>5

LEMMA TaskFacts ==
  ASSUME TypeOK
  PROVE  /\ ctx.counters \in Counters /\ Carried \in Counters /\ bill \in Counters
         /\ refills \in Nat /\ task.transientRetries \in Nat /\ task.poolWaits \in Nat
  BY NewTypes DEF TypeOK, Ctx, Resume, Carried

\* A park forgets nothing more.
LEMMA ParkCharge == ASSUME ChargeInv, NEW class, Park(class) PROVE ChargeInv'
  BY DEF Park, ChargeInv, SpentWithinBudgets, NewCtx, Zero, Running

LEMMA RestCharge == ASSUME ChargeInv, Rest PROVE ChargeInv'
  BY ParkCharge DEF Rest

\* A handler that goes on charges the run and the bill alike.
LEMMA HopCharge ==
  ASSUME TypeOK, TypeOK', ChargeInv, LengthInv', st \in Running, Charges,
         st' \in Running \cup {"DONE"}
  PROVE  ChargeInv'
  <1>1. /\ Covers(ctx'.counters, bill', refills') /\ ctx'.counters.outOfScopeRecheckUsed <= 1
        /\ UNCHANGED <<task, refills>>
    <2>1. Covers(ctx.counters, bill, refills) /\ ctx.counters.outOfScopeRecheckUsed <= 1
      BY DEF ChargeInv
    <2>2. CASE Same BY <2>1, <2>2 DEF Same
    <2>3. ASSUME NEW k \in {"validateRejects", "ciImplementRetries"}, Charged(k)
          PROVE /\ Covers(ctx'.counters, bill', refills')
                /\ ctx'.counters.outOfScopeRecheckUsed <= 1 /\ UNCHANGED <<task, refills>>
      BY <2>1, <2>3, TaskFacts, PlusCovers DEF Charged
    <2>4. CASE Judged
      <3>1. PICK cause \in Cause, x \in {0, 1} :
              /\ x = 1 => ctx.counters.outOfScopeRecheckUsed = 0
              /\ ctx'.counters = Diagnosed(ctx.counters, cause, x)
              /\ bill' = Diagnosed(bill, cause, x) /\ UNCHANGED <<task, refills>>
        BY <2>4 DEF Judged
      <3>2. /\ Covers(Diagnosed(ctx.counters, cause, x), Diagnosed(bill, cause, x), refills)
            /\ Diagnosed(ctx.counters, cause, x).outOfScopeRecheckUsed
                 = ctx.counters.outOfScopeRecheckUsed + x
        BY <2>1, TaskFacts, DiagnosedCovers
      <3>3. ctx.counters.outOfScopeRecheckUsed \in Nat BY TaskFacts DEF Counters
      <3>4. CASE x = 0 BY <2>1, <3>1, <3>2, <3>3, <3>4
      <3>5. CASE x = 1 BY <3>1, <3>2, <3>3, <3>5
      <3> QED BY <3>4, <3>5
    <2> QED BY <2>2, <2>3, <2>4 DEF Charges
  <1>2. /\ ctx'.counters \in Counters /\ bill' \in Counters /\ refills' \in Nat
        /\ Within(ctx'.counters)
    BY DEF TypeOK, Ctx, LengthInv, Within
  <1>3. Spends(bill', refills') BY <1>1, <1>2, CoveredSpends
  <1>4. refills' <= task'.transientRetries + task'.poolWaits
    BY <1>1 DEF ChargeInv, SpentWithinBudgets
  <1>5. SpentWithinBudgets' BY <1>3, <1>4 DEF Spends, SpentWithinBudgets
  <1>6. st' # "QUEUED" BY DEF Running
  <1> QED BY <1>1, <1>5, <1>6 DEF ChargeInv

\* A re-enqueue carries the counters, or is counted.
LEMMA RequeueCharge ==
  ASSUME TypeOK, ChargeInv, NEW t, Requeue(t),
         t.resume.kind = "none" =>
           t.transientRetries + t.poolWaits = task.transientRetries + task.poolWaits + 1,
         t.transientRetries + t.poolWaits >= task.transientRetries + task.poolWaits,
         t.transientRetries \in Nat, t.poolWaits \in Nat,
         t.resume.kind # "none" =>
           /\ Covers(t.resume.counters, bill, refills)
           /\ t.resume.counters.outOfScopeRecheckUsed <= 1
  PROVE  ChargeInv'
  <1>1. /\ bill' = bill /\ refills' = (IF t.resume.kind = "none" THEN refills + 1 ELSE refills)
        /\ st' = "QUEUED" /\ task' = t /\ ctx'.counters = Zero
    BY DEF Requeue, NewCtx
  <1>2. Spends(bill, refills) /\ refills <= task.transientRetries + task.poolWaits
    BY DEF ChargeInv, SpentWithinBudgets, Spends
  <1>3. Covers(Zero, bill, refills + 1) /\ Spends(bill, refills + 1)
    BY <1>2, TaskFacts, SpentCovers
  <1>4. refills' <= t.transientRetries + t.poolWaits BY <1>1, <1>2, TaskFacts
  <1>5. Spends(bill', refills') /\ Covers(Carried', bill', refills')
        /\ Carried'.outOfScopeRecheckUsed <= 1
    BY <1>1, <1>2, <1>3 DEF Carried, Zero
  <1> QED BY <1>1, <1>4, <1>5 DEF ChargeInv, SpentWithinBudgets, Spends, Running, Zero

LEMMA AgainCharge ==
  ASSUME TypeOK, ChargeInv, st \in Running, Transient \/ PoolWait
  PROVE  ChargeInv'
  <1>1. CASE Park("final") BY <1>1, ParkCharge
  <1>2. /\ Covers(ctx.counters, bill, refills) /\ ctx.counters.outOfScopeRecheckUsed <= 1
    BY DEF ChargeInv
  <1>3. ASSUME NEW s
        PROVE  /\ CarriedResume(s).kind # "none" => CarriedResume(s).counters = ctx.counters
               /\ PoolWaitResume(s).kind # "none" => PoolWaitResume(s).counters = ctx.counters
    <2>1. CarriedResume(s).kind # "none" => CarriedResume(s).counters = ctx.counters
      BY DEF CarriedResume, NoResume, TypeOK, Resume
    <2> QED BY <2>1 DEF PoolWaitResume, NoResume
  <1>4. CASE Requeue([task EXCEPT !.transientRetries = @ + 1, !.resume = CarriedResume(st)])
    <2> DEFINE t == [task EXCEPT !.transientRetries = @ + 1, !.resume = CarriedResume(st)]
    <2>1. /\ t.transientRetries = task.transientRetries + 1 /\ t.poolWaits = task.poolWaits
          /\ t.resume = CarriedResume(st)
      BY DEF TypeOK
    <2> HIDE DEF t
    <2>2. Requeue(t) BY <1>4 DEF t
    <2>3. CarriedResume(st).kind # "none" => CarriedResume(st).counters = ctx.counters BY <1>3
    <2>4. task.transientRetries \in Nat /\ task.poolWaits \in Nat BY TaskFacts
    <2> QED BY <1>2, <2>1, <2>2, <2>3, <2>4, RequeueCharge
  <1>5. CASE Requeue([task EXCEPT !.poolWaits = @ + 1, !.resume = PoolWaitResume(st)])
    <2> DEFINE t == [task EXCEPT !.poolWaits = @ + 1, !.resume = PoolWaitResume(st)]
    <2>1. /\ t.transientRetries = task.transientRetries /\ t.poolWaits = task.poolWaits + 1
          /\ t.resume = PoolWaitResume(st)
      BY DEF TypeOK
    <2> HIDE DEF t
    <2>2. Requeue(t) BY <1>5 DEF t
    <2>3. PoolWaitResume(st).kind # "none" => PoolWaitResume(st).counters = ctx.counters BY <1>3
    <2>4. task.transientRetries \in Nat /\ task.poolWaits \in Nat BY TaskFacts
    <2> QED BY <1>2, <2>1, <2>2, <2>3, <2>4, RequeueCharge
  <1> QED BY <1>1, <1>4, <1>5 DEF Transient, PoolWait

LEMMA WorkCharge ==
  ASSUME TypeOK, TypeOK', ChargeInv, LengthInv', Work PROVE ChargeInv'
  <1>1. st \in Running
    <2>1. CASE Enqueue BY <2>1 DEF Enqueue, Step, Running
    <2> QED BY <2>1, EarlyShape, SiteShape, DiagnoseShape, LateShape DEF Work
  <1>2. Charges \/ Rest \/ Transient \/ PoolWait
    BY EarlyCharges, SiteCharges, DiagnoseCharges, LateCharges DEF Work, Charges
  <1>3. st' \in Running \cup {"DONE"} \/ Rest \/ Transient \/ PoolWait
    <2>1. CASE Enqueue BY <1>1, <2>1 DEF Enqueue, Rest
    <2> QED BY <2>1, EarlyShape, SiteShape, DiagnoseShape, LateShape DEF Work, Hop
  <1> QED BY <1>1, <1>2, <1>3, HopCharge, RestCharge, AgainCharge

\* A run that starts has the counters of its entry.
LEMMA TakeCharge == ASSUME TypeOK, ChargeInv, Take PROVE ChargeInv'
  <1>0. Restored \in Ctx /\ Restored.counters = task.resume.counters /\ NewCtx.counters = Zero
    BY RestoredType DEF Restored, NewCtx
  <1>1. ASSUME st = "QUEUED", ctx'.counters = Carried, UNCHANGED bills, st' \in Running,
               task'.transientRetries = task.transientRetries, task'.poolWaits = task.poolWaits
        PROVE  ChargeInv'
    BY <1>1 DEF ChargeInv, SpentWithinBudgets, Running
  <1>2. CASE TakeFresh
    BY <1>0, <1>1, <1>2 DEF TakeFresh, Start, Carried, Running
  <1>3. CASE TakeResume
    <2> PICK p \in {{}, {"pushed"}} :
          Start(task.resume.startState,
                [Restored EXCEPT !.pending = Kept(@, p),
                                 !.resumePush = (task.resume.startState = "CHECK"),
                                 !.resumeWait = (task.resume.startState = "MERGE")])
      BY <1>3 DEF TakeResume
    <2>1. st' = task.resume.startState /\ ctx'.counters = task.resume.counters
      BY <1>0 DEF Start, Ctx
    <2>2. task.resume.startState \in Running
      BY <1>3 DEF TypeOK, Resume, TakeResume, Running
    <2> QED BY <1>1, <1>3, <2>1, <2>2 DEF TakeResume, Carried
  <1>4. CASE RestartRefused
    <2>1. task'.transientRetries = task.transientRetries /\ task'.poolWaits = task.poolWaits
      BY <1>4 DEF RestartRefused, TypeOK
    <2> QED BY <1>0, <1>1, <1>4, <2>1 DEF RestartRefused, Start, Carried, Running
  <1>5. CASE ResumeMerged
    <2>1. task.resume.kind # "none" BY <1>5 DEF ResumeMerged, TypeOK, Resume
    <2>2. ctx'.counters = task.resume.counters BY <1>0, <1>5 DEF ResumeMerged, Start, Ctx
    <2> QED BY <1>1, <1>5, <2>1, <2>2 DEF ResumeMerged, Start, Carried, Running
  <1>6. CASE RefuseResume BY <1>6, ParkCharge DEF RefuseResume
  <1> QED BY <1>2, <1>3, <1>4, <1>5, <1>6 DEF Take

LEMMA OutsideCharge ==
  ASSUME TypeOK, ChargeInv, GitHub \/ Crash \/ MergeWaitOrphan \/ Retry \/ Continue
  PROVE  ChargeInv'
  <1>1. CASE GitHub
    BY <1>1 DEF GitHub, QueueMerges, QueueDrops, Closed, ChargeInv, SpentWithinBudgets, Carried
  <1>2. CASE Crash BY <1>2, ParkCharge DEF Crash
  <1>3. CASE MergeWaitOrphan
    <2> DEFINE n == [ctx.counters EXCEPT !.seenRootCauses = {}]
               q == [kind |-> "mergeWait", startState |-> "MERGE", counters |-> n,
                     pending |-> ctx.pending, mergeWaits |-> task.resume.mergeWaits + 1]
               t == [task EXCEPT !.resume = q]
    <2>1. /\ t.resume = q /\ t.transientRetries = task.transientRetries
          /\ t.poolWaits = task.poolWaits
      BY DEF TypeOK
    <2>2. st \in Running /\ Requeue(t) BY <1>3 DEF MergeWaitOrphan, Running, TypeOK
    <2>3. Covers(n, bill, refills) /\ n.outOfScopeRecheckUsed <= 1
      BY <2>2, TaskFacts DEF ChargeInv, Covers, Counters
    <2>4. task.transientRetries \in Nat /\ task.poolWaits \in Nat BY TaskFacts
    <2>5. q.kind = "mergeWait" /\ q.counters = n OBVIOUS
    <2> HIDE DEF n, q, t
    <2> QED BY <2>1, <2>2, <2>3, <2>4, <2>5, RequeueCharge
  <1>4. CASE Retry \/ Continue
    <2>1. /\ st' = "QUEUED" /\ bill' = Zero /\ refills' = 0 /\ ctx' = ctx
          /\ task'.transientRetries = 0 /\ task'.poolWaits = 0
      BY <1>4 DEF Retry, Continue, Reply
    <2>2. Carried' = Zero
      <3>1. CASE Retry BY <3>1 DEF Retry, Carried, NoResume
      <3>2. CASE Continue
        <4>1. task'.resume = [NoResume EXCEPT !.kind = "continue", !.startState = "CHECK"]
          BY <3>2 DEF Continue
        <4>2. task'.resume.counters = Zero BY <4>1 DEF NoResume
        <4> QED BY <4>2 DEF Carried
      <3> QED BY <1>4, <3>1, <3>2
    <2>3. Covers(Zero, Zero, 0) /\ Spends(Zero, 0)
      BY CardRunAssumption DEF Covers, Spends, Zero
    <2>4. SpentWithinBudgets' BY <2>1, <2>3 DEF SpentWithinBudgets, Spends
    <2> QED BY <2>1, <2>2, <2>3, <2>4 DEF ChargeInv, Running, Zero
  <1> QED BY <1>1, <1>2, <1>3, <1>4

LEMMA NextCharge == ASSUME TypeOK, TypeOK', ChargeInv, LengthInv', [Next]_vars PROVE ChargeInv'
  <1>1. CASE UNCHANGED vars BY <1>1 DEF vars, ChargeInv, SpentWithinBudgets, Carried
  <1>2. CASE Next BY <1>2, TakeCharge, WorkCharge, OutsideCharge DEF Next
  <1> QED BY <1>1, <1>2

\* Between two replies of a maintainer a change is charged each budget once, and
\* once more for every re-enqueue that starts it over (a transient retry or a
\* pool wait of a run that has nothing to resume: the code refills its budgets
\* there); each of those is paid with a transient retry or a pool wait.
THEOREM RefillsArePaid == Spec => []SpentWithinBudgets
  <1> DEFINE Inv == TypeOK /\ LengthInv /\ ChargeInv
  <1>1. Init => Inv
    <2> SUFFICES ASSUME Init PROVE Inv
      OBVIOUS
    <2>1. TypeOK BY CardRunAssumption, NewTypes DEF Init, TypeOK, State, Pr
    <2>2. /\ bill = Zero /\ refills = 0 /\ st = "QUEUED" /\ ctx.counters = Zero
          /\ task.transientRetries = 0 /\ task.poolWaits = 0 /\ Carried = Zero
      BY DEF Init, NewCtx, Carried, NoResume
    <2>3. Covers(Zero, Zero, 0) /\ Spends(Zero, 0)
      BY CardRunAssumption DEF Covers, Spends, Zero
    <2>4. ChargeInv
      BY <2>2, <2>3 DEF ChargeInv, SpentWithinBudgets, Spends, Running, Zero
    <2> QED BY <2>1, <2>4, InitLength
  <1>2. Inv /\ [Next]_vars => Inv' BY NextType, NextLength, NextCharge
  <1>3. Inv => SpentWithinBudgets BY DEF ChargeInv
  <1> QED BY <1>1, <1>2, <1>3, PTL DEF Spec
=============================================================================
