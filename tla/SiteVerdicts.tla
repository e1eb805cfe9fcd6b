---------------------------- MODULE SiteVerdicts ----------------------------
(***************************************************************************)
(* How GATE and CI_CHECKS come to their answers (steps/scripted.js         *)
(* realGate and realCiChecks, ci-cause-table.js).                          *)
(*                                                                         *)
(* GATE deposits a job with the bench and waits for it.  The bench writes  *)
(* done/<job>.json first and verdicts/<sha>.json a moment later, and only  *)
(* for a verdict that attests something; that file is kept by commit, so   *)
(* it may still hold an earlier job's answer.  The client may also give up *)
(* on a worker that is alive.  CI_CHECKS polls the check runs of the       *)
(* commit, which GitHub registers when it likes, and may have one job run  *)
(* again.  The card comes back to either site with the same commit, after  *)
(* a park, a recheck or the death of its worker.                           *)
(***************************************************************************)
EXTENDS Naturals, FiniteSets

CONSTANTS
  Check,        \* names of the check runs of a commit
  LatePolls,    \* config.gateLateVerdictMaxPolls
  DiedPolls,    \* config.gateDiedRecoveryMaxPolls
  CiPolls,      \* config.ciChecksMaxPolls
  MaxJobs,      \* bound: jobs the card deposits
  MaxShas,      \* bound: commits the card makes
  MaxRuns,      \* bound: runs of one check
  MaxRechecks,  \* bound: visits to CI_CHECKS that no gate precedes
  MaxFaults     \* bound: deaths of the worker or of the bench, lost answers

ASSUME SiteAssumption ==
  /\ {LatePolls, DiedPolls, MaxRuns, MaxRechecks, MaxFaults} \subseteq Nat
  /\ {CiPolls, MaxJobs, MaxShas} \subseteq Nat \ {0}
  /\ "none" \notin Check

VARIABLES
  card,     \* where the card is, its commit, its job, its polls
  jobs,     \* the bench's jobs: done/<job>.json
  file,     \* verdicts/<sha>.json: the job that wrote it, 0 without a file
  checks,   \* the check runs of the card's commit on GitHub
  reruns,   \* journal.jsonl: the runs that were asked to run again
  granted,  \* history: re-runs GitHub accepted for the card's commit ...
  lost,     \* ... and those of them the journal does not have
  rechecks, faults

vars == <<card, jobs, file, checks, reruns, granted, lost, rechecks, faults>>

-----------------------------------------------------------------------------
Job == 1..MaxJobs
Sha == 1..MaxShas

\* What a job says: UNMERGED is a FAIL without baseMain; BLOCKED stands for
\* STALE too, which parks alike; UNATTESTED for ENVIRONMENT, DIRTY, ABANDONED
\* and INTERRUPTED.
Attesting == {"PASS", "FAIL", "UNMERGED", "BLOCKED"}
Verdict == Attesting \cup {"UNATTESTED"}

\* What it says of its live stage: routed but not driven, driven with the flows
\* the card asked for, or nothing that concerns the card.
Live == {"none", "notDriven", "asked"}
Answer == {a \in Verdict \X Live :
             /\ a[1] = "BLOCKED" => a[2] = "notDriven"
             /\ a[1] \notin {"PASS", "BLOCKED"} => a[2] = "none"}

NoJob == [sha |-> 1, stage |-> "none", verdict |-> "none", live |-> "none"]
JobRecord == [sha : Sha, stage : {"none", "queued", "done", "settled"},
              verdict : Verdict \cup {"none"}, live : Live]

NoRun == [id |-> 0, st |-> "none", again |-> FALSE]
Run == [id : 0..MaxRuns, st : {"none", "running", "green", "red"}, again : BOOLEAN]

Gating == {"gate", "late", "recover"}
Polling == {"ci", "judge", "posted"}
Card == [at : Gating \cup Polling \cup {"away"}, from : {"none", "GATE", "CI_CHECKS"},
         to : {"none", "DIAGNOSE", "CHECK", "IMPLEMENT", "VALIDATE", "PARKED"},
         sha : Sha, job : 0..MaxJobs, flows : BOOLEAN, polls : Nat, last : Nat,
         failing : Check \cup {"none"}, run : 0..MaxRuns]

PollsBounded ==
  /\ card.at = "late" => card.polls <= LatePolls
  /\ card.at = "recover" => card.polls <= DiedPolls
  /\ card.at \in Polling => card.polls <= card.last

TypeOK ==
  /\ card \in Card
  /\ jobs \in [Job -> JobRecord]
  /\ file \in [Sha -> 0..MaxJobs]
  /\ checks \in [Check -> Run]
  /\ reruns \subseteq (Sha \X Check \X (1..MaxRuns))
  /\ granted \in Nat /\ lost \in Nat
  /\ rechecks \in 0..MaxRechecks /\ faults \in 0..MaxFaults
  /\ PollsBounded

Init ==
  /\ \E b \in BOOLEAN :
       card = [at |-> "away", from |-> "none", to |-> "none", sha |-> 1, job |-> 0,
               flows |-> b, polls |-> 0, last |-> 0, failing |-> "none", run |-> 0]
  /\ jobs = [j \in Job |-> NoJob]
  /\ file = [s \in Sha |-> 0]
  /\ checks = [n \in Check |-> NoRun]
  /\ reruns = {} /\ granted = 0 /\ lost = 0 /\ rechecks = 0 /\ faults = 0

-----------------------------------------------------------------------------
(* Moves of the card.                                                      *)

World == <<jobs, file, checks, reruns, granted, lost, rechecks, faults>>

At(where) == card.at = where
Leave(site, to) ==
  card' = [card EXCEPT !.at = "away", !.from = site, !.to = to, !.polls = 0, !.last = 0,
                       !.failing = "none", !.run = 0]
Park(site) == Leave(site, "PARKED")
Goes(where, polls) == card' = [card EXCEPT !.at = where, !.polls = polls]
Fault == faults < MaxFaults /\ faults' = faults + 1

\* pollCheckRunsUntilConcluded, called with the polls spent: it shares the
\* budget of the call before it, and has one fetch at least.
ToCi(used) ==
  card' = [card EXCEPT !.at = "ci", !.from = "none", !.to = "none", !.polls = used,
                       !.last = IF CiPolls > used THEN CiPolls ELSE used + 1]

\* IMPLEMENT, a merge of main, a new attempt: another commit, whose plan and
\* gate script decide anew whether flows are asked for (requestGateFlows).
Commit ==
  /\ At("away") /\ card.job # 0 /\ card.sha < MaxShas
  /\ \E b \in BOOLEAN :
       card' = [card EXCEPT !.sha = @ + 1, !.flows = b, !.from = "none", !.to = "none"]
  /\ checks' = [n \in Check |-> NoRun] /\ granted' = 0 /\ lost' = 0
  /\ UNCHANGED <<jobs, file, reruns, rechecks, faults>>

-----------------------------------------------------------------------------
(* GATE: the bench.                                                        *)

\* npm run gate deposits a job, unless one of this worktree's is still queued.
Deposit ==
  /\ At("away") /\ \A j \in Job : jobs[j].stage # "queued"
  /\ \E j \in Job :
       /\ jobs[j].stage = "none" /\ \A i \in 1..(j - 1) : jobs[i].stage # "none"
       /\ jobs' = [jobs EXCEPT ![j].stage = "queued", ![j].sha = card.sha]
       /\ card' = [card EXCEPT !.at = "gate", !.job = j, !.from = "none", !.to = "none"]
  /\ UNCHANGED <<file, checks, reruns, granted, lost, rechecks, faults>>

\* The bench ends a job: it writes done/<job>.json.
JobEnds(j) ==
  /\ jobs[j].stage = "queued"
  /\ \A i \in 1..(j - 1) : jobs[i].stage = "settled"
  /\ \E a \in Answer :
       jobs' = [jobs EXCEPT ![j].verdict = a[1], ![j].live = a[2],
                            ![j].stage = IF a[1] \in Attesting THEN "done" ELSE "settled"]
  /\ UNCHANGED <<card, file, checks, reruns, granted, lost, rechecks, faults>>

\* A moment later it writes verdicts/<sha>.json ...
VerdictFiled(j) ==
  /\ jobs[j].stage = "done"
  /\ jobs' = [jobs EXCEPT ![j].stage = "settled"]
  /\ file' = [file EXCEPT ![jobs[j].sha] = j]
  /\ UNCHANGED <<card, checks, reruns, granted, lost, rechecks, faults>>

\* ... or dies before it does.
VerdictLost(j) ==
  /\ jobs[j].stage = "done" /\ Fault
  /\ jobs' = [jobs EXCEPT ![j].stage = "settled"]
  /\ UNCHANGED <<card, file, checks, reruns, granted, lost, rechecks>>

-----------------------------------------------------------------------------
(* GATE: realGate.                                                         *)

Mine == jobs[card.job]
Reported == Mine.stage \in {"done", "settled"}

\* readJsonSafe of verdicts/<sha>.json ...
OnFile == jobs[file[card.sha]]

\* ... whose answer isGateVerdictFreshForJob takes when it is the card's job's.
Fresh_BySha == file[card.sha] # 0
Fresh == file[card.sha] # 0 /\ file[card.sha] = card.job

\* The file is there and cannot be parsed: the bench is writing it.
Torn == \E j \in Job : jobs[j].stage = "done" /\ jobs[j].sha = card.sha

\* acceptPassedGate on what a job, or no file, says of the live stage.
NotDriven(live) == live = "notDriven"
FlowsUndriven(live) == card.flows /\ live # "asked"
Accept(live) ==
  \/ NotDriven(live) /\ Park("GATE")
  \/ ~NotDriven(live) /\ FlowsUndriven(live) /\ Park("GATE")
  \/ ~NotDriven(live) /\ ~FlowsUndriven(live) /\ ToCi(0)

\* The nightly proof of origin/main failed: nothing is merged.
MainRed == Park("GATE")

\* main is merged here: the card starts over from CHECK, or a conflict is
\* offered to IMPLEMENT or parked, as is a spent re-gate budget.
MainMoved ==
  \/ MainRed
  \/ Leave("GATE", "CHECK")
  \/ Leave("GATE", "IMPLEMENT")
  \/ Park("GATE")

\* routeGateVerdict.  A PASS on file is no answer to an exit 1.
Route ==
  \/ OnFile.verdict = "BLOCKED" /\ Park("GATE")
  \/ OnFile.verdict = "UNMERGED" /\ MainMoved
  \/ OnFile.verdict \in {"FAIL", "PASS"} /\ Leave("GATE", "DIAGNOSE")

\* resolveGateHeadSha fails: a pass goes on, a failure is diagnosed.
HeadUnreadable(passed) == IF passed THEN ToCi(0) ELSE Leave("GATE", "DIAGNOSE")

\* Exit 0.  The live stage is read from whatever file the commit has.
Passed ==
  /\ At("gate") /\ Reported /\ Mine.verdict = "PASS"
  /\ \/ HeadUnreadable(TRUE)
     \/ file[card.sha] # 0 /\ Accept(OnFile.live)
     \/ (file[card.sha] = 0 \/ Torn) /\ Accept("none")
  /\ UNCHANGED World

\* Exit 1 with this job's verdict on file, or none that can be parsed.
Failed ==
  /\ At("gate") /\ Reported /\ Mine.verdict # "PASS"
  /\ \/ HeadUnreadable(FALSE)
     \/ Torn /\ Leave("GATE", "DIAGNOSE")
     \/ Fresh /\ Route
  /\ UNCHANGED World

\* Exit 1 without it: done/<job>.json tells.  One that attests announces a
\* verdict on its way ...
Announced == Mine.verdict \in Attesting /\ Goes("late", 0)

\* ... the others park the card, as does one that cannot be read.
NonAttesting == Park("GATE")
NotOnFile ==
  /\ At("gate") /\ Reported /\ Mine.verdict # "PASS" /\ ~Fresh
  /\ Announced \/ NonAttesting
  /\ UNCHANGED World

\* awaitFreshGateVerdict
AwaitFresh_Endless ==
  /\ At("late")
  /\ \/ Fresh /\ Route
     \/ ~Fresh /\ card.polls < LatePolls /\ Goes("late", card.polls)
     \/ ~Fresh /\ card.polls = LatePolls /\ Park("GATE")
  /\ UNCHANGED World
AwaitFresh ==
  /\ At("late")
  /\ \/ Fresh /\ Route
     \/ ~Fresh /\ card.polls < LatePolls /\ Goes("late", card.polls + 1)
     \/ ~Fresh /\ card.polls = LatePolls /\ Park("GATE")
  /\ UNCHANGED World

\* Exit 2, exit 3 without a job, exit 4, an unknown exit: no job answers.
Refused ==
  /\ At("gate") \/ (At("away") /\ card.to # "PARKED")
  /\ Park("GATE")
  /\ UNCHANGED World

\* Exit 3: the client takes the worker for dead while the job is queued.
WorkerDied ==
  /\ At("gate") /\ Goes("recover", 0)
  /\ UNCHANGED World

\* recoverFromGateWorkerDied: one look at done/<job>.json.
Recovered ==
  /\ Reported /\ Mine.verdict \in Attesting /\ Fresh
  /\ IF OnFile.verdict = "PASS" THEN Accept(OnFile.live) ELSE Route
Unrecoverable == Reported /\ Mine.verdict \notin Attesting /\ Park("GATE")
StillAway ==
  /\ ~Reported \/ Mine.verdict \in Attesting      \* not fresh, or HEAD is unreadable
  /\ \/ card.polls < DiedPolls /\ Goes("recover", card.polls + 1)
     \/ card.polls = DiedPolls /\ Park("GATE")
Recover ==
  /\ At("recover")
  /\ Recovered \/ Unrecoverable \/ StillAway
  /\ UNCHANGED World

-----------------------------------------------------------------------------
(* CI_CHECKS: GitHub, seen only while the card polls it.                   *)

Starts(n) ==
  /\ card.at \in Polling /\ checks[n].id < MaxRuns
  /\ checks[n].again \/ checks[n].st = "none"
  /\ checks' = [checks EXCEPT ![n] = [id |-> @.id + 1, st |-> "running", again |-> FALSE]]
  /\ UNCHANGED <<card, jobs, file, reruns, granted, lost, rechecks, faults>>

Ends(n) ==
  /\ card.at \in Polling /\ checks[n].st = "running"
  /\ \E c \in {"green", "red"} : checks' = [checks EXCEPT ![n].st = c]
  /\ UNCHANGED <<card, jobs, file, reruns, granted, lost, rechecks, faults>>

-----------------------------------------------------------------------------
(* CI_CHECKS: realCiChecks.                                                *)

\* routeOutOfScopeDiagnosis and a retried CI_CHECKS come back without a gate.
Recheck ==
  /\ At("away") /\ card.from = "CI_CHECKS" /\ card.to = "DIAGNOSE"
  /\ rechecks < MaxRechecks /\ rechecks' = rechecks + 1
  /\ ToCi(0)
  /\ UNCHANGED <<jobs, file, checks, reruns, granted, lost, faults>>

\* The run of a check the task asked to run again for this commit.
Superseded(n) == <<card.sha, n, checks[n].id>> \in reruns

\* Nothing registered yet, a run without a conclusion, or a superseded one.
InFlight_AsListed ==
  \/ \A n \in Check : checks[n].st = "none"
  \/ \E n \in Check : checks[n].st = "running"
InFlight ==
  \/ \A n \in Check : checks[n].st = "none"
  \/ \E n \in Check : checks[n].st = "running" \/ Superseded(n)

\* One fetch of pollCheckRunsUntilConcluded.
PollAgain ==
  /\ At("ci") /\ InFlight
  /\ \/ card.polls + 1 < card.last /\ Goes("ci", card.polls + 1)
     \/ card.polls + 1 = card.last /\ Park("CI_CHECKS")
  /\ UNCHANGED World

\* git rev-parse or the fetch fails.
Unreadable ==
  /\ At("ci") /\ Park("CI_CHECKS")
  /\ UNCHANGED World

PollRed ==
  /\ At("ci") /\ ~InFlight
  /\ \E n \in Check :
       /\ checks[n].st = "red"
       /\ card' = [card EXCEPT !.at = "judge", !.polls = @ + 1,
                               !.failing = n, !.run = checks[n].id]
  /\ UNCHANGED World

\* All green.  Without a baseMain, or when main did not move under the branch's
\* files, the card goes on; else main is merged, or the conflict offered to
\* IMPLEMENT, unless main is red or the budget is spent.
PollGreen ==
  /\ At("ci") /\ ~InFlight /\ \A n \in Check : checks[n].st # "red"
  /\ \/ Leave("CI_CHECKS", "VALIDATE")
     \/ /\ file[card.sha] # 0 /\ OnFile.verdict # "UNMERGED"
        /\ \/ Leave("CI_CHECKS", "CHECK")
           \/ Leave("CI_CHECKS", "IMPLEMENT")
           \/ Park("CI_CHECKS")
  /\ UNCHANGED World

\* lookupFailedStep: the step of the job that failed; none when the job has no
\* steps, or is not one of GitHub Actions.
FailedStep == {"lint", "coverage", "rules", "other", "none"}

\* chargeCiImplementRetry: the budget may be spent.
ChargeRetry == Leave("CI_CHECKS", "IMPLEMENT") \/ Park("CI_CHECKS")

\* classifyCiFailure
Classify(step) ==
  \/ step \in {"lint", "coverage"} /\ ChargeRetry
  \/ step = "rules" /\ Park("CI_CHECKS")
  \/ step \in {"other", "none"} /\ Leave("CI_CHECKS", "DIAGNOSE")
Classified ==
  /\ At("judge") /\ \E step \in FailedStep : Classify(step)
  /\ UNCHANGED World

\* rerunCiFlakeIfEligible, for failed tests outside the branch's files: no
\* re-run was granted for this commit, and the bench passed it.
Eligible_PerVisit == file[card.sha] # 0 /\ OnFile.verdict = "PASS"
Eligible ==
  /\ \A r \in reruns : r[1] # card.sha
  /\ file[card.sha] # 0 /\ OnFile.verdict = "PASS"

\* GitHub runs a job again that is the check's latest; it starts later.
Accepted ==
  /\ checks' = [checks EXCEPT ![card.failing].again = (checks[card.failing].id = card.run)]
  /\ granted' = granted + 1

Rerun ==
  /\ At("judge") /\ Eligible /\ Accepted
  /\ card' = [card EXCEPT !.at = "posted"]
  /\ UNCHANGED <<jobs, file, reruns, lost, rechecks, faults>>

\* The answer is lost twice: GitHub accepted, the step takes it for refused.
RerunUnheard ==
  /\ At("judge") /\ Eligible /\ Accepted /\ Fault
  /\ lost' = lost + 1 /\ Classify("coverage")
  /\ UNCHANGED <<jobs, file, reruns, rechecks>>

\* The event is written, and the checks are polled again.
Record ==
  /\ At("posted")
  /\ reruns' = reruns \cup {<<card.sha, card.failing, card.run>>}
  /\ ToCi(card.polls)
  /\ UNCHANGED <<jobs, file, checks, granted, lost, rechecks, faults>>

\* The worker dies; a maintainer may bring the card back with its commit.
Crash ==
  /\ ~At("away") /\ Fault
  /\ Park(IF card.at \in Polling THEN "CI_CHECKS" ELSE "GATE")
  /\ lost' = IF At("posted") THEN lost + 1 ELSE lost
  /\ UNCHANGED <<jobs, file, checks, reruns, granted, rechecks>>

-----------------------------------------------------------------------------
GateStep == Passed \/ Failed \/ NotOnFile \/ AwaitFresh \/ Refused \/ WorkerDied \/ Recover
CiStep == PollAgain \/ Unreadable \/ PollRed \/ PollGreen \/ Classified \/ Rerun
          \/ RerunUnheard \/ Record
Visit == Commit \/ Deposit \/ Recheck
Outside ==
  \/ \E j \in Job : JobEnds(j) \/ VerdictFiled(j) \/ VerdictLost(j)
  \/ \E n \in Check : Starts(n) \/ Ends(n)

Next == GateStep \/ CiStep \/ Visit \/ Outside \/ Crash

Spec == Init /\ [][Next]_vars

\* The worker goes on with what it does; the bench and GitHub owe nothing.
FairSpec == Spec /\ WF_vars((GateStep \/ CiStep) /\ ~At("away"))

-----------------------------------------------------------------------------
(* Properties.                                                             *)

\* What GATE makes of a job is that job's answer, whatever an earlier job of
\* the same commit left on file: the card goes on only when it passed, is
\* merged with main only when it said so, and is diagnosed only when it did not
\* pass.
GateAnswersItsJob ==
  /\ card.at \in Polling => Mine.verdict = "PASS"
  /\ At("away") /\ card.from = "GATE" =>
       /\ card.to \in {"CHECK", "IMPLEMENT"} => Mine.verdict = "UNMERGED"
       /\ card.to = "DIAGNOSE" => Mine.verdict \in Verdict \ {"PASS"}

\* A run that was asked to run again is not what CI_CHECKS fails the card for,
\* even by a new worker and while GitHub still lists it.
SupersededIsNotJudged ==
  At("judge") => <<card.sha, card.failing, card.run>> \notin reruns

\* GitHub is asked once per commit to run a failed job again, but for requests
\* whose answer never reached the journal.
OneRerunPerCommit == granted <= lost + 1

\* A visit ends: no bench, late verdict, dead worker or check run that stays
\* in flight holds a card at its site.
VisitEnds == ~At("away") ~> At("away")
=============================================================================
