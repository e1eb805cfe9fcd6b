------------------------ MODULE SiteVerdicts_proofs ------------------------
(***************************************************************************)
(* Proofs about SiteVerdicts, for any number of checks, jobs, commits,     *)
(* polls and faults: types, that GATE's answer is its own job's, that a    *)
(* superseded run is not judged, that a commit has one re-run, and that a  *)
(* visit gets shorter.                                                     *)
(***************************************************************************)
EXTENDS SiteVerdicts, TLAPS

-----------------------------------------------------------------------------
(* The inductive invariant.                                                *)

To == {"none", "DIAGNOSE", "CHECK", "IMPLEMENT", "VALIDATE", "PARKED"}

\* A fetch is left to a card that polls; what it judges is a run there was.
CardOK ==
  /\ card \in Card /\ PollsBounded
  /\ card.at = "ci" => card.polls < card.last
  /\ card.at \in {"judge", "posted"} => card.failing \in Check /\ card.run # 0
GithubOK ==
  /\ checks \in [Check -> Run]
  /\ \A n \in Check : checks[n].st # "none" => checks[n].id # 0
WorldOK ==
  /\ jobs \in [Job -> JobRecord] /\ file \in [Sha -> 0..MaxJobs]
  /\ reruns \subseteq (Sha \X Check \X (1..MaxRuns))
  /\ granted \in Nat /\ lost \in Nat
  /\ rechecks \in 0..MaxRechecks /\ faults \in 0..MaxFaults

\* A job says nothing before it is done; what is on file is a settled job's.
JobsOK ==
  \A j \in Job :
    /\ jobs[j].stage \in {"none", "queued"} => jobs[j].verdict = "none"
    /\ jobs[j].stage = "done" => jobs[j].verdict \in Attesting
    /\ jobs[j].stage = "settled" => jobs[j].verdict \in Verdict

HasJob == card.at # "away" => card.job \in Job
Answered(to) ==
  /\ to \in {"CHECK", "IMPLEMENT"} => Mine.verdict = "UNMERGED"
  /\ to = "DIAGNOSE" => Mine.verdict \in Verdict \ {"PASS"}

\* A late verdict is awaited for a job that did not pass; CI_CHECKS is left, or
\* come back to, with a job that did.
AnswerKept ==
  /\ card.at \in Polling \/ (card.at = "away" /\ card.from = "CI_CHECKS") =>
       card.job \in Job /\ Mine.verdict = "PASS"
  /\ card.at = "late" => Mine.verdict \in Attesting \ {"PASS"}
  /\ card.at = "away" /\ card.from = "GATE" /\ card.to \in {"CHECK", "IMPLEMENT", "DIAGNOSE"} =>
       card.job \in Job /\ Answered(card.to)

\* A re-run of the commit is in the journal, about to be, or lost.
Asked == card.at = "posted" \/ \E r \in reruns : r[1] = card.sha
RerunsPaid == granted <= lost + (IF Asked THEN 1 ELSE 0)

Types == CardOK /\ GithubOK /\ WorldOK
IInv == Types /\ JobsOK /\ HasJob /\ AnswerKept /\ SupersededIsNotJudged /\ RerunsPaid

-----------------------------------------------------------------------------
(* Lemmas about the constants and the card's moves.                        *)

LEMMA Bounds ==
  /\ LatePolls \in Nat /\ DiedPolls \in Nat /\ MaxRuns \in Nat
  /\ MaxRechecks \in Nat /\ MaxFaults \in Nat
  /\ CiPolls \in Nat /\ CiPolls > 0 /\ MaxJobs \in Nat /\ MaxJobs > 0
  /\ MaxShas \in Nat /\ MaxShas > 0
BY SiteAssumption

LEMMA LeaveMoves ==
  ASSUME card \in Card, NEW site \in {"GATE", "CI_CHECKS"}, NEW to \in To, Leave(site, to)
  PROVE  /\ card' \in Card /\ card'.at = "away" /\ card'.from = site /\ card'.to = to
         /\ card'.sha = card.sha /\ card'.job = card.job
<1>1. 0 \in 0..MaxRuns /\ 0 \in Nat
  BY Bounds
<1>2. DEFINE c == [card EXCEPT !.at = "away", !.from = site, !.to = to]
<1>3. c \in Card
  BY DEF Card, To
<1>4. c.at = "away" /\ c.from = site /\ c.to = to /\ c.sha = card.sha /\ c.job = card.job
  BY DEF Card
<1>5. card' = [c EXCEPT !.polls = 0, !.last = 0, !.failing = "none", !.run = 0]
  BY DEF Leave
<1> HIDE DEF c
<1>6. card' \in Card
  BY <1>1, <1>3, <1>5 DEF Card
<1>7. /\ card'.at = c.at /\ card'.from = c.from /\ card'.to = c.to
      /\ card'.sha = c.sha /\ card'.job = c.job
  BY <1>3, <1>5 DEF Card
<1> QED
  BY <1>4, <1>6, <1>7

LEMMA GoesMoves ==
  ASSUME card \in Card, NEW where \in Gating \cup Polling, NEW n \in Nat, Goes(where, n)
  PROVE  /\ card' \in Card /\ card'.at = where /\ card'.polls = n /\ card'.last = card.last
         /\ card'.sha = card.sha /\ card'.job = card.job
         /\ card'.failing = card.failing /\ card'.run = card.run
BY DEF Goes, Card

LEMMA JudgeMoves ==
  ASSUME card \in Card, NEW p \in Nat, NEW n \in Check, NEW k \in 0..MaxRuns,
         card' = [card EXCEPT !.at = "judge", !.polls = p, !.failing = n, !.run = k]
  PROVE  /\ card' \in Card /\ card'.at = "judge" /\ card'.polls = p
         /\ card'.last = card.last /\ card'.failing = n /\ card'.run = k
         /\ card'.job = card.job /\ card'.sha = card.sha
<1> DEFINE c == [card EXCEPT !.at = "judge", !.polls = p]
<1>1. c \in Card
  BY DEF Card, Polling
<1>2. c.at = "judge" /\ c.polls = p /\ c.last = card.last /\ c.job = card.job /\ c.sha = card.sha
  BY DEF Card
<1>3. card' = [c EXCEPT !.failing = n, !.run = k]
  OBVIOUS
<1> HIDE DEF c
<1>4. card' \in Card /\ card'.failing = n /\ card'.run = k
  BY <1>1, <1>3 DEF Card
<1>5. /\ card'.at = c.at /\ card'.polls = c.polls /\ card'.last = c.last
      /\ card'.job = c.job /\ card'.sha = c.sha
  BY <1>1, <1>3 DEF Card
<1> QED
  BY <1>2, <1>4, <1>5

LEMMA ToCiMoves ==
  ASSUME card \in Card, NEW n \in Nat, ToCi(n)
  PROVE  /\ card' \in Card /\ card'.at = "ci" /\ card'.polls = n
         /\ card'.last \in Nat /\ n < card'.last
         /\ card'.sha = card.sha /\ card'.job = card.job
<1>1. (IF CiPolls > n THEN CiPolls ELSE n + 1) \in Nat
  BY Bounds
<1>2. n < (IF CiPolls > n THEN CiPolls ELSE n + 1)
  BY Bounds
<1> QED
  BY <1>1, <1>2, Bounds DEF ToCi, Card, Polling

-----------------------------------------------------------------------------
(* What GATE's steps make of the card.                                     *)

\* A verdict that is taken for the card's job's is that job's.
LEMMA FreshIsMine == Fresh => OnFile = Mine /\ card.job # 0
BY DEF Fresh, OnFile, Mine

GateMove ==
  \/ \E to \in To : /\ Leave("GATE", to)
                    /\ to # "PARKED" => card.at # "away" /\ Answered(to)
  \/ \E n \in Nat : /\ Goes("late", n) /\ n <= LatePolls
                    /\ card.at # "away" /\ Mine.verdict \in Attesting \ {"PASS"}
  \/ \E n \in Nat : Goes("recover", n) /\ n <= DiedPolls /\ card.at # "away"
  \/ ToCi(0) /\ card.at # "away" /\ Mine.verdict = "PASS"

LEMMA Parks == Park("GATE") => GateMove
BY DEF Park, GateMove, To

LEMMA Accepts ==
  ASSUME NEW live, Accept(live), card.at # "away", Mine.verdict = "PASS"
  PROVE  GateMove
<1>1. CASE Park("GATE")
  BY <1>1, Parks
<1>2. CASE ToCi(0)
  BY <1>2 DEF GateMove
<1> QED
  BY <1>1, <1>2 DEF Accept

LEMMA Diagnoses ==
  ASSUME Leave("GATE", "DIAGNOSE"), card.at # "away", Mine.verdict \in Verdict \ {"PASS"}
  PROVE  GateMove
BY DEF GateMove, To, Answered

LEMMA Routes ==
  ASSUME Route, Fresh, card.at # "away", Mine.verdict \in Attesting \ {"PASS"}
  PROVE  GateMove
<1>1. OnFile = Mine
  BY FreshIsMine
<1>2. CASE Park("GATE")
  BY <1>2, Parks
<1>3. CASE OnFile.verdict = "UNMERGED" /\ (Leave("GATE", "CHECK") \/ Leave("GATE", "IMPLEMENT"))
  BY <1>1, <1>3 DEF GateMove, To, Answered
<1>4. CASE Leave("GATE", "DIAGNOSE")
  BY <1>4, Diagnoses DEF Verdict
<1> QED
  BY <1>2, <1>3, <1>4 DEF Route, MainMoved, MainRed

LEMMA GateFrame == GateStep => UNCHANGED World
BY DEF GateStep, Passed, Failed, NotOnFile, AwaitFresh, Refused, WorkerDied, Recover

LEMMA GateMoves ==
  ASSUME Types, JobsOK, HasJob, AnswerKept, GateStep
  PROVE  GateMove
<1>j. card.at # "away" => card.job \in Job
  BY DEF HasJob
<1>r. card.at # "away" /\ Reported /\ Mine.verdict # "PASS" => Mine.verdict \in Verdict \ {"PASS"}
  BY <1>j DEF Reported, Mine, JobsOK, Verdict
<1>b. card.polls \in Nat /\ LatePolls \in Nat /\ DiedPolls \in Nat
  BY Bounds DEF Types, CardOK, Card
<1>1. CASE Passed
  <2>1. card.at # "away" /\ Mine.verdict = "PASS"
    BY <1>1 DEF Passed, At
  <2>2. CASE HeadUnreadable(TRUE)
    BY <2>1, <2>2 DEF HeadUnreadable, GateMove
  <2>3. CASE Accept(OnFile.live) \/ Accept("none")
    BY <2>1, <2>3, Accepts
  <2> QED
    BY <1>1, <2>2, <2>3 DEF Passed
<1>2. CASE Failed
  <2>1. card.at # "away" /\ Reported /\ Mine.verdict \in Verdict \ {"PASS"}
    BY <1>2, <1>r DEF Failed, At
  <2>2. CASE Leave("GATE", "DIAGNOSE")
    BY <2>1, <2>2, Diagnoses
  <2>3. CASE Fresh /\ Route
    <3>1. OnFile = Mine
      BY <2>3, FreshIsMine
    <3>2. Mine.verdict \in Attesting \ {"PASS"}
      BY <2>1, <2>3, <3>1 DEF Route, MainMoved, Attesting
    <3> QED
      BY <2>1, <2>3, <3>2, Routes
  <2> QED
    BY <1>2, <2>2, <2>3 DEF Failed, HeadUnreadable
<1>3. CASE NotOnFile
  <2>1. CASE NonAttesting
    BY <2>1, Parks DEF NonAttesting
  <2>2. CASE Announced
    <3>1. card.at # "away" /\ Mine.verdict \in Attesting \ {"PASS"}
      BY <1>3, <2>2 DEF NotOnFile, Announced, At
    <3>2. Goes("late", 0) /\ 0 \in Nat /\ 0 <= LatePolls
      BY <1>b, <2>2 DEF Announced
    <3> QED
      BY <3>1, <3>2 DEF GateMove
  <2> QED
    BY <1>3, <2>1, <2>2 DEF NotOnFile
<1>4. CASE AwaitFresh
  <2>1. card.at = "late" /\ Mine.verdict \in Attesting \ {"PASS"}
    BY <1>4 DEF AwaitFresh, At, AnswerKept
  <2>2. CASE Fresh /\ Route
    BY <2>1, <2>2, Routes
  <2>3. CASE card.polls < LatePolls /\ Goes("late", card.polls + 1)
    <3>1. card.polls + 1 \in Nat /\ card.polls + 1 <= LatePolls
      BY <1>b, <2>3
    <3> QED
      BY <2>1, <2>3, <3>1 DEF GateMove
  <2>4. CASE Park("GATE")
    BY <2>4, Parks
  <2> QED
    BY <1>4, <2>2, <2>3, <2>4 DEF AwaitFresh
<1>5. CASE Refused
  BY <1>5, Parks DEF Refused
<1>6. CASE WorkerDied
  <2>1. Goes("recover", 0) /\ 0 \in Nat /\ 0 <= DiedPolls /\ card.at # "away"
    BY <1>6, <1>b DEF WorkerDied, At
  <2> QED
    BY <2>1 DEF GateMove
<1>7. CASE Recover
  <2>1. card.at # "away"
    BY <1>7 DEF Recover, At
  <2>2. CASE Recovered
    <3>1. OnFile = Mine /\ Fresh /\ Mine.verdict \in Attesting
      BY <2>2, FreshIsMine DEF Recovered
    <3>2. CASE OnFile.verdict = "PASS"
      BY <2>1, <2>2, <3>1, <3>2, Accepts DEF Recovered
    <3>3. CASE OnFile.verdict # "PASS"
      BY <2>1, <2>2, <3>1, <3>3, Routes DEF Recovered
    <3> QED
      BY <3>2, <3>3
  <2>3. CASE Unrecoverable
    BY <2>3, Parks DEF Unrecoverable
  <2>4. CASE StillAway
    <3>1. CASE card.polls < DiedPolls /\ Goes("recover", card.polls + 1)
      <4>1. card.polls + 1 \in Nat /\ card.polls + 1 <= DiedPolls
        BY <1>b, <3>1
      <4> QED
        BY <2>1, <3>1, <4>1 DEF GateMove
    <3>2. CASE Park("GATE")
      BY <3>2, Parks
    <3> QED
      BY <2>4, <3>1, <3>2 DEF StillAway
  <2> QED
    BY <1>7, <2>2, <2>3, <2>4 DEF Recover
<1> QED
  BY <1>1, <1>2, <1>3, <1>4, <1>5, <1>6, <1>7 DEF GateStep

-----------------------------------------------------------------------------
(* What CI_CHECKS's steps make of the card.                                *)

Judges(n) ==
  /\ card.at = "ci" /\ checks[n].st = "red" /\ ~Superseded(n)
  /\ card' = [card EXCEPT !.at = "judge", !.polls = @ + 1, !.failing = n, !.run = checks[n].id]

CiMove ==
  \/ \E to \in To : Leave("CI_CHECKS", to)
  \/ card.at = "ci" /\ card.polls + 1 < card.last /\ Goes("ci", card.polls + 1)
  \/ \E n \in Check : Judges(n)
  \/ card.at = "judge" /\ card' = [card EXCEPT !.at = "posted"]
  \/ card.at = "posted" /\ ToCi(card.polls)

LEMMA Classifies ==
  ASSUME NEW step, Classify(step)
  PROVE  \E to \in To : Leave("CI_CHECKS", to)
BY DEF Classify, ChargeRetry, Park, To

LEMMA CiMoves ==
  ASSUME CiStep
  PROVE  card.at \in Polling /\ jobs' = jobs /\ file' = file /\ rechecks' = rechecks /\ CiMove
<1>1. CASE PollAgain
  BY <1>1 DEF PollAgain, At, World, Park, To, CiMove, Polling
<1>2. CASE Unreadable
  BY <1>2 DEF Unreadable, At, World, Park, To, CiMove, Polling
<1>3. CASE PollRed
  <2>1. card.at = "ci" /\ jobs' = jobs /\ file' = file /\ rechecks' = rechecks
    BY <1>3 DEF PollRed, At, World
  <2>2. \A n \in Check : ~Superseded(n)
    BY <1>3 DEF PollRed, InFlight
  <2> QED
    BY <1>3, <2>1, <2>2 DEF PollRed, CiMove, Polling, Judges
<1>4. CASE PollGreen
  BY <1>4 DEF PollGreen, At, World, Park, To, CiMove, Polling
<1>5. CASE Classified
  <2>1. card.at = "judge" /\ jobs' = jobs /\ file' = file /\ rechecks' = rechecks
    BY <1>5 DEF Classified, At, World
  <2> QED
    BY <1>5, <2>1, Classifies DEF Classified, CiMove, Polling
<1>6. CASE Rerun
  BY <1>6 DEF Rerun, At, CiMove, Polling
<1>7. CASE RerunUnheard
  <2>1. card.at = "judge" /\ jobs' = jobs /\ file' = file /\ rechecks' = rechecks
    BY <1>7 DEF RerunUnheard, At
  <2> QED
    BY <1>7, <2>1, Classifies DEF RerunUnheard, CiMove, Polling
<1>8. CASE Record
  BY <1>8 DEF Record, At, CiMove, Polling
<1> QED
  BY <1>1, <1>2, <1>3, <1>4, <1>5, <1>6, <1>7, <1>8 DEF CiStep

\* Only the card's site and its polls move; the job and the commit stay.
LEMMA CiMovesOK ==
  ASSUME CardOK, GithubOK, CiMove
  PROVE  /\ CardOK' /\ card'.job = card.job /\ card'.sha = card.sha
         /\ card'.at \in Polling \/ (card'.at = "away" /\ card'.from = "CI_CHECKS")
<1>t. card \in Card /\ card.polls \in Nat /\ card.last \in Nat
  BY DEF CardOK, Card
<1>1. ASSUME NEW to \in To, Leave("CI_CHECKS", to)
      PROVE  /\ CardOK' /\ card'.job = card.job /\ card'.sha = card.sha
             /\ card'.at = "away" /\ card'.from = "CI_CHECKS"
  BY <1>t, <1>1, LeaveMoves DEF CardOK, PollsBounded, Polling
<1>2. CASE card.at = "ci" /\ card.polls + 1 < card.last /\ Goes("ci", card.polls + 1)
  <2>1. card.polls + 1 \in Nat
    BY <1>t
  <2> QED
    BY <1>t, <1>2, <2>1, GoesMoves DEF CardOK, PollsBounded, Polling
<1>3. ASSUME NEW n \in Check, Judges(n)
      PROVE  /\ CardOK' /\ card'.job = card.job /\ card'.sha = card.sha
             /\ card'.at \in Polling
  <2>1. checks[n].id \in 0..MaxRuns /\ checks[n].id # 0
    BY <1>3, Bounds DEF Judges, GithubOK, Run
  <2>2. card.polls + 1 \in Nat /\ card.polls + 1 <= card.last
    BY <1>t, <1>3 DEF CardOK, Judges
  <2>3. card' = [card EXCEPT !.at = "judge", !.polls = card.polls + 1,
                             !.failing = n, !.run = checks[n].id]
    BY <1>3 DEF Judges
  <2>4. /\ card' \in Card /\ card'.at = "judge" /\ card'.polls = card.polls + 1
        /\ card'.last = card.last /\ card'.failing = n /\ card'.run = checks[n].id
        /\ card'.job = card.job /\ card'.sha = card.sha
    BY <1>t, <2>1, <2>2, <2>3, JudgeMoves
  <2> QED
    BY <2>1, <2>2, <2>4 DEF CardOK, PollsBounded, Polling
<1>4. CASE card.at = "judge" /\ card' = [card EXCEPT !.at = "posted"]
  <2>1. /\ card' \in Card /\ card'.at = "posted" /\ card'.polls = card.polls
        /\ card'.last = card.last /\ card'.failing = card.failing /\ card'.run = card.run
        /\ card'.job = card.job /\ card'.sha = card.sha
    BY <1>t, <1>4 DEF Card, Polling
  <2> QED
    BY <1>4, <2>1 DEF CardOK, PollsBounded, Polling
<1>5. CASE card.at = "posted" /\ ToCi(card.polls)
  <2>1. /\ card' \in Card /\ card'.at = "ci" /\ card'.polls < card'.last
        /\ card'.polls \in Nat /\ card'.last \in Nat
        /\ card'.job = card.job /\ card'.sha = card.sha
    BY <1>t, <1>5, ToCiMoves
  <2>2. card'.polls <= card'.last
    BY <2>1
  <2> QED
    BY <2>1, <2>2 DEF CardOK, PollsBounded, Polling
<1> QED
  BY <1>1, <1>2, <1>3, <1>4, <1>5 DEF CiMove

LEMMA GateMovesOK ==
  ASSUME CardOK, GateMove
  PROVE  CardOK' /\ card'.job = card.job /\ card'.sha = card.sha
<1>t. card \in Card /\ card.polls \in Nat /\ card.last \in Nat
  BY DEF CardOK, Card
<1>1. ASSUME NEW to \in To, Leave("GATE", to)
      PROVE  CardOK' /\ card'.job = card.job /\ card'.sha = card.sha
  BY <1>t, <1>1, LeaveMoves DEF CardOK, PollsBounded, Polling
<1>2. ASSUME NEW n \in Nat, Goes("late", n), n <= LatePolls
      PROVE  CardOK' /\ card'.job = card.job /\ card'.sha = card.sha
  BY <1>t, <1>2, GoesMoves DEF CardOK, PollsBounded, Polling, Gating
<1>3. ASSUME NEW n \in Nat, Goes("recover", n), n <= DiedPolls
      PROVE  CardOK' /\ card'.job = card.job /\ card'.sha = card.sha
  BY <1>t, <1>3, GoesMoves DEF CardOK, PollsBounded, Polling, Gating
<1>4. CASE ToCi(0)
  <2>1. /\ card' \in Card /\ card'.at = "ci" /\ card'.polls < card'.last
        /\ card'.polls \in Nat /\ card'.last \in Nat
        /\ card'.job = card.job /\ card'.sha = card.sha
    BY <1>t, <1>4, ToCiMoves
  <2>2. card'.polls <= card'.last
    BY <2>1
  <2> QED
    BY <2>1, <2>2 DEF CardOK, PollsBounded, Polling
<1> QED
  BY <1>1, <1>2, <1>3, <1>4 DEF GateMove

-----------------------------------------------------------------------------
(* The types.                                                              *)

LEMMA TypesImplyTypeOK == Types => TypeOK
BY DEF Types, CardOK, GithubOK, WorldOK, TypeOK

LEMMA InitTypes == Init => Types
<1> SUFFICES ASSUME Init PROVE Types
  OBVIOUS
<1>1. PICK b \in BOOLEAN :
        card = [at |-> "away", from |-> "none", to |-> "none", sha |-> 1, job |-> 0,
                flows |-> b, polls |-> 0, last |-> 0, failing |-> "none", run |-> 0]
  BY DEF Init
<1>2. 1 \in Sha /\ 0 \in 0..MaxJobs /\ 0 \in 0..MaxRuns
  BY Bounds DEF Sha
<1>3. card \in Card /\ card.at = "away"
  BY <1>1, <1>2 DEF Card
<1>4. CardOK
  BY <1>3 DEF CardOK, PollsBounded, Polling
<1>5. NoJob \in JobRecord /\ NoRun \in Run
  BY <1>2 DEF NoJob, JobRecord, NoRun, Run, Live
<1>6. GithubOK
  BY <1>5 DEF Init, GithubOK, NoRun
<1>7. WorldOK
  BY <1>2, <1>5, Bounds DEF Init, WorldOK
<1> QED
  BY <1>4, <1>6, <1>7 DEF Types

LEMMA CrashMoves ==
  ASSUME CardOK, Crash
  PROVE  /\ CardOK' /\ card'.job = card.job /\ card'.sha = card.sha
         /\ card'.at = "away" /\ card'.to = "PARKED"
         /\ card'.from = IF card.at \in Polling THEN "CI_CHECKS" ELSE "GATE"
<1>1. PICK site \in {"GATE", "CI_CHECKS"} :
        /\ site = IF card.at \in Polling THEN "CI_CHECKS" ELSE "GATE"
        /\ Leave(site, "PARKED")
  BY DEF Crash, Park
<1>2. "PARKED" \in To /\ card \in Card
  BY DEF To, CardOK
<1>3. /\ card' \in Card /\ card'.at = "away" /\ card'.from = site /\ card'.to = "PARKED"
      /\ card'.sha = card.sha /\ card'.job = card.job
  BY <1>1, <1>2, LeaveMoves
<1> QED
  BY <1>1, <1>3 DEF CardOK, PollsBounded, Polling

LEMMA VisitMoves ==
  ASSUME CardOK
  PROVE  /\ Commit => /\ CardOK' /\ card'.at = "away" /\ card'.from = "none"
                      /\ card'.job = card.job
         /\ \A j \in Job :
              card' = [card EXCEPT !.at = "gate", !.job = j, !.from = "none", !.to = "none"]
              => CardOK' /\ card'.at = "gate" /\ card'.job = j /\ card'.sha = card.sha
<1>t. card \in Card /\ card.sha \in 1..MaxShas
  BY DEF CardOK, Card, Sha
<1>1. ASSUME Commit PROVE CardOK' /\ card'.at = "away" /\ card'.from = "none" /\ card'.job = card.job
  <2>1. card.at = "away" /\ card.sha + 1 \in Sha
    BY <1>t, <1>1, Bounds DEF Commit, At, Sha
  <2>2. PICK b \in BOOLEAN :
          card' = [card EXCEPT !.sha = card.sha + 1, !.flows = b, !.from = "none", !.to = "none"]
    BY <1>1 DEF Commit
  <2>3. /\ card' \in Card /\ card'.at = card.at /\ card'.from = "none" /\ card'.job = card.job
    BY <1>t, <2>1, <2>2 DEF Card
  <2> QED
    BY <2>1, <2>3 DEF CardOK, PollsBounded, Polling
<1>2. ASSUME NEW j \in Job,
             card' = [card EXCEPT !.at = "gate", !.job = j, !.from = "none", !.to = "none"]
      PROVE  CardOK' /\ card'.at = "gate" /\ card'.job = j /\ card'.sha = card.sha
  <2>1. j \in 0..MaxJobs /\ "gate" \in Gating \cup Polling \cup {"away"}
    BY Bounds DEF Job, Gating
  <2>2. card' \in Card /\ card'.at = "gate" /\ card'.job = j /\ card'.sha = card.sha
    BY <1>t, <1>2, <2>1 DEF Card
  <2> QED
    BY <2>2 DEF CardOK, PollsBounded, Polling
<1> QED
  BY <1>1, <1>2

\* A step that leaves GitHub alone.
LEMMA GithubStays == GithubOK /\ checks' = checks => GithubOK'
BY DEF GithubOK

\* An accepted re-run marks the run that was judged, at most.
LEMMA AcceptedOK ==
  ASSUME CardOK, GithubOK, WorldOK, card.at = "judge", Accepted
  PROVE  GithubOK' /\ granted' \in Nat
<1>1. card.failing \in Check
  BY DEF CardOK
<1>2. checks[card.failing] \in Run
  BY <1>1 DEF GithubOK
<1>3. [checks[card.failing] EXCEPT !.again = (checks[card.failing].id = card.run)] \in Run
  BY <1>2 DEF Run
<1>4. checks' = [checks EXCEPT ![card.failing] =
                   [@ EXCEPT !.again = (checks[card.failing].id = card.run)]]
  BY DEF Accepted
<1>5. checks' \in [Check -> Run]
  BY <1>3, <1>4 DEF GithubOK
<1>6. \A n \in Check : checks'[n].st = checks[n].st /\ checks'[n].id = checks[n].id
  BY <1>1, <1>2, <1>4 DEF GithubOK, Run
<1>7. granted' \in Nat
  BY DEF Accepted, WorldOK
<1> QED
  BY <1>5, <1>6, <1>7 DEF GithubOK

LEMMA OutsideOK ==
  ASSUME GithubOK, WorldOK, JobsOK, Outside
  PROVE  /\ GithubOK' /\ WorldOK' /\ card' = card
         /\ JobsOK'
         /\ \A j \in Job : jobs[j].verdict # "none" => jobs'[j].verdict = jobs[j].verdict
<1>t. jobs \in [Job -> JobRecord] /\ file \in [Sha -> 0..MaxJobs]
  BY DEF WorldOK
<1>1. ASSUME NEW j \in Job, JobEnds(j)
      PROVE  /\ GithubOK' /\ WorldOK' /\ card' = card /\ JobsOK'
             /\ \A i \in Job : jobs[i].verdict # "none" => jobs'[i].verdict = jobs[i].verdict
  <2>1. PICK a \in Answer :
          jobs' = [jobs EXCEPT ![j].verdict = a[1], ![j].live = a[2],
                               ![j].stage = IF a[1] \in Attesting THEN "done" ELSE "settled"]
    BY <1>1 DEF JobEnds
  <2>2. a[1] \in Verdict /\ a[2] \in Live
    BY DEF Answer
  <2> DEFINE v == a[1]
             l == a[2]
             s == IF v \in Attesting THEN "done" ELSE "settled"
             r == [jobs[j] EXCEPT !.verdict = v, !.live = l, !.stage = s]
  <2>3. s \in {"done", "settled"} /\ jobs[j] \in JobRecord
    BY <1>t
  <2>4. r \in JobRecord /\ r.verdict = v /\ r.stage = s
    BY <2>2, <2>3 DEF JobRecord
  <2>5. jobs' = [jobs EXCEPT ![j] = r]
    BY <2>1
  <2> HIDE DEF r
  <2>6. jobs'[j] = r /\ \A i \in Job \ {j} : jobs'[i] = jobs[i]
    BY <1>t, <2>5
  <2>7. jobs' \in [Job -> JobRecord]
    BY <1>t, <2>4, <2>5
  <2>8. jobs[j].verdict = "none"
    BY <1>1 DEF JobEnds, JobsOK
  <2>9. JobsOK'
    BY <2>2, <2>4, <2>6 DEF JobsOK, Verdict
  <2>10. GithubOK' /\ WorldOK' /\ card' = card
    BY <1>1, <2>7, GithubStays DEF JobEnds, WorldOK
  <2> QED
    BY <2>6, <2>8, <2>9, <2>10
<1>2. ASSUME NEW j \in Job, VerdictFiled(j) \/ VerdictLost(j)
      PROVE  /\ GithubOK' /\ WorldOK' /\ card' = card /\ JobsOK'
             /\ \A i \in Job : jobs[i].verdict # "none" => jobs'[i].verdict = jobs[i].verdict
  <2>1. jobs[j].stage = "done" /\ jobs' = [jobs EXCEPT ![j] = [@ EXCEPT !.stage = "settled"]]
    BY <1>2 DEF VerdictFiled, VerdictLost
  <2>2. /\ [jobs[j] EXCEPT !.stage = "settled"] \in JobRecord
        /\ [jobs[j] EXCEPT !.stage = "settled"].stage = "settled"
        /\ [jobs[j] EXCEPT !.stage = "settled"].verdict = jobs[j].verdict
    <3>1. jobs[j] \in JobRecord
      BY <1>t
    <3> QED
      BY <3>1 DEF JobRecord
  <2>3. jobs' \in [Job -> JobRecord]
    BY <1>t, <2>1, <2>2
  <2>4. /\ jobs'[j].stage = "settled" /\ jobs'[j].verdict = jobs[j].verdict
        /\ \A i \in Job \ {j} : jobs'[i] = jobs[i]
    BY <1>t, <2>1, <2>2
  <2>5. JobsOK'
    BY <2>1, <2>4 DEF JobsOK, Verdict
  <2>6. file' \in [Sha -> 0..MaxJobs] /\ faults' \in 0..MaxFaults
    <3>1. CASE VerdictFiled(j)
      <4>1. jobs[j].sha \in Sha /\ j \in 0..MaxJobs
        BY <1>t, Bounds DEF JobRecord, Job
      <4> QED
        BY <1>t, <3>1, <4>1 DEF VerdictFiled, WorldOK
    <3>2. CASE VerdictLost(j)
      BY <3>2, Bounds DEF VerdictLost, Fault, WorldOK
    <3> QED
      BY <1>2, <3>1, <3>2
  <2>7. GithubOK' /\ WorldOK' /\ card' = card
    BY <1>2, <2>3, <2>6, GithubStays DEF VerdictFiled, VerdictLost, WorldOK
  <2> QED
    BY <2>4, <2>5, <2>7
<1>3. ASSUME NEW n \in Check, Starts(n) \/ Ends(n)
      PROVE  GithubOK' /\ WorldOK' /\ card' = card /\ jobs' = jobs
  <2>1. WorldOK' /\ card' = card /\ jobs' = jobs
    BY <1>3 DEF Starts, Ends, WorldOK
  <2>t. checks[n] \in Run
    BY DEF GithubOK
  <2>2. ASSUME NEW r \in Run, r.id # 0, checks' = [checks EXCEPT ![n] = r] PROVE GithubOK'
    BY <2>2 DEF GithubOK
  <2>3. CASE Starts(n)
    <3>1. checks[n].id + 1 \in 0..MaxRuns /\ checks[n].id + 1 # 0
      BY <2>3, <2>t, Bounds DEF Starts, Run
    <3>2. [id |-> checks[n].id + 1, st |-> "running", again |-> FALSE] \in Run
      BY <3>1 DEF Run
    <3>3. checks' = [checks EXCEPT ![n] =
                       [id |-> checks[n].id + 1, st |-> "running", again |-> FALSE]]
      BY <2>3 DEF Starts
    <3> QED
      BY <2>1, <2>2, <3>1, <3>2, <3>3
  <2>4. CASE Ends(n)
    <3>1. PICK c \in {"green", "red"} : checks' = [checks EXCEPT ![n] = [@ EXCEPT !.st = c]]
      BY <2>4 DEF Ends
    <3>2. checks[n].id # 0
      BY <2>4 DEF Ends, GithubOK
    <3>3. [checks[n] EXCEPT !.st = c] \in Run /\ [checks[n] EXCEPT !.st = c].id # 0
      BY <2>t, <3>2 DEF Run
    <3> QED
      BY <2>1, <2>2, <3>1, <3>3
  <2> QED
    BY <1>3, <2>1, <2>3, <2>4
<1>4. ASSUME jobs' = jobs PROVE JobsOK'
  BY <1>4 DEF JobsOK
<1> QED
  BY <1>1, <1>2, <1>3, <1>4 DEF Outside

\* A step of CI_CHECKS on the world: a re-run is granted, or the journal has it.
LEMMA CiWorldOK ==
  ASSUME Types, CiStep
  PROVE  GithubOK' /\ WorldOK'
<1>1. CASE UNCHANGED World
  BY <1>1, GithubStays DEF Types, World, WorldOK
<1>2. CASE Rerun
  BY <1>2, AcceptedOK DEF Rerun, At, Types, WorldOK
<1>3. CASE RerunUnheard
  <2>1. GithubOK' /\ granted' \in Nat
    BY <1>3, AcceptedOK DEF RerunUnheard, At, Types
  <2>2. lost' \in Nat /\ faults' \in 0..MaxFaults
    BY <1>3, Bounds DEF RerunUnheard, Fault, Types, WorldOK
  <2> QED
    BY <1>3, <2>1, <2>2 DEF RerunUnheard, Types, WorldOK
<1>4. CASE Record
  <2>1. card.sha \in Sha /\ card.failing \in Check /\ card.run \in 1..MaxRuns
    BY <1>4, Bounds DEF Record, At, Types, CardOK, Card
  <2>2. <<card.sha, card.failing, card.run>> \in Sha \X Check \X (1..MaxRuns)
    BY <2>1
  <2> QED
    BY <1>4, <2>2, GithubStays DEF Record, Types, WorldOK
<1> QED
  BY <1>1, <1>2, <1>3, <1>4
     DEF CiStep, PollAgain, Unreadable, PollRed, PollGreen, Classified

\* What the card has of the bench and of GitHub, and what Deposit adds.
LEMMA VisitOK ==
  ASSUME Types, JobsOK, Visit
  PROVE  /\ Types' /\ JobsOK'
         /\ \/ Commit /\ jobs' = jobs
            \/ /\ Deposit /\ card'.at = "gate" /\ card'.job \in Job /\ card'.sha = card.sha
            \/ /\ Recheck /\ jobs' = jobs /\ card'.at = "ci"
               /\ card'.job = card.job /\ card'.sha = card.sha
<1>t. card \in Card /\ CardOK /\ GithubOK /\ WorldOK
  BY DEF Types, CardOK
<1>1. CASE Commit
  <2>1. CardOK' /\ jobs' = jobs
    BY <1>1, <1>t, VisitMoves DEF Commit
  <2>2. NoRun \in Run
    BY Bounds DEF NoRun, Run
  <2>3. GithubOK'
    BY <1>1, <2>2 DEF Commit, GithubOK, NoRun
  <2>4. WorldOK'
    BY <1>1, <1>t DEF Commit, WorldOK
  <2> QED
    BY <1>1, <2>1, <2>3, <2>4 DEF Types, JobsOK
<1>2. CASE Deposit
  <2>1. PICK j \in Job :
          /\ jobs[j].stage = "none"
          /\ jobs' = [jobs EXCEPT ![j].stage = "queued", ![j].sha = card.sha]
          /\ card' = [card EXCEPT !.at = "gate", !.job = j, !.from = "none", !.to = "none"]
    BY <1>2 DEF Deposit
  <2>2. CardOK' /\ card'.at = "gate" /\ card'.job = j /\ card'.sha = card.sha
    BY <1>t, <2>1, VisitMoves
  <2>3. jobs[j] \in JobRecord /\ card.sha \in Sha
    BY <1>t DEF WorldOK, Card
  <2> DEFINE r == [jobs[j] EXCEPT !.stage = "queued", !.sha = card.sha]
  <2>4. r \in JobRecord /\ r.stage = "queued" /\ r.verdict = jobs[j].verdict
    BY <2>3 DEF JobRecord
  <2>5. jobs' = [jobs EXCEPT ![j] = r]
    BY <2>1
  <2> HIDE DEF r
  <2>6. /\ jobs' \in [Job -> JobRecord] /\ jobs'[j] = r
        /\ \A i \in Job \ {j} : jobs'[i] = jobs[i]
    BY <1>t, <2>4, <2>5 DEF WorldOK
  <2>7. JobsOK'
    BY <2>1, <2>4, <2>6 DEF JobsOK
  <2>8. GithubOK' /\ WorldOK'
    BY <1>2, <1>t, <2>6, GithubStays DEF Deposit, WorldOK
  <2> QED
    BY <1>2, <2>2, <2>7, <2>8 DEF Types
<1>3. CASE Recheck
  <2>1. /\ card' \in Card /\ card'.at = "ci" /\ card'.polls < card'.last
        /\ card'.polls \in Nat /\ card'.last \in Nat
        /\ card'.job = card.job /\ card'.sha = card.sha
    BY <1>3, <1>t, ToCiMoves DEF Recheck
  <2>2. card'.polls <= card'.last
    BY <2>1
  <2>3. CardOK'
    BY <2>1, <2>2 DEF CardOK, PollsBounded, Polling
  <2>4. GithubOK' /\ WorldOK' /\ jobs' = jobs
    BY <1>3, <1>t, Bounds, GithubStays DEF Recheck, WorldOK
  <2> QED
    BY <1>3, <2>1, <2>3, <2>4 DEF Types, JobsOK
<1> QED
  BY <1>1, <1>2, <1>3 DEF Visit

LEMMA NextTypes ==
  ASSUME Types, JobsOK, HasJob, AnswerKept, [Next]_vars
  PROVE  Types' /\ JobsOK'
<1>1. CASE GateStep
  <2>1. CardOK'
    BY <1>1, GateMoves, GateMovesOK DEF Types
  <2>2. UNCHANGED World
    BY <1>1, GateFrame
  <2> QED
    BY <2>1, <2>2 DEF Types, GithubOK, WorldOK, JobsOK, World
<1>2. CASE CiStep
  <2>1. CardOK' /\ jobs' = jobs
    BY <1>2, CiMoves, CiMovesOK DEF Types
  <2>2. GithubOK' /\ WorldOK'
    BY <1>2, CiWorldOK
  <2> QED
    BY <2>1, <2>2 DEF Types, JobsOK
<1>3. CASE Visit
  BY <1>3, VisitOK
<1>4. CASE Outside
  <2>1. GithubOK' /\ WorldOK' /\ card' = card /\ JobsOK'
    BY <1>4, OutsideOK DEF Types
  <2> QED
    BY <2>1 DEF Types, CardOK, PollsBounded
<1>5. CASE Crash
  <2>1. CardOK'
    BY <1>5, CrashMoves DEF Types
  <2>2. lost' \in Nat /\ faults' \in 0..MaxFaults
    BY <1>5, Bounds DEF Crash, Fault, Types, WorldOK
  <2> QED
    BY <1>5, <2>1, <2>2 DEF Crash, Types, GithubOK, WorldOK, JobsOK
<1>6. CASE UNCHANGED vars
  BY <1>6 DEF vars, Types, CardOK, PollsBounded, GithubOK, WorldOK, JobsOK
<1> QED
  BY <1>1, <1>2, <1>3, <1>4, <1>5, <1>6 DEF Next

-----------------------------------------------------------------------------
(* The answers.                                                            *)

\* What a job said stays said.
LEMMA SameJobs ==
  ASSUME jobs' = jobs, card'.job = card.job
  PROVE  Mine' = Mine
BY DEF Mine

LEMMA NextAnswers ==
  ASSUME Types, JobsOK, HasJob, AnswerKept, [Next]_vars
  PROVE  HasJob' /\ AnswerKept'
<1>t. card \in Card /\ CardOK /\ GithubOK
  BY DEF Types, CardOK
<1>1. CASE GateStep
  <2>1. jobs' = jobs /\ GateMove
    BY <1>1, GateFrame, GateMoves DEF World
  <2>2. card'.job = card.job
    BY <1>t, <2>1, GateMovesOK
  <2>3. Mine' = Mine
    BY <2>1, <2>2, SameJobs
  <2>4. ASSUME NEW to \in To, Leave("GATE", to),
               to # "PARKED" => card.at # "away" /\ Answered(to)
        PROVE  HasJob' /\ AnswerKept'
    <3>1. card'.at = "away" /\ card'.from = "GATE" /\ card'.to = to
      BY <1>t, <2>4, LeaveMoves
    <3>2. to # "PARKED" => card'.job \in Job /\ Answered(to)
      BY <2>2, <2>4 DEF HasJob
    <3> QED
      BY <2>3, <3>1, <3>2 DEF HasJob, AnswerKept, Answered, Polling
  <2>5. ASSUME NEW n \in Nat, Goes("late", n), card.at # "away",
               Mine.verdict \in Attesting \ {"PASS"}
        PROVE  HasJob' /\ AnswerKept'
    <3>1. card'.at = "late"
      BY <1>t, <2>5, GoesMoves DEF Gating
    <3> QED
      BY <2>2, <2>3, <2>5, <3>1 DEF HasJob, AnswerKept, Polling
  <2>6. ASSUME NEW n \in Nat, Goes("recover", n), card.at # "away"
        PROVE  HasJob' /\ AnswerKept'
    <3>1. card'.at = "recover"
      BY <1>t, <2>6, GoesMoves DEF Gating
    <3> QED
      BY <2>2, <2>6, <3>1 DEF HasJob, AnswerKept, Polling
  <2>7. CASE ToCi(0) /\ card.at # "away" /\ Mine.verdict = "PASS"
    <3>1. card'.at = "ci"
      BY <1>t, <2>7, ToCiMoves
    <3> QED
      BY <2>2, <2>3, <2>7, <3>1 DEF HasJob, AnswerKept, Polling
  <2> QED
    BY <2>1, <2>4, <2>5, <2>6, <2>7 DEF GateMove
<1>2. CASE CiStep
  <2>1. card.at \in Polling /\ jobs' = jobs /\ CiMove
    BY <1>2, CiMoves
  <2>2. /\ card'.job = card.job
        /\ card'.at \in Polling \/ (card'.at = "away" /\ card'.from = "CI_CHECKS")
    BY <1>t, <2>1, CiMovesOK
  <2>3. Mine' = Mine /\ card.job \in Job /\ Mine.verdict = "PASS"
    BY <2>1, <2>2, SameJobs DEF AnswerKept
  <2> QED
    BY <2>2, <2>3 DEF HasJob, AnswerKept, Polling
<1>3. CASE Visit
  <2>1. CASE Commit
    <3>1. card'.at = "away" /\ card'.from = "none"
      BY <1>t, <2>1, VisitMoves
    <3> QED
      BY <3>1 DEF HasJob, AnswerKept, Polling
  <2>2. CASE card'.at = "gate" /\ card'.job \in Job
    BY <2>2 DEF HasJob, AnswerKept, Polling
  <2>3. CASE Recheck /\ jobs' = jobs /\ card'.at = "ci" /\ card'.job = card.job
    <3>1. Mine' = Mine /\ card.job \in Job /\ Mine.verdict = "PASS"
      BY <2>3, SameJobs DEF Recheck, At, AnswerKept
    <3> QED
      BY <2>3, <3>1 DEF HasJob, AnswerKept, Polling
  <2> QED
    BY <1>3, <2>1, <2>2, <2>3, VisitOK
<1>4. CASE Outside
  <2>1. /\ card' = card
        /\ \A j \in Job : jobs[j].verdict # "none" => jobs'[j].verdict = jobs[j].verdict
    BY <1>4, OutsideOK DEF Types
  <2>2. card.job \in Job /\ Mine.verdict \in Verdict => Mine'.verdict = Mine.verdict
    BY <2>1 DEF Mine, Verdict, Attesting
  <2>3. card.at = "late" => card.job \in Job
    BY DEF HasJob
  <2> QED
    BY <2>1, <2>2, <2>3 DEF HasJob, AnswerKept, Answered, Verdict, Attesting
<1>5. CASE Crash
  <2>1. /\ card'.job = card.job /\ card'.at = "away" /\ card'.to = "PARKED"
        /\ card'.from = IF card.at \in Polling THEN "CI_CHECKS" ELSE "GATE"
    BY <1>5, <1>t, CrashMoves
  <2>2. Mine' = Mine
    BY <1>5, <2>1, SameJobs DEF Crash
  <2> QED
    BY <2>1, <2>2 DEF HasJob, AnswerKept, Polling
<1>6. CASE UNCHANGED vars
  BY <1>6 DEF vars, HasJob, AnswerKept, Answered, Mine
<1> QED
  BY <1>1, <1>2, <1>3, <1>4, <1>5, <1>6 DEF Next

-----------------------------------------------------------------------------
(* The re-runs.                                                            *)

\* The journal of re-runs grows by one record, before the next fetch.
LEMMA RerunsGrow ==
  ASSUME Types, [Next]_vars
  PROVE  \/ reruns' = reruns
         \/ /\ card.at = "posted" /\ card'.at = "ci" /\ card'.sha = card.sha
            /\ reruns' = reruns \cup {<<card.sha, card.failing, card.run>>}
<1>1. CASE Record
  <2>1. card.polls \in Nat /\ card \in Card
    BY DEF Types, CardOK, Card
  <2> QED
    BY <1>1, <2>1, ToCiMoves DEF Record, At
<1>2. CASE CiStep /\ ~Record
  BY <1>2 DEF CiStep, PollAgain, Unreadable, PollRed, PollGreen, Classified, Rerun,
     RerunUnheard, World
<1>3. CASE GateStep
  BY <1>3, GateFrame DEF World
<1>4. CASE Visit \/ Outside \/ Crash \/ UNCHANGED vars
  BY <1>4 DEF Visit, Commit, Deposit, Recheck, Outside, JobEnds, VerdictFiled, VerdictLost,
     Starts, Ends, Crash, vars
<1> QED
  BY <1>1, <1>2, <1>3, <1>4 DEF Next

\* What is judged was read just now, or is what was judged before.
LEMMA JudgeIsRead ==
  ASSUME Types, JobsOK, HasJob, AnswerKept, [Next]_vars, card'.at = "judge"
  PROVE  \/ UNCHANGED card
         \/ /\ ~(<<card'.sha, card'.failing, card'.run>> \in reruns)
            /\ card.at = "ci"
<1>t. card \in Card /\ CardOK /\ GithubOK /\ card.polls \in Nat
  BY DEF Types, CardOK, Card
<1>1. CASE GateStep
  <2>1. GateMove
    BY <1>1, GateMoves
  <2> QED
    BY <1>t, <2>1, LeaveMoves, GoesMoves, ToCiMoves DEF GateMove, Gating
<1>2. CASE CiStep
  <2>1. CiMove
    BY <1>2, CiMoves
  <2>2. ASSUME NEW n \in Check, Judges(n)
        PROVE  ~(<<card'.sha, card'.failing, card'.run>> \in reruns) /\ card.at = "ci"
    <3>1. card.polls + 1 \in Nat /\ checks[n].id \in 0..MaxRuns
      BY <1>t DEF GithubOK, Run
    <3>2. card' = [card EXCEPT !.at = "judge", !.polls = card.polls + 1,
                               !.failing = n, !.run = checks[n].id]
      BY <2>2 DEF Judges
    <3>3. card'.sha = card.sha /\ card'.failing = n /\ card'.run = checks[n].id
      BY <1>t, <3>1, <3>2, JudgeMoves
    <3> QED
      BY <2>2, <3>3 DEF Judges, Superseded
  <2>3. CASE card.at = "ci" /\ Goes("ci", card.polls + 1)
    <3>1. card.polls + 1 \in Nat
      BY <1>t
    <3> QED
      BY <1>t, <2>3, <3>1, GoesMoves DEF Polling
  <2>4. CASE card' = [card EXCEPT !.at = "posted"]
    BY <1>t, <2>4 DEF Card
  <2>5. CASE ToCi(card.polls)
    BY <1>t, <2>5, ToCiMoves
  <2>6. ASSUME NEW to \in To, Leave("CI_CHECKS", to) PROVE FALSE
    BY <1>t, <2>6, LeaveMoves
  <2> QED
    BY <2>1, <2>2, <2>3, <2>4, <2>5, <2>6 DEF CiMove
<1>3. CASE Visit
  <2>1. card'.at # "judge"
    <3>1. CASE Commit
      BY <1>t, <3>1, VisitMoves
    <3> QED
      BY <1>3, <3>1, VisitOK
  <2> QED
    BY <2>1
<1>4. CASE Outside
  BY <1>4, OutsideOK DEF Types
<1>5. CASE Crash
  BY <1>5, <1>t, CrashMoves
<1>6. CASE UNCHANGED vars
  BY <1>6 DEF vars
<1> QED
  BY <1>1, <1>2, <1>3, <1>4, <1>5, <1>6 DEF Next

LEMMA NextSuperseded ==
  ASSUME Types, JobsOK, HasJob, AnswerKept, SupersededIsNotJudged, [Next]_vars
  PROVE  SupersededIsNotJudged'
<1> SUFFICES ASSUME card'.at = "judge"
             PROVE  <<card'.sha, card'.failing, card'.run>> \notin reruns'
  BY DEF SupersededIsNotJudged, At
<1>1. reruns' = reruns
  BY RerunsGrow
<1>2. CASE UNCHANGED card
  BY <1>1, <1>2 DEF SupersededIsNotJudged, At
<1>3. CASE ~(<<card'.sha, card'.failing, card'.run>> \in reruns)
  BY <1>1, <1>3
<1> QED
  BY <1>2, <1>3, JudgeIsRead

\* A step that grants nothing to the commit, and forgets nothing that was asked.
LEMMA PaidStays ==
  ASSUME Types, Types', RerunsPaid, granted' = granted,
         \/ lost' = lost /\ (Asked => Asked')
         \/ lost' = lost + 1
  PROVE  RerunsPaid'
<1>1. granted \in Nat /\ lost \in Nat
  BY DEF Types, WorldOK
<1> QED
  BY <1>1 DEF RerunsPaid

LEMMA NextPaid ==
  ASSUME Types, Types', JobsOK, HasJob, AnswerKept, RerunsPaid, [Next]_vars
  PROVE  RerunsPaid'
<1>t. card \in Card /\ CardOK /\ GithubOK /\ granted \in Nat /\ lost \in Nat /\ card.polls \in Nat
  BY DEF Types, CardOK, WorldOK, Card
<1>1. CASE granted' = granted /\ lost' = lost /\ reruns' = reruns /\ card'.sha = card.sha
           /\ card.at # "posted"
  BY <1>1, PaidStays DEF Asked
<1>2. CASE GateStep
  <2>1. card'.sha = card.sha
    BY <1>2, <1>t, GateMoves, GateMovesOK
  <2>2. card.at # "posted"
    BY <1>2 DEF GateStep, Passed, Failed, NotOnFile, AwaitFresh, Refused, WorkerDied, Recover, At
  <2>3. granted' = granted /\ lost' = lost /\ reruns' = reruns
    BY <1>2, GateFrame DEF World
  <2> QED
    BY <1>1, <2>1, <2>2, <2>3
<1>3. CASE PollAgain \/ Unreadable \/ PollRed \/ PollGreen \/ Classified
  <2>1. card'.sha = card.sha
    BY <1>3, <1>t, CiMoves, CiMovesOK DEF CiStep
  <2>2. card.at # "posted" /\ granted' = granted /\ lost' = lost /\ reruns' = reruns
    BY <1>3 DEF PollAgain, Unreadable, PollRed, PollGreen, Classified, At, World
  <2> QED
    BY <1>1, <2>1, <2>2
<1>4. CASE Rerun
  <2>1. card'.at = "posted"
    BY <1>4, <1>t DEF Rerun, Card
  <2>2. ~Asked
    BY <1>4 DEF Rerun, At, Eligible, Asked
  <2>3. granted' = granted + 1 /\ lost' = lost
    BY <1>4 DEF Rerun, Accepted
  <2>4. granted' <= lost' + 1
    BY <1>t, <2>2, <2>3 DEF RerunsPaid
  <2>5. Asked'
    BY <2>1 DEF Asked
  <2> QED
    BY <2>4, <2>5 DEF RerunsPaid
<1>5. CASE RerunUnheard
  <2>1. ~Asked
    BY <1>5 DEF RerunUnheard, At, Eligible, Asked
  <2>2. granted' = granted + 1 /\ lost' = lost + 1
    BY <1>5 DEF RerunUnheard, Accepted
  <2>3. granted' <= lost'
    BY <1>t, <2>1, <2>2 DEF RerunsPaid
  <2> QED
    BY <1>t, <2>2, <2>3 DEF RerunsPaid
<1>6. CASE Record
  <2>1. card'.sha = card.sha
    BY <1>6, <1>t, ToCiMoves DEF Record
  <2>2. <<card.sha, card.failing, card.run>> \in reruns'
    BY <1>6 DEF Record
  <2>3. Asked'
    <3>1. <<card.sha, card.failing, card.run>>[1] = card'.sha
      BY <2>1
    <3> QED
      BY <2>2, <3>1 DEF Asked
  <2> QED
    BY <1>6, <2>3, PaidStays DEF Record
<1>7. CASE Visit
  <2>1. CASE Commit
    <3>1. granted' = 0 /\ lost' = 0
      BY <2>1 DEF Commit
    <3> QED
      BY <3>1 DEF RerunsPaid
  <2>2. CASE Deposit \/ Recheck
    <3>1. card.at # "posted" /\ granted' = granted /\ lost' = lost /\ reruns' = reruns
      BY <2>2 DEF Deposit, Recheck, At
    <3>2. card'.sha = card.sha
      <4>1. CASE Deposit
        BY <1>t, <4>1, VisitMoves DEF Deposit
      <4>2. CASE Recheck
        BY <1>t, <4>2, ToCiMoves DEF Recheck
      <4> QED
        BY <2>2, <4>1, <4>2
    <3> QED
      BY <1>1, <3>1, <3>2
  <2> QED
    BY <1>7, <2>1, <2>2 DEF Visit
<1>8. CASE Outside
  <2>1. granted' = granted /\ lost' = lost /\ reruns' = reruns /\ card' = card
    BY <1>8 DEF Outside, JobEnds, VerdictFiled, VerdictLost, Starts, Ends
  <2> QED
    BY <2>1, PaidStays DEF Asked
<1>9. CASE Crash
  <2>1. CASE card.at = "posted"
    BY <1>9, <2>1, PaidStays DEF Crash, At
  <2>2. CASE card.at # "posted"
    <3>1. granted' = granted /\ lost' = lost /\ reruns' = reruns
      BY <1>9, <2>2 DEF Crash, At
    <3> QED
      BY <1>9, <1>t, <1>1, <2>2, <3>1, CrashMoves
  <2> QED
    BY <2>1, <2>2
<1>10. CASE UNCHANGED vars
  BY <1>10, PaidStays DEF vars, Asked
<1> QED
  BY <1>2, <1>3, <1>4, <1>5, <1>6, <1>7, <1>8, <1>9, <1>10 DEF Next, CiStep

-----------------------------------------------------------------------------
(* The theorems.                                                           *)

LEMMA InitIInv == Init => IInv
<1> SUFFICES ASSUME Init PROVE IInv
  OBVIOUS
<1>1. Types
  BY InitTypes
<1>2. card.at = "away" /\ card.from = "none"
  BY DEF Init
<1>3. JobsOK
  BY DEF Init, JobsOK, NoJob
<1>4. HasJob /\ AnswerKept /\ SupersededIsNotJudged
  BY <1>2 DEF HasJob, AnswerKept, SupersededIsNotJudged, At, Polling
<1>5. RerunsPaid
  BY DEF Init, RerunsPaid
<1> QED
  BY <1>1, <1>3, <1>4, <1>5 DEF IInv

LEMMA NextIInv == IInv /\ [Next]_vars => IInv'
BY NextTypes, NextAnswers, NextSuperseded, NextPaid DEF IInv

LEMMA SpecIInv == Spec => []IInv
BY InitIInv, NextIInv, PTL DEF Spec

\* Every variable keeps its type and every poll its budget, for any number of
\* checks, jobs, commits, polls and faults (steps/scripted.js).
THEOREM TypeCorrect == Spec => []TypeOK
<1>1. IInv => TypeOK
  BY TypesImplyTypeOK DEF IInv
<1> QED
  BY <1>1, SpecIInv, PTL

\* GATE acts on its own job's answer, whatever an earlier job of the commit left
\* on file (isGateVerdictFreshForJob, routeGateVerdict, recoverFromGateWorkerDied).
THEOREM GateAnswersItsOwnJob == Spec => []GateAnswersItsJob
<1>1. IInv => GateAnswersItsJob
  BY DEF IInv, AnswerKept, Answered, GateAnswersItsJob, At
<1> QED
  BY <1>1, SpecIInv, PTL

\* CI_CHECKS never fails a card for a run it asked to run again, whichever worker
\* reads it (pollCheckRunsUntilConcluded, rerunCiFlakeIfEligible).
THEOREM SupersededRunIsNotJudged == Spec => []SupersededIsNotJudged
<1>1. IInv => SupersededIsNotJudged
  BY DEF IInv
<1> QED
  BY <1>1, SpecIInv, PTL

\* A commit has one re-run, but for those whose answer the journal never got
\* (rerunCiFlakeIfEligible).
THEOREM OneRerunForEachCommit == Spec => []OneRerunPerCommit
<1>1. IInv => OneRerunPerCommit
  <2> SUFFICES ASSUME IInv PROVE granted <= lost + 1
    BY DEF OneRerunPerCommit
  <2>1. granted \in Nat /\ lost \in Nat
    BY DEF IInv, Types, WorldOK
  <2> QED
    BY <2>1 DEF IInv, RerunsPaid
<1> QED
  BY <1>1, SpecIInv, PTL

-----------------------------------------------------------------------------
(* How long a visit can be.  VisitEnds needs fairness; that every step of  *)
(* the visit leaves fewer of them, whatever the bench and GitHub do in     *)
(* between, does not.                                                      *)

\* The commit has not had its re-run, which is worth another round of polls.
MayRerun == \A r \in reruns : r[1] # card.sha
Reserve == IF MayRerun THEN CiPolls + 3 ELSE 0

\* An upper bound of the steps the visit may still take.
Left ==
  CASE At("gate") -> LatePolls + DiedPolls + 2 * CiPolls + 9
    [] At("late") -> (LatePolls - card.polls) + 1
    [] At("recover") -> (DiedPolls - card.polls) + 2 * CiPolls + 7
    [] At("ci") -> Reserve + (card.last - card.polls) + 2
    [] At("judge") -> Reserve + 2
    [] At("posted") -> Reserve + 1
    [] OTHER -> 0

\* A round has at most CiPolls fetches; only a first re-run is posted.
RoundsKept ==
  /\ At("ci") => card.last <= card.polls + CiPolls
  /\ At("posted") => MayRerun

VisitInv == CardOK /\ RoundsKept

LEMMA ReserveNat == Reserve \in Nat /\ Reserve <= CiPolls + 3
BY Bounds DEF Reserve

LEMMA LeftNat == ASSUME VisitInv PROVE Left \in Nat
<1>1. card.polls \in Nat /\ card.last \in Nat
  BY DEF VisitInv, CardOK, Card
<1>2. CASE At("ci")
  BY <1>1, <1>2, ReserveNat DEF Left, VisitInv, CardOK, At
<1>3. CASE At("judge") \/ At("posted")
  BY <1>3, ReserveNat DEF Left, At
<1>4. CASE At("late") \/ At("recover")
  BY <1>1, <1>4, Bounds DEF Left, VisitInv, CardOK, PollsBounded, At
<1> QED
  BY <1>2, <1>3, <1>4, Bounds DEF Left

LEMMA LeftOut ==
  ASSUME VisitInv, ~At("away"), card'.at = "away"
  PROVE  Left' < Left
<1>1. Left' = 0
  BY DEF Left, At
<1>2. card.polls \in Nat /\ card.last \in Nat
  BY DEF VisitInv, CardOK, Card
<1>3. Left > 0
  BY <1>2, ReserveNat, Bounds DEF VisitInv, CardOK, PollsBounded, Left, At, Card, Gating, Polling
<1> QED
  BY <1>1, <1>3, LeftNat

\* A round of polls begins with all of it before it.
LEMMA RoundBegins ==
  ASSUME CardOK, NEW n \in Nat, ToCi(n), n <= CiPolls
  PROVE  /\ RoundsKept' /\ card'.last - card'.polls \in 1..CiPolls
         /\ Left' = Reserve' + (card'.last - card'.polls) + 2
<1>1. card' \in Card /\ card'.at = "ci" /\ card'.polls = n
  BY ToCiMoves DEF CardOK
<1>2. card'.last = IF CiPolls > n THEN CiPolls ELSE n + 1
  BY DEF ToCi, CardOK, Card
<1>3. card'.last - n \in 1..CiPolls
  BY <1>2, Bounds
<1> QED
  BY <1>1, <1>2, <1>3, Bounds DEF RoundsKept, Left, At

LEMMA SameReserve ==
  ASSUME reruns' = reruns, card'.sha = card.sha PROVE Reserve' = Reserve
BY DEF Reserve, MayRerun

\* What a step of GATE does to the polls it has left.
LEMMA GateShape ==
  ASSUME GateStep, ~At("away")
  PROVE  \/ \E to \in To : Leave("GATE", to)
         \/ (At("gate") \/ At("recover")) /\ ToCi(0)
         \/ At("gate") /\ (Goes("late", 0) \/ Goes("recover", 0))
         \/ At("late") /\ card.polls < LatePolls /\ Goes("late", card.polls + 1)
         \/ At("recover") /\ card.polls < DiedPolls /\ Goes("recover", card.polls + 1)
<1>1. ASSUME NEW live, Accept(live) PROVE ToCi(0) \/ \E to \in To : Leave("GATE", to)
  BY <1>1 DEF Accept, Park, To
<1>2. Route => \E to \in To : Leave("GATE", to)
  BY DEF Route, MainMoved, MainRed, Park, To
<1>3. CASE Passed
  BY <1>1, <1>3 DEF Passed, HeadUnreadable
<1>4. CASE Failed
  BY <1>2, <1>4 DEF Failed, HeadUnreadable, To
<1>5. CASE NotOnFile
  BY <1>5 DEF NotOnFile, Announced, NonAttesting, Park, To
<1>6. CASE AwaitFresh
  BY <1>2, <1>6 DEF AwaitFresh, Park, To
<1>7. CASE Refused
  BY <1>7 DEF Refused, Park, To
<1>8. CASE WorkerDied
  BY <1>8 DEF WorkerDied
<1>9. CASE Recover
  <2>1. Recovered => ToCi(0) \/ \E to \in To : Leave("GATE", to)
    BY <1>1, <1>2 DEF Recovered
  <2> QED
    BY <1>9, <2>1 DEF Recover, Unrecoverable, StillAway, Park, To
<1> QED
  BY <1>3, <1>4, <1>5, <1>6, <1>7, <1>8, <1>9 DEF GateStep

LEMMA GateShortens ==
  ASSUME VisitInv, GateStep, ~At("away")
  PROVE  RoundsKept' /\ Left' < Left
<1>t. card \in Card /\ CardOK /\ card.polls \in Nat
  BY DEF VisitInv, CardOK, Card
<1>b. /\ CiPolls \in Nat /\ CiPolls > 0 /\ LatePolls \in Nat /\ DiedPolls \in Nat
      /\ Reserve' \in Nat /\ Reserve' <= CiPolls + 3
  BY ReserveNat, Bounds DEF Reserve
<1>1. ASSUME NEW to \in To, Leave("GATE", to) PROVE RoundsKept' /\ Left' < Left
  <2>1. card'.at = "away"
    BY <1>t, <1>1, LeaveMoves
  <2> QED
    BY <2>1, LeftOut DEF RoundsKept, At
<1>2. CASE (At("gate") \/ At("recover")) /\ ToCi(0)
  <2>1. /\ RoundsKept' /\ card'.last - card'.polls \in 1..CiPolls
        /\ Left' = Reserve' + (card'.last - card'.polls) + 2
    BY <1>t, <1>b, <1>2, RoundBegins
  <2>2. Left >= 2 * CiPolls + 7
    BY <1>b, <1>t, <1>2 DEF Left, At, VisitInv, CardOK, PollsBounded
  <2> QED
    BY <1>b, <2>1, <2>2, LeftNat
<1>3. CASE At("gate") /\ (Goes("late", 0) \/ Goes("recover", 0))
  <2>1. card'.at \in {"late", "recover"} /\ card'.polls = 0
    BY <1>t, <1>3, GoesMoves DEF Gating
  <2> QED
    BY <1>b, <1>3, <2>1 DEF Left, At, RoundsKept
<1>4. CASE At("late") /\ card.polls < LatePolls /\ Goes("late", card.polls + 1)
  <2>1. card'.at = "late" /\ card'.polls = card.polls + 1
    BY <1>t, <1>4, GoesMoves DEF Gating
  <2> QED
    BY <1>b, <1>t, <1>4, <2>1 DEF Left, At, RoundsKept
<1>5. CASE At("recover") /\ card.polls < DiedPolls /\ Goes("recover", card.polls + 1)
  <2>1. card'.at = "recover" /\ card'.polls = card.polls + 1
    BY <1>t, <1>5, GoesMoves DEF Gating
  <2> QED
    BY <1>b, <1>t, <1>5, <2>1 DEF Left, At, RoundsKept
<1> QED
  BY <1>1, <1>2, <1>3, <1>4, <1>5, GateShape

\* A red run costs a poll; a re-run costs the commit its reserve, which pays
\* for the round that follows.
LEMMA CiShortens ==
  ASSUME VisitInv, CiStep
  PROVE  RoundsKept' /\ Left' < Left
<1>t. card \in Card /\ CardOK /\ card.polls \in Nat /\ card.last \in Nat
  BY DEF VisitInv, CardOK, Card
<1>b. CiPolls \in Nat /\ CiPolls > 0 /\ Reserve \in Nat
  BY ReserveNat, Bounds
<1>1. ASSUME NEW to \in To, Leave("CI_CHECKS", to), card.at \in Polling
      PROVE  RoundsKept' /\ Left' < Left
  <2>1. card'.at = "away" /\ ~At("away")
    BY <1>t, <1>1, LeaveMoves DEF At, Polling
  <2> QED
    BY <2>1, LeftOut DEF RoundsKept, At
<1>2. CASE PollAgain
  <2>1. CASE card.polls + 1 < card.last /\ Goes("ci", card.polls + 1)
    <3>1. card'.at = "ci" /\ card'.polls = card.polls + 1 /\ card'.last = card.last
          /\ card'.sha = card.sha
      BY <1>t, <2>1, GoesMoves DEF Polling
    <3>2. Reserve' = Reserve
      BY <1>2, <3>1, SameReserve DEF PollAgain, World
    <3> QED
      BY <1>b, <1>t, <1>2, <2>1, <3>1, <3>2
         DEF PollAgain, Left, At, RoundsKept, VisitInv
  <2> QED
    BY <1>1, <1>2, <2>1 DEF PollAgain, Park, To, At, Polling
<1>3. CASE PollRed
  <2>1. PICK n \in Check :
          card' = [card EXCEPT !.at = "judge", !.polls = card.polls + 1,
                               !.failing = n, !.run = checks[n].id]
    BY <1>3 DEF PollRed
  <2>2. card'.at = "judge" /\ card'.sha = card.sha
    BY <1>t, <2>1 DEF Card
  <2>3. Reserve' = Reserve
    BY <1>3, <2>2, SameReserve DEF PollRed, World
  <2>4. card.at = "ci" /\ card.polls < card.last
    BY <1>3 DEF PollRed, At, VisitInv, CardOK
  <2> QED
    BY <1>b, <1>t, <2>2, <2>3, <2>4 DEF Left, At, RoundsKept
<1>4. CASE Unreadable \/ PollGreen \/ Classified \/ RerunUnheard
  <2>1. card.at \in Polling
    BY <1>4 DEF Unreadable, PollGreen, Classified, RerunUnheard, At, Polling
  <2>2. \E to \in To : Leave("CI_CHECKS", to)
    BY <1>4, Classifies DEF Unreadable, PollGreen, Classified, RerunUnheard, Park, To
  <2> QED
    BY <1>1, <2>1, <2>2
<1>5. CASE Rerun
  <2>1. card'.at = "posted" /\ card'.sha = card.sha /\ reruns' = reruns /\ card.at = "judge"
    BY <1>t, <1>5 DEF Rerun, Card, At
  <2>2. Reserve' = Reserve /\ MayRerun'
    BY <1>5, <2>1, SameReserve DEF Rerun, Eligible, MayRerun
  <2> QED
    BY <1>b, <2>1, <2>2 DEF Left, At, RoundsKept
<1>6. CASE Record
  <2>0. card.at = "posted" /\ ToCi(card.polls) /\ card.failing \in Check /\ card.run # 0
    BY <1>6 DEF Record, At, VisitInv, CardOK
  <2>1. Left = CiPolls + 4
    BY <1>b, <2>0 DEF Left, At, Reserve, VisitInv, RoundsKept
  <2>2. card'.sha = card.sha
    BY <1>t, <2>0, ToCiMoves
  <2>3. <<card.sha, card.failing, card.run>> \in reruns'
    BY <1>6 DEF Record
  <2>4. Reserve' = 0
    BY <2>2, <2>3 DEF Reserve, MayRerun
  <2>5. /\ card'.at = "ci" /\ card'.polls = card.polls
        /\ card'.last = IF CiPolls > card.polls THEN CiPolls ELSE card.polls + 1
    BY <1>t, <2>0 DEF ToCi, Card
  <2>6. card'.last - card'.polls \in 1..CiPolls
    BY <1>b, <1>t, <2>5
  <2>7. RoundsKept'
    BY <1>b, <1>t, <2>5, <2>6 DEF RoundsKept, At
  <2>8. Left' = (card'.last - card'.polls) + 2
    BY <2>4, <2>5, <2>6 DEF Left, At
  <2> QED
    BY <1>b, <2>1, <2>6, <2>7, <2>8
<1> QED
  BY <1>2, <1>3, <1>4, <1>5, <1>6 DEF CiStep

LEMMA OutsideWaits ==
  ASSUME RoundsKept, Outside
  PROVE  RoundsKept' /\ Left' = Left
<1>1. card' = card /\ reruns' = reruns
  BY DEF Outside, JobEnds, VerdictFiled, VerdictLost, Starts, Ends
<1> QED
  BY <1>1 DEF RoundsKept, Left, At, MayRerun, Reserve

LEMMA NextShortens ==
  ASSUME IInv, RoundsKept, Next
  PROVE  RoundsKept' /\ (~At("away") => Left' < Left \/ (Outside /\ Left' = Left))
<1>0. VisitInv /\ card \in Card
  BY DEF IInv, Types, VisitInv, CardOK
<1>1. CASE GateStep
  <2>1. CASE At("away")
    <3>1. Park("GATE")
      BY <1>1, <2>1 DEF GateStep, Passed, Failed, NotOnFile, AwaitFresh, Refused, WorkerDied,
                        Recover, At
    <3>2. card'.at = "away"
      BY <1>0, <3>1, LeaveMoves DEF Park, To
    <3> QED
      BY <2>1, <3>2 DEF RoundsKept, At
  <2> QED
    BY <1>0, <1>1, <2>1, GateShortens
<1>2. CASE CiStep
  BY <1>0, <1>2, CiShortens
<1>3. CASE Visit
  <2>1. At("away")
    BY <1>3 DEF Visit, Commit, Deposit, Recheck
  <2>2. CASE Commit
    BY <1>0, <2>1, <2>2, VisitMoves DEF VisitInv, RoundsKept, At
  <2>3. CASE Deposit
    BY <1>0, <2>3, VisitMoves DEF Deposit, VisitInv, RoundsKept, At
  <2>4. CASE Recheck
    BY <1>0, <2>4, RoundBegins, Bounds DEF Recheck, VisitInv
  <2> QED
    BY <1>3, <2>1, <2>2, <2>3, <2>4 DEF Visit
<1>4. CASE Outside
  BY <1>4, OutsideWaits
<1>5. CASE Crash
  <2>1. card'.at = "away"
    BY <1>0, <1>5, CrashMoves DEF VisitInv
  <2> QED
    BY <1>0, <2>1, LeftOut DEF RoundsKept, At
<1> QED
  BY <1>1, <1>2, <1>3, <1>4, <1>5 DEF Next

LEMMA RoundsHold == Spec => []RoundsKept
<1>1. Init => RoundsKept
  BY DEF Init, RoundsKept, At
<1>2. IInv /\ RoundsKept /\ [Next]_vars => RoundsKept'
  <2>1. CASE UNCHANGED vars
    BY <2>1 DEF vars, RoundsKept, At, MayRerun
  <2> QED
    BY <2>1, NextShortens
<1> QED
  BY <1>1, <1>2, SpecIInv, PTL DEF Spec

\* A visit to GATE or CI_CHECKS has a last step: it never has more than the
\* polls of its config before it, twice those of CI_CHECKS for the one re-run ...
THEOREM VisitsAreBounded ==
  Spec => [](Left \in 0..(LatePolls + DiedPolls + 2 * CiPolls + 9))
<1>1. IInv /\ RoundsKept => Left \in 0..(LatePolls + DiedPolls + 2 * CiPolls + 9)
  <2> SUFFICES ASSUME IInv, RoundsKept
               PROVE  Left \in 0..(LatePolls + DiedPolls + 2 * CiPolls + 9)
    OBVIOUS
  <2>1. VisitInv /\ card.polls \in Nat /\ card.last \in Nat
    BY DEF IInv, Types, VisitInv, CardOK, Card
  <2>2. Left \in Nat
    BY <2>1, LeftNat
  <2>3. CASE At("ci")
    BY <2>1, <2>2, <2>3, ReserveNat, Bounds DEF Left, At, RoundsKept
  <2>4. CASE At("judge") \/ At("posted")
    BY <2>4, ReserveNat, Bounds DEF Left, At
  <2>5. CASE At("late") \/ At("recover")
    BY <2>1, <2>2, <2>5, Bounds DEF Left, At
  <2>6. Left <= LatePolls + DiedPolls + 2 * CiPolls + 9
    BY <2>3, <2>4, <2>5, Bounds DEF Left
  <2> QED
    BY <2>2, <2>6, Bounds
<1> QED
  BY <1>1, SpecIInv, RoundsHold, PTL

\* ... and every step of the worker, its death included, leaves fewer, whatever
\* the bench and GitHub do meanwhile: they can put nothing off.
THEOREM VisitsShorten ==
  Spec => [][~At("away") => Left' < Left \/ (Outside /\ Left' = Left)]_vars
<1>1. IInv /\ RoundsKept /\ [Next]_vars
      => [~At("away") => Left' < Left \/ (Outside /\ Left' = Left)]_vars
  BY NextShortens
<1> QED
  BY <1>1, SpecIInv, RoundsHold, PTL DEF Spec
=============================================================================
