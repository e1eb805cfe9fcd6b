------------------------- MODULE ReportTriage_proofs -------------------------
(***************************************************************************)
(* Proofs about ReportTriage, for every number of reports, faults, crashes *)
(* and hand-run commands: type correctness, and that outside the gaps two  *)
(* runners never hold one report, judge or file it twice, or attempt it    *)
(* without end.                                                            *)
(***************************************************************************)
EXTENDS ReportTriage, FiniteSetTheorems, SequenceTheorems, TLAPS

-----------------------------------------------------------------------------
(* Lists: a runner's todo holds no report twice.                           *)

Elems(s) == {s[i] : i \in DOMAIN s}
Distinct(s) == \A i, j \in DOMAIN s : s[i] = s[j] => i = j

LEMMA EmptyList == Elems(<<>>) = {} /\ Distinct(<<>>) /\ <<>> \in Seq(Report)
BY DEF Elems, Distinct

\* Going on to the next report takes the first off the list.
LEMMA TailOfList ==
  ASSUME NEW s \in Seq(Report), s # <<>>, Distinct(s)
  PROVE  /\ Tail(s) \in Seq(Report) /\ Distinct(Tail(s))
         /\ Head(s) \in Elems(s) /\ Elems(Tail(s)) = Elems(s) \ {Head(s)}
         /\ Elems(s) \subseteq Report
<1>1. Len(s) \in Nat \ {0} /\ DOMAIN s = 1..Len(s) /\ Head(s) = s[1]
  BY EmptySeq
<1>2. /\ Tail(s) \in Seq(Report) /\ DOMAIN Tail(s) = 1..(Len(s) - 1)
      /\ \A i \in 1..(Len(s) - 1) : Tail(s)[i] = s[i + 1]
  BY <1>1
<1>3. Distinct(Tail(s))
  <2> SUFFICES ASSUME NEW i \in DOMAIN Tail(s), NEW j \in DOMAIN Tail(s), Tail(s)[i] = Tail(s)[j]
               PROVE  i = j
    BY DEF Distinct
  <2>1. /\ i \in Nat /\ j \in Nat /\ i + 1 \in DOMAIN s /\ j + 1 \in DOMAIN s
        /\ s[i + 1] = s[j + 1]
    BY <1>1, <1>2
  <2>2. i + 1 = j + 1
    BY <2>1 DEF Distinct
  <2> QED
    BY <2>1, <2>2
<1>4. Elems(Tail(s)) \subseteq Elems(s) \ {Head(s)}
  <2> SUFFICES ASSUME NEW i \in DOMAIN Tail(s)
               PROVE  Tail(s)[i] \in Elems(s) /\ Tail(s)[i] # Head(s)
    BY DEF Elems
  <2>1. i + 1 \in DOMAIN s /\ i + 1 # 1 /\ 1 \in DOMAIN s /\ Tail(s)[i] = s[i + 1]
    BY <1>1, <1>2
  <2> QED
    BY <1>1, <2>1 DEF Elems, Distinct
<1>5. Elems(s) \ {Head(s)} \subseteq Elems(Tail(s))
  <2> SUFFICES ASSUME NEW i \in DOMAIN s, s[i] # Head(s) PROVE s[i] \in Elems(Tail(s))
    BY DEF Elems
  <2>1. i - 1 \in DOMAIN Tail(s) /\ (i - 1) + 1 = i
    BY <1>1, <1>2
  <2>2. Tail(s)[i - 1] = s[i]
    BY <1>2, <2>1
  <2> QED
    BY <2>1, <2>2 DEF Elems
<1>6. 1 \in DOMAIN s /\ Elems(s) \subseteq Report
  BY <1>1 DEF Elems
<1> QED
  BY <1>1, <1>2, <1>3, <1>4, <1>5, <1>6 DEF Elems

\* The list a loop begins with holds each report of the set it reads once.
LEMMA ListOfSet ==
  ASSUME NEW S \in SUBSET Report, NEW s \in SetToSeqs(S)
  PROVE  s \in Seq(Report) /\ Distinct(s) /\ Elems(s) \subseteq S
<1>1. IsFiniteSet(S) /\ Cardinality(S) \in Nat
  BY ReportAssumption, FS_Subset, FS_CardinalityType
<1>2. /\ s \in [1..Cardinality(S) -> S]
      /\ \A i, j \in 1..Cardinality(S) : i # j => s[i] # s[j]
  BY DEF SetToSeqs
<1>3. s \in Seq(S)
  BY <1>1, <1>2, SeqDef
<1>4. s \in Seq(Report)
  BY <1>1, <1>2, SeqDef
<1> QED
  BY <1>2, <1>4 DEF Distinct, Elems

-----------------------------------------------------------------------------
(* The journal.                                                            *)

Entry == [events : SUBSET Event, verdicts : Nat, errors : Nat, last : Handled \cup {"none"}]

(* A verdict that is counted is among the events. *)
JournalOK ==
  /\ journal \in [Report -> Entry]
  /\ \A r \in Report : ~Has(r, Handled) => journal[r].verdicts = 0

\* What an event appended to a report's journal does to what is read back.
LEMMA LogReads ==
  ASSUME JournalOK, NEW r \in Report, NEW e \in Event, Log(r, e)
  PROVE  /\ JournalOK'
         /\ \A q \in Report \ {r} : journal'[q] = journal[q]
         /\ journal'[r] = Written(journal[r], e)
<1>1. journal[r] \in Entry /\ "confirmed" \in Event
  BY DEF JournalOK, Event
<1>2. Written(journal[r], e) \in Entry
  BY <1>1 DEF Written, Unwritten, Entry
<1>3. /\ journal'[r] = Written(journal[r], e)
      /\ \A q \in Report \ {r} : journal'[q] = journal[q]
      /\ journal' \in [Report -> Entry]
  BY <1>2 DEF Log, JournalOK
<1>4. ~Has(r, Handled)' => journal'[r].verdicts = 0
  <2> SUFFICES ASSUME ~Has(r, Handled)' PROVE journal'[r].verdicts = 0
    OBVIOUS
  <2>1. CASE e = "confirmed"
    BY <1>3, <2>1 DEF Written, Unwritten
  <2>2. CASE e # "confirmed"
    <3>1. journal'[r].events = journal[r].events \cup {e}
      BY <1>3, <2>2 DEF Written
    <3>2. e \notin Handled /\ ~Has(r, Handled)
      BY <3>1 DEF Has
    <3>3. e \notin Verdict /\ journal[r].verdicts = 0
      BY <3>2 DEF JournalOK, Handled
    <3> QED
      BY <1>3, <2>2, <3>3 DEF Written
  <2> QED
    BY <2>1, <2>2
<1>5. \A q \in Report \ {r} : ~Has(q, Handled)' => journal'[q].verdicts = 0
  BY <1>3 DEF JournalOK, Has
<1> QED
  BY <1>3, <1>4, <1>5 DEF JournalOK

-----------------------------------------------------------------------------
(* A runner's step and list.                                               *)

RunOK ==
  /\ run \in [Runner -> [step : Step, todo : Seq(Report)]]
  /\ \A p \in Runner : /\ Distinct(run[p].todo)
                       /\ run[p].step \in Held => run[p].todo # <<>>

List(p) == Elems(run[p].todo)
HeadOf(p) == Head(run[p].todo)

Others(p) == \A q \in Runner \ {p} : run'[q] = run[q]

LEMMA GoesRun ==
  ASSUME RunOK, NEW p \in Runner, NEW step \in Step, Goes(p, step),
         step \in Held => run[p].todo # <<>>
  PROVE  /\ RunOK' /\ Others(p)
         /\ run'[p].step = step /\ run'[p].todo = run[p].todo
BY DEF RunOK, Goes, Others

LEMMA ContinuesRun ==
  ASSUME RunOK, NEW p \in Runner, NEW step \in Step \ Held, Continues(p, step),
         run[p].todo # <<>>
  PROVE  /\ RunOK' /\ Others(p)
         /\ run'[p].step = step /\ List(p)' = List(p) \ {HeadOf(p)}
<1> DEFINE t == Tail(run[p].todo)
<1>1. run[p].todo \in Seq(Report) /\ Distinct(run[p].todo)
  BY DEF RunOK
<1>2. t \in Seq(Report) /\ Distinct(t) /\ Elems(t) = List(p) \ {HeadOf(p)}
  BY <1>1, TailOfList DEF List, HeadOf
<1> HIDE DEF t
<1>3. run' = [run EXCEPT ![p] = [step |-> step, todo |-> t]]
  BY DEF Continues, t, RunOK
<1>4. run'[p].step = step /\ run'[p].todo = t /\ Others(p)
  BY <1>3 DEF RunOK, Others
<1>5. RunOK'
  BY <1>2, <1>3 DEF RunOK
<1> QED
  BY <1>2, <1>4, <1>5 DEF List

LEMMA StartsRun ==
  ASSUME RunOK, NEW p \in Runner, NEW step \in Step \ Held,
         NEW s \in Seq(Report), Distinct(s), Starts(p, step, s)
  PROVE  /\ RunOK' /\ Others(p)
         /\ run'[p].step = step /\ List(p)' = Elems(s)
<1>1. run' = [run EXCEPT ![p] = [step |-> step, todo |-> s]]
  BY DEF Starts
<1>2. run'[p].step = step /\ run'[p].todo = s /\ Others(p)
  BY <1>1 DEF RunOK, Others
<1>3. RunOK'
  BY <1>1 DEF RunOK
<1> QED
  BY <1>2, <1>3 DEF List

\* The report a runner works on is the first of its list.
LEMMA WithinHead ==
  ASSUME RunOK, NEW p \in Runner, NEW steps, NEW r, Within(p, steps, r)
  PROVE  /\ run[p].step \in steps /\ run[p].todo # <<>>
         /\ r = HeadOf(p) /\ r \in List(p) /\ List(p) \subseteq Report
<1>1. run[p].todo \in Seq(Report) /\ Distinct(run[p].todo) /\ run[p].todo # <<>>
  BY DEF RunOK, Within
<1> QED
  BY <1>1, TailOfList DEF Within, HeadOf, List

-----------------------------------------------------------------------------
(* Type correctness.                                                       *)

RestOK ==
  /\ place \in [Report -> {"queue", "pending", "progress", "archive"}]
  /\ raw \in [Report -> BOOLEAN]
  /\ answer \in [Report -> {"none", "confirm", "discard"}]
  /\ owner \in [Report -> Runner \cup {"none", "dead"}]
  /\ past \in [Report -> SUBSET Stamp] /\ cooling \in [Report -> BOOLEAN]
  /\ cards \in [Report -> Nat] /\ lost \in [Report -> Nat]
  /\ stale \in [Report -> BOOLEAN] /\ raced \in [Report -> BOOLEAN]
  /\ faults \in 0..MaxTroubles /\ crashes \in 0..MaxCrashes
  /\ commands \in 0..MaxCommands

TypeInv == RestOK /\ JournalOK /\ RunOK

LEMMA TypeInvTypeOK == TypeInv => TypeOK
BY DEF TypeInv, RestOK, JournalOK, Entry, RunOK, TypeOK

LEMMA InitTypeInv == Init => TypeInv
<1> SUFFICES ASSUME Init PROVE TypeInv
  OBVIOUS
<1>1. RunOK
  BY EmptyList DEF Init, RunOK, Idle, Step, Held, Making, Signed
<1>2. JournalOK
  BY DEF Init, JournalOK, Entry, Unwritten, Has
<1> QED
  BY <1>1, <1>2, ReportAssumption DEF Init, TypeInv, RestOK, Runner

\* The bound counts nothing below zero.
LEMMA FaultOK ==
  ASSUME RestOK, Fault \/ UNCHANGED faults
  PROVE  faults' \in 0..MaxTroubles
<1> DEFINE n == Cardinality({r \in Report : raced[r]})
<1>1. n \in Nat
  BY ReportAssumption, FS_Subset, FS_CardinalityType
<1>2. Spare <=> faults + crashes + n < MaxTroubles
  BY DEF Spare
<1> HIDE DEF n
<1> QED
  BY <1>1, <1>2, ReportAssumption DEF RestOK, Fault

\* The reports list a stage reads, as a list.
LEMMA BeginRun ==
  ASSUME RunOK, NEW p \in Runner, NEW step \in Step \ Held, NEW S \in SUBSET Report,
         \E todo \in SetToSeqs(S) : Starts(p, step, todo)
  PROVE  /\ RunOK' /\ Others(p)
         /\ run'[p].step = step /\ List(p)' \subseteq S
<1>1. PICK todo \in SetToSeqs(S) : Starts(p, step, todo)
  OBVIOUS
<1> QED
  BY <1>1, ListOfSet, StartsRun

-----------------------------------------------------------------------------
(* How a step moves the runner that takes it.                              *)

\* The steps of stage 3 on one report, in the order they are taken.
Seeks(p, r) ==
  \/ ReadClaim(p, r) \/ StatClaim(p, r) \/ ReturnClaim(p, r) \/ ForgetClaim(p, r)
  \/ Pick(p, r) \/ ClaimFails(p, r) \/ Unclaimable(p, r)
Works(p, r) ==
  \/ StampClaim(p, r) \/ SignClaim(p, r) \/ EnterClaim(p, r)
  \/ Judge(p, r) \/ Hold(p, r) \/ LeakHold(p, r) \/ Duplicate(p, r) \/ FileCard(p, r)
  \/ ArchiveReport(p, r) \/ RecordTriaged(p, r)
  \/ CountError(p, r) \/ HoldMechanical(p, r) \/ Release(p, r)

LEMMA TriageSteps ==
  ASSUME NEW p \in Runner, Triage(p)
  PROVE  \/ ListConfirmed(p) \/ EndCycle(p)
         \/ \E r \in Report : Seeks(p, r) \/ Claim(p, r) \/ Works(p, r) \/ Unsign(p, r)
BY DEF Triage, Seeks, Works

\* The stages before the third, and what maintainers and time do.
Stage12 == Intake \/ ConfirmScan
Around == \E r \in Report : Reply(r) \/ RetryHeld(r) \/ Age(r) \/ Cool(r)

LEMMA NextCases ==
  ASSUME [Next]_vars
  PROVE  \/ Stage12 \/ StartTriage \/ StartByHand \/ Around
         \/ UNCHANGED vars
         \/ \E p \in Runner : Triage(p) \/ Crash(p)
BY DEF Next, Daemon, Stage12, Around, Runner

Steps12 == {"render", "create", "instruct", "pend", "announce", "reply", "discard"}

\* Stages 1 and 2 move the daemon only, and among their own steps.
LEMMA Run12 ==
  ASSUME RunOK, Stage12
  PROVE  RunOK' /\ Others("daemon") /\ run'["daemon"].step \in Steps12
<1> USE DEF Steps12
<1>0. "daemon" \in Runner /\ Steps12 \subseteq Step \ Held
  BY DEF Runner, Step, Held, Making, Signed
<1>1. ASSUME NEW step \in Steps12, Goes("daemon", step)
      PROVE  RunOK' /\ Others("daemon") /\ run'["daemon"].step \in Steps12
  BY <1>0, <1>1, GoesRun
<1>2. ASSUME NEW step \in Steps12, Continues("daemon", step), run["daemon"].todo # <<>>
      PROVE  RunOK' /\ Others("daemon") /\ run'["daemon"].step \in Steps12
  BY <1>0, <1>2, ContinuesRun
<1>3. ASSUME NEW step \in Steps12, NEW S \in SUBSET Report,
             \E todo \in SetToSeqs(S) : Starts("daemon", step, todo)
      PROVE  RunOK' /\ Others("daemon") /\ run'["daemon"].step \in Steps12
  BY <1>0, <1>3, BeginRun
<1>4. CASE StartIntake
  <2>1. CASE \E todo \in SetToSeqs(InQueue) : Starts("daemon", "render", todo)
    BY <1>3, <2>1 DEF InQueue
  <2>2. CASE Starts("daemon", "render", <<>>)
    BY <1>0, <2>2, StartsRun, EmptyList
  <2> QED
    BY <1>4, <2>1, <2>2 DEF StartIntake, RepoRefused
<1>5. CASE StartConfirm
  BY <1>3, <1>5 DEF StartConfirm
<1>6. ASSUME NEW r \in Report,
             \/ Render(r) \/ Create(r) \/ Instruct(r) \/ Pend(r) \/ Announce(r)
             \/ ReadReply(r) \/ Discard(r)
      PROVE  RunOK' /\ Others("daemon") /\ run'["daemon"].step \in Steps12
  <2>1. /\ run["daemon"].todo # <<>>
        /\ \E step \in Steps12 : Goes("daemon", step) \/ Continues("daemon", step)
    BY <1>6 DEF Render, Occurrence, NoHit, Unrendered, Create, Instruct, Pend, Announce,
                ReadReply, Discard, Working, Within
  <2> QED
    BY <2>1, <1>1, <1>2
<1> QED
  BY <1>4, <1>5, <1>6 DEF Stage12, Intake, ConfirmScan

\* A runner that seeks a report stays with it short of a claim, or leaves it.
LEMMA RunSeeks ==
  ASSUME RunOK, NEW p \in Runner, NEW r \in Report, Seeks(p, r)
  PROVE  /\ RunOK' /\ Others(p) /\ r = HeadOf(p)
         /\ run[p].step \notin Held /\ run'[p].step \notin Held
         /\ \/ run'[p].todo = run[p].todo
            \/ run'[p].step \in {"sweep", "pick"} /\ List(p)' \subseteq List(p)
<1> DEFINE From == {"sweep", "stat", "return", "forget", "pick", "claim", "lost", "gone"}
<1>1. From \subseteq Step \ Held
  BY DEF Step, Held, Making, Signed, Undoing
<1>2. Within(p, From, r)
  BY DEF Seeks, ReadClaim, StatClaim, ReturnClaim, ForgetClaim, Pick, ClaimFails, Unclaimable,
         Working, Within
<1>3. \/ \E step \in From : Goes(p, step)
      \/ \E step \in {"sweep", "pick"} : Continues(p, step)
  BY DEF Seeks, ReadClaim, StatClaim, ReturnClaim, ForgetClaim, Pick, ClaimFails, Unclaimable
<1>4. run[p].step \notin Held /\ run[p].todo # <<>> /\ r = HeadOf(p)
  BY <1>1, <1>2, WithinHead
<1> HIDE DEF From
<1>5. ASSUME NEW step \in From, Goes(p, step)
      PROVE  RunOK' /\ Others(p) /\ run'[p].step = step /\ run'[p].todo = run[p].todo
  BY <1>1, <1>4, <1>5, GoesRun
<1>6. ASSUME NEW step \in {"sweep", "pick"}, Continues(p, step)
      PROVE  RunOK' /\ Others(p) /\ run'[p].step = step /\ List(p)' \subseteq List(p)
  BY <1>1, <1>4, <1>6, ContinuesRun DEF From
<1>7. {"sweep", "pick"} \subseteq From
  BY DEF From
<1> QED
  BY <1>1, <1>3, <1>4, <1>5, <1>6, <1>7

\* A claim, and every step of it, keeps the report at the head of the list.
LEMMA RunWorks ==
  ASSUME RunOK, NEW p \in Runner, NEW r \in Report, Claim(p, r) \/ Works(p, r)
  PROVE  /\ RunOK' /\ Others(p)
         /\ run[p].todo # <<>> /\ r = HeadOf(p) /\ run'[p].todo = run[p].todo
         /\ Works(p, r) => Holds(p, r)
         /\ Claim(p, r) => run[p].step = "claim"
         /\ run'[p].step \in Held \cup {"unsign"}
<1> USE DEF Held, Making, Signed
<1>1. /\ run[p].todo # <<>> /\ r = HeadOf(p)
      /\ Works(p, r) => run[p].step \in Held
      /\ Claim(p, r) => run[p].step = "claim"
  BY DEF Works, Claim, StampClaim, SignClaim, EnterClaim, Judge, Hold, LeakHold, Duplicate,
         FileCard, ArchiveReport, RecordTriaged, CountError, HoldMechanical, Release,
         Working, Within, HeadOf
<1>2. \E step \in Held \cup {"unsign"} : Goes(p, step)
  BY DEF Works, Claim, StampClaim, SignClaim, EnterClaim, Judge, Hold, LeakHold, Duplicate,
         FileCard, ArchiveReport, RecordTriaged, CountError, HoldMechanical, Release,
         SuggestionEnds, BugEnds, Reviewed, LeakCheck
<1>3. Held \cup {"unsign"} \subseteq Step
  BY DEF Step, Undoing
<1> HIDE DEF Held, Making, Signed
<1>4. PICK step \in Held \cup {"unsign"} : Goes(p, step)
  BY <1>2
<1>5. RunOK' /\ Others(p) /\ run'[p].step = step /\ run'[p].todo = run[p].todo
  BY <1>1, <1>3, <1>4, GoesRun
<1> QED
  BY <1>1, <1>5 DEF Holds, Within, HeadOf

\* The ends of a list and of a claim, and a death.
LEMMA RunRests ==
  ASSUME RunOK, NEW p \in Runner,
         \/ EndCycle(p) \/ Crash(p)
         \/ ListConfirmed(p) \/ Sweep(p)
         \/ \E r \in Report : Unsign(p, r)
  PROVE  /\ RunOK' /\ Others(p) /\ run'[p].step \in {"idle", "pick", "sweep"}
         /\ run'[p].step = "pick" =>
              List(p)' \subseteq List(p) \cup {r \in Report : Unhandled(r)}
<1>0. {"idle", "pick", "sweep"} \subseteq Step \ Held
  BY DEF Step, Held, Making, Signed
<1>1. CASE EndCycle(p) \/ Crash(p)
  <2>1. Starts(p, "idle", <<>>)
    BY <1>1 DEF EndCycle, Crash
  <2> QED
    BY <1>0, <2>1, StartsRun, EmptyList
<1>2. CASE ListConfirmed(p)
  <2>1. \E todo \in SetToSeqs({r \in Report : Unhandled(r)}) : Starts(p, "pick", todo)
    BY <1>2 DEF ListConfirmed
  <2>2. {r \in Report : Unhandled(r)} \in SUBSET Report
    OBVIOUS
  <2>3. /\ RunOK' /\ Others(p) /\ run'[p].step = "pick"
        /\ List(p)' \subseteq {r \in Report : Unhandled(r)}
    BY <1>0, <2>1, <2>2, BeginRun
  <2> QED
    BY <2>3
<1>3. CASE Sweep(p)
  <2>1. \E todo \in SetToSeqs({r \in Report : place[r] = "progress"}) : Starts(p, "sweep", todo)
    BY <1>3 DEF Sweep
  <2>2. {r \in Report : place[r] = "progress"} \in SUBSET Report
    OBVIOUS
  <2>3. RunOK' /\ Others(p) /\ run'[p].step = "sweep"
    BY <1>0, <2>1, <2>2, BeginRun
  <2> QED
    BY <2>3
<1>4. ASSUME NEW r \in Report, Unsign(p, r)
      PROVE  /\ RunOK' /\ Others(p) /\ run'[p].step = "pick"
             /\ List(p)' \subseteq List(p)
  <2>1. run[p].todo # <<>> /\ Continues(p, "pick")
    BY <1>4 DEF Unsign, Working, Within
  <2> QED
    BY <1>0, <2>1, ContinuesRun
<1> QED
  BY <1>1, <1>2, <1>3, <1>4

LEMMA NextRunOK ==
  ASSUME RunOK, [Next]_vars
  PROVE  RunOK'
<1>1. CASE Around \/ UNCHANGED vars
  BY <1>1 DEF Around, Reply, RetryHeld, Age, Cool, vars, RunOK
<1>2. CASE StartTriage \/ StartByHand
  BY <1>2, RunRests DEF StartTriage, StartByHand, Runner
<1>3. ASSUME NEW p \in Runner, Triage(p) PROVE RunOK'
  BY <1>3, TriageSteps, RunSeeks, RunWorks, RunRests
<1> QED
  BY <1>1, <1>2, <1>3, Run12, RunRests, NextCases

\* Every step appends at most one event to one report's journal.
LEMMA OneLog ==
  ASSUME [Next]_vars
  PROVE  UNCHANGED journal \/ \E r \in Report, e \in Event : Log(r, e)
<1> USE DEF Event, Handled, Verdict
<1>1. CASE Stage12
  BY <1>1 DEF Stage12, Intake, StartIntake, Render, Occurrence, NoHit, Unrendered, Create,
              Instruct, Pend, Announce, ConfirmScan, StartConfirm, ReadReply, Discard
<1>2. CASE StartTriage \/ StartByHand \/ Around \/ UNCHANGED vars
  BY <1>2 DEF StartTriage, StartByHand, Around, Reply, RetryHeld, Age, Cool, vars
<1>3. ASSUME NEW p \in Runner, Triage(p)
      PROVE  UNCHANGED journal \/ \E r \in Report, e \in Event : Log(r, e)
  BY <1>3 DEF Triage, ListConfirmed, EndCycle, ReadClaim, StatClaim, ReturnClaim, ForgetClaim,
              Pick, Claim, ClaimFails, Unclaimable, StampClaim, SignClaim, EnterClaim,
              Judge, Hold, LeakHold, Duplicate, FileCard, ArchiveReport, RecordTriaged,
              CountError, HoldMechanical, Release, Unsign
<1>4. ASSUME NEW p \in Runner, Crash(p) PROVE UNCHANGED journal
  BY <1>4 DEF Crash
<1> QED
  BY <1>1, <1>2, <1>3, <1>4, NextCases

LEMMA NextRestOK ==
  ASSUME RestOK, [Next]_vars
  PROVE  RestOK'
<1> USE FaultOK, ReportAssumption DEF RestOK, Reports, Bounds, SameButRun
<1>1. CASE Intake
  <2>1. CASE StartIntake
    BY <2>1 DEF StartIntake, RepoRefused
  <2>2. ASSUME NEW r \in Report, Render(r) PROVE RestOK'
    BY <2>2 DEF Render, Occurrence, NoHit, Unrendered
  <2>3. ASSUME NEW r \in Report, Create(r) PROVE RestOK'
    BY <2>3 DEF Create
  <2>4. ASSUME NEW r \in Report, Instruct(r) \/ Pend(r) \/ Announce(r) PROVE RestOK'
    BY <2>4 DEF Instruct, Pend, Announce
  <2> QED
    BY <1>1, <2>1, <2>2, <2>3, <2>4 DEF Intake
<1>2. CASE ConfirmScan
  <2>1. CASE StartConfirm
    BY <2>1 DEF StartConfirm
  <2>2. ASSUME NEW r \in Report, ReadReply(r) PROVE RestOK'
    BY <2>2 DEF ReadReply
  <2>3. ASSUME NEW r \in Report, Discard(r) PROVE RestOK'
    BY <2>3 DEF Discard
  <2> QED
    BY <1>2, <2>1, <2>2, <2>3 DEF ConfirmScan
<1>3. CASE StartTriage \/ StartByHand
  BY <1>3 DEF StartTriage, StartByHand
<1>4. ASSUME NEW p \in Runner, NEW r \in Report, NEW steps, Gap(p, steps, r) \/ UNCHANGED raced
      PROVE  raced' \in [Report -> BOOLEAN]
  BY <1>4 DEF Gap
<1>5. ASSUME NEW p \in Runner, Triage(p) PROVE RestOK'
  <2>1. CASE EndCycle(p) \/ ListConfirmed(p)
    BY <2>1 DEF EndCycle, ListConfirmed
  <2>2. ASSUME NEW r \in Report, ReadClaim(p, r) \/ StatClaim(p, r) PROVE RestOK'
    BY <1>4, <2>2 DEF ReadClaim, StatClaim
  <2>3. ASSUME NEW r \in Report, ReturnClaim(p, r) \/ ForgetClaim(p, r) \/ Unsign(p, r)
        PROVE  RestOK'
    BY <2>3 DEF ReturnClaim, ForgetClaim, Unsign, Forget
  <2>4. ASSUME NEW r \in Report, Pick(p, r) \/ ClaimFails(p, r) \/ Unclaimable(p, r)
        PROVE  RestOK'
    BY <2>4 DEF Pick, ClaimFails, Unclaimable
  <2>5. ASSUME NEW r \in Report, Claim(p, r) PROVE RestOK'
    BY <1>4, <2>5 DEF Claim
  <2>6. ASSUME NEW r \in Report, StampClaim(p, r) \/ SignClaim(p, r) \/ EnterClaim(p, r)
        PROVE  RestOK'
    BY <2>6 DEF StampClaim, SignClaim, EnterClaim, Stamped
  <2>7. ASSUME NEW r \in Report, Judge(p, r) \/ Hold(p, r) \/ LeakHold(p, r) \/ Duplicate(p, r)
        PROVE  RestOK'
    BY <2>7 DEF Judge, Hold, LeakHold, Duplicate
  <2>8. ASSUME NEW r \in Report, FileCard(p, r) PROVE RestOK'
    BY <2>8 DEF FileCard
  <2>9. ASSUME NEW r \in Report,
               ArchiveReport(p, r) \/ RecordTriaged(p, r) \/ HoldMechanical(p, r) \/ Release(p, r)
        PROVE  RestOK'
    BY <2>9 DEF ArchiveReport, RecordTriaged, HoldMechanical, Release
  <2>10. ASSUME NEW r \in Report, CountError(p, r) PROVE RestOK'
    BY <2>10 DEF CountError
  <2> QED
    BY <1>5, <2>1, <2>2, <2>3, <2>4, <2>5, <2>6, <2>7, <2>8, <2>9, <2>10 DEF Triage
<1>6. CASE Around
  <2>1. ASSUME NEW r \in Report, Reply(r) PROVE RestOK'
    BY <2>1 DEF Reply
  <2>2. ASSUME NEW r \in Report, RetryHeld(r) PROVE RestOK'
    BY <2>2 DEF RetryHeld
  <2>3. ASSUME NEW r \in Report, Age(r) PROVE RestOK'
    BY <2>3 DEF Age
  <2>4. ASSUME NEW r \in Report, Cool(r) PROVE RestOK'
    BY <2>4 DEF Cool
  <2> QED
    BY <1>6, <2>1, <2>2, <2>3, <2>4 DEF Around
<1>7. ASSUME NEW p \in Runner, Crash(p) PROVE RestOK'
  BY <1>7 DEF Crash
<1>8. CASE UNCHANGED vars
  BY <1>8 DEF vars
<1> QED
  BY <1>1, <1>2, <1>3, <1>5, <1>6, <1>7, <1>8, NextCases DEF Stage12

LEMMA NextTypeInv == TypeInv /\ [Next]_vars => TypeInv'
<1> SUFFICES ASSUME TypeInv, [Next]_vars PROVE TypeInv'
  OBVIOUS
<1>1. JournalOK'
  <2>1. CASE UNCHANGED journal
    BY <2>1 DEF TypeInv, JournalOK, Has
  <2>2. ASSUME NEW r \in Report, NEW e \in Event, Log(r, e) PROVE JournalOK'
    BY <2>2, LogReads DEF TypeInv
  <2> QED
    BY <2>1, <2>2, OneLog
<1> QED
  BY <1>1, NextRestOK, NextRunOK DEF TypeInv

(***************************************************************************)
(* Every variable of the report path keeps its type, and a runner inside   *)
(* stage 3 always has a report in hand.                                    *)
(***************************************************************************)
THEOREM TypeCorrect == Spec => []TypeOK
<1>1. Spec => []TypeInv
  BY InitTypeInv, NextTypeInv, PTL DEF Spec
<1> QED
  BY <1>1, TypeInvTypeOK, PTL

-----------------------------------------------------------------------------
(* Custody: what a runner's list says of the reports on it.                *)

Confirmed(r) == Has(r, {"confirmed"})
Waiting == {"render", "create", "instruct", "pend", "announce"}
Asked == {"reply", "discard"}
Swept == {"sweep", "stat", "return", "forget"}
Chosen == Held \cup {"pick", "claim", "lost", "gone", "unsign"}

(* A report on stage 1's list is in the queue until it is moved, one on      *)
(* stage 2's is not confirmed yet, one that stage 3 claims or works on is.  *)
Custody ==
  /\ run["hand"].step \notin Steps12
  /\ run["daemon"].step \in Waiting =>
       \A r \in List("daemon") :
         place[r] = "queue" \/ (run["daemon"].step = "announce" /\ r = HeadOf("daemon"))
  /\ run["daemon"].step \in Asked => \A r \in List("daemon") : ~Confirmed(r)
  /\ \A p \in Runner : run[p].step \in Chosen => \A r \in List(p) : Confirmed(r)
  /\ \A r \in Report : Has(r, Handled) => Confirmed(r)

LEMMA Stages ==
  /\ Steps12 = Waiting \cup Asked
  /\ Steps12 \cap (Swept \cup Chosen \cup {"idle"}) = {} /\ Waiting \cap Asked = {}
  /\ Chosen \cap (Swept \cup {"idle"}) = {}
  /\ (Undoing \cup {"stat"}) \subseteq Swept \cup {"unsign"}
  /\ Held \cap (Swept \cup {"unsign", "pick", "claim", "lost", "gone", "idle"}) = {}
BY DEF Steps12, Waiting, Asked, Swept, Chosen, Held, Making, Signed, Undoing

Acts(p, r) == Seeks(p, r) \/ Claim(p, r) \/ Works(p, r) \/ Unsign(p, r)

\* A step of stage 3 on one report leaves every other report alone.
LEMMA Elsewhere ==
  ASSUME TypeInv, NEW p \in Runner, NEW r \in Report, Acts(p, r), NEW q \in Report \ {r}
  PROVE  /\ place'[q] = place[q] /\ owner'[q] = owner[q] /\ past'[q] = past[q]
         /\ raced'[q] = raced[q] /\ stale'[q] = stale[q] /\ journal'[q] = journal[q]
         /\ cards'[q] = cards[q] /\ lost'[q] = lost[q] /\ crashes' = crashes
<1> USE DEF TypeInv, RestOK, JournalOK, Reports, SameButRun, Bounds, Gap, Forget, Stamped, Log
<1>1. CASE Seeks(p, r)
  BY <1>1 DEF Seeks, ReadClaim, StatClaim, ReturnClaim, ForgetClaim, Pick, ClaimFails, Unclaimable
<1>2. CASE Claim(p, r) \/ Unsign(p, r)
  BY <1>2 DEF Claim, Unsign
<1>3. CASE Works(p, r)
  BY <1>3 DEF Works, StampClaim, SignClaim, EnterClaim, Judge, Hold, LeakHold, Duplicate,
         FileCard, ArchiveReport, RecordTriaged, CountError, HoldMechanical, Release
<1> QED
  BY <1>1, <1>2, <1>3 DEF Acts

\* Where a step of stage 3 takes its runner.
LEMMA RunActs ==
  ASSUME RunOK, NEW p \in Runner, NEW r \in Report, Acts(p, r)
  PROVE  /\ RunOK' /\ Others(p) /\ run[p].todo # <<>> /\ r = HeadOf(p) /\ r \in List(p)
         /\ \/ run'[p].todo = run[p].todo
            \/ run'[p].step \in {"sweep", "pick"}
         /\ List(p)' \subseteq List(p)
         /\ \/ run[p].step \in Swept /\ run'[p].step \in Swept
            \/ run[p].step \in Chosen /\ run'[p].step \in Chosen
<1>1. CASE Seeks(p, r)
  <2>1. RunOK' /\ Others(p) /\ r = HeadOf(p) /\ run[p].todo # <<>>
    BY <1>1, RunSeeks DEF Seeks, ReadClaim, StatClaim, ReturnClaim, ForgetClaim, Pick,
         ClaimFails, Unclaimable, Working, Within
  <2>2. \/ run[p].step \in Swept /\ run'[p].step \in Swept
        \/ run[p].step \in Chosen /\ run'[p].step \in Chosen
    <3> USE DEF Swept, Chosen
    <3>1. \/ /\ run[p].step \in Swept
             /\ \/ \E step \in Swept : Goes(p, step)
                \/ Continues(p, "sweep")
          \/ /\ run[p].step \in {"pick", "claim", "lost", "gone"}
             /\ \/ \E step \in {"claim", "lost", "gone"} : Goes(p, step)
                \/ Continues(p, "pick")
      BY <1>1 DEF Seeks, ReadClaim, StatClaim, ReturnClaim, ForgetClaim, Pick, ClaimFails,
                  Unclaimable, Working, Within
    <3> QED
      BY <3>1 DEF Goes, Continues, RunOK
  <2>3. r \in List(p)
    BY <2>1, TailOfList DEF RunOK, List, HeadOf
  <2> QED
    BY <1>1, <2>1, <2>2, <2>3, RunSeeks DEF List
<1>2. CASE Claim(p, r) \/ Works(p, r)
  <2>1. r \in List(p)
    BY <1>2, RunWorks, TailOfList DEF RunOK, List, HeadOf
  <2> QED
    BY <1>2, <2>1, RunWorks DEF Chosen, Holds, Within, List
<1>3. CASE Unsign(p, r)
  <2>1. run[p].todo # <<>> /\ r = HeadOf(p) /\ Continues(p, "pick") /\ run[p].step = "unsign"
    BY <1>3 DEF Unsign, Working, Within, HeadOf
  <2>2. "pick" \in Step \ Held
    BY DEF Step, Held, Making, Signed
  <2>3. RunOK' /\ Others(p) /\ run'[p].step = "pick" /\ List(p)' = List(p) \ {r}
    BY <2>1, <2>2, ContinuesRun
  <2>4. r \in List(p)
    BY <2>1, TailOfList DEF RunOK, List, HeadOf
  <2> QED
    BY <2>1, <2>3, <2>4 DEF Chosen
<1> QED
  BY <1>1, <1>2, <1>3 DEF Acts

\* What a step of stage 3 appends, and from where: never a confirmation.
LEMMA ActsLog ==
  ASSUME NEW p \in Runner, NEW r \in Report, Acts(p, r)
  PROVE  \/ UNCHANGED journal
         \/ run[p].step \in Chosen /\ \E e \in Event \ {"confirmed"} : Log(r, e)
<1> USE DEF Event, Handled, Verdict, Chosen, Held, Making, Signed
<1>1. CASE Seeks(p, r)
  BY <1>1 DEF Seeks, ReadClaim, StatClaim, ReturnClaim, ForgetClaim, Pick, ClaimFails,
              Unclaimable, Working, Within
<1>2. CASE Claim(p, r) \/ Unsign(p, r)
  BY <1>2 DEF Claim, Unsign
<1>3. CASE Works(p, r)
  BY <1>3 DEF Works, StampClaim, SignClaim, EnterClaim, Judge, Hold, LeakHold, Duplicate,
         FileCard, ArchiveReport, RecordTriaged, CountError, HoldMechanical, Release,
         Working, Within
<1> QED
  BY <1>1, <1>2, <1>3 DEF Acts

\* Once confirmed, always; and only a confirmation confirms.
LEMMA LogConfirms ==
  ASSUME JournalOK, NEW r \in Report, NEW e \in Event, Log(r, e), NEW q \in Report
  PROVE  /\ Confirmed(q) => Confirmed(q)'
         /\ Confirmed(q)' => Confirmed(q) \/ (q = r /\ e = "confirmed")
         /\ Has(q, Handled)' => Has(q, Handled) \/ (q = r /\ e \in Handled)
<1>1. CASE q # r
  BY <1>1, LogReads DEF Confirmed, Has
<1>2. CASE q = r /\ e = "confirmed"
  <2>1. journal'[r].events = {"confirmed"}
    BY <1>2, LogReads DEF Written, Unwritten
  <2> QED
    BY <1>2, <2>1 DEF Confirmed, Has, Handled, Verdict
<1>3. CASE q = r /\ e # "confirmed"
  <2>1. journal'[r] = Written(journal[r], e)
    BY LogReads
  <2>2. journal'[r].events = journal[r].events \cup {e}
    BY <1>3, <2>1 DEF Written
  <2> QED
    BY <1>3, <2>2 DEF Confirmed, Has
<1> QED
  BY <1>1, <1>2, <1>3

LEMMA ConfirmedStays ==
  ASSUME TypeInv, [Next]_vars, NEW q \in Report, Confirmed(q)
  PROVE  Confirmed(q)'
<1>1. CASE UNCHANGED journal
  BY <1>1 DEF Confirmed, Has
<1> QED
  BY <1>1, OneLog, LogConfirms DEF TypeInv

LEMMA InitCustody == Init => Custody
<1> SUFFICES ASSUME Init PROVE Custody
  OBVIOUS
<1>1. \A p \in Runner : run[p].step = "idle"
  BY DEF Init, Idle
<1>2. \A r \in Report : ~Has(r, Handled)
  BY DEF Init, Unwritten, Has
<1> QED
  BY <1>1, <1>2, Stages DEF Custody, Runner

\* The daemon's own stages keep what its list says.
LEMMA Custody12 ==
  ASSUME TypeInv, Custody, Stage12
  PROVE  Custody'
<1>0. RunOK /\ JournalOK /\ [Next]_vars /\ "daemon" \in Runner /\ "hand" \in Runner
  BY DEF TypeInv, Stage12, Next, Daemon, Runner
<1>1. RunOK' /\ Others("daemon") /\ run'["daemon"].step \in Steps12
  BY <1>0, Run12
<1>2. run'["hand"] = run["hand"]
  BY <1>0, <1>1 DEF Others
<1>3. \A p \in Runner : run'[p].step \in Chosen => \A r \in List(p)' : Confirmed(r)'
  <2> SUFFICES ASSUME NEW p \in Runner, run'[p].step \in Chosen, NEW r \in List(p)'
               PROVE  Confirmed(r)'
    OBVIOUS
  <2>1. p = "hand"
    BY <1>1, Stages DEF Runner
  <2>2. run[p].step \in Chosen /\ r \in List(p)
    BY <1>2, <2>1 DEF List
  <2>3. r \in Report
    BY <1>0, <2>1, <2>2 DEF RunOK, List, Elems
  <2> QED
    BY <1>0, <2>2, <2>3, ConfirmedStays DEF Custody
<1>4. ASSUME NEW r \in Report, NEW e \in Event \ Handled, Log(r, e), NEW q \in Report,
             Has(q, Handled)'
      PROVE  Confirmed(q)'
  BY <1>0, <1>4, LogConfirms DEF Custody
<1>5. \A q \in Report : Has(q, Handled)' => Confirmed(q)'
  <2>1. UNCHANGED journal \/ \E r \in Report, e \in Event \ Handled : Log(r, e)
    BY DEF Stage12, Intake, StartIntake, Render, Occurrence, NoHit, Unrendered, Create,
           Instruct, Pend, Announce, ConfirmScan, StartConfirm, ReadReply, Discard,
           Event, Handled, Verdict
  <2> QED
    BY <1>4, <2>1 DEF Custody, Has, Confirmed
<1>6. /\ run'["daemon"].step \in Waiting =>
           \A r \in List("daemon")' :
             place'[r] = "queue" \/ (run'["daemon"].step = "announce" /\ r = HeadOf("daemon")')
      /\ run'["daemon"].step \in Asked => \A r \in List("daemon")' : ~Confirmed(r)'
  <2> DEFINE D == "daemon"
  <2>0. Steps12 \subseteq Step \ Held
    BY DEF Steps12, Step, Held, Making, Signed
  <2>1. CASE StartIntake
    <3>1. UNCHANGED place /\ run'[D].step = "render" /\ List(D)' \subseteq InQueue
      <4>1. CASE \E todo \in SetToSeqs(InQueue) : Starts(D, "render", todo)
        BY <1>0, <2>0, <2>1, <4>1, BeginRun DEF StartIntake, Reports, InQueue, Steps12
      <4>2. CASE Starts(D, "render", <<>>)
        BY <1>0, <2>0, <2>1, <4>2, StartsRun, EmptyList DEF StartIntake, Reports, Steps12
      <4> QED
        BY <2>1, <4>1, <4>2 DEF StartIntake, RepoRefused
    <3> QED
      BY <3>1 DEF InQueue, Waiting, Asked
  <2>2. ASSUME NEW r \in Report, Render(r) \/ Create(r) \/ Instruct(r) \/ Pend(r) \/ Announce(r)
        PROVE  /\ run'[D].step \in Waiting
               /\ \A q \in List(D)' : \/ place'[q] = "queue"
                                      \/ run'[D].step = "announce" /\ q = HeadOf(D)'
    <3>1. run[D].step \in Waiting /\ run[D].todo # <<>> /\ r = HeadOf(D)
      BY <2>2 DEF Render, Create, Instruct, Pend, Announce, Working, Within, Waiting, HeadOf
    <3>2. \A q \in List(D) : place[q] = "queue" \/ q = r
      BY <3>1 DEF Custody
    <3>3. List(D) \subseteq Report /\ r \in List(D)
      BY <1>0, <3>1, TailOfList DEF RunOK, List, HeadOf
    <3>4. CASE Pend(r)
      <4>1. run'[D].step = "announce" /\ run'[D].todo = run[D].todo
        BY <1>0, <2>0, <3>1, <3>4, GoesRun DEF Pend, Steps12
      <4>2. \A q \in Report \ {r} : place'[q] = place[q]
        BY <3>4 DEF Pend, TypeInv, RestOK
      <4> QED
        BY <3>1, <3>2, <3>3, <4>1, <4>2 DEF List, HeadOf, Waiting
    <3>5. CASE Continues(D, "render")
      <4>1. run'[D].step = "render" /\ List(D)' = List(D) \ {r}
        BY <1>0, <2>0, <3>1, <3>5, ContinuesRun DEF Steps12
      <4>2. \A q \in Report \ {r} : place'[q] = place[q]
        BY <2>2 DEF Render, Occurrence, NoHit, Unrendered, Create, Instruct, Pend, Announce,
                    Reports, TypeInv, RestOK
      <4> QED
        BY <3>2, <3>3, <4>1, <4>2 DEF Waiting
    <3>6. CASE ~Pend(r) /\ \E step \in {"create", "instruct", "pend"} : Goes(D, step)
      <4>1. run'[D].step \in {"create", "instruct", "pend"} /\ run'[D].todo = run[D].todo
        BY <1>0, <2>0, <3>1, <3>6, GoesRun DEF Steps12
      <4>2. run[D].step # "announce" /\ UNCHANGED place
        <5>1. ~Announce(r) /\ ~Occurrence(r)
          <6>1. run'[D].step # "render"
            BY <4>1
          <6>2. ~Continues(D, "render")
            BY <1>0, <2>0, <3>1, <6>1, ContinuesRun DEF Steps12
          <6> QED
            BY <6>2 DEF Announce, Occurrence
        <5> QED
          BY <2>2, <3>6, <5>1 DEF Render, NoHit, Unrendered, Create, Instruct, Reports,
                                  Working, Within
      <4>3. \A q \in List(D) : place[q] = "queue"
        BY <3>1, <4>2 DEF Custody
      <4> QED
        BY <4>1, <4>2, <4>3 DEF List, Waiting
    <3> QED
      BY <2>2, <3>4, <3>5, <3>6 DEF Render, Occurrence, NoHit, Unrendered, Create, Instruct, Announce
  <2>3. CASE StartConfirm
    <3>1. {r \in Report : PendingIntake(r)} \in SUBSET Report
      OBVIOUS
    <3>2. run'[D].step = "reply" /\ List(D)' \subseteq {r \in Report : PendingIntake(r)}
      BY <1>0, <2>0, <2>3, <3>1, BeginRun DEF StartConfirm, Steps12
    <3>3. UNCHANGED journal
      BY <2>3 DEF StartConfirm
    <3> QED
      BY <3>2, <3>3 DEF PendingIntake, Confirmed, Has, Waiting, Asked
  <2>4. ASSUME NEW r \in Report, ReadReply(r) \/ Discard(r)
        PROVE  run'[D].step \in Asked /\ \A q \in List(D)' : ~Confirmed(q)'
    <3>1. run[D].step \in Asked /\ run[D].todo # <<>> /\ r = HeadOf(D)
      BY <2>4 DEF ReadReply, Discard, Working, Within, Asked, HeadOf
    <3>2. \A q \in List(D) : ~Confirmed(q)
      BY <3>1 DEF Custody
    <3>3. List(D) \subseteq Report /\ r \in List(D)
      BY <1>0, <3>1, TailOfList DEF RunOK, List, HeadOf
    <3>4. CASE Continues(D, "reply")
      <4>1. run'[D].step = "reply" /\ List(D)' = List(D) \ {r}
        BY <1>0, <2>0, <3>1, <3>4, ContinuesRun DEF Steps12
      <4>2. UNCHANGED journal \/ \E e \in Event : Log(r, e)
        BY <2>4 DEF ReadReply, Discard, Event
      <4>3. \A q \in List(D) \ {r} : ~Confirmed(q)'
        <5>1. CASE UNCHANGED journal
          BY <3>2, <5>1 DEF Confirmed, Has
        <5> QED
          BY <1>0, <3>2, <3>3, <4>2, <5>1, LogConfirms
      <4> QED
        BY <4>1, <4>3 DEF Asked
    <3>5. CASE Goes(D, "discard") /\ UNCHANGED journal
      <4>1. run'[D].step = "discard" /\ run'[D].todo = run[D].todo
        BY <1>0, <2>0, <3>1, <3>5, GoesRun DEF Steps12
      <4> QED
        BY <3>2, <3>5, <4>1 DEF List, Confirmed, Has, Asked
    <3> QED
      BY <2>4, <3>4, <3>5 DEF ReadReply, Discard
  <2> QED
    BY <2>1, <2>2, <2>3, <2>4, Stages DEF Stage12, Intake, ConfirmScan
<1> QED
  BY <1>2, <1>3, <1>5, <1>6 DEF Custody

LEMMA NextCustody == TypeInv /\ Custody /\ [Next]_vars => Custody'
<1> SUFFICES ASSUME TypeInv, Custody, [Next]_vars PROVE Custody'
  OBVIOUS
<1>0. RunOK /\ JournalOK /\ RestOK /\ "daemon" \in Runner /\ "hand" \in Runner
  BY DEF TypeInv, Runner
<1>1. ASSUME NEW p \in Runner, RunOK', Others(p),
             run'[p].step \notin Steps12,
             run'[p].step \in Chosen =>
               \A q \in List(p)' : Confirmed(q) \/ Unhandled(q),
             \A q \in Report : /\ place[q] = "queue" => place'[q] = "queue"
                               /\ Confirmed(q)' => Confirmed(q)
                               /\ Has(q, Handled)' => Confirmed(q)
      PROVE  Custody'
  <2>1. \A q \in Report : Confirmed(q) => Confirmed(q)'
    BY ConfirmedStays
  <2>2. \A q \in Report : Unhandled(q) => Confirmed(q)
    BY DEF Unhandled, Confirmed
  <2>3. ASSUME NEW q \in Runner PROVE List(q)' \subseteq Report
    BY <1>1 DEF RunOK, List, Elems
  <2>4. ASSUME NEW q \in Runner, run'[q].step \in Chosen, NEW r \in List(q)' PROVE Confirmed(r)'
    <3>1. r \in Report
      BY <2>3, <2>4
    <3>2. CASE q = p
      BY <1>1, <2>1, <2>2, <2>4, <3>1, <3>2
    <3>3. CASE q # p
      BY <1>1, <2>1, <2>4, <3>1, <3>3 DEF Custody, Others, List
    <3> QED
      BY <3>2, <3>3
  <2>5. run'["hand"].step \notin Steps12
    BY <1>1 DEF Custody, Others, Runner
  <2>6. ASSUME run'["daemon"].step \in Steps12
        PROVE  run'["daemon"] = run["daemon"]
    BY <1>0, <1>1, <2>6 DEF Others
  <2>7. /\ run'["daemon"].step \in Waiting =>
             \A r \in List("daemon")' :
               place'[r] = "queue" \/ (run'["daemon"].step = "announce" /\ r = HeadOf("daemon")')
        /\ run'["daemon"].step \in Asked => \A r \in List("daemon")' : ~Confirmed(r)'
    <3>1. CASE run'["daemon"].step \in Steps12
      <4>1. List("daemon")' = List("daemon") /\ HeadOf("daemon")' = HeadOf("daemon")
        BY <2>6, <3>1 DEF List, HeadOf
      <4> QED
        BY <1>0, <1>1, <2>3, <2>6, <3>1, <4>1 DEF Custody
    <3>2. CASE run'["daemon"].step \notin Steps12
      BY <3>2, Stages
    <3> QED
      BY <3>1, <3>2
  <2> QED
    BY <1>1, <2>1, <2>4, <2>5, <2>7 DEF Custody
<1>2. ASSUME UNCHANGED journal, NEW q \in Report
      PROVE  (Confirmed(q)' => Confirmed(q)) /\ (Has(q, Handled)' => Confirmed(q))
  BY <1>2 DEF Custody, Confirmed, Has
<1>3. CASE StartTriage \/ StartByHand
  <2>1. PICK p \in Runner : Sweep(p)
    BY <1>0, <1>3 DEF StartTriage, StartByHand
  <2>2. {r \in Report : place[r] = "progress"} \in SUBSET Report /\ "sweep" \in Step \ Held
    BY DEF Step, Held, Making, Signed
  <2>3. RunOK' /\ Others(p) /\ run'[p].step = "sweep"
    BY <1>0, <2>1, <2>2, BeginRun DEF Sweep
  <2>4. UNCHANGED <<place, journal>>
    BY <1>3 DEF StartTriage, StartByHand, Reports
  <2>5. "sweep" \notin Chosen /\ "sweep" \notin Steps12
    BY Stages DEF Swept
  <2> QED
    BY <1>1, <1>2, <2>3, <2>4, <2>5
<1>4. ASSUME NEW p \in Runner, NEW r \in Report, Acts(p, r) PROVE Custody'
  <2>1. /\ RunOK' /\ Others(p) /\ r \in List(p)
        /\ List(p)' \subseteq List(p)
        /\ \/ run[p].step \in Swept /\ run'[p].step \in Swept
           \/ run[p].step \in Chosen /\ run'[p].step \in Chosen
    BY <1>0, <1>4, RunActs
  <2>2. run'[p].step \notin Steps12 /\ (run'[p].step \in Chosen => run[p].step \in Chosen)
    BY <2>1, Stages
  <2>3. run'[p].step \in Chosen => \A q \in List(p)' : Confirmed(q)
    BY <2>1, <2>2 DEF Custody
  <2>4. ASSUME NEW q \in Report, place[q] = "queue" PROVE place'[q] = "queue"
    <3>1. CASE q # r
      BY <1>4, <2>4, <3>1, Elsewhere
    <3>2. CASE q = r
      <4>1. place[r] = "queue"
        BY <2>4, <3>2
      <4>2. UNCHANGED place
        BY <1>0, <1>4, <4>1
           DEF Acts, Seeks, ReadClaim, StatClaim, ReturnClaim, ForgetClaim, Pick, ClaimFails,
               Unclaimable, Claim, Unsign, Works, StampClaim, SignClaim, EnterClaim, Judge, Hold,
               LeakHold, Duplicate, FileCard, ArchiveReport, RecordTriaged, CountError,
               HoldMechanical, Release, Reports, SameButRun
      <4> QED
        BY <2>4, <4>2
    <3> QED
      BY <3>1, <3>2
  <2>5. ASSUME NEW q \in Report
        PROVE  (Confirmed(q)' => Confirmed(q)) /\ (Has(q, Handled)' => Confirmed(q))
    <3>1. CASE UNCHANGED journal
      BY <1>2, <3>1
    <3>2. CASE run[p].step \in Chosen /\ \E e \in Event \ {"confirmed"} : Log(r, e)
      <4>1. Confirmed(r)
        BY <2>1, <3>2 DEF Custody
      <4> QED
        BY <1>0, <3>2, <4>1, LogConfirms DEF Custody
    <3> QED
      BY <1>4, <3>1, <3>2, ActsLog
  <2> QED
    BY <1>1, <2>1, <2>2, <2>3, <2>4, <2>5
<1>5. ASSUME NEW p \in Runner, ListConfirmed(p) \/ EndCycle(p) \/ Crash(p) PROVE Custody'
  <2>1. RunOK' /\ Others(p) /\ run'[p].step \in {"idle", "pick"}
    <3>1. CASE ListConfirmed(p)
      <4>1. {r \in Report : Unhandled(r)} \in SUBSET Report /\ "pick" \in Step \ Held
        BY DEF Step, Held, Making, Signed
      <4> QED
        BY <1>0, <3>1, <4>1, BeginRun DEF ListConfirmed
    <3>2. CASE EndCycle(p) \/ Crash(p)
      <4>1. "idle" \in Step \ Held /\ Starts(p, "idle", <<>>)
        BY <3>2 DEF Step, Held, Making, Signed, EndCycle, Crash
      <4> QED
        BY <1>0, <4>1, StartsRun, EmptyList
    <3> QED
      BY <1>5, <3>1, <3>2
  <2>2. UNCHANGED <<place, journal>>
    BY <1>5 DEF ListConfirmed, EndCycle, Crash, Reports
  <2>3. run'[p].step = "pick" => \A q \in List(p)' : Unhandled(q)
    <3>1. CASE ListConfirmed(p)
      <4>1. {r \in Report : Unhandled(r)} \in SUBSET Report /\ "pick" \in Step \ Held
        BY DEF Step, Held, Making, Signed
      <4>2. List(p)' \subseteq {r \in Report : Unhandled(r)}
        BY <1>0, <3>1, <4>1, BeginRun DEF ListConfirmed
      <4> QED
        BY <4>2
    <3>2. CASE EndCycle(p) \/ Crash(p)
      BY <1>0, <3>2 DEF EndCycle, Crash, Starts, RunOK
    <3> QED
      BY <1>5, <3>1, <3>2
  <2>4. {"idle", "pick"} \cap Steps12 = {} /\ "idle" \notin Chosen
    BY Stages DEF Chosen
  <2>5. \A q \in Report : /\ place[q] = "queue" => place'[q] = "queue"
                          /\ Confirmed(q)' => Confirmed(q)
                          /\ Has(q, Handled)' => Confirmed(q)
    BY <1>2, <2>2
  <2>6. run'[p].step \notin Steps12
    BY <2>1, <2>4
  <2>7. run'[p].step \in Chosen => \A q \in List(p)' : Confirmed(q) \/ Unhandled(q)
    BY <2>1, <2>3, <2>4
  <2> QED
    BY <1>1, <2>1, <2>5, <2>6, <2>7
<1>6. CASE Around \/ UNCHANGED vars
  <2>1. UNCHANGED <<run, place>>
    BY <1>6 DEF Around, Reply, RetryHeld, Age, Cool, Reports, vars
  <2>2. \A q \in Report : /\ Confirmed(q)' <=> Confirmed(q)
                          /\ Has(q, Handled)' => Confirmed(q)
    <3>1. UNCHANGED journal \/ \E r \in Report : Has(r, Handled) /\ Log(r, "confirmed")
      BY <1>6 DEF Around, Reply, RetryHeld, Retryable, Age, Cool, vars
    <3>2. CASE UNCHANGED journal
      BY <3>2 DEF Custody, Confirmed, Has
    <3>3. ASSUME NEW r \in Report, Has(r, Handled), Log(r, "confirmed")
          PROVE  \A q \in Report : /\ Confirmed(q)' <=> Confirmed(q)
                                   /\ Has(q, Handled)' => Confirmed(q)
      <4>1. Confirmed(r) /\ "confirmed" \in Event
        BY <3>3 DEF Custody, Event
      <4>2. "confirmed" \notin Handled
        BY DEF Handled, Verdict
      <4> QED
        BY <1>0, <3>3, <4>1, <4>2, LogConfirms DEF Custody
    <3> QED
      BY <3>1, <3>2, <3>3
  <2>3. \A p \in Runner : List(p)' = List(p) /\ HeadOf(p)' = HeadOf(p) /\ List(p) \subseteq Report
    BY <1>0, <2>1 DEF List, HeadOf, RunOK, Elems
  <2> QED
    BY <1>0, <2>1, <2>2, <2>3 DEF Custody
<1>7. ASSUME NEW p \in Runner, Triage(p) PROVE Custody'
  BY <1>4, <1>5, <1>7, TriageSteps DEF Acts
<1> QED
  BY <1>3, <1>5, <1>6, <1>7, Custody12, NextCases

-----------------------------------------------------------------------------
(* One runner holds a report.                                              *)

(* A runner that holds a report: its file is where that step needs it, its  *)
(* claim is stamped before it is signed, and signed by it after.  No other  *)
(* runner holds it, is undoing a claim of it, or is about to judge it by an *)
(* old mtime.                                                               *)
HoldsWell(p, r) ==
  /\ IF run[p].step = "record" THEN place[r] = "archive"
     ELSE \/ place[r] = "progress"
          \/ place[r] = "archive" /\ run[p].step = "release"
  /\ run[p].step \in Signed => owner[r] = p
  /\ run[p].step = "sign" => "file" \notin past[r]

Apart(p, q, r) ==
  /\ ~Holds(q, r) /\ ~Within(q, Undoing, r)
  /\ Within(q, {"stat"}, r) => run[p].step = "stamp" \/ "file" \notin past[r]

Leased(p, r) ==
  Holds(p, r) => HoldsWell(p, r) /\ \A q \in Runner \ {p} : Apart(p, q, r)

Lease == \A r \in Report : ~raced[r] => \A p \in Runner : Leased(p, r)

LEMMA InitLease == Init => Lease
BY DEF Init, Idle, Lease, Leased, Holds, Within

\* What a lease rests on is kept by a step that touches none of it.
LEMMA LeaseKept ==
  ASSUME NEW r \in Report, NEW p \in Runner, Leased(p, r),
         run'[p] = run[p],
         \A q \in Runner \ {p} :
           \A steps \in {Held, Undoing, {"stat"}} : Within(q, steps, r)' => Within(q, steps, r),
         Holds(p, r) => /\ place'[r] = place[r]
                        /\ owner[r] = p => owner'[r] = p
                        /\ "file" \notin past[r] => "file" \notin past'[r]
  PROVE  Leased(p, r)'
<1> SUFFICES ASSUME Holds(p, r)' PROVE HoldsWell(p, r)' /\ \A q \in Runner \ {p} : Apart(p, q, r)'
  BY DEF Leased
<1>1. Holds(p, r)
  BY DEF Holds, Within
<1>2. HoldsWell(p, r) /\ \A q \in Runner \ {p} : Apart(p, q, r)
  BY <1>1 DEF Leased
<1> QED
  BY <1>1, <1>2 DEF HoldsWell, Apart, Holds

\* Nothing but a claim and its own steps disturb a runner's lease.
LEMMA LeaseOthers ==
  ASSUME TypeInv, Lease, NEW a \in Runner, NEW r \in Report, Acts(a, r),
         ~raced[r], ~raced'[r], NEW p \in Runner \ {a}
  PROVE  Leased(p, r)'
<1> SUFFICES ASSUME Holds(p, r)' PROVE Leased(p, r)'
  BY DEF Leased
<1>0. RunOK /\ RestOK
  BY DEF TypeInv
<1>1. RunOK' /\ run'[p] = run[p]
  BY <1>0, RunActs DEF Others
<1>2. Holds(p, r) /\ HoldsWell(p, r) /\ Apart(p, a, r)
  BY <1>1 DEF Holds, Within, Lease, Leased
<1>3. ASSUME UNCHANGED <<place, owner, past>>,
             \A steps \in {Held, Undoing, {"stat"}} : Within(a, steps, r)' => Within(a, steps, r)
      PROVE  Leased(p, r)'
  <2>1. Leased(p, r) /\ \A q \in Runner \ {p} : q = a
    BY DEF Lease, Runner
  <2> QED
    BY <1>1, <1>3, <2>1, LeaseKept
<1>4. CASE ReadClaim(a, r)
  <2>1. UNCHANGED <<place, owner, past>>
    BY <1>4 DEF ReadClaim, SameButRun
  <2>2. CASE owner[r] = "none" /\ Goes(a, "stat")
    <3>1. run[p].step = "stamp" \/ "file" \notin past[r]
      BY <1>2, <2>2 DEF Holds, Within, HoldsWell, Held, Making, Runner
    <3>2. run'[a].step = "stat"
      BY <1>0, <2>2 DEF Goes, RunOK
    <3>3. ~Holds(a, r)' /\ ~Within(a, Undoing, r)'
      BY <3>2 DEF Holds, Within, Held, Making, Signed, Undoing
    <3>4. \A q \in Runner \ {p} : q = a
      BY DEF Runner
    <3> QED
      BY <1>1, <1>2, <2>1, <3>1, <3>3, <3>4 DEF Leased, HoldsWell, Apart
  <2>3. CASE OwnerGone(r) /\ Gap(a, Making, r)
    <3>1. Within(p, Making, r)
      BY <1>2, <2>3 DEF OwnerGone, HoldsWell, Holds, Within, Held, Runner
    <3>2. raced'[r] = TRUE
      BY <1>0, <2>3, <3>1 DEF Gap, RestOK
    <3> QED
      BY <3>2
  <2>4. CASE Continues(a, "sweep")
    <3>1. run'[a].step = "sweep"
      BY <1>0, <2>4 DEF Continues, RunOK
    <3> QED
      BY <1>3, <2>1, <3>1 DEF Within, Held, Making, Signed, Undoing
  <2> QED
    BY <1>4, <2>2, <2>3, <2>4 DEF ReadClaim
<1>5. CASE StatClaim(a, r)
  <2>1. UNCHANGED <<place, owner, past>>
    BY <1>5 DEF StatClaim, SameButRun
  <2>2. CASE FileOld(r) /\ Gap(a, {"stamp"}, r)
    <3>1. Within(p, {"stamp"}, r)
      BY <1>2, <1>5, <2>2 DEF StatClaim, Working, FileOld, Apart, Holds, Within
    <3>2. raced'[r] = TRUE
      BY <1>0, <2>2, <3>1 DEF Gap, RestOK
    <3> QED
      BY <3>2
  <2>3. CASE Continues(a, "sweep")
    <3>1. run'[a].step = "sweep"
      BY <1>0, <2>3 DEF Continues, RunOK
    <3> QED
      BY <1>3, <2>1, <3>1 DEF Within, Held, Making, Signed, Undoing
  <2> QED
    BY <1>5, <2>2, <2>3 DEF StatClaim
<1>6. CASE Pick(a, r) \/ ClaimFails(a, r) \/ Unclaimable(a, r)
  <2>1. UNCHANGED <<place, owner, past>>
    BY <1>6 DEF Pick, ClaimFails, Unclaimable, Reports
  <2>2. run'[a].step \in {"pick", "claim", "lost", "gone"}
    BY <1>0, <1>6 DEF Pick, ClaimFails, Unclaimable, Goes, Continues, RunOK
  <2> QED
    BY <1>3, <2>1, <2>2 DEF Within, Held, Making, Signed, Undoing
<1>7. ~Claim(a, r)
  BY <1>2 DEF Claim, HoldsWell
<1>8. ~ReturnClaim(a, r) /\ ~ForgetClaim(a, r) /\ ~Unsign(a, r)
  BY <1>2 DEF ReturnClaim, ForgetClaim, Unsign, Working, Within, Apart, Undoing
<1>9. ~Works(a, r)
  BY <1>0, <1>2, RunWorks DEF Apart
<1> QED
  BY <1>4, <1>5, <1>6, <1>7, <1>8, <1>9 DEF Acts, Seeks

\* A runner's claim, and every step of its own, keeps its lease.
LEMMA LeaseOwn ==
  ASSUME TypeInv, Lease, NEW a \in Runner, NEW r \in Report, Acts(a, r),
         ~raced[r], ~raced'[r]
  PROVE  Leased(a, r)'
<1> SUFFICES ASSUME Holds(a, r)'
             PROVE  HoldsWell(a, r)' /\ \A q \in Runner \ {a} : Apart(a, q, r)'
  BY DEF Leased
<1>0. RunOK /\ RestOK
  BY DEF TypeInv
<1>1. \A q \in Runner \ {a} : run'[q] = run[q]
  BY <1>0, RunActs DEF Others
<1>2. run'[a].step \in Held
  BY DEF Holds, Within
<1>3. CASE Claim(a, r)
  <2>1. place'[r] = "progress" /\ run'[a].step = "stamp"
    BY <1>0, <1>3 DEF Claim, Goes, RunOK, RestOK
  <2>2. ASSUME NEW q \in Runner \ {a} PROVE Apart(a, q, r)'
    <3>1. ~Holds(q, r)
      BY <1>3 DEF Lease, Leased, HoldsWell, Claim
    <3>2. ~Within(q, Undoing, r)
      BY <1>0, <1>3 DEF Claim, Gap, RestOK
    <3> QED
      BY <1>1, <2>1, <3>1, <3>2 DEF Apart, Holds, Within
  <2> QED
    BY <2>1, <2>2 DEF HoldsWell, Signed
<1>4. CASE Works(a, r)
  <2>1. Holds(a, r) /\ HoldsWell(a, r) /\ \A q \in Runner \ {a} : Apart(a, q, r)
    BY <1>0, <1>4, RunWorks DEF Lease, Leased
  <2>2. ASSUME HoldsWell(a, r)', "file" \notin past'[r]
        PROVE  HoldsWell(a, r)' /\ \A q \in Runner \ {a} : Apart(a, q, r)'
    BY <1>1, <2>1, <2>2 DEF Apart, Holds, Within
  <2>3. CASE StampClaim(a, r)
    <3>1. Stamped(r, "file") /\ place' = place /\ run'[a].step = "sign"
      BY <1>0, <2>3 DEF StampClaim, Goes, RunOK, RestOK
    <3>2. "file" \notin past'[r]
      BY <1>0, <3>1 DEF Stamped, RestOK
    <3>3. place[r] = "progress"
      BY <2>1, <2>3 DEF HoldsWell, StampClaim, Working, Within
    <3> QED
      BY <2>2, <3>1, <3>2, <3>3 DEF HoldsWell, Signed
  <2>4. CASE SignClaim(a, r)
    <3>1. /\ place' = place /\ run'[a].step = "enter" /\ owner'[r] = a
          /\ past'[r] \subseteq past[r]
      BY <1>0, <2>4 DEF SignClaim, Stamped, Goes, RunOK, RestOK
    <3>2. place[r] = "progress" /\ "file" \notin past[r]
      BY <2>1, <2>4 DEF HoldsWell, SignClaim, Working, Within
    <3> QED
      BY <2>2, <3>1, <3>2 DEF HoldsWell
  <2>5. CASE ~StampClaim(a, r) /\ ~SignClaim(a, r)
    <3>1. run[a].step \in Signed /\ run[a].step # "release"
      BY <1>0, <1>2, <1>4, <2>5
         DEF Works, EnterClaim, Judge, Hold, LeakHold, Duplicate, FileCard, ArchiveReport,
             RecordTriaged, CountError, HoldMechanical, Release, Working, Within, Signed,
             Goes, RunOK, Held, Making
    <3>2. owner' = owner /\ past'[r] \subseteq past[r]
      BY <1>0, <1>4, <2>5
         DEF Works, EnterClaim, Judge, Hold, LeakHold, Duplicate, FileCard, ArchiveReport,
             RecordTriaged, CountError, HoldMechanical, Release, Reports, Stamped, RestOK
    <3>3. owner[r] = a
      BY <2>1, <3>1 DEF HoldsWell
    <3>4. run'[a].step \notin Making
      BY <1>0, <1>4, <2>5
         DEF Works, EnterClaim, Judge, Hold, LeakHold, Duplicate, FileCard, ArchiveReport,
             RecordTriaged, CountError, HoldMechanical, Release, Goes, RunOK, Making,
             SuggestionEnds, BugEnds, Reviewed, LeakCheck
    <3>5. IF run'[a].step = "record" THEN place'[r] = "archive"
          ELSE \/ place'[r] = "progress"
               \/ place'[r] = "archive" /\ run'[a].step = "release"
      <4>1. CASE ArchiveReport(a, r)
        <5>1. run[a].step = "archive" /\ run'[a].step = "record"
          BY <1>0, <4>1 DEF ArchiveReport, Working, Within, Goes, RunOK
        <5>2. place[r] = "progress"
          BY <2>1, <5>1 DEF HoldsWell
        <5> QED
          BY <1>0, <4>1, <5>1, <5>2 DEF ArchiveReport, RestOK
      <4>2. CASE RecordTriaged(a, r)
        <5>1. run[a].step = "record" /\ run'[a].step = "release" /\ place' = place
          BY <1>0, <4>2 DEF RecordTriaged, Working, Within, Goes, RunOK, Reports
        <5> QED
          BY <2>1, <5>1 DEF HoldsWell
      <4>3. CASE ~ArchiveReport(a, r) /\ ~RecordTriaged(a, r)
        <5>1. run[a].step \notin {"record", "release"} /\ run'[a].step # "record" /\ place' = place
          BY <1>0, <1>2, <1>4, <2>5, <4>3
             DEF Works, EnterClaim, Judge, Hold, LeakHold, Duplicate, FileCard,
                 CountError, HoldMechanical, Release, Goes, RunOK, Reports, Working, Within,
                 SuggestionEnds, BugEnds, Reviewed, LeakCheck, Held, Making, Signed
        <5>2. place[r] = "progress"
          BY <2>1, <5>1 DEF HoldsWell
        <5> QED
          BY <5>1, <5>2
      <4> QED
        BY <4>1, <4>2, <4>3
    <3>6. HoldsWell(a, r)'
      BY <3>2, <3>3, <3>4, <3>5 DEF HoldsWell, Making
    <3>7. \A q \in Runner \ {a} : Apart(a, q, r)'
      <4>1. run[a].step # "stamp"
        BY <3>1 DEF Signed
      <4> QED
        BY <1>1, <2>1, <3>2, <4>1 DEF Apart, Holds, Within
    <3> QED
      BY <3>6, <3>7
  <2> QED
    BY <2>3, <2>4, <2>5
<1>5. ~Seeks(a, r)
  BY <1>0, <1>2, RunSeeks
<1>6. ~Unsign(a, r)
  BY <1>0, <1>2 DEF Unsign, Continues, RunOK, Held, Making, Signed
<1> QED
  BY <1>3, <1>4, <1>5, <1>6 DEF Acts

\* A report that was claimed in a gap, or from an old list, stays marked.
LEMMA MarksStay ==
  ASSUME TypeInv, [Next]_vars, NEW r \in Report
  PROVE  (raced[r] => raced'[r]) /\ (stale[r] => stale'[r])
<1> USE DEF TypeInv, RestOK, Reports, SameButRun, Gap
<1>1. CASE Stage12
  BY <1>1 DEF Stage12, Intake, StartIntake, Render, Create, Instruct, Pend, Announce,
              ConfirmScan, StartConfirm, ReadReply, Discard
<1>2. CASE StartTriage \/ StartByHand \/ UNCHANGED vars
  BY <1>2 DEF StartTriage, StartByHand, vars
<1>3. CASE Around
  BY <1>3 DEF Around, Reply, RetryHeld, Age, Cool
<1>4. ASSUME NEW p \in Runner, NEW q \in Report, Acts(p, q)
      PROVE  (raced[r] => raced'[r]) /\ (stale[r] => stale'[r])
  <2>1. CASE q # r
    BY <1>4, <2>1, Elsewhere
  <2>2. CASE Seeks(p, q)
    BY <2>2 DEF Seeks, ReadClaim, StatClaim, ReturnClaim, ForgetClaim, Pick, ClaimFails, Unclaimable
  <2>3. CASE Claim(p, q) \/ Unsign(p, q)
    BY <2>3 DEF Claim, Unsign
  <2>4. CASE Works(p, q)
    BY <2>4 DEF Works, StampClaim, SignClaim, EnterClaim, Judge, Hold, LeakHold, Duplicate,
         FileCard, ArchiveReport, RecordTriaged, CountError, HoldMechanical, Release
  <2> QED
    BY <1>4, <2>1, <2>2, <2>3, <2>4 DEF Acts
<1>5. ASSUME NEW p \in Runner, ListConfirmed(p) \/ EndCycle(p) \/ Crash(p)
      PROVE  (raced[r] => raced'[r]) /\ (stale[r] => stale'[r])
  BY <1>5 DEF ListConfirmed, EndCycle, Crash
<1> QED
  BY <1>1, <1>2, <1>3, <1>4, <1>5, NextCases, TriageSteps DEF Acts

\* A runner that is at none of its claims' steps disturbs nobody's lease.
LEMMA LeaseAside ==
  ASSUME RunOK, Lease, NEW a \in Runner, Others(a), NEW r \in Report, ~raced[r],
         \A steps \in {Held, Undoing, {"stat"}} : ~Within(a, steps, r)',
         \A p \in Runner \ {a} :
           Holds(p, r) => /\ place'[r] = place[r]
                          /\ owner[r] = p => owner'[r] = p
                          /\ "file" \notin past[r] => "file" \notin past'[r]
  PROVE  \A p \in Runner : Leased(p, r)'
<1> SUFFICES ASSUME NEW p \in Runner PROVE Leased(p, r)'
  OBVIOUS
<1>1. CASE p = a
  BY <1>1 DEF Leased, Holds
<1>2. CASE p # a
  <2>1. /\ Leased(p, r) /\ run'[p] = run[p]
        /\ \A q \in Runner \ {p} : q = a
    BY <1>2 DEF Lease, Others, Runner
  <2> QED
    BY <1>2, <2>1, LeaseKept
<1> QED
  BY <1>1, <1>2

LEMMA NextLease == TypeInv /\ Custody /\ Lease /\ [Next]_vars => Lease'
<1> SUFFICES ASSUME TypeInv, Custody, Lease, [Next]_vars, NEW r \in Report, ~raced'[r]
             PROVE  \A p \in Runner : Leased(p, r)'
  BY DEF Lease
<1>0. RunOK /\ RestOK /\ ~raced[r] /\ "daemon" \in Runner /\ "hand" \in Runner
  BY MarksStay DEF TypeInv, Runner
<1>1. ASSUME NEW a \in Runner, run'[a].step \in {"sweep", "pick", "idle"} \cup Steps12
      PROVE  \A steps \in {Held, Undoing, {"stat"}} : ~Within(a, steps, r)'
  BY <1>1 DEF Within, Held, Making, Signed, Undoing, Steps12
<1>2. CASE Stage12
  <2>1. Others("daemon") /\ run'["daemon"].step \in Steps12
    BY <1>0, <1>2, Run12
  <2>2. UNCHANGED <<owner, past>>
    BY <1>2 DEF Stage12, Intake, StartIntake, Render, Create, Instruct, Pend, Announce,
                ConfirmScan, StartConfirm, ReadReply, Discard, Reports
  <2>3. ASSUME Holds("hand", r) PROVE place'[r] = place[r]
    <3>1. place[r] # "queue" /\ Confirmed(r)
      <4>1. HoldsWell("hand", r)
        BY <1>0, <2>3 DEF Lease, Leased
      <4>2. r \in List("hand") /\ run["hand"].step \in Chosen
        BY <1>0, <2>3, WithinHead DEF Holds, Chosen
      <4> QED
        BY <1>0, <4>1, <4>2 DEF HoldsWell, Custody
    <3>2. ASSUME NEW q \in Report, Working("daemon", "render", q) \/ Working("daemon", "pend", q)
          PROVE  q # r
      <4>1. q \in List("daemon") /\ run["daemon"].step \in {"render", "pend"}
        BY <1>0, <3>2, WithinHead DEF Working
      <4> QED
        BY <3>1, <4>1 DEF Custody, Waiting
    <3>3. ASSUME NEW q \in Report, Working("daemon", "discard", q)
          PROVE  q # r
      <4>1. q \in List("daemon") /\ run["daemon"].step = "discard"
        BY <1>0, <3>3, WithinHead DEF Working
      <4> QED
        BY <3>1, <4>1 DEF Custody, Asked
    <3>4. CASE Intake
      BY <1>0, <3>2, <3>4 DEF Intake, StartIntake, Render, Occurrence, NoHit, Unrendered, Create,
         Instruct, Pend, Announce, Reports, RestOK
    <3>5. CASE ConfirmScan
      BY <1>0, <3>3, <3>5 DEF ConfirmScan, StartConfirm, ReadReply, Discard, Reports, RestOK
    <3> QED
      BY <1>2, <3>4, <3>5 DEF Stage12
  <2>4. \A p \in Runner \ {"daemon"} : p = "hand"
    BY DEF Runner
  <2> QED
    BY <1>0, <1>1, <2>1, <2>2, <2>3, <2>4, LeaseAside
<1>3. ASSUME NEW a \in Runner, Sweep(a) \/ ListConfirmed(a) \/ EndCycle(a) \/ Crash(a),
             UNCHANGED <<place, past>>,
             \A p \in Runner \ {a} : owner[r] = p => owner'[r] = p
      PROVE  \A p \in Runner : Leased(p, r)'
  <2>1. Others(a) /\ run'[a].step \in {"sweep", "pick", "idle"}
    BY <1>0, <1>3, RunRests
  <2>2. \A steps \in {Held, Undoing, {"stat"}} : ~Within(a, steps, r)'
    BY <1>1, <2>1
  <2> QED
    BY <1>0, <1>3, <2>1, <2>2, LeaseAside
<1>4. CASE StartTriage \/ StartByHand
  BY <1>0, <1>3, <1>4 DEF StartTriage, StartByHand, Reports
<1>5. ASSUME NEW a \in Runner, ListConfirmed(a) \/ EndCycle(a) \/ Crash(a)
      PROVE  \A p \in Runner : Leased(p, r)'
  <2>1. UNCHANGED <<place, past>>
    BY <1>5 DEF ListConfirmed, EndCycle, Crash, Reports
  <2>2. \A p \in Runner \ {a} : owner[r] = p => owner'[r] = p
    BY <1>0, <1>5 DEF ListConfirmed, EndCycle, Crash, Reports, RestOK
  <2> QED
    BY <1>3, <1>5, <2>1, <2>2
<1>6. ASSUME NEW a \in Runner, NEW q \in Report, Acts(a, q)
      PROVE  \A p \in Runner : Leased(p, r)'
  <2>1. CASE q = r
    <3>1. Leased(a, r)'
      BY <1>0, <1>6, <2>1, LeaseOwn
    <3>2. \A p \in Runner \ {a} : Leased(p, r)'
      BY <1>0, <1>6, <2>1, LeaseOthers
    <3> QED
      BY <3>1, <3>2
  <2>2. CASE q # r
    <3>1. /\ Others(a)
          /\ \/ run'[a].todo = run[a].todo /\ HeadOf(a) = q
             \/ run'[a].step \in {"sweep", "pick"}
      BY <1>0, <1>6, RunActs
    <3>2. \A steps \in {Held, Undoing, {"stat"}} : ~Within(a, steps, r)'
      <4>1. CASE run'[a].step \in {"sweep", "pick"}
        BY <1>1, <4>1
      <4>2. CASE run'[a].todo = run[a].todo /\ HeadOf(a) = q
        BY <2>2, <4>2 DEF Within, HeadOf
      <4> QED
        BY <3>1, <4>1, <4>2
    <3>3. place'[r] = place[r] /\ owner'[r] = owner[r] /\ past'[r] = past[r]
      BY <1>6, <2>2, Elsewhere
    <3> QED
      BY <1>0, <3>1, <3>2, <3>3, LeaseAside
  <2> QED
    BY <2>1, <2>2
<1>7. CASE Around \/ UNCHANGED vars
  <2>1. UNCHANGED <<run, place, owner>>
    BY <1>7 DEF Around, Reply, RetryHeld, Age, Cool, Reports, vars
  <2>2. CASE past'[r] = past[r]
    <3> SUFFICES ASSUME NEW p \in Runner PROVE Leased(p, r)'
      OBVIOUS
    <3> QED
      BY <1>0, <2>1, <2>2 DEF Lease, Leased, HoldsWell, Apart, Holds, Within
  <2>3. CASE past'[r] # past[r]
    <3>1. \A p \in Runner : ~Within(p, Making \cup {"stat"}, r)
      <4>1. PICK q \in Report : Age(q)
        BY <1>7, <2>3 DEF Around, Reply, RetryHeld, Cool, Reports, vars
      <4>2. q = r
        BY <1>0, <2>3, <4>1 DEF Age, RestOK
      <4>3. raced'[r] <=> raced[r] \/ \E p \in Runner : Within(p, Making \cup {"stat"}, r)
        BY <1>0, <4>1, <4>2 DEF Age, RestOK
      <4> QED
        BY <4>3
    <3>2. ASSUME NEW p \in Runner
          PROVE  /\ ~Within(p, {"stat"}, r)
                 /\ Holds(p, r) => run[p].step # "sign"
      BY <3>1 DEF Within, Holds, Making
    <3> SUFFICES ASSUME NEW p \in Runner PROVE Leased(p, r)'
      OBVIOUS
    <3> QED
      BY <1>0, <2>1, <3>2 DEF Lease, Leased, HoldsWell, Apart, Holds, Within
  <2> QED
    BY <2>2, <2>3
<1> QED
  BY <1>2, <1>4, <1>5, <1>6, <1>7, NextCases, TriageSteps DEF Acts

Safe == TypeInv /\ Custody /\ Lease

LEMMA SafeIsInvariant == Spec => []Safe
<1>1. Init => Safe
  BY InitTypeInv, InitCustody, InitLease DEF Safe
<1>2. Safe /\ [Next]_vars => Safe'
  BY NextTypeInv, NextCustody, NextLease DEF Safe
<1> QED
  BY <1>1, <1>2, PTL DEF Spec

(***************************************************************************)
(* The daemon and `spo triage`, sweeping, claiming, working on and giving  *)
(* back reports one file-system call at a time, never hold one report at   *)
(* the same time, unless a claim of it was made in one of the gaps the     *)
(* model names; a dead runner's sidecar, a late return and a claim that    *)
(* ages under its owner leave no other.                                    *)
(***************************************************************************)
THEOREM OneRunnerHolds == Spec => []OneClaimant
<1>1. Safe => OneClaimant
  <2> SUFFICES ASSUME Safe, NEW r \in Report, ~raced[r], Holds("daemon", r), Holds("hand", r)
               PROVE  FALSE
    BY DEF OneClaimant
  <2>1. Apart("daemon", "hand", r)
    BY DEF Safe, Lease, Leased, Runner
  <2> QED
    BY <2>1 DEF Apart
<1> QED
  BY <1>1, SafeIsInvariant, PTL

-----------------------------------------------------------------------------
(* One verdict, and no attempt beyond the cap.                             *)

Busy(r) == \E p \in Runner : Holds(p, r) /\ run[p].step # "release"
AtCap(r) == \E p \in Runner : Within(p, {"cap"}, r)

(* A runner judges only what has no verdict yet; errors are below the cap   *)
(* while another attempt may come, but for those that died with a runner.   *)
Counted(r) ==
  /\ journal[r].verdicts <= 1
  /\ Busy(r) => journal[r].verdicts = 0
  /\ journal[r].errors <= Cap + crashes
  /\ ~AtCap(r) /\ (~Has(r, Handled) \/ Busy(r)) => journal[r].errors < Cap + crashes

Clean == \A r \in Report : ~stale[r] /\ ~raced[r] => Counted(r)

LEMMA InitClean == Init => Clean
<1> SUFFICES ASSUME Init, NEW r \in Report PROVE Counted(r)
  BY DEF Clean
<1>1. journal[r].verdicts = 0 /\ journal[r].errors = 0 /\ crashes = 0
  BY DEF Init, Unwritten
<1>2. \A p \in Runner : run[p].todo = <<>>
  BY DEF Init, Idle
<1> QED
  BY <1>1, <1>2, ReportAssumption DEF Counted, Busy, AtCap, Holds, Within

\* What an event does to the counts.
LEMMA LogCounts ==
  ASSUME JournalOK, NEW r \in Report, NEW e \in Event, Log(r, e)
  PROVE  /\ e = "confirmed" => journal'[r].verdicts = 0 /\ journal'[r].errors = 0
         /\ e # "confirmed" =>
              /\ journal'[r].verdicts = journal[r].verdicts + (IF e \in Verdict THEN 1 ELSE 0)
              /\ journal'[r].errors = journal[r].errors + (IF e = "error" THEN 1 ELSE 0)
              /\ Has(r, Handled)' <=> Has(r, Handled) \/ e \in Handled
         /\ journal[r].verdicts \in Nat /\ journal[r].errors \in Nat
         /\ \A q \in Report \ {r} : journal'[q] = journal[q]
<1>0. journal[r] \in Entry
  BY DEF JournalOK
<1>1. /\ journal'[r] = Written(journal[r], e)
      /\ \A q \in Report \ {r} : journal'[q] = journal[q]
  BY LogReads
<1>2. journal[r].verdicts \in Nat /\ journal[r].errors \in Nat
  BY <1>0 DEF Entry
<1>3. CASE e = "confirmed"
  BY <1>1, <1>2, <1>3 DEF Written, Unwritten
<1>4. CASE e # "confirmed"
  <2>1. /\ journal'[r].events = journal[r].events \cup {e}
        /\ journal'[r].verdicts = IF e \in Verdict THEN journal[r].verdicts + 1
                                  ELSE journal[r].verdicts
        /\ journal'[r].errors = IF e = "error" THEN journal[r].errors + 1
                                ELSE journal[r].errors
    BY <1>1, <1>4 DEF Written
  <2>2. Has(r, Handled)' <=> Has(r, Handled) \/ e \in Handled
    BY <2>1 DEF Has
  <2>3. /\ journal'[r].verdicts = journal[r].verdicts + (IF e \in Verdict THEN 1 ELSE 0)
        /\ journal'[r].errors = journal[r].errors + (IF e = "error" THEN 1 ELSE 0)
    BY <1>2, <2>1
  <2> QED
    BY <1>1, <1>2, <1>4, <2>2, <2>3
<1> QED
  BY <1>3, <1>4

\* A confirmation counts afresh.
LEMMA ConfirmedCounts ==
  ASSUME TypeInv, NEW r \in Report, Log(r, "confirmed"), UNCHANGED crashes
  PROVE  Counted(r)'
<1>1. journal'[r].verdicts = 0 /\ journal'[r].errors = 0
  BY LogCounts DEF TypeInv, Event
<1>2. crashes \in Nat
  BY ReportAssumption DEF TypeInv, RestOK
<1> QED
  BY <1>1, <1>2, ReportAssumption DEF Counted

\* Anything else a runner without the report appends, or that a death does,
\* keeps the counts.
LEMMA CountedKept ==
  ASSUME TypeInv, NEW r \in Report, Counted(r), UNCHANGED crashes,
         Busy(r)' => Busy(r), AtCap(r) => AtCap(r)',
         \/ journal'[r] = journal[r]
         \/ \E e \in Event \ (Verdict \cup {"confirmed", "error"}) : Log(r, e)
  PROVE  Counted(r)'
<1>1. /\ journal'[r].verdicts = journal[r].verdicts
      /\ journal'[r].errors = journal[r].errors
      /\ Has(r, Handled) => Has(r, Handled)'
  <2>1. CASE journal'[r] = journal[r]
    BY <2>1 DEF Has
  <2>2. ASSUME NEW e \in Event \ (Verdict \cup {"confirmed", "error"}), Log(r, e)
        PROVE  /\ journal'[r].verdicts = journal[r].verdicts
               /\ journal'[r].errors = journal[r].errors
               /\ Has(r, Handled) => Has(r, Handled)'
    BY <2>2, LogCounts DEF TypeInv
  <2> QED
    BY <2>1, <2>2
<1> QED
  BY <1>1 DEF Counted

\* A runner that is not within a claim neither makes nor ends one.
LEMMA BusyAside ==
  ASSUME NEW a \in Runner, Others(a), NEW r \in Report, ~Holds(a, r), ~Holds(a, r)'
  PROVE  /\ Busy(r)' <=> Busy(r)
         /\ AtCap(r)' <=> AtCap(r)
<1>1. ~Within(a, {"cap"}, r) /\ ~Within(a, {"cap"}, r)'
  BY DEF Holds, Within, Held, Signed
<1> QED
  BY <1>1 DEF Busy, AtCap, Others, Holds, Within

\* The runner that holds a report is the only one that does.
LEMMA OneHolder ==
  ASSUME Safe, NEW r \in Report, ~raced[r], NEW a \in Runner, Holds(a, r)
  PROVE  \A p \in Runner \ {a} : ~Holds(p, r)
BY DEF Safe, Lease, Leased, Apart

\* A step of the runner that holds a report.
LEMMA WorksCounted ==
  ASSUME Safe, Safe', NEW a \in Runner, NEW r \in Report, Works(a, r), Counted(r),
         ~raced[r], ~raced'[r]
  PROVE  Counted(r)'
<1>0. TypeInv /\ RunOK /\ JournalOK /\ RestOK
  BY DEF Safe, TypeInv
<1>1. /\ RunOK' /\ Others(a) /\ Holds(a, r) /\ run'[a].todo = run[a].todo
      /\ run'[a].step \in Held \cup {"unsign"}
  BY <1>0, RunWorks
<1>2. \A p \in Runner \ {a} : ~Holds(p, r) /\ ~Holds(p, r)'
  <2>1. \A p \in Runner \ {a} : ~Holds(p, r)
    BY <1>1, OneHolder
  <2> QED
    BY <1>1, <2>1 DEF Others, Holds, Within
<1>3. /\ Busy(r) <=> run[a].step # "release"
      /\ AtCap(r) <=> run[a].step = "cap"
      /\ Busy(r)' <=> run'[a].step \notin {"release", "unsign"}
      /\ AtCap(r)' <=> run'[a].step = "cap"
  BY <1>1, <1>2 DEF Busy, AtCap, Holds, Within, Held, Making, Signed
<1>4. /\ journal[r].verdicts \in Nat /\ journal[r].errors \in Nat /\ crashes \in Nat
      /\ UNCHANGED crashes
  <2>1. journal[r] \in Entry /\ crashes \in Nat
    BY <1>0, ReportAssumption DEF JournalOK, RestOK
  <2>2. UNCHANGED crashes
    BY DEF Works, StampClaim, SignClaim, EnterClaim, Judge, Hold, LeakHold, Duplicate,
           FileCard, ArchiveReport, RecordTriaged, CountError, HoldMechanical, Release, Bounds
  <2> QED
    BY <2>1, <2>2 DEF Entry
<1>5. CASE CountError(a, r)
  <2>1. run[a].step = "error" /\ Log(r, "error") /\ "error" \in Event
    BY <1>5 DEF CountError, Working, Within, Event
  <2>2. run'[a].step = IF Reached(journal[r].errors + 1) THEN "cap" ELSE "release"
    BY <1>0, <1>5 DEF CountError, Goes, RunOK
  <2>3. /\ journal'[r].verdicts = journal[r].verdicts
        /\ journal'[r].errors = journal[r].errors + 1
    BY <1>0, <2>1, LogCounts DEF Verdict
  <2>4. journal[r].verdicts = 0 /\ journal[r].errors < Cap + crashes
    BY <1>3, <2>1 DEF Counted
  <2> QED
    BY <1>3, <1>4, <2>2, <2>3, <2>4, ReportAssumption DEF Counted, Reached
<1>6. ASSUME NEW e \in Verdict, Log(r, e), run[a].step # "release", run'[a].step = "release"
      PROVE  Counted(r)'
  <2>1. e \in Event /\ e \in Handled /\ e \notin {"confirmed", "error"}
    BY DEF Event, Handled, Verdict
  <2>2. /\ journal'[r].verdicts = journal[r].verdicts + 1
        /\ journal'[r].errors = journal[r].errors
        /\ Has(r, Handled)'
    BY <1>0, <1>4, <1>6, <2>1, LogCounts
  <2>3. journal[r].verdicts = 0 /\ journal[r].errors <= Cap + crashes
    BY <1>3, <1>6 DEF Counted
  <2> QED
    BY <1>3, <1>4, <1>6, <2>2, <2>3 DEF Counted
<1>7. CASE HoldMechanical(a, r) \/ LeakHold(a, r) \/ RecordTriaged(a, r)
           \/ (Hold(a, r) /\ Log(r, "held") /\ Goes(a, "release"))
  BY <1>0, <1>6, <1>7 DEF HoldMechanical, LeakHold, RecordTriaged, Hold, Working, Within, Goes,
                          RunOK, Verdict
<1>8. ASSUME UNCHANGED journal \/ \E e \in Event \ (Verdict \cup {"confirmed", "error"}) : Log(r, e),
             \/ run[a].step \notin {"release", "cap"}
             \/ run[a].step = "release" /\ run'[a].step = "unsign"
      PROVE  Counted(r)'
  BY <1>0, <1>3, <1>4, <1>8, CountedKept
<1>9. CASE StampClaim(a, r) \/ SignClaim(a, r) \/ EnterClaim(a, r)
  <2>1. run[a].step \notin {"release", "cap"}
    BY <1>9 DEF StampClaim, SignClaim, EnterClaim, Working, Within
  <2>2. UNCHANGED journal \/ Log(r, "claimed")
    BY <1>9 DEF StampClaim, SignClaim, EnterClaim
  <2>3. "claimed" \in Event \ (Verdict \cup {"confirmed", "error"})
    BY DEF Event, Verdict
  <2> QED
    BY <1>8, <2>1, <2>2, <2>3
<1>10. CASE Judge(a, r) \/ Duplicate(a, r) \/ FileCard(a, r) \/ ArchiveReport(a, r)
            \/ (Hold(a, r) /\ UNCHANGED journal)
  <2>1. run[a].step \notin {"release", "cap"}
    BY <1>10 DEF Judge, Duplicate, FileCard, ArchiveReport, Hold, Working, Within
  <2>2. UNCHANGED journal
    BY <1>10 DEF Judge, Duplicate, FileCard, ArchiveReport, Hold
  <2> QED
    BY <1>8, <2>1, <2>2
<1>11. CASE Release(a, r)
  BY <1>0, <1>8, <1>11 DEF Release, Working, Within, Goes, RunOK
<1> QED
  BY <1>5, <1>7, <1>9, <1>10, <1>11 DEF Works, Hold

\* Stages 1 and 2 work on no report a runner holds.
LEMMA Before12 ==
  ASSUME Stage12
  PROVE  /\ run["daemon"].step \notin Held
         /\ UNCHANGED <<crashes, cards, lost>>
         /\ UNCHANGED journal \/ \E r \in Report, e \in Event \ (Handled \cup {"error"}) : Log(r, e)
BY DEF Stage12, Intake, StartIntake, Render, Occurrence, NoHit, Unrendered, Create, Instruct,
       Pend, Announce, ConfirmScan, StartConfirm, ReadReply, Discard, At, Working, Within,
       Held, Making, Signed, Reports, Bounds, Event, Handled, Verdict

\* The starts and ends of a cycle hold none either.
LEMMA BetweenCycles ==
  ASSUME Safe, NEW a \in Runner,
         \/ a = "daemon" /\ StartTriage
         \/ a = "hand" /\ StartByHand
         \/ ListConfirmed(a) \/ EndCycle(a)
  PROVE  /\ Others(a) /\ run[a].step \notin Held /\ run'[a].step \notin Held
         /\ UNCHANGED <<Reports, journal, crashes>>
<1>1. ListConfirmed(a) \/ EndCycle(a) \/ Sweep(a)
  BY DEF StartTriage, StartByHand
<1>2. Others(a) /\ run'[a].step \in {"idle", "pick", "sweep"}
  BY <1>1, RunRests DEF Safe, TypeInv
<1>3. run[a].step \notin Held
  BY DEF StartTriage, StartByHand, ListConfirmed, EndCycle, At, Held, Making, Signed
<1>4. UNCHANGED <<Reports, journal, crashes>>
  BY DEF StartTriage, StartByHand, ListConfirmed, EndCycle, Bounds
<1> QED
  BY <1>2, <1>3, <1>4 DEF Held, Making, Signed

\* A step of stage 3 on another report leaves a runner outside this one.
LEMMA ElsewhereAside ==
  ASSUME TypeInv, NEW a \in Runner, NEW q \in Report, Acts(a, q), NEW r \in Report \ {q}
  PROVE  Others(a) /\ ~Holds(a, r) /\ ~Holds(a, r)'
<1>1. /\ Others(a) /\ HeadOf(a) = q
      /\ run'[a].todo = run[a].todo \/ run'[a].step \in {"sweep", "pick"}
  BY RunActs DEF TypeInv
<1> QED
  BY <1>1 DEF Holds, Within, HeadOf, Held, Making, Signed

LEMMA NextClean ==
  ASSUME Safe, Safe', Clean, [Next]_vars
  PROVE  Clean'
<1> SUFFICES ASSUME NEW r \in Report, ~stale'[r], ~raced'[r] PROVE Counted(r)'
  BY DEF Clean
<1>0. /\ TypeInv /\ RunOK /\ JournalOK /\ ~raced[r] /\ ~stale[r] /\ Counted(r)
      /\ "daemon" \in Runner /\ "hand" \in Runner
  BY MarksStay DEF Safe, TypeInv, Clean, Runner
<1>1. ASSUME NEW q \in Report, NEW e \in Event, Log(q, e), q # r
      PROVE  journal'[r] = journal[r]
  BY <1>0, <1>1, LogReads
<1>2. CASE Stage12
  <2>1. /\ run["daemon"].step \notin Held /\ UNCHANGED crashes
        /\ UNCHANGED journal \/ \E q \in Report, e \in Event \ (Handled \cup {"error"}) : Log(q, e)
    BY <1>2, Before12
  <2>2. Others("daemon") /\ run'["daemon"].step \notin Held
    BY <1>0, <1>2, Run12, Stages DEF Chosen
  <2>3. (Busy(r)' <=> Busy(r)) /\ (AtCap(r)' <=> AtCap(r))
    BY <1>0, <2>1, <2>2, BusyAside DEF Holds, Within
  <2>4. CASE Log(r, "confirmed")
    BY <1>0, <2>1, <2>4, ConfirmedCounts
  <2>5. CASE ~Log(r, "confirmed")
    <3>1. \/ journal'[r] = journal[r]
          \/ \E e \in Event \ (Verdict \cup {"confirmed", "error"}) : Log(r, e)
      BY <1>1, <2>1, <2>5 DEF Handled
    <3> QED
      BY <1>0, <2>1, <2>3, <3>1, CountedKept
  <2> QED
    BY <2>4, <2>5
<1>3. ASSUME NEW a \in Runner,
             \/ a = "daemon" /\ StartTriage
             \/ a = "hand" /\ StartByHand
             \/ ListConfirmed(a) \/ EndCycle(a)
      PROVE  Counted(r)'
  <2>1. /\ Others(a) /\ run[a].step \notin Held /\ run'[a].step \notin Held
        /\ UNCHANGED <<journal, crashes>>
    BY <1>3, BetweenCycles
  <2>2. (Busy(r)' <=> Busy(r)) /\ (AtCap(r)' <=> AtCap(r))
    BY <2>1, BusyAside DEF Holds, Within
  <2> QED
    BY <1>0, <2>1, <2>2, CountedKept
<1>4. ASSUME NEW a \in Runner, Crash(a) PROVE Counted(r)'
  <2>1. Others(a) /\ run'[a].step = "idle" /\ UNCHANGED journal /\ crashes' = crashes + 1
    BY <1>0, <1>4 DEF Crash, Starts, RunOK, Others
  <2>2. Busy(r)' => Busy(r)
    BY <2>1 DEF Busy, Holds, Within, Others, Held, Making, Signed
  <2>3. journal[r].errors \in Nat /\ crashes \in Nat
    BY <1>0, ReportAssumption DEF JournalOK, Entry, TypeInv, RestOK
  <2> QED
    BY <1>0, <2>1, <2>2, <2>3, ReportAssumption DEF Counted
<1>5. ASSUME NEW a \in Runner, NEW q \in Report, Acts(a, q) PROVE Counted(r)'
  <2>1. CASE q # r
    <3>1. journal'[r] = journal[r] /\ UNCHANGED crashes
      BY <1>0, <1>5, <2>1, Elsewhere
    <3>2. (Busy(r)' <=> Busy(r)) /\ (AtCap(r)' <=> AtCap(r))
      BY <1>0, <1>5, <2>1, ElsewhereAside, BusyAside
    <3> QED
      BY <1>0, <3>1, <3>2, CountedKept
  <2>2. CASE Seeks(a, r) \/ Unsign(a, r)
    <3>1. Others(a) /\ ~Holds(a, r) /\ ~Holds(a, r)'
      <4>1. CASE Seeks(a, r)
        BY <1>0, <4>1, RunSeeks DEF Holds, Within
      <4>2. CASE Unsign(a, r)
        BY <1>0, <4>2, RunRests DEF Unsign, Working, Holds, Within, Held, Making, Signed
      <4> QED
        BY <2>2, <4>1, <4>2
    <3>2. UNCHANGED journal \/ Log(r, "unclaimable")
      BY <2>2 DEF Seeks, ReadClaim, StatClaim, ReturnClaim, ForgetClaim, Pick, ClaimFails,
                  Unclaimable, Unsign
    <3>3. UNCHANGED crashes
      BY <2>2 DEF Seeks, ReadClaim, StatClaim, ReturnClaim, ForgetClaim, Pick, ClaimFails,
                  Unclaimable, Unsign, Bounds
    <3>4. "unclaimable" \in Event \ (Verdict \cup {"confirmed", "error"})
      BY DEF Event, Handled, Verdict
    <3>5. (Busy(r)' <=> Busy(r)) /\ (AtCap(r)' <=> AtCap(r))
      BY <3>1, BusyAside
    <3> QED
      BY <1>0, <3>2, <3>3, <3>4, <3>5, CountedKept
  <2>3. CASE Claim(a, r)
    <3>1. Unhandled(r) /\ UNCHANGED <<journal, crashes>>
      BY <1>0, <2>3 DEF Claim, Bounds, TypeInv, RestOK
    <3>2. ~Has(r, Handled) /\ journal[r].verdicts = 0
      BY <1>0, <3>1 DEF Unhandled, JournalOK
    <3>3. ~AtCap(r)
      <4>1. ASSUME NEW p \in Runner, Within(p, {"cap"}, r) PROVE FALSE
        <5>1. Holds(p, r) /\ run[p].step = "cap"
          BY <4>1 DEF Holds, Within, Held, Signed
        <5>2. HoldsWell(p, r)
          BY <1>0, <5>1 DEF Safe, Lease, Leased
        <5> QED
          BY <2>3, <5>1, <5>2 DEF Claim, HoldsWell
      <4> QED
        BY <4>1 DEF AtCap
    <3>4. journal[r].errors < Cap + crashes
      BY <1>0, <3>2, <3>3 DEF Counted
    <3>5. journal[r].errors \in Nat /\ crashes \in Nat
      BY <1>0, ReportAssumption DEF JournalOK, Entry, TypeInv, RestOK
    <3> QED
      BY <3>1, <3>2, <3>4, <3>5, ReportAssumption DEF Counted
  <2>4. CASE Works(a, r)
    BY <1>0, <2>4, WorksCounted
  <2> QED
    BY <1>5, <2>1, <2>2, <2>3, <2>4 DEF Acts
<1>6. CASE Around \/ UNCHANGED vars
  <2>1. UNCHANGED <<run, crashes>>
    BY <1>6 DEF Around, Reply, RetryHeld, Age, Cool, Bounds, vars
  <2>2. (Busy(r)' <=> Busy(r)) /\ (AtCap(r)' <=> AtCap(r))
    BY <2>1 DEF Busy, AtCap, Holds, Within
  <2>3. UNCHANGED journal \/ \E q \in Report : Log(q, "confirmed")
    BY <1>6 DEF Around, Reply, RetryHeld, Age, Cool, vars
  <2>4. CASE Log(r, "confirmed")
    BY <1>0, <2>1, <2>4, ConfirmedCounts
  <2>5. CASE ~Log(r, "confirmed")
    <3>1. journal'[r] = journal[r]
      BY <1>1, <2>3, <2>5 DEF Event
    <3> QED
      BY <1>0, <2>1, <2>2, <3>1, CountedKept
  <2> QED
    BY <2>4, <2>5
<1>7. ASSUME NEW a \in Runner, Triage(a) PROVE Counted(r)'
  BY <1>3, <1>5, <1>7, TriageSteps DEF Acts
<1> QED
  BY <1>0, <1>2, <1>3, <1>4, <1>6, <1>7, NextCases

LEMMA CleanIsInvariant == Spec => []Clean
<1>1. Safe /\ Safe' /\ Clean /\ [Next]_vars => Clean'
  BY NextClean
<1> QED
  BY <1>1, InitClean, SafeIsInvariant, PTL DEF Spec

(***************************************************************************)
(* A confirmation gets at most one verdict, however runs fail, die and are *)
(* reclaimed, unless the report was taken from a list older than a verdict *)
(* or claimed in a gap.                                                    *)
(***************************************************************************)
THEOREM OneVerdictEach == Spec => []OneVerdict
<1>1. Clean => OneVerdict
  BY DEF Clean, Counted, OneVerdict
<1> QED
  BY <1>1, CleanIsInvariant, PTL

(***************************************************************************)
(* Triage of one confirmation is attempted no more often than the cap, plus *)
(* once for every runner that died as it was reached.                      *)
(***************************************************************************)
THEOREM AttemptsEnd == Spec => []AttemptsAreCapped
<1>1. Clean => AttemptsAreCapped
  BY DEF Clean, Counted, AttemptsAreCapped
<1> QED
  BY <1>1, CleanIsInvariant, PTL

-----------------------------------------------------------------------------
(* One public card.                                                        *)

Archiving(r) == \E p \in Runner : Within(p, {"archive"}, r)

(* A card nobody lost track of is being archived or archived already. *)
FiledOK(r) ==
  \/ cards[r] <= lost[r]
  \/ cards[r] <= lost[r] + 1 /\ (place[r] = "archive" \/ Archiving(r))

Filed == \A r \in Report : ~raced[r] => FiledOK(r)

LEMMA InitFiled == Init => Filed
BY DEF Init, Filed, FiledOK

LEMMA FiledKept ==
  ASSUME NEW r \in Report, FiledOK(r), cards'[r] = cards[r], lost'[r] = lost[r],
         place[r] = "archive" => place'[r] = "archive",
         Archiving(r) => Archiving(r)' \/ place'[r] = "archive"
  PROVE  FiledOK(r)'
BY DEF FiledOK

\* No step takes a file out of archive/.
LEMMA ArchiveKeeps ==
  ASSUME Safe, [Next]_vars, NEW r \in Report, place[r] = "archive"
  PROVE  place'[r] = "archive"
<1>0. TypeInv /\ RunOK /\ RestOK /\ "daemon" \in Runner
  BY DEF Safe, TypeInv, Runner
<1>1. CASE Stage12
  <2>1. ASSUME NEW q \in Report, Pend(q) PROVE q # r
    <3>1. q \in List("daemon") /\ run["daemon"].step = "pend"
      BY <1>0, <2>1, WithinHead DEF Pend, Working
    <3> QED
      BY <3>1 DEF Safe, Custody, Waiting
  <2>2. CASE \E q \in Report : Pend(q)
    BY <1>0, <2>1, <2>2 DEF Pend, RestOK
  <2>3. CASE ~\E q \in Report : Pend(q)
    BY <1>0, <1>1, <2>3
       DEF Stage12, Intake, StartIntake, Render, Occurrence, NoHit, Unrendered, Create, Instruct,
           Announce, ConfirmScan, StartConfirm, ReadReply, Discard, Reports, RestOK
  <2> QED
    BY <2>2, <2>3
<1>2. ASSUME NEW p \in Runner, NEW q \in Report, Acts(p, q) PROVE place'[r] = "archive"
  <2>1. CASE q # r
    BY <1>0, <1>2, <2>1, Elsewhere
  <2>2. CASE q = r
    BY <1>0, <1>2, <2>2
       DEF Acts, Seeks, ReadClaim, StatClaim, ReturnClaim, ForgetClaim, Pick, ClaimFails,
           Unclaimable, Claim, Unsign, Works, StampClaim, SignClaim, EnterClaim, Judge, Hold,
           LeakHold, Duplicate, FileCard, ArchiveReport, RecordTriaged, CountError,
           HoldMechanical, Release, Reports, SameButRun, RestOK
  <2> QED
    BY <2>1, <2>2
<1>3. CASE StartTriage \/ StartByHand \/ Around \/ UNCHANGED vars
  BY <1>3 DEF StartTriage, StartByHand, Around, Reply, RetryHeld, Age, Cool, Reports, vars
<1>4. ASSUME NEW p \in Runner, ListConfirmed(p) \/ EndCycle(p) \/ Crash(p)
      PROVE  place'[r] = "archive"
  BY <1>4 DEF ListConfirmed, EndCycle, Crash, Reports
<1> QED
  BY <1>1, <1>2, <1>3, <1>4, NextCases, TriageSteps DEF Acts

LEMMA NextFiled ==
  ASSUME Safe, Filed, [Next]_vars
  PROVE  Filed'
<1> SUFFICES ASSUME NEW r \in Report, ~raced'[r] PROVE FiledOK(r)'
  BY DEF Filed
<1>0. /\ TypeInv /\ RunOK /\ RestOK /\ ~raced[r] /\ FiledOK(r)
      /\ "daemon" \in Runner /\ "hand" \in Runner
  BY MarksStay DEF Safe, TypeInv, Filed, Runner
<1>1. cards[r] \in Nat /\ lost[r] \in Nat
  BY <1>0 DEF RestOK
<1>2. place[r] = "archive" => place'[r] = "archive"
  BY ArchiveKeeps
<1>3. ASSUME NEW a \in Runner, Others(a), ~Holds(a, r)
      PROVE  Archiving(r) => Archiving(r)'
  <2>1. ~Within(a, {"archive"}, r)
    BY <1>3 DEF Holds, Within, Held, Signed
  <2> QED
    BY <1>3, <2>1 DEF Archiving, Others, Within
<1>4. CASE Stage12
  <2>1. run["daemon"].step \notin Held /\ UNCHANGED <<cards, lost>> /\ Others("daemon")
    BY <1>0, <1>4, Before12, Run12
  <2> QED
    BY <1>0, <1>2, <1>3, <2>1, FiledKept DEF Holds, Within
<1>5. ASSUME NEW a \in Runner,
             \/ a = "daemon" /\ StartTriage
             \/ a = "hand" /\ StartByHand
             \/ ListConfirmed(a) \/ EndCycle(a)
      PROVE  FiledOK(r)'
  <2>1. Others(a) /\ run[a].step \notin Held /\ UNCHANGED <<cards, lost>>
    BY <1>5, BetweenCycles DEF Reports
  <2> QED
    BY <1>0, <1>2, <1>3, <2>1, FiledKept DEF Holds, Within
<1>6. ASSUME NEW a \in Runner, Crash(a) PROVE FiledOK(r)'
  <2>1. UNCHANGED cards /\ Others(a)
    BY <1>0, <1>6 DEF Crash, Starts, RunOK, Others
  <2>2. CASE Working(a, "archive", r)
    <3>1. lost'[r] = IF cards[r] > 0 THEN lost[r] + 1 ELSE lost[r]
      BY <1>0, <1>6, <2>2 DEF Crash, RestOK
    <3> QED
      BY <1>0, <1>1, <2>1, <3>1 DEF FiledOK
  <2>3. CASE ~Working(a, "archive", r)
    <3>1. lost'[r] = lost[r]
      BY <1>0, <1>6, <2>3 DEF Crash, RestOK
    <3>2. Archiving(r) => Archiving(r)'
      BY <2>1, <2>3 DEF Archiving, Others, Working, Within
    <3> QED
      BY <1>0, <1>2, <2>1, <3>1, <3>2, FiledKept
  <2> QED
    BY <2>2, <2>3
<1>7. ASSUME NEW a \in Runner, NEW q \in Report, Acts(a, q) PROVE FiledOK(r)'
  <2>1. CASE q # r
    <3>1. cards'[r] = cards[r] /\ lost'[r] = lost[r]
      BY <1>0, <1>7, <2>1, Elsewhere
    <3>2. Others(a) /\ ~Holds(a, r)
      BY <1>0, <1>7, <2>1, ElsewhereAside
    <3> QED
      BY <1>0, <1>2, <1>3, <3>1, <3>2, FiledKept
  <2>2. CASE q = r /\ ~FileCard(a, r) /\ ~ArchiveReport(a, r)
    <3>1. UNCHANGED <<cards, lost>>
      BY <1>7, <2>2
         DEF Acts, Seeks, ReadClaim, StatClaim, ReturnClaim, ForgetClaim, Pick, ClaimFails,
             Unclaimable, Claim, Unsign, Works, StampClaim, SignClaim, EnterClaim, Judge, Hold,
             LeakHold, Duplicate, RecordTriaged, CountError, HoldMechanical, Release, Reports,
             SameButRun
    <3>2. Others(a) /\ run[a].step # "archive"
      <4>1. Others(a)
        BY <1>0, <1>7, RunActs
      <4>2. run[a].step # "archive"
        BY <1>7, <2>2
           DEF Acts, Seeks, ReadClaim, StatClaim, ReturnClaim, ForgetClaim, Pick, ClaimFails,
               Unclaimable, Claim, Unsign, Works, StampClaim, SignClaim, EnterClaim, Judge, Hold,
               LeakHold, Duplicate, RecordTriaged, CountError, HoldMechanical, Release,
               Working, Within
      <4> QED
        BY <4>1, <4>2
    <3>3. Archiving(r) => Archiving(r)'
      BY <3>2 DEF Archiving, Others, Within
    <3> QED
      BY <1>0, <1>2, <3>1, <3>3, FiledKept
  <2>3. CASE FileCard(a, r)
    <3>1. Holds(a, r) /\ run[a].step = "file" /\ run[a].todo # <<>>
      BY <2>3 DEF FileCard, Working, Within, Holds, Held, Signed
    <3>2. place[r] = "progress" /\ \A p \in Runner \ {a} : ~Holds(p, r)
      BY <1>0, <3>1 DEF Safe, Lease, Leased, HoldsWell, Apart
    <3>3. ~Archiving(r)
      BY <3>1, <3>2 DEF Archiving, Holds, Within, Held, Signed
    <3>4. cards[r] <= lost[r]
      BY <1>0, <3>2, <3>3 DEF FiledOK
    <3>5. \/ /\ cards'[r] = cards[r] + 1 /\ lost'[r] = lost[r] /\ Goes(a, "archive")
          \/ cards'[r] = cards[r] + 1 /\ lost'[r] = lost[r] + 1
          \/ cards'[r] = cards[r] /\ lost'[r] = lost[r]
      BY <1>0, <2>3 DEF FileCard, RestOK
    <3>6. Goes(a, "archive") => Archiving(r)'
      BY <1>0, <2>3 DEF FileCard, Working, Goes, Archiving, Within, RunOK
    <3> QED
      BY <1>1, <3>4, <3>5, <3>6 DEF FiledOK
  <2>4. CASE ArchiveReport(a, r)
    <3>1. Holds(a, r) /\ run[a].step = "archive"
      BY <2>4 DEF ArchiveReport, Working, Within, Holds, Held, Signed
    <3>2. place[r] = "progress"
      BY <1>0, <3>1 DEF Safe, Lease, Leased, HoldsWell
    <3>3. place'[r] = "archive" /\ UNCHANGED <<cards, lost>>
      BY <1>0, <2>4, <3>2 DEF ArchiveReport, RestOK
    <3> QED
      BY <1>0, <3>3, FiledKept
  <2> QED
    BY <1>7, <2>1, <2>2, <2>3, <2>4
<1>8. CASE Around \/ UNCHANGED vars
  <2>1. UNCHANGED <<run, cards, lost>>
    BY <1>8 DEF Around, Reply, RetryHeld, Age, Cool, Reports, vars
  <2> QED
    BY <1>0, <1>2, <2>1, FiledKept DEF Archiving, Within
<1>9. ASSUME NEW a \in Runner, Triage(a) PROVE FiledOK(r)'
  BY <1>5, <1>7, <1>9, TriageSteps DEF Acts
<1> QED
  BY <1>0, <1>4, <1>5, <1>6, <1>8, <1>9, NextCases

(***************************************************************************)
(* A report is filed publicly a second time only if the answer of the      *)
(* first filing was lost, or a second runner claimed it in a gap.          *)
(***************************************************************************)
THEOREM NoSecondCard == Spec => []FiledOnce
<1>1. Safe /\ Filed /\ [Next]_vars => Filed'
  BY NextFiled
<1>2. Safe /\ Filed => FiledOnce
  <2> SUFFICES ASSUME Safe, Filed, NEW r \in Report, ~raced[r] PROVE cards[r] <= 1 + lost[r]
    BY DEF FiledOnce
  <2>1. cards[r] \in Nat /\ lost[r] \in Nat
    BY DEF Safe, TypeInv, RestOK
  <2> QED
    BY <2>1 DEF Filed, FiledOK
<1> QED
  BY <1>1, <1>2, InitFiled, SafeIsInvariant, PTL DEF Spec

=============================================================================
