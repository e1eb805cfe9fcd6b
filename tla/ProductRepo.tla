---------------------------- MODULE ProductRepo ----------------------------
(***************************************************************************)
(* The clone all workers share (config.productRepo), its lock, and the     *)
(* bench worker built from it: WORKTREE's set-up, FINISH's fast-forward    *)
(* and conditional reinstall, the reinstall FINISH defers and a later      *)
(* WORKTREE pays (orchestrator/product-repo-lock.js, product-repo-hold.js, *)
(* steps/scripted.js, journal.js).                                         *)
(*                                                                         *)
(* A process is the worker of one card.  A commit of the product's main is *)
(* its position there; checkouts and installed workers are the position    *)
(* they are at.                                                            *)
(***************************************************************************)
EXTENDS ShortLock, FiniteSets

CONSTANTS
  Workers,   \* SPO_WORKERS
  RepoLock,  \* .product-repo.lock
  MaxFaults, \* bound: commands that fail, and waits that run out
  MaxDead    \* bound: workers that die

ASSUME RepoAssumption ==
  /\ File = {RepoLock} /\ AgeLimit[RepoLock] > 0
  /\ {Workers, MaxFaults, MaxDead} \subseteq Nat

VARIABLES
  step,      \* where each worker is
  touches,   \* cards whose merge touches the bench worker's sources
  sha,       \* mergeCommit of each card, 0 before its merge
  main,      \* main on origin
  tracked,   \* origin/main in the clone
  checkout,  \* HEAD of the clone
  installed, \* what the bench worker was built from
  owed,      \* mergeSha of bench-reinstall-owed.json, 0 for nothing owed
  read,      \* the record payBenchReinstallDebtIfOwed read
  jobs,      \* gates of cards in the bench's spool/ or running/
  stray,     \* builds whose bash was killed and which may go on
  late,      \* one of those went on
  robbed,    \* a live worker's lock was unlinked
  faults

repoVars == <<main, tracked, checkout>>
benchVars == <<installed, jobs, stray, late>>
cardVars == <<touches, sha>>
debtVars == <<owed, read>>
vars == <<lockVars, step, repoVars, benchVars, cardVars, debtVars, robbed, faults>>

SetUp == {"debt", "debtFetch", "debtFf", "debtIdle", "debtInstall", "debtClear", "setup"}
Sync == {"fetch", "ff", "wait", "install", "defer"}
Inside == SetUp \cup Sync \cup {"remove"}
Waiting == {"lockSetup", "lockSync", "lockRemove"}
Leaving == {"leaveSetup", "leaveSync", "leaveRemove", "leavePark"}
Outside == {"queued", "claim", "gate", "merge", "close", "parked", "done", "gone"}
Steps == Inside \cup Waiting \cup Leaving \cup Outside

\* Where a worker that has let go of the lock goes on.
After == [leaveSetup |-> "claim", leaveSync |-> "close", leaveRemove |-> "done",
          leavePark |-> "parked"]
Enter == [lockSetup |-> "debt", lockSync |-> "fetch", lockRemove |-> "remove"]

TypeOK ==
  /\ LockTypeOK
  /\ step \in [Proc -> Steps]
  /\ touches \subseteq Proc /\ sha \in [Proc -> 0..main]
  /\ main \in Nat /\ tracked \in 0..main /\ checkout \in 0..tracked /\ installed \in 0..checkout
  /\ owed \in 0..tracked /\ read \in [Proc -> 0..tracked]
  /\ jobs \subseteq Proc /\ stray \subseteq 0..checkout
  /\ late \in BOOLEAN /\ robbed \in BOOLEAN
  /\ faults \in 0..MaxFaults

Init ==
  /\ LockInit
  /\ step = [p \in Proc |-> "queued"] /\ touches = {}
  /\ sha = [p \in Proc |-> 0]
  /\ main = 0 /\ tracked = 0 /\ checkout = 0 /\ installed = 0
  /\ owed = 0 /\ read = [p \in Proc |-> 0]
  /\ jobs = {} /\ stray = {} /\ late = FALSE /\ robbed = FALSE
  /\ faults = 0

-----------------------------------------------------------------------------
Goto(p, l) == step' = [step EXCEPT ![p] = l]
Fault == faults < MaxFaults /\ faults' = faults + 1
Running == {p \in Proc \ dead : step[p] \notin {"queued", "parked", "done"}}

\* benchQueueDepth can be 0 when no card has a job there, and is not when somebody
\* else has one: other people use the bench when they please.
MayBeIdle == jobs = {}

\* withProductRepoLock: the finally releases, whatever fn did.
Leave(p, l) == ReleaseFile(p, RepoLock) /\ Goto(p, l)

Start(p) ==
  /\ step[p] = "queued" /\ Cardinality(Running) < Workers
  /\ TryLock(p, RepoLock) /\ Goto(p, "lockSetup")
  /\ UNCHANGED <<repoVars, benchVars, cardVars, debtVars, robbed, faults>>

\* acquireProductRepoLock has it.
Entered(p) ==
  /\ step[p] \in Waiting /\ lstep[p] = "won"
  /\ LockDone(p) /\ Goto(p, Enter[step[p]])
  /\ UNCHANGED <<file, age, want, dead, reused, repoVars, benchVars, cardVars, debtVars, robbed, faults>>

\* It sleeps and tries again.
Poll(p) ==
  /\ step[p] \in Waiting /\ lstep[p] = "lost"
  /\ TryLock(p, RepoLock)
  /\ UNCHANGED <<step, repoVars, benchVars, cardVars, debtVars, robbed, faults>>

\* ProductRepoLockTimeoutError: product-repo-lock-timeout.
WaitRunsOut_GoesIn(p) ==
  /\ step[p] \in Waiting /\ lstep[p] = "lost" /\ Fault
  /\ LockDone(p) /\ Goto(p, Enter[step[p]])
  /\ UNCHANGED <<file, age, want, dead, reused, repoVars, benchVars, cardVars, debtVars, robbed>>
WaitRunsOut(p) ==
  /\ step[p] \in Waiting /\ lstep[p] = "lost" /\ Fault
  /\ LockDone(p) /\ Goto(p, "parked")
  /\ UNCHANGED <<file, age, want, dead, reused, repoVars, benchVars, cardVars, debtVars, robbed>>

\* releaseProductRepoLock is through.
Left(p) ==
  /\ step[p] \in Leaving /\ lstep[p] = "none"
  /\ Goto(p, After[step[p]])
  /\ UNCHANGED <<lockVars, repoVars, benchVars, cardVars, debtVars, robbed, faults>>

\* A command exits with an error, or times out twice.
ParksAt(p, l) ==
  /\ step[p] = l /\ Fault /\ Leave(p, "leavePark")
  /\ UNCHANGED <<repoVars, benchVars, cardVars, debtVars, robbed>>

-----------------------------------------------------------------------------
(* payBenchReinstallDebtIfOwed: whatever fails, WORKTREE goes on.          *)

DebtFails(p) ==
  /\ step[p] \in {"debtFetch", "debtFf", "debtIdle", "debtClear"} /\ Fault
  /\ Goto(p, "setup")
  /\ UNCHANGED <<lockVars, repoVars, benchVars, cardVars, debtVars, robbed>>

ReadDebt(p) ==
  /\ step[p] = "debt"
  /\ read' = [read EXCEPT ![p] = owed]
  /\ Goto(p, IF owed = 0 THEN "setup" ELSE "debtFetch")
  /\ UNCHANGED <<lockVars, repoVars, benchVars, cardVars, owed, robbed, faults>>

Fetch(p, from, to) ==
  /\ step[p] = from
  /\ tracked' = main /\ Goto(p, to)
  /\ UNCHANGED <<lockVars, main, checkout, benchVars, cardVars, debtVars, robbed, faults>>

\* git merge --ff-only, on a clean main.
FastForward(p, from, to) ==
  /\ step[p] = from
  /\ checkout' = tracked /\ Goto(p, to)
  /\ UNCHANGED <<lockVars, main, tracked, benchVars, cardVars, debtVars, robbed, faults>>

\* One look at the bench, no wait; then merge-base --is-ancestor.
DebtIdle(p) ==
  /\ step[p] = "debtIdle"
  /\ \/ MayBeIdle /\ read[p] <= checkout /\ Goto(p, "debtInstall")
     \/ Goto(p, "setup")
  /\ UNCHANGED <<lockVars, repoVars, benchVars, cardVars, debtVars, robbed, faults>>

\* bench-install.sh builds the checkout and restarts the worker, which cuts the
\* jobs it has by then.
Installs(p) ==
  /\ installed' = checkout /\ jobs' = {}
  /\ UNCHANGED <<stray, late>>

\* It exits with an error, before or after the restart; or it times out, and what
\* its killed bash started may still be running.
InstallFails(p) ==
  /\ Fault
  /\ \/ UNCHANGED <<installed, jobs, stray>>
     \/ installed' = checkout /\ jobs' = {} /\ UNCHANGED stray
     \/ stray' = stray \cup {checkout} /\ UNCHANGED <<installed, jobs>>
  /\ UNCHANGED late

DebtInstall(p) ==
  /\ step[p] = "debtInstall"
  /\ \/ Installs(p) /\ Goto(p, "debtClear") /\ UNCHANGED faults
     \/ InstallFails(p) /\ Goto(p, "setup")
  /\ UNCHANGED <<lockVars, repoVars, cardVars, debtVars, robbed>>

\* clearBenchReinstallOwed
DebtClear(p) ==
  /\ step[p] = "debtClear"
  /\ owed' = 0 /\ Goto(p, "setup")
  /\ UNCHANGED <<lockVars, repoVars, benchVars, cardVars, read, robbed, faults>>

PayDebt(p) ==
  \/ ReadDebt(p) \/ Fetch(p, "debtFetch", "debtFf") \/ FastForward(p, "debtFf", "debtIdle")
  \/ DebtIdle(p) \/ DebtInstall(p) \/ DebtClear(p) \/ DebtFails(p)

-----------------------------------------------------------------------------
\* realWorktree: fetch, sweep, worktree add, npm ci.
SetsUp(p) ==
  /\ step[p] = "setup"
  /\ tracked' = main /\ read' = [read EXCEPT ![p] = 0]
  /\ Leave(p, "leaveSetup")
  /\ UNCHANGED <<main, checkout, benchVars, cardVars, owed, robbed, faults>>

\* board:take, outside the lock; then the steps up to the gate's job.
Claims(p) ==
  /\ step[p] = "claim"
  /\ \/ Goto(p, "gate") /\ jobs' = jobs \cup {p} /\ UNCHANGED faults
     \/ Fault /\ Goto(p, "parked") /\ UNCHANGED jobs
  /\ UNCHANGED <<lockVars, repoVars, installed, stray, late, cardVars, debtVars, robbed>>

\* The bench answers with a verdict.
GateEnds(p) ==
  /\ step[p] = "gate" /\ p \in jobs
  /\ jobs' = jobs \ {p} /\ Goto(p, "merge")
  /\ UNCHANGED <<lockVars, repoVars, installed, stray, late, cardVars, debtVars,
                 robbed, faults>>

\* A job cut by a restart writes no verdict: gate-non-attesting.
GateCut(p) ==
  /\ step[p] = "gate" /\ p \notin jobs
  /\ Goto(p, "parked")
  /\ UNCHANGED <<lockVars, repoVars, benchVars, cardVars, debtVars, robbed, faults>>

\* The merge queue lands the card, which touches the bench or not; FINISH starts.
Merges(p) ==
  /\ step[p] = "merge"
  /\ touches' \in {touches, touches \cup {p}}
  /\ main' = main + 1 /\ sha' = [sha EXCEPT ![p] = main + 1]
  /\ TryLock(p, RepoLock) /\ Goto(p, "lockSync")
  /\ UNCHANGED <<tracked, checkout, benchVars, debtVars, robbed, faults>>

-----------------------------------------------------------------------------
(* realFinish, under the lock as finish-sync.                              *)

\* A checkout that cannot be fast-forwarded parks only a card that touches the bench.
FfFails(p) ==
  /\ step[p] = "ff" /\ Fault
  /\ Leave(p, IF p \in touches THEN "leavePark" ELSE "leaveSync")
  /\ UNCHANGED <<repoVars, benchVars, cardVars, debtVars, robbed>>

FfWorks(p) ==
  /\ step[p] = "ff"
  /\ checkout' = tracked
  /\ IF p \in touches THEN Goto(p, "wait") /\ UNCHANGED lockVars ELSE Leave(p, "leaveSync")
  /\ UNCHANGED <<main, tracked, benchVars, cardVars, debtVars, robbed, faults>>

\* waitForBenchIdle: empty directories at one of its polls, or busy until the last.
BenchIdle(p) ==
  /\ step[p] = "wait" /\ MayBeIdle
  /\ Goto(p, "install")
  /\ UNCHANGED <<lockVars, repoVars, benchVars, cardVars, debtVars, robbed, faults>>

BenchBusy_Forgets(p) ==
  /\ step[p] = "wait"
  /\ Leave(p, "leaveSync")
  /\ UNCHANGED <<repoVars, benchVars, cardVars, debtVars, robbed, faults>>
BenchBusy(p) ==
  /\ step[p] = "wait"
  /\ Goto(p, "defer")
  /\ UNCHANGED <<lockVars, repoVars, benchVars, cardVars, debtVars, robbed, faults>>

\* writeBenchReinstallOwed replaces what was owed.
Defer(p) ==
  /\ step[p] = "defer"
  /\ owed' = sha[p]
  /\ Leave(p, "leaveSync")
  /\ UNCHANGED <<repoVars, benchVars, cardVars, read, robbed, faults>>

Install(p) ==
  /\ step[p] = "install"
  /\ \/ Installs(p) /\ Leave(p, "leaveSync") /\ UNCHANGED faults
     \/ InstallFails(p) /\ Leave(p, "leavePark")
  /\ UNCHANGED <<repoVars, cardVars, debtVars, robbed>>

\* Board move and comment, then the lock again, as finish.
Closes(p) ==
  /\ step[p] = "close"
  /\ \/ TryLock(p, RepoLock) /\ Goto(p, "lockRemove") /\ UNCHANGED faults
     \/ Fault /\ Goto(p, "parked") /\ UNCHANGED lockVars
  /\ UNCHANGED <<repoVars, benchVars, cardVars, debtVars, robbed>>

Removes(p) ==
  /\ step[p] = "remove"
  /\ Leave(p, "leaveRemove")
  /\ UNCHANGED <<repoVars, benchVars, cardVars, debtVars, robbed, faults>>

\* At "ff": gh pr view or git diff does not tell the merge commit or what it touches.
Parks(p) == \E l \in {"setup", "fetch", "ff", "wait", "defer", "remove"} : ParksAt(p, l)

Finish(p) ==
  \/ Fetch(p, "fetch", "ff") \/ FfFails(p) \/ FfWorks(p)
  \/ BenchIdle(p) \/ BenchBusy(p) \/ Defer(p) \/ Install(p) \/ Closes(p) \/ Removes(p)

-----------------------------------------------------------------------------
UseLock(p) ==
  /\ LockStep(p)
  /\ robbed' = (robbed \/ (lstep[p] \in {"sweep", "unlink"} /\ file[RepoLock] \in Proc \ (dead \cup {p})))
  /\ UNCHANGED <<step, repoVars, benchVars, cardVars, debtVars, faults>>

\* The worker is killed; a command of its own may have been cut anywhere.
Crash(p) ==
  /\ p \in Running /\ Cardinality(dead) < MaxDead
  /\ Die(p) /\ Goto(p, "gone")
  /\ stray' = IF step[p] \in {"install", "debtInstall"} THEN stray \cup {checkout} ELSE stray
  /\ UNCHANGED <<repoVars, installed, jobs, late, cardVars, debtVars, robbed, faults>>

\* What a killed bash left running restarts the worker on its own build.
StrayLands(v) ==
  /\ v \in stray
  /\ stray' = stray \ {v} /\ installed' = v /\ late' = TRUE
  /\ jobs' = {}
  /\ UNCHANGED <<lockVars, step, repoVars, cardVars, debtVars, robbed, faults>>

\* The bench ends a job whose worker is dead.
JobEnds(p) ==
  /\ p \in jobs /\ p \in dead
  /\ jobs' = jobs \ {p}
  /\ UNCHANGED <<lockVars, step, repoVars, installed, stray, late, cardVars,
                 debtVars, robbed, faults>>

\* Time: a worker lets go of the lock before MAX_LOCK_AGE_MS (product-repo-hold.js).
Tick ==
  /\ file[RepoLock] \in dead /\ ~Expired(RepoLock)
  /\ age' = [age EXCEPT ![RepoLock] = @ + 1]
  /\ UNCHANGED <<file, lstep, want, dead, reused, step, repoVars, benchVars, cardVars, debtVars,
                 robbed, faults>>

StepOf(p) ==
  \/ Start(p) \/ Entered(p) \/ Poll(p) \/ WaitRunsOut(p) \/ Left(p)
  \/ PayDebt(p) \/ SetsUp(p) \/ Claims(p) \/ GateEnds(p) \/ GateCut(p) \/ Merges(p)
  \/ Finish(p) \/ Parks(p) \/ UseLock(p) \/ Crash(p)

Next ==
  \/ \E p \in Proc \ dead : StepOf(p)
  \/ \E v \in stray : StrayLands(v)
  \/ \E p \in dead : JobEnds(p)
  \/ Tick

Spec == Init /\ [][Next]_vars

-----------------------------------------------------------------------------
\* Two workers are never both in the clone, also when one that died held the lock
\* (acquireProductRepoLock), as long as nobody unlinked a live worker's lock: two
\* that found the same dead holder may sweep one after the other.
OneInside ==
  ~robbed => \A p, q \in Proc : p # q => ~(step[p] \in Inside /\ step[q] \in Inside)

\* Past FINISH's sync, a merge that touched the bench worker is installed or owed
\* (realFinish, writeBenchReinstallOwed): one record is enough for all of them.
NoForgottenReinstall ==
  ~robbed /\ ~late =>
    \A p \in touches : step[p] \in {"leaveSync", "close", "lockRemove", "remove", "leaveRemove", "done"}
                       => installed >= sha[p] \/ owed > 0
============================================================================
