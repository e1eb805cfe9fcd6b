---------------------------- MODULE Locks_proofs ----------------------------
(***************************************************************************)
(* Proofs about two users of lock.js: ProductRepo, for any number of       *)
(* workers, failures and deaths, and DaemonLock, for any set of daemons.   *)
(***************************************************************************)
EXTENDS ProductRepo, DaemonLock, TLAPS

-----------------------------------------------------------------------------
(* The product repository's lock: its inductive invariant.                 *)

Trying == {"create", "read", "sweep", "again", "won", "lost"}

LocksOK ==
  /\ file \in [File -> Proc \cup {NoProc}] /\ age \in [File -> Nat]
  /\ lstep \in [Proc -> LockSteps] /\ want \in [Proc -> File]
  /\ dead \in SUBSET Proc /\ reused \in SUBSET dead
StepsOK == step \in [Proc -> Steps]

\* What a worker does with the lock goes with where it is.
Place(p) ==
  /\ step[p] \in Waiting => lstep[p] \in Trying
  /\ step[p] \in Inside \cup Outside => lstep[p] = "none"
  /\ step[p] \in Leaving => lstep[p] \in {"none", "unlink"}
  /\ p \in dead <=> step[p] = "gone"
Placed == \A p \in Proc : Place(p)

\* Who has the lock is the worker its file names.
Has(p) == step[p] \in Inside \/ lstep[p] \in {"won", "unlink"}
HolderIsNamed == ~robbed => \A p \in Proc : Has(p) => file[RepoLock] = p

\* While nobody died the file names nobody but who has it, and nobody sweeps.
LiveIsKept ==
  dead = {} =>
    /\ ~robbed /\ age[RepoLock] = 0
    /\ file[RepoLock] \in Proc => Has(file[RepoLock])
    /\ \A p \in Proc : lstep[p] # "sweep"

LockInv == LocksOK /\ StepsOK /\ robbed \in BOOLEAN /\ Placed /\ HolderIsNamed /\ LiveIsKept

-----------------------------------------------------------------------------
(* The clone and the bench worker: theirs.                                 *)

Past == {"leaveSync", "close", "lockRemove", "remove", "leaveRemove", "done"}
Merged == {"lockSync"} \cup Sync \cup Past

ClonesOK ==
  /\ touches \subseteq Proc /\ sha \in [Proc -> 0..main]
  /\ main \in Nat /\ tracked \in 0..main /\ checkout \in 0..tracked /\ installed \in 0..checkout
  /\ owed \in 0..tracked /\ read \in [Proc -> 0..tracked]
RestOK ==
  /\ jobs \subseteq Proc /\ stray \subseteq 0..checkout
  /\ late \in BOOLEAN /\ faults \in 0..MaxFaults

\* What a worker in FINISH may build on: its merge has been fetched, then checked
\* out; and it stays so past the sync, when it touches the bench worker.
Based(p) ==
  /\ step[p] = "ff" => sha[p] <= tracked
  /\ step[p] \in {"wait", "install", "defer"} => sha[p] <= checkout
  /\ p \in touches /\ step[p] \in Past => sha[p] <= checkout
  /\ step[p] \in Merged => sha[p] > 0
AllBased == \A p \in Proc : Based(p)

\* Before a debt is cleared, everything past its sync is installed.
DebtIsPaid ==
  ~robbed /\ ~late => \A p \in Proc, q \in touches :
    step[p] = "debtClear" /\ step[q] \in Past => installed >= sha[q]

CloneInv == ClonesOK /\ AllBased /\ NoForgottenReinstall /\ DebtIsPaid

IInv == LockInv /\ RestOK /\ CloneInv

-----------------------------------------------------------------------------
(* Lemmas.                                                                 *)

LEMMA Bounds ==
  /\ File = {RepoLock} /\ AgeLimit[RepoLock] \in Nat /\ AgeLimit[RepoLock] > 0
  /\ NoProc \notin Proc /\ MaxFaults \in Nat
BY RepoAssumption, ShortLockAssumption

LEMMA IInvImpliesTypeOK == IInv => TypeOK
BY DEF IInv, LockInv, LocksOK, StepsOK, RestOK, CloneInv, ClonesOK, TypeOK, LockTypeOK

LEMMA IInvImpliesOneInside == LockInv => OneInside
BY DEF LockInv, HolderIsNamed, Has, OneInside

USE DEF SetUp, Sync, Inside, Waiting, Leaving, Outside, Steps, Goto

LEMMA GotoMoves ==
  ASSUME StepsOK, NEW p \in Proc, NEW l \in Steps, Goto(p, l)
  PROVE  StepsOK' /\ step'[p] = l /\ \A q \in Proc \ {p} : step'[q] = step[q]
BY DEF StepsOK

\* A worker that has nothing to do with the lock, or keeps it, goes on.
LEMMA WalkKeeps ==
  ASSUME LockInv, NEW p \in Proc \ dead, NEW l \in (Inside \cup Outside) \ {"gone"},
         lstep[p] = "none", l \in Inside <=> step[p] \in Inside,
         Goto(p, l), UNCHANGED <<lockVars, robbed>>
  PROVE  LockInv'
<1>1. StepsOK' /\ step'[p] = l /\ \A q \in Proc \ {p} : step'[q] = step[q]
  BY GotoMoves DEF LockInv
<1>2. LocksOK' /\ robbed' \in BOOLEAN
  BY DEF LockInv, LocksOK, lockVars
<1>3. \A q \in Proc : Has(q)' <=> Has(q)
  BY <1>1 DEF Has, lockVars
<1>4. Placed'
  BY <1>1 DEF LockInv, Placed, Place, lockVars
<1>5. HolderIsNamed' /\ LiveIsKept'
  BY <1>3 DEF LockInv, HolderIsNamed, LiveIsKept, lockVars
<1> QED
  BY <1>1, <1>2, <1>4, <1>5 DEF LockInv

\* It tries for the lock.
LEMMA TryKeeps ==
  ASSUME LockInv, NEW p \in Proc \ dead, NEW l \in Waiting,
         lstep[p] \in {"none", "lost"}, step[p] \notin Inside,
         TryLock(p, RepoLock), Goto(p, l), UNCHANGED robbed
  PROVE  LockInv'
<1>1. StepsOK' /\ step'[p] = l /\ \A q \in Proc \ {p} : step'[q] = step[q]
  BY GotoMoves DEF LockInv
<1>2. /\ LocksOK' /\ robbed' \in BOOLEAN /\ UNCHANGED <<file, age, dead, reused>>
      /\ lstep'[p] = "create" /\ \A q \in Proc \ {p} : lstep'[q] = lstep[q]
  BY Bounds DEF LockInv, LocksOK, LockSteps, TryLock
<1>3. \A q \in Proc : Has(q)' <=> Has(q)
  BY <1>1, <1>2 DEF Has
<1>4. Placed'
  BY <1>1, <1>2 DEF LockInv, Placed, Place, Trying
<1>5. HolderIsNamed' /\ LiveIsKept'
  BY <1>2, <1>3 DEF LockInv, HolderIsNamed, LiveIsKept
<1> QED
  BY <1>1, <1>2, <1>4, <1>5 DEF LockInv

\* It goes in with the lock, or gives up without.
LEMMA DoneKeeps ==
  ASSUME LockInv, NEW p \in Proc \ dead, step[p] \in Waiting, NEW l \in Steps,
         (lstep[p] = "won" /\ l \in Inside) \/ (lstep[p] = "lost" /\ l = "parked"),
         LockDone(p), Goto(p, l), UNCHANGED <<file, age, want, dead, reused, robbed>>
  PROVE  LockInv'
<1>1. StepsOK' /\ step'[p] = l /\ \A q \in Proc \ {p} : step'[q] = step[q]
  BY GotoMoves DEF LockInv
<1>2. /\ LocksOK' /\ robbed' \in BOOLEAN
      /\ lstep'[p] = "none" /\ \A q \in Proc \ {p} : lstep'[q] = lstep[q]
  BY DEF LockInv, LocksOK, LockSteps, LockDone
<1>3. \A q \in Proc : Has(q)' <=> Has(q)
  BY <1>1, <1>2 DEF Has
<1>4. Placed'
  BY <1>1, <1>2 DEF LockInv, Placed, Place
<1>5. HolderIsNamed' /\ LiveIsKept'
  BY <1>2, <1>3 DEF LockInv, HolderIsNamed, LiveIsKept
<1> QED
  BY <1>1, <1>2, <1>4, <1>5 DEF LockInv

\* It starts to give the lock back: it has it as long as the file is its own.
LEMMA LeaveKeeps ==
  ASSUME LockInv, NEW p \in Proc \ dead, step[p] \in Inside, NEW l \in Leaving,
         Leave(p, l), UNCHANGED robbed
  PROVE  LockInv'
<1>1. StepsOK' /\ step'[p] = l /\ \A q \in Proc \ {p} : step'[q] = step[q]
  BY GotoMoves DEF LockInv, Leave
<1>2. /\ LocksOK' /\ robbed' \in BOOLEAN /\ UNCHANGED <<file, age, dead, reused>>
      /\ lstep'[p] = IF file[RepoLock] = p THEN "unlink" ELSE "none"
      /\ \A q \in Proc \ {p} : lstep'[q] = lstep[q]
  BY Bounds DEF LockInv, LocksOK, LockSteps, Leave, ReleaseFile
<1>3. /\ \A q \in Proc \ {p} : Has(q)' <=> Has(q)
      /\ Has(p)' <=> file[RepoLock] = p
  BY <1>1, <1>2 DEF Has
<1>4. Placed'
  BY <1>1, <1>2 DEF LockInv, Placed, Place
<1>5. HolderIsNamed'
  BY <1>2, <1>3 DEF LockInv, HolderIsNamed
<1>6. LiveIsKept'
  BY <1>2, <1>3 DEF LockInv, LiveIsKept
<1> QED
  BY <1>1, <1>2, <1>4, <1>5, <1>6 DEF LockInv

\* A step inside acquireShortLock or releaseShortLock.  A file is created where
\* there is none; what is unlinked was the worker's own, or a dead one's, or its
\* owner is robbed.
LEMMA UseLockKeeps ==
  ASSUME LockInv, NEW p \in Proc \ dead, UseLock(p)
  PROVE  LockInv'
<1>1. /\ StepsOK' /\ robbed' \in BOOLEAN /\ UNCHANGED <<step, want, dead, reused>>
      /\ want[p] = RepoLock
  BY Bounds DEF LockInv, StepsOK, LocksOK, UseLock, LockStep, CreateFile, CreateAgain, Attempt,
                JudgeFile, SweepFile, UnlinkFile
<1>2. CASE CreateFile(p) \/ CreateAgain(p)
  <2>1. PICK from \in {"create", "again"}, other \in {"read", "lost"} : Attempt(p, from, other)
    BY <1>2 DEF CreateFile, CreateAgain
  <2>2. lstep[p] = from /\ robbed' = robbed
    BY <2>1 DEF Attempt, UseLock, LockInv
  <2>3. CASE file[RepoLock] = NoProc
    <3>1. /\ file' = [file EXCEPT ![RepoLock] = p] /\ age' = [age EXCEPT ![RepoLock] = 0]
          /\ lstep' = [lstep EXCEPT ![p] = "won"]
      BY <1>1, <2>1, <2>3 DEF Attempt, Put
    <3>2. /\ LocksOK' /\ file'[RepoLock] = p /\ age'[RepoLock] = 0
          /\ lstep'[p] = "won" /\ \A q \in Proc \ {p} : lstep'[q] = lstep[q]
      BY <1>1, <3>1, Bounds DEF LockInv, LocksOK, LockSteps
    <3>3. Has(p)' /\ \A q \in Proc \ {p} : Has(q)' <=> Has(q)
      BY <1>1, <3>2 DEF Has
    <3>4. Placed'
      BY <1>1, <2>2, <3>2 DEF LockInv, Placed, Place, Trying
    <3>5. HolderIsNamed'
      BY <2>2, <2>3, <3>2, <3>3, Bounds DEF LockInv, HolderIsNamed
    <3>6. LiveIsKept'
      BY <1>1, <2>2, <3>2, <3>3 DEF LockInv, LiveIsKept
    <3> QED
      BY <1>1, <3>2, <3>4, <3>5, <3>6 DEF LockInv
  <2>4. CASE file[RepoLock] # NoProc
    <3>1. UNCHANGED <<file, age>> /\ lstep' = [lstep EXCEPT ![p] = other]
      BY <1>1, <2>1, <2>4 DEF Attempt
    <3>2. LocksOK' /\ lstep'[p] = other /\ \A q \in Proc \ {p} : lstep'[q] = lstep[q]
      BY <1>1, <3>1 DEF LockInv, LocksOK, LockSteps
    <3>3. \A q \in Proc : Has(q)' <=> Has(q)
      BY <1>1, <2>2, <3>2 DEF Has
    <3>4. Placed'
      BY <1>1, <2>2, <3>2 DEF LockInv, Placed, Place, Trying
    <3>5. HolderIsNamed' /\ LiveIsKept'
      BY <1>1, <2>2, <3>1, <3>2, <3>3 DEF LockInv, HolderIsNamed, LiveIsKept
    <3> QED
      BY <1>1, <3>2, <3>4, <3>5 DEF LockInv
  <2> QED
    BY <2>3, <2>4
<1>3. CASE JudgeFile(p)
  <2>1. PICK l \in {"again", "lost", "sweep"} :
          /\ lstep' = [lstep EXCEPT ![p] = l]
          /\ l = "sweep" => file[RepoLock] # NoProc /\ ~Held(RepoLock)
    BY <1>1, <1>3 DEF JudgeFile
  <2>2. lstep[p] = "read" /\ robbed' = robbed /\ UNCHANGED <<file, age>>
    BY <1>3 DEF JudgeFile, UseLock, LockInv
  <2>3. LocksOK' /\ lstep'[p] = l /\ \A q \in Proc \ {p} : lstep'[q] = lstep[q]
    BY <1>1, <2>1, <2>2 DEF LockInv, LocksOK, LockSteps
  <2>4. \A q \in Proc : Has(q)' <=> Has(q)
    BY <1>1, <2>2, <2>3 DEF Has
  <2>5. Placed'
    BY <1>1, <2>2, <2>3 DEF LockInv, Placed, Place, Trying
  <2>6. HolderIsNamed'
    BY <2>2, <2>4 DEF LockInv, HolderIsNamed
  <2>7. dead = {} => l # "sweep"
    <3>1. dead = {} /\ age[RepoLock] = 0 => ~Expired(RepoLock)
      BY Bounds DEF Expired
    <3>2. file[RepoLock] \in Proc \cup {NoProc}
      BY Bounds DEF LockInv, LocksOK
    <3> QED
      BY <2>1, <3>1, <3>2 DEF LockInv, LiveIsKept, Held, PidAlive
  <2>8. LiveIsKept'
    BY <1>1, <2>2, <2>3, <2>4, <2>7 DEF LockInv, LiveIsKept
  <2> QED
    BY <1>1, <2>3, <2>5, <2>6, <2>8 DEF LockInv
<1>4. CASE SweepFile(p) \/ UnlinkFile(p)
  <2>1. PICK l \in {"again", "none"} :
          /\ lstep' = [lstep EXCEPT ![p] = l]
          /\ (lstep[p] = "sweep" /\ l = "again") \/ (lstep[p] = "unlink" /\ l = "none")
    <3>1. CASE SweepFile(p)
      BY <3>1 DEF SweepFile
    <3>2. CASE UnlinkFile(p)
      BY <3>2 DEF UnlinkFile, LockDone
    <3> QED
      BY <1>4, <3>1, <3>2
  <2>2. /\ file' = [file EXCEPT ![RepoLock] = NoProc] /\ age' = [age EXCEPT ![RepoLock] = 0]
        /\ robbed' = (robbed \/ file[RepoLock] \in Proc \ (dead \cup {p}))
    BY <1>1, <1>4 DEF SweepFile, UnlinkFile, Put, UseLock
  <2>3. /\ LocksOK' /\ file'[RepoLock] = NoProc /\ age'[RepoLock] = 0
        /\ lstep'[p] = l /\ \A q \in Proc \ {p} : lstep'[q] = lstep[q]
    BY <1>1, <2>1, <2>2, Bounds DEF LockInv, LocksOK, LockSteps
  <2>4. ~Has(p)' /\ \A q \in Proc \ {p} : Has(q)' <=> Has(q)
    BY <1>1, <2>1, <2>3 DEF LockInv, Placed, Place, Has
  <2>5. Placed'
    BY <1>1, <2>1, <2>3 DEF LockInv, Placed, Place, Trying
  <2>6. HolderIsNamed'
    <3> SUFFICES ASSUME ~robbed', NEW q \in Proc, Has(q)' PROVE FALSE
      BY DEF HolderIsNamed
    <3>1. q # p /\ Has(q) /\ q \notin dead
      BY <1>1, <2>3, <2>4 DEF LockInv, Placed, Place, Has
    <3>2. file[RepoLock] = q
      BY <2>2, <3>1 DEF LockInv, HolderIsNamed
    <3> QED
      BY <2>2, <3>1, <3>2
  <2>7. LiveIsKept'
    <3>1. dead = {} => lstep[p] = "unlink" /\ file[RepoLock] = p
      BY <2>1 DEF LockInv, LiveIsKept, HolderIsNamed, Has
    <3> QED
      BY <1>1, <2>1, <2>2, <2>3, <3>1, Bounds DEF LockInv, LiveIsKept
  <2> QED
    BY <1>1, <2>3, <2>5, <2>6, <2>7 DEF LockInv
<1> QED
  BY <1>2, <1>3, <1>4 DEF UseLock, LockStep

\* A worker dies, and has nothing any more.
LEMMA CrashKeeps ==
  ASSUME LockInv, NEW p \in Proc \ dead, Crash(p)
  PROVE  LockInv'
<1>1. StepsOK' /\ step'[p] = "gone" /\ \A q \in Proc \ {p} : step'[q] = step[q]
  BY GotoMoves DEF LockInv, Crash
<1>2. /\ LocksOK' /\ robbed' \in BOOLEAN /\ dead' = dead \cup {p} /\ UNCHANGED <<file, robbed>>
      /\ lstep'[p] = "none" /\ \A q \in Proc \ {p} : lstep'[q] = lstep[q]
  BY DEF LockInv, LocksOK, LockSteps, LockDone, Crash, Die
<1>3. ~Has(p)' /\ \A q \in Proc \ {p} : Has(q)' <=> Has(q)
  BY <1>1, <1>2 DEF Has
<1>4. Placed'
  BY <1>1, <1>2 DEF LockInv, Placed, Place
<1>5. HolderIsNamed' /\ LiveIsKept'
  BY <1>2, <1>3 DEF LockInv, HolderIsNamed, LiveIsKept
<1> QED
  BY <1>1, <1>2, <1>4, <1>5 DEF LockInv

\* The lock of a dead worker ages; and what has nothing to do with the lock.
LEMMA TickKeeps ==
  ASSUME LockInv, Tick
  PROVE  LockInv'
<1>1. /\ LocksOK' /\ file[RepoLock] \in dead
      /\ UNCHANGED <<file, lstep, want, dead, reused, step, robbed>>
  BY Bounds DEF LockInv, LocksOK, Tick
<1>2. \A q \in Proc : Has(q)' <=> Has(q)
  BY <1>1 DEF Has
<1> QED
  BY <1>1, <1>2 DEF LockInv, StepsOK, Placed, Place, HolderIsNamed, LiveIsKept

LEMMA ElsewhereKeeps ==
  ASSUME LockInv, UNCHANGED <<lockVars, step, robbed>>
  PROVE  LockInv'
<1>1. \A q \in Proc : Has(q)' <=> Has(q)
  BY DEF Has, lockVars
<1> QED
  BY <1>1 DEF LockInv, LocksOK, StepsOK, Placed, Place, HolderIsNamed, LiveIsKept, lockVars

-----------------------------------------------------------------------------
(* The clone and the bench worker.                                         *)

\* Who goes on without touching the clone, the bench worker or the debt, and past
\* FINISH's sync only from there or with nothing to install.
LEMMA SteerKeeps ==
  ASSUME CloneInv, StepsOK, NEW p \in Proc, NEW l \in Steps, Goto(p, l),
         UNCHANGED <<repoVars, installed, cardVars, debtVars>>,
         robbed => robbed', late => late',
         l \in {"ff", "wait", "install", "defer", "debtClear"} =>
           l = step[p] \/ (step[p] = "wait" /\ l \in {"install", "defer"}),
         l \in Past => step[p] \in Past \/ p \notin touches,
         l \in Merged => step[p] \in Merged
  PROVE  CloneInv'
<1> USE DEF repoVars, cardVars, debtVars
<1>1. step'[p] = l /\ \A q \in Proc \ {p} : step'[q] = step[q]
  BY GotoMoves
<1>2. ClonesOK'
  BY DEF CloneInv, ClonesOK
<1>3. AllBased'
  BY <1>1 DEF CloneInv, AllBased, Based
<1>4. NoForgottenReinstall' /\ DebtIsPaid'
  BY <1>1 DEF CloneInv, ClonesOK, NoForgottenReinstall, DebtIsPaid, Past
<1> QED
  BY <1>2, <1>3, <1>4 DEF CloneInv

\* What only adds to what is fetched or checked out.
LEMMA AdvanceKeeps ==
  ASSUME CloneInv, StepsOK, NEW p \in Proc,
         \/ Fetch(p, "debtFetch", "debtFf") \/ Fetch(p, "fetch", "ff")
         \/ FastForward(p, "debtFf", "debtIdle")
  PROVE  CloneInv'
<1> USE DEF benchVars, cardVars, debtVars
<1>1. PICK l \in {"debtFf", "ff", "debtIdle"} :
        /\ Goto(p, l)
        /\ l = "ff" => step[p] = "fetch" /\ tracked' = main
  BY DEF Fetch, FastForward
<1>2. step'[p] = l /\ \A q \in Proc \ {p} : step'[q] = step[q]
  BY <1>1, GotoMoves
<1>3. /\ UNCHANGED <<main, installed, touches, sha, owed, read, robbed, late>>
      /\ tracked' \in {tracked, main} /\ checkout' \in {checkout, tracked}
      /\ tracked' = tracked \/ checkout' = checkout
  BY DEF Fetch, FastForward
<1>4. /\ ClonesOK' /\ tracked' >= tracked /\ checkout' >= checkout
  BY <1>3 DEF CloneInv, ClonesOK
<1>5. AllBased'
  <2> SUFFICES ASSUME NEW q \in Proc PROVE Based(q)'
    BY DEF AllBased
  <2>1. Based(q) /\ sha[q] \in 0..main /\ sha' = sha /\ touches' = touches
    BY <1>3 DEF CloneInv, ClonesOK, AllBased
  <2>2. {main, tracked, tracked', checkout, checkout'} \subseteq Nat
    BY <1>4, <1>3 DEF CloneInv, ClonesOK
  <2>3. CASE q = p
    BY <1>1, <1>2, <2>1, <2>3 DEF Based, Past, Merged
  <2>4. CASE q # p
    BY <1>2, <1>4, <2>1, <2>2, <2>4 DEF Based
  <2> QED
    BY <2>3, <2>4
<1>6. NoForgottenReinstall' /\ DebtIsPaid'
  BY <1>1, <1>2, <1>3 DEF CloneInv, NoForgottenReinstall, DebtIsPaid, Past
<1> QED
  BY <1>4, <1>5, <1>6 DEF CloneInv

\* The set-up reads what is owed, and makes its worktree.
LEMMA SetUpKeeps ==
  ASSUME CloneInv, StepsOK, NEW p \in Proc, ReadDebt(p) \/ SetsUp(p)
  PROVE  CloneInv'
<1> USE DEF repoVars, benchVars, cardVars
<1>1. PICK l \in {"setup", "debtFetch", "leaveSetup"} : Goto(p, l)
  BY DEF ReadDebt, SetsUp, Leave
<1>2. step'[p] = l /\ \A q \in Proc \ {p} : step'[q] = step[q]
  BY <1>1, GotoMoves
<1>3. /\ UNCHANGED <<main, checkout, installed, touches, sha, owed, robbed, late>>
      /\ tracked' \in {tracked, main}
      /\ read' = [read EXCEPT ![p] = owed] \/ read' = [read EXCEPT ![p] = 0]
  BY DEF ReadDebt, SetsUp
<1>4. ClonesOK' /\ tracked' >= tracked
  BY <1>3 DEF CloneInv, ClonesOK
<1>5. AllBased'
  BY <1>2, <1>3, <1>4 DEF CloneInv, ClonesOK, AllBased, Based, Past, Merged
<1>6. NoForgottenReinstall' /\ DebtIsPaid'
  BY <1>2, <1>3 DEF CloneInv, ClonesOK, NoForgottenReinstall, DebtIsPaid, Past
<1> QED
  BY <1>4, <1>5, <1>6 DEF CloneInv

\* What the bench worker is built from is the checkout, and never older than before;
\* all that is past FINISH's sync is in the checkout.
LEMMA DebtInstallKeeps ==
  ASSUME CloneInv, StepsOK, NEW p \in Proc, DebtInstall(p)
  PROVE  CloneInv'
<1> USE DEF repoVars, cardVars, debtVars
<1>1. PICK l \in {"setup", "debtClear"} : Goto(p, l) /\ (l = "debtClear" => installed' = checkout)
  BY DEF DebtInstall, Installs
<1>2. step'[p] = l /\ \A q \in Proc \ {p} : step'[q] = step[q]
  BY <1>1, GotoMoves
<1>3. /\ UNCHANGED <<main, tracked, checkout, touches, sha, owed, read, robbed, late>>
      /\ installed' \in {installed, checkout}
  BY DEF DebtInstall, Installs, InstallFails
<1>4. ClonesOK' /\ installed' >= installed
  BY <1>3 DEF CloneInv, ClonesOK
<1>5. AllBased'
  BY <1>2, <1>3 DEF CloneInv, AllBased, Based, Past, Merged
<1>6. NoForgottenReinstall'
  BY <1>2, <1>3, <1>4 DEF CloneInv, ClonesOK, NoForgottenReinstall
<1>7. DebtIsPaid'
  BY <1>1, <1>2, <1>3, <1>4 DEF CloneInv, ClonesOK, AllBased, Based, DebtIsPaid, Past
<1> QED
  BY <1>4, <1>5, <1>6, <1>7 DEF CloneInv

LEMMA DebtClearKeeps ==
  ASSUME CloneInv, StepsOK, NEW p \in Proc, DebtClear(p)
  PROVE  CloneInv'
<1> USE DEF repoVars, benchVars, cardVars
<1>1. step'[p] = "setup" /\ \A q \in Proc \ {p} : step'[q] = step[q]
  BY GotoMoves DEF DebtClear
<1>2. /\ step[p] = "debtClear" /\ owed' = 0
      /\ UNCHANGED <<main, tracked, checkout, installed, touches, sha, read, robbed, late>>
  BY DEF DebtClear
<1>3. ClonesOK'
  BY <1>2 DEF CloneInv, ClonesOK
<1>4. AllBased'
  BY <1>1, <1>2 DEF CloneInv, AllBased, Based, Past, Merged
<1>5. NoForgottenReinstall' /\ DebtIsPaid'
  BY <1>1, <1>2 DEF CloneInv, ClonesOK, NoForgottenReinstall, DebtIsPaid, Past
<1> QED
  BY <1>3, <1>4, <1>5 DEF CloneInv

\* A merge is main's next commit.
LEMMA MergesKeeps ==
  ASSUME CloneInv, StepsOK, NEW p \in Proc, Merges(p)
  PROVE  CloneInv'
<1> USE DEF benchVars, debtVars
<1>1. step'[p] = "lockSync" /\ \A q \in Proc \ {p} : step'[q] = step[q]
  BY GotoMoves DEF Merges
<1>2. /\ touches' \in {touches, touches \cup {p}}
      /\ main' = main + 1 /\ sha' = [sha EXCEPT ![p] = main + 1]
      /\ UNCHANGED <<tracked, checkout, installed, owed, read, robbed, late>>
  BY DEF Merges
<1>3. ClonesOK' /\ sha'[p] = main + 1 /\ main + 1 > 0 /\ \A q \in Proc \ {p} : sha'[q] = sha[q]
  BY <1>2 DEF CloneInv, ClonesOK
<1>4. AllBased'
  BY <1>1, <1>2, <1>3 DEF CloneInv, AllBased, Based, Past, Merged
<1>5. NoForgottenReinstall' /\ DebtIsPaid'
  BY <1>1, <1>2, <1>3 DEF CloneInv, ClonesOK, NoForgottenReinstall, DebtIsPaid, Past
<1> QED
  BY <1>3, <1>4, <1>5 DEF CloneInv

\* A worker inside FINISH's sync is alone in the clone: nobody clears a debt.
LEMMA NobodyClears ==
  ASSUME OneInside, ~robbed, NEW p \in Proc, step[p] \in Sync
  PROVE  \A q \in Proc : step[q] # "debtClear"
BY DEF OneInside

\* Who comes past the sync is installed, or owed, or had nothing to install.
LEMMA SyncedKeeps ==
  ASSUME CloneInv, OneInside, StepsOK, NEW p \in Proc, FfWorks(p) \/ Defer(p) \/ Install(p)
  PROVE  CloneInv'
<1> USE DEF repoVars, benchVars, cardVars, debtVars
<1>1. PICK l \in {"wait", "leaveSync", "leavePark"} :
        /\ Goto(p, l)
        /\ l = "wait" => step[p] = "ff" /\ checkout' = tracked
        /\ l = "leaveSync" => \/ p \notin touches
                              \/ step[p] = "defer" /\ owed' = sha[p]
                              \/ step[p] = "install" /\ installed' = checkout
  BY DEF FfWorks, Defer, Install, Installs, Leave
<1>2. step'[p] = l /\ \A q \in Proc \ {p} : step'[q] = step[q]
  BY <1>1, GotoMoves
<1>3. /\ UNCHANGED <<main, tracked, touches, sha, read, robbed, late>> /\ step[p] \in Sync
      /\ checkout' \in {checkout, tracked} /\ installed' \in {installed, checkout}
      /\ owed' = owed \/ (owed' = sha[p] /\ step[p] = "defer")
      /\ step[p] \in {"defer", "install"} => checkout' = checkout
      /\ step[p] = "ff" => installed' = installed
  BY DEF FfWorks, Defer, Install, Installs, InstallFails
<1>4. Based(p) /\ sha[p] \in Nat
  BY DEF CloneInv, ClonesOK, AllBased
<1>5. /\ ClonesOK' /\ checkout' >= checkout /\ installed' >= installed
      /\ owed' = owed \/ owed' > 0
  BY <1>3, <1>4 DEF CloneInv, ClonesOK, Based, Merged
<1>6. AllBased'
  <2> SUFFICES ASSUME NEW q \in Proc PROVE Based(q)'
    BY DEF AllBased
  <2>1. Based(q) /\ UNCHANGED <<tracked, touches, sha>>
    BY <1>3 DEF CloneInv, AllBased
  <2>2. {sha[q], tracked, checkout, checkout'} \subseteq Nat
    BY <1>5, <1>3 DEF CloneInv, ClonesOK
  <2>3. CASE q = p
    BY <1>1, <1>2, <1>3, <1>5, <2>1, <2>2, <2>3 DEF Based, Past, Merged
  <2>4. CASE q # p
    BY <1>2, <1>5, <2>1, <2>2, <2>4 DEF Based
  <2> QED
    BY <2>3, <2>4
<1>7. NoForgottenReinstall'
  <2> SUFFICES ASSUME ~robbed, ~late, NEW q \in touches, step'[q] \in Past
               PROVE  installed' >= sha[q] \/ owed' > 0
    BY <1>3 DEF NoForgottenReinstall, Past
  <2>1. {sha[q], installed, installed', checkout, owed} \subseteq Nat /\ q \in Proc
    BY <1>5, <1>3 DEF CloneInv, ClonesOK
  <2>2. CASE q = p
    BY <1>1, <1>2, <1>4, <2>1, <2>2 DEF Based, Past, Merged
  <2>3. CASE q # p
    BY <1>2, <1>5, <2>1, <2>3 DEF CloneInv, NoForgottenReinstall, Past
  <2> QED
    BY <2>2, <2>3
<1>8. DebtIsPaid'
  BY <1>1, <1>2, <1>3, NobodyClears DEF DebtIsPaid
<1> QED
  BY <1>5, <1>6, <1>7, <1>8 DEF CloneInv

\* A build nobody waits for any more comes too late.
LEMMA StrayKeeps ==
  ASSUME CloneInv, RestOK, NEW v \in stray, StrayLands(v)
  PROVE  CloneInv'
BY DEF CloneInv, ClonesOK, RestOK, AllBased, Based, NoForgottenReinstall, DebtIsPaid, StrayLands,
       repoVars, cardVars, debtVars

-----------------------------------------------------------------------------
(* Every step keeps them.                                                  *)

LEMMA InitIInv == Init => IInv
<1> SUFFICES ASSUME Init PROVE IInv
  OBVIOUS
<1>1. LocksOK
  <2>1. (CHOOSE f \in File : TRUE) \in File
    BY Bounds
  <2> QED
    BY <2>1 DEF Init, LockInit, LocksOK, LockSteps
<1>2. StepsOK /\ Placed /\ HolderIsNamed /\ LiveIsKept
  BY Bounds DEF Init, LockInit, StepsOK, Placed, Place, HolderIsNamed, LiveIsKept, Has
<1>3. RestOK /\ ClonesOK
  <2>1. 0 \in 0..0 /\ 0 \in Nat /\ 0 \in 0..MaxFaults
    BY Bounds
  <2> QED
    BY <2>1 DEF Init, RestOK, ClonesOK
<1>4. AllBased /\ NoForgottenReinstall /\ DebtIsPaid
  BY DEF Init, AllBased, Based, NoForgottenReinstall, DebtIsPaid, Past, Merged
<1> QED
  BY <1>1, <1>2, <1>3, <1>4 DEF IInv, LockInv, CloneInv, Init

LEMMA NextLockInv ==
  ASSUME LockInv, Next
  PROVE  LockInv'
<1>0. \A p \in Proc : Place(p)
  BY DEF LockInv, Placed
<1>1. ASSUME NEW p \in Proc \ dead, Start(p) PROVE LockInv'
  BY <1>0, <1>1, TryKeeps DEF Place, Start
<1>2. ASSUME NEW p \in Proc \ dead, Entered(p) PROVE LockInv'
  <2>1. Enter[step[p]] \in Inside
    BY <1>2 DEF Entered, Enter
  <2> QED
    BY <1>2, <2>1, DoneKeeps DEF Entered
<1>3. ASSUME NEW p \in Proc \ dead, Poll(p) PROVE LockInv'
  <2>1. Goto(p, step[p])
    BY <1>3 DEF Poll, LockInv, StepsOK
  <2> QED
    BY <1>3, <2>1, TryKeeps DEF Poll
<1>4. ASSUME NEW p \in Proc \ dead, WaitRunsOut(p) PROVE LockInv'
  BY <1>4, DoneKeeps DEF WaitRunsOut
<1>5. ASSUME NEW p \in Proc \ dead, Left(p) PROVE LockInv'
  <2>1. After[step[p]] \in Outside \ {"gone"}
    BY <1>5 DEF Left, After
  <2> QED
    BY <1>5, <2>1, WalkKeeps DEF Left
<1>6. ASSUME NEW p \in Proc \ dead, PayDebt(p) PROVE LockInv'
  <2>1. /\ step[p] \in SetUp /\ UNCHANGED <<lockVars, robbed>>
        /\ \E l \in SetUp : Goto(p, l)
    BY <1>6 DEF PayDebt, ReadDebt, Fetch, FastForward, DebtIdle, DebtInstall, DebtClear, DebtFails
  <2> QED
    BY <1>0, <2>1, WalkKeeps DEF Place
<1>7. ASSUME NEW p \in Proc \ dead, SetsUp(p) PROVE LockInv'
  BY <1>7, LeaveKeeps DEF SetsUp
<1>8. ASSUME NEW p \in Proc \ dead, Claims(p) \/ GateEnds(p) \/ GateCut(p) PROVE LockInv'
  <2>1. /\ step[p] \in {"claim", "gate"} /\ UNCHANGED <<lockVars, robbed>>
        /\ \E l \in {"gate", "merge", "parked"} : Goto(p, l)
    BY <1>8 DEF Claims, GateEnds, GateCut
  <2> QED
    BY <1>0, <2>1, WalkKeeps DEF Place
<1>9. ASSUME NEW p \in Proc \ dead, Merges(p) PROVE LockInv'
  BY <1>0, <1>9, TryKeeps DEF Place, Merges
<1>10. ASSUME NEW p \in Proc \ dead, Finish(p) PROVE LockInv'
  <2>1. CASE Fetch(p, "fetch", "ff") \/ BenchIdle(p) \/ BenchBusy(p) \/ (FfWorks(p) /\ p \in touches)
    <3>1. /\ step[p] \in Sync /\ UNCHANGED <<lockVars, robbed>>
          /\ \E l \in Sync : Goto(p, l)
      BY <2>1 DEF Fetch, BenchIdle, BenchBusy, FfWorks
    <3> QED
      BY <1>0, <3>1, WalkKeeps DEF Place
  <2>2. CASE FfFails(p) \/ Defer(p) \/ Install(p) \/ Removes(p) \/ (FfWorks(p) /\ p \notin touches)
    <3>1. /\ step[p] \in Inside /\ UNCHANGED robbed
          /\ \E l \in Leaving : Leave(p, l)
      BY <2>2 DEF FfFails, Defer, Install, Removes, FfWorks
    <3> QED
      BY <3>1, LeaveKeeps
  <2>3. CASE Closes(p)
    <3>1. CASE TryLock(p, RepoLock) /\ Goto(p, "lockRemove")
      BY <1>0, <2>3, <3>1, TryKeeps DEF Place, Closes
    <3>2. CASE Goto(p, "parked") /\ UNCHANGED lockVars
      BY <1>0, <2>3, <3>2, WalkKeeps DEF Place, Closes
    <3> QED
      BY <2>3, <3>1, <3>2 DEF Closes
  <2> QED
    BY <1>10, <2>1, <2>2, <2>3 DEF Finish
<1>11. ASSUME NEW p \in Proc \ dead, Parks(p) PROVE LockInv'
  <2>1. step[p] \in Inside /\ Leave(p, "leavePark") /\ UNCHANGED robbed
    BY <1>11 DEF Parks, ParksAt
  <2> QED
    BY <2>1, LeaveKeeps
<1>12. ASSUME NEW p \in Proc \ dead, UseLock(p) \/ Crash(p) PROVE LockInv'
  BY <1>12, UseLockKeeps, CrashKeeps
<1>13. CASE (\E v \in stray : StrayLands(v)) \/ (\E p \in dead : JobEnds(p))
  BY <1>13, ElsewhereKeeps DEF StrayLands, JobEnds
<1>14. CASE Tick
  BY <1>14, TickKeeps
<1> QED
  BY <1>1, <1>2, <1>3, <1>4, <1>5, <1>6, <1>7, <1>8, <1>9, <1>10, <1>11, <1>12, <1>13, <1>14
     DEF Next, StepOf

LEMMA NextCloneInv ==
  ASSUME CloneInv, LockInv, RestOK, Next
  PROVE  CloneInv'
<1> USE DEF repoVars, benchVars, cardVars, debtVars, LockInv
<1>a. OneInside
  BY IInvImpliesOneInside
<1>b. ASSUME UNCHANGED <<step, repoVars, installed, cardVars, debtVars, late>>, robbed => robbed'
      PROVE  CloneInv'
  BY <1>b DEF CloneInv, ClonesOK, AllBased, Based, NoForgottenReinstall, DebtIsPaid
<1>1. ASSUME NEW p \in Proc, Start(p) PROVE CloneInv'
  BY <1>1, SteerKeeps DEF Start, Past, Merged
<1>2. ASSUME NEW p \in Proc, Entered(p) PROVE CloneInv'
  <2>1. /\ Enter[step[p]] \in Steps /\ Enter[step[p]] \in {"debt", "fetch", "remove"}
        /\ Enter[step[p]] = "remove" => step[p] \in Past
        /\ Enter[step[p]] \in Merged => step[p] \in Merged
    BY <1>2 DEF Entered, Enter, Past, Merged
  <2>2. Goto(p, Enter[step[p]]) /\ UNCHANGED <<repoVars, benchVars, cardVars, debtVars, robbed>>
    BY <1>2 DEF Entered
  <2> QED
    BY <2>1, <2>2, SteerKeeps DEF Past
<1>3. ASSUME NEW p \in Proc, Poll(p) \/ UseLock(p) PROVE CloneInv'
  BY <1>3, <1>b DEF Poll, UseLock
<1>4. ASSUME NEW p \in Proc, WaitRunsOut(p) PROVE CloneInv'
  BY <1>4, SteerKeeps DEF WaitRunsOut, Past, Merged
<1>5. ASSUME NEW p \in Proc, Left(p) PROVE CloneInv'
  <2>1. /\ After[step[p]] \in {"claim", "close", "done", "parked"}
        /\ After[step[p]] \in Past => step[p] \in Past
        /\ After[step[p]] \in Merged => step[p] \in Merged
    BY <1>5 DEF Left, After, Past, Merged
  <2>2. Goto(p, After[step[p]]) /\ UNCHANGED <<repoVars, benchVars, cardVars, debtVars, robbed>>
    BY <1>5 DEF Left
  <2> QED
    BY <2>1, <2>2, SteerKeeps
<1>6. ASSUME NEW p \in Proc, PayDebt(p) PROVE CloneInv'
  <2>1. CASE DebtIdle(p) \/ DebtFails(p)
    <3>1. /\ \E l \in {"debtInstall", "setup"} : Goto(p, l)
          /\ UNCHANGED <<repoVars, benchVars, cardVars, debtVars, robbed>>
      BY <2>1 DEF DebtIdle, DebtFails
    <3> QED
      BY <3>1, SteerKeeps DEF Past, Merged
  <2>2. CASE ReadDebt(p) \/ Fetch(p, "debtFetch", "debtFf") \/ FastForward(p, "debtFf", "debtIdle")
    BY <2>2, SetUpKeeps, AdvanceKeeps
  <2>3. CASE DebtInstall(p) \/ DebtClear(p)
    BY <2>3, DebtInstallKeeps, DebtClearKeeps
  <2> QED
    BY <1>6, <2>1, <2>2, <2>3 DEF PayDebt
<1>7. ASSUME NEW p \in Proc, SetsUp(p) PROVE CloneInv'
  BY <1>7, SetUpKeeps
<1>8. ASSUME NEW p \in Proc, Claims(p) \/ GateEnds(p) \/ GateCut(p) PROVE CloneInv'
  <2>1. /\ \E l \in {"gate", "merge", "parked"} : Goto(p, l)
        /\ UNCHANGED <<repoVars, installed, late, cardVars, debtVars, robbed>>
    BY <1>8 DEF Claims, GateEnds, GateCut
  <2> QED
    BY <2>1, SteerKeeps DEF Past, Merged
<1>9. ASSUME NEW p \in Proc, Merges(p) PROVE CloneInv'
  BY <1>9, MergesKeeps
<1>10. ASSUME NEW p \in Proc, Finish(p) PROVE CloneInv'
  <2>1. CASE FfFails(p)
    BY <2>1, SteerKeeps DEF FfFails, Leave, Past, Merged
  <2>2. CASE BenchIdle(p) \/ BenchBusy(p)
    BY <2>2, SteerKeeps DEF BenchIdle, BenchBusy, Past, Merged
  <2>3. CASE Closes(p) \/ Removes(p)
    BY <2>3, SteerKeeps DEF Closes, Removes, Leave, Past, Merged
  <2>4. CASE Fetch(p, "fetch", "ff")
    BY <2>4, AdvanceKeeps
  <2>5. CASE FfWorks(p) \/ Defer(p) \/ Install(p)
    BY <1>a, <2>5, SyncedKeeps
  <2> QED
    BY <1>10, <2>1, <2>2, <2>3, <2>4, <2>5 DEF Finish
<1>11. ASSUME NEW p \in Proc, Parks(p) PROVE CloneInv'
  <2>1. Goto(p, "leavePark") /\ UNCHANGED <<repoVars, benchVars, cardVars, debtVars, robbed>>
    BY <1>11 DEF Parks, ParksAt, Leave
  <2> QED
    BY <2>1, SteerKeeps DEF Past, Merged
<1>12. ASSUME NEW p \in Proc, Crash(p) PROVE CloneInv'
  BY <1>12, SteerKeeps DEF Crash, Past, Merged
<1>13. ASSUME NEW v \in stray, StrayLands(v) PROVE CloneInv'
  BY <1>13, StrayKeeps
<1>14. CASE (\E p \in dead : JobEnds(p)) \/ Tick
  BY <1>14, <1>b DEF JobEnds, Tick
<1> QED
  BY <1>1, <1>2, <1>3, <1>4, <1>5, <1>6, <1>7, <1>8, <1>9, <1>10, <1>11, <1>12, <1>13, <1>14
     DEF Next, StepOf


\* The bench's jobs, what still runs of a killed build, and the bound on failures.
LEMMA NextRestOK ==
  ASSUME RestOK, CloneInv, StepsOK, Next
  PROVE  RestOK'
<1> USE DEF repoVars, benchVars, cardVars, debtVars
<1>0. /\ {checkout, tracked, main} \subseteq Nat /\ checkout <= tracked
      /\ MaxFaults \in Nat
  BY Bounds DEF CloneInv, ClonesOK
<1>1. stray' \subseteq 0..checkout' /\ jobs' \subseteq Proc /\ late' \in BOOLEAN
  <2>1. /\ checkout' \in {checkout, tracked} /\ stray' \subseteq stray \cup {checkout}
        /\ jobs' \subseteq jobs \cup Proc /\ late' \in {late, TRUE}
    <3>1. CASE \E p \in Proc \ dead : Start(p) \/ Entered(p) \/ Poll(p) \/ WaitRunsOut(p) \/ Left(p)
                 \/ PayDebt(p) \/ SetsUp(p) \/ Claims(p) \/ GateEnds(p) \/ GateCut(p)
      BY <3>1 DEF Start, Entered, Poll, WaitRunsOut, Left, PayDebt, ReadDebt, Fetch, FastForward,
           DebtIdle, DebtInstall, Installs, InstallFails, DebtClear, DebtFails, SetsUp, Claims,
           GateEnds, GateCut
    <3>2. CASE \E p \in Proc \ dead : Merges(p) \/ Finish(p) \/ Parks(p) \/ UseLock(p) \/ Crash(p)
      BY <3>2 DEF Merges, Finish, Fetch, FfFails, FfWorks, BenchIdle, BenchBusy, Defer, Install,
           Installs, InstallFails, Closes, Removes, Parks, ParksAt, UseLock, Crash
    <3>3. CASE (\E v \in stray : StrayLands(v)) \/ (\E p \in dead : JobEnds(p)) \/ Tick
      BY <3>3 DEF StrayLands, JobEnds, Tick
    <3> QED
      BY <3>1, <3>2, <3>3 DEF Next, StepOf
  <2>2. checkout' >= checkout /\ checkout' \in Nat
    BY <1>0, <2>1
  <2>3. 0..checkout \subseteq 0..checkout' /\ checkout \in 0..checkout
    BY <1>0, <2>2
  <2>4. stray \subseteq 0..checkout /\ jobs \subseteq Proc /\ late \in BOOLEAN
    BY DEF RestOK
  <2>5. stray' \subseteq 0..checkout'
    BY <2>1, <2>3, <2>4
  <2> QED
    BY <2>1, <2>4, <2>5
<1>2. faults' \in 0..MaxFaults
  <2>1. faults' = faults \/ Fault
    BY DEF Next, StepOf, Start, Entered, Poll, WaitRunsOut, Left, PayDebt, ReadDebt, Fetch, FastForward,
           DebtIdle, DebtInstall, InstallFails, DebtClear, DebtFails, SetsUp, Claims,
           GateEnds, GateCut, Merges, Finish, FfFails, FfWorks, BenchIdle, BenchBusy, Defer, Install,
           Closes, Removes, Parks, ParksAt, UseLock, Crash, StrayLands, JobEnds, Tick
  <2> QED
    BY <1>0, <2>1 DEF RestOK, Fault
<1> QED
  BY <1>1, <1>2 DEF RestOK

LEMMA NextIInv == IInv /\ [Next]_vars => IInv'
<1> SUFFICES ASSUME IInv, [Next]_vars PROVE IInv'
  OBVIOUS
<1>1. CASE Next
  BY <1>1, NextLockInv, NextCloneInv, NextRestOK DEF IInv, LockInv
<1>2. CASE UNCHANGED vars
  <2>1. LockInv'
    BY <1>2, ElsewhereKeeps DEF IInv, vars
  <2>2. RestOK' /\ CloneInv'
    BY <1>2 DEF IInv, RestOK, CloneInv, ClonesOK, AllBased, Based, NoForgottenReinstall, DebtIsPaid,
                vars, repoVars, benchVars, cardVars, debtVars
  <2> QED
    BY <2>1, <2>2 DEF IInv
<1> QED
  BY <1>1, <1>2

LEMMA SpecIInv == Spec => []IInv
BY InitIInv, NextIInv, PTL DEF Spec

-----------------------------------------------------------------------------
(* The theorems.                                                           *)

(***************************************************************************)
(* Every variable of the product repository keeps its type; so the bench   *)
(* worker is never built from more than what is checked out, and nothing   *)
(* is owed that has not been fetched.                                      *)
(***************************************************************************)
THEOREM TypeCorrect == Spec => []TypeOK
BY SpecIInv, IInvImpliesTypeOK, PTL

(***************************************************************************)
(* As long as nobody unlinked a live worker's lock, two workers are never  *)
(* both in the clone, whatever crashed inside and however its lock was     *)
(* taken over.                                                             *)
(***************************************************************************)
THEOREM OneInTheClone == Spec => []OneInside
<1>1. IInv => OneInside
  BY IInvImpliesOneInside DEF IInv
<1> QED
  BY <1>1, SpecIInv, PTL

(***************************************************************************)
(* That can only happen once a worker has died: while all of them live the *)
(* lock needs no such assumption.                                          *)
(***************************************************************************)
THEOREM NobodyDiedNobodyRobbed ==
  Spec => [](dead = {} => /\ ~robbed
                          /\ \A p, q \in Proc : step[p] \in Inside /\ step[q] \in Inside => p = q)
<1> DEFINE Alone == /\ ~robbed
                    /\ \A p, q \in Proc : step[p] \in Inside /\ step[q] \in Inside => p = q
<1>1. IInv => (dead = {} => Alone)
  BY IInvImpliesOneInside DEF IInv, LockInv, LiveIsKept, OneInside
<1> QED
  BY <1>1, SpecIInv, PTL

(***************************************************************************)
(* A merge that touched the bench worker and is past FINISH's sync is in   *)
(* the installed worker, or a reinstall is owed: one record is enough for  *)
(* any number of cards, and paying it never forgets one that came since.   *)
(***************************************************************************)
THEOREM NothingForgotten == Spec => []NoForgottenReinstall
<1>1. IInv => NoForgottenReinstall
  BY DEF IInv, CloneInv
<1> QED
  BY <1>1, SpecIInv, PTL

(***************************************************************************)
(* The bench worker never goes back to an older build, but when a build    *)
(* nobody waits for any more lands: an install builds what is checked out, *)
(* which is at least what is installed.                                    *)
(***************************************************************************)
THEOREM NeverOlder == Spec => [][installed' >= installed \/ \E v \in stray : StrayLands(v)]_vars
<1> DEFINE Kept == installed' >= installed \/ \E v \in stray : StrayLands(v)
<1>1. ASSUME IInv, [Next]_vars PROVE [Kept]_vars
  <2> SUFFICES ASSUME Next, \A v \in stray : ~StrayLands(v) PROVE installed' >= installed
    BY <1>1
  <2>1. installed' \in {installed, checkout}
    BY DEF Next, StepOf, Start, Entered, Poll, WaitRunsOut, Left, PayDebt, ReadDebt, Fetch, FastForward,
           DebtIdle, DebtInstall, Installs, InstallFails, DebtClear, DebtFails, SetsUp, Claims,
           GateEnds, GateCut, Merges, Finish, FfFails, FfWorks, BenchIdle, BenchBusy, Defer, Install,
           Closes, Removes, Parks, ParksAt, UseLock, Crash, JobEnds, Tick, benchVars
  <2>2. installed \in 0..checkout /\ checkout \in Nat
    BY <1>1 DEF IInv, CloneInv, ClonesOK
  <2> QED
    BY <2>1, <2>2
<1> QED
  BY <1>1, SpecIInv, PTL DEF Spec

HIDE DEF SetUp, Sync, Inside, Waiting, Leaving, Outside, Steps, Goto

-----------------------------------------------------------------------------
(* The daemon's singleton lock.                                            *)

LEMMA DaemonInitTypeOK == DaemonInit => DaemonTypeOK
BY DEF DaemonInit, DaemonTypeOK, PCs

LEMMA DaemonNextTypeOK == DaemonTypeOK /\ [DaemonNext]_daemonVars => DaemonTypeOK'
<1> SUFFICES ASSUME DaemonTypeOK, [DaemonNext]_daemonVars PROVE DaemonTypeOK'
  OBVIOUS
<1> USE DEF DaemonTypeOK, PCs, AcquirePC, DaemonGoto
<1>1. CASE UNCHANGED daemonVars
  BY <1>1 DEF daemonVars
<1>2. ASSUME NEW p \in Daemon, StartDaemon(p) PROVE DaemonTypeOK'
  BY <1>2 DEF StartDaemon
<1>3. ASSUME NEW p \in Daemon, TryCreate(p) PROVE DaemonTypeOK'
  BY <1>3 DEF TryCreate
<1>4. ASSUME NEW p \in Daemon, ReadHolder(p) PROVE DaemonTypeOK'
  BY <1>4 DEF ReadHolder
<1>5. ASSUME NEW p \in Daemon, JudgeHolder(p) PROVE DaemonTypeOK'
  BY <1>5 DEF JudgeHolder
<1>6. ASSUME NEW p \in Daemon, SweepStale(p) PROVE DaemonTypeOK'
  BY <1>6 DEF SweepStale
<1>7. ASSUME NEW p \in Daemon, Watch(p) PROVE DaemonTypeOK'
  BY <1>7 DEF Watch
<1>8. ASSUME NEW p \in Daemon, StopDaemon(p) PROVE DaemonTypeOK'
  BY <1>8 DEF StopDaemon
<1>9. ASSUME NEW p \in Daemon, ReadOwn(p) PROVE DaemonTypeOK'
  BY <1>9 DEF ReadOwn
<1>10. ASSUME NEW p \in Daemon, UnlinkOwn(p) PROVE DaemonTypeOK'
  BY <1>10 DEF UnlinkOwn
<1>11. ASSUME NEW p \in Daemon, CrashDaemon(p) PROVE DaemonTypeOK'
  BY <1>11 DEF CrashDaemon
<1> QED
  BY <1>1, <1>2, <1>3, <1>4, <1>5, <1>6, <1>7, <1>8, <1>9, <1>10, <1>11
     DEF DaemonNext, Acquire, Release

(***************************************************************************)
(* Every variable keeps its type, for any set of daemon processes and      *)
(* however their starts interleave.                                        *)
(***************************************************************************)
THEOREM DaemonTypeCorrect == DaemonSpec => []DaemonTypeOK
<1>1. DaemonInit => DaemonTypeOK
  BY DaemonInitTypeOK
<1>2. DaemonTypeOK /\ [DaemonNext]_daemonVars => DaemonTypeOK'
  BY DaemonNextTypeOK
<1> QED
  BY <1>1, <1>2, PTL DEF DaemonSpec

-----------------------------------------------------------------------------
(***************************************************************************)
(* The inductive invariant.  OneOwner alone says nothing of the processes  *)
(* about to write the file, so it is strengthened with                     *)
(*   - at most one process is starting;                                    *)
(*   - a process that holds or is releasing the lock is named by the file; *)
(*   - the file never names a process that has not started, nor one that   *)
(*     is still starting;                                                  *)
(*   - what the starter read is still what the file says, unless the file  *)
(*     has gone, and what it is about to sweep belonged to a dead process. *)
(***************************************************************************)
Holding(p) == pc[p] \in {"held", "release", "unlink"}

OneStarter == \A p, q \in Daemon : Starting(p) /\ Starting(q) => p = q
OwnerIsNamed == \A p \in Daemon : Holding(p) => lockFile = p
NamedHasStarted == lockFile \in Daemon => Holding(lockFile) \/ pc[lockFile] = "gone"
SeenIsCurrent ==
  \A p \in Daemon :
    /\ pc[p] = "judge" => \/ lockFile = NoDaemon
                          \/ lockFile = seen[p]
    /\ pc[p] = "judge" /\ seen[p] \in Daemon => Holding(seen[p]) \/ pc[seen[p]] = "gone"
    /\ pc[p] = "sweep" => \/ lockFile = NoDaemon
                          \/ lockFile \in Daemon /\ pc[lockFile] = "gone"

Mutex == OneStarter /\ OwnerIsNamed /\ NamedHasStarted /\ SeenIsCurrent
MutexInv == DaemonTypeOK /\ (raced = {} => Mutex)

LEMMA InitMutexInv == DaemonInit => MutexInv
<1> SUFFICES ASSUME DaemonInit PROVE MutexInv
  OBVIOUS
<1>1. DaemonTypeOK
  BY DaemonInitTypeOK
<1>2. OneStarter /\ OwnerIsNamed /\ NamedHasStarted /\ SeenIsCurrent
  BY NoDaemonAssumption
     DEF DaemonInit, OneStarter, OwnerIsNamed, NamedHasStarted, SeenIsCurrent,
         Starting, AcquirePC, Holding
<1> QED
  BY <1>1, <1>2 DEF MutexInv, Mutex

LEMMA NextMutexInv ==
  ASSUME MutexInv, [DaemonNext]_daemonVars
  PROVE  MutexInv'
<1> DEFINE Rest == raced = {} => Mutex
<1>0. DaemonTypeOK'
  BY DaemonNextTypeOK DEF MutexInv
<1>a. DaemonTypeOK /\ Rest
  BY DEF MutexInv
<1> USE NoDaemonAssumption, <1>a DEF DaemonTypeOK, Mutex, OneStarter, OwnerIsNamed,
        NamedHasStarted, SeenIsCurrent, Starting, AcquirePC, Holding, Alive, DaemonGoto
<1>1. ASSUME UNCHANGED daemonVars PROVE Rest'
  BY <1>1 DEF daemonVars
<1>2. ASSUME NEW p \in Daemon, StartDaemon(p) PROVE Rest'
  BY <1>2 DEF StartDaemon
<1>3. ASSUME NEW p \in Daemon, TryCreate(p) PROVE Rest'
  BY <1>3 DEF TryCreate
<1>4. ASSUME NEW p \in Daemon, ReadHolder(p) PROVE Rest'
  BY <1>4 DEF ReadHolder
<1>5. ASSUME NEW p \in Daemon, JudgeHolder(p) PROVE Rest'
  BY <1>5 DEF JudgeHolder
<1>6. ASSUME NEW p \in Daemon, SweepStale(p) PROVE Rest'
  BY <1>6 DEF SweepStale
<1>7. ASSUME NEW p \in Daemon, Watch(p) PROVE Rest'
  BY <1>7 DEF Watch
<1>8. ASSUME NEW p \in Daemon, StopDaemon(p) PROVE Rest'
  BY <1>8 DEF StopDaemon
<1>9. ASSUME NEW p \in Daemon, ReadOwn(p) PROVE Rest'
  BY <1>9 DEF ReadOwn
<1>10. ASSUME NEW p \in Daemon, UnlinkOwn(p) PROVE Rest'
  BY <1>10 DEF UnlinkOwn
<1>11. ASSUME NEW p \in Daemon, CrashDaemon(p) PROVE Rest'
  BY <1>11 DEF CrashDaemon
<1> HIDE <1>a DEF DaemonTypeOK, Mutex, OneStarter, OwnerIsNamed, NamedHasStarted,
        SeenIsCurrent, Starting, AcquirePC, Holding, Alive, DaemonGoto
<1> QED
  BY <1>0, <1>1, <1>2, <1>3, <1>4, <1>5, <1>6, <1>7, <1>8, <1>9, <1>10, <1>11
     DEF DaemonNext, Acquire, Release, MutexInv

LEMMA MutexInvariant == DaemonSpec => []MutexInv
<1>1. MutexInv /\ [DaemonNext]_daemonVars => MutexInv'
  BY NextMutexInv
<1> QED
  BY InitMutexInv, <1>1, PTL DEF DaemonSpec

(***************************************************************************)
(* As long as no two daemons were starting together, none ever owned the   *)
(* lock together, whatever crashes, stops and restarts happened: the stale *)
(* lock of a dead daemon is taken over and a live one refuses the starter. *)
(***************************************************************************)
THEOREM SerialMutualExclusion == DaemonSpec => []SerialOneOwner
<1>1. MutexInv => SerialOneOwner
  BY DEF MutexInv, Mutex, OwnerIsNamed, Holding, OneOwner, SerialOneOwner, Owner
<1> QED
  BY MutexInvariant, <1>1, PTL

(***************************************************************************)
(* Then too the owner is the process the file names, so the watcher of a   *)
(* healthy daemon never stops it.                                          *)
(***************************************************************************)
THEOREM SerialOwnerIsNamed == DaemonSpec => []SerialFileNamesOwner
<1>1. MutexInv => SerialFileNamesOwner
  BY DEF MutexInv, Mutex, OwnerIsNamed, Holding, SerialFileNamesOwner, Owner
<1> QED
  BY MutexInvariant, <1>1, PTL

(***************************************************************************)
(* Then too nobody but a live owner takes its lock file away: what a       *)
(* starter sweeps named a dead process, and a release unlinks its own.     *)
(***************************************************************************)
THEOREM SerialLockIsKept == DaemonSpec => LiveLockIsKept
<1> DEFINE Kept == raced = {} => \A p \in Daemon :
             lockFile = p /\ lockFile' # p => ~Alive(p) \/ pc[p] = "unlink"
<1>1. ASSUME MutexInv, [DaemonNext]_daemonVars PROVE [Kept]_daemonVars
  <2> SUFFICES ASSUME DaemonNext, raced = {}, NEW p \in Daemon, lockFile = p, lockFile' # p
               PROVE  ~Alive(p) \/ pc[p] = "unlink"
    BY <1>1
  <2>1. PICK q \in Daemon : \/ StartDaemon(q) \/ Acquire(q) \/ Watch(q)
                            \/ StopDaemon(q) \/ Release(q) \/ CrashDaemon(q)
    BY DEF DaemonNext
  <2>2. SweepStale(q) \/ UnlinkOwn(q)
    BY <2>1, NoDaemonAssumption
       DEF StartDaemon, Acquire, TryCreate, ReadHolder, JudgeHolder, Watch, StopDaemon, Release,
           ReadOwn, CrashDaemon
  <2>3. Mutex
    BY <1>1 DEF MutexInv
  <2> QED
    BY <2>2, <2>3, NoDaemonAssumption
       DEF SweepStale, UnlinkOwn, Mutex, SeenIsCurrent, OwnerIsNamed, Holding, Alive
<1> QED
  BY MutexInvariant, <1>1, PTL DEF DaemonSpec, LiveLockIsKept

(***************************************************************************)
(* A daemon that lost its file has two ticks of watchLock left, even after *)
(* a start-up race: the file never names it again, no miss is forgotten,   *)
(* and each tick counts another or stops it.  Mutual exclusion is restored *)
(* as soon as its interval has fired twice (UsurpedDaemonStops).           *)
(***************************************************************************)
THEOREM TakenLockIsNoticed ==
  DaemonSpec => [][\A p \in Daemon : Owner(p) /\ lockFile # p =>
                     \/ ~Owner(p)'
                     \/ /\ lockFile' # p /\ misses[p] <= misses'[p] /\ misses'[p] <= 1
                        /\ Watch(p) => misses[p] < misses'[p]]_daemonVars
<1> DEFINE Noticed(p) == \/ ~Owner(p)'
                         \/ /\ lockFile' # p /\ misses[p] <= misses'[p] /\ misses'[p] <= 1
                            /\ Watch(p) => misses[p] < misses'[p]
<1>1. ASSUME DaemonTypeOK, DaemonTypeOK', DaemonNext, NEW p \in Daemon, Owner(p), lockFile # p
      PROVE  Noticed(p)
  <2>1. misses[p] \in 0..1 /\ misses'[p] \in 0..1 /\ pc[p] = "held"
    BY <1>1 DEF DaemonTypeOK, Owner
  <2>2. CASE Watch(p)
    <3>1. CASE misses[p] = 0 /\ misses' = [misses EXCEPT ![p] = 1] /\ lockFile' = lockFile
      <4>1. misses'[p] = 1
        BY <1>1, <3>1 DEF DaemonTypeOK
      <4> QED
        BY <1>1, <3>1, <4>1
    <3>2. CASE DaemonGoto(p, "release")
      BY <1>1, <3>2 DEF DaemonGoto, DaemonTypeOK, Owner
    <3> QED
      BY <1>1, <2>2, <3>1, <3>2 DEF Watch
  <2>3. CASE ~Watch(p)
    <3>1. PICK q \in Daemon : \/ StartDaemon(q) \/ Acquire(q) \/ Watch(q)
                              \/ StopDaemon(q) \/ Release(q) \/ CrashDaemon(q)
      BY <1>1 DEF DaemonNext
    <3>2. CASE q = p
      <4>1. StopDaemon(p) \/ CrashDaemon(p)
        BY <2>1, <2>3, <3>1, <3>2
           DEF StartDaemon, Acquire, TryCreate, ReadHolder, JudgeHolder, SweepStale,
               Release, ReadOwn, UnlinkOwn
      <4>2. ~Owner(p)'
        BY <1>1, <4>1 DEF StopDaemon, CrashDaemon, DaemonGoto, DaemonTypeOK, Owner
      <4> QED
        BY <4>2
    <3>3. CASE q # p
      <4>1. lockFile' \in {lockFile, q, NoDaemon}
        BY <3>1 DEF StartDaemon, Acquire, TryCreate, ReadHolder, JudgeHolder, SweepStale, Watch,
                    StopDaemon, Release, ReadOwn, UnlinkOwn, CrashDaemon
      <4>2. misses'[p] = misses[p]
        BY <1>1, <3>1, <3>3
           DEF DaemonTypeOK, StartDaemon, Acquire, TryCreate, ReadHolder, JudgeHolder, SweepStale,
               Watch, StopDaemon, Release, ReadOwn, UnlinkOwn, CrashDaemon
      <4> QED
        BY <1>1, <2>1, <2>3, <3>3, <4>1, <4>2, NoDaemonAssumption
    <3> QED
      BY <3>2, <3>3
  <2> QED
    BY <2>2, <2>3
<1>2. DaemonTypeOK /\ DaemonTypeOK' /\ [DaemonNext]_daemonVars
      => [\A p \in Daemon : Owner(p) /\ lockFile # p => Noticed(p)]_daemonVars
  BY <1>1
<1> QED
  BY <1>2, DaemonTypeCorrect, PTL DEF DaemonSpec
=============================================================================
