------------------------------ MODULE ShortLock ------------------------------
(***************************************************************************)
(* The short-lived lock files of orchestrator/lock.js (acquireShortLock,   *)
(* releaseShortLock, holderExpired): an account's lease, the pool's        *)
(* .state.lock, the product repository's lock.  A file is created whole    *)
(* (written aside, then linked), names its holder, and is taken over from  *)
(* a holder that is dead or too old.                                       *)
(*                                                                         *)
(* A module that uses the locks EXTENDS this one, starts an attempt with   *)
(* TryLock and goes on from "won" or "lost".                               *)
(***************************************************************************)
EXTENDS Naturals

CONSTANTS
  Proc,     \* processes; one that died is not seen again
  NoProc,
  File,     \* lock files
  AgeLimit  \* file -> maxAgeMs, 0 for null

ASSUME ShortLockAssumption ==
  /\ NoProc \notin Proc
  /\ AgeLimit \in [File -> Nat]

VARIABLES
  file,   \* the process a lock file names, or NoProc
  age,    \* how long ago it was created
  lstep,  \* where each process is in acquireShortLock
  want,   \* the file it tries to lock
  dead,   \* processes that died
  reused  \* dead processes whose pid an unrelated process has now

lockVars == <<file, age, lstep, want, dead, reused>>

LockSteps == {"none", "create", "read", "sweep", "again", "won", "lost", "unlink"}

LockTypeOK ==
  /\ file \in [File -> Proc \cup {NoProc}]
  /\ age \in [File -> Nat]
  /\ lstep \in [Proc -> LockSteps]
  /\ want \in [Proc -> File]
  /\ dead \subseteq Proc /\ reused \subseteq dead

LockInit ==
  /\ file = [f \in File |-> NoProc] /\ age = [f \in File |-> 0]
  /\ lstep = [p \in Proc |-> "none"]
  /\ want = [p \in Proc |-> CHOOSE f \in File : TRUE]
  /\ dead = {} /\ reused = {}

\* process.kill(pid, 0)
PidAlive(p) == p \in Proc /\ (p \notin dead \/ p \in reused)

\* holderExpired
Expired_OneCall(f) == AgeLimit[f] > 0 /\ age[f] >= AgeLimit[f]
Expired(f) == AgeLimit[f] > 0 /\ age[f] > AgeLimit[f]

Held(f) == PidAlive(file[f]) /\ ~Expired(f)

Put(f, p) ==
  /\ file' = [file EXCEPT ![f] = p]
  /\ age' = [age EXCEPT ![f] = 0]

TryLock(p, f) ==
  /\ want' = [want EXCEPT ![p] = f]
  /\ lstep' = [lstep EXCEPT ![p] = "create"]
  /\ UNCHANGED <<file, age, dead, reused>>

LockDone(p) == lstep' = [lstep EXCEPT ![p] = "none"]

Attempt(p, from, otherwise) ==
  /\ lstep[p] = from
  /\ IF file[want[p]] = NoProc
       THEN Put(want[p], p) /\ lstep' = [lstep EXCEPT ![p] = "won"]
       ELSE UNCHANGED <<file, age>> /\ lstep' = [lstep EXCEPT ![p] = otherwise]
  /\ UNCHANGED <<want, dead, reused>>

\* tryWrite, first time.
CreateFile(p) == Attempt(p, "create", "read")

\* readHolder and the judgement of what it read.  A file that is gone by now
\* is not swept, only tried for again; neither is a live holder's.
JudgeFile_SweepsUnread(p) ==
  /\ lstep[p] = "read"
  /\ lstep' = [lstep EXCEPT ![p] = IF Held(want[p]) THEN "lost" ELSE "sweep"]
  /\ UNCHANGED <<file, age, want, dead, reused>>
JudgeFile(p) ==
  /\ lstep[p] = "read"
  /\ lstep' = [lstep EXCEPT ![p] = IF file[want[p]] = NoProc THEN "again"
                                   ELSE IF Held(want[p]) THEN "lost" ELSE "sweep"]
  /\ UNCHANGED <<file, age, want, dead, reused>>

\* unlinkSync of whatever has the name now.
SweepFile(p) ==
  /\ lstep[p] = "sweep"
  /\ Put(want[p], NoProc)
  /\ lstep' = [lstep EXCEPT ![p] = "again"]
  /\ UNCHANGED <<want, dead, reused>>

\* tryWrite, second and last time.
CreateAgain(p) == Attempt(p, "again", "lost")

\* releaseShortLock: read it, and unlink what was still ours when read.
ReleaseFile(p, f) ==
  /\ want' = [want EXCEPT ![p] = f]
  /\ lstep' = [lstep EXCEPT ![p] = IF file[f] = p THEN "unlink" ELSE "none"]
  /\ UNCHANGED <<file, age, dead, reused>>

UnlinkFile(p) ==
  /\ lstep[p] = "unlink"
  /\ Put(want[p], NoProc)
  /\ LockDone(p)
  /\ UNCHANGED <<want, dead, reused>>

Die(p) ==
  /\ p \notin dead
  /\ dead' = dead \cup {p}
  /\ reused' \in {reused, reused \cup {p}}
  /\ LockDone(p)
  /\ UNCHANGED <<file, age, want>>

LockStep(p) ==
  CreateFile(p) \/ JudgeFile(p) \/ SweepFile(p) \/ CreateAgain(p) \/ UnlinkFile(p)
==============================================================================
