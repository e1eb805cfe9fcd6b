----------------------------- MODULE DaemonLock -----------------------------
(***************************************************************************)
(* The daemon's singleton lock, journal/daemon.lock (orchestrator/lock.js, *)
(* wired in orchestrator/daemon.js).                                       *)
(*                                                                         *)
(* A member of Daemon is one process: a pid together with the moment it    *)
(* started, so a restarted daemon is another member.  The lock file is     *)
(* created whole (written aside, then linked), so it is absent or names a  *)
(* process; every other call of lock.js is a separate read or unlink, and  *)
(* each of those is a step here.                                           *)
(*                                                                         *)
(* Names that every state machine has are the daemon's here, as they are   *)
(* the lock's in ShortLock: one module of proofs extends both.             *)
(***************************************************************************)
EXTENDS Naturals

CONSTANTS
  Daemon,   \* daemon processes
  NoDaemon  \* what the file names when it does not exist

ASSUME NoDaemonAssumption == NoDaemon \notin Daemon

VARIABLES
  lockFile, \* the process named by daemon.lock, or NoDaemon
  pc,       \* where each process is in acquireLock / watchLock / releaseLock
  attempt,  \* acquireLock's loop counter
  seen,     \* what the process's last readHolder returned
  misses,   \* watchLock's count of consecutive "not ours" reads
  raced     \* history: daemons that started while another one was starting

daemonVars == <<lockFile, pc, attempt, seen, misses, raced>>

AcquirePC == {"create", "read", "judge", "sweep"}
PCs == AcquirePC \cup {"idle", "held", "release", "unlink", "gone"}

DaemonTypeOK ==
  /\ lockFile \in Daemon \cup {NoDaemon}
  /\ pc \in [Daemon -> PCs]
  /\ attempt \in [Daemon -> 0..1]
  /\ seen \in [Daemon -> Daemon \cup {NoDaemon}]
  /\ misses \in [Daemon -> 0..1]
  /\ raced \subseteq Daemon

-----------------------------------------------------------------------------
Starting(p) == pc[p] \in AcquirePC
Owner(p) == pc[p] = "held"

\* process.kill(pid, 0): the process exists.
Alive(p) == pc[p] \notin {"idle", "gone"}

DaemonGoto(p, l) == pc' = [pc EXCEPT ![p] = l]

DaemonInit ==
  /\ lockFile = NoDaemon
  /\ pc = [p \in Daemon |-> "idle"]
  /\ attempt = [p \in Daemon |-> 0]
  /\ seen = [p \in Daemon |-> NoDaemon]
  /\ misses = [p \in Daemon |-> 0]
  /\ raced = {}

StartDaemon(p) ==
  /\ pc[p] = "idle"
  /\ raced' = IF \E q \in Daemon : Starting(q) THEN raced \cup {p} ELSE raced
  /\ DaemonGoto(p, "create")
  /\ UNCHANGED <<lockFile, attempt, seen, misses>>

\* tryCreate: link(2) succeeds exactly when the file is absent.
TryCreate(p) ==
  /\ pc[p] = "create"
  /\ IF lockFile = NoDaemon
       THEN lockFile' = p /\ DaemonGoto(p, "held")
       ELSE UNCHANGED lockFile /\ DaemonGoto(p, "read")
  /\ UNCHANGED <<attempt, seen, misses, raced>>

\* readHolder after a failed create; the file may be gone again by now.
ReadHolder(p) ==
  /\ pc[p] = "read"
  /\ seen' = [seen EXCEPT ![p] = lockFile]
  /\ DaemonGoto(p, "judge")
  /\ UNCHANGED <<lockFile, attempt, misses, raced>>

\* (changed: the holder's pid is not probed)
JudgeHolder_Unprobed(p) ==
  /\ pc[p] = "judge"
  /\ DaemonGoto(p, "sweep")
  /\ UNCHANGED <<lockFile, attempt, seen, misses, raced>>

\* A live holder refuses the starter (exit 1); a dead or unreadable one is stale.
JudgeHolder(p) ==
  /\ pc[p] = "judge"
  /\ IF seen[p] \in Daemon /\ Alive(seen[p])
       THEN DaemonGoto(p, "gone")
       ELSE DaemonGoto(p, "sweep")
  /\ UNCHANGED <<lockFile, attempt, seen, misses, raced>>

\* unlinkSync of whatever is there, then the second attempt, or LockHeldError.
SweepStale(p) ==
  /\ pc[p] = "sweep"
  /\ lockFile' = NoDaemon
  /\ IF attempt[p] = 0
       THEN attempt' = [attempt EXCEPT ![p] = 1] /\ DaemonGoto(p, "create")
       ELSE UNCHANGED attempt /\ DaemonGoto(p, "gone")
  /\ UNCHANGED <<seen, misses, raced>>

\* (changed: a miss is not remembered)
Watch_Forgets(p) ==
  /\ pc[p] = "held"
  /\ misses' = [misses EXCEPT ![p] = 0]
  /\ UNCHANGED <<lockFile, pc, attempt, seen, raced>>

\* One tick of watchLock; the second consecutive miss is onLost: exit 75.
Watch(p) ==
  /\ pc[p] = "held"
  /\ \/ /\ lockFile = p
        /\ misses' = [misses EXCEPT ![p] = 0]
        /\ UNCHANGED pc
     \/ /\ lockFile # p
        /\ misses[p] = 0
        /\ misses' = [misses EXCEPT ![p] = 1]
        /\ UNCHANGED pc
     \/ /\ lockFile # p
        /\ misses[p] = 1
        /\ UNCHANGED misses
        /\ DaemonGoto(p, "release")
  /\ UNCHANGED <<lockFile, attempt, seen, raced>>

\* The daemon stops by itself (drained, circuit breaker, signal).
StopDaemon(p) ==
  /\ pc[p] = "held"
  /\ DaemonGoto(p, "release")
  /\ UNCHANGED <<lockFile, attempt, seen, misses, raced>>

\* releaseLock, run by the process's exit handler: read, then unlink if ours.
ReadOwn(p) ==
  /\ pc[p] = "release"
  /\ seen' = [seen EXCEPT ![p] = lockFile]
  /\ DaemonGoto(p, IF lockFile = p THEN "unlink" ELSE "gone")
  /\ UNCHANGED <<lockFile, attempt, misses, raced>>

UnlinkOwn(p) ==
  /\ pc[p] = "unlink"
  /\ lockFile' = NoDaemon
  /\ DaemonGoto(p, "gone")
  /\ UNCHANGED <<attempt, seen, misses, raced>>

\* SIGKILL, OOM, power: no exit handler runs and the lock file stays.
CrashDaemon(p) ==
  /\ Alive(p)
  /\ DaemonGoto(p, "gone")
  /\ UNCHANGED <<lockFile, attempt, seen, misses, raced>>

Acquire(p) == TryCreate(p) \/ ReadHolder(p) \/ JudgeHolder(p) \/ SweepStale(p)
Release(p) == ReadOwn(p) \/ UnlinkOwn(p)

DaemonNext ==
  \E p \in Daemon :
    \/ StartDaemon(p) \/ Acquire(p) \/ Watch(p) \/ StopDaemon(p) \/ Release(p) \/ CrashDaemon(p)

DaemonSpec == DaemonInit /\ [][DaemonNext]_daemonVars

\* acquireLock and releaseLock are synchronous, and watchLock's interval keeps
\* firing while the daemon lives: none of them can be put off for ever.
Fairness ==
  \A p \in Daemon :
    WF_daemonVars(Acquire(p)) /\ WF_daemonVars(Watch(p)) /\ WF_daemonVars(Release(p))

FairDaemonSpec == DaemonSpec /\ Fairness

-----------------------------------------------------------------------------
(* Properties.                                                             *)

\* Two processes never own the lock together.
OneOwner == \A p, q \in Daemon : Owner(p) /\ Owner(q) => p = q

\* As long as no two daemons started at the same time, two never own the lock,
\* whatever crashed, stopped and left a stale file before (acquireLock).
SerialOneOwner == raced = {} => OneOwner

\* A daemon that owns the lock is the one the file names, so the watcher of a
\* healthy daemon never stops it and the next starter is refused.
SerialFileNamesOwner == raced = {} => \A p \in Daemon : Owner(p) => lockFile = p

\* The lock file of a live daemon is removed by that daemon only: no sweep and
\* no release of another process takes it away.
LiveLockIsKept ==
  [][raced = {} => \A p \in Daemon :
       lockFile = p /\ lockFile' # p => ~Alive(p) \/ pc[p] = "unlink"]_daemonVars

\* A daemon whose lock file was taken over stops: watchLock is what ends a
\* double ownership the start-up race let through.
UsurpedDaemonStops == \A p \in Daemon : Owner(p) /\ lockFile # p ~> ~Owner(p)
=============================================================================
