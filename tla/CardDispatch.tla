---------------------------- MODULE CardDispatch ----------------------------
(***************************************************************************)
(* One journal root and every process that writes a card in it: the        *)
(* dispatcher (orchestrator/dispatcher.js), the workers and repark         *)
(* children it spawns (daemon.js --worker / --repark-task), the scanner    *)
(* (daemon.js --scanner: orphan-scan.js, park-loop.js unparkScan) and the  *)
(* intake that files cards (intake.js).                                    *)
(*                                                                         *)
(* Disk: the queue directory, each card's task.json, state.json and        *)
(* repark-claim.json, and live-workers.json.  Memory: what one process     *)
(* holds and loses when it dies.  A step is what one process does between  *)
(* two points where another can act; a sequence of synchronous calls is    *)
(* split wherever a second process reads what it is writing.  A scan's     *)
(* reads of one card are one step: nothing else is done between them.      *)
(***************************************************************************)
EXTENDS Naturals, FiniteSets

CONSTANTS
  Task,           \* cards
  NoTask,
  MaxPid,         \* bound: processes ever spawned
  Workers,        \* config.workers
  RetryBudget,    \* config.transientRetryBudget
  CrashLimit,     \* config.workerCrashLimit
  ScanCrashLimit, \* config.scannerCrashLimit
  MaxStarts,      \* bound: daemon incarnations
  MaxVerbs,       \* bound: replies a maintainer gives
  MaxFilings,     \* bound: times the intake files one card
  Survivors,      \* TRUE: children outlive a killed daemon (no cgroup kill)
  ClaimMayFail,   \* TRUE: writing a repark claim can fail (a full disk)
  SplitReads      \* TRUE: other processes act between a scan's two snapshot reads

ASSUME CardDispatchAssumption ==
  /\ NoTask \notin Task
  /\ IsFiniteSet(Task)
  /\ MaxPid \in Nat /\ MaxStarts \in Nat /\ MaxVerbs \in Nat /\ MaxFilings \in Nat
  /\ Workers \in Nat \ {0} /\ CrashLimit \in Nat \ {0} /\ ScanCrashLimit \in Nat \ {0}
  /\ RetryBudget \in Nat
  /\ Survivors \in BOOLEAN /\ ClaimMayFail \in BOOLEAN /\ SplitReads \in BOOLEAN

VARIABLES
  \* disk
  queue,      \* entries in queue/
  task,       \* task.json: its transientRetries, or NoJson before the first claim
  state,      \* state.json
  aged,       \* state.json (or the first claim) is older than orphanGraceMs
  claim,      \* repark-claim.json: the pid it names, or 0
  liveFile,   \* live-workers.json
  reply,      \* the last park anchor in journal.jsonl, and whether its reply was handled
  \* processes
  pc, role, job, tries,   \* per pid; tries is the worker's ctx.task.transientRetries
  \* the dispatcher's memory
  mode, at, cur, live, reparking, crashes, scanCrashes,
  \* scanning processes' memory
  scan,
  \* bounds
  starts, verbs, filings

disk == <<queue, task, state, aged, claim, liveFile, reply>>
procs == <<pc, role, job, tries>>
breakers == <<crashes, scanCrashes>>
memory == <<mode, at, cur, live, reparking, breakers>>
bounds == <<starts, verbs, filings>>
vars == <<disk, procs, memory, scan, bounds>>

-----------------------------------------------------------------------------
Pid == 1..MaxPid
NoJson == RetryBudget + 1

\* h: a maintainer's retry, t: a machine retry, f: filed by the intake.  The
\* class and the attempt make the file name, so equal entries are one file.
Entry == [card : Task, class : {"h", "t", "f"}, retries : 0..RetryBudget]

Status == {"none", "run", "parked", "done", "abandoned"}
Reason == {"none", "signal", "crash", "orphan"}
StateJson == [status : Status, owner : 0..MaxPid, reason : Reason]

Terminal == {"done", "parked", "abandoned"}

\* UNDRAINABLE_STATES: what a queue entry may not bring back to life.
Undrainable_None == {}
Undrainable == Terminal \ {"parked"}

ProcPC == {"unborn", "boot", "run", "parking", "anchoring", "leaving", "exited", "crashed"}
Role == {"none", "worker", "repark"}

Mode == {"down", "startup", "up", "drain", "term", "kill"}
\* Where the dispatcher is inside fillSlots/spawnOne or handleExit.
At == {"loop", "claimed", "spawned", "reparked", "unlisting"}

Scanner == {"startup", "child", "survivor"}
ScanPC == {"off", "idle", "live", "visit", "park", "anchor", "verb", "verbEvent"}
Scan == [pc : ScanPC, queued : SUBSET Task, live : SUBSET Task,
         todo : SUBSET Task, card : Task \cup {NoTask}, window : BOOLEAN]

ScanOff == [pc |-> "off", queued |-> {}, live |-> {}, todo |-> {}, card |-> NoTask,
            window |-> FALSE]
ScanIdle == [ScanOff EXCEPT !.pc = "idle"]

TypeOK ==
  /\ queue \subseteq Entry
  /\ task \in [Task -> 0..NoJson]
  /\ state \in [Task -> StateJson]
  /\ aged \in [Task -> BOOLEAN]
  /\ claim \in [Task -> 0..MaxPid]
  /\ liveFile \subseteq Task
  /\ reply \in [Task -> {"none", "open", "handled"}]
  /\ pc \in [Pid -> ProcPC]
  /\ role \in [Pid -> Role]
  /\ job \in [Pid -> Task \cup {NoTask}]
  /\ tries \in [Pid -> 0..NoJson]
  /\ mode \in Mode /\ at \in At /\ cur \in Task \cup {NoTask}
  /\ live \in [Task -> 0..MaxPid]
  /\ reparking \in [Task -> 0..MaxPid]
  /\ crashes \in Nat /\ scanCrashes \in 0..ScanCrashLimit
  /\ scan \in [Scanner -> Scan]
  /\ starts \in 0..MaxStarts /\ verbs \in 0..MaxVerbs
  /\ filings \in [Task -> 0..MaxFilings]

-----------------------------------------------------------------------------
Queued(t) == \E e \in queue : e.card = t
Claimed(t) == task[t] # NoJson

\* process.kill(pid, 0): the process exists.
Alive(p) == p \in Pid /\ pc[p] \notin {"unborn", "exited", "crashed"}

LiveIds == {t \in Task : live[t] # 0}
ReparkingIds == {t \in Task : reparking[t] # 0}

\* The pid the next spawn gets.
NextPid(p) == p \in Pid /\ pc[p] = "unborn" /\ \A q \in Pid : q < p => pc[q] # "unborn"

Goto(p, l) == pc' = [pc EXCEPT ![p] = l]

Spawn(p, r, t) ==
  /\ NextPid(p)
  /\ pc' = [pc EXCEPT ![p] = "boot"]
  /\ role' = [role EXCEPT ![p] = r]
  /\ job' = [job EXCEPT ![p] = t]
  /\ UNCHANGED tries

\* journal.js writeState: the snapshot replaces state.json and stamps updatedAt.
WriteState(t, status, owner, reason) ==
  /\ state' = [state EXCEPT ![t] = [status |-> status, owner |-> owner, reason |-> reason]]
  /\ aged' = [aged EXCEPT ![t] = FALSE]

\* The end of finalizePark: the park comment is posted and journalled, the
\* anchor of the next maintainer reply.
Anchor(t) == reply' = [reply EXCEPT ![t] = "open"]

Init ==
  /\ queue = {} /\ liveFile = {}
  /\ task = [t \in Task |-> NoJson]
  /\ state = [t \in Task |-> [status |-> "none", owner |-> 0, reason |-> "none"]]
  /\ aged = [t \in Task |-> FALSE]
  /\ claim = [t \in Task |-> 0]
  /\ reply = [t \in Task |-> "none"]
  /\ pc = [p \in Pid |-> "unborn"]
  /\ role = [p \in Pid |-> "none"]
  /\ job = [p \in Pid |-> NoTask]
  /\ tries = [p \in Pid |-> 0]
  /\ mode = "down" /\ at = "loop" /\ cur = NoTask
  /\ live = [t \in Task |-> 0]
  /\ reparking = [t \in Task |-> 0]
  /\ crashes = 0 /\ scanCrashes = 0
  /\ scan = [s \in Scanner |-> ScanOff]
  /\ starts = 0 /\ verbs = 0
  /\ filings = [t \in Task |-> 0]

-----------------------------------------------------------------------------
(* The intake: taskAlreadyExists looks for the card's directory first and   *)
(* for its entry in queue/ second.  A card whose first claim falls between  *)
(* the two looks is in neither place, and is filed again.                   *)

UnclaimedWhenRead(t) ==
  \/ ~Claimed(t)
  \/ at = "claimed" /\ cur = t /\ state[t].status = "none"

IntakeFile(t) ==
  /\ filings[t] < MaxFilings
  /\ UnclaimedWhenRead(t) /\ ~Queued(t)
  /\ filings' = [filings EXCEPT ![t] = @ + 1]
  /\ queue' = queue \cup {[card |-> t, class |-> "f", retries |-> 0]}
  /\ UNCHANGED <<task, state, aged, claim, liveFile, reply, procs, memory, scan,
                 starts, verbs>>

-----------------------------------------------------------------------------
(* The dispatcher.                                                         *)

\* daemon.js main under the lock; the startup orphan scan runs before the
\* dispatcher.  A worker boots in milliseconds, so none is still booting.
DaemonStart ==
  /\ mode = "down" /\ starts < MaxStarts
  /\ \A p \in Pid : pc[p] # "boot"
  /\ mode' = "startup"
  /\ starts' = starts + 1
  /\ crashes' = 0 /\ scanCrashes' = 0
  /\ scan' = [scan EXCEPT !["startup"] = ScanIdle]
  /\ UNCHANGED <<disk, procs, at, cur, live, reparking, verbs, filings>>

\* run(): publish the empty table, spawn the scanner, enter the loop.
DispatcherRun ==
  /\ mode = "startup"
  /\ scan["startup"].pc = "visit" /\ scan["startup"].todo = {}
  /\ mode' = "up"
  /\ liveFile' = LiveIds
  /\ scan' = [scan EXCEPT !["startup"] = ScanOff, !["child"] = ScanIdle]
  /\ UNCHANGED <<queue, task, state, aged, claim, reply, procs, at, cur, live,
                 reparking, breakers, bounds>>

\* fillSlots has a free slot.
SlotFree_OffByOne == mode = "up" /\ at = "loop" /\ Cardinality(LiveIds) <= Workers
SlotFree == mode = "up" /\ at = "loop" /\ Cardinality(LiveIds) < Workers

\* takeNextTask's skip set: the cards this dispatcher has a child for.
Takeable_LiveOnly(t) == t \notin LiveIds
Takeable(t) == t \notin LiveIds \cup ReparkingIds

\* takeNextTask on one entry of queue/: an entry that is scheduled for later
\* or that no account can serve is passed over, so any entry may be the one
\* it reaches.  A finished card's entry is moved to queue-refused/.
RefuseDuplicate(e) ==
  /\ SlotFree
  /\ Takeable(e.card)
  /\ state[e.card].status \in Undrainable
  /\ queue' = queue \ {e}
  /\ UNCHANGED <<task, state, aged, claim, liveFile, reply, procs, memory, scan, bounds>>

\* The claim: rename queue/<file> over <id>/task.json.
ClaimEntry(e) ==
  /\ SlotFree
  /\ Takeable(e.card)
  /\ state[e.card].status \notin Undrainable
  /\ queue' = queue \ {e}
  /\ task' = [task EXCEPT ![e.card] = e.retries]
  /\ at' = "claimed" /\ cur' = e.card
  /\ UNCHANGED <<state, aged, claim, liveFile, reply, procs, mode, live, reparking,
                 breakers, scan, bounds>>

SpawnWorker(p) ==
  /\ at = "claimed"
  /\ Spawn(p, "worker", cur)
  /\ live' = [live EXCEPT ![cur] = p]
  /\ at' = "spawned"
  /\ UNCHANGED <<disk, mode, cur, reparking, breakers, scan, bounds>>

Publish ==
  /\ at = "spawned"
  /\ liveFile' = LiveIds
  /\ at' = "loop" /\ cur' = NoTask
  /\ UNCHANGED <<queue, task, state, aged, claim, reply, procs, mode, live, reparking,
                 breakers, scan, bounds>>

Supervising == mode \in {"up", "drain", "term", "kill"} /\ at = "loop"

\* handleExit, exit code 0 or 20, and any exit once children were signalled.
ReapWorker(t) ==
  /\ Supervising
  /\ live[t] # 0
  /\ \/ pc[live[t]] = "exited" /\ crashes' = 0
     \/ pc[live[t]] = "crashed" /\ mode \in {"term", "kill"} /\ UNCHANGED crashes
  /\ live' = [live EXCEPT ![t] = 0]
  /\ liveFile' = LiveIds \ {t}
  /\ UNCHANGED <<queue, task, state, aged, claim, reply, procs, mode, at, cur,
                 reparking, scanCrashes, scan, bounds>>

\* handleExit of a crashed worker: the repark child is spawned first ...
SpawnRepark(t, p) ==
  /\ Supervising /\ mode \in {"up", "drain"}
  /\ live[t] # 0 /\ pc[live[t]] = "crashed"
  /\ crashes' = crashes + 1
  /\ Spawn(p, "repark", t)
  /\ reparking' = [reparking EXCEPT ![t] = p]
  /\ at' = "reparked" /\ cur' = t
  /\ UNCHANGED <<disk, mode, live, scanCrashes, scan, bounds>>

\* ... (or cannot be: no claim is written and the orphan scan recovers) ...
SpawnReparkFails(t) ==
  /\ Supervising /\ mode \in {"up", "drain"}
  /\ live[t] # 0 /\ pc[live[t]] = "crashed"
  /\ crashes' = crashes + 1
  /\ at' = "unlisting" /\ cur' = t
  /\ UNCHANGED <<disk, procs, mode, live, reparking, scanCrashes, scan, bounds>>

\* ... then its claim is written ...
WriteClaim_Skipped ==
  /\ at = "reparked"
  /\ at' = "unlisting"
  /\ UNCHANGED <<disk, procs, mode, cur, live, reparking, breakers, scan, bounds>>

WriteClaim ==
  /\ at = "reparked"
  /\ claim' = [claim EXCEPT ![cur] = reparking[cur]]
  /\ at' = "unlisting"
  /\ UNCHANGED <<queue, task, state, aged, liveFile, reply, procs, mode, cur, live,
                 reparking, breakers, scan, bounds>>

\* (or its write throws: handleExit's catch swallows that, and nobody tracks
\* the child) ...
WriteClaimFails ==
  /\ ClaimMayFail
  /\ at = "reparked"
  /\ reparking' = [reparking EXCEPT ![cur] = 0]
  /\ at' = "unlisting"
  /\ UNCHANGED <<disk, procs, mode, cur, live, breakers, scan, bounds>>

\* ... and only then is the card dropped from the live table.  The breaker
\* stops the loop: SIGTERM to the workers and the scanner.
Unlist ==
  /\ at = "unlisting"
  /\ live' = [live EXCEPT ![cur] = 0]
  /\ liveFile' = LiveIds \ {cur}
  /\ at' = "loop" /\ cur' = NoTask
  /\ IF mode = "up" /\ crashes >= CrashLimit
       THEN mode' = "term" /\ scan' = [scan EXCEPT !["child"] = ScanOff]
       ELSE UNCHANGED <<mode, scan>>
  /\ UNCHANGED <<queue, task, state, aged, claim, reply, procs, reparking, breakers,
                 bounds>>

\* The repark child's exit.
ReapRepark(t) ==
  /\ Supervising
  /\ reparking[t] # 0 /\ pc[reparking[t]] \in {"exited", "crashed"}
  /\ reparking' = [reparking EXCEPT ![t] = 0]
  /\ claim' = [claim EXCEPT ![t] = 0]
  /\ UNCHANGED <<queue, task, state, aged, liveFile, reply, procs, mode, at, cur, live,
                 breakers, scan, bounds>>

\* awaitInFlight, reapSignalledChildren: every child was reaped.
NothingInFlight_LiveOnly == LiveIds = {}
NothingInFlight == LiveIds \cup ReparkingIds = {}

\* SIGTERM: requestDrain stops the scanner and claims nothing more.  The
\* last incarnation of the bound is never asked to stop.
RequestDrain ==
  /\ mode = "up" /\ at = "loop" /\ starts < MaxStarts
  /\ mode' = "drain"
  /\ scan' = [scan EXCEPT !["child"] = ScanOff]
  /\ UNCHANGED <<disk, procs, at, cur, live, reparking, breakers, bounds>>

\* drainTimeoutMs is over with cards still in flight: SIGTERM.
DrainTimeout ==
  /\ mode = "drain" /\ at = "loop"
  /\ ~NothingInFlight
  /\ mode' = "term"
  /\ UNCHANGED <<disk, procs, at, cur, live, reparking, breakers, scan, bounds>>

\* reapSignalledChildren: the grace is over, SIGKILL to workers and reparks.
Escalate ==
  /\ mode = "term" /\ at = "loop"
  /\ ~NothingInFlight
  /\ mode' = "kill"
  /\ pc' = [p \in Pid |-> IF Alive(p) /\ \E t \in Task : p \in {live[t], reparking[t]}
                          THEN "crashed" ELSE pc[p]]
  /\ UNCHANGED <<disk, role, job, tries, at, cur, live, reparking, breakers, scan, bounds>>

\* Everything in flight was reaped: run() returns and the process exits.
DispatcherExit ==
  /\ mode \in {"drain", "term", "kill"} /\ at = "loop"
  /\ NothingInFlight
  /\ mode' = "down"
  /\ UNCHANGED <<disk, procs, at, cur, live, reparking, breakers, scan, bounds>>

\* SIGKILL, OOM, power.  With the unit's cgroup every child dies too;
\* without it children live on, the scanner until it sees its new parent.
DaemonCrash ==
  /\ mode # "down" /\ starts < MaxStarts
  /\ mode' = "down" /\ at' = "loop" /\ cur' = NoTask
  /\ live' = [t \in Task |-> 0]
  /\ reparking' = [t \in Task |-> 0]
  /\ \/ /\ pc' = [p \in Pid |-> IF Alive(p) THEN "crashed" ELSE pc[p]]
        /\ scan' = [s \in Scanner |-> ScanOff]
     \/ /\ Survivors
        /\ UNCHANGED pc
        /\ scan' = [scan EXCEPT !["startup"] = ScanOff, !["child"] = ScanOff,
                                !["survivor"] = IF scan["child"].pc = "idle" THEN ScanOff
                                                ELSE scan["child"]]
  /\ UNCHANGED <<disk, role, job, tries, breakers, bounds>>

-----------------------------------------------------------------------------
(* Workers (daemon.js runWorker, state-machine.js runTask).                *)

Worker(p, l) == role[p] = "worker" /\ pc[p] = l

\* runTask reads task.json and writes the first state.json of the run.
WorkerBoot(p) ==
  /\ Worker(p, "boot")
  /\ tries' = [tries EXCEPT ![p] = task[job[p]]]
  /\ WriteState(job[p], "run", p, "none")
  /\ Goto(p, "run")
  /\ UNCHANGED <<queue, task, claim, liveFile, reply, role, job, memory, scan, bounds>>

\* A transition of runStateMachineLoop: writeState(snapshot).
WorkerHop(p) ==
  /\ Worker(p, "run")
  /\ WriteState(job[p], "run", p, "none")
  /\ UNCHANGED <<queue, task, claim, liveFile, reply, procs, memory, scan, bounds>>

WorkerDone(p) ==
  /\ Worker(p, "run")
  /\ WriteState(job[p], "done", p, "none")
  /\ Goto(p, "leaving")
  /\ UNCHANGED <<queue, task, claim, liveFile, reply, role, job, tries, memory, scan,
                 bounds>>

\* finalizePark: 'parked' is journalled, then git and gh run for minutes ...
WorkerPark(p) ==
  /\ Worker(p, "run")
  /\ Goto(p, "parking")
  /\ UNCHANGED <<disk, role, job, tries, memory, scan, bounds>>

\* ... the state is written ...
WorkerParkWrite(p) ==
  /\ Worker(p, "parking")
  /\ WriteState(job[p], "parked", p, "signal")
  /\ Goto(p, "anchoring")
  /\ UNCHANGED <<queue, task, claim, liveFile, reply, role, job, tries, memory, scan, bounds>>

\* ... and the park comment posted.
WorkerAnchor(p) ==
  /\ Worker(p, "anchoring")
  /\ Anchor(job[p])
  /\ Goto(p, "leaving")
  /\ UNCHANGED <<queue, task, state, aged, claim, liveFile, role, job, tries, memory, scan,
                 bounds>>

RetryLeft(p) == tries[p] < RetryBudget

\* finalizePark of a transient reason within budget: re-enqueued, state.json
\* stays what the run last wrote.
WorkerRetry(p) ==
  /\ Worker(p, "run")
  /\ RetryLeft(p)
  /\ queue' = queue \cup {[card |-> job[p], class |-> "t", retries |-> tries[p] + 1]}
  /\ Goto(p, "leaving")
  /\ UNCHANGED <<task, state, aged, claim, liveFile, reply, role, job, tries, memory,
                 scan, bounds>>

WorkerExit(p) ==
  /\ Worker(p, "leaving")
  /\ Goto(p, "exited")
  /\ UNCHANGED <<disk, role, job, tries, memory, scan, bounds>>

-----------------------------------------------------------------------------
(* Repark children (daemon.js runRepark, state-machine.js reparkCrashedTask). *)

Repark(p, l) == role[p] = "repark" /\ pc[p] = l

\* A card that is already terminal is left alone.
ReparkSkips_NotParked(t) == state[t].status \in Undrainable
ReparkSkips(t) == state[t].status \in Terminal

ReparkBoot(p) ==
  /\ Repark(p, "boot")
  /\ Goto(p, IF ReparkSkips(job[p]) THEN "leaving" ELSE "parking")
  /\ UNCHANGED <<disk, role, job, tries, memory, scan, bounds>>

ReparkWrite(p) ==
  /\ Repark(p, "parking")
  /\ WriteState(job[p], "parked", 0, "crash")
  /\ Goto(p, "anchoring")
  /\ UNCHANGED <<queue, task, claim, liveFile, reply, role, job, tries, memory, scan, bounds>>

ReparkAnchor(p) ==
  /\ Repark(p, "anchoring")
  /\ Anchor(job[p])
  /\ Goto(p, "leaving")
  /\ UNCHANGED <<queue, task, state, aged, claim, liveFile, role, job, tries, memory, scan,
                 bounds>>

\* The finally block: clearReparkClaim, whoever's claim it is.
ReparkExit(p) ==
  /\ Repark(p, "leaving")
  /\ claim' = [claim EXCEPT ![job[p]] = 0]
  /\ Goto(p, "exited")
  /\ UNCHANGED <<queue, task, state, aged, liveFile, reply, role, job, tries, memory,
                 scan, bounds>>

\* An uncaught exception, a signal, the OOM killer.
ChildCrash(p) ==
  /\ Alive(p)
  /\ Goto(p, "crashed")
  /\ UNCHANGED <<disk, role, job, tries, memory, scan, bounds>>

-----------------------------------------------------------------------------
(* Scanning processes: the daemon's startup scan and the scanner child.    *)

ScanTo(s, r) == scan' = [scan EXCEPT ![s] = r]

InWindow == at \in {"claimed", "spawned"}

\* runScanCycle reads queue/ first ...
ScanQueue(s) ==
  /\ scan[s].pc = "idle" /\ s # "survivor"
  /\ ScanTo(s, [scan[s] EXCEPT !.pc = "live", !.window = InWindow,
                               !.queued = {t \in Task : Queued(t)}])
  /\ UNCHANGED <<disk, procs, memory, bounds>>

\* ... and live-workers.json second; the startup scan passes no live table.
\* Unless SplitReads, the two reads do not both land between the claim of a
\* card and the publication of its worker.
ScanLive(s) ==
  /\ scan[s].pc = "live"
  /\ SplitReads \/ ~(scan[s].window /\ InWindow)
  /\ ScanTo(s, [scan[s] EXCEPT !.pc = "visit", !.window = FALSE,
                               !.live = IF s = "startup" THEN {} ELSE liveFile,
                               !.todo = {t \in Task : Claimed(t)}])
  /\ UNCHANGED <<disk, procs, memory, bounds>>

\* The two orphan shapes: no state.json, or one whose owner is dead.
OwnerGone_NeverStarted(t) == state[t].status # "none" /\ ~Alive(state[t].owner)
OwnerGone_Unprobed(t) == TRUE
OwnerGone(t) == state[t].status = "none" \/ ~Alive(state[t].owner)

\* The card's repark claim names a process that exists.
ClaimHeld_Never(t) == FALSE
ClaimHeld(t) == Alive(claim[t])

\* orphanScan passes a card over if it is terminal or in one of the snapshots.
Skipped(s, t) == state[t].status \in Terminal \/ t \in scan[s].queued \cup scan[s].live

\* orphanScan on one card: state.json, the two snapshots, the repark claim (a
\* dead child's is cleared), the owner's pid, the grace.
ScanVisit(s, t) ==
  /\ scan[s].pc = "visit" /\ t \in scan[s].todo
  /\ claim' = IF Skipped(s, t) \/ ClaimHeld(t) THEN claim
              ELSE [claim EXCEPT ![t] = 0]
  /\ ScanTo(s, IF ~Skipped(s, t) /\ ~ClaimHeld(t) /\ OwnerGone(t) /\ aged[t]
                 THEN [scan[s] EXCEPT !.todo = @ \ {t}, !.pc = "park", !.card = t]
                 ELSE [scan[s] EXCEPT !.todo = @ \ {t}])
  /\ UNCHANGED <<queue, task, state, aged, liveFile, reply, procs, memory, bounds>>

\* finalizePark by the scan, minutes later.
ScanPark(s) ==
  /\ scan[s].pc = "park"
  /\ WriteState(scan[s].card, "parked", 0, "orphan")
  /\ ScanTo(s, [scan[s] EXCEPT !.pc = "anchor"])
  /\ UNCHANGED <<queue, task, claim, liveFile, reply, procs, memory, bounds>>

ScanAnchor(s) ==
  /\ scan[s].pc = "anchor"
  /\ Anchor(scan[s].card)
  /\ ScanTo(s, [scan[s] EXCEPT !.pc = "visit"])
  /\ UNCHANGED <<queue, task, state, aged, claim, liveFile, procs, memory, bounds>>

\* The cycle is over: scannerHealthyUptimeMs of the scanner child.  A scanner
\* whose parent is gone exits here.
ScanEnd(s) ==
  /\ scan[s].pc = "visit" /\ scan[s].todo = {} /\ s # "startup"
  /\ ScanTo(s, IF s = "child" THEN ScanIdle ELSE ScanOff)
  /\ scanCrashes' = IF s = "child" THEN 0 ELSE scanCrashes
  /\ UNCHANGED <<disk, procs, mode, at, cur, live, reparking, crashes, bounds>>

AwaitsReply(t) == state[t].status = "parked" /\ reply[t] = "open"

\* unparkScan: the card is PARKED, anchored, and its reply not handled yet; the
\* comments are then read over the network.
UnparkRead(s, t) ==
  /\ scan[s].pc = "visit" /\ scan[s].todo = {} /\ s # "startup"
  /\ AwaitsReply(t)
  /\ verbs < MaxVerbs
  /\ verbs' = verbs + 1
  /\ ScanTo(s, [scan[s] EXCEPT !.pc = "verb", !.card = t])
  /\ UNCHANGED <<disk, procs, memory, starts, filings>>

\* retry: the entry first ...
UnparkRetry(s) ==
  /\ scan[s].pc = "verb"
  /\ queue' = queue \cup {[card |-> scan[s].card, class |-> "h", retries |-> 0]}
  /\ ScanTo(s, [scan[s] EXCEPT !.pc = "verbEvent"])
  /\ UNCHANGED <<task, state, aged, claim, liveFile, reply, procs, memory, bounds>>

\* ... then the event that marks the reply handled.
UnparkRetryEvent(s) ==
  /\ scan[s].pc = "verbEvent"
  /\ reply' = [reply EXCEPT ![scan[s].card] = "handled"]
  /\ ScanTo(s, [scan[s] EXCEPT !.pc = "visit"])
  /\ UNCHANGED <<queue, task, state, aged, claim, liveFile, procs, memory, bounds>>

\* abandon: state.json is re-read and only its state and reason replaced.
UnparkAbandon(s) ==
  /\ scan[s].pc = "verb"
  /\ LET t == scan[s].card IN
     /\ WriteState(t, "abandoned", state[t].owner, "none")
     /\ reply' = [reply EXCEPT ![t] = "handled"]
  /\ ScanTo(s, [scan[s] EXCEPT !.pc = "visit"])
  /\ UNCHANGED <<queue, task, claim, liveFile, procs, memory, bounds>>

\* handleScannerExit: the scanner is respawned, or the breaker stops the loop.
ScannerCrash ==
  /\ mode = "up" /\ at = "loop"
  /\ scan["child"].pc \notin {"off", "idle"}
  /\ scanCrashes' = scanCrashes + 1
  /\ IF scanCrashes' >= ScanCrashLimit
       THEN mode' = "term" /\ ScanTo("child", ScanOff)
       ELSE UNCHANGED mode /\ ScanTo("child", ScanIdle)
  /\ UNCHANGED <<disk, procs, at, cur, live, reparking, crashes, bounds>>

\* orphanGraceMs passes.  It is minutes; a claim, a boot and the dispatcher's
\* answer to an exit are milliseconds, and nothing ages in the middle of one.
Age(t) ==
  /\ Claimed(t) /\ ~aged[t]
  /\ cur # t
  /\ \A p \in Pid : job[p] = t => pc[p] # "boot"
  /\ state[t].status = "run" \/ (state[t].status = "none" /\ live[t] = 0)
  /\ aged' = [aged EXCEPT ![t] = TRUE]
  /\ UNCHANGED <<queue, task, state, claim, liveFile, reply, procs, memory, scan, bounds>>

-----------------------------------------------------------------------------
Take == \E e \in queue : RefuseDuplicate(e) \/ ClaimEntry(e)

Started ==
  \/ \E p \in Pid : SpawnWorker(p)
  \/ Publish \/ WriteClaim \/ WriteClaimFails \/ Unlist

Reap ==
  \E t \in Task :
    \/ ReapWorker(t)
    \/ \E p \in Pid : SpawnRepark(t, p)
    \/ SpawnReparkFails(t)
    \/ ReapRepark(t)

Shutdown == RequestDrain \/ DrainTimeout \/ Escalate \/ DispatcherExit

RunStep(p) ==
  \/ WorkerBoot(p) \/ WorkerDone(p) \/ WorkerPark(p) \/ WorkerParkWrite(p)
  \/ WorkerAnchor(p) \/ WorkerRetry(p) \/ WorkerExit(p)
  \/ ReparkBoot(p) \/ ReparkWrite(p) \/ ReparkAnchor(p) \/ ReparkExit(p)

OrphanStep(s) ==
  \/ ScanQueue(s) \/ ScanLive(s) \/ ScanPark(s) \/ ScanAnchor(s)
  \/ ScanEnd(s)
  \/ \E t \in Task : ScanVisit(s, t)

UnparkStep(s) ==
  \/ \E t \in Task : UnparkRead(s, t)
  \/ UnparkRetry(s) \/ UnparkRetryEvent(s) \/ UnparkAbandon(s)

\* Unless SplitReads, queue/ gains no entry between a scan's read of it and of
\* live-workers.json.
BetweenReads == ~SplitReads /\ \E s \in Scanner : scan[s].pc = "live"

Next ==
  /\ \/ \E t \in Task : IntakeFile(t) \/ Age(t)
     \/ DaemonStart \/ DispatcherRun \/ Take \/ Started \/ Reap \/ Shutdown \/ DaemonCrash
     \/ \E p \in Pid : RunStep(p) \/ WorkerHop(p) \/ ChildCrash(p)
     \/ \E s \in Scanner : OrphanStep(s) \/ UnparkStep(s)
     \/ ScannerCrash
  /\ BetweenReads => queue' \subseteq queue

Spec == Init /\ [][Next]_vars

\* The unit is Restart=always, the dispatcher's loop, the scanner's timers and
\* the children's event loops always come round, and time passes.  Nothing
\* makes a crash, a shutdown, a reply or a filing happen.
Daemon == DaemonStart \/ DispatcherRun \/ DispatcherExit
Continue(s) == OrphanStep(s) \/ UnparkRetry(s) \/ UnparkRetryEvent(s) \/ UnparkAbandon(s)

Fairness ==
  /\ WF_vars(Daemon) /\ WF_vars(Take) /\ WF_vars(Started) /\ WF_vars(Reap)
  /\ \A p \in Pid : WF_vars(RunStep(p))
  /\ \A s \in Scanner : WF_vars(Continue(s))
  /\ \A t \in Task : WF_vars(Age(t))

FairSpec == Spec /\ Fairness

-----------------------------------------------------------------------------
(* Properties.                                                             *)

WriterProcs(t) == {p \in Pid : job[p] = t /\ pc[p] \in {"boot", "run", "parking"}}
WriterScans(t) == {s \in Scanner : scan[s].pc = "park" /\ scan[s].card = t}

\* A card has one writer at a time: a worker, a repark child and the park of
\* an orphan scan never overlap (the single-writer invariant of journal.js).
OneWriter == \A t \in Task : Cardinality(WriterProcs(t)) + Cardinality(WriterScans(t)) <= 1

\* No two workers run the same card, not even when the daemon that spawned
\* one of them is dead and its worker is not (daemon.js --worker holds no lock).
OneWorker == \A t \in Task : Cardinality({p \in WriterProcs(t) : role[p] = "worker"}) <= 1

\* While a repark child works, a scan is told to leave its card alone by one
\* of two files: live-workers.json, or the card's claim naming the child
\* (dispatcher.js writes the claim before it drops the card from the table).
ReparkIsAnnounced ==
  \A p \in Pid : role[p] = "repark" /\ pc[p] \in {"boot", "parking"} =>
     job[p] \in liveFile \/ claim[job[p]] = p

\* No more workers exist than config.workers, crashed ones and those a drain
\* or a kill is ending included (fillSlots counts a table, not processes).
SlotsBoundWorkers == Cardinality({p \in Pid : role[p] = "worker" /\ Alive(p)}) <= Workers

\* A daemon that exits by itself leaves no worker and no repark child behind
\* it: whoever takes the lock next starts alone (dispatcher.js run()'s tail).
ExitLeavesNoChild == mode = "down" /\ ~Survivors => \A p \in Pid : ~Alive(p)

\* The maintainer's abandon, read while the card was PARKED, arrives.
AbandonArrives(t) ==
  \E s \in Scanner : scan[s].pc = "verb" /\ scan[s].card = t /\ scan'[s].pc = "visit"

\* A card that is DONE stays DONE, whatever is still queued for it and
\* whichever child or scan still looks at it; only an abandon that was read
\* before another entry brought the card back overtakes its run.
DoneIsFinal ==
  [][\A t \in Task : state[t].status = "done" =>
       state'[t].status = "done" \/ AbandonArrives(t)]_vars

\* A run is parked once: nobody parks a parked card again, which would post a
\* second park comment and move the anchor the maintainer's reply answers.
ParkIsFinal ==
  [][\A t \in Task : state[t].status = "parked" /\ state'[t].status = "parked"
                     => state'[t] = state[t]]_vars

\* While a daemon stays up, every card that was filed gets a verdict, whatever
\* crashed before, during or after its run (dispatcher, worker, repark child,
\* scanner), and no entry stays in queue/.
Unsettled(t) == Queued(t) \/ (Claimed(t) /\ state[t].status \notin Terminal)

EveryCardSettles == \A t \in Task : Unsettled(t) ~> ~Unsettled(t) \/ mode # "up"
=============================================================================
