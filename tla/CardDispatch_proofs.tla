------------------------- MODULE CardDispatch_proofs -------------------------
(***************************************************************************)
(* Proofs about CardDispatch, for every number of cards, workers, pids,    *)
(* retries, crashes and restarts: types, the hand-over from a crashed      *)
(* worker to its repark child, who may write a card's state, and that no   *)
(* card is forgotten.                                                      *)
(***************************************************************************)
EXTENDS CardDispatch, FiniteSetTheorems, TLAPS

\* Everything that has a card in hand names one, and the scanner breaker has
\* not tripped while the daemon runs: what TypeOK needs to be inductive.
Assigned ==
  /\ \A p \in Pid : role[p] # "none" => job[p] \in Task
  /\ at # "loop" => cur \in Task
  /\ \A s \in Scanner :
       scan[s].pc \in {"park", "anchor", "verb", "verbEvent"} => scan[s].card \in Task
  /\ mode \in {"startup", "up"} => scanCrashes < ScanCrashLimit

TypeInv == TypeOK /\ Assigned

-----------------------------------------------------------------------------
(* Type correctness.  The parts of TypeInv that hold records, state.json    *)
(* and the scanners' memory, have lemmas of their own.                      *)

StateOK == state \in [Task -> StateJson] /\ aged \in [Task -> BOOLEAN]

HasCard(r) == r.pc \in {"park", "anchor", "verb", "verbEvent"} => r.card \in Task
ScanOK == scan \in [Scanner -> Scan] /\ \A s \in Scanner : HasCard(scan[s])

LEMMA ScanConstants ==
  /\ ScanOff \in Scan /\ ScanOff.pc = "off" /\ HasCard(ScanOff)
  /\ ScanIdle \in Scan /\ ScanIdle.pc = "idle" /\ HasCard(ScanIdle)
BY DEF ScanOff, ScanIdle, Scan, ScanPC, HasCard

LEMMA WriteStateOK ==
  ASSUME StateOK, NEW t \in Task, NEW v \in Status, NEW o \in 0..MaxPid, NEW r \in Reason,
         WriteState(t, v, o, r)
  PROVE  StateOK'
<1>1. [status |-> v, owner |-> o, reason |-> r] \in StateJson
  BY DEF StateJson
<1> QED
  BY <1>1 DEF StateOK, WriteState

\* What the two snapshot reads of a scan make of its memory.
LEMMA ScanReads ==
  ASSUME NEW m \in Scan, NEW w \in BOOLEAN, NEW a \in SUBSET Task, NEW b \in SUBSET Task
  PROVE  /\ LET r == [m EXCEPT !.pc = "live", !.window = w, !.queued = a]
            IN  r \in Scan /\ HasCard(r)
         /\ LET r == [m EXCEPT !.pc = "visit", !.window = FALSE, !.live = a, !.todo = b]
            IN  r \in Scan /\ HasCard(r)
BY DEF Scan, ScanPC, HasCard

LEMMA ScanToOK ==
  ASSUME ScanOK, NEW s \in Scanner, NEW r \in Scan, HasCard(r), ScanTo(s, r)
  PROVE  ScanOK'
BY DEF ScanOK, ScanTo

LEMMA TypeInvParts == TypeInv => StateOK /\ ScanOK
BY DEF TypeInv, TypeOK, Assigned, StateOK, ScanOK, HasCard

LEMMA InitTypeInv == Init => TypeInv
BY CardDispatchAssumption
   DEF Init, TypeInv, TypeOK, Assigned, Entry, NoJson, StateJson, Status, Reason, Pid,
       ProcPC, Role, Mode, At, Scanner, Scan, ScanPC, ScanOff

LEMMA NextTypeInv == TypeInv /\ [Next]_vars => TypeInv'
<1> SUFFICES ASSUME TypeInv, [Next]_vars PROVE TypeInv'
  OBVIOUS
<1>p. StateOK /\ ScanOK
  BY TypeInvParts
<1> USE CardDispatchAssumption DEF procs, disk, memory, breakers, bounds
<1>1. ASSUME NEW t \in Task, IntakeFile(t) PROVE TypeInv'
  BY <1>1 DEF IntakeFile, Entry, TypeInv, TypeOK, Assigned
<1>2. ASSUME NEW t \in Task, Age(t) PROVE TypeInv'
  BY <1>2 DEF Age, TypeInv, TypeOK, Assigned
<1>3. ASSUME DaemonStart PROVE TypeInv'
  <2>1. ScanOK'
    BY <1>3, <1>p, ScanConstants DEF DaemonStart, ScanOK, ScanTo, Scanner
  <2> QED
    BY <1>3, <2>1 DEF DaemonStart, StateOK, ScanOK, HasCard, TypeInv, TypeOK, Assigned, Mode
<1>4. ASSUME DispatcherRun PROVE TypeInv'
  <2>1. ScanOK'
    BY <1>4, <1>p, ScanConstants DEF DispatcherRun, ScanOK, ScanTo, Scanner
  <2> QED
    BY <1>4, <2>1 DEF DispatcherRun, StateOK, ScanOK, HasCard, TypeInv, TypeOK, Assigned, Mode,
       LiveIds
<1>5. ASSUME NEW e \in queue, RefuseDuplicate(e) PROVE TypeInv'
  BY <1>5 DEF RefuseDuplicate, TypeInv, TypeOK, Assigned
<1>6. ASSUME NEW e \in queue, ClaimEntry(e) PROVE TypeInv'
  BY <1>6 DEF ClaimEntry, Entry, NoJson, At, SlotFree, TypeInv, TypeOK, Assigned
<1>7. ASSUME NEW p \in Pid, SpawnWorker(p) PROVE TypeInv'
  <2>1. cur \in Task /\ p \in 0..MaxPid
    BY <1>7, CardDispatchAssumption DEF SpawnWorker, Pid, TypeInv, Assigned
  <2>2. /\ pc' \in [Pid -> ProcPC] /\ role' \in [Pid -> Role]
        /\ job' \in [Pid -> Task \cup {NoTask}] /\ live' \in [Task -> 0..MaxPid]
        /\ at' \in At
    BY <1>7, <2>1 DEF SpawnWorker, Spawn, ProcPC, Role, At, TypeInv, TypeOK
  <2>3. TypeOK'
    BY <1>7, <2>2 DEF SpawnWorker, Spawn, TypeInv, TypeOK, disk, breakers, bounds
  <2>4. Assigned'
    BY <1>7, <2>1 DEF SpawnWorker, Spawn, TypeInv, TypeOK, Assigned
  <2> QED
    BY <2>3, <2>4 DEF TypeInv
<1>8. ASSUME Publish PROVE TypeInv'
  BY <1>8 DEF Publish, LiveIds, At, TypeInv, TypeOK, Assigned
<1>9. ASSUME WriteClaim PROVE TypeInv'
  BY <1>9 DEF WriteClaim, At, TypeInv, TypeOK, Assigned
<1>10. ASSUME WriteClaimFails PROVE TypeInv'
  BY <1>10 DEF WriteClaimFails, At, TypeInv, TypeOK, Assigned
<1>11. ASSUME Unlist PROVE TypeInv'
  <2>1. ScanOK'
    BY <1>11, <1>p, ScanConstants DEF Unlist, ScanOK, ScanTo, Scanner
  <2> QED
    BY <1>11, <2>1 DEF Unlist, StateOK, ScanOK, HasCard, TypeInv, TypeOK, Assigned, At, Mode,
       LiveIds
<1>12. ASSUME NEW t \in Task, ReapWorker(t) PROVE TypeInv'
  BY <1>12 DEF ReapWorker, LiveIds, TypeInv, TypeOK, Assigned
<1>13. ASSUME NEW t \in Task, NEW p \in Pid, SpawnRepark(t, p) PROVE TypeInv'
  <2>1. p \in 0..MaxPid /\ crashes' \in Nat
    BY <1>13, CardDispatchAssumption DEF SpawnRepark, Pid, TypeInv, TypeOK
  <2>2. /\ pc' \in [Pid -> ProcPC] /\ role' \in [Pid -> Role]
        /\ job' \in [Pid -> Task \cup {NoTask}] /\ reparking' \in [Task -> 0..MaxPid]
        /\ at' \in At /\ cur' \in Task \cup {NoTask}
    BY <1>13, <2>1 DEF SpawnRepark, Spawn, ProcPC, Role, At, TypeInv, TypeOK
  <2>3. TypeOK'
    BY <1>13, <2>1, <2>2 DEF SpawnRepark, Spawn, TypeInv, TypeOK, disk, bounds
  <2>4. Assigned'
    BY <1>13 DEF SpawnRepark, Spawn, TypeInv, TypeOK, Assigned
  <2> QED
    BY <2>3, <2>4 DEF TypeInv
<1>14. ASSUME NEW t \in Task, SpawnReparkFails(t) PROVE TypeInv'
  BY <1>14 DEF SpawnReparkFails, At, TypeInv, TypeOK, Assigned
<1>15. ASSUME NEW t \in Task, ReapRepark(t) PROVE TypeInv'
  BY <1>15 DEF ReapRepark, TypeInv, TypeOK, Assigned
<1>16. ASSUME RequestDrain PROVE TypeInv'
  <2>1. ScanOK'
    BY <1>16, <1>p, ScanConstants DEF RequestDrain, ScanOK, ScanTo, Scanner
  <2> QED
    BY <1>16, <2>1 DEF RequestDrain, StateOK, ScanOK, HasCard, TypeInv, TypeOK, Assigned, Mode
<1>17. ASSUME DrainTimeout PROVE TypeInv'
  BY <1>17 DEF DrainTimeout, Mode, TypeInv, TypeOK, Assigned
<1>18. ASSUME Escalate PROVE TypeInv'
  BY <1>18 DEF Escalate, Mode, ProcPC, TypeInv, TypeOK, Assigned
<1>19. ASSUME DispatcherExit PROVE TypeInv'
  BY <1>19 DEF DispatcherExit, Mode, TypeInv, TypeOK, Assigned
<1>20. ASSUME DaemonCrash PROVE TypeInv'
  <2>1. ScanOK'
    BY <1>20, <1>p, ScanConstants DEF DaemonCrash, ScanOK, ScanTo, Scanner
  <2> QED
    BY <1>20, <2>1 DEF DaemonCrash, StateOK, ScanOK, HasCard, TypeInv, TypeOK, Assigned, Mode,
       At, ProcPC
<1>21. ASSUME NEW p \in Pid, WorkerBoot(p) PROVE TypeInv'
  <2>1. job[p] \in Task
    BY <1>21 DEF WorkerBoot, Worker, TypeInv, Assigned
  <2>2. StateOK'
    BY CardDispatchAssumption, <1>21, <1>p, <2>1, WriteStateOK DEF WorkerBoot, Status, Reason, Pid
  <2> QED
    BY <1>21, <2>1, <2>2 DEF WorkerBoot, StateOK, ScanOK, HasCard, TypeInv, TypeOK, Assigned,
       Worker, Goto, ProcPC, Pid
<1>22. ASSUME NEW p \in Pid, WorkerHop(p) PROVE TypeInv'
  <2>1. job[p] \in Task
    BY <1>22 DEF WorkerHop, Worker, TypeInv, Assigned
  <2>2. StateOK'
    BY CardDispatchAssumption, <1>22, <1>p, <2>1, WriteStateOK DEF WorkerHop, Status, Reason, Pid
  <2> QED
    BY <1>22, <2>1, <2>2 DEF WorkerHop, StateOK, ScanOK, HasCard, TypeInv, TypeOK, Assigned,
       Worker, Goto, ProcPC, Pid
<1>23. ASSUME NEW p \in Pid, WorkerDone(p) PROVE TypeInv'
  <2>1. job[p] \in Task
    BY <1>23 DEF WorkerDone, Worker, TypeInv, Assigned
  <2>2. StateOK'
    BY CardDispatchAssumption, <1>23, <1>p, <2>1, WriteStateOK DEF WorkerDone, Status, Reason, Pid
  <2> QED
    BY <1>23, <2>1, <2>2 DEF WorkerDone, StateOK, ScanOK, HasCard, TypeInv, TypeOK, Assigned,
       Worker, Goto, ProcPC, Pid
<1>24. ASSUME NEW p \in Pid, WorkerPark(p) PROVE TypeInv'
  BY <1>24 DEF WorkerPark, Worker, Goto, ProcPC, TypeInv, TypeOK, Assigned
<1>25. ASSUME NEW p \in Pid, WorkerParkWrite(p) PROVE TypeInv'
  <2>1. job[p] \in Task
    BY <1>25 DEF WorkerParkWrite, Worker, TypeInv, Assigned
  <2>2. StateOK'
    BY CardDispatchAssumption, <1>25, <1>p, <2>1, WriteStateOK DEF WorkerParkWrite, Status,
       Reason, Pid
  <2> QED
    BY <1>25, <2>1, <2>2 DEF WorkerParkWrite, StateOK, ScanOK, HasCard, TypeInv, TypeOK,
       Assigned, Worker, Goto, ProcPC, Pid
<1>26. ASSUME NEW p \in Pid, WorkerAnchor(p) PROVE TypeInv'
  BY <1>26 DEF WorkerAnchor, Worker, Anchor, Goto, ProcPC, TypeInv, TypeOK, Assigned
<1>27. ASSUME NEW p \in Pid, WorkerRetry(p) PROVE TypeInv'
  BY <1>27 DEF WorkerRetry, Worker, RetryLeft, Entry, NoJson, Goto, ProcPC, TypeInv, TypeOK,
     Assigned
<1>28. ASSUME NEW p \in Pid, WorkerExit(p) PROVE TypeInv'
  BY <1>28 DEF WorkerExit, Worker, Goto, ProcPC, TypeInv, TypeOK, Assigned
<1>29. ASSUME NEW p \in Pid, ReparkBoot(p) PROVE TypeInv'
  BY <1>29 DEF ReparkBoot, Repark, Goto, ProcPC, TypeInv, TypeOK, Assigned
<1>30. ASSUME NEW p \in Pid, ReparkWrite(p) PROVE TypeInv'
  <2>1. job[p] \in Task
    BY <1>30 DEF ReparkWrite, Repark, TypeInv, Assigned
  <2>2. StateOK'
    BY CardDispatchAssumption, <1>30, <1>p, <2>1, WriteStateOK DEF ReparkWrite, Status, Reason,
       Pid
  <2> QED
    BY <1>30, <2>1, <2>2 DEF ReparkWrite, StateOK, ScanOK, HasCard, TypeInv, TypeOK, Assigned,
       Repark, Goto, ProcPC, Pid
<1>31. ASSUME NEW p \in Pid, ReparkAnchor(p) PROVE TypeInv'
  BY <1>31 DEF ReparkAnchor, Repark, Anchor, Goto, ProcPC, TypeInv, TypeOK, Assigned
<1>32. ASSUME NEW p \in Pid, ReparkExit(p) PROVE TypeInv'
  BY <1>32 DEF ReparkExit, Repark, Goto, ProcPC, TypeInv, TypeOK, Assigned
<1>33. ASSUME NEW p \in Pid, ChildCrash(p) PROVE TypeInv'
  BY <1>33 DEF ChildCrash, Goto, ProcPC, TypeInv, TypeOK, Assigned
<1>34. ASSUME NEW s \in Scanner, ScanQueue(s) PROVE TypeInv'
  <2> DEFINE r == [scan[s] EXCEPT !.pc = "live", !.window = InWindow,
                            !.queued = {t \in Task : Queued(t)}]
  <2>0. {t \in Task : Queued(t)} \in SUBSET Task /\ InWindow \in BOOLEAN
    BY DEF InWindow
  <2>1. r \in Scan /\ HasCard(r)
    BY <1>p, <2>0, ScanReads DEF ScanOK
  <2>2. ScanOK'
    BY <1>34, <1>p, <2>1, ScanToOK DEF ScanQueue
  <2> QED
    BY <1>34, <2>2 DEF ScanQueue, StateOK, ScanOK, HasCard, TypeInv, TypeOK, Assigned, Queued,
       Claimed
<1>35. ASSUME NEW s \in Scanner, ScanLive(s) PROVE TypeInv'
  <2> DEFINE a == IF s = "startup" THEN {} ELSE liveFile
             b == {t \in Task : Claimed(t)}
             r == [scan[s] EXCEPT !.pc = "visit", !.window = FALSE, !.live = a, !.todo = b]
  <2>0. a \in SUBSET Task /\ b \in SUBSET Task
    BY DEF TypeInv, TypeOK
  <2>1. r \in Scan /\ HasCard(r)
    BY <1>p, <2>0, ScanReads DEF ScanOK
  <2>2. ScanOK'
    BY <1>35, <1>p, <2>1, ScanToOK DEF ScanLive
  <2> QED
    BY <1>35, <2>2 DEF ScanLive, StateOK, ScanOK, HasCard, TypeInv, TypeOK, Assigned, Queued,
       Claimed
<1>36. ASSUME NEW s \in Scanner, NEW t \in Task, ScanVisit(s, t) PROVE TypeInv'
  <2> DEFINE r == IF ~Skipped(s, t) /\ ~ClaimHeld(t) /\ OwnerGone(t) /\ aged[t]
                       THEN [scan[s] EXCEPT !.todo = @ \ {t}, !.pc = "park", !.card = t]
                       ELSE [scan[s] EXCEPT !.todo = @ \ {t}]
  <2>1. r \in Scan /\ HasCard(r)
    BY <1>36, <1>p, ScanConstants DEF ScanVisit, ScanOK, Scan, ScanPC, HasCard
  <2>2. ScanOK'
    BY <1>36, <1>p, <2>1, ScanToOK DEF ScanVisit
  <2> QED
    BY <1>36, <2>2 DEF ScanVisit, StateOK, ScanOK, HasCard, TypeInv, TypeOK, Assigned
<1>37. ASSUME NEW s \in Scanner, ScanPark(s) PROVE TypeInv'
  <2> DEFINE r == [scan[s] EXCEPT !.pc = "anchor"]
  <2>1. r \in Scan /\ HasCard(r)
    BY <1>37, <1>p, ScanConstants DEF ScanPark, ScanOK, Scan, ScanPC, HasCard
  <2>2. ScanOK'
    BY <1>37, <1>p, <2>1, ScanToOK DEF ScanPark
  <2>3. scan[s].card \in Task
    BY <1>37, <1>p DEF ScanPark, ScanOK, HasCard
  <2>4. StateOK'
    BY CardDispatchAssumption, <1>37, <1>p, <2>3, WriteStateOK DEF ScanPark, Status, Reason, Pid
  <2> QED
    BY <1>37, <2>2, <2>3, <2>4 DEF ScanPark, StateOK, ScanOK, HasCard, TypeInv, TypeOK,
       Assigned, Pid
<1>38. ASSUME NEW s \in Scanner, ScanAnchor(s) PROVE TypeInv'
  <2> DEFINE r == [scan[s] EXCEPT !.pc = "visit"]
  <2>1. r \in Scan /\ HasCard(r)
    BY <1>38, <1>p, ScanConstants DEF ScanAnchor, ScanOK, Scan, ScanPC, HasCard
  <2>2. ScanOK'
    BY <1>38, <1>p, <2>1, ScanToOK DEF ScanAnchor
  <2> QED
    BY <1>38, <2>2 DEF ScanAnchor, StateOK, ScanOK, HasCard, TypeInv, TypeOK, Assigned, Anchor
<1>39. ASSUME NEW s \in Scanner, ScanEnd(s) PROVE TypeInv'
  <2> DEFINE r == IF s = "child" THEN ScanIdle ELSE ScanOff
  <2>1. r \in Scan /\ HasCard(r)
    BY <1>39, <1>p, ScanConstants DEF ScanEnd, ScanOK, Scan, ScanPC, HasCard
  <2>2. ScanOK'
    BY <1>39, <1>p, <2>1, ScanToOK DEF ScanEnd
  <2> QED
    BY <1>39, <2>2 DEF ScanEnd, StateOK, ScanOK, HasCard, TypeInv, TypeOK, Assigned
<1>40. ASSUME NEW s \in Scanner, NEW t \in Task, UnparkRead(s, t) PROVE TypeInv'
  <2> DEFINE r == [scan[s] EXCEPT !.pc = "verb", !.card = t]
  <2>1. r \in Scan /\ HasCard(r)
    BY <1>40, <1>p, ScanConstants DEF UnparkRead, ScanOK, Scan, ScanPC, HasCard
  <2>2. ScanOK'
    BY <1>40, <1>p, <2>1, ScanToOK DEF UnparkRead
  <2> QED
    BY <1>40, <2>2 DEF UnparkRead, StateOK, ScanOK, HasCard, TypeInv, TypeOK, Assigned
<1>41. ASSUME NEW s \in Scanner, UnparkRetry(s) PROVE TypeInv'
  <2> DEFINE r == [scan[s] EXCEPT !.pc = "verbEvent"]
  <2>1. r \in Scan /\ HasCard(r)
    BY <1>41, <1>p, ScanConstants DEF UnparkRetry, ScanOK, Scan, ScanPC, HasCard
  <2>2. ScanOK'
    BY <1>41, <1>p, <2>1, ScanToOK DEF UnparkRetry
  <2> QED
    BY <1>41, <2>2 DEF UnparkRetry, StateOK, ScanOK, HasCard, TypeInv, TypeOK, Assigned, Entry
<1>42. ASSUME NEW s \in Scanner, UnparkRetryEvent(s) PROVE TypeInv'
  <2> DEFINE r == [scan[s] EXCEPT !.pc = "visit"]
  <2>1. r \in Scan /\ HasCard(r)
    BY <1>42, <1>p, ScanConstants DEF UnparkRetryEvent, ScanOK, Scan, ScanPC, HasCard
  <2>2. ScanOK'
    BY <1>42, <1>p, <2>1, ScanToOK DEF UnparkRetryEvent
  <2> QED
    BY <1>42, <2>2 DEF UnparkRetryEvent, StateOK, ScanOK, HasCard, TypeInv, TypeOK, Assigned
<1>43. ASSUME NEW s \in Scanner, UnparkAbandon(s) PROVE TypeInv'
  <2> DEFINE r == [scan[s] EXCEPT !.pc = "visit"]
  <2>1. r \in Scan /\ HasCard(r)
    BY <1>43, <1>p, ScanConstants DEF UnparkAbandon, ScanOK, Scan, ScanPC, HasCard
  <2>2. ScanOK'
    BY <1>43, <1>p, <2>1, ScanToOK DEF UnparkAbandon
  <2>3. scan[s].card \in Task
    BY <1>43, <1>p DEF UnparkAbandon, ScanOK, HasCard
  <2>4. state[scan[s].card].owner \in 0..MaxPid
    BY <1>p, <2>3 DEF StateOK, StateJson
  <2>5. StateOK'
    BY CardDispatchAssumption, <1>43, <1>p, <2>4, <2>3, WriteStateOK DEF UnparkAbandon, Status,
       Reason, Pid
  <2> QED
    BY <1>43, <2>2, <2>4, <2>3, <2>5 DEF UnparkAbandon, StateOK, ScanOK, HasCard, TypeInv,
       TypeOK, Assigned, Pid
<1>44. ASSUME ScannerCrash PROVE TypeInv'
  <2>1. ScanOK'
    BY <1>44, <1>p, ScanConstants DEF ScannerCrash, ScanOK, ScanTo, Scanner
  <2> QED
    BY <1>44, <2>1 DEF ScannerCrash, StateOK, ScanOK, HasCard, TypeInv, TypeOK, Assigned, Mode
<1>45. CASE UNCHANGED vars
  BY <1>45 DEF vars, TypeInv, TypeOK, Assigned
<1> QED
  BY <1>1, <1>2, <1>3, <1>4, <1>5, <1>6, <1>7, <1>8, <1>9, <1>10, <1>11, <1>12, <1>13, <1>14,
     <1>15, <1>16, <1>17, <1>18, <1>19, <1>20, <1>21, <1>22, <1>23, <1>24, <1>25, <1>26, <1>27,
        <1>28, <1>29, <1>30, <1>31, <1>32, <1>33, <1>34, <1>35, <1>36, <1>37, <1>38, <1>39,
           <1>40, <1>41, <1>42, <1>43, <1>44, <1>45
     DEF Next, Take, Started, Reap, Shutdown, RunStep, OrphanStep, UnparkStep

(***************************************************************************)
(* Every variable of the dispatch keeps its type, for every number of      *)
(* cards, workers and processes: no pid, retry count or breaker count      *)
(* leaves its range, and whoever works on a card has one in hand.          *)
(***************************************************************************)
THEOREM TypeCorrect == Spec => []TypeOK
<1>1. Init => TypeInv
  BY InitTypeInv
<1>2. TypeInv /\ [Next]_vars => TypeInv'
  BY NextTypeInv
<1>3. TypeInv => TypeOK
  BY DEF TypeInv
<1> QED
  BY <1>1, <1>2, <1>3, PTL DEF Spec

-----------------------------------------------------------------------------
(* The inductive invariant of the hand-over, where no child outlives the   *)
(* daemon and a claim can always be written.                               *)

Running == mode \in {"up", "drain", "term", "kill"}

\* Every living child is the one its card's table entry names.
Tracked ==
  \A p \in Pid : Alive(p) => role[p] # "none" /\ p \in {live[job[p]], reparking[job[p]]}

\* Between runs of the daemon the tables are empty.
TablesEmptyAtRest == ~Running => /\ at = "loop"
                                 /\ \A t \in Task : live[t] = 0 /\ reparking[t] = 0

\* A card is in one table, except while handleExit moves it from the first,
\* by then a dead worker's, to the second.
HandOver ==
  /\ \A t \in Task :
       live[t] # 0 => reparking[t] = 0 \/ (at \in {"reparked", "unlisting"} /\ cur = t)
  /\ at = "claimed" => live[cur] = 0 /\ reparking[cur] = 0
  /\ at = "spawned" => reparking[cur] = 0
  /\ at \in {"reparked", "unlisting"} => live[cur] \in Pid /\ pc[live[cur]] = "crashed"

\* live-workers.json is the live table, except for the worker just spawned.
LiveFileIsTable == Running => liveFile = IF at = "spawned" THEN LiveIds \ {cur} ELSE LiveIds

\* A repark child has its claim, or handleExit has not written it yet.
ClaimFollows ==
  \A p \in Pid : role[p] = "repark" /\ Alive(p) =>
    /\ reparking[job[p]] = p
    /\ pc[p] \in {"boot", "parking"} =>
         claim[job[p]] = p \/ (at = "reparked" /\ cur = job[p])

HandOverInv == Tracked /\ TablesEmptyAtRest /\ HandOver /\ LiveFileIsTable /\ ClaimFollows
DispatchInv == TypeInv /\ HandOverInv

\* What the proof uses of TypeInv.
Typed ==
  /\ pc \in [Pid -> ProcPC] /\ role \in [Pid -> Role] /\ job \in [Pid -> Task \cup {NoTask}]
  /\ live \in [Task -> 0..MaxPid] /\ reparking \in [Task -> 0..MaxPid]
  /\ claim \in [Task -> 0..MaxPid]
  /\ \A p \in Pid : role[p] # "none" => job[p] \in Task
  /\ at # "loop" => cur \in Task

LEMMA TypedFromTypeInv == TypeInv => Typed
BY DEF TypeInv, TypeOK, Assigned, Typed

LEMMA InitHandOver == Init => HandOverInv
BY DEF Init, HandOverInv, Tracked, TablesEmptyAtRest, HandOver, LiveFileIsTable, ClaimFollows,
       Running, Alive, Pid

LEMMA NextHandOver ==
  ASSUME Survivors = FALSE, ClaimMayFail = FALSE, DispatchInv, [Next]_vars
  PROVE  HandOverInv'
<1>t. Typed /\ HandOverInv
  BY TypedFromTypeInv DEF DispatchInv
<1> USE CardDispatchAssumption, <1>t
    DEF HandOverInv, Tracked, TablesEmptyAtRest, HandOver, LiveFileIsTable, ClaimFollows,
        Running, Alive, Pid, LiveIds, Typed, procs, disk, memory
<1>1. ASSUME NEW t \in Task, IntakeFile(t) PROVE HandOverInv'
  BY <1>1 DEF IntakeFile
<1>2. ASSUME NEW t \in Task, Age(t) PROVE HandOverInv'
  BY <1>2 DEF Age
<1>3. ASSUME DaemonStart PROVE HandOverInv'
  BY <1>3 DEF DaemonStart
<1>4. ASSUME DispatcherRun PROVE HandOverInv'
  BY <1>4 DEF DispatcherRun
<1>5. ASSUME NEW e \in Entry, RefuseDuplicate(e) PROVE HandOverInv'
  BY <1>5 DEF RefuseDuplicate
<1>6. ASSUME NEW e \in Entry, ClaimEntry(e) PROVE HandOverInv'
  BY <1>6 DEF ClaimEntry, SlotFree, Takeable, ReparkingIds, Entry
<1>7. ASSUME NEW p \in Pid, SpawnWorker(p) PROVE HandOverInv'
  BY <1>7 DEF SpawnWorker, Spawn, NextPid
<1>8. ASSUME Publish PROVE HandOverInv'
  BY <1>8 DEF Publish
<1>9. ASSUME WriteClaim PROVE HandOverInv'
  BY <1>9 DEF WriteClaim
<1>10. ASSUME WriteClaimFails PROVE HandOverInv'
  BY <1>10 DEF WriteClaimFails
<1>11. ASSUME Unlist PROVE HandOverInv'
  BY <1>11 DEF Unlist
<1>12. ASSUME NEW t \in Task, ReapWorker(t) PROVE HandOverInv'
  BY <1>12 DEF ReapWorker, Supervising
<1>13. ASSUME NEW t \in Task, NEW p \in Pid, SpawnRepark(t, p) PROVE HandOverInv'
  BY <1>13 DEF SpawnRepark, Spawn, NextPid, Supervising
<1>14. ASSUME NEW t \in Task, SpawnReparkFails(t) PROVE HandOverInv'
  BY <1>14 DEF SpawnReparkFails, Supervising
<1>15. ASSUME NEW t \in Task, ReapRepark(t) PROVE HandOverInv'
  BY <1>15 DEF ReapRepark, Supervising
<1>16. ASSUME RequestDrain PROVE HandOverInv'
  BY <1>16 DEF RequestDrain
<1>17. ASSUME DrainTimeout PROVE HandOverInv'
  BY <1>17 DEF DrainTimeout
<1>18. ASSUME Escalate PROVE HandOverInv'
  BY <1>18 DEF Escalate
<1>19. ASSUME DispatcherExit PROVE HandOverInv'
  BY <1>19 DEF DispatcherExit, NothingInFlight, ReparkingIds
<1>20. ASSUME DaemonCrash PROVE HandOverInv'
  BY <1>20 DEF DaemonCrash
<1>21. ASSUME NEW p \in Pid, WorkerBoot(p) PROVE HandOverInv'
  BY <1>21 DEF WorkerBoot, Worker, WriteState, Goto
<1>22. ASSUME NEW p \in Pid, WorkerHop(p) PROVE HandOverInv'
  BY <1>22 DEF WorkerHop, Worker, WriteState, Goto
<1>23. ASSUME NEW p \in Pid, WorkerDone(p) PROVE HandOverInv'
  BY <1>23 DEF WorkerDone, Worker, WriteState, Goto
<1>24. ASSUME NEW p \in Pid, WorkerPark(p) PROVE HandOverInv'
  BY <1>24 DEF WorkerPark, Worker, Goto
<1>25. ASSUME NEW p \in Pid, WorkerParkWrite(p) PROVE HandOverInv'
  BY <1>25 DEF WorkerParkWrite, Worker, WriteState, Goto
<1>26. ASSUME NEW p \in Pid, WorkerAnchor(p) PROVE HandOverInv'
  BY <1>26 DEF WorkerAnchor, Worker, Anchor, Goto
<1>27. ASSUME NEW p \in Pid, WorkerRetry(p) PROVE HandOverInv'
  BY <1>27 DEF WorkerRetry, Worker, Goto
<1>28. ASSUME NEW p \in Pid, WorkerExit(p) PROVE HandOverInv'
  BY <1>28 DEF WorkerExit, Worker, Goto
<1>29. ASSUME NEW p \in Pid, ReparkBoot(p) PROVE HandOverInv'
  BY <1>29 DEF ReparkBoot, Repark, Goto
<1>30. ASSUME NEW p \in Pid, ReparkWrite(p) PROVE HandOverInv'
  BY <1>30 DEF ReparkWrite, Repark, WriteState, Goto
<1>31. ASSUME NEW p \in Pid, ReparkAnchor(p) PROVE HandOverInv'
  BY <1>31 DEF ReparkAnchor, Repark, Anchor, Goto
<1>32. ASSUME NEW p \in Pid, ReparkExit(p) PROVE HandOverInv'
  <2>1. Alive(p) /\ role[p] = "repark" /\ job[p] \in Task
    BY <1>32 DEF ReparkExit, Repark
  <2>2. \A o \in Pid : role[o] = "repark" /\ Alive(o) /\ job[o] = job[p] => o = p
    BY <2>1
  <2>3. /\ claim' = [claim EXCEPT ![job[p]] = 0]
        /\ pc' = [pc EXCEPT ![p] = "exited"]
        /\ UNCHANGED <<liveFile, role, job, mode, at, cur, live, reparking>>
    BY <1>32 DEF ReparkExit, Goto
  <2>4. Tracked' /\ TablesEmptyAtRest' /\ HandOver' /\ LiveFileIsTable'
    BY <2>1, <2>3
  <2>5. ClaimFollows'
    BY <2>1, <2>2, <2>3
  <2> QED
    BY <2>4, <2>5
<1>33. ASSUME NEW p \in Pid, ChildCrash(p) PROVE HandOverInv'
  BY <1>33 DEF ChildCrash, Goto
<1>34. ASSUME NEW s \in Scanner, ScanQueue(s) PROVE HandOverInv'
  BY <1>34 DEF ScanQueue
<1>35. ASSUME NEW s \in Scanner, ScanLive(s) PROVE HandOverInv'
  BY <1>35 DEF ScanLive
<1>36. ASSUME NEW s \in Scanner, NEW t \in Task, ScanVisit(s, t) PROVE HandOverInv'
  BY <1>36 DEF ScanVisit, ClaimHeld
<1>37. ASSUME NEW s \in Scanner, ScanPark(s) PROVE HandOverInv'
  BY <1>37 DEF ScanPark, WriteState
<1>38. ASSUME NEW s \in Scanner, ScanAnchor(s) PROVE HandOverInv'
  BY <1>38 DEF ScanAnchor, Anchor
<1>39. ASSUME NEW s \in Scanner, ScanEnd(s) PROVE HandOverInv'
  BY <1>39 DEF ScanEnd
<1>40. ASSUME NEW s \in Scanner, NEW t \in Task, UnparkRead(s, t) PROVE HandOverInv'
  BY <1>40 DEF UnparkRead
<1>41. ASSUME NEW s \in Scanner, UnparkRetry(s) PROVE HandOverInv'
  BY <1>41 DEF UnparkRetry
<1>42. ASSUME NEW s \in Scanner, UnparkRetryEvent(s) PROVE HandOverInv'
  BY <1>42 DEF UnparkRetryEvent
<1>43. ASSUME NEW s \in Scanner, UnparkAbandon(s) PROVE HandOverInv'
  BY <1>43 DEF UnparkAbandon, WriteState
<1>44. ASSUME ScannerCrash PROVE HandOverInv'
  BY <1>44 DEF ScannerCrash
<1>45. CASE UNCHANGED vars
  BY <1>45 DEF vars
<1>e. queue \subseteq Entry
  BY DEF DispatchInv, TypeInv, TypeOK
<1> QED
  BY <1>e, <1>1, <1>2, <1>3, <1>4, <1>5, <1>6, <1>7, <1>8, <1>9, <1>10, <1>11, <1>12, <1>13,
     <1>14, <1>15, <1>16, <1>17, <1>18, <1>19, <1>20, <1>21, <1>22, <1>23, <1>24, <1>25, <1>26,
        <1>27, <1>28, <1>29, <1>30, <1>31, <1>32, <1>33, <1>34, <1>35, <1>36, <1>37, <1>38,
           <1>39, <1>40, <1>41, <1>42, <1>43, <1>44, <1>45
     DEF Next, Take, Started, Reap, Shutdown, RunStep, OrphanStep, UnparkStep

LEMMA HandOverAlways ==
  ASSUME Survivors = FALSE, ClaimMayFail = FALSE
  PROVE  Spec => []DispatchInv
<1>1. Init => DispatchInv
  BY InitTypeInv, InitHandOver DEF DispatchInv
<1>2. DispatchInv /\ [Next]_vars => DispatchInv'
  BY NextTypeInv, NextHandOver DEF DispatchInv
<1> QED
  BY <1>1, <1>2, PTL DEF Spec

(***************************************************************************)
(* A daemon that stopped by itself left nobody behind, however its drain,  *)
(* its signals and the repark children of workers that crashed meanwhile   *)
(* interleave: the next daemon shares no card with a child of this one.    *)
(***************************************************************************)
THEOREM StopLeavesNoChild ==
  Survivors = FALSE /\ ClaimMayFail = FALSE => (Spec => []ExitLeavesNoChild)
<1> SUFFICES ASSUME Survivors = FALSE, ClaimMayFail = FALSE
             PROVE  Spec => []ExitLeavesNoChild
  OBVIOUS
<1>1. DispatchInv => ExitLeavesNoChild
  <2> SUFFICES ASSUME DispatchInv, mode = "down", NEW p \in Pid, Alive(p) PROVE FALSE
    BY DEF ExitLeavesNoChild
  <2>1. job[p] \in Task /\ p \in {live[job[p]], reparking[job[p]]}
    BY TypedFromTypeInv DEF DispatchInv, HandOverInv, Tracked, Typed
  <2>2. live[job[p]] = 0 /\ reparking[job[p]] = 0
    BY <2>1 DEF DispatchInv, HandOverInv, TablesEmptyAtRest, Running
  <2> QED
    BY <2>1, <2>2, CardDispatchAssumption DEF Pid
<1>2. Spec => []DispatchInv
  BY HandOverAlways
<1> QED
  BY <1>1, <1>2, PTL

(***************************************************************************)
(* A working repark child is always announced to the scans: its card is in *)
(* live-workers.json until its claim is on disk, however many workers      *)
(* crash at once and whatever the dispatcher publishes in between.         *)
(***************************************************************************)
THEOREM ReparkAlwaysAnnounced ==
  Survivors = FALSE /\ ClaimMayFail = FALSE => (Spec => []ReparkIsAnnounced)
<1> SUFFICES ASSUME Survivors = FALSE, ClaimMayFail = FALSE
             PROVE  Spec => []ReparkIsAnnounced
  OBVIOUS
<1>1. DispatchInv => ReparkIsAnnounced
  <2> SUFFICES ASSUME DispatchInv, NEW p \in Pid, role[p] = "repark",
                      pc[p] \in {"boot", "parking"}
               PROVE  job[p] \in liveFile \/ claim[job[p]] = p
    BY DEF ReparkIsAnnounced
  <2>1. Alive(p) /\ Typed /\ HandOverInv
    BY TypedFromTypeInv DEF DispatchInv, Alive
  <2>2. CASE claim[job[p]] = p
    BY <2>2
  <2>3. CASE claim[job[p]] # p
    <3>1. at = "reparked" /\ cur = job[p] /\ job[p] \in Task
      BY <2>1, <2>3 DEF HandOverInv, ClaimFollows, Typed
    <3>2. live[job[p]] # 0
      BY <2>1, <3>1, CardDispatchAssumption DEF HandOverInv, HandOver, Pid
    <3>3. liveFile = LiveIds
      BY <2>1, <3>1 DEF HandOverInv, TablesEmptyAtRest, LiveFileIsTable
    <3> QED
      BY <3>1, <3>2, <3>3 DEF LiveIds
  <2> QED
    BY <2>2, <2>3
<1>2. Spec => []DispatchInv
  BY HandOverAlways
<1> QED
  BY <1>1, <1>2, PTL

-----------------------------------------------------------------------------
(* The steps of the children and of the scans, by what they may change:    *)
(* an invariant of the tables looks at these effects, not at each action.  *)

Writing(p) == pc[p] \in {"boot", "run", "parking"}

\* One step of child p: it is alive, moves only its own counter, never back to
\* "boot", writes only its own card's state.json, and queues only its own card.
ProcEffect(p) ==
  /\ Alive(p)
  /\ UNCHANGED <<task, liveFile, role, job, mode, at, cur, live, reparking, scan>>
  /\ pc' = [pc EXCEPT ![p] = pc'[p]]
  /\ pc'[p] \in ProcPC \ {"unborn", "boot"}
  /\ pc'[p] \in {"run", "parking"} => Writing(p)
  /\ \A e \in queue' : e \in queue \/ (role[p] = "worker" /\ e.card = job[p])

ProcStep(p) == RunStep(p) \/ WorkerHop(p) \/ ChildCrash(p)

LEMMA ProcStepEffect ==
  ASSUME TypeInv, NEW p \in Pid, ProcStep(p)
  PROVE  ProcEffect(p)
<1> USE DEF ProcEffect, Writing, Alive, Goto, Worker, Repark, WriteState, procs, disk, memory,
            TypeInv, TypeOK, ProcPC
<1>1. CASE WorkerBoot(p)
  BY <1>1 DEF WorkerBoot
<1>2. CASE WorkerHop(p)
  BY <1>2 DEF WorkerHop
<1>3. CASE WorkerDone(p)
  BY <1>3 DEF WorkerDone
<1>4. CASE WorkerPark(p)
  BY <1>4 DEF WorkerPark
<1>5. CASE WorkerParkWrite(p)
  BY <1>5 DEF WorkerParkWrite
<1>6. CASE WorkerAnchor(p)
  BY <1>6 DEF WorkerAnchor
<1>7. CASE WorkerRetry(p)
  BY <1>7 DEF WorkerRetry
<1>8. CASE WorkerExit(p)
  BY <1>8 DEF WorkerExit
<1>9. CASE ReparkBoot(p)
  BY <1>9 DEF ReparkBoot
<1>10. CASE ReparkWrite(p)
  BY <1>10 DEF ReparkWrite
<1>11. CASE ReparkAnchor(p)
  BY <1>11 DEF ReparkAnchor
<1>12. CASE ReparkExit(p)
  BY <1>12 DEF ReparkExit
<1>13. CASE ChildCrash(p)
  BY <1>13 DEF ChildCrash
<1> QED
  BY <1>1, <1>2, <1>3, <1>4, <1>5, <1>6, <1>7, <1>8, <1>9, <1>10, <1>11, <1>12, <1>13
     DEF ProcStep, RunStep

\* One step of scan s leaves every process and table alone and moves only its
\* own memory.
ScanEffect(s) ==
  /\ UNCHANGED <<task, liveFile, pc, role, job, mode, at, cur, live, reparking>>
  /\ scan' = [scan EXCEPT ![s] = scan'[s]]
  /\ scan[s].pc # "off"

ScanStep(s) == OrphanStep(s) \/ UnparkStep(s)

LEMMA ScanStepEffect ==
  ASSUME TypeInv, NEW s \in Scanner, ScanStep(s)
  PROVE  ScanEffect(s)
<1> USE DEF ScanEffect, ScanTo, WriteState, Anchor, procs, disk, memory, breakers, TypeInv, TypeOK
<1>1. CASE ScanQueue(s)
  BY <1>1 DEF ScanQueue
<1>2. CASE ScanLive(s)
  BY <1>2 DEF ScanLive
<1>3. ASSUME NEW t \in Task, ScanVisit(s, t) PROVE ScanEffect(s)
  BY <1>3 DEF ScanVisit
<1>4. CASE ScanPark(s)
  BY <1>4 DEF ScanPark
<1>5. CASE ScanAnchor(s)
  BY <1>5 DEF ScanAnchor
<1>6. CASE ScanEnd(s)
  BY <1>6 DEF ScanEnd
<1>7. ASSUME NEW t \in Task, UnparkRead(s, t) PROVE ScanEffect(s)
  BY <1>7 DEF UnparkRead
<1>8. CASE UnparkRetry(s)
  BY <1>8 DEF UnparkRetry
<1>9. CASE UnparkRetryEvent(s)
  BY <1>9 DEF UnparkRetryEvent
<1>10. CASE UnparkAbandon(s)
  BY <1>10 DEF UnparkAbandon
<1> QED
  BY <1>1, <1>2, <1>3, <1>4, <1>5, <1>6, <1>7, <1>8, <1>9, <1>10
     DEF ScanStep, OrphanStep, UnparkStep

-----------------------------------------------------------------------------
(* The slots: what the table says of the workers, where no child outlives  *)
(* the daemon.  Writing a claim may fail here.                             *)

\* A living worker is the one its card's table entry names.
WorkerListed == \A p \in Pid : role[p] = "worker" /\ Alive(p) => live[job[p]] = p

\* The table never holds more cards than there are slots, and a card is
\* claimed only while one is free.
SlotsKept ==
  /\ Cardinality(LiveIds) <= Workers
  /\ at = "claimed" => Cardinality(LiveIds) < Workers

\* The entry the dispatcher is about to overwrite or drop is no living worker's.
EntryIsFree ==
  /\ at = "claimed" => live[cur] = 0
  /\ at \in {"reparked", "unlisting"} => live[cur] \in Pid /\ pc[live[cur]] = "crashed"

SlotInv == WorkerListed /\ SlotsKept /\ EntryIsFree

LEMMA LiveIdsFinite == IsFiniteSet(LiveIds) /\ Cardinality(LiveIds) \in Nat
BY CardDispatchAssumption, FS_Subset, FS_CardinalityType DEF LiveIds

\* An entry removed leaves no more cards in the table.
LEMMA FewerLive ==
  ASSUME LiveIds' \subseteq LiveIds
  PROVE  Cardinality(LiveIds') <= Cardinality(LiveIds) /\ Cardinality(LiveIds') \in Nat
BY LiveIdsFinite, FS_Subset, FS_CardinalityType

\* Removing entries of the dead, or letting children move on or die, keeps
\* the slots.
LEMMA SlotsShrink ==
  ASSUME TypeInv, SlotInv,
         UNCHANGED <<role, job>>, LiveIds' \subseteq LiveIds, at' # "claimed",
         \A p \in Pid : role[p] = "worker" /\ Alive(p)' => live'[job[p]] = p,
         at' \in {"reparked", "unlisting"} => live'[cur'] \in Pid /\ pc'[live'[cur']] = "crashed"
  PROVE  SlotInv'
<1>1. SlotsKept'
  BY FewerLive, LiveIdsFinite, CardDispatchAssumption DEF SlotInv, SlotsKept
<1> QED
  BY <1>1 DEF SlotInv, WorkerListed, EntryIsFree

\* Nothing but the counters of living children moves.
LEMMA SlotsStay ==
  ASSUME TypeInv, SlotInv,
         UNCHANGED <<role, job, live, at, cur>>,
         \A p \in Pid : Alive(p)' => Alive(p),
         \A p \in Pid : pc[p] = "crashed" => pc'[p] = "crashed"
  PROVE  SlotInv'
BY DEF SlotInv, WorkerListed, SlotsKept, EntryIsFree, LiveIds

LEMMA InitSlotInv == Init => SlotInv
<1> SUFFICES ASSUME Init PROVE SlotInv
  OBVIOUS
<1>1. LiveIds = {}
  BY DEF Init, LiveIds
<1>2. Cardinality(LiveIds) = 0
  BY <1>1, FS_EmptySet
<1> QED
  BY <1>2, CardDispatchAssumption
     DEF Init, SlotInv, WorkerListed, SlotsKept, EntryIsFree, Alive, Pid

LEMMA NextSlotInv ==
  ASSUME Survivors = FALSE, TypeInv, SlotInv, [Next]_vars
  PROVE  SlotInv'
<1>t. Typed
  BY TypedFromTypeInv
<1> USE <1>t DEF Typed, procs, disk, memory, breakers, bounds
<1>1. ASSUME NEW t \in Task, IntakeFile(t) \/ Age(t) PROVE SlotInv'
  BY <1>1, SlotsStay DEF IntakeFile, Age, Alive
<1>2. CASE DaemonStart \/ DispatcherRun
  BY <1>2, SlotsStay DEF DaemonStart, DispatcherRun, Alive
<1>3. ASSUME NEW e \in queue, RefuseDuplicate(e) PROVE SlotInv'
  BY <1>3, SlotsStay DEF RefuseDuplicate, Alive
<1>4. ASSUME NEW e \in queue, ClaimEntry(e) PROVE SlotInv'
  <2>1. /\ UNCHANGED <<pc, role, job, live>> /\ at' = "claimed" /\ cur' = e.card
        /\ Cardinality(LiveIds) < Workers
    BY <1>4 DEF ClaimEntry, SlotFree
  <2>2. live[e.card] = 0
    BY <1>4 DEF ClaimEntry, Takeable, LiveIds, Entry, TypeInv, TypeOK
  <2>3. LiveIds' = LiveIds
    BY <2>1 DEF LiveIds
  <2> QED
    BY <2>1, <2>2, <2>3 DEF SlotInv, WorkerListed, SlotsKept, EntryIsFree, Alive
<1>5. ASSUME NEW p \in Pid, SpawnWorker(p) PROVE SlotInv'
  <2>1. /\ at = "claimed" /\ at' = "spawned" /\ cur \in Task
        /\ live' = [live EXCEPT ![cur] = p] /\ pc' = [pc EXCEPT ![p] = "boot"]
        /\ role' = [role EXCEPT ![p] = "worker"] /\ job' = [job EXCEPT ![p] = cur]
        /\ live[cur] = 0 /\ Cardinality(LiveIds) < Workers
    BY <1>5 DEF SpawnWorker, Spawn, SlotInv, SlotsKept, EntryIsFree
  <2>2. LiveIds' = LiveIds \cup {cur} /\ cur \notin LiveIds
    BY <2>1, CardDispatchAssumption DEF LiveIds, Pid
  <2>3. Cardinality(LiveIds') = Cardinality(LiveIds) + 1
    BY <2>2, LiveIdsFinite, FS_AddElement
  <2>4. SlotsKept'
    BY <2>1, <2>3, LiveIdsFinite, CardDispatchAssumption DEF SlotsKept
  <2>5. WorkerListed'
    <3> SUFFICES ASSUME NEW q \in Pid, role'[q] = "worker", Alive(q)' PROVE live'[job'[q]] = q
      BY DEF WorkerListed
    <3>1. CASE q = p
      BY <2>1, <3>1
    <3>2. CASE q # p
      <4>1. live[job[q]] = q /\ job[q] \in Task
        BY <2>1, <3>2 DEF SlotInv, WorkerListed, Alive
      <4>2. job[q] # cur
        BY <2>1, <4>1, CardDispatchAssumption DEF Pid
      <4> QED
        BY <2>1, <3>2, <4>1, <4>2
    <3> QED
      BY <3>1, <3>2
  <2> QED
    BY <2>1, <2>4, <2>5 DEF SlotInv, EntryIsFree
<1>6. CASE Publish
  <2>1. LiveIds' = LiveIds
    BY <1>6 DEF Publish, LiveIds
  <2> QED
    BY <1>6, <2>1, SlotsShrink DEF Publish, SlotInv, WorkerListed, Alive
<1>7. CASE WriteClaim \/ WriteClaimFails
  <2>1. LiveIds' = LiveIds
    BY <1>7 DEF WriteClaim, WriteClaimFails, LiveIds
  <2> QED
    BY <1>7, <2>1, SlotsShrink
       DEF WriteClaim, WriteClaimFails, SlotInv, WorkerListed, EntryIsFree, Alive
<1>8. CASE Unlist
  <2>1. LiveIds' \subseteq LiveIds
    BY <1>8 DEF Unlist, LiveIds
  <2>2. \A p \in Pid : role[p] = "worker" /\ Alive(p) => live'[job[p]] = p
    BY <1>8 DEF Unlist, SlotInv, WorkerListed, EntryIsFree, Alive
  <2> QED
    BY <1>8, <2>1, <2>2, SlotsShrink DEF Unlist, Alive
<1>9. ASSUME NEW t \in Task, ReapWorker(t) PROVE SlotInv'
  <2>1. LiveIds' \subseteq LiveIds
    BY <1>9 DEF ReapWorker, LiveIds
  <2>2. \A p \in Pid : role[p] = "worker" /\ Alive(p) => live'[job[p]] = p
    BY <1>9 DEF ReapWorker, SlotInv, WorkerListed, Alive
  <2> QED
    BY <1>9, <2>1, <2>2, SlotsShrink DEF ReapWorker, Supervising, Alive
<1>10. ASSUME NEW t \in Task, NEW p \in Pid, SpawnRepark(t, p) PROVE SlotInv'
  <2>1. /\ at' = "reparked" /\ cur' = t /\ live' = live
        /\ pc' = [pc EXCEPT ![p] = "boot"] /\ pc[p] = "unborn"
        /\ role' = [role EXCEPT ![p] = "repark"] /\ job' = [job EXCEPT ![p] = t]
        /\ live[t] # 0 /\ pc[live[t]] = "crashed"
    BY <1>10 DEF SpawnRepark, Spawn, NextPid
  <2>2. LiveIds' = LiveIds /\ live[t] \in Pid
    BY <2>1, CardDispatchAssumption DEF LiveIds, Pid
  <2>3. WorkerListed'
    BY <2>1 DEF SlotInv, WorkerListed, Alive
  <2> QED
    BY <2>1, <2>2, <2>3 DEF SlotInv, SlotsKept, EntryIsFree
<1>11. ASSUME NEW t \in Task, SpawnReparkFails(t) PROVE SlotInv'
  <2>1. LiveIds' = LiveIds /\ live[t] \in Pid
    BY <1>11, CardDispatchAssumption DEF SpawnReparkFails, LiveIds, Pid
  <2> QED
    BY <1>11, <2>1 DEF SpawnReparkFails, SlotInv, WorkerListed, SlotsKept, EntryIsFree, Alive
<1>12. ASSUME NEW t \in Task, ReapRepark(t) PROVE SlotInv'
  BY <1>12, SlotsStay DEF ReapRepark, Alive
<1>13. CASE Shutdown
  BY <1>13, SlotsStay
     DEF Shutdown, RequestDrain, DrainTimeout, Escalate, DispatcherExit, Alive
<1>14. CASE DaemonCrash
  <2>1. LiveIds' = {} /\ \A p \in Pid : ~Alive(p)'
    BY <1>14 DEF DaemonCrash, LiveIds, Alive
  <2> QED
    BY <1>14, <2>1, SlotsShrink DEF DaemonCrash
<1>15. ASSUME NEW p \in Pid, ProcStep(p) PROVE SlotInv'
  <2>1. ProcEffect(p)
    BY <1>15, ProcStepEffect
  <2>2. \A q \in Pid : q # p => pc'[q] = pc[q]
    BY <2>1 DEF ProcEffect
  <2> QED
    BY <2>1, <2>2, SlotsStay DEF ProcEffect, Alive
<1>16. ASSUME NEW s \in Scanner, ScanStep(s) PROVE SlotInv'
  <2>1. ScanEffect(s)
    BY <1>16, ScanStepEffect
  <2> QED
    BY <2>1, SlotsStay DEF ScanEffect, Alive
<1>17. CASE ScannerCrash
  BY <1>17, SlotsStay DEF ScannerCrash, Alive
<1>18. CASE UNCHANGED vars
  BY <1>18, SlotsStay DEF vars, Alive
<1> QED
  BY <1>1, <1>2, <1>3, <1>4, <1>5, <1>6, <1>7, <1>8, <1>9, <1>10, <1>11, <1>12, <1>13, <1>14,
     <1>15, <1>16, <1>17, <1>18
     DEF Next, Take, Started, Reap, ProcStep, ScanStep

LEMMA SlotsAlways ==
  ASSUME Survivors = FALSE
  PROVE  Spec => [](TypeInv /\ SlotInv)
<1>1. Init => TypeInv /\ SlotInv
  BY InitTypeInv, InitSlotInv
<1>2. TypeInv /\ SlotInv /\ [Next]_vars => (TypeInv /\ SlotInv)'
  BY NextTypeInv, NextSlotInv
<1> QED
  BY <1>1, <1>2, PTL DEF Spec

(***************************************************************************)
(* The workers that exist, crashed ones that nobody has reaped aside, are  *)
(* never more than config.workers, though fillSlots counts the entries of  *)
(* a table that handleExit, a drain and a crash all take entries from.     *)
(***************************************************************************)
THEOREM SlotsAreBounded == Survivors = FALSE => (Spec => []SlotsBoundWorkers)
<1> SUFFICES ASSUME Survivors = FALSE PROVE Spec => []SlotsBoundWorkers
  OBVIOUS
<1>1. TypeInv /\ SlotInv => SlotsBoundWorkers
  <2> SUFFICES ASSUME TypeInv, SlotInv PROVE SlotsBoundWorkers
    OBVIOUS
  <2> DEFINE W == {p \in Pid : role[p] = "worker" /\ Alive(p)}
             card == [p \in W |-> job[p]]
  <2>1. card \in Injection(W, LiveIds)
    <3>1. \A p \in W : job[p] \in LiveIds /\ live[job[p]] = p
      BY TypedFromTypeInv, CardDispatchAssumption DEF Typed, SlotInv, WorkerListed, Pid, LiveIds
    <3>2. \A p, q \in W : card[p] = card[q] => p = q
      BY <3>1
    <3> QED
      BY <3>1, <3>2 DEF Injection, IsInjective
  <2>2. IsFiniteSet(W) /\ Cardinality(W) <= Cardinality(LiveIds)
    BY <2>1, LiveIdsFinite, FS_Injection
  <2>5. Cardinality(W) <= Workers
    BY <2>2, FS_CardinalityType, LiveIdsFinite, CardDispatchAssumption DEF SlotInv, SlotsKept
  <2> QED
    BY <2>5 DEF SlotsBoundWorkers
<1>2. Spec => [](TypeInv /\ SlotInv)
  BY SlotsAlways
<1> QED
  BY <1>1, <1>2, PTL

\* What the cardinality bounds of OneWriter and OneWorker come to.
LEMMA AtMostOne ==
  ASSUME NEW S, \A x, y \in S : x = y
  PROVE  IsFiniteSet(S) /\ Cardinality(S) \in {0, 1}
<1>1. CASE S = {}
  BY <1>1, FS_EmptySet
<1>2. CASE S # {}
  <2>1. PICK x : x \in S
    BY <1>2
  <2>2. S = {x}
    BY <2>1
  <2> QED
    BY <2>2, FS_Singleton
<1> QED
  BY <1>1, <1>2

(***************************************************************************)
(* No two workers run one card at the same time, whatever is filed twice,  *)
(* retried, crashed or drained meanwhile, if killing a daemon kills its    *)
(* children (the unit's cgroup).                                           *)
(***************************************************************************)
THEOREM WorkersAreAlone == Survivors = FALSE => (Spec => []OneWorker)
<1> SUFFICES ASSUME Survivors = FALSE PROVE Spec => []OneWorker
  OBVIOUS
<1>1. TypeInv /\ SlotInv => OneWorker
  <2> SUFFICES ASSUME TypeInv, SlotInv, NEW t \in Task
               PROVE  Cardinality({p \in WriterProcs(t) : role[p] = "worker"}) <= 1
    BY DEF OneWorker
  <2>1. \A p, q \in {r \in WriterProcs(t) : role[r] = "worker"} : p = q
    BY DEF WriterProcs, SlotInv, WorkerListed, Alive
  <2> QED
    BY <2>1, AtMostOne
<1>2. Spec => [](TypeInv /\ SlotInv)
  BY SlotsAlways
<1> QED
  BY <1>1, <1>2, PTL

-----------------------------------------------------------------------------
(* The single writer: what a scan's two snapshots, read one after the      *)
(* other, still say of a card when the scan reaches it, and when it parks  *)
(* it minutes later.  No child outlives the daemon, every claim is written *)
(* and nothing slips between the two reads.                                *)

\* One process scans at a time, and only under a daemon that is up.
OneScan ==
  /\ scan["survivor"].pc = "off"
  /\ scan["startup"].pc # "off" => mode = "startup"
  /\ scan["child"].pc # "off" => mode = "up"

InFlight(t) == at \in {"claimed", "spawned"} /\ cur = t

\* No worker of card t is listed and nothing can start one.
Quiet(t) == Claimed(t) /\ live[t] = 0 /\ ~Queued(t) /\ ~InFlight(t)

\* What the scanner child has read stays true: a card that neither snapshot
\* holds has no worker and gets none before the scan is through with it.
Snapshots ==
  LET r == scan["child"] IN
  /\ r.pc = "live" => \A t \in Task \ r.queued : ~Queued(t) /\ (~r.window => ~InFlight(t))
  /\ \A t \in r.todo \ (r.queued \cup r.live) : Quiet(t)
  /\ r.pc = "park" => Quiet(r.card)
  /\ r.pc \in {"off", "idle", "live", "verb", "verbEvent"} => r.todo = {}

\* The card a scan is about to park: not settled, its owner gone, nobody at it.
Forsaken(t) ==
  /\ state[t].status \notin Terminal
  /\ ~Alive(state[t].owner)
  /\ \A p \in Pid : job[p] = t => ~Writing(p)

ParksForsaken == \A s \in Scanner : scan[s].pc = "park" => Forsaken(scan[s].card)

\* The owner state.json names was once a process.
OwnersExist ==
  \A t \in Task :
    /\ state[t].status = "none" => state[t].owner = 0
    /\ state[t].owner # 0 => pc[state[t].owner] # "unborn"

ReparksNeverRun == \A p \in Pid : role[p] = "repark" => pc[p] # "run"

WriterInv ==
  /\ OneScan /\ Snapshots /\ ParksForsaken /\ OwnersExist /\ ReparksNeverRun

AllInv == DispatchInv /\ SlotInv /\ WriterInv

\* One card, one living child.
LEMMA OneChild ==
  ASSUME AllInv, NEW p \in Pid, NEW q \in Pid, Alive(p), Alive(q), job[p] = job[q]
  PROVE  p = q
<1>1. Typed /\ HandOverInv /\ SlotInv
  BY TypedFromTypeInv DEF AllInv, DispatchInv
<1>2. \A r \in Pid : Alive(r) => /\ job[r] \in Task
                                 /\ role[r] = "repark" => reparking[job[r]] = r
                                 /\ role[r] # "repark" => live[job[r]] = r
  BY <1>1 DEF Typed, Role, HandOverInv, Tracked, ClaimFollows, SlotInv, WorkerListed
<1>3. \A r \in Pid : Alive(r) /\ live[job[r]] # 0 =>
         \/ reparking[job[r]] = 0
         \/ pc[live[job[r]]] = "crashed"
  BY <1>1, <1>2 DEF HandOverInv, HandOver
<1>4. CASE role[p] = "repark" <=> role[q] = "repark"
  BY <1>2, <1>4
<1>5. ASSUME NEW r \in Pid, NEW o \in Pid, Alive(r), Alive(o), job[r] = job[o],
             role[r] = "repark", role[o] # "repark"
      PROVE  FALSE
  <2>1. reparking[job[r]] = r /\ live[job[r]] = o /\ r # 0 /\ o # 0
    BY <1>2, <1>5, CardDispatchAssumption DEF Pid
  <2> QED
    BY <1>3, <1>5, <2>1 DEF Alive
<1> QED
  BY <1>4, <1>5

\* Where a daemon only starts, nothing lives.
LEMMA StartupIsAlone ==
  ASSUME AllInv, mode = "startup"
  PROVE  /\ at = "loop"
         /\ \A p \in Pid : ~Alive(p)
         /\ \A t \in Task : live[t] = 0
<1>1. Typed /\ HandOverInv
  BY TypedFromTypeInv DEF AllInv, DispatchInv
<1>2. at = "loop" /\ \A t \in Task : live[t] = 0 /\ reparking[t] = 0
  BY <1>1 DEF HandOverInv, TablesEmptyAtRest, Running
<1>3. \A p \in Pid : ~Alive(p)
  <2> SUFFICES ASSUME NEW p \in Pid, Alive(p) PROVE FALSE
    OBVIOUS
  <2>1. job[p] \in Task /\ p \in {live[job[p]], reparking[job[p]]}
    BY <1>1 DEF HandOverInv, Tracked, Typed
  <2> QED
    BY <1>2, <2>1, CardDispatchAssumption DEF Pid
<1> QED
  BY <1>2, <1>3

\* Scans exclude one another.
LEMMA ScansAlone ==
  ASSUME OneScan, NEW s \in Scanner, NEW u \in Scanner, scan[s].pc # "off", scan[u].pc # "off"
  PROVE  s = u /\ s # "survivor"
BY DEF OneScan, Scanner

LEMMA InitWriter == Init => WriterInv
BY DEF Init, WriterInv, OneScan, Snapshots, ParksForsaken, OwnersExist, ReparksNeverRun, ScanOff,
       Scanner, Pid

-----------------------------------------------------------------------------
(* A step of a child.  It writes state.json only while it is a writer.     *)

WriteEffect(p) ==
  \/ state' = state
  \/ /\ Writing(p)
     /\ \E v \in StateJson : /\ state' = [state EXCEPT ![job[p]] = v]
                             /\ v.owner \in {0, p} /\ v.status # "none"

LEMMA ProcWrites ==
  ASSUME TypeInv, NEW p \in Pid, ProcStep(p)
  PROVE  WriteEffect(p) /\ (role[p] = "repark" /\ pc[p] # "run" => pc'[p] # "run")
<1>0. \A v \in Status, r \in Reason, o \in {0, p} :
        [status |-> v, owner |-> o, reason |-> r] \in StateJson
  BY CardDispatchAssumption DEF StateJson, Pid
<1> USE <1>0 DEF WriteEffect, Writing, Goto, Worker, Repark, WriteState, procs, disk, memory,
            Status, Reason, TypeInv, TypeOK
<1>1. CASE WorkerBoot(p)
  BY <1>1 DEF WorkerBoot
<1>2. CASE WorkerHop(p)
  BY <1>2 DEF WorkerHop
<1>3. CASE WorkerDone(p)
  BY <1>3 DEF WorkerDone
<1>4. CASE WorkerPark(p)
  BY <1>4 DEF WorkerPark
<1>5. CASE WorkerParkWrite(p)
  BY <1>5 DEF WorkerParkWrite
<1>6. CASE WorkerAnchor(p)
  BY <1>6 DEF WorkerAnchor
<1>7. CASE WorkerRetry(p)
  BY <1>7 DEF WorkerRetry
<1>8. CASE WorkerExit(p)
  BY <1>8 DEF WorkerExit
<1>9. CASE ReparkBoot(p)
  BY <1>9 DEF ReparkBoot
<1>10. CASE ReparkWrite(p)
  BY <1>10 DEF ReparkWrite
<1>11. CASE ReparkAnchor(p)
  BY <1>11 DEF ReparkAnchor
<1>12. CASE ReparkExit(p)
  BY <1>12 DEF ReparkExit
<1>13. CASE ChildCrash(p)
  BY <1>13 DEF ChildCrash
<1> QED
  BY <1>1, <1>2, <1>3, <1>4, <1>5, <1>6, <1>7, <1>8, <1>9, <1>10, <1>11, <1>12, <1>13
     DEF ProcStep, RunStep

\* While a scan looks on, only a listed worker's step adds an entry, and only
\* for a card the scan leaves alone.
LEMMA ProcKeepsWriter ==
  ASSUME AllInv, NEW p \in Pid, ProcStep(p), SplitReads = FALSE,
         BetweenReads => queue' \subseteq queue
  PROVE  WriterInv'
<1>t. TypeInv /\ Typed /\ SlotInv /\ WriterInv
  BY TypedFromTypeInv DEF AllInv, DispatchInv
<1>1. ProcEffect(p) /\ WriteEffect(p)
  BY <1>t, ProcStepEffect, ProcWrites
<1>2. job[p] \in Task
  <2>1. role[p] # "none"
    BY <1>1 DEF ProcEffect, AllInv, DispatchInv, HandOverInv, Tracked
  <2> QED
    BY <1>t, <2>1 DEF Typed
<1>3. \A t \in Task : Quiet(t) => Quiet(t)'
  <2>1. \A t \in Task : Queued(t)' => Queued(t) \/ (role[p] = "worker" /\ job[p] = t)
    BY <1>1 DEF ProcEffect, Queued
  <2>2. role[p] = "worker" => live[job[p]] = p
    BY <1>t, <1>1 DEF ProcEffect, SlotInv, WorkerListed
  <2> QED
    BY <1>1, <2>1, <2>2, CardDispatchAssumption
       DEF ProcEffect, Quiet, Claimed, InFlight, Pid
<1>4. OneScan'
  BY <1>1, <1>t DEF ProcEffect, WriterInv, OneScan
<1>5. Snapshots'
  <2>1. scan["child"].pc = "live" => \A t \in Task : Queued(t)' => Queued(t)
    <3>1. SUFFICES ASSUME scan["child"].pc = "live" PROVE queue' \subseteq queue
      BY DEF Queued
    <3> QED
      BY <3>1 DEF BetweenReads, Scanner
  <2>2. scan["child"].todo \subseteq Task
    BY <1>t DEF TypeInv, TypeOK, Scan, Scanner
  <2>3. scan["child"].pc = "park" => scan["child"].card \in Task
    BY <1>t DEF TypeInv, Assigned, Scanner
  <2>4. scan' = scan /\ (\A t \in Task : InFlight(t)' <=> InFlight(t))
    BY <1>1 DEF ProcEffect, InFlight
  <2> QED
    BY <1>t, <1>3, <2>1, <2>2, <2>3, <2>4 DEF WriterInv, Snapshots
<1>6. ParksForsaken'
  <2> SUFFICES ASSUME NEW s \in Scanner, scan[s].pc = "park" PROVE Forsaken(scan[s].card)'
    BY <1>1 DEF ProcEffect, ParksForsaken
  <2> DEFINE t == scan[s].card
  <2>1. Forsaken(t) /\ t \in Task
    BY <1>t DEF WriterInv, ParksForsaken, TypeInv, Assigned
  <2>2. job[p] = t => ~Writing(p)
    BY <2>1 DEF Forsaken
  <2>3. state'[t] = state[t]
    BY <1>1, <1>2, <2>1, <2>2, <1>t DEF WriteEffect, TypeInv, TypeOK
  <2>4. \A q \in Pid : q # p => pc'[q] = pc[q]
    BY <1>1, <1>t DEF ProcEffect, Typed
  <2>5. \A q \in Pid : Alive(q)' => Alive(q)
    BY <1>1, <2>4 DEF ProcEffect, Alive
  <2>6. \A q \in Pid : job[q] = t => ~Writing(q)'
    BY <1>1, <2>1, <2>2, <2>4 DEF ProcEffect, Writing, Forsaken
  <2> QED
    BY <1>1, <2>1, <2>3, <2>5, <2>6 DEF ProcEffect, Forsaken, Alive
<1>7. OwnersExist'
  <2>1. \A q \in Pid : pc'[q] = "unborn" => pc[q] = "unborn"
    BY <1>1, <1>t DEF ProcEffect, Typed
  <2>2. pc'[p] # "unborn"
    BY <1>1 DEF ProcEffect
  <2>3. \A t \in Task : state[t].owner \in 0..MaxPid
    BY <1>t DEF TypeInv, TypeOK, StateJson
  <2>4. CASE state' = state
    BY <1>t, <2>1, <2>3, <2>4, CardDispatchAssumption DEF WriterInv, OwnersExist, Pid
  <2>5. ASSUME NEW v \in StateJson, state' = [state EXCEPT ![job[p]] = v], v.owner \in {0, p},
               v.status # "none"
        PROVE  OwnersExist'
    <3>1. \A t \in Task : t # job[p] => state'[t] = state[t]
      BY <2>5, <1>t DEF TypeInv, TypeOK
    <3>2. state'[job[p]] = v
      BY <2>5, <1>2, <1>t DEF TypeInv, TypeOK
    <3> QED
      BY <1>t, <2>1, <2>2, <2>3, <2>5, <3>1, <3>2, CardDispatchAssumption
         DEF WriterInv, OwnersExist, Pid
  <2> QED
    BY <1>1, <2>4, <2>5 DEF WriteEffect
<1>8. ReparksNeverRun'
  <2>1. \A q \in Pid : q # p => pc'[q] = pc[q]
    BY <1>1, <1>t DEF ProcEffect, Typed
  <2> QED
    BY <1>t, <1>1, <2>1, ProcWrites DEF ProcEffect, WriterInv, ReparksNeverRun
<1> QED
  BY <1>4, <1>5, <1>6, <1>7, <1>8 DEF WriterInv

-----------------------------------------------------------------------------
(* A step of a scan.                                                       *)

LEMMA ScanKeepsWriter ==
  ASSUME AllInv, NEW s \in Scanner, ScanStep(s), SplitReads = FALSE,
         BetweenReads => queue' \subseteq queue
  PROVE  WriterInv'
<1>t. TypeInv /\ Typed /\ SlotInv /\ HandOverInv /\ WriterInv /\ StateOK /\ ScanOK
  BY TypedFromTypeInv, TypeInvParts DEF AllInv, DispatchInv
<1>1. ScanEffect(s)
  BY <1>t, ScanStepEffect
<1>2. s \in {"startup", "child"} /\ \A u \in Scanner \ {s} : scan[u].pc = "off"
  BY <1>1, <1>t, ScansAlone DEF ScanEffect, WriterInv, Scanner
<1>3. \A u \in Scanner \ {s} : scan'[u] = scan[u]
  BY <1>1, <1>t DEF ScanEffect, ScanOK
<1>4. /\ UNCHANGED <<task, liveFile, pc, role, job, mode, at, cur, live, reparking>>
      /\ \A q \in Pid : Alive(q)' <=> Alive(q)
      /\ \A q \in Pid : Writing(q)' <=> Writing(q)
      /\ \A t \in Task : InFlight(t)' <=> InFlight(t)
  BY <1>1 DEF ScanEffect, Alive, Writing, InFlight
<1>5. OneScan'
  <2>1. scan[s].pc # "off"
    BY <1>1 DEF ScanEffect
  <2> QED
    BY <1>2, <1>3, <1>4, <1>t, <2>1 DEF WriterInv, OneScan, Scanner
<1>6. ReparksNeverRun'
  BY <1>4, <1>t DEF WriterInv, ReparksNeverRun

\* What is left to show of each action: the snapshots where the child scans,
\* the card to be parked, the owners.
<1> DEFINE Kept ==
             /\ s = "child" => Snapshots'
             /\ scan'[s].pc = "park" => Forsaken(scan[s].card)'
             /\ OwnersExist'
<1>7. ASSUME Kept PROVE WriterInv'
  <2>1. ParksForsaken'
    BY <1>2, <1>3, <1>7 DEF ParksForsaken
  <2>2. CASE s = "startup"
    <3>1. /\ scan["child"].pc = "off" /\ scan'["child"] = scan["child"]
          /\ scan["child"].todo = {}
      BY <1>2, <1>3, <1>t, <2>2 DEF WriterInv, Snapshots, Scanner
    <3>2. Snapshots'
      BY <3>1 DEF Snapshots
    <3> QED
      BY <1>5, <1>6, <1>7, <2>1, <3>2 DEF WriterInv
  <2> QED
    BY <1>2, <1>5, <1>6, <1>7, <2>1, <2>2 DEF WriterInv
<1>8. ASSUME UNCHANGED state PROVE OwnersExist'
  BY <1>4, <1>8, <1>t DEF WriterInv, OwnersExist
<1>9. ASSUME queue' \subseteq queue PROVE \A t \in Task : Quiet(t) => Quiet(t)'
  BY <1>4, <1>9 DEF Quiet, Queued, Claimed
<1>10. scan["child"].todo \subseteq Task /\ scan[s].todo \subseteq Task
  BY <1>t DEF ScanOK, Scan, Scanner

<1>11. CASE ScanQueue(s)
  <2>1. /\ scan[s].pc = "idle" /\ UNCHANGED <<queue, state>>
        /\ scan'[s] = [scan[s] EXCEPT !.pc = "live", !.window = InWindow,
                                      !.queued = {t \in Task : Queued(t)}]
    BY <1>11, <1>t DEF ScanQueue, ScanTo, ScanOK, disk
  <2>2. /\ scan'[s].pc = "live" /\ scan'[s].queued = {t \in Task : Queued(t)}
        /\ scan'[s].window = InWindow /\ scan'[s].todo = scan[s].todo
    BY <2>1, <1>t DEF ScanOK, Scan
  <2>3. s = "child" => Snapshots'
    <3> SUFFICES ASSUME s = "child" PROVE Snapshots'
      OBVIOUS
    <3>1. scan["child"].todo = {}
      BY <2>1, <1>t DEF WriterInv, Snapshots
    <3>2. \A t \in Task : InFlight(t) => InWindow
      BY DEF InFlight, InWindow
    <3> QED
      BY <1>4, <2>1, <2>2, <3>1, <3>2 DEF Snapshots, Queued
  <2> QED
    BY <1>7, <1>8, <2>1, <2>2, <2>3

<1>12. CASE ScanLive(s)
  <2>1. /\ scan[s].pc = "live" /\ ~(scan[s].window /\ InWindow) /\ UNCHANGED <<queue, state>>
        /\ scan'[s] = [scan[s] EXCEPT !.pc = "visit", !.window = FALSE,
                                      !.live = IF s = "startup" THEN {} ELSE liveFile,
                                      !.todo = {t \in Task : Claimed(t)}]
    BY <1>12, <1>t DEF ScanLive, ScanTo, ScanOK, disk
  <2>2. /\ scan'[s].pc = "visit" /\ scan'[s].todo = {t \in Task : Claimed(t)}
        /\ scan'[s].queued = scan[s].queued
        /\ s = "child" => scan'[s].live = liveFile
    BY <2>1, <1>t DEF ScanOK, Scan
  <2>3. s = "child" => Snapshots'
    <3> SUFFICES ASSUME s = "child", NEW t \in Task, t \notin scan[s].queued, t \notin liveFile,
                        Claimed(t)
                 PROVE  Quiet(t)'
      BY <2>2 DEF Snapshots
    <3>1. ~Queued(t) /\ (~scan[s].window => ~InFlight(t))
      BY <2>1, <1>t DEF WriterInv, Snapshots
    <3>2. ~InFlight(t)
      BY <2>1, <3>1 DEF InFlight, InWindow
    <3>3. mode = "up"
      BY <2>1, <1>t DEF WriterInv, OneScan
    <3>4. t \notin LiveIds
      BY <3>2, <3>3, <1>t DEF HandOverInv, LiveFileIsTable, Running, InFlight
    <3> QED
      BY <1>4, <2>1, <3>1, <3>2, <3>4 DEF Quiet, Claimed, Queued, LiveIds
  <2> QED
    BY <1>7, <1>8, <2>1, <2>2, <2>3

<1>13. ASSUME NEW t \in Task, ScanVisit(s, t) PROVE WriterInv'
  <2>1. scan[s].pc = "visit" /\ t \in scan[s].todo /\ UNCHANGED <<queue, state>>
    BY <1>13 DEF ScanVisit
  <2> DEFINE Parks == ~Skipped(s, t) /\ ~ClaimHeld(t) /\ OwnerGone(t) /\ aged[t]
  <2>2. scan'[s] = IF Parks
                   THEN [scan[s] EXCEPT !.todo = @ \ {t}, !.pc = "park", !.card = t]
                   ELSE [scan[s] EXCEPT !.todo = @ \ {t}]
    BY <1>13, <1>t DEF ScanVisit, ScanTo, ScanOK
  <2>3. /\ scan'[s].todo = scan[s].todo \ {t}
        /\ scan'[s].queued = scan[s].queued /\ scan'[s].live = scan[s].live
        /\ scan'[s].pc = IF Parks THEN "park" ELSE "visit"
        /\ Parks => scan'[s].card = t
    BY <2>1, <2>2, <1>t DEF ScanOK, Scan
  <2>4. s = "child" /\ Parks => Quiet(t)
    BY <2>1, <1>t DEF WriterInv, Snapshots, Skipped
  <2>5. s = "child" => Snapshots'
    BY <1>9, <1>10, <2>1, <2>3, <2>4, <1>t DEF WriterInv, Snapshots
  <2>6. Parks => Forsaken(t)
    <3> SUFFICES ASSUME Parks PROVE Forsaken(t)
      OBVIOUS
    <3>1. state[t].status \notin Terminal
      BY DEF Skipped
    <3>2. ~Alive(state[t].owner)
      BY <1>t, CardDispatchAssumption DEF OwnerGone, WriterInv, OwnersExist, Alive, Pid
    <3>3. ASSUME NEW p \in Pid, job[p] = t, Writing(p) PROVE FALSE
      <4>1. Alive(p)
        BY <3>3 DEF Writing, Alive
      <4>2. s = "child"
        <5>1. s # "startup"
          BY <2>1, <4>1, <1>t, StartupIsAlone DEF WriterInv, OneScan
        <5> QED
          BY <5>1, <1>2
      <4>3. live[t] = 0
        BY <2>4, <4>2 DEF Quiet
      <4>4. role[p] = "repark" /\ pc[p] \in {"boot", "parking"}
        <5>1. role[p] # "worker"
          BY <3>3, <4>1, <4>3, <1>t, CardDispatchAssumption DEF SlotInv, WorkerListed, Pid
        <5>2. role[p] # "none"
          BY <4>1, <1>t DEF HandOverInv, Tracked
        <5>3. role[p] = "repark"
          BY <5>1, <5>2, <1>t DEF Typed, Role
        <5> QED
          BY <3>3, <5>3, <1>t DEF Writing, WriterInv, ReparksNeverRun
      <4>5. claim[t] = p
        <5>1. ~(at = "reparked" /\ cur = t)
          BY <4>3, <1>t, CardDispatchAssumption DEF SlotInv, EntryIsFree, Pid
        <5> QED
          BY <3>3, <4>1, <4>4, <5>1, <1>t DEF HandOverInv, ClaimFollows
      <4> QED
        BY <4>1, <4>5 DEF ClaimHeld
    <3> QED
      BY <3>1, <3>2, <3>3 DEF Forsaken
  <2>7. scan'[s].pc = "park" => Forsaken(scan[s].card)'
    BY <1>4, <2>1, <2>3, <2>6 DEF Forsaken, Alive, Writing
  <2> QED
    BY <1>7, <1>8, <2>1, <2>5, <2>7

<1>14. CASE ScanPark(s)
  <2>1. /\ scan[s].pc = "park" /\ UNCHANGED queue /\ scan[s].card \in Task
        /\ scan'[s] = [scan[s] EXCEPT !.pc = "anchor"]
        /\ state' = [state EXCEPT ![scan[s].card] =
                        [status |-> "parked", owner |-> 0, reason |-> "orphan"]]
    BY <1>14, <1>t DEF ScanPark, ScanTo, WriteState, ScanOK, HasCard
  <2>2. /\ scan'[s].pc = "anchor" /\ scan'[s].todo = scan[s].todo
        /\ scan'[s].queued = scan[s].queued /\ scan'[s].live = scan[s].live
    BY <2>1, <1>t DEF ScanOK, Scan
  <2>3. s = "child" => Snapshots'
    BY <1>9, <1>10, <2>1, <2>2, <1>t DEF WriterInv, Snapshots
  <2>4. OwnersExist'
    BY <1>4, <2>1, <1>t DEF WriterInv, OwnersExist, StateOK
  <2> QED
    BY <1>7, <2>2, <2>3, <2>4

<1>15. CASE ScanAnchor(s)
  <2>1. /\ scan[s].pc = "anchor" /\ UNCHANGED <<queue, state>>
        /\ scan'[s] = [scan[s] EXCEPT !.pc = "visit"]
    BY <1>15, <1>t DEF ScanAnchor, ScanTo, ScanOK
  <2>2. /\ scan'[s].pc = "visit" /\ scan'[s].todo = scan[s].todo
        /\ scan'[s].queued = scan[s].queued /\ scan'[s].live = scan[s].live
    BY <2>1, <1>t DEF ScanOK, Scan
  <2>3. s = "child" => Snapshots'
    BY <1>9, <1>10, <2>1, <2>2, <1>t DEF WriterInv, Snapshots
  <2> QED
    BY <1>7, <1>8, <2>1, <2>2, <2>3

<1>16. CASE ScanEnd(s)
  <2>1. /\ UNCHANGED <<queue, state>>
        /\ scan'[s].pc \in {"idle", "off"} /\ scan'[s].todo = {}
    BY <1>16, <1>t DEF ScanEnd, ScanTo, ScanOK, disk, ScanIdle, ScanOff
  <2>2. s = "child" => Snapshots'
    BY <2>1 DEF Snapshots
  <2> QED
    BY <1>7, <1>8, <2>1, <2>2

<1>17. ASSUME NEW t \in Task, UnparkRead(s, t) PROVE WriterInv'
  <2>1. /\ scan[s].todo = {} /\ UNCHANGED <<queue, state>>
        /\ scan'[s] = [scan[s] EXCEPT !.pc = "verb", !.card = t]
    BY <1>17, <1>t DEF UnparkRead, ScanTo, ScanOK, disk
  <2>2. scan'[s].pc = "verb" /\ scan'[s].todo = {}
    BY <2>1, <1>t DEF ScanOK, Scan
  <2>3. s = "child" => Snapshots'
    BY <2>2 DEF Snapshots
  <2> QED
    BY <1>7, <1>8, <2>1, <2>2, <2>3

<1>18. CASE UnparkRetry(s) \/ UnparkRetryEvent(s) \/ UnparkAbandon(s)
  <2>1. /\ scan[s].pc \in {"verb", "verbEvent"}
        /\ \E l \in {"verbEvent", "visit"} : scan'[s] = [scan[s] EXCEPT !.pc = l]
    BY <1>18, <1>t DEF UnparkRetry, UnparkRetryEvent, UnparkAbandon, ScanTo, ScanOK
  <2>2. scan'[s].pc \in {"verbEvent", "visit"} /\ scan'[s].todo = scan[s].todo
    BY <2>1, <1>t DEF ScanOK, Scan
  <2>3. s = "child" => Snapshots'
    <3> SUFFICES ASSUME s = "child" PROVE Snapshots'
      OBVIOUS
    <3>1. scan["child"].todo = {}
      BY <2>1, <1>t DEF WriterInv, Snapshots
    <3> QED
      BY <2>2, <3>1 DEF Snapshots
  <2>4. OwnersExist'
    <3>1. CASE UNCHANGED state
      BY <3>1, <1>8
    <3>2. CASE UnparkAbandon(s)
      <4>1. scan[s].card \in Task
        BY <2>1, <1>t DEF ScanOK, HasCard
      <4>2. state' = [state EXCEPT ![scan[s].card] =
              [status |-> "abandoned", owner |-> state[scan[s].card].owner, reason |-> "none"]]
        BY <3>2 DEF UnparkAbandon, WriteState
      <4> QED
        BY <1>4, <4>1, <4>2, <1>t DEF WriterInv, OwnersExist, StateOK
    <3> QED
      BY <1>18, <3>1, <3>2 DEF UnparkRetry, UnparkRetryEvent
  <2> QED
    BY <1>7, <2>2, <2>3, <2>4
<1> QED
  BY <1>11, <1>12, <1>13, <1>14, <1>15, <1>16, <1>17, <1>18
     DEF ScanStep, OrphanStep, UnparkStep

-----------------------------------------------------------------------------
(* A step of the dispatcher, the intake or time.                           *)

\* Steps that start no process and leave the scans and state.json alone.
LEMMA TablesKeepWriter ==
  ASSUME AllInv, UNCHANGED <<task, state, role, job, scan>>,
         mode' = mode \/ \A u \in Scanner : scan[u].pc = "off",
         \A p \in Pid : pc'[p] = pc[p] \/ pc'[p] = "crashed",
         \A t \in Task : Quiet(t) => Quiet(t)',
         scan["child"].pc = "live" =>
           \A t \in Task \ scan["child"].queued :
             (Queued(t)' => Queued(t)) /\ (InFlight(t)' => InFlight(t) \/ Queued(t))
  PROVE  WriterInv'
<1>t. TypeInv /\ WriterInv
  BY DEF AllInv, DispatchInv
<1>1. OneScan'
  BY <1>t DEF WriterInv, OneScan, Scanner
<1>2. scan["child"].todo \subseteq Task /\ (scan["child"].pc = "park" => scan["child"].card \in Task)
  BY <1>t DEF TypeInv, TypeOK, Assigned, Scan, Scanner
<1>3. Snapshots'
  BY <1>t, <1>2 DEF WriterInv, Snapshots
<1>4. \A p \in Pid : Alive(p)' => Alive(p)
  BY DEF Alive
<1>5. ParksForsaken'
  BY <1>t, <1>4 DEF WriterInv, ParksForsaken, Forsaken, Alive, Writing
<1>6. OwnersExist'
  <2>1. \A t \in Task : state[t].owner \in 0..MaxPid
    BY <1>t DEF TypeInv, TypeOK, StateJson
  <2> QED
    BY <1>t, <2>1, CardDispatchAssumption DEF WriterInv, OwnersExist, Pid
<1>7. ReparksNeverRun'
  BY <1>t DEF WriterInv, ReparksNeverRun
<1> QED
  BY <1>1, <1>3, <1>5, <1>6, <1>7 DEF WriterInv

\* Steps that start a scan or stop them all.
LEMMA ScansRestart ==
  ASSUME AllInv, UNCHANGED <<state, role, job>>,
         \A p \in Pid : pc'[p] = pc[p] \/ pc'[p] = "crashed",
         \A u \in Scanner : scan'[u] \in {ScanOff, ScanIdle} \/ (u # "child" /\ scan'[u] = scan[u] /\ scan[u].pc = "off"),
         OneScan'
  PROVE  WriterInv'
<1>t. TypeInv /\ WriterInv
  BY DEF AllInv, DispatchInv
<1>1. Snapshots'
  BY DEF Snapshots, ScanOff, ScanIdle, Scanner
<1>2. ParksForsaken'
  BY DEF ParksForsaken, ScanOff, ScanIdle
<1>3. OwnersExist'
  <2>1. \A t \in Task : state[t].owner \in 0..MaxPid
    BY <1>t DEF TypeInv, TypeOK, StateJson
  <2> QED
    BY <1>t, <2>1, CardDispatchAssumption DEF WriterInv, OwnersExist, Pid
<1>4. ReparksNeverRun'
  BY <1>t DEF WriterInv, ReparksNeverRun
<1> QED
  BY <1>1, <1>2, <1>3, <1>4 DEF WriterInv

\* A new child of a card that no scan is parking.
LEMMA SpawnKeepsWriter ==
  ASSUME AllInv, NEW p \in Pid, NEW r \in {"worker", "repark"}, NEW c \in Task, Spawn(p, r, c),
         UNCHANGED <<queue, task, state, scan, mode>>,
         mode # "startup",
         ~Quiet(c),
         \A t \in Task : Quiet(t) => Quiet(t)',
         \A t \in Task : InFlight(t)' => InFlight(t)
  PROVE  WriterInv'
<1>t. TypeInv /\ Typed /\ WriterInv
  BY TypedFromTypeInv DEF AllInv, DispatchInv
<1>s. /\ pc' = [pc EXCEPT ![p] = "boot"] /\ pc[p] = "unborn"
      /\ role' = [role EXCEPT ![p] = r] /\ job' = [job EXCEPT ![p] = c]
  BY DEF Spawn, NextPid
<1>1. OneScan'
  BY <1>t DEF WriterInv, OneScan
<1>2. scan["child"].todo \subseteq Task /\ (scan["child"].pc = "park" => scan["child"].card \in Task)
  BY <1>t DEF TypeInv, TypeOK, Assigned, Scan, Scanner
<1>3. Snapshots'
  BY <1>t, <1>2 DEF WriterInv, Snapshots, Queued
<1>4. ParksForsaken'
  <2> SUFFICES ASSUME NEW s \in Scanner, scan[s].pc = "park" PROVE Forsaken(scan[s].card)'
    BY DEF ParksForsaken
  <2>1. s = "child"
    BY <1>t DEF WriterInv, OneScan, Scanner
  <2>2. scan[s].card # c /\ Forsaken(scan[s].card) /\ scan[s].card \in Task
    BY <1>t, <1>2, <2>1 DEF WriterInv, Snapshots, ParksForsaken
  <2>3. state[scan[s].card].owner # p
    BY <1>t, <1>s, <2>2, CardDispatchAssumption DEF WriterInv, OwnersExist, Pid
  <2> QED
    BY <1>s, <1>t, <2>2, <2>3 DEF Typed, Forsaken, Alive, Writing
<1>5. OwnersExist'
  <2>1. \A t \in Task : state[t].owner \in 0..MaxPid
    BY <1>t DEF TypeInv, TypeOK, StateJson
  <2> QED
    BY <1>t, <1>s, <2>1, CardDispatchAssumption DEF Typed, WriterInv, OwnersExist, Pid
<1>6. ReparksNeverRun'
  BY <1>t, <1>s DEF Typed, WriterInv, ReparksNeverRun
<1> QED
  BY <1>1, <1>3, <1>4, <1>5, <1>6 DEF WriterInv

LEMMA NextWriter ==
  ASSUME Survivors = FALSE, ClaimMayFail = FALSE, SplitReads = FALSE, AllInv, [Next]_vars
  PROVE  WriterInv'
<1>t. TypeInv /\ Typed /\ SlotInv /\ HandOverInv /\ WriterInv /\ StateOK /\ ScanOK
  BY TypedFromTypeInv, TypeInvParts DEF AllInv, DispatchInv
<1>b. scan["child"].pc = "live" => queue' \subseteq queue
  BY DEF Next, BetweenReads, Scanner, vars, disk
<1>u. mode # "startup" => scan["startup"].pc = "off"
  BY <1>t DEF WriterInv, OneScan
<1>v. mode # "up" => scan["child"].pc = "off"
  BY <1>t DEF WriterInv, OneScan
<1>x. scan["survivor"].pc = "off"
  BY <1>t DEF WriterInv, OneScan
<1>o. ScanOff \in Scan /\ ScanOff.pc = "off" /\ ScanIdle \in Scan /\ ScanIdle.pc = "idle"
  BY ScanConstants
<1> USE <1>t DEF procs, disk, memory, breakers, bounds
<1>1. ASSUME NEW t \in Task, IntakeFile(t) PROVE WriterInv'
  <2>1. \A c \in Task : Quiet(c) => Quiet(c)'
    <3>1. ~Quiet(t)
      BY <1>1 DEF IntakeFile, UnclaimedWhenRead, Quiet, InFlight
    <3>2. \A c \in Task \ {t} : Queued(c)' => Queued(c)
      BY <1>1 DEF IntakeFile, Queued
    <3> QED
      BY <1>1, <3>1, <3>2 DEF IntakeFile, Quiet, Claimed, InFlight
  <2>2. scan["child"].pc = "live" => \A c \in Task : Queued(c)' => Queued(c)
    BY <1>b DEF Queued
  <2> QED
    BY <1>1, <2>1, <2>2, TablesKeepWriter DEF IntakeFile, InFlight
<1>2. ASSUME NEW t \in Task, Age(t) PROVE WriterInv'
  BY <1>2, TablesKeepWriter DEF Age, Quiet, Claimed, Queued, InFlight
<1>3. CASE DaemonStart
  <2>1. /\ mode = "down" /\ mode' = "startup"
        /\ scan'["startup"] = ScanIdle
        /\ \A s \in Scanner \ {"startup"} : scan'[s] = scan[s]
    BY <1>3 DEF DaemonStart, ScanOK, Scanner
  <2>2. OneScan'
    BY <1>o, <1>v, <1>x, <2>1 DEF OneScan, Scanner
  <2>3. Snapshots'
    BY <1>v, <2>1 DEF Snapshots, WriterInv, Scanner
  <2>4. ParksForsaken'
    BY <1>o, <1>v, <1>x, <2>1 DEF ParksForsaken, Scanner
  <2> QED
    BY <1>3, <2>2, <2>3, <2>4
       DEF DaemonStart, WriterInv, OwnersExist, ReparksNeverRun
<1>4. CASE DispatcherRun
  <2>1. /\ mode' = "up" /\ scan'["startup"] = ScanOff /\ scan'["child"] = ScanIdle
        /\ scan'["survivor"] = scan["survivor"]
    BY <1>4 DEF DispatcherRun, ScanOK, Scanner
  <2>2. OneScan'
    BY <1>o, <1>x, <2>1 DEF OneScan
  <2> QED
    BY <1>4, <1>x, <2>1, <2>2, ScansRestart DEF DispatcherRun, Scanner
<1>5. ASSUME NEW e \in queue, RefuseDuplicate(e) PROVE WriterInv'
  BY <1>5, TablesKeepWriter DEF RefuseDuplicate, Quiet, Claimed, Queued, InFlight
<1>6. ASSUME NEW e \in queue, ClaimEntry(e) PROVE WriterInv'
  <2>1. /\ e.card \in Task /\ e.retries # NoJson /\ Queued(e.card)
        /\ mode = "up" /\ at = "loop"
    BY <1>6, CardDispatchAssumption
       DEF ClaimEntry, SlotFree, Entry, NoJson, Queued, TypeInv, TypeOK
  <2>2. /\ queue' \subseteq queue /\ at' = "claimed" /\ cur' = e.card
        /\ task' = [task EXCEPT ![e.card] = e.retries]
        /\ UNCHANGED <<state, pc, role, job, scan, mode, live>>
    BY <1>6 DEF ClaimEntry
  <2>3. \A t \in Task : Quiet(t) => Quiet(t)'
    BY <2>1, <2>2 DEF Quiet, Claimed, Queued, InFlight, TypeInv, TypeOK
  <2>4. OneScan' /\ OwnersExist' /\ ReparksNeverRun' /\ ParksForsaken'
    BY <2>2 DEF WriterInv, OneScan, OwnersExist, ReparksNeverRun, ParksForsaken, Forsaken,
                Alive, Writing
  <2>5. scan["child"].todo \subseteq Task
        /\ (scan["child"].pc = "park" => scan["child"].card \in Task)
    BY DEF ScanOK, HasCard, Scan, Scanner
  <2>6. \A t \in Task : (Queued(t)' => Queued(t)) /\ (InFlight(t)' => Queued(t))
    BY <2>1, <2>2 DEF Queued, InFlight
  <2>7. Snapshots'
    BY <2>2, <2>3, <2>5, <2>6 DEF WriterInv, Snapshots
  <2> QED
    BY <2>4, <2>7 DEF WriterInv
<1>7. ASSUME NEW p \in Pid, SpawnWorker(p) PROVE WriterInv'
  <2>1. /\ at = "claimed" /\ cur \in Task /\ at' = "spawned" /\ cur' = cur
        /\ live' = [live EXCEPT ![cur] = p]
    BY <1>7 DEF SpawnWorker, Typed
  <2>2. ~Quiet(cur)
    BY <2>1 DEF Quiet, InFlight
  <2>3. \A t \in Task : Quiet(t) => Quiet(t)'
    BY <1>7, <2>1, <2>2 DEF SpawnWorker, Quiet, Claimed, Queued, InFlight, Typed
  <2>4. mode # "startup"
    BY <2>1, StartupIsAlone
  <2> QED
    BY <1>7, <2>1, <2>2, <2>3, <2>4, SpawnKeepsWriter DEF SpawnWorker, InFlight
<1>8. CASE Publish
  BY <1>8, TablesKeepWriter DEF Publish, Quiet, Claimed, Queued, InFlight
<1>9. CASE WriteClaim \/ WriteClaimFails
  BY <1>9, TablesKeepWriter
     DEF WriteClaim, WriteClaimFails, Quiet, Claimed, Queued, InFlight
<1>10. CASE Unlist
  <2>1. \A t \in Task : Quiet(t) => Quiet(t)'
    BY <1>10 DEF Unlist, Quiet, Claimed, Queued, InFlight, Typed
  <2>2. \A t \in Task : ~InFlight(t)'
    BY <1>10 DEF Unlist, InFlight
  <2>3. CASE mode' = mode /\ scan' = scan
    BY <1>10, <2>1, <2>2, <2>3, TablesKeepWriter DEF Unlist, Queued
  <2>4. CASE mode = "up" /\ mode' = "term" /\ scan' = [scan EXCEPT !["child"] = ScanOff]
    <3>1. /\ scan'["child"] = ScanOff
          /\ \A s \in Scanner \ {"child"} : scan'[s] = scan[s] /\ scan[s].pc = "off"
      BY <1>u, <1>x, <2>4 DEF ScanOK, Scanner
    <3>2. OneScan'
      BY <1>o, <3>1 DEF OneScan, Scanner
    <3> QED
      BY <1>10, <3>1, <3>2, ScansRestart DEF Unlist, Scanner
  <2> QED
    BY <1>10, <2>3, <2>4 DEF Unlist
<1>11. ASSUME NEW t \in Task, ReapWorker(t) \/ ReapRepark(t) PROVE WriterInv'
  BY <1>11, TablesKeepWriter
     DEF ReapWorker, ReapRepark, Quiet, Claimed, Queued, InFlight, Typed
<1>12. ASSUME NEW t \in Task, NEW p \in Pid, SpawnRepark(t, p) PROVE WriterInv'
  <2>1. live[t] # 0 /\ at' = "reparked" /\ mode # "startup" /\ UNCHANGED <<disk, live, mode, scan>>
    BY <1>12 DEF SpawnRepark
  <2>2. ~Quiet(t) /\ \A c \in Task : Quiet(c) => Quiet(c)'
    BY <2>1 DEF Quiet, Claimed, Queued, InFlight
  <2> QED
    BY <1>12, <2>1, <2>2, SpawnKeepsWriter DEF SpawnRepark, InFlight
<1>13. ASSUME NEW t \in Task, SpawnReparkFails(t) PROVE WriterInv'
  BY <1>13, TablesKeepWriter DEF SpawnReparkFails, Quiet, Claimed, Queued, InFlight
<1>14. CASE RequestDrain
  <2>1. /\ mode = "up" /\ scan'["child"] = ScanOff
        /\ \A s \in Scanner \ {"child"} : scan'[s] = scan[s]
    BY <1>14 DEF RequestDrain, ScanOK, Scanner
  <2>2. OneScan'
    BY <1>o, <1>u, <1>x, <2>1 DEF OneScan, Scanner
  <2> QED
    BY <1>14, <1>u, <1>x, <2>1, <2>2, ScansRestart DEF RequestDrain, Scanner
<1>15. CASE DrainTimeout \/ Escalate \/ DispatcherExit
  <2>1. \A s \in Scanner : scan[s].pc = "off"
    BY <1>15, <1>u, <1>v, <1>x DEF DrainTimeout, Escalate, DispatcherExit, Scanner
  <2>2. \A p \in Pid : pc'[p] = pc[p] \/ pc'[p] = "crashed"
    BY <1>15 DEF DrainTimeout, Escalate, DispatcherExit
  <2> QED
    BY <1>15, <2>1, <2>2, TablesKeepWriter
       DEF DrainTimeout, Escalate, DispatcherExit, Quiet, Claimed, Queued, InFlight
<1>16. CASE DaemonCrash
  <2>1. \A s \in Scanner : scan'[s] = ScanOff
    BY <1>16 DEF DaemonCrash
  <2>2. OneScan'
    BY <1>o, <2>1 DEF OneScan, Scanner
  <2> QED
    BY <1>16, <2>1, <2>2, ScansRestart DEF DaemonCrash
<1>17. ASSUME NEW p \in Pid, ProcStep(p) PROVE WriterInv'
  <2>1. BetweenReads => queue' \subseteq queue
    BY DEF Next, vars
  <2> QED
    BY <1>17, <2>1, ProcKeepsWriter
<1>18. ASSUME NEW s \in Scanner, ScanStep(s) PROVE WriterInv'
  <2>1. BetweenReads => queue' \subseteq queue
    BY DEF Next, vars
  <2> QED
    BY <1>18, <2>1, ScanKeepsWriter
<1>19. CASE ScannerCrash
  <2>1. /\ mode = "up" /\ mode' \in {"up", "term"}
        /\ scan'["child"] = IF mode' = "up" THEN ScanIdle ELSE ScanOff
        /\ \A s \in Scanner \ {"child"} : scan'[s] = scan[s]
    BY <1>19 DEF ScannerCrash, ScanTo, ScanOK, Scanner
  <2>2. OneScan'
    BY <1>o, <1>u, <1>x, <2>1 DEF OneScan, Scanner
  <2> QED
    BY <1>19, <1>u, <1>x, <2>1, <2>2, ScansRestart DEF ScannerCrash, Scanner
<1>20. CASE UNCHANGED vars
  BY <1>20, TablesKeepWriter DEF vars, Quiet, Claimed, Queued, InFlight
<1> QED
  BY <1>1, <1>2, <1>3, <1>4, <1>5, <1>6, <1>7, <1>8, <1>9, <1>10, <1>11, <1>12, <1>13, <1>14,
     <1>15, <1>16, <1>17, <1>18, <1>19, <1>20
     DEF Next, Take, Started, Reap, Shutdown, ProcStep, ScanStep

LEMMA AllAlways ==
  ASSUME Survivors = FALSE, ClaimMayFail = FALSE, SplitReads = FALSE
  PROVE  Spec => []AllInv
<1>1. Init => AllInv
  BY InitTypeInv, InitHandOver, InitSlotInv, InitWriter DEF AllInv, DispatchInv
<1>2. AllInv /\ [Next]_vars => AllInv'
  BY NextTypeInv, NextHandOver, NextSlotInv, NextWriter DEF AllInv, DispatchInv
<1> QED
  BY <1>1, <1>2, PTL DEF Spec

(***************************************************************************)
(* A card has one writer at a time, however its worker, the repark child   *)
(* of a crashed worker and the orphan scans interleave, and however old    *)
(* the two snapshots are that a scan decides by: no two of them ever write *)
(* the same state.json (the single-writer invariant of journal.js).        *)
(***************************************************************************)
THEOREM CardHasOneWriter ==
  Survivors = FALSE /\ ClaimMayFail = FALSE /\ SplitReads = FALSE => (Spec => []OneWriter)
<1> SUFFICES ASSUME Survivors = FALSE, ClaimMayFail = FALSE, SplitReads = FALSE
             PROVE  Spec => []OneWriter
  OBVIOUS
<1>1. AllInv => OneWriter
  <2> SUFFICES ASSUME AllInv, NEW t \in Task
               PROVE  Cardinality(WriterProcs(t)) + Cardinality(WriterScans(t)) <= 1
    BY DEF OneWriter
  <2>1. \A p, q \in WriterProcs(t) : p = q
    BY OneChild DEF WriterProcs, Alive
  <2>2. \A s, u \in WriterScans(t) : s = u
    BY ScansAlone DEF WriterScans, AllInv, WriterInv
  <2>3. WriterScans(t) # {} => WriterProcs(t) = {}
    BY DEF WriterScans, WriterProcs, AllInv, WriterInv, ParksForsaken, Forsaken, Writing
  <2>4. /\ Cardinality(WriterProcs(t)) \in {0, 1} /\ Cardinality(WriterScans(t)) \in {0, 1}
    BY <2>1, <2>2, AtMostOne
  <2>5. CASE WriterScans(t) = {}
    BY <2>4, <2>5, FS_EmptySet
  <2>6. CASE WriterProcs(t) = {}
    BY <2>4, <2>6, FS_EmptySet
  <2> QED
    BY <2>3, <2>5, <2>6
<1>2. Spec => []AllInv
  BY AllAlways
<1> QED
  BY <1>1, <1>2, PTL

-----------------------------------------------------------------------------
(* Verdicts.  A writer's card has none yet, except an abandon that arrives *)
(* during its run.                                                         *)

Unfinished ==
  /\ at = "claimed" => state[cur].status # "done"
  /\ \A p \in Pid :
       /\ Writing(p) /\ role[p] = "worker" => state[job[p]].status # "done"
       /\ pc[p] \in {"run", "parking"} => state[job[p]].status \notin {"done", "parked"}

VerdictInv == AllInv /\ Unfinished

LEMMA InitVerdict == Init => Unfinished
BY DEF Init, Unfinished, Writing

\* What child p makes of its own card's state: settled only as it stops
\* writing, and "run" or untouched before.
VerdictEffect(p) ==
  LET s == state[job[p]].status
      n == state'[job[p]].status
  IN
  /\ Writing(p)' /\ role[p] = "worker" =>
       n = "run" \/ (n = s /\ pc[p] \in {"run", "parking"})
  /\ Writing(p)' /\ role[p] # "worker" => n = s /\ pc'[p] = "parking" /\ s \notin Terminal
  /\ state' # state /\ n # "done" => Writing(p) /\ (role[p] = "worker" \/ pc[p] = "parking")
  /\ state' # state /\ n = "done" => role[p] = "worker" /\ pc[p] = "run"
  /\ state' # state /\ n = "parked" => pc[p] = "parking"

LEMMA ProcVerdicts ==
  ASSUME AllInv, NEW p \in Pid, ProcStep(p)
  PROVE  VerdictEffect(p) \/ (pc' = [pc EXCEPT ![p] = "crashed"] /\ UNCHANGED state)
<1>1. TypeInv /\ Typed /\ HandOverInv /\ WriterInv
  BY TypedFromTypeInv DEF AllInv, DispatchInv
<1>2. role[p] # "none" => job[p] \in Task
  BY <1>1 DEF Typed
<1> USE <1>1, <1>2 DEF VerdictEffect, Writing, Goto, Worker, Repark, WriteState, procs, disk, memory,
            TypeInv, TypeOK
<1>3. CASE WorkerBoot(p)
  BY <1>3 DEF WorkerBoot
<1>4. CASE WorkerHop(p)
  BY <1>4 DEF WorkerHop
<1>5. CASE WorkerDone(p)
  BY <1>5 DEF WorkerDone
<1>6. CASE WorkerPark(p)
  BY <1>6 DEF WorkerPark
<1>7. CASE WorkerParkWrite(p)
  BY <1>7 DEF WorkerParkWrite
<1>8. CASE WorkerAnchor(p)
  BY <1>8 DEF WorkerAnchor
<1>9. CASE WorkerRetry(p)
  BY <1>9 DEF WorkerRetry
<1>10. CASE WorkerExit(p)
  BY <1>10 DEF WorkerExit
<1>11. CASE ReparkBoot(p)
  BY <1>11 DEF ReparkBoot, ReparkSkips
<1>12. CASE ReparkWrite(p)
  BY <1>12 DEF ReparkWrite
<1>13. CASE ReparkAnchor(p)
  BY <1>13 DEF ReparkAnchor
<1>14. CASE ReparkExit(p)
  BY <1>14 DEF ReparkExit
<1>15. CASE ChildCrash(p)
  BY <1>15 DEF ChildCrash
<1> QED
  BY <1>3, <1>4, <1>5, <1>6, <1>7, <1>8, <1>9, <1>10, <1>11, <1>12, <1>13, <1>14, <1>15
     DEF ProcStep, RunStep

\* Whoever writes a card's state, nobody else is at the card.
LEMMA ProcOwnsCard ==
  ASSUME AllInv, NEW p \in Pid, Writing(p)
  PROVE  /\ \A q \in Pid : Writing(q) /\ job[q] = job[p] => q = p
         /\ at = "claimed" => cur # job[p]
<1>1. Alive(p)
  BY DEF Writing, Alive
<1>2. Typed /\ HandOverInv
  BY TypedFromTypeInv DEF AllInv, DispatchInv
<1>3. at = "claimed" => cur # job[p]
  <2>1. p \in {live[job[p]], reparking[job[p]]}
    BY <1>1, <1>2 DEF HandOverInv, Tracked
  <2>2. at = "claimed" => live[cur] = 0 /\ reparking[cur] = 0
    BY <1>2 DEF HandOverInv, HandOver
  <2> QED
    BY <2>1, <2>2, CardDispatchAssumption DEF Pid
<1> QED
  BY <1>1, <1>3, OneChild DEF Writing, Alive

LEMMA UnfinishedStays ==
  ASSUME Unfinished, UNCHANGED state,
         \A p \in Pid : Writing(p)' => pc'[p] = pc[p] /\ role'[p] = role[p] /\ job'[p] = job[p],
         at' = "claimed" => at = "claimed" /\ cur' = cur
  PROVE  Unfinished'
BY DEF Unfinished, Writing

\* Who writes state.json at all.
LEMMA Writers ==
  ASSUME [Next]_vars
  PROVE  \/ state' = state
         \/ \E p \in Pid : ProcStep(p)
         \/ \E s \in Scanner : ScanPark(s) \/ UnparkAbandon(s)
BY DEF Next, ProcStep, Take, Started, Reap, Shutdown, OrphanStep, UnparkStep, IntakeFile, Age,
   DaemonStart, DispatcherRun, RefuseDuplicate, ClaimEntry, SpawnWorker, Publish, WriteClaim,
   WriteClaimFails, Unlist, ReapWorker, SpawnRepark, SpawnReparkFails, ReapRepark, RequestDrain,
   DrainTimeout, Escalate, DispatcherExit, DaemonCrash, ScanQueue, ScanLive, ScanAnchor, ScanEnd,
   ScanVisit, UnparkRead, UnparkRetry, UnparkRetryEvent, ScannerCrash, vars, disk

LEMMA NextUnfinished ==
  ASSUME VerdictInv, [Next]_vars
  PROVE  Unfinished'
<1>t. TypeInv /\ Typed /\ StateOK /\ ScanOK /\ AllInv /\ Unfinished
  BY TypedFromTypeInv, TypeInvParts DEF VerdictInv, AllInv, DispatchInv
<1> USE <1>t DEF procs, disk, memory
<1>1. ASSUME NEW p \in Pid, ProcStep(p) PROVE Unfinished'
  <2>1. ProcEffect(p) /\ WriteEffect(p)
    BY <1>1, ProcStepEffect, ProcWrites
  <2>2. \A q \in Pid \ {p} : pc'[q] = pc[q]
    BY <2>1 DEF ProcEffect, Typed
  <2>3. CASE pc' = [pc EXCEPT ![p] = "crashed"] /\ UNCHANGED state
    <3>1. pc'[p] = "crashed"
      BY <2>3 DEF Typed
    <3> QED
      BY <2>1, <2>2, <2>3, <3>1, UnfinishedStays DEF ProcEffect, Writing
  <2>4. CASE VerdictEffect(p)
    <3>1. \A t \in Task : state'[t] # state[t] => Writing(p) /\ t = job[p]
      BY <2>1 DEF WriteEffect, StateOK
    <3>2. at' = "claimed" => state'[cur'].status # "done"
      <4> SUFFICES ASSUME at = "claimed" PROVE state'[cur].status # "done"
        BY <2>1 DEF ProcEffect
      <4>1. cur \in Task /\ state[cur].status # "done"
        BY DEF Typed, Unfinished
      <4> QED
        BY <3>1, <4>1, ProcOwnsCard
    <3>3. ASSUME NEW q \in Pid \ {p}, Writing(q)'
          PROVE  /\ role[q] = "worker" => state'[job[q]].status # "done"
                 /\ pc[q] \in {"run", "parking"} =>
                      state'[job[q]].status \notin {"done", "parked"}
      <4>1. Writing(q) /\ job[q] \in Task
        BY <2>2, <3>3 DEF Writing, AllInv, DispatchInv, HandOverInv, Tracked, Alive, Typed
      <4>2. state'[job[q]] = state[job[q]]
        BY <3>1, <4>1, ProcOwnsCard
      <4> QED
        BY <4>1, <4>2 DEF Unfinished
    <3>4. Writing(p)' => /\ role[p] = "worker" => state'[job[p]].status # "done"
                         /\ pc'[p] \in {"run", "parking"} =>
                              state'[job[p]].status \notin {"done", "parked"}
      BY <2>4 DEF VerdictEffect, Unfinished, Terminal
    <3> QED
      BY <2>1, <2>2, <3>2, <3>3, <3>4 DEF ProcEffect, Unfinished, Writing
  <2> QED
    BY <1>1, <2>3, <2>4, ProcVerdicts
<1>2. ASSUME NEW s \in Scanner, ScanPark(s) PROVE Unfinished'
  <2>1. /\ scan[s].pc = "park" /\ scan[s].card \in Task
        /\ state' = [state EXCEPT ![scan[s].card] =
              [status |-> "parked", owner |-> 0, reason |-> "orphan"]]
        /\ UNCHANGED <<pc, role, job, at, cur>>
    BY <1>2 DEF ScanPark, WriteState, ScanOK, HasCard
  <2>2. Forsaken(scan[s].card)
    BY <2>1 DEF AllInv, WriterInv, ParksForsaken
  <2>3. \A p \in Pid : Writing(p) => job[p] # scan[s].card
    BY <2>2 DEF Forsaken
  <2>4. \A t \in Task : t # scan[s].card => state'[t] = state[t]
    BY <2>1 DEF StateOK
  <2>5. \A p \in Pid : Writing(p) => job[p] \in Task
    BY DEF Writing, AllInv, DispatchInv, HandOverInv, Tracked, Alive, Typed
  <2>6. state'[scan[s].card].status = "parked"
    BY <2>1 DEF StateOK
  <2> QED
    BY <2>1, <2>3, <2>4, <2>5, <2>6 DEF Unfinished, Writing, Typed
<1>3. ASSUME NEW s \in Scanner, UnparkAbandon(s) PROVE Unfinished'
  <2>1. /\ scan[s].card \in Task
        /\ state' = [state EXCEPT ![scan[s].card] =
              [status |-> "abandoned", owner |-> state[scan[s].card].owner, reason |-> "none"]]
        /\ UNCHANGED <<pc, role, job, at, cur>>
    BY <1>3 DEF UnparkAbandon, WriteState, ScanOK, HasCard
  <2>2. \A t \in Task : state'[t] = state[t] \/ state'[t].status = "abandoned"
    BY <2>1 DEF StateOK
  <2>3. \A p \in Pid : Writing(p) => job[p] \in Task
    BY DEF Writing, AllInv, DispatchInv, HandOverInv, Tracked, Alive, Typed
  <2> QED
    BY <2>1, <2>2, <2>3 DEF Unfinished, Writing, Typed
<1>4. ASSUME NEW e \in queue, ClaimEntry(e) PROVE Unfinished'
  <2>1. /\ at' = "claimed" /\ cur' = e.card /\ state[e.card].status # "done"
        /\ UNCHANGED <<state, pc, role, job>>
    BY <1>4 DEF ClaimEntry, Undrainable, Terminal
  <2> QED
    BY <2>1 DEF Unfinished, Writing
<1>5. ASSUME NEW p \in Pid, NEW r \in {"worker", "repark"}, NEW c \in Task, Spawn(p, r, c),
             UNCHANGED state, at' # "claimed", r = "worker" => at = "claimed" /\ cur = c
      PROVE  Unfinished'
  <2>1. /\ pc' = [pc EXCEPT ![p] = "boot"] /\ role' = [role EXCEPT ![p] = r]
        /\ job' = [job EXCEPT ![p] = c]
    BY <1>5 DEF Spawn
  <2> QED
    BY <1>5, <2>1 DEF Unfinished, Writing, Typed
<1>6. ASSUME NEW p \in Pid, SpawnWorker(p) PROVE Unfinished'
  BY <1>5, <1>6 DEF SpawnWorker, Typed
<1>7. ASSUME NEW p \in Pid, NEW t \in Task, SpawnRepark(t, p) PROVE Unfinished'
  BY <1>5, <1>7 DEF SpawnRepark
<1>8. CASE Escalate \/ DaemonCrash
  BY <1>8, UnfinishedStays DEF Escalate, DaemonCrash, Writing
<1>9. CASE Unlist \/ Publish \/ WriteClaim \/ WriteClaimFails
           \/ \E t \in Task : SpawnReparkFails(t)
  BY <1>9, UnfinishedStays
     DEF Unlist, Publish, WriteClaim, WriteClaimFails, SpawnReparkFails
<1>10. ASSUME NEW s \in Scanner, ScanStep(s), ~ScanPark(s), ~UnparkAbandon(s)
       PROVE  Unfinished'
  <2>1. UNCHANGED state
    BY <1>10 DEF ScanStep, OrphanStep, UnparkStep, ScanQueue, ScanLive, ScanVisit, ScanAnchor,
                 ScanEnd, UnparkRead, UnparkRetry, UnparkRetryEvent
  <2>2. ScanEffect(s)
    BY <1>10, ScanStepEffect
  <2> QED
    BY <2>1, <2>2, UnfinishedStays DEF ScanEffect
<1>11. CASE UNCHANGED <<state, pc, role, job, at, cur>>
  BY <1>11, UnfinishedStays
<1>12. ASSUME \/ \E t \in Task : IntakeFile(t) \/ Age(t) \/ ReapWorker(t) \/ ReapRepark(t)
              \/ \E e \in queue : RefuseDuplicate(e)
              \/ DaemonStart \/ DispatcherRun \/ RequestDrain \/ DrainTimeout \/ DispatcherExit
              \/ ScannerCrash \/ UNCHANGED vars
       PROVE  UNCHANGED <<state, pc, role, job, at, cur>>
  BY <1>12 DEF IntakeFile, Age, ReapWorker, ReapRepark, RefuseDuplicate, DaemonStart,
               DispatcherRun, RequestDrain, DrainTimeout, DispatcherExit, ScannerCrash, vars
<1> QED
  BY <1>1, <1>2, <1>3, <1>4, <1>6, <1>7, <1>8, <1>9, <1>10, <1>11, <1>12
     DEF Next, Take, Started, Reap, Shutdown, ProcStep, ScanStep

LEMMA VerdictAlways ==
  ASSUME Survivors = FALSE, ClaimMayFail = FALSE, SplitReads = FALSE
  PROVE  Spec => []VerdictInv
<1>1. Init => Unfinished
  BY InitVerdict
<1>2. VerdictInv /\ [Next]_vars => Unfinished'
  BY NextUnfinished
<1>3. Spec => []AllInv
  BY AllAlways
<1>4. VerdictInv <=> AllInv /\ Unfinished
  BY DEF VerdictInv
<1> QED
  BY <1>1, <1>2, <1>3, <1>4, PTL DEF Spec

\* What one step makes of a verdict.
LEMMA VerdictStep ==
  ASSUME VerdictInv, [Next]_vars, NEW t \in Task
  PROVE  /\ state[t].status = "done" => state'[t].status = "done" \/ AbandonArrives(t)
         /\ state[t].status = "parked" /\ state'[t].status = "parked" => state'[t] = state[t]
<1>t. TypeInv /\ Typed /\ StateOK /\ ScanOK /\ AllInv /\ Unfinished
  BY TypedFromTypeInv, TypeInvParts DEF VerdictInv, AllInv, DispatchInv
<1>1. ASSUME NEW p \in Pid, ProcStep(p), state' # state
      PROVE  /\ state[t].status = "done" => state'[t].status = "done"
             /\ state[t].status = "parked" /\ state'[t].status = "parked" => state'[t] = state[t]
  <2>1. WriteEffect(p) /\ VerdictEffect(p)
    BY <1>t, <1>1, ProcWrites, ProcVerdicts
  <2>2. t # job[p] => state'[t] = state[t]
    BY <1>1, <1>t, <2>1 DEF WriteEffect, StateOK
  <2>3. CASE t = job[p]
    BY <1>1, <1>t, <2>1, <2>3 DEF VerdictEffect, Unfinished, Writing
  <2> QED
    BY <2>2, <2>3
<1>2. ASSUME NEW s \in Scanner, ScanPark(s)
      PROVE  state'[t] = state[t] \/ state[t].status \notin Terminal
  <2>1. /\ scan[s].pc = "park" /\ scan[s].card \in Task
        /\ state' = [state EXCEPT ![scan[s].card] =
              [status |-> "parked", owner |-> 0, reason |-> "orphan"]]
    BY <1>2, <1>t DEF ScanPark, WriteState, ScanOK, HasCard
  <2>2. Forsaken(scan[s].card)
    BY <1>t, <2>1 DEF AllInv, WriterInv, ParksForsaken
  <2> QED
    BY <1>t, <2>1, <2>2 DEF Forsaken, StateOK
<1>3. ASSUME NEW s \in Scanner, UnparkAbandon(s)
      PROVE  state'[t] = state[t] \/ (AbandonArrives(t) /\ state'[t].status = "abandoned")
  <2>1. /\ scan[s].pc = "verb" /\ scan[s].card \in Task /\ scan'[s].pc = "visit"
        /\ state' = [state EXCEPT ![scan[s].card] =
              [status |-> "abandoned", owner |-> state[scan[s].card].owner, reason |-> "none"]]
    BY <1>3, <1>t DEF UnparkAbandon, WriteState, ScanTo, ScanOK, Scan, HasCard
  <2>2. t # scan[s].card => state'[t] = state[t]
    BY <1>t, <2>1 DEF StateOK
  <2>3. t = scan[s].card => state'[t].status = "abandoned" /\ AbandonArrives(t)
    BY <1>t, <2>1 DEF StateOK, AbandonArrives
  <2> QED
    BY <2>2, <2>3
<1> QED
  BY <1>1, <1>2, <1>3, Writers DEF Terminal

(***************************************************************************)
(* A DONE card is never run, parked or reparked again: no entry, repark    *)
(* child or scan that still knows it touches it; only a maintainer's       *)
(* abandon, read while the card was parked, can arrive after the verdict.  *)
(***************************************************************************)
THEOREM DoneStays ==
  Survivors = FALSE /\ ClaimMayFail = FALSE /\ SplitReads = FALSE => (Spec => DoneIsFinal)
<1> SUFFICES ASSUME Survivors = FALSE, ClaimMayFail = FALSE, SplitReads = FALSE
             PROVE  Spec => DoneIsFinal
  OBVIOUS
<1>1. VerdictInv /\ [Next]_vars =>
        \A t \in Task : state[t].status = "done" =>
          state'[t].status = "done" \/ AbandonArrives(t)
  BY VerdictStep
<1>2. Spec => []VerdictInv
  BY VerdictAlways
<1> QED
  BY <1>1, <1>2, PTL DEF DoneIsFinal, Spec

(***************************************************************************)
(* A run is parked once: neither its worker, nor a repark child, nor a     *)
(* scan parks a card that is already parked, so the anchor a maintainer's  *)
(* reply answers stays the last one.                                       *)
(***************************************************************************)
THEOREM ParkedOnce ==
  Survivors = FALSE /\ ClaimMayFail = FALSE /\ SplitReads = FALSE => (Spec => ParkIsFinal)
<1> SUFFICES ASSUME Survivors = FALSE, ClaimMayFail = FALSE, SplitReads = FALSE
             PROVE  Spec => ParkIsFinal
  OBVIOUS
<1>1. VerdictInv /\ [Next]_vars =>
        \A t \in Task : state[t].status = "parked" /\ state'[t].status = "parked"
                        => state'[t] = state[t]
  BY VerdictStep
<1>2. Spec => []VerdictInv
  BY VerdictAlways
<1> QED
  BY <1>1, <1>2, PTL DEF ParkIsFinal, Spec

-----------------------------------------------------------------------------
(* What EveryCardSettles needs besides scheduling: at every moment an      *)
(* unsettled card is in somebody's hands.  The names on disk and in the    *)
(* tables are those of the card's own children, so that a dead owner, an   *)
(* old claim or another card's process never shields it from the scans.    *)

ChildOf(p, r, t) == p \in Pid /\ role[p] = r /\ job[p] = t

UnbornHaveNoRole == \A p \in Pid : pc[p] = "unborn" => role[p] = "none"

TablesName ==
  \A t \in Task : /\ live[t] # 0 => ChildOf(live[t], "worker", t)
                  /\ reparking[t] # 0 => ChildOf(reparking[t], "repark", t)

FilesName ==
  \A t \in Task : /\ claim[t] # 0 => ChildOf(claim[t], "repark", t)
                  /\ state[t].status = "run" => ChildOf(state[t].owner, "worker", t)

NamesInv == UnbornHaveNoRole /\ TablesName /\ FilesName

\* A step that spawns nobody: entries are dropped, a claim is a copy of the
\* table's entry, and whoever writes "run" writes its own pid.
NamesKept ==
  /\ UNCHANGED <<role, job>>
  /\ \A p \in Pid : pc'[p] = "unborn" => pc[p] = "unborn"
  /\ \A t \in Task :
       /\ live'[t] \in {live[t], 0} /\ reparking'[t] \in {reparking[t], 0}
       /\ claim'[t] \in {claim[t], reparking[t], 0}
       /\ state'[t].status = "run" =>
            state'[t] = state[t] \/ ChildOf(state'[t].owner, "worker", t)

LEMMA KeptNames == ASSUME NamesInv, NamesKept PROVE NamesInv'
BY DEF NamesInv, NamesKept, UnbornHaveNoRole, TablesName, FilesName, ChildOf

\* The new child had no role, so nothing named it before.
LEMMA SpawnedNames ==
  ASSUME Typed, NamesInv, NEW p \in Pid, NEW r \in {"worker", "repark"}, NEW t \in Task,
         Spawn(p, r, t), UNCHANGED <<claim, state>>,
         \A u \in Task : /\ live'[u] = live[u] \/ (u = t /\ r = "worker" /\ live'[u] = p)
                         /\ \/ reparking'[u] = reparking[u]
                            \/ u = t /\ r = "repark" /\ reparking'[u] = p
  PROVE  NamesInv'
<1>1. /\ pc[p] = "unborn" /\ role[p] = "none"
      /\ pc' = [pc EXCEPT ![p] = "boot"] /\ role' = [role EXCEPT ![p] = r]
      /\ job' = [job EXCEPT ![p] = t]
  BY DEF Spawn, NextPid, NamesInv, UnbornHaveNoRole
<1>2. \A q, k, u : k # "none" /\ ChildOf(q, k, u) => ChildOf(q, k, u)'
  BY <1>1 DEF ChildOf, Typed
<1>3. ChildOf(p, r, t)'
  BY <1>1 DEF ChildOf, Typed
<1>4. UnbornHaveNoRole'
  BY <1>1 DEF NamesInv, UnbornHaveNoRole, Typed
<1>5. TablesName'
  BY <1>2, <1>3 DEF NamesInv, TablesName
<1>6. FilesName'
  BY <1>2 DEF NamesInv, FilesName
<1> QED
  BY <1>4, <1>5, <1>6 DEF NamesInv

\* Only a worker writes "run", with its own pid.
LEMMA ProcNames ==
  ASSUME TypeInv, NEW p \in Pid, ProcStep(p), role[p] # "none"
  PROVE  NamesKept
<1>0. job[p] \in Task
  BY TypedFromTypeInv DEF Typed
<1>1. ProcEffect(p)
  BY ProcStepEffect
<1>2. /\ UNCHANGED <<role, job, live, reparking>>
      /\ \A q \in Pid : pc'[q] = "unborn" => pc[q] = "unborn"
  BY <1>1, TypedFromTypeInv DEF ProcEffect, Typed
<1>3. \A t \in Task : claim'[t] \in {claim[t], 0}
  <2> USE DEF TypeInv, TypeOK
  <2>1. CASE ReparkExit(p)
    BY <1>0, <2>1 DEF ReparkExit
  <2>2. CASE ~ReparkExit(p)
    BY <2>2 DEF ProcStep, RunStep, WorkerBoot, WorkerHop, WorkerDone, WorkerPark, WorkerParkWrite,
                WorkerAnchor, WorkerRetry, WorkerExit, ReparkBoot, ReparkWrite, ReparkAnchor,
                ChildCrash, disk
  <2> QED
    BY <2>1, <2>2
<1>4. \A t \in Task : state'[t].status = "run" =>
        state'[t] = state[t] \/ ChildOf(state'[t].owner, "worker", t)
  <2> USE DEF WriteState, TypeInv, TypeOK
  <2>1. CASE WorkerBoot(p) \/ WorkerHop(p)
    BY <1>0, <1>2, <2>1 DEF WorkerBoot, WorkerHop, Worker, ChildOf
  <2>2. CASE WorkerDone(p) \/ WorkerParkWrite(p) \/ ReparkWrite(p)
    BY <1>0, <2>2 DEF WorkerDone, WorkerParkWrite, ReparkWrite
  <2>3. CASE state' = state
    BY <2>3
  <2> QED
    BY <2>1, <2>2, <2>3
       DEF ProcStep, RunStep, WorkerPark, WorkerAnchor, WorkerRetry, WorkerExit, ReparkBoot,
           ReparkAnchor, ReparkExit, ChildCrash, disk
<1> QED
  BY <1>2, <1>3, <1>4 DEF NamesKept

\* A scan writes no "run" and clears claims only.
LEMMA ScanNames ==
  ASSUME TypeInv, NEW s \in Scanner, ScanStep(s)
  PROVE  NamesKept
<1>1. ScanEffect(s)
  BY ScanStepEffect
<1>2. \A t \in Task : claim'[t] \in {claim[t], 0}
  <2> USE DEF TypeInv, TypeOK
  <2>1. ASSUME NEW t \in Task, ScanVisit(s, t) PROVE \A u \in Task : claim'[u] \in {claim[u], 0}
    BY <2>1 DEF ScanVisit
  <2>2. CASE claim' = claim
    BY <2>2
  <2> QED
    BY <2>1, <2>2
       DEF ScanStep, OrphanStep, UnparkStep, ScanQueue, ScanLive, ScanPark, ScanAnchor, ScanEnd,
           UnparkRead, UnparkRetry, UnparkRetryEvent, UnparkAbandon, disk
<1>3. \A t \in Task : state'[t].status = "run" => state'[t] = state[t]
  <2> USE DEF WriteState, TypeInv, TypeOK
  <2>1. CASE ScanPark(s)
    BY <2>1 DEF ScanPark, Assigned
  <2>2. CASE UnparkAbandon(s)
    BY <2>2 DEF UnparkAbandon, Assigned
  <2>3. CASE state' = state
    BY <2>3
  <2> QED
    BY <2>1, <2>2, <2>3
       DEF ScanStep, OrphanStep, UnparkStep, ScanQueue, ScanLive, ScanVisit, ScanAnchor, ScanEnd,
           UnparkRead, UnparkRetry, UnparkRetryEvent, disk
<1> QED
  BY <1>1, <1>2, <1>3 DEF ScanEffect, NamesKept

LEMMA NextNames == ASSUME TypeInv, NamesInv, [Next]_vars PROVE NamesInv'
<1>t. Typed
  BY TypedFromTypeInv
<1>s. \A q \in Pid : pc[q] # "unborn" \/ role[q] = "none"
  BY DEF NamesInv, UnbornHaveNoRole
<1> USE DEF procs, disk, memory, breakers, bounds
<1>1. ASSUME UNCHANGED <<pc, role, job, live, reparking, claim, state>> PROVE NamesInv'
  BY <1>1, KeptNames DEF NamesKept
<1>2. ASSUME NEW t \in Task, IntakeFile(t) \/ Age(t) PROVE NamesInv'
  BY <1>1, <1>2 DEF IntakeFile, Age
<1>3. CASE DaemonStart \/ DispatcherRun \/ Publish \/ ScannerCrash
  BY <1>1, <1>3 DEF DaemonStart, DispatcherRun, Publish, ScannerCrash
<1>4. CASE Take
  BY <1>1, <1>4 DEF Take, RefuseDuplicate, ClaimEntry
<1>5. ASSUME NEW p \in Pid, SpawnWorker(p) PROVE NamesInv'
  <2>1. /\ cur \in Task /\ Spawn(p, "worker", cur) /\ UNCHANGED <<claim, state, reparking>>
        /\ live' = [live EXCEPT ![cur] = p]
    BY <1>t, <1>5 DEF SpawnWorker, Typed
  <2>2. \A u \in Task : live'[u] = live[u] \/ (u = cur /\ live'[u] = p)
    BY <1>t, <2>1 DEF Typed
  <2> QED
    BY <1>t, <2>1, <2>2, SpawnedNames
<1>6. ASSUME NEW t \in Task, NEW p \in Pid, SpawnRepark(t, p) PROVE NamesInv'
  <2>1. /\ Spawn(p, "repark", t) /\ UNCHANGED <<claim, state, live>>
        /\ reparking' = [reparking EXCEPT ![t] = p]
    BY <1>6 DEF SpawnRepark
  <2>2. \A u \in Task : reparking'[u] = reparking[u] \/ (u = t /\ reparking'[u] = p)
    BY <1>t, <2>1 DEF Typed
  <2> QED
    BY <1>t, <2>1, <2>2, SpawnedNames
<1>7. CASE WriteClaim
  BY <1>t, <1>7, KeptNames DEF WriteClaim, NamesKept, Typed
<1>8. CASE WriteClaimFails
  BY <1>t, <1>8, KeptNames DEF WriteClaimFails, NamesKept, Typed
<1>9. CASE Unlist
  BY <1>t, <1>9, KeptNames DEF Unlist, NamesKept, Typed
<1>10. ASSUME NEW t \in Task, ReapWorker(t) \/ ReapRepark(t) PROVE NamesInv'
  BY <1>t, <1>10, KeptNames DEF ReapWorker, ReapRepark, NamesKept, Typed
<1>11. ASSUME NEW t \in Task, SpawnReparkFails(t) PROVE NamesInv'
  BY <1>1, <1>11 DEF SpawnReparkFails
<1>12. CASE Shutdown
  <2>1. CASE Escalate
    BY <1>t, <2>1, KeptNames DEF Escalate, NamesKept, Typed, Alive
  <2> QED
    BY <1>1, <1>12, <2>1 DEF Shutdown, RequestDrain, DrainTimeout, DispatcherExit
<1>13. CASE DaemonCrash
  BY <1>t, <1>13, KeptNames DEF DaemonCrash, NamesKept, Typed, Alive
<1>14. ASSUME NEW p \in Pid, ProcStep(p) PROVE NamesInv'
  <2>1. CASE role[p] # "none"
    BY <1>14, <2>1, ProcNames, KeptNames
  <2>2. CASE role[p] = "none"
    <3>1. ChildCrash(p)
      BY <1>14, <2>2
         DEF ProcStep, RunStep, WorkerBoot, WorkerHop, WorkerDone, WorkerPark, WorkerParkWrite,
             WorkerAnchor, WorkerRetry, WorkerExit, ReparkBoot, ReparkWrite, ReparkAnchor,
             ReparkExit, Worker, Repark
    <3> QED
      BY <1>t, <3>1, KeptNames DEF ChildCrash, Goto, NamesKept, Typed
  <2> QED
    BY <2>1, <2>2
<1>15. ASSUME NEW s \in Scanner, ScanStep(s) PROVE NamesInv'
  BY <1>15, ScanNames, KeptNames
<1>16. CASE UNCHANGED vars
  BY <1>1, <1>16 DEF vars
<1> QED
  BY <1>2, <1>3, <1>4, <1>5, <1>6, <1>7, <1>8, <1>9, <1>10, <1>11, <1>12, <1>13, <1>14, <1>15,
     <1>16
     DEF Next, Started, Reap, ProcStep, ScanStep

LEMMA NamesAlways == Spec => [](TypeInv /\ NamesInv)
<1>1. Init => NamesInv
  BY DEF Init, NamesInv, UnbornHaveNoRole, TablesName, FilesName
<1>2. TypeInv /\ NamesInv /\ [Next]_vars => (TypeInv /\ NamesInv)'
  BY NextTypeInv, NextNames
<1> QED
  BY <1>1, <1>2, InitTypeInv, PTL DEF Spec

\* A child of the card is in the dispatcher's tables: its exit will be reaped,
\* and after it died the card is left to the scan.
Attended(t) ==
  \E p \in Pid : p \in {live[t], reparking[t]} /\ job[p] = t /\ role[p] # "none"

\* Neither the owner of its state.json, nor its claim, nor live-workers.json
\* (which the startup scan does not read) keeps the card from the next scan.
LeftToTheScan(t) ==
  OwnerGone(t) /\ ~ClaimHeld(t) /\ (Running => t \notin liveFile)

\* A card without a verdict is in queue/, just claimed, attended to, or found by
\* the next scan as soon as its grace is over.
NobodyIsForgotten ==
  \A t \in Task : Unsettled(t) =>
    \/ Queued(t)
    \/ at = "claimed" /\ cur = t
    \/ Attended(t)
    \/ LeftToTheScan(t)

(***************************************************************************)
(* No card is ever forgotten: whatever worker, repark child, scanner or    *)
(* daemon died between two writes, an unsettled card has an entry, a child *)
(* the dispatcher waits for, or nothing on disk that would make the orphan *)
(* scan pass it over (orphan-scan.js decides by those files alone).        *)
(***************************************************************************)
THEOREM NoCardIsForgotten ==
  Survivors = FALSE /\ ClaimMayFail = FALSE => (Spec => []NobodyIsForgotten)
<1> SUFFICES ASSUME Survivors = FALSE, ClaimMayFail = FALSE
             PROVE  Spec => []NobodyIsForgotten
  OBVIOUS
<1>1. DispatchInv /\ NamesInv => NobodyIsForgotten
  <2> SUFFICES ASSUME DispatchInv, NamesInv, NEW t \in Task, Unsettled(t),
                      ~Queued(t), ~(at = "claimed" /\ cur = t), ~Attended(t)
               PROVE  LeftToTheScan(t)
    BY DEF NobodyIsForgotten
  <2>1. live[t] = 0 /\ reparking[t] = 0
    BY DEF NamesInv, TablesName, ChildOf, Attended
  <2>2. \A p \in Pid : Alive(p) => job[p] # t
    BY <2>1, CardDispatchAssumption DEF DispatchInv, HandOverInv, Tracked, Pid
  <2>3. state[t].status \in {"none", "run"}
    BY DEF Unsettled, Terminal, DispatchInv, TypeInv, TypeOK, StateJson, Status
  <2>4. OwnerGone(t)
    BY <2>2, <2>3 DEF OwnerGone, NamesInv, FilesName, ChildOf
  <2>5. ~ClaimHeld(t)
    <3>1. CASE claim[t] = 0
      BY <3>1, CardDispatchAssumption DEF ClaimHeld, Alive, Pid
    <3>2. CASE claim[t] # 0
      BY <2>2, <3>2 DEF ClaimHeld, NamesInv, FilesName, ChildOf
    <3> QED
      BY <3>1, <3>2
  <2>6. Running => t \notin liveFile
    BY <2>1 DEF DispatchInv, HandOverInv, LiveFileIsTable, LiveIds
  <2> QED
    BY <2>4, <2>5, <2>6 DEF LeftToTheScan
<1>2. Spec => []DispatchInv
  BY HandOverAlways
<1> QED
  BY <1>1, <1>2, NamesAlways, PTL
=============================================================================
