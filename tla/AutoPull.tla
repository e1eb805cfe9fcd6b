------------------------------ MODULE AutoPull ------------------------------
(***************************************************************************)
(* How cards come off the product board into queue/ (auto-pull.js,         *)
(* intake.js pullBoard and makeTask, first-call-model.js).                 *)
(*                                                                         *)
(* The scanner pulls on a timer, under a ceiling on the cards off the      *)
(* board that it computes from two files other processes write meanwhile:  *)
(* queue/, which the dispatcher takes entries out of and workers put their *)
(* waits into, and live-workers.json, which the dispatcher publishes       *)
(* later.  Each reading and each call to GitHub is a point where the other *)
(* processes can act.  The scanner's own scans run between two pulls       *)
(* (runScanCycle): they put back parked cards a maintainer answered, and   *)
(* orphans whose PR still waits to merge.                                  *)
(*                                                                         *)
(* An issue is its rank on the board.  One that has a journal directory    *)
(* may still be listed there: it is skipped.                               *)
(***************************************************************************)
EXTENDS Integers, FiniteSets, Sequences

CONSTANTS
  MaxIssue,   \* bound: issues on the board
  Workers,    \* config.workers
  PerCycle,   \* config.autoPullLimit
  MaxMoves,   \* MAX_REFUSAL_MOVES_PER_CYCLE
  MaxWaits,   \* bound: pool waits and transient retries of all cards
  MaxReturns, \* bound: cards a scan puts back into queue/
  MaxCools,   \* bound: times a model runs out of accounts
  MaxFaults   \* bound: deaths of a process, failed calls

Issue == 1..MaxIssue

ASSUME AutoPullAssumption ==
  /\ {MaxIssue, Workers} \subseteq Nat \ {0}
  /\ {PerCycle, MaxMoves, MaxWaits, MaxReturns, MaxCools, MaxFaults} \subseteq Nat

VARIABLES
  \* GitHub
  todo,       \* issues board:claim lists
  kind,       \* what the gates of makeTask find in an issue
  comments,   \* refusal comments of an issue
  \* disk
  fresh,      \* entries of an issue in queue/ that makeTask wrote
  again,      \* its entry of reEnqueueTask, by the first call it makes
  deferred,   \* the notBefore of that entry has not passed
  journaled,  \* journal/<id> exists
  over,       \* state.json is DONE or ABANDONED
  liveFile,   \* live-workers.json
  refused,    \* daemon.jsonl: auto-pull-refused-untrusted-author
  standing,   \* daemon.jsonl: an auto-pull-failed without a recovery
  \* memory
  claimed,    \* the card taken from queue/ and not yet published, or 0
  live,       \* the dispatcher's table
  leaving,    \* workers that are done and not yet out of the table
  pull,       \* the scanner: where it is, its slots, the candidates left, its moves
  \* the accounts
  cool,       \* first calls no account can serve: of a fresh card, of a resumed one
  \* history and bounds
  pulled,     \* times an issue was enqueued
  missed,     \* issues whose entry was taken between two readings of a pull
  waits, returns, cools, faults

board == <<todo, kind>>
entries == <<fresh, again, deferred>>
cards == <<entries, journaled, over>>
slots == <<claimed, live, leaving, liveFile>>
history == <<pulled, missed>>
bounds == <<waits, returns, cools, faults>>
vars == <<board, comments, cards, slots, refused, standing, pull, cool, history, bounds>>

-----------------------------------------------------------------------------
FirstCall == {"fresh", "resumed"}
\* A raw report carries config.reportIntakeLabel, an outsider's author is not
\* in config.trustedIssueAuthors, an edited one's editor is not, and the last
\* editor of a gone one has no account any more.
Kind == {"trusted", "raw", "outsider", "edited", "gone"}
Idle == [pc |-> "idle", runnable |-> 0, held |-> 0, slots |-> 0, left |-> {}, moves |-> 0]
Pull == [pc : {"idle", "count", "board", "walk", "queue", "fetch", "editors", "write",
               "refuse", "move", "record"},
         runnable : 0..MaxIssue, held : 0..MaxIssue, slots : 0..PerCycle,
         left : SUBSET Issue, moves : 0..MaxMoves]

TypeOK ==
  /\ todo \subseteq Issue /\ kind \in [Issue -> Kind]
  /\ comments \in [Issue -> Nat] /\ pulled \in [Issue -> Nat]
  /\ fresh \in [Issue -> 0..2] /\ again \in [Issue -> FirstCall \cup {"none"}]
  /\ UNION {deferred, journaled, over, live, leaving, liveFile, refused, missed} \subseteq Issue
  /\ claimed \in 0..MaxIssue
  /\ standing \in BOOLEAN /\ cool \subseteq FirstCall
  /\ pull \in Pull
  /\ waits \in 0..MaxWaits /\ returns \in 0..MaxReturns
  /\ cools \in 0..MaxCools /\ faults \in 0..MaxFaults

Init ==
  /\ todo = Issue
  /\ \E top \in {<<>>, <<"outsider", "edited", "raw">>, <<"gone">>} :
       kind = [i \in Issue |-> IF i <= Len(top) THEN top[i] ELSE "trusted"]
  /\ comments = [i \in Issue |-> 0]
  /\ fresh = [i \in Issue |-> 0] /\ again = [i \in Issue |-> "none"] /\ deferred = {}
  /\ journaled = {} /\ over = {} /\ liveFile = {} /\ refused = {} /\ standing = FALSE
  /\ claimed = 0 /\ live = {} /\ leaving = {}
  /\ pull = Idle
  /\ cool = {} /\ pulled = [i \in Issue |-> 0] /\ missed = {}
  /\ waits = 0 /\ returns = 0 /\ cools = 0 /\ faults = 0

\* queuedIds
Queued == {i \in Issue : fresh[i] > 0 \/ again[i] # "none"}
Due(i) == again[i] # "none" /\ i \notin deferred

Fault == faults < MaxFaults /\ faults' = faults + 1

-----------------------------------------------------------------------------
(* Everybody else.                                                         *)

Current == CHOOSE i \in pull.left : \A j \in pull.left : i <= j

\* takeNextTask: a due entry of a card no worker has, whose first call an
\* account can serve; its rename makes journal/<id>.
TakeFresh(i) == fresh[i] > 0 /\ fresh' = [fresh EXCEPT ![i] = @ - 1] /\ UNCHANGED again
TakeAgain(i) == Due(i) /\ again' = [again EXCEPT ![i] = "none"] /\ UNCHANGED fresh
Claim(i) ==
  /\ claimed = 0 /\ Cardinality(live) < Workers /\ i \notin live
  /\ \/ /\ i \notin over
        /\ ("fresh" \notin cool /\ TakeFresh(i)) \/ (again[i] \notin cool /\ TakeAgain(i))
        /\ claimed' = i /\ journaled' = journaled \cup {i}
        /\ missed' = IF pull.pc = "queue" /\ i = Current THEN missed \cup {i} ELSE missed
     \/ /\ i \in over /\ UNCHANGED <<claimed, journaled, missed>>   \* refuseDuplicateQueueEntry
        /\ TakeFresh(i) \/ TakeAgain(i)
  /\ UNCHANGED <<board, comments, deferred, over, live, leaving, liveFile, refused, standing,
                 pull, cool, pulled, bounds>>

\* spawnOne, publishLiveWorkerIds.
Publish ==
  /\ claimed # 0 /\ claimed' = 0
  /\ live' = live \cup {claimed} /\ liveFile' = liveFile \cup {claimed}
  /\ UNCHANGED <<board, comments, cards, leaving, refused, standing, pull, cool, history, bounds>>

\* finalizePark: a card waits in queue/, for the pool or for a transient
\* failure to pass, to resume or to begin again; its worker exits ...
Waits(i) ==
  /\ i \in live \ leaving /\ waits < MaxWaits /\ waits' = waits + 1
  /\ \E m \in FirstCall : again' = [again EXCEPT ![i] = m]
  /\ deferred' = deferred \cup {i} /\ leaving' = leaving \cup {i}
  /\ UNCHANGED <<board, comments, fresh, journaled, over, claimed, live, liveFile, refused,
                 standing, pull, cool, history, returns, cools, faults>>

\* ... or the card is parked, or over.
Settles(i) ==
  /\ i \in live \ leaving
  /\ over' \in {over, over \cup {i}} /\ leaving' = leaving \cup {i}
  /\ UNCHANGED <<board, comments, entries, journaled, claimed, live, liveFile, refused, standing,
                 pull, cool, history, bounds>>

\* handleExit
Unlist(i) ==
  /\ i \in leaving /\ leaving' = leaving \ {i}
  /\ live' = live \ {i} /\ liveFile' = live \ {i}
  /\ UNCHANGED <<board, comments, cards, claimed, refused, standing, pull, cool, history, bounds>>

\* isQueueEntryEligibleNow: notBefore passes.
ComesDue(i) ==
  /\ i \in deferred /\ deferred' = deferred \ {i}
  /\ UNCHANGED <<board, comments, fresh, again, journaled, over, slots, refused, standing, pull,
                 cool, history, bounds>>

\* The scanner's other scans: a parked card answered `retry` or `continue`, or
\* an orphan whose PR waits to merge, is due at once.  They ask no ceiling.
Returns(i) ==
  /\ pull.pc = "idle" /\ returns < MaxReturns /\ returns' = returns + 1
  /\ i \in journaled \ over /\ i \notin Queued /\ i # claimed /\ i \notin live \ leaving
  /\ \E m \in FirstCall : again' = [again EXCEPT ![i] = m]
  /\ UNCHANGED <<board, comments, fresh, deferred, journaled, over, slots, refused, standing,
                 pull, cool, history, waits, cools, faults>>

\* servableFor: the accounts of a model run out, and come back.
Cools(m) ==
  /\ m \notin cool /\ cools < MaxCools /\ cools' = cools + 1 /\ cool' = cool \cup {m}
  /\ UNCHANGED <<board, comments, cards, slots, refused, standing, pull, history, waits, returns,
                 faults>>
Heals ==
  /\ cool # {} /\ cool' = {}
  /\ UNCHANGED <<board, comments, cards, slots, refused, standing, pull, history, bounds>>

\* The daemon dies with its children and starts again: run() publishes the
\* empty table before it spawns the scanner; the orphan scan parks the cards of
\* the dead workers, or returns them.
Restart ==
  /\ Fault
  /\ claimed' = 0 /\ live' = {} /\ leaving' = {} /\ liveFile' = {}
  /\ pull' = Idle
  /\ UNCHANGED <<board, comments, cards, refused, standing, cool, history, waits, returns, cools>>

-----------------------------------------------------------------------------
(* The budget (computeAutoPullBudget).                                     *)

\* countQueuedByEligibility: an issue with several entries counts once, by the
\* most runnable one.
Runnable ==
  {i \in Issue : \/ fresh[i] > 0 /\ "fresh" \notin cool
                 \/ Due(i) /\ again[i] \notin cool}

\* queue/ is read first ...
Count ==
  /\ pull.pc = "idle"
  /\ pull' = [Idle EXCEPT !.pc = "count", !.runnable = Cardinality(Runnable),
                          !.held = Cardinality(Queued \ Runnable)]
  /\ UNCHANGED <<board, comments, cards, slots, refused, standing, cool, history, bounds>>

\* ... and live-workers.json second: runnable cards against config.workers,
\* all cards off the board against twice as many.
Least(a, b) == IF a < b THEN a ELSE b
Headroom_RunnableOnly(runnable, held, inFlight) == Workers - runnable - inFlight
Headroom(runnable, held, inFlight) ==
  Least(Workers - runnable - inFlight, 2 * Workers - runnable - held - inFlight)
Limit ==
  LET room == Headroom(pull.runnable, pull.held, Cardinality(liveFile))
  IN IF "fresh" \in cool \/ room <= 0 THEN 0 ELSE Least(PerCycle, room)

Budget ==
  /\ pull.pc = "count"
  /\ pull' = IF Limit = 0 THEN Idle
             ELSE [Idle EXCEPT !.pc = "board", !.slots = Limit, !.moves = MaxMoves]
  /\ UNCHANGED <<board, comments, cards, slots, refused, standing, cool, history, bounds>>

-----------------------------------------------------------------------------
(* The board and the walk.                                                 *)

Now(at) == pull' = [pull EXCEPT !.pc = at]

\* pullBoard: npm run board:claim.  Its failure is journaled once, until a
\* pull succeeds.
Board ==
  /\ pull.pc = "board"
  /\ \/ pull' = [pull EXCEPT !.pc = "walk", !.left = todo]
        /\ UNCHANGED <<standing, faults>>
     \/ Fault /\ standing' = TRUE /\ pull' = Idle
  /\ UNCHANGED <<board, comments, cards, slots, refused, cool, history, waits, returns, cools>>

Walks == pull.pc = "walk" /\ pull.slots > 0 /\ pull.left # {}

\* The walk goes on: a skipped or a refused candidate uses no slot.
Skip == pull' = [pull EXCEPT !.pc = "walk", !.left = @ \ {Current}]
Spend ==
  pull' = [pull EXCEPT !.pc = "walk", !.left = @ \ {Current}, !.slots = @ - 1]
PassOver_Spends == Spend
PassOver == Skip

\* taskAlreadyExists reads journal/ ...
Exists_JournalUnread ==
  /\ Walks /\ Now("queue")
  /\ UNCHANGED <<board, comments, cards, slots, refused, standing, cool, history, bounds>>
Exists ==
  /\ Walks
  /\ IF Current \in journaled THEN Skip ELSE Now("queue")
  /\ UNCHANGED <<board, comments, cards, slots, refused, standing, cool, history, bounds>>

\* ... and then queue/: the dispatcher may take the entry in between.
InQueue ==
  /\ pull.pc = "queue"
  /\ IF Current \in Queued THEN Skip ELSE Now("fetch")
  /\ UNCHANGED <<board, comments, cards, slots, refused, standing, cool, history, bounds>>

\* A call to GitHub fails or times out, or its reply is no answer: the
\* candidate is an error of this cycle, which uses a slot.
Fails ==
  /\ pull.pc \in {"fetch", "editors"} /\ Fault /\ Spend
  /\ UNCHANGED <<board, comments, cards, slots, refused, standing, cool, history, waits, returns, cools>>

\* gh api issues/<n>: the label and the author.
Fetch ==
  /\ pull.pc = "fetch"
  /\ \/ kind[Current] = "raw" /\ Skip
     \/ kind[Current] = "outsider" /\ Now("refuse")
     \/ kind[Current] \notin {"raw", "outsider"} /\ Now("editors")
  /\ UNCHANGED <<board, comments, cards, slots, refused, standing, cool, history, bounds>>

\* readIssueEditors, checkIssueTrust: a deleted account is undecidable.
Editors ==
  /\ pull.pc = "editors"
  /\ \/ kind[Current] = "trusted" /\ Now("write")
     \/ kind[Current] = "edited" /\ Now("refuse")
     \/ kind[Current] = "gone" /\ Spend
  /\ UNCHANGED <<board, comments, cards, slots, refused, standing, cool, history, bounds>>

\* nextQueueSeq, writeFileSync: nothing is checked again.
Write ==
  /\ pull.pc = "write"
  /\ fresh' = [fresh EXCEPT ![Current] = @ + 1]
  /\ pulled' = [pulled EXCEPT ![Current] = @ + 1]
  /\ Spend
  /\ UNCHANGED <<board, comments, again, deferred, journaled, over, slots, refused, standing, cool,
                 missed, bounds>>

\* applyTrustRefusal: a first refusal comments (or fails to) ...
Refuse ==
  /\ pull.pc = "refuse"
  /\ \/ Current \notin refused
        /\ comments' = [comments EXCEPT ![Current] = @ + 1]
     \/ UNCHANGED comments
  /\ Now("move")
  /\ UNCHANGED <<board, cards, slots, refused, standing, cool, history, bounds>>

\* ... the issue is moved to Parked, unless the moves of the cycle are spent or
\* the move fails, however often ...
Move ==
  /\ pull.pc = "move"
  /\ \/ /\ pull.moves > 0
        /\ pull' = [pull EXCEPT !.pc = "record", !.moves = @ - 1]
        /\ todo' \in {todo, todo \ {Current}}
     \/ pull.moves = 0 /\ Now("record") /\ UNCHANGED todo
  /\ UNCHANGED <<kind, comments, cards, slots, refused, standing, cool, history, bounds>>

\* ... and a first refusal is journaled, which ends the comments; an append
\* that fails is swallowed.
Record_IfMoved ==
  /\ pull.pc = "record"
  /\ refused' = IF Current \in todo THEN refused ELSE refused \cup {Current}
  /\ PassOver
  /\ UNCHANGED <<board, comments, cards, slots, standing, cool, history, bounds>>
Record ==
  /\ pull.pc = "record"
  /\ \/ refused' = refused \cup {Current} /\ UNCHANGED faults
     \/ Fault /\ UNCHANGED refused
  /\ PassOver
  /\ UNCHANGED <<board, comments, cards, slots, standing, cool, history, waits, returns, cools>>

\* The walk is over: journalAutoPullRecovery.
Done_IfEnqueued ==
  /\ pull.pc = "walk" /\ ~Walks
  /\ standing' = (standing /\ pull.slots > 0)
  /\ pull' = Idle
  /\ UNCHANGED <<board, comments, cards, slots, refused, cool, history, bounds>>
Done ==
  /\ pull.pc = "walk" /\ ~Walks
  /\ standing' = FALSE
  /\ pull' = Idle
  /\ UNCHANGED <<board, comments, cards, slots, refused, cool, history, bounds>>

\* The scanner dies; the dispatcher starts it again.
Dies ==
  /\ pull.pc # "idle" /\ Fault /\ pull' = Idle
  /\ UNCHANGED <<board, comments, cards, slots, refused, standing, cool, history, waits, returns, cools>>

-----------------------------------------------------------------------------
Scanner ==
  \/ Count \/ Budget \/ Board
  \/ Exists \/ InQueue \/ Fetch \/ Editors \/ Write \/ Refuse \/ Move \/ Record \/ Done
Others ==
  \/ Publish \/ Heals
  \/ \E i \in Issue : Claim(i) \/ Waits(i) \/ Settles(i) \/ Unlist(i) \/ ComesDue(i)

Next ==
  \/ Scanner \/ Others
  \/ Fails \/ Dies \/ Restart
  \/ \E m \in FirstCall : Cools(m)
  \/ \E i \in Issue : Returns(i)

Spec == Init /\ [][Next]_vars

\* The timers tick, the dispatcher polls, workers end, waits and cooldowns
\* expire.  GitHub owes nothing: a comment or a move may fail for ever.
FairSpec == Spec /\ WF_vars(Scanner) /\ WF_vars(Others)

-----------------------------------------------------------------------------
(* Properties.                                                             *)

OffBoard == {i \in Issue : i \in Queued \/ i = claimed \/ i \in live \ leaving}

\* No card is pulled past the ceiling on the cards off the board, whatever the
\* waits and the scans put into queue/ themselves.  Each count misses the cards
\* that were neither queued when queue/ was read nor published when
\* live-workers.json was: that is one per worker over two per worker.
NeverPulledPast == [][Write => Cardinality(OffBoard') <= 3 * Workers]_vars

\* An issue is enqueued once, whatever became of its card since and whichever
\* process died, unless its entry was taken between the two readings that look
\* for it: then once more.
PulledOnce == \A i \in Issue : pulled[i] <= IF i \in missed THEN 2 ELSE 1

\* A refused issue that stays in Todo is not commented on every cycle, but for
\* a death between the comment and its event, or an event that is not written.
CommentedOnce == \A i \in Issue : comments[i] <= 1 + faults

Known(i) == i \in Queued \/ i \in journaled
Trusted(i) == i \in todo /\ kind[i] = "trusted"
Undecidable(i) == i \in todo /\ kind[i] = "gone"

\* Every trusted issue is pulled in the end, however many refused ones stay
\* above it; only one that cannot be decided may keep it waiting.
TrustedAreReached ==
  []<>(\A i \in Issue : Trusted(i) => Known(i) \/ \E j \in 1..i - 1 : Undecidable(j))

\* A failure that spo status shows goes away when the board is read again.
OutageEnds == []<>~standing
=============================================================================
