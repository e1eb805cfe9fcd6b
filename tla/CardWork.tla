------------------------------ MODULE CardWork ------------------------------
(***************************************************************************)
(* The work of one card, in git: its worktree, its branch claude-pipe/<id> *)
(* here and on origin, its wip/<id>-* refs and its pull request, over the  *)
(* card's runs (orchestrator/steps/scripted.js: realWorktree with its      *)
(* leftover sweep, preserveWorktreeWip, prepareResume, realPushPr,         *)
(* realMerge, realFinish; abandonCleanup in park-loop.js).                 *)
(*                                                                         *)
(* A commit is the set of edits its history holds: one commit is the       *)
(* ancestor of another when it is a subset.  Every command may fail, and   *)
(* one sent to GitHub may fail after it took effect; the process may die   *)
(* between two commands.                                                   *)
(***************************************************************************)
EXTENDS Naturals, FiniteSets

CONSTANTS
  Edit,       \* the edits a card's steps may write
  NoRef,      \* a ref that does not exist
  MaxFaults,  \* bound: commands that fail
  MaxCrashes, \* bound: deaths of the process that works on the card
  MaxRuns     \* bound: runs of the card

ASSUME CardWorkAssumption ==
  /\ \A c \in SUBSET Edit : c # NoRef
  /\ {MaxFaults, MaxCrashes, MaxRuns} \subseteq Nat

VARIABLES
  tree,      \* the worktree exists
  onBranch,  \* its HEAD is the branch
  dirt,      \* its uncommitted edits
  tip,       \* its HEAD, while detached
  branch,    \* refs/heads/claude-pipe/<id>
  tracked,   \* refs/remotes/origin/claude-pipe/<id>
  main,      \* refs/remotes/origin/main
  remote,    \* the branch on origin
  landed,    \* main on origin
  wips,      \* the wip refs, here and on origin
  pr,        \* the pull request of the branch
  at,        \* the next command of the run or of the scanner
  kind,      \* how the run starts
  known,     \* what state.json records of "wt", "pr", and that MERGE was reached
  saving,    \* who called preserveWorktreeWip: the sweep, or a park
  reattach,  \* ctx.wipReattachBranch
  made,      \* every edit a run wrote
  mine,      \* those since the last worktree add
  cut,       \* a preservation ended between its commit and its push
  faults, crashes, runs

treeVars == <<tree, onBranch, dirt, tip>>
refVars == <<branch, tracked, main, remote, landed, wips, pr>>
workVars == <<made, mine, cut>>
countVars == <<faults, crashes, runs>>
runVars == <<at, kind, known, saving, reattach>>
vars == <<treeVars, refVars, workVars, countVars, runVars>>

Commit == SUBSET Edit
Ref == {NoRef} \cup Commit
Working == {"work", "commit", "pushing", "openPr", "gate", "merge", "wait", "finish"}
Sweeping == {"fetch", "tree", "local", "remote", "keep", "prs", "drop", "add", "claim"}
Saving == {"detach", "wip", "save", "reattach", "record"}
Abandoning == {"abPr", "abTree", "abLocal", "abRemote", "abDrop"}
Running == Working \cup Sweeping \cup Saving \cup {"resume", "orphan"}
Steps == Running \cup Abandoning \cup {"queued", "dead", "parked", "abandoned", "done"}

TypeOK ==
  /\ tree \in BOOLEAN /\ onBranch \in BOOLEAN /\ dirt \in Commit /\ tip \in Commit
  /\ ~tree => onBranch /\ dirt = {} /\ tip = {}
  /\ tree => branch # NoRef
  /\ branch \in Ref /\ tracked \in Ref /\ remote \in Ref
  /\ main \in Commit /\ landed \in Commit /\ wips \subseteq Commit
  /\ pr \in {"none", "open", "queued", "merged", "closed"}
  /\ at \in Steps /\ kind \in {"fresh", "continue", "machine", "merge"}
  /\ known \subseteq {"wt", "pr", "merge"}
  /\ saving \in {"sweep", "park"} /\ reattach \in BOOLEAN
  /\ made \in Commit /\ mine \subseteq made /\ cut \in BOOLEAN
  /\ faults \in 0..MaxFaults /\ crashes \in 0..MaxCrashes /\ runs \in 0..MaxRuns

Init ==
  /\ tree = FALSE /\ onBranch = TRUE /\ dirt = {} /\ tip = {}
  /\ branch = NoRef /\ tracked = NoRef /\ remote = NoRef
  /\ main = {} /\ landed = {} /\ wips = {} /\ pr = "none"
  /\ at = "queued" /\ kind = "fresh" /\ known = {} /\ saving = "park" /\ reattach = FALSE
  /\ made = {} /\ mine = {} /\ cut = FALSE
  /\ faults = 0 /\ crashes = 0 /\ runs = 0

-----------------------------------------------------------------------------
Contents(r) == IF r = NoRef THEN {} ELSE r
Head == IF onBranch THEN branch ELSE tip
PrOpen == pr \in {"open", "queued"}
Fetched == IF remote # NoRef THEN remote ELSE tracked   \* no --prune

Fault == faults < MaxFaults /\ faults' = faults + 1
Goto(l) == at' = l /\ UNCHANGED <<kind, known, saving, reattach>>

\* finalizePark: a tree it knows of and finds dirty is preserved first.
ParkKnowing(knows) ==
  /\ at' = IF knows /\ tree /\ dirt # {} THEN "detach" ELSE "record"
  /\ saving' = "park" /\ UNCHANGED <<kind, known, reattach>>
Park == ParkKnowing("wt" \in known)

\* A command that did nothing, or was not even sent: the step parks.
FailsAt(l) ==
  /\ at = l /\ Fault /\ Park
  /\ UNCHANGED <<treeVars, refVars, workVars, crashes, runs>>

-----------------------------------------------------------------------------
(* preserveWorktreeWip, called by the sweep and by finalizePark.           *)

Detach ==
  /\ at = "detach"
  /\ onBranch' = FALSE /\ tip' = Head /\ Goto("save")
  /\ UNCHANGED <<tree, dirt, refVars, workVars, countVars>>

CommitWip ==
  /\ at = "save"
  /\ tip' = tip \cup dirt /\ dirt' = {} /\ Goto("wip")
  /\ UNCHANGED <<tree, onBranch, refVars, workVars, countVars>>

\* What follows a preservation that worked.
Saved == at' = (IF saving = "sweep" THEN "tree" ELSE IF reattach THEN "reattach" ELSE "record")

PushWip ==
  /\ at = "wip"
  /\ wips' = wips \cup {tip} /\ Saved
  /\ UNCHANGED <<kind, known, saving, reattach, treeVars, branch, tracked, main, remote, landed, pr,
                 workVars, countVars>>

\* null: the sweep parks worktree-dirty-leftover, which names the tree, so that the
\* park tries again on what is still dirty; a park goes on without.
PreserveFails ==
  /\ at \in {"detach", "save", "wip"} /\ Fault
  /\ IF saving = "sweep" THEN ParkKnowing(TRUE) ELSE Goto("record")
  /\ cut' = (cut \/ at = "wip")
  /\ \/ UNCHANGED wips
     \/ at = "wip" /\ wips' = wips \cup {tip}
  /\ UNCHANGED <<treeVars, branch, tracked, main, remote, landed, pr, made, mine, crashes, runs>>

\* reattachWorktreeBranch; a failed checkout leaves HEAD detached.
Reattach ==
  /\ at = "reattach"
  /\ \/ onBranch' = TRUE /\ tip' = {} /\ UNCHANGED faults
     \/ Fault /\ UNCHANGED <<onBranch, tip>>
  /\ Goto("record")
  /\ UNCHANGED <<tree, dirt, refVars, workVars, crashes, runs>>

\* PARKED is written.
Record ==
  /\ at = "record"
  /\ at' = "parked" /\ reattach' = FALSE /\ UNCHANGED <<kind, known, saving>>
  /\ UNCHANGED <<treeVars, refVars, workVars, countVars>>

-----------------------------------------------------------------------------
(* WORKTREE: the sweep of what earlier runs left, then a new tree.         *)

Start ==
  /\ at = "queued" /\ runs < MaxRuns /\ runs' = runs + 1
  /\ at' = (IF kind = "fresh" THEN "fetch" ELSE "resume")
  /\ known' = (IF kind = "fresh" THEN {} ELSE {"wt", "pr"})
  /\ UNCHANGED <<kind, saving, reattach, treeVars, refVars, workVars, faults, crashes>>

Fetch ==
  /\ at = "fetch"
  /\ tracked' = Fetched /\ main' = landed /\ Goto("tree")
  /\ UNCHANGED <<treeVars, branch, remote, landed, wips, pr, workVars, countVars>>

TreeGone == tree' = FALSE /\ onBranch' = TRUE /\ dirt' = {} /\ tip' = {}

\* A dirty tree is preserved, a clean one removed.
SweepTree_Forces ==
  /\ at = "tree"
  /\ IF tree THEN TreeGone ELSE UNCHANGED treeVars
  /\ Goto("local")
  /\ UNCHANGED <<refVars, workVars, countVars>>
SweepTree ==
  /\ at = "tree"
  /\ \/ /\ tree /\ dirt # {}
        /\ at' = "detach" /\ saving' = "sweep" /\ UNCHANGED <<kind, known, reattach, treeVars>>
     \/ /\ dirt = {} /\ Goto("local")
        /\ IF tree THEN TreeGone ELSE UNCHANGED treeVars
  /\ UNCHANGED <<refVars, workVars, countVars>>

\* The local branch goes when something else is known to hold its commits.
Vouched == branch \subseteq main \/ branch = tracked \/ \E w \in wips : branch \subseteq w
SweepLocal ==
  /\ at = "local"
  /\ \/ branch = NoRef /\ Goto("remote") /\ UNCHANGED branch
     \/ branch # NoRef /\ Vouched /\ branch' = NoRef /\ Goto("remote")
     \/ branch # NoRef /\ ~Vouched /\ Park /\ UNCHANGED branch   \* branch-unmerged-leftover
  /\ UNCHANGED <<treeVars, tracked, main, remote, landed, wips, pr, workVars, countVars>>

SweepRemote ==
  /\ at = "remote"
  /\ Goto(IF tracked = NoRef THEN "add" ELSE IF tracked \subseteq main THEN "prs" ELSE "keep")
  /\ UNCHANGED <<treeVars, refVars, workVars, countVars>>

KeepRemote ==
  /\ at = "keep"
  /\ wips' = wips \cup {tracked} /\ Goto("prs")
  /\ UNCHANGED <<treeVars, branch, tracked, main, remote, landed, pr, workVars, countVars>>

\* gh pr list, gh pr close.
ClosePr_Skipped ==
  /\ at = "prs" /\ Goto("drop")
  /\ UNCHANGED <<treeVars, refVars, workVars, countVars>>
ClosePr ==
  /\ at = "prs"
  /\ pr' = (IF PrOpen THEN "closed" ELSE pr)
  /\ Goto("drop")
  /\ UNCHANGED <<treeVars, branch, tracked, main, remote, landed, wips, workVars, countVars>>

\* push --delete: GitHub closes a pull request whose branch goes.
RemoteGone ==
  /\ remote' = NoRef
  /\ pr' = (IF PrOpen THEN "closed" ELSE pr)
DropRemote ==
  /\ at = "drop"
  /\ \/ remote # NoRef /\ RemoteGone /\ tracked' = NoRef /\ Goto("add")
     \/ remote = NoRef /\ Park /\ UNCHANGED <<remote, pr, tracked>>   \* nothing to delete: exit 1
  /\ UNCHANGED <<treeVars, branch, main, landed, wips, workVars, countVars>>

AddTree ==
  /\ at = "add"
  /\ tree' = TRUE /\ onBranch' = TRUE /\ dirt' = {} /\ tip' = {} /\ branch' = main
  /\ mine' = {}
  /\ Goto("claim")
  /\ UNCHANGED <<tracked, main, remote, landed, wips, pr, made, cut, countVars>>

\* npm ci, board:take; the next snapshot records the tree.
Claim ==
  /\ at = "claim"
  /\ at' = "work" /\ known' = {"wt"} /\ UNCHANGED <<kind, saving, reattach>>
  /\ UNCHANGED <<treeVars, refVars, workVars, countVars>>

\* What a command of the sweep reports as a failure although origin took it.
Unheard ==
  /\ at \in {"keep", "prs", "drop"} /\ Fault
  /\ \/ at = "keep" /\ wips' = wips \cup {tracked} /\ UNCHANGED <<remote, pr>>
     \/ at = "prs" /\ PrOpen /\ pr' = "closed" /\ UNCHANGED <<remote, wips>>
     \/ at = "drop" /\ remote # NoRef /\ RemoteGone /\ UNCHANGED wips
  /\ Park
  /\ UNCHANGED <<treeVars, branch, tracked, main, landed, workVars, crashes, runs>>

-----------------------------------------------------------------------------
(* The rest of a run.                                                      *)

\* PLAN to DIAGNOSE: a step writes to the tree.
Write ==
  /\ at = "work"
  /\ \E e \in Edit \ made :
       /\ dirt' = dirt \cup {e} /\ made' = made \cup {e} /\ mine' = mine \cup {e}
  /\ UNCHANGED <<tree, onBranch, tip, refVars, cut, runVars, countVars>>

ChecksPass ==
  /\ at = "work" /\ Goto("commit")
  /\ UNCHANGED <<treeVars, refVars, workVars, countVars>>

\* realPushPr: commit what there is; with nothing new, park unless a resume left
\* the branch as it is on origin.
CommitWork ==
  /\ at = "commit"
  /\ \/ /\ dirt # {} /\ dirt' = {}
        /\ IF onBranch THEN branch' = branch \cup dirt /\ UNCHANGED tip
           ELSE tip' = tip \cup dirt /\ UNCHANGED branch
        /\ at' = "pushing" /\ kind' = "fresh" /\ UNCHANGED <<known, saving, reattach>>
     \/ /\ dirt = {} /\ UNCHANGED <<dirt, tip, branch>>
        /\ IF Head = main \/ (Head = tracked /\ kind = "fresh") THEN Park
           ELSE at' = "pushing" /\ kind' = "fresh" /\ UNCHANGED <<known, saving, reattach>>
  /\ UNCHANGED <<tree, onBranch, tracked, main, remote, landed, wips, pr, workVars, countVars>>

FastForward == Contents(remote) \subseteq branch
PushBranch ==
  /\ at = "pushing"
  /\ \/ FastForward /\ remote' = branch /\ tracked' = branch /\ Goto("openPr") /\ UNCHANGED faults
     \/ FastForward /\ remote' = branch /\ UNCHANGED tracked /\ Fault /\ Park
     \/ ~FastForward /\ UNCHANGED <<remote, tracked, faults>> /\ Park
  /\ UNCHANGED <<treeVars, branch, main, landed, wips, pr, workVars, crashes, runs>>

OpenPr ==
  /\ at = "openPr"
  /\ pr' = (IF PrOpen THEN pr ELSE "open")
  /\ \/ at' = "gate" /\ known' = {"wt", "pr"} /\ UNCHANGED <<kind, saving, reattach, faults>>
     \/ Fault /\ Park
  /\ UNCHANGED <<treeVars, branch, tracked, main, remote, landed, wips, workVars, crashes, runs>>

\* GATE, CI_CHECKS, VALIDATE: on to MERGE, or back to the tree.
Judged ==
  /\ at = "gate"
  /\ Goto("work") \/ Goto("merge")
  /\ UNCHANGED <<treeVars, refVars, workVars, countVars>>

EnqueueMerge ==
  /\ at = "merge"
  /\ IF pr = "open" THEN pr' = "queued" /\ Goto("wait") ELSE UNCHANGED pr /\ Park
  /\ UNCHANGED <<treeVars, branch, tracked, main, remote, landed, wips, workVars, countVars>>

\* The merge queue, in its own time.
Land ==
  /\ pr = "queued"
  /\ pr' = "merged" /\ landed' = landed \cup remote
  /\ UNCHANGED <<treeVars, branch, tracked, main, remote, wips, workVars, countVars, runVars>>

WaitMerged ==
  /\ at = "wait"
  /\ \/ pr = "merged" /\ Goto("finish")
     \/ pr # "merged" /\ Park
  /\ UNCHANGED <<treeVars, refVars, workVars, countVars>>

\* realFinish removes the tree, with --force.
Finish ==
  /\ at = "finish"
  /\ TreeGone /\ Goto("done") /\ main' = landed
  /\ UNCHANGED <<branch, tracked, remote, landed, wips, pr, workVars, countVars>>

-----------------------------------------------------------------------------
(* Parks, deaths and what brings a card back.                              *)

\* Any step may park; a transient reason re-enqueues instead, before anything is
\* preserved: for a restart, or for a resume that keeps what is in flight.
ParkStep ==
  /\ at \in {"work", "gate", "claim"}
  /\ Park
  /\ UNCHANGED <<treeVars, refVars, workVars, countVars>>

Requeue ==
  /\ at \in {"work", "gate"}
  /\ at' = "queued" /\ kind' \in {"fresh"} \cup (IF "pr" \in known THEN {"machine"} ELSE {})
  /\ UNCHANGED <<known, saving, reattach, treeVars, refVars, workVars, countVars>>

Die ==
  /\ at \in Running \cup Abandoning /\ crashes < MaxCrashes /\ crashes' = crashes + 1
  /\ at' = (IF at \in Abandoning THEN "abandoned" ELSE "dead")
  /\ kind' = (IF at \in {"wait", "merge"} THEN "merge" ELSE "fresh")
  /\ cut' = (cut \/ at = "wip")
  /\ saving' = "park" /\ reattach' = FALSE
  /\ UNCHANGED <<known, treeVars, refVars, made, mine, faults, runs>>

\* orphanScan: a run that died waiting for its merge resumes there, any other parks.
Orphan ==
  /\ at = "dead"
  /\ \/ kind = "merge" /\ at' = "queued" /\ UNCHANGED <<kind, known, saving, reattach>>
     \/ at' = (IF "wt" \in known /\ tree /\ dirt # {} THEN "detach" ELSE "record")
        /\ kind' = "fresh" /\ UNCHANGED <<known, saving, reattach>>
  /\ UNCHANGED <<treeVars, refVars, workVars, countVars>>

Reply ==
  /\ at = "parked"
  /\ \/ at' = "queued" /\ kind' = "fresh"                         \* retry
     \/ at' = "queued" /\ kind' = "continue" /\ "pr" \in known   \* continue
     \/ at' = "abPr" /\ UNCHANGED kind                            \* abandon
  /\ UNCHANGED <<known, saving, reattach, treeVars, refVars, workVars, countVars>>

\* prepareResume, in the order of its checks.
Keeps == kind = "machine"
ResumeFits_Anywhere ==
  /\ tree /\ PrOpen
  /\ dirt = {} \/ Keeps
  /\ Fetched # NoRef /\ (branch \subseteq Fetched \/ (Keeps /\ Fetched \subseteq branch))
ResumeFits ==
  /\ tree /\ PrOpen /\ onBranch
  /\ dirt = {} \/ Keeps
  /\ Fetched # NoRef /\ (branch \subseteq Fetched \/ (Keeps /\ Fetched \subseteq branch))

Resume ==
  /\ at = "resume" /\ ResumeFits
  /\ tracked' = Fetched /\ main' = landed
  /\ branch' = (IF branch \subseteq Fetched THEN Fetched ELSE branch)
  /\ Goto(IF kind = "merge" THEN "wait" ELSE "work")
  /\ UNCHANGED <<treeVars, remote, landed, wips, pr, workVars, countVars>>

\* The tree of a refused resume is left as it is, but for the run's own work in
\* flight, which is preserved and taken off the branch; a wait for the pool starts over.
ResumeRefused ==
  /\ at = "resume"
  /\ \/ ~ResumeFits /\ UNCHANGED faults
     \/ Fault
  /\ LET kept == Keeps /\ tree /\ onBranch /\ dirt # {}
     IN \/ /\ kind = "merge" /\ pr = "merged"
           /\ Goto("finish")
        \/ /\ kind = "machine"
           /\ at' = "fetch" /\ kind' = "fresh" /\ known' = {} /\ UNCHANGED <<saving, reattach>>
        \/ /\ kind = "merge" => pr # "merged"
           /\ at' = (IF kept THEN "detach" ELSE "record") /\ reattach' = kept
           /\ saving' = "park" /\ UNCHANGED <<kind, known>>
  /\ UNCHANGED <<treeVars, refVars, workVars, crashes, runs>>

-----------------------------------------------------------------------------
(* abandonCleanup: no step stops the next one but where the code says so.  *)

AbandonPr ==
  /\ at = "abPr" /\ Goto("abTree")
  /\ \/ "pr" \in known /\ pr' = (IF PrOpen THEN "closed" ELSE pr) /\ UNCHANGED faults
     \/ "pr" \in known /\ Fault /\ UNCHANGED pr
     \/ "pr" \notin known /\ UNCHANGED <<pr, faults>>
  /\ UNCHANGED <<treeVars, branch, tracked, main, remote, landed, wips, workVars, crashes, runs>>

AbandonTree ==
  /\ at = "abTree"
  /\ \/ "wt" \in known /\ tree /\ dirt = {} /\ TreeGone /\ Goto("abLocal") /\ UNCHANGED faults
     \/ /\ UNCHANGED treeVars
        /\ \/ ~("wt" \in known /\ tree /\ dirt = {}) /\ UNCHANGED faults
           \/ Fault
        /\ Goto(IF branch = NoRef THEN "abRemote" ELSE "abandoned")
  /\ UNCHANGED <<refVars, workVars, crashes, runs>>

\* A local tip that is kept keeps the remote one with it.
AbandonLocal ==
  /\ at = "abLocal"
  /\ \/ branch = NoRef /\ Goto("abRemote") /\ UNCHANGED <<branch, faults>>
     \/ /\ branch # NoRef /\ (branch \subseteq main \/ branch = tracked)
        /\ branch' = NoRef /\ Goto("abRemote") /\ UNCHANGED faults
     \/ /\ branch # NoRef /\ UNCHANGED branch /\ Goto("abandoned")
        /\ \/ ~(branch \subseteq main \/ branch = tracked) /\ UNCHANGED faults
           \/ Fault
  /\ UNCHANGED <<treeVars, tracked, main, remote, landed, wips, pr, workVars, crashes, runs>>

AbandonRemote ==
  /\ at = "abRemote"
  /\ \/ tracked = NoRef /\ Goto("abandoned") /\ UNCHANGED <<wips, faults>>
     \/ tracked # NoRef /\ tracked \subseteq main /\ Goto("abDrop") /\ UNCHANGED <<wips, faults>>
     \/ /\ tracked # NoRef /\ ~(tracked \subseteq main)
        /\ \/ wips' = wips \cup {tracked} /\ Goto("abDrop") /\ UNCHANGED faults
           \/ Fault /\ wips' \in {wips, wips \cup {tracked}} /\ Goto("abandoned")
  /\ UNCHANGED <<treeVars, branch, tracked, main, remote, landed, pr, workVars, crashes, runs>>

AbandonDrop ==
  /\ at = "abDrop" /\ Goto("abandoned")
  /\ \/ remote # NoRef /\ RemoteGone /\ tracked' = NoRef /\ UNCHANGED faults
     \/ remote # NoRef /\ RemoteGone /\ Fault /\ UNCHANGED tracked
     \/ Fault /\ UNCHANGED <<remote, pr, tracked>>
     \/ remote = NoRef /\ UNCHANGED <<remote, pr, tracked, faults>>
  /\ UNCHANGED <<treeVars, branch, main, landed, wips, workVars, crashes, runs>>

-----------------------------------------------------------------------------
CommandFails ==
  \E l \in (Sweeping \ {"claim"}) \cup {"commit", "pushing", "openPr", "merge", "wait", "finish"} :
    FailsAt(l)

Next ==
  \/ Detach \/ CommitWip \/ PushWip \/ PreserveFails \/ Reattach \/ Record
  \/ Start \/ Fetch \/ SweepTree \/ SweepLocal \/ SweepRemote \/ KeepRemote \/ ClosePr
  \/ DropRemote \/ AddTree \/ Claim \/ Unheard \/ CommandFails
  \/ Write \/ ChecksPass \/ CommitWork \/ PushBranch \/ OpenPr \/ Judged \/ EnqueueMerge
  \/ Land \/ WaitMerged \/ Finish
  \/ ParkStep \/ Requeue \/ Die \/ Orphan \/ Reply \/ Resume \/ ResumeRefused
  \/ AbandonPr \/ AbandonTree \/ AbandonLocal \/ AbandonRemote \/ AbandonDrop

Spec == Init /\ [][Next]_vars

-----------------------------------------------------------------------------

\* Where an edit can still be found: in the tree, or in what a ref reaches.
Kept == dirt \cup (IF onBranch THEN {} ELSE tip) \cup Contents(branch) \cup Contents(remote)
        \cup (UNION wips) \cup landed

\* No run, sweep, abandon, failure or death destroys an edit, as long as no
\* preservation stops between its commit and its push (sweepWorktreeLeftovers,
\* preserveWorktreeWip, abandonCleanup).
WorkKept == ~cut => made \subseteq Kept

\* The same, whatever fails.
WorkNeverDestroyed == made \subseteq Kept

\* What is gated and merged is all the attempt wrote, but for what was put aside on
\* a wip ref: a run that resumes never works where its commits are not the branch's
\* (prepareResume, realPushPr).
PrCarriesAttempt ==
  at \in {"gate", "merge", "wait"} => mine \subseteq Contents(remote) \cup (UNION wips) \cup landed

\* A retry never closes a pull request as a side effect of deleting its branch.
SweepClosesOnPurpose ==
  [][at = "drop" /\ remote # NoRef /\ remote' = NoRef => ~PrOpen]_vars
==============================================================================
