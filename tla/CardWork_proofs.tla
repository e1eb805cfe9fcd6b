--------------------------- MODULE CardWork_proofs ---------------------------
(***************************************************************************)
(* Proofs about CardWork, for any set of edits and any number of failures, *)
(* deaths and runs: types, that no edit of a card is destroyed, that a     *)
(* pull request carries its attempt, that a sweep closes it on purpose.    *)
(***************************************************************************)
EXTENDS CardWork, TLAPS

-----------------------------------------------------------------------------
(* The inductive invariant.                                                *)

\* What no command of a card takes away.
Safe == (UNION wips) \cup landed

Keeping == {"detach", "save", "wip", "reattach"}
Treeless == {"local", "remote", "keep", "prs", "drop", "add", "abLocal", "abRemote", "abDrop"}
Branchless == {"remote", "keep", "prs", "drop", "add", "abRemote", "abDrop"}
Submitted == {"pushing", "openPr", "gate", "merge", "wait", "finish"}
Deciding == {"openPr", "gate", "merge", "wait"}
MergeSteps == {"dead", "queued", "resume", "wait", "finish", "done", "record", "parked", "abandoned"}
              \cup Abandoning

TreeOK ==
  /\ tree \in BOOLEAN /\ onBranch \in BOOLEAN /\ dirt \in Commit /\ tip \in Commit
  /\ ~tree => onBranch /\ dirt = {} /\ tip = {}
  /\ tree => branch # NoRef
RefsOK ==
  /\ branch \in Ref /\ tracked \in Ref /\ remote \in Ref
  /\ main \in Commit /\ landed \in Commit /\ wips \subseteq Commit
  /\ pr \in {"none", "open", "queued", "merged", "closed"}
RunOK ==
  /\ at \in Steps /\ kind \in {"fresh", "continue", "machine", "merge"}
  /\ known \subseteq {"wt", "pr", "merge"}
  /\ saving \in {"sweep", "park"} /\ reattach \in BOOLEAN
CountOK ==
  /\ made \in Commit /\ mine \subseteq made /\ cut \in BOOLEAN
  /\ faults \in 0..MaxFaults /\ crashes \in 0..MaxCrashes /\ runs \in 0..MaxRuns
Types == TreeOK /\ RefsOK /\ RunOK /\ CountOK

\* Where the run is says what it has of a tree and of a branch.
Placed ==
  /\ at \in Keeping => tree
  /\ at \in {"save", "wip", "reattach"} => ~onBranch
  /\ at \in Treeless => ~tree
  /\ at \in Branchless => branch = NoRef
  /\ at \in (Working \ {"finish"}) \cup {"claim"} => tree /\ onBranch
  /\ at \in Submitted \cup {"wip", "reattach"} => dirt = {}
  /\ kind = "merge" => dirt = {} /\ onBranch /\ at \in MergeSteps
  /\ reattach => saving = "park" /\ at \in Keeping \cup {"record"}
  /\ at = "reattach" => reattach

\* The refs of the card, here and on origin, vouch for each other; what a sweep is
\* about to delete has been put aside.
RefsKept ==
  /\ main \subseteq landed
  /\ Contents(tracked) \subseteq Contents(remote) \cup Safe
  /\ Contents(remote) \subseteq Contents(branch) \cup Contents(tracked) \cup Safe
  /\ at \in {"keep", "prs", "drop"} => tracked # NoRef
  /\ at \in {"prs", "drop", "abDrop"} => Contents(tracked) \subseteq Safe
  /\ at = "drop" => ~PrOpen
  /\ PrOpen \/ at = "openPr" => remote # NoRef

\* A detached HEAD holds nothing of its own, but between a preservation's commit
\* and its push.
TipKept ==
  /\ at = "reattach" => tip \subseteq Safe
  /\ ~cut /\ ~onBranch /\ at # "wip" => tip \subseteq Contents(branch) \cup Safe

\* The attempt's edits are where its next command looks for them.
MergeComes == kind = "merge" /\ at \in {"dead", "queued", "resume"}
MineHere ==
  /\ tree /\ onBranch => mine \subseteq dirt \cup Contents(branch) \cup Safe
  /\ reattach => mine \subseteq dirt \cup tip \cup Contents(branch) \cup Safe
  /\ at \in Deciding \/ MergeComes => mine \subseteq Contents(remote) \cup Safe

IInv == Types /\ Placed /\ RefsKept /\ TipKept /\ MineHere /\ WorkKept

-----------------------------------------------------------------------------
(* Lemmas.                                                                 *)

LEMMA Bounds ==
  /\ \A c \in SUBSET Edit : c # NoRef
  /\ MaxFaults \in Nat /\ MaxCrashes \in Nat /\ MaxRuns \in Nat
BY CardWorkAssumption

LEMMA SafeGrows ==
  ASSUME wips \subseteq wips', landed \subseteq landed'
  PROVE  Safe \subseteq Safe'
BY DEF Safe

\* A pushed wip ref keeps the commit it names.
LEMMA PutAside ==
  ASSUME NEW w \in wips
  PROVE  w \subseteq Safe
BY DEF Safe

LEMMA LandedIsSafe ==
  ASSUME NEW S \in SUBSET landed
  PROVE  S \subseteq Safe
BY DEF Safe

\* A branch that may be deleted is still in what is tracked of origin, or safe.
LEMMA VouchedIsHeld ==
  ASSUME RefsKept, branch # NoRef, Vouched
  PROVE  branch \subseteq Contents(tracked) \cup Safe
<1>1. CASE branch \subseteq main
  BY <1>1, LandedIsSafe DEF RefsKept
<1>2. CASE branch = tracked
  BY <1>2 DEF Contents
<1>3. CASE \E w \in wips : branch \subseteq w
  BY <1>3, PutAside
<1> QED
  BY <1>1, <1>2, <1>3 DEF Vouched

\* A tree is removed clean, and its HEAD holds nothing of its own.
LEMMA TreeGoneKeeps ==
  ASSUME IInv, TreeGone, dirt = {}, at # "wip",
         UNCHANGED <<branch, remote, landed, wips, made, cut>>
  PROVE  WorkKept'
<1>1. Safe' = Safe
  BY DEF Safe
<1>2. ASSUME ~cut PROVE made \subseteq (IF onBranch THEN {} ELSE tip) \cup Contents(branch) \cup Contents(remote) \cup Safe
  BY <1>2 DEF IInv, WorkKept, Kept, Safe
<1>3. ASSUME ~cut PROVE made \subseteq Contents(branch) \cup Contents(remote) \cup Safe
  BY <1>2, <1>3 DEF IInv, TipKept
<1> QED
  BY <1>1, <1>3 DEF WorkKept, Kept, Safe, TreeGone, Contents

\* What moves the run alone.
LEMMA Steered ==
  ASSUME IInv, UNCHANGED <<treeVars, refVars, made, mine>>,
         cut => cut', at = "wip" => cut' \/ at' = "wip",
         reattach' => reattach \/ (tree /\ onBranch),
         at' \notin {"keep", "prs", "drop", "abDrop", "openPr", "reattach"},
         at' \in Deciding \/ MergeComes' => at \in Deciding \/ MergeComes
  PROVE  RefsKept' /\ TipKept' /\ MineHere' /\ WorkKept'
<1> USE DEF treeVars, refVars
<1>1. Safe' = Safe
  BY DEF Safe
<1>2. RefsKept'
  BY <1>1 DEF IInv, RefsKept, Contents, PrOpen
<1>3. TipKept'
  BY <1>1 DEF IInv, TipKept, Contents
<1>4. MineHere'
  <2>1. tree /\ onBranch => mine \subseteq dirt \cup tip \cup Contents(branch) \cup Safe
    BY DEF IInv, MineHere
  <2> QED
    BY <2>1, <1>1 DEF IInv, MineHere, Contents
<1>5. WorkKept'
  BY DEF IInv, WorkKept, Kept, Contents
<1> QED
  BY <1>2, <1>3, <1>4, <1>5

USE DEF treeVars, refVars, workVars, countVars, runVars, Goto, Fault, Commit, Ref

-----------------------------------------------------------------------------
(* Each action keeps the invariant.                                        *)

LEMMA DetachKeeps ==
  ASSUME IInv, Detach
  PROVE  IInv'
<1>1. TreeOK'
  BY Bounds DEF IInv, Types, TreeOK, RefsOK, Placed, Detach, Head, Keeping, Treeless, Working
<1>2. RefsOK'
  BY DEF IInv, Types, RefsOK, Detach
<1>3. RunOK'
  BY DEF IInv, Types, RunOK, Detach, Saving, Running, Steps
<1>4. CountOK'
  BY DEF IInv, Types, CountOK, Detach
<1>5. Placed'
  BY DEF IInv, Placed, Detach, Working, Abandoning, Keeping, Treeless, Branchless, Submitted,
     MergeSteps
<1>6. Safe \subseteq Safe'
  BY SafeGrows DEF Detach
<1>7. RefsKept'
  BY <1>6 DEF IInv, RefsKept, Detach, PrOpen
<1>8. TipKept'
  <2>1. tree /\ at' = "save" /\ UNCHANGED <<branch, cut>>
    BY DEF IInv, Placed, Keeping, Detach
  <2>2. CASE onBranch
    <3>1. tip' = Contents(branch)
      BY <2>1, <2>2 DEF IInv, Types, TreeOK, Contents, Head, Detach
    <3> QED
      BY <2>1, <3>1 DEF TipKept
  <2>3. CASE ~onBranch
    <3>1. tip' = tip /\ (~cut => tip \subseteq Contents(branch) \cup Safe)
      BY <2>3 DEF IInv, TipKept, Head, Detach
    <3> QED
      BY <1>6, <2>1, <3>1 DEF TipKept
  <2> QED
    BY <2>2, <2>3
<1>9. MineHere'
  BY <1>6 DEF IInv, Types, TreeOK, MineHere, Detach, Head, Deciding, MergeComes
<1>10. WorkKept'
  BY <1>6 DEF IInv, WorkKept, Kept, Detach, Head
<1> QED
  BY <1>1, <1>2, <1>3, <1>4, <1>5, <1>7, <1>8, <1>9, <1>10 DEF IInv, Types

LEMMA CommitWipKeeps ==
  ASSUME IInv, CommitWip
  PROVE  IInv'
<1>1. TreeOK'
  BY DEF IInv, Types, TreeOK, CommitWip
<1>2. RefsOK'
  BY DEF IInv, Types, RefsOK, CommitWip
<1>3. RunOK'
  BY DEF IInv, Types, RunOK, CommitWip, Saving, Running, Steps
<1>4. CountOK'
  BY DEF IInv, Types, CountOK, CommitWip
<1>5. Placed'
  BY DEF IInv, Placed, CommitWip, Working, Keeping, Treeless, Branchless
<1>6. Safe \subseteq Safe'
  BY SafeGrows DEF CommitWip
<1>7. RefsKept'
  BY <1>6 DEF IInv, RefsKept, CommitWip, PrOpen
<1>8. TipKept'
  BY <1>6 DEF TipKept, CommitWip
<1>9. MineHere'
  BY <1>6 DEF IInv, Placed, MineHere, CommitWip, Deciding, MergeComes
<1>10. WorkKept'
  BY <1>6 DEF IInv, Placed, WorkKept, Kept, CommitWip
<1> QED
  BY <1>1, <1>2, <1>3, <1>4, <1>5, <1>7, <1>8, <1>9, <1>10 DEF IInv, Types

LEMMA PushWipKeeps ==
  ASSUME IInv, PushWip
  PROVE  IInv'
<1>1. TreeOK'
  BY DEF IInv, Types, TreeOK, PushWip
<1>2. RefsOK'
  BY DEF IInv, Types, TreeOK, RefsOK, PushWip
<1>3. RunOK'
  BY DEF IInv, Types, RunOK, PushWip, Saved, Sweeping, Saving, Running, Steps
<1>4. CountOK'
  BY DEF IInv, Types, CountOK, PushWip
<1>5. Placed'
  BY DEF IInv, Placed, PushWip, Saved, Working, Keeping, Treeless, Branchless
<1>6. Safe \subseteq Safe'
  BY SafeGrows DEF PushWip
<1>7. RefsKept'
  BY <1>6 DEF IInv, RefsKept, PushWip, Saved, PrOpen
<1>8. TipKept'
  BY <1>6 DEF TipKept, PushWip, Safe
<1>9. MineHere'
  BY <1>6 DEF IInv, MineHere, PushWip, Saved, Deciding, MergeComes
<1>10. WorkKept'
  BY <1>6 DEF IInv, WorkKept, Kept, PushWip
<1> QED
  BY <1>1, <1>2, <1>3, <1>4, <1>5, <1>7, <1>8, <1>9, <1>10 DEF IInv, Types

LEMMA PreserveFailsKeeps ==
  ASSUME IInv, PreserveFails
  PROVE  IInv'
<1>1. TreeOK'
  BY DEF IInv, Types, TreeOK, PreserveFails
<1>2. RefsOK'
  BY DEF IInv, Types, TreeOK, RefsOK, PreserveFails
<1>3. RunOK'
  BY DEF IInv, Types, RunOK, PreserveFails, ParkKnowing, Park, Working, Sweeping, Saving,
     Abandoning, Running, Steps
<1>4. CountOK'
  BY Bounds DEF IInv, Types, CountOK, PreserveFails
<1>5. Placed'
  BY DEF IInv, Placed, PreserveFails, ParkKnowing, Working, Keeping, Treeless, Branchless,
     Submitted, MergeSteps
<1>6. Safe \subseteq Safe'
  BY SafeGrows DEF PreserveFails
<1>7. RefsKept'
  BY <1>6 DEF IInv, RefsKept, PreserveFails, ParkKnowing, PrOpen
<1>8. TipKept'
  BY <1>6 DEF IInv, Types, TreeOK, TipKept, PreserveFails, ParkKnowing
<1>9. MineHere'
  BY <1>6 DEF IInv, MineHere, PreserveFails, ParkKnowing, Deciding, MergeComes
<1>10. WorkKept'
  BY <1>6 DEF IInv, Types, TreeOK, WorkKept, Kept, PreserveFails
<1> QED
  BY <1>1, <1>2, <1>3, <1>4, <1>5, <1>7, <1>8, <1>9, <1>10 DEF IInv, Types

LEMMA ReattachKeeps ==
  ASSUME IInv, Reattach
  PROVE  IInv'
<1>1. TreeOK'
  BY Bounds DEF IInv, Types, TreeOK, RefsOK, Placed, Reattach, Keeping, Treeless, Working
<1>2. RefsOK'
  BY DEF IInv, Types, RefsOK, Reattach
<1>3. RunOK'
  BY DEF IInv, Types, RunOK, Reattach, Saving, Running, Steps
<1>4. CountOK'
  BY Bounds DEF IInv, Types, CountOK, Reattach
<1>5. Placed'
  BY DEF IInv, Placed, Reattach, Working, Treeless, Branchless
<1>6. Safe \subseteq Safe'
  BY SafeGrows DEF Reattach
<1>7. RefsKept'
  BY <1>6 DEF IInv, RefsKept, Reattach, PrOpen
<1>8. TipKept'
  BY <1>6 DEF IInv, TipKept, Reattach
<1>9. MineHere'
  BY <1>6 DEF IInv, Placed, TipKept, MineHere, Reattach, Deciding, MergeComes
<1>10. WorkKept'
  BY <1>6 DEF IInv, TipKept, WorkKept, Kept, Reattach, Safe
<1> QED
  BY <1>1, <1>2, <1>3, <1>4, <1>5, <1>7, <1>8, <1>9, <1>10 DEF IInv, Types

LEMMA RecordKeeps ==
  ASSUME IInv, Record
  PROVE  IInv'
<1>1. TreeOK'
  BY DEF IInv, Types, TreeOK, Record
<1>2. RefsOK'
  BY DEF IInv, Types, RefsOK, Record
<1>3. RunOK'
  BY DEF IInv, Types, RunOK, Record, Working, Sweeping, Saving, Abandoning, Running, Steps
<1>4. CountOK'
  BY DEF IInv, Types, CountOK, Record
<1>5. Placed'
  BY DEF IInv, Placed, Record, Working, Keeping, Treeless, Branchless, Submitted, MergeSteps
<1>6. RefsKept' /\ TipKept' /\ MineHere' /\ WorkKept'
  BY Steered DEF Record, Deciding, MergeComes
<1> QED
  BY <1>1, <1>2, <1>3, <1>4, <1>5, <1>6 DEF IInv, Types

LEMMA StartKeeps ==
  ASSUME IInv, Start
  PROVE  IInv'
<1>1. TreeOK'
  BY DEF IInv, Types, TreeOK, Start
<1>2. RefsOK'
  BY DEF IInv, Types, RefsOK, Start
<1>3. RunOK'
  BY DEF IInv, Types, RunOK, Start, Sweeping, Running, Steps
<1>4. CountOK'
  BY Bounds DEF IInv, Types, CountOK, Start
<1>5. Placed'
  BY DEF IInv, Placed, Start, Working, Keeping, Treeless, Branchless, Submitted, MergeSteps
<1>6. RefsKept' /\ TipKept' /\ MineHere' /\ WorkKept'
  BY Steered DEF Start, Deciding, MergeComes
<1> QED
  BY <1>1, <1>2, <1>3, <1>4, <1>5, <1>6 DEF IInv, Types

LEMMA FetchKeeps ==
  ASSUME IInv, Fetch
  PROVE  IInv'
<1>1. TreeOK'
  BY DEF IInv, Types, TreeOK, Fetch
<1>2. RefsOK'
  BY DEF IInv, Types, RefsOK, Fetch, Fetched
<1>3. RunOK'
  BY DEF IInv, Types, RunOK, Fetch, Sweeping, Running, Steps
<1>4. CountOK'
  BY DEF IInv, Types, CountOK, Fetch
<1>5. Placed'
  BY DEF IInv, Placed, Fetch, Working, Abandoning, Keeping, Treeless, Branchless, Submitted,
     MergeSteps
<1>6. Safe \subseteq Safe'
  BY SafeGrows DEF Fetch
<1>7. RefsKept'
  BY <1>6 DEF IInv, RefsKept, Fetch, Fetched, PrOpen
<1>8. TipKept'
  BY <1>6 DEF IInv, TipKept, Fetch
<1>9. MineHere'
  BY <1>6 DEF IInv, MineHere, Fetch, Deciding, MergeComes
<1>10. WorkKept'
  BY <1>6 DEF IInv, WorkKept, Kept, Fetch
<1> QED
  BY <1>1, <1>2, <1>3, <1>4, <1>5, <1>7, <1>8, <1>9, <1>10 DEF IInv, Types

LEMMA SweepTreeKeeps ==
  ASSUME IInv, SweepTree
  PROVE  IInv'
<1>1. TreeOK'
  BY Bounds DEF IInv, Types, TreeOK, RefsOK, Placed, SweepTree, TreeGone, Keeping, Treeless, Working
<1>2. RefsOK'
  BY DEF IInv, Types, RefsOK, SweepTree
<1>3. RunOK'
  BY DEF IInv, Types, RunOK, SweepTree, TreeGone, Working, Sweeping, Saving, Abandoning, Running,
     Steps
<1>4. CountOK'
  BY DEF IInv, Types, CountOK, SweepTree
<1>5. Placed'
  BY DEF IInv, Placed, SweepTree, TreeGone, Working, Abandoning, Keeping, Treeless, Branchless,
     Submitted, MergeSteps
<1>6. Safe \subseteq Safe'
  BY SafeGrows DEF SweepTree
<1>7. RefsKept'
  BY <1>6 DEF IInv, RefsKept, SweepTree, PrOpen
<1>8. TipKept'
  BY <1>6 DEF IInv, TipKept, SweepTree, TreeGone
<1>9. MineHere'
  <2>1. ~reattach' /\ ~(at' \in Deciding \/ MergeComes')
    BY DEF IInv, Placed, Keeping, Deciding, MergeComes, SweepTree
  <2>2. CASE ~tree'
    BY <2>1, <2>2 DEF MineHere
  <2>3. CASE UNCHANGED treeVars
    BY <1>6, <2>1, <2>3 DEF IInv, MineHere, SweepTree
  <2> QED
    BY <2>2, <2>3 DEF TreeGone, SweepTree
<1>10. WorkKept'
  BY <1>6, TreeGoneKeeps DEF IInv, WorkKept, Kept, SweepTree, Safe
<1> QED
  BY <1>1, <1>2, <1>3, <1>4, <1>5, <1>7, <1>8, <1>9, <1>10 DEF IInv, Types

LEMMA SweepLocalKeeps ==
  ASSUME IInv, SweepLocal
  PROVE  IInv'
<1>1. TreeOK'
  BY DEF IInv, Types, TreeOK, Placed, SweepLocal, Treeless
<1>2. RefsOK'
  BY DEF IInv, Types, RefsOK, SweepLocal
<1>3. RunOK'
  BY DEF IInv, Types, RunOK, SweepLocal, Park, ParkKnowing, Working, Sweeping, Saving, Abandoning,
     Running, Steps
<1>4. CountOK'
  BY DEF IInv, Types, CountOK, SweepLocal
<1>5. Placed'
  BY DEF IInv, Types, TreeOK, Placed, SweepLocal, Park, ParkKnowing, Working, Abandoning, Keeping,
     Treeless, Branchless, MergeSteps
<1>6. Safe \subseteq Safe'
  BY SafeGrows DEF SweepLocal
<1>7. RefsKept'
  <2>1. /\ UNCHANGED <<tracked, main, remote, landed, wips, pr>>
        /\ at' \notin {"keep", "prs", "drop", "abDrop", "openPr"}
    BY DEF SweepLocal, Park, ParkKnowing
  <2>2. Contents(remote) \subseteq Contents(branch') \cup Contents(tracked) \cup Safe
    <3>1. CASE branch' = branch
      BY <3>1 DEF IInv, RefsKept
    <3>2. CASE branch # NoRef /\ Vouched
      <4>1. Contents(branch) \subseteq Contents(tracked) \cup Safe
        BY <3>2, VouchedIsHeld DEF IInv, Contents
      <4> QED
        BY <4>1 DEF IInv, RefsKept
    <3> QED
      BY <3>1, <3>2 DEF SweepLocal
  <2> QED
    BY <1>6, <2>1, <2>2 DEF IInv, RefsKept, PrOpen
<1>8. TipKept'
  BY <1>6 DEF IInv, Types, TreeOK, Placed, TipKept, SweepLocal, Treeless
<1>9. MineHere'
  BY <1>6 DEF IInv, Placed, MineHere, SweepLocal, Park, ParkKnowing, Treeless, Deciding, MergeComes
<1>10. WorkKept'
  <2>1. UNCHANGED <<treeVars, remote, landed, wips, made, cut>>
    BY DEF SweepLocal
  <2>2. Contents(branch) \subseteq Contents(branch') \cup Contents(remote) \cup Safe
    <3>1. CASE branch' = branch
      BY <3>1
    <3>2. CASE branch # NoRef /\ Vouched
      <4>1. Contents(branch) \subseteq Contents(tracked) \cup Safe
        BY <3>2, VouchedIsHeld DEF IInv, Contents
      <4> QED
        BY <4>1 DEF IInv, RefsKept
    <3> QED
      BY <3>1, <3>2 DEF SweepLocal
  <2> QED
    BY <2>1, <2>2 DEF IInv, WorkKept, Kept, Safe
<1> QED
  BY <1>1, <1>2, <1>3, <1>4, <1>5, <1>7, <1>8, <1>9, <1>10 DEF IInv, Types

LEMMA SweepRemoteKeeps ==
  ASSUME IInv, SweepRemote
  PROVE  IInv'
<1>1. TreeOK'
  BY DEF IInv, Types, TreeOK, SweepRemote
<1>2. RefsOK'
  BY DEF IInv, Types, RefsOK, SweepRemote
<1>3. RunOK'
  BY DEF IInv, Types, RunOK, SweepRemote, Sweeping, Running, Steps
<1>4. CountOK'
  BY DEF IInv, Types, CountOK, SweepRemote
<1>5. Placed'
  BY DEF IInv, Types, TreeOK, Placed, SweepRemote, Working, Abandoning, Keeping, Branchless,
     MergeSteps
<1>6. Safe \subseteq Safe'
  BY SafeGrows DEF SweepRemote
<1>7. RefsKept'
  <2>1. UNCHANGED refVars /\ at' \in {"add", "prs", "keep"}
    BY DEF SweepRemote
  <2>2. /\ at' \in {"keep", "prs"} => tracked # NoRef
        /\ at' = "prs" => Contents(tracked) \subseteq Safe
    <3>1. tracked \subseteq main => tracked \subseteq Safe
      BY LandedIsSafe DEF IInv, RefsKept
    <3> QED
      BY <3>1 DEF SweepRemote, Contents
  <2> QED
    BY <1>6, <2>1, <2>2 DEF IInv, RefsKept, PrOpen
<1>8. TipKept'
  BY <1>6 DEF IInv, TipKept, SweepRemote
<1>9. MineHere'
  BY <1>6 DEF IInv, MineHere, SweepRemote, Deciding, MergeComes
<1>10. WorkKept'
  BY <1>6 DEF IInv, WorkKept, Kept, SweepRemote
<1> QED
  BY <1>1, <1>2, <1>3, <1>4, <1>5, <1>7, <1>8, <1>9, <1>10 DEF IInv, Types

LEMMA KeepRemoteKeeps ==
  ASSUME IInv, KeepRemote
  PROVE  IInv'
<1>1. TreeOK'
  BY DEF IInv, Types, TreeOK, KeepRemote
<1>2. RefsOK'
  BY DEF IInv, Types, RefsOK, RefsKept, KeepRemote
<1>3. RunOK'
  BY DEF IInv, Types, RunOK, KeepRemote, Sweeping, Running, Steps
<1>4. CountOK'
  BY DEF IInv, Types, CountOK, KeepRemote
<1>5. Placed'
  BY DEF IInv, Types, TreeOK, Placed, KeepRemote, Working, Abandoning, Keeping, Branchless,
     MergeSteps
<1>6. Safe \subseteq Safe'
  BY SafeGrows DEF KeepRemote
<1>7. RefsKept'
  BY <1>6 DEF IInv, RefsKept, Contents, KeepRemote, PrOpen, Safe
<1>8. TipKept'
  BY <1>6 DEF IInv, TipKept, KeepRemote
<1>9. MineHere'
  BY <1>6 DEF IInv, MineHere, KeepRemote, Deciding, MergeComes
<1>10. WorkKept'
  BY <1>6 DEF IInv, WorkKept, Kept, KeepRemote
<1> QED
  BY <1>1, <1>2, <1>3, <1>4, <1>5, <1>7, <1>8, <1>9, <1>10 DEF IInv, Types

LEMMA ClosePrKeeps ==
  ASSUME IInv, ClosePr
  PROVE  IInv'
<1>1. TreeOK'
  BY DEF IInv, Types, TreeOK, ClosePr
<1>2. RefsOK'
  BY DEF IInv, Types, RefsOK, ClosePr
<1>3. RunOK'
  BY DEF IInv, Types, RunOK, ClosePr, Sweeping, Running, Steps
<1>4. CountOK'
  BY DEF IInv, Types, CountOK, ClosePr
<1>5. Placed'
  BY DEF IInv, Types, TreeOK, Placed, ClosePr, Working, Abandoning, Keeping, Branchless, MergeSteps
<1>6. Safe \subseteq Safe'
  BY SafeGrows DEF ClosePr
<1>7. RefsKept'
  BY <1>6 DEF IInv, RefsKept, ClosePr, PrOpen
<1>8. TipKept'
  BY <1>6 DEF IInv, TipKept, ClosePr
<1>9. MineHere'
  BY <1>6 DEF IInv, MineHere, ClosePr, Deciding, MergeComes
<1>10. WorkKept'
  BY <1>6 DEF IInv, WorkKept, Kept, ClosePr
<1> QED
  BY <1>1, <1>2, <1>3, <1>4, <1>5, <1>7, <1>8, <1>9, <1>10 DEF IInv, Types

LEMMA DropRemoteKeeps ==
  ASSUME IInv, DropRemote
  PROVE  IInv'
<1>1. TreeOK'
  BY DEF IInv, Types, TreeOK, DropRemote
<1>2. RefsOK'
  BY DEF IInv, Types, RefsOK, DropRemote, RemoteGone
<1>3. RunOK'
  BY DEF IInv, Types, RunOK, DropRemote, RemoteGone, Park, ParkKnowing, Working, Sweeping, Saving,
     Abandoning, Running, Steps
<1>4. CountOK'
  BY DEF IInv, Types, CountOK, DropRemote
<1>5. Placed'
  BY DEF IInv, Types, TreeOK, Placed, DropRemote, Park, ParkKnowing, Working, Abandoning, Keeping,
     Branchless, MergeSteps
<1>6. Safe \subseteq Safe'
  BY SafeGrows DEF DropRemote
<1>7. RefsKept'
  BY <1>6 DEF IInv, RefsKept, DropRemote, RemoteGone, Park, ParkKnowing, PrOpen
<1>8. TipKept'
  BY <1>6 DEF IInv, TipKept, DropRemote, Park, ParkKnowing
<1>9. MineHere'
  BY <1>6 DEF IInv, MineHere, DropRemote, Park, ParkKnowing, Deciding, MergeComes
<1>10. WorkKept'
  BY <1>6 DEF IInv, WorkKept, Kept, RefsKept, DropRemote, Safe
<1> QED
  BY <1>1, <1>2, <1>3, <1>4, <1>5, <1>7, <1>8, <1>9, <1>10 DEF IInv, Types

LEMMA AddTreeKeeps ==
  ASSUME IInv, AddTree
  PROVE  IInv'
<1>1. TreeOK'
  BY Bounds DEF IInv, Types, TreeOK, RefsOK, AddTree
<1>2. RefsOK'
  BY DEF IInv, Types, RefsOK, AddTree
<1>3. RunOK'
  BY DEF IInv, Types, RunOK, AddTree, Sweeping, Running, Steps
<1>4. CountOK'
  BY DEF IInv, Types, CountOK, AddTree
<1>5. Placed'
  BY DEF IInv, Placed, AddTree, Abandoning, Treeless, Branchless, MergeSteps
<1>6. Safe \subseteq Safe'
  BY SafeGrows DEF AddTree
<1>7. RefsKept'
  BY <1>6 DEF IInv, Placed, RefsKept, Contents, AddTree, PrOpen, Branchless
<1>8. TipKept'
  BY <1>6 DEF TipKept, AddTree
<1>9. MineHere'
  BY <1>6 DEF MineHere, AddTree
<1>10. WorkKept'
  BY <1>6 DEF IInv, Types, TreeOK, Placed, WorkKept, Kept, Contents, AddTree, Branchless
<1> QED
  BY <1>1, <1>2, <1>3, <1>4, <1>5, <1>7, <1>8, <1>9, <1>10 DEF IInv, Types

LEMMA ClaimKeeps ==
  ASSUME IInv, Claim
  PROVE  IInv'
<1>1. TreeOK'
  BY DEF IInv, Types, TreeOK, Claim
<1>2. RefsOK'
  BY DEF IInv, Types, RefsOK, Claim
<1>3. RunOK'
  BY DEF IInv, Types, RunOK, Claim, Working, Running, Steps
<1>4. CountOK'
  BY DEF IInv, Types, CountOK, Claim
<1>5. Placed'
  BY DEF IInv, Placed, Claim, Abandoning, Keeping, Treeless, Branchless, Submitted, MergeSteps
<1>6. RefsKept' /\ TipKept' /\ MineHere' /\ WorkKept'
  BY Steered DEF Claim, Deciding, MergeComes
<1> QED
  BY <1>1, <1>2, <1>3, <1>4, <1>5, <1>6 DEF IInv, Types

LEMMA UnheardKeeps ==
  ASSUME IInv, Unheard
  PROVE  IInv'
<1>1. TreeOK'
  BY DEF IInv, Types, TreeOK, Unheard
<1>2. RefsOK'
  BY DEF IInv, Types, RefsOK, RefsKept, Unheard, RemoteGone
<1>3. RunOK'
  BY DEF IInv, Types, RunOK, Unheard, Park, ParkKnowing, Saving, Running, Steps
<1>4. CountOK'
  BY Bounds DEF IInv, Types, CountOK, Unheard
<1>5. Placed'
  BY DEF IInv, Types, TreeOK, Placed, Unheard, Park, ParkKnowing, Working, Keeping, Branchless,
     MergeSteps
<1>6. Safe \subseteq Safe'
  BY SafeGrows DEF Unheard
<1>7. RefsKept'
  BY <1>6 DEF IInv, RefsKept, Contents, Unheard, RemoteGone, Park, ParkKnowing, PrOpen
<1>8. TipKept'
  BY <1>6 DEF IInv, TipKept, Unheard, Park, ParkKnowing
<1>9. MineHere'
  BY <1>6 DEF IInv, MineHere, Unheard, Park, ParkKnowing, Deciding, MergeComes
<1>10. WorkKept'
  BY <1>6 DEF IInv, WorkKept, Kept, RefsKept, Unheard, Safe
<1> QED
  BY <1>1, <1>2, <1>3, <1>4, <1>5, <1>7, <1>8, <1>9, <1>10 DEF IInv, Types

LEMMA CommandFailsKeeps ==
  ASSUME IInv, CommandFails
  PROVE  IInv'
<1>1. TreeOK'
  BY DEF IInv, Types, TreeOK, CommandFails, FailsAt
<1>2. RefsOK'
  BY DEF IInv, Types, RefsOK, CommandFails, FailsAt
<1>3. RunOK'
  BY DEF IInv, Types, RunOK, CommandFails, FailsAt, Park, ParkKnowing, Saving, Running, Steps
<1>4. CountOK'
  BY Bounds DEF IInv, Types, CountOK, CommandFails, FailsAt
<1>5. Placed'
  BY DEF IInv, Placed, CommandFails, FailsAt, Park, ParkKnowing, Working, Keeping, Treeless,
     Branchless, Submitted, MergeSteps
<1>6. RefsKept' /\ TipKept' /\ MineHere' /\ WorkKept'
  BY Steered DEF CommandFails, FailsAt, Park, ParkKnowing, Sweeping, Deciding, MergeComes
<1> QED
  BY <1>1, <1>2, <1>3, <1>4, <1>5, <1>6 DEF IInv, Types

LEMMA WriteKeeps ==
  ASSUME IInv, Write
  PROVE  IInv'
<1>1. TreeOK'
  BY DEF IInv, Types, TreeOK, Placed, Write, Working
<1>2. RefsOK'
  BY DEF IInv, Types, RefsOK, Write
<1>3. RunOK'
  BY DEF IInv, Types, RunOK, Write
<1>4. CountOK'
  BY DEF IInv, Types, CountOK, Write
<1>5. Placed'
  BY DEF IInv, Placed, Write, Abandoning, Submitted, MergeSteps
<1>6. Safe \subseteq Safe'
  BY SafeGrows DEF Write
<1>7. RefsKept'
  BY <1>6 DEF IInv, RefsKept, Write, PrOpen
<1>8. TipKept'
  BY <1>6 DEF IInv, TipKept, Write
<1>9. MineHere'
  BY <1>6 DEF IInv, MineHere, Write, Deciding, MergeComes
<1>10. WorkKept'
  BY <1>6 DEF IInv, WorkKept, Kept, Write
<1> QED
  BY <1>1, <1>2, <1>3, <1>4, <1>5, <1>7, <1>8, <1>9, <1>10 DEF IInv, Types

LEMMA ChecksPassKeeps ==
  ASSUME IInv, ChecksPass
  PROVE  IInv'
<1>1. TreeOK'
  BY DEF IInv, Types, TreeOK, ChecksPass
<1>2. RefsOK'
  BY DEF IInv, Types, RefsOK, ChecksPass
<1>3. RunOK'
  BY DEF IInv, Types, RunOK, ChecksPass, Working, Running, Steps
<1>4. CountOK'
  BY DEF IInv, Types, CountOK, ChecksPass
<1>5. Placed'
  BY DEF IInv, Placed, ChecksPass, Working, Abandoning, Keeping, Treeless, Branchless, Submitted,
     MergeSteps
<1>6. RefsKept' /\ TipKept' /\ MineHere' /\ WorkKept'
  BY Steered DEF ChecksPass, Deciding, MergeComes
<1> QED
  BY <1>1, <1>2, <1>3, <1>4, <1>5, <1>6 DEF IInv, Types

LEMMA CommitWorkKeeps ==
  ASSUME IInv, CommitWork
  PROVE  IInv'
<1>1. TreeOK'
  BY Bounds DEF IInv, Types, TreeOK, RefsOK, CommitWork
<1>2. RefsOK'
  BY DEF IInv, Types, TreeOK, RefsOK, CommitWork
<1>3. RunOK'
  BY DEF IInv, Types, RunOK, CommitWork, Head, Park, ParkKnowing, Working, Sweeping, Saving,
     Abandoning, Running, Steps
<1>4. CountOK'
  BY DEF IInv, Types, CountOK, CommitWork
<1>5. Placed'
  BY DEF IInv, Placed, CommitWork, Park, ParkKnowing, Working, Keeping, Treeless, Branchless,
     MergeSteps
<1>6. Safe \subseteq Safe'
  BY SafeGrows DEF CommitWork
<1>7. RefsKept'
  BY <1>6, Bounds DEF IInv, Types, TreeOK, RefsOK, RefsKept, Contents, CommitWork, Park,
     ParkKnowing, PrOpen
<1>8. TipKept'
  <2>1. onBranch' /\ at' # "reattach"
    BY DEF IInv, Placed, Working, CommitWork, Park, ParkKnowing
  <2> QED
    BY <2>1 DEF TipKept
<1>9. MineHere'
  BY <1>6, Bounds DEF IInv, Types, TreeOK, RefsOK, MineHere, Contents, CommitWork, Park,
     ParkKnowing, Deciding, MergeComes
<1>10. WorkKept'
  BY <1>6, Bounds DEF IInv, Types, TreeOK, RefsOK, WorkKept, Kept, Contents, CommitWork
<1> QED
  BY <1>1, <1>2, <1>3, <1>4, <1>5, <1>7, <1>8, <1>9, <1>10 DEF IInv, Types

LEMMA PushBranchKeeps ==
  ASSUME IInv, PushBranch
  PROVE  IInv'
<1>1. TreeOK'
  BY DEF IInv, Types, TreeOK, PushBranch
<1>2. RefsOK'
  BY DEF IInv, Types, RefsOK, PushBranch
<1>3. RunOK'
  BY DEF IInv, Types, RunOK, PushBranch, FastForward, Park, ParkKnowing, Working, Sweeping,
     Saving, Abandoning, Running, Steps
<1>4. CountOK'
  BY Bounds DEF IInv, Types, CountOK, PushBranch
<1>5. Placed'
  BY DEF IInv, Placed, PushBranch, Park, ParkKnowing, Working, Abandoning, Keeping, Treeless,
     Branchless, Submitted, MergeSteps
<1>6. Safe \subseteq Safe'
  BY SafeGrows DEF PushBranch
<1>7. RefsKept'
  <2>0. branch # NoRef
    BY DEF IInv, Types, TreeOK, Placed, Working, PushBranch
  <2>1. /\ UNCHANGED <<branch, main, landed, wips, pr>>
        /\ at' \in {"openPr", "detach", "record"}
        /\ at' = "openPr" => remote' = branch
    BY DEF PushBranch, Park, ParkKnowing
  <2>2. CASE UNCHANGED <<remote, tracked>> /\ at' # "openPr"
    BY <1>6, <2>1, <2>2 DEF IInv, RefsKept, PrOpen
  <2>3. CASE FastForward /\ remote' = branch /\ tracked' \in {branch, tracked}
    <3>1. Contents(tracked') \subseteq Contents(remote') \cup Safe
      BY <2>0, <2>3 DEF IInv, RefsKept, Contents, FastForward
    <3> QED
      BY <1>6, <2>0, <2>1, <2>3, <3>1 DEF IInv, RefsKept
  <2> QED
    BY <2>1, <2>2, <2>3 DEF PushBranch, Park, ParkKnowing
<1>8. TipKept'
  BY <1>6 DEF IInv, TipKept, PushBranch, Park, ParkKnowing
<1>9. MineHere'
  <2>1. UNCHANGED <<treeVars, branch, mine, reattach, kind>> /\ at' \in {"openPr", "detach", "record"}
    BY DEF PushBranch, Park, ParkKnowing
  <2>2. at' = "openPr" => mine \subseteq Contents(remote') \cup Safe
    <3>1. mine \subseteq Contents(branch) \cup Safe
      BY DEF IInv, Placed, Working, Submitted, MineHere, PushBranch
    <3> QED
      BY <3>1 DEF PushBranch, Park, ParkKnowing
  <2> QED
    BY <1>6, <2>1, <2>2 DEF IInv, MineHere, Deciding, MergeComes
<1>10. WorkKept'
  <2>1. branch # NoRef
    BY DEF IInv, Types, TreeOK, Placed, Working, PushBranch
  <2>2. /\ UNCHANGED <<treeVars, branch, landed, wips, made, cut>>
        /\ Contents(remote) \subseteq Contents(remote')
    BY <2>1 DEF PushBranch, FastForward, Contents
  <2> QED
    BY <2>2 DEF IInv, WorkKept, Kept
<1> QED
  BY <1>1, <1>2, <1>3, <1>4, <1>5, <1>7, <1>8, <1>9, <1>10 DEF IInv, Types

LEMMA OpenPrKeeps ==
  ASSUME IInv, OpenPr
  PROVE  IInv'
<1>1. TreeOK'
  BY DEF IInv, Types, TreeOK, OpenPr
<1>2. RefsOK'
  BY DEF IInv, Types, RefsOK, OpenPr
<1>3. RunOK'
  BY DEF IInv, Types, RunOK, OpenPr, PrOpen, Park, ParkKnowing, Working, Sweeping, Saving,
     Abandoning, Running, Steps
<1>4. CountOK'
  BY Bounds DEF IInv, Types, CountOK, OpenPr
<1>5. Placed'
  BY DEF IInv, Placed, OpenPr, Park, ParkKnowing, Working, Abandoning, Keeping, Treeless,
     Branchless, Submitted, MergeSteps
<1>6. Safe \subseteq Safe'
  BY SafeGrows DEF OpenPr
<1>7. RefsKept'
  BY <1>6 DEF IInv, RefsKept, OpenPr, Park, ParkKnowing
<1>8. TipKept'
  BY <1>6 DEF IInv, TipKept, OpenPr, Park, ParkKnowing
<1>9. MineHere'
  BY <1>6 DEF IInv, MineHere, OpenPr, Park, ParkKnowing, Deciding
<1>10. WorkKept'
  BY <1>6 DEF IInv, WorkKept, Kept, OpenPr
<1> QED
  BY <1>1, <1>2, <1>3, <1>4, <1>5, <1>7, <1>8, <1>9, <1>10 DEF IInv, Types

LEMMA JudgedKeeps ==
  ASSUME IInv, Judged
  PROVE  IInv'
<1>1. TreeOK'
  BY DEF IInv, Types, TreeOK, Judged
<1>2. RefsOK'
  BY DEF IInv, Types, RefsOK, Judged
<1>3. RunOK'
  BY DEF IInv, Types, RunOK, Judged, Working, Sweeping, Saving, Abandoning, Running, Steps
<1>4. CountOK'
  BY DEF IInv, Types, CountOK, Judged
<1>5. Placed'
  BY DEF IInv, Placed, Judged, Working, Abandoning, Keeping, Treeless, Branchless, Submitted,
     MergeSteps
<1>6. RefsKept' /\ TipKept' /\ MineHere' /\ WorkKept'
  BY Steered DEF Judged, Deciding
<1> QED
  BY <1>1, <1>2, <1>3, <1>4, <1>5, <1>6 DEF IInv, Types

LEMMA EnqueueMergeKeeps ==
  ASSUME IInv, EnqueueMerge
  PROVE  IInv'
<1>1. TreeOK'
  BY DEF IInv, Types, TreeOK, EnqueueMerge
<1>2. RefsOK'
  BY DEF IInv, Types, RefsOK, EnqueueMerge
<1>3. RunOK'
  BY DEF IInv, Types, RunOK, EnqueueMerge, Park, ParkKnowing, Working, Sweeping, Saving,
     Abandoning, Running, Steps
<1>4. CountOK'
  BY DEF IInv, Types, CountOK, EnqueueMerge
<1>5. Placed'
  BY DEF IInv, Placed, EnqueueMerge, Park, ParkKnowing, Working, Keeping, Treeless, Branchless,
     Submitted, MergeSteps
<1>6. Safe \subseteq Safe'
  BY SafeGrows DEF EnqueueMerge
<1>7. RefsKept'
  BY <1>6 DEF IInv, RefsKept, EnqueueMerge, Park, ParkKnowing, PrOpen
<1>8. TipKept'
  BY <1>6 DEF IInv, TipKept, EnqueueMerge, Park, ParkKnowing
<1>9. MineHere'
  BY <1>6 DEF IInv, MineHere, EnqueueMerge, Park, ParkKnowing, Deciding
<1>10. WorkKept'
  BY <1>6 DEF IInv, WorkKept, Kept, EnqueueMerge
<1> QED
  BY <1>1, <1>2, <1>3, <1>4, <1>5, <1>7, <1>8, <1>9, <1>10 DEF IInv, Types

LEMMA LandKeeps ==
  ASSUME IInv, Land
  PROVE  IInv'
<1>1. TreeOK'
  BY DEF IInv, Types, TreeOK, Land
<1>2. RefsOK'
  BY DEF IInv, Types, RefsOK, RefsKept, Land, PrOpen
<1>3. RunOK'
  BY DEF IInv, Types, RunOK, Land
<1>4. CountOK'
  BY DEF IInv, Types, CountOK, Land
<1>5. Placed'
  BY DEF IInv, Placed, Land
<1>6. Safe \subseteq Safe'
  BY SafeGrows DEF Land
<1>7. RefsKept'
  BY <1>6 DEF IInv, RefsKept, Land, PrOpen
<1>8. TipKept'
  BY <1>6 DEF IInv, TipKept, Land
<1>9. MineHere'
  BY <1>6 DEF IInv, MineHere, Land, MergeComes
<1>10. WorkKept'
  BY <1>6 DEF IInv, WorkKept, Kept, Land
<1> QED
  BY <1>1, <1>2, <1>3, <1>4, <1>5, <1>7, <1>8, <1>9, <1>10 DEF IInv, Types

LEMMA WaitMergedKeeps ==
  ASSUME IInv, WaitMerged
  PROVE  IInv'
<1>1. TreeOK'
  BY DEF IInv, Types, TreeOK, WaitMerged
<1>2. RefsOK'
  BY DEF IInv, Types, RefsOK, WaitMerged
<1>3. RunOK'
  BY DEF IInv, Types, RunOK, WaitMerged, Park, ParkKnowing, Working, Sweeping, Saving, Abandoning,
     Running, Steps
<1>4. CountOK'
  BY DEF IInv, Types, CountOK, WaitMerged
<1>5. Placed'
  BY DEF IInv, Placed, WaitMerged, Park, ParkKnowing, Working, Keeping, Treeless, Branchless,
     Submitted, MergeSteps
<1>6. RefsKept' /\ TipKept' /\ MineHere' /\ WorkKept'
  BY Steered DEF WaitMerged, Park, ParkKnowing, Deciding
<1> QED
  BY <1>1, <1>2, <1>3, <1>4, <1>5, <1>6 DEF IInv, Types

LEMMA FinishKeeps ==
  ASSUME IInv, Finish
  PROVE  IInv'
<1>1. TreeOK'
  BY Bounds DEF IInv, Types, TreeOK, RefsOK, Placed, Finish, TreeGone, Keeping, Treeless, Working
<1>2. RefsOK'
  BY DEF IInv, Types, RefsOK, Finish
<1>3. RunOK'
  BY DEF IInv, Types, RunOK, Finish, Steps
<1>4. CountOK'
  BY DEF IInv, Types, CountOK, Finish
<1>5. Placed'
  BY DEF IInv, Placed, Finish, TreeGone, Working, Keeping, Branchless, MergeSteps
<1>6. Safe \subseteq Safe'
  BY SafeGrows DEF Finish
<1>7. RefsKept'
  BY <1>6 DEF IInv, RefsKept, Finish, PrOpen
<1>8. TipKept'
  BY <1>6 DEF TipKept, Finish, TreeGone
<1>9. MineHere'
  <2>1. ~reattach' /\ ~(at' \in Deciding \/ MergeComes')
    BY DEF IInv, Placed, Keeping, Deciding, MergeComes, Finish
  <2> QED
    BY <2>1 DEF MineHere, TreeGone, Finish
<1>10. WorkKept'
  <2>1. dirt = {}
    BY DEF IInv, Placed, Submitted, Finish
  <2> QED
    BY <2>1, TreeGoneKeeps DEF Finish
<1> QED
  BY <1>1, <1>2, <1>3, <1>4, <1>5, <1>7, <1>8, <1>9, <1>10 DEF IInv, Types

LEMMA ParkStepKeeps ==
  ASSUME IInv, ParkStep
  PROVE  IInv'
<1>1. TreeOK'
  BY DEF IInv, Types, TreeOK, ParkStep
<1>2. RefsOK'
  BY DEF IInv, Types, RefsOK, ParkStep
<1>3. RunOK'
  BY DEF IInv, Types, RunOK, ParkStep, Park, ParkKnowing, Saving, Running, Steps
<1>4. CountOK'
  BY DEF IInv, Types, CountOK, ParkStep
<1>5. Placed'
  BY DEF IInv, Placed, ParkStep, Park, ParkKnowing, Working, Keeping, Treeless, Branchless,
     Submitted, MergeSteps
<1>6. RefsKept' /\ TipKept' /\ MineHere' /\ WorkKept'
  BY Steered DEF ParkStep, Park, ParkKnowing, Deciding, MergeComes
<1> QED
  BY <1>1, <1>2, <1>3, <1>4, <1>5, <1>6 DEF IInv, Types

LEMMA RequeueKeeps ==
  ASSUME IInv, Requeue
  PROVE  IInv'
<1>1. TreeOK'
  BY DEF IInv, Types, TreeOK, Requeue
<1>2. RefsOK'
  BY DEF IInv, Types, RefsOK, Requeue
<1>3. RunOK'
  BY DEF IInv, Types, RunOK, Requeue, Steps
<1>4. CountOK'
  BY DEF IInv, Types, CountOK, Requeue
<1>5. Placed'
  BY DEF IInv, Placed, Requeue, Working, Keeping, Treeless, Branchless, Submitted
<1>6. RefsKept' /\ TipKept' /\ MineHere' /\ WorkKept'
  BY Steered DEF Requeue, Deciding, MergeComes
<1> QED
  BY <1>1, <1>2, <1>3, <1>4, <1>5, <1>6 DEF IInv, Types

LEMMA DieKeeps ==
  ASSUME IInv, Die
  PROVE  IInv'
<1>1. TreeOK'
  BY DEF IInv, Types, TreeOK, Die
<1>2. RefsOK'
  BY DEF IInv, Types, RefsOK, Die
<1>3. RunOK'
  BY DEF IInv, Types, RunOK, Die, Working, Sweeping, Saving, Abandoning, Running, Steps
<1>4. CountOK'
  BY Bounds DEF IInv, Types, CountOK, Die
<1>5. Placed'
  BY DEF IInv, Placed, Die, Working, Keeping, Treeless, Branchless, Submitted, MergeSteps
<1>6. RefsKept' /\ TipKept' /\ MineHere' /\ WorkKept'
  BY Steered DEF IInv, Placed, Die, Working, Sweeping, Deciding, MergeComes
<1> QED
  BY <1>1, <1>2, <1>3, <1>4, <1>5, <1>6 DEF IInv, Types

LEMMA OrphanKeeps ==
  ASSUME IInv, Orphan
  PROVE  IInv'
<1>1. TreeOK'
  BY DEF IInv, Types, TreeOK, Orphan
<1>2. RefsOK'
  BY DEF IInv, Types, RefsOK, Orphan
<1>3. RunOK'
  BY DEF IInv, Types, RunOK, Orphan, Working, Sweeping, Saving, Abandoning, Running, Steps
<1>4. CountOK'
  BY DEF IInv, Types, CountOK, Orphan
<1>5. Placed'
  BY DEF IInv, Placed, Orphan, Working, Keeping, Treeless, Branchless, Submitted, MergeSteps
<1>6. RefsKept' /\ TipKept' /\ MineHere' /\ WorkKept'
  BY Steered DEF Orphan, Deciding, MergeComes
<1> QED
  BY <1>1, <1>2, <1>3, <1>4, <1>5, <1>6 DEF IInv, Types

LEMMA ReplyKeeps ==
  ASSUME IInv, Reply
  PROVE  IInv'
<1>1. TreeOK'
  BY DEF IInv, Types, TreeOK, Reply
<1>2. RefsOK'
  BY DEF IInv, Types, RefsOK, Reply
<1>3. RunOK'
  BY DEF IInv, Types, RunOK, Reply, Abandoning, Steps
<1>4. CountOK'
  BY DEF IInv, Types, CountOK, Reply
<1>5. Placed'
  BY DEF IInv, Placed, Reply, Working, Abandoning, Keeping, Treeless, Branchless, Submitted,
     MergeSteps
<1>6. RefsKept' /\ TipKept' /\ MineHere' /\ WorkKept'
  BY Steered DEF Reply, Deciding, MergeComes
<1> QED
  BY <1>1, <1>2, <1>3, <1>4, <1>5, <1>6 DEF IInv, Types

LEMMA ResumeKeeps ==
  ASSUME IInv, Resume
  PROVE  IInv'
<1>1. TreeOK'
  BY DEF IInv, Types, TreeOK, Resume, ResumeFits
<1>2. RefsOK'
  BY DEF IInv, Types, RefsOK, Resume, Fetched
<1>3. RunOK'
  BY DEF IInv, Types, RunOK, Resume, Working, Running, Steps
<1>4. CountOK'
  BY DEF IInv, Types, CountOK, Resume
<1>5. Placed'
  BY DEF IInv, Placed, Resume, ResumeFits, Keeping, Treeless, Branchless, Submitted, MergeSteps
<1>6. Safe \subseteq Safe'
  BY SafeGrows DEF Resume
<1>7. RefsKept'
  BY <1>6 DEF IInv, RefsKept, Resume, ResumeFits, Fetched
<1>8. TipKept'
  BY <1>6 DEF TipKept, Resume, ResumeFits
<1>9. MineHere'
  BY <1>6 DEF IInv, MineHere, Contents, Resume, ResumeFits, Deciding, MergeComes
<1>10. WorkKept'
  BY <1>6 DEF IInv, WorkKept, Kept, Contents, Resume, ResumeFits
<1> QED
  BY <1>1, <1>2, <1>3, <1>4, <1>5, <1>7, <1>8, <1>9, <1>10 DEF IInv, Types

LEMMA ResumeRefusedKeeps ==
  ASSUME IInv, ResumeRefused
  PROVE  IInv'
<1>1. TreeOK'
  BY DEF IInv, Types, TreeOK, ResumeRefused
<1>2. RefsOK'
  BY DEF IInv, Types, RefsOK, ResumeRefused
<1>3. RunOK'
  BY DEF IInv, Types, RunOK, ResumeRefused, Keeps, Working, Sweeping, Saving, Abandoning, Running,
     Steps
<1>4. CountOK'
  BY Bounds DEF IInv, Types, CountOK, ResumeRefused
<1>5. Placed'
  BY DEF IInv, Placed, ResumeRefused, Working, Keeping, Treeless, Branchless, Submitted, MergeSteps
<1>6. RefsKept' /\ TipKept' /\ MineHere' /\ WorkKept'
  <2>1. /\ UNCHANGED <<treeVars, refVars, workVars>>
        /\ at' \in {"finish", "fetch", "detach", "record"} /\ at = "resume"
    BY DEF ResumeRefused
  <2>2. reattach' => reattach \/ (tree /\ onBranch)
    BY DEF ResumeRefused
  <2> QED
    BY <2>1, <2>2, Steered DEF Deciding, MergeComes
<1> QED
  BY <1>1, <1>2, <1>3, <1>4, <1>5, <1>6 DEF IInv, Types

LEMMA AbandonPrKeeps ==
  ASSUME IInv, AbandonPr
  PROVE  IInv'
<1>1. TreeOK'
  BY DEF IInv, Types, TreeOK, AbandonPr
<1>2. RefsOK'
  BY DEF IInv, Types, RefsOK, AbandonPr
<1>3. RunOK'
  BY DEF IInv, Types, RunOK, AbandonPr, Abandoning, Steps
<1>4. CountOK'
  BY Bounds DEF IInv, Types, CountOK, AbandonPr
<1>5. Placed'
  BY DEF IInv, Placed, AbandonPr, Working, Abandoning, Keeping, Treeless, Branchless, Submitted,
     MergeSteps
<1>6. Safe \subseteq Safe'
  BY SafeGrows DEF AbandonPr
<1>7. RefsKept'
  BY <1>6 DEF IInv, RefsKept, AbandonPr, PrOpen
<1>8. TipKept'
  BY <1>6 DEF IInv, TipKept, AbandonPr
<1>9. MineHere'
  BY <1>6 DEF IInv, MineHere, AbandonPr, Deciding, MergeComes
<1>10. WorkKept'
  BY <1>6 DEF IInv, WorkKept, Kept, AbandonPr
<1> QED
  BY <1>1, <1>2, <1>3, <1>4, <1>5, <1>7, <1>8, <1>9, <1>10 DEF IInv, Types

LEMMA AbandonTreeKeeps ==
  ASSUME IInv, AbandonTree
  PROVE  IInv'
<1>1. TreeOK'
  <2>1. CASE TreeGone
    BY <2>1 DEF TreeGone, TreeOK
  <2>2. CASE UNCHANGED treeVars
    BY <2>2 DEF IInv, Types, TreeOK, AbandonTree
  <2> QED
    BY <2>1, <2>2 DEF AbandonTree
<1>2. RefsOK'
  BY DEF IInv, Types, RefsOK, AbandonTree
<1>3. RunOK'
  BY DEF IInv, Types, RunOK, AbandonTree, TreeGone, Working, Sweeping, Saving, Abandoning,
     Running, Steps
<1>4. CountOK'
  BY Bounds DEF IInv, Types, CountOK, AbandonTree
<1>5. Placed'
  BY DEF IInv, Types, TreeOK, Placed, AbandonTree, TreeGone, Working, Abandoning, Keeping,
     Treeless, Branchless, Submitted, MergeSteps
<1>6. Safe \subseteq Safe'
  BY SafeGrows DEF AbandonTree
<1>7. RefsKept'
  BY <1>6 DEF IInv, RefsKept, AbandonTree, PrOpen
<1>8. TipKept'
  BY <1>6 DEF IInv, TipKept, AbandonTree, TreeGone
<1>9. MineHere'
  <2>1. ~reattach' /\ ~(at' \in Deciding \/ MergeComes')
    BY DEF IInv, Placed, Keeping, Deciding, MergeComes, AbandonTree
  <2>2. CASE ~tree'
    BY <2>1, <2>2 DEF MineHere
  <2>3. CASE UNCHANGED treeVars
    BY <1>6, <2>1, <2>3 DEF IInv, MineHere, AbandonTree
  <2> QED
    BY <2>2, <2>3 DEF TreeGone, AbandonTree
<1>10. WorkKept'
  BY <1>6, TreeGoneKeeps DEF IInv, WorkKept, Kept, AbandonTree, Safe
<1> QED
  BY <1>1, <1>2, <1>3, <1>4, <1>5, <1>7, <1>8, <1>9, <1>10 DEF IInv, Types

LEMMA AbandonLocalKeeps ==
  ASSUME IInv, AbandonLocal
  PROVE  IInv'
<1>1. TreeOK'
  BY DEF IInv, Types, TreeOK, Placed, AbandonLocal, Treeless
<1>2. RefsOK'
  BY DEF IInv, Types, RefsOK, AbandonLocal
<1>3. RunOK'
  BY DEF IInv, Types, RunOK, AbandonLocal, Working, Sweeping, Saving, Abandoning, Running, Steps
<1>4. CountOK'
  BY Bounds DEF IInv, Types, CountOK, AbandonLocal
<1>5. Placed'
  BY DEF IInv, Types, TreeOK, Placed, AbandonLocal, Working, Abandoning, Keeping, Treeless,
     Branchless, MergeSteps
<1>6. Safe \subseteq Safe'
  BY SafeGrows DEF AbandonLocal
<1>7. RefsKept'
  <2>1. /\ UNCHANGED <<tracked, main, remote, landed, wips, pr>>
        /\ at' \notin {"keep", "prs", "drop", "abDrop", "openPr"}
    BY DEF AbandonLocal
  <2>2. Contents(remote) \subseteq Contents(branch') \cup Contents(tracked) \cup Safe
    <3>1. CASE branch' = branch
      BY <3>1 DEF IInv, RefsKept
    <3>2. CASE branch # NoRef /\ Vouched
      <4>1. Contents(branch) \subseteq Contents(tracked) \cup Safe
        BY <3>2, VouchedIsHeld DEF IInv, Contents
      <4> QED
        BY <4>1 DEF IInv, RefsKept
    <3> QED
      BY <3>1, <3>2 DEF AbandonLocal, Vouched
  <2> QED
    BY <1>6, <2>1, <2>2 DEF IInv, RefsKept, PrOpen
<1>8. TipKept'
  BY <1>6 DEF IInv, Types, TreeOK, Placed, TipKept, AbandonLocal, Treeless
<1>9. MineHere'
  BY <1>6 DEF IInv, Placed, MineHere, AbandonLocal, Treeless, Deciding, MergeComes
<1>10. WorkKept'
  <2>1. UNCHANGED <<treeVars, remote, landed, wips, made, cut>>
    BY DEF AbandonLocal
  <2>2. Contents(branch) \subseteq Contents(branch') \cup Contents(remote) \cup Safe
    <3>1. CASE branch' = branch
      BY <3>1
    <3>2. CASE branch # NoRef /\ Vouched
      <4>1. Contents(branch) \subseteq Contents(tracked) \cup Safe
        BY <3>2, VouchedIsHeld DEF IInv, Contents
      <4> QED
        BY <4>1 DEF IInv, RefsKept
    <3> QED
      BY <3>1, <3>2 DEF AbandonLocal, Vouched
  <2> QED
    BY <2>1, <2>2 DEF IInv, WorkKept, Kept, Safe
<1> QED
  BY <1>1, <1>2, <1>3, <1>4, <1>5, <1>7, <1>8, <1>9, <1>10 DEF IInv, Types

LEMMA AbandonRemoteKeeps ==
  ASSUME IInv, AbandonRemote
  PROVE  IInv'
<1>1. TreeOK'
  BY DEF IInv, Types, TreeOK, AbandonRemote
<1>2. RefsOK'
  BY DEF IInv, Types, RefsOK, AbandonRemote
<1>3. RunOK'
  BY DEF IInv, Types, RunOK, AbandonRemote, Working, Sweeping, Saving, Abandoning, Running, Steps
<1>4. CountOK'
  BY Bounds DEF IInv, Types, CountOK, AbandonRemote
<1>5. Placed'
  BY DEF IInv, Types, TreeOK, Placed, AbandonRemote, Working, Abandoning, Keeping, Branchless,
     MergeSteps
<1>6. Safe \subseteq Safe'
  BY SafeGrows DEF AbandonRemote
<1>7. RefsKept'
  <2>1. /\ UNCHANGED <<branch, tracked, main, remote, landed, pr>>
        /\ at' \in {"abandoned", "abDrop"}
    BY DEF AbandonRemote
  <2>2. at' = "abDrop" => Contents(tracked) \subseteq Safe'
    <3>1. CASE tracked \subseteq main
      BY <1>6, <3>1, LandedIsSafe DEF IInv, RefsKept, Contents
    <3>2. CASE tracked \in wips'
      BY <3>2 DEF Contents, Safe
    <3> QED
      BY <3>1, <3>2 DEF AbandonRemote
  <2> QED
    BY <1>6, <2>1, <2>2 DEF IInv, RefsKept, PrOpen
<1>8. TipKept'
  BY <1>6 DEF IInv, TipKept, AbandonRemote
<1>9. MineHere'
  BY <1>6 DEF IInv, MineHere, AbandonRemote, Deciding, MergeComes
<1>10. WorkKept'
  BY <1>6 DEF IInv, WorkKept, Kept, AbandonRemote
<1> QED
  BY <1>1, <1>2, <1>3, <1>4, <1>5, <1>7, <1>8, <1>9, <1>10 DEF IInv, Types

LEMMA AbandonDropKeeps ==
  ASSUME IInv, AbandonDrop
  PROVE  IInv'
<1>1. TreeOK'
  BY DEF IInv, Types, TreeOK, AbandonDrop
<1>2. RefsOK'
  BY DEF IInv, Types, RefsOK, AbandonDrop, RemoteGone
<1>3. RunOK'
  BY DEF IInv, Types, RunOK, AbandonDrop, Steps
<1>4. CountOK'
  BY Bounds DEF IInv, Types, CountOK, AbandonDrop
<1>5. Placed'
  BY DEF IInv, Types, TreeOK, Placed, AbandonDrop, Working, Keeping, Branchless, MergeSteps
<1>6. Safe \subseteq Safe'
  BY SafeGrows DEF AbandonDrop
<1>7. RefsKept'
  BY <1>6 DEF IInv, RefsKept, Contents, AbandonDrop, RemoteGone, PrOpen
<1>8. TipKept'
  BY <1>6 DEF IInv, TipKept, AbandonDrop
<1>9. MineHere'
  BY <1>6 DEF IInv, MineHere, AbandonDrop, Deciding, MergeComes
<1>10. WorkKept'
  BY <1>6 DEF IInv, WorkKept, Kept, RefsKept, AbandonDrop, Safe
<1> QED
  BY <1>1, <1>2, <1>3, <1>4, <1>5, <1>7, <1>8, <1>9, <1>10 DEF IInv, Types

-----------------------------------------------------------------------------
(* The theorems.                                                           *)

LEMMA InitIInv == Init => IInv
<1> SUFFICES ASSUME Init PROVE IInv
  OBVIOUS
<1>1. TreeOK /\ RefsOK
  BY DEF Init, TreeOK, RefsOK
<1>2. RunOK
  BY DEF Init, RunOK, Steps
<1>3. CountOK
  <2>1. 0 \in 0..MaxFaults /\ 0 \in 0..MaxCrashes /\ 0 \in 0..MaxRuns
    BY Bounds
  <2>2. {} \in Commit
    OBVIOUS
  <2> QED
    BY <2>1, <2>2 DEF Init, CountOK
<1>4. Placed /\ RefsKept
  BY DEF Init, Placed, RefsKept, Keeping, Treeless, Branchless, Submitted, Working, PrOpen, Contents
<1>5. TipKept /\ MineHere /\ WorkKept
  BY DEF Init, TipKept, MineHere, MergeComes, Deciding, WorkKept
<1> QED
  BY <1>1, <1>2, <1>3, <1>4, <1>5 DEF IInv, Types

LEMMA NextIInv == IInv /\ [Next]_vars => IInv'
<1> SUFFICES ASSUME IInv, [Next]_vars PROVE IInv'
  OBVIOUS
<1>1. CASE UNCHANGED vars
  <2>1. Types' /\ Placed' /\ RefsKept'
    BY <1>1 DEF vars, IInv, Types, TreeOK, RefsOK, RunOK, CountOK, Placed, RefsKept, Contents,
       Safe, PrOpen
  <2>2. TipKept' /\ MineHere' /\ WorkKept'
    BY <1>1 DEF vars, IInv, TipKept, MineHere, MergeComes, WorkKept, Kept, Contents, Safe
  <2> QED
    BY <2>1, <2>2 DEF IInv
<1>2. CASE Next
  <2>1. CASE Detach \/ CommitWip \/ PushWip \/ PreserveFails \/ Reattach \/ Record
    BY <2>1, DetachKeeps, CommitWipKeeps, PushWipKeeps, PreserveFailsKeeps, ReattachKeeps,
       RecordKeeps
  <2>2. CASE \/ Start \/ Fetch \/ SweepTree \/ SweepLocal \/ SweepRemote \/ KeepRemote \/ ClosePr
             \/ DropRemote \/ AddTree \/ Claim \/ Unheard \/ CommandFails
    BY <2>2, StartKeeps, FetchKeeps, SweepTreeKeeps, SweepLocalKeeps, SweepRemoteKeeps,
       KeepRemoteKeeps,
       ClosePrKeeps, DropRemoteKeeps, AddTreeKeeps, ClaimKeeps, UnheardKeeps, CommandFailsKeeps
  <2>3. CASE \/ Write \/ ChecksPass \/ CommitWork \/ PushBranch \/ OpenPr \/ Judged \/ EnqueueMerge
             \/ Land \/ WaitMerged \/ Finish
    BY <2>3, WriteKeeps, ChecksPassKeeps, CommitWorkKeeps, PushBranchKeeps, OpenPrKeeps,
       JudgedKeeps,
       EnqueueMergeKeeps, LandKeeps, WaitMergedKeeps, FinishKeeps
  <2>4. CASE ParkStep \/ Requeue \/ Die \/ Orphan \/ Reply \/ Resume \/ ResumeRefused
    BY <2>4, ParkStepKeeps, RequeueKeeps, DieKeeps, OrphanKeeps, ReplyKeeps, ResumeKeeps,
       ResumeRefusedKeeps
  <2>5. CASE AbandonPr \/ AbandonTree \/ AbandonLocal \/ AbandonRemote \/ AbandonDrop
    BY <2>5, AbandonPrKeeps, AbandonTreeKeeps, AbandonLocalKeeps, AbandonRemoteKeeps,
       AbandonDropKeeps
  <2> QED
    BY <1>2, <2>1, <2>2, <2>3, <2>4, <2>5 DEF Next
<1> QED
  BY <1>1, <1>2

LEMMA SpecIInv == Spec => []IInv
BY InitIInv, NextIInv, PTL DEF Spec

(* Every variable of a card's git state keeps its type; a tree has a branch *)
(* and what is not there is clean (realWorktree, abandonCleanup).           *)
THEOREM TypeCorrect == Spec => []TypeOK
<1>1. IInv => TypeOK
  BY DEF IInv, Types, TreeOK, RefsOK, RunOK, CountOK, TypeOK
<1> QED
  BY <1>1, SpecIInv, PTL

(* No edit a card's runs wrote is destroyed by a run, a sweep, an abandon,  *)
(* a failure or a death, as long as no preservation stopped between its     *)
(* commit and its push (sweepWorktreeLeftovers, preserveWorktreeWip,        *)
(* abandonCleanup).                                                         *)
THEOREM NothingDestroyed == Spec => []WorkKept
<1>1. IInv => WorkKept
  BY DEF IInv
<1> QED
  BY <1>1, SpecIInv, PTL

(* What is gated and merged holds every edit of the attempt, but for what   *)
(* is safe elsewhere (prepareResume, realPushPr).                           *)
THEOREM AttemptCarried == Spec => []PrCarriesAttempt
<1>1. IInv => PrCarriesAttempt
  BY DEF IInv, MineHere, PrCarriesAttempt, Deciding, Safe
<1> QED
  BY <1>1, SpecIInv, PTL

(* A sweep that deletes the branch on origin has closed its pull request    *)
(* before (sweepWorktreeLeftovers).                                         *)
THEOREM ClosedOnPurpose == Spec => SweepClosesOnPurpose
<1>1. IInv => (at = "drop" => ~PrOpen)
  BY DEF IInv, RefsKept
<1>2. IInv /\ [Next]_vars => [at = "drop" /\ remote # NoRef /\ remote' = NoRef => ~PrOpen]_vars
  BY <1>1
<1> QED
  BY <1>2, SpecIInv, PTL DEF Spec, SweepClosesOnPurpose
=============================================================================
