--------------------------- MODULE AutoPull_proofs ---------------------------
(***************************************************************************)
(* Proofs about AutoPull, for any number of issues, workers and slots:     *)
(* types, how often an issue is enqueued and commented on, the ceiling a     *)
(* pull keeps, and that a cycle ends.                                      *)
(***************************************************************************)
EXTENDS AutoPull, TLAPS, FiniteSetTheorems, WellFoundedInduction

-----------------------------------------------------------------------------
(* The inductive invariant.                                                *)

Looking == {"fetch", "editors", "write"}
Refusing == {"refuse", "move", "record"}
Walking == {"queue"} \cup Looking \cup Refusing

BoardOK == todo \in SUBSET Issue /\ kind \in [Issue -> Kind]
EntriesOK ==
  /\ fresh \in [Issue -> 0..2] /\ again \in [Issue -> FirstCall \cup {"none"}]
  /\ deferred \in SUBSET Issue
SlotsOK ==
  /\ live \in SUBSET Issue /\ leaving \in SUBSET Issue /\ liveFile \in SUBSET Issue
  /\ claimed \in 0..MaxIssue
MemoryOK ==
  /\ journaled \in SUBSET Issue /\ over \in SUBSET Issue /\ refused \in SUBSET Issue
  /\ missed \in SUBSET Issue /\ standing \in BOOLEAN /\ cool \in SUBSET FirstCall
BoundsOK ==
  /\ waits \in 0..MaxWaits /\ returns \in 0..MaxReturns
  /\ cools \in 0..MaxCools /\ faults \in 0..MaxFaults
CountsOK == comments \in [Issue -> Nat] /\ pulled \in [Issue -> Nat]

\* A scanner that looks at a candidate has one, and a slot for it.
WalkOK ==
  /\ pull \in Pull
  /\ pull.pc \in Walking => pull.left # {} /\ pull.slots > 0

Types ==
  BoardOK /\ EntriesOK /\ SlotsOK /\ MemoryOK /\ BoundsOK /\ CountsOK /\ WalkOK

\* Whatever has a worker, or is over, left a directory when it was claimed.
JournalKept ==
  /\ over \subseteq journaled /\ live \subseteq journaled
  /\ claimed # 0 => claimed \in journaled

\* What was enqueued is known for good, by its entry or by its directory.  What
\* the scanner is about to enqueue was not, unless its entry was taken between
\* the two readings: then it has a directory.
Allowed(i) == IF i \in missed THEN 2 ELSE 1
PulledKnown ==
  /\ \A i \in Issue : pulled[i] <= Allowed(i) /\ fresh[i] <= pulled[i]
  /\ \A i \in Issue : pulled[i] > 0 => Known(i)
  /\ missed \subseteq journaled
  /\ pull.pc = "queue" => pulled[Current] <= 1 /\ (Current \in journaled => Current \in missed)
  /\ pull.pc \in Looking => pulled[Current] < Allowed(Current)

\* The comment of a first refusal is owed its event: by the scanner, or to a
\* death.
Owed(i) == pull.pc \in {"move", "record"} /\ i = Current
CommentsPaid ==
  \A i \in Issue : comments[i] <= faults + (IF i \in refused \/ Owed(i) THEN 1 ELSE 0)

IInv == Types /\ JournalKept /\ PulledKnown /\ CommentsPaid

-----------------------------------------------------------------------------
(* Lemmas.                                                                 *)

LEMMA Bounds ==
  /\ MaxIssue \in Nat /\ MaxIssue > 0 /\ Workers \in Nat
  /\ PerCycle \in Nat /\ MaxMoves \in Nat
  /\ MaxWaits \in Nat /\ MaxReturns \in Nat /\ MaxCools \in Nat /\ MaxFaults \in Nat
BY AutoPullAssumption

\* A set of issues has a first one.
LEMMA FirstIssue ==
  ASSUME NEW S \in SUBSET Issue, S # {}
  PROVE  (CHOOSE i \in S : \A j \in S : i <= j) \in S
<1>1. S \subseteq Nat
  BY Bounds DEF Issue
<1>2. PICK x \in S : \A y \in S : ~ (<<y, x>> \in OpToRel(<, Nat))
  BY <1>1, WFMin, NatLessThanWellFounded
<1>3. ASSUME NEW y \in S PROVE x <= y
  <2>1. x \in Nat /\ y \in Nat
    BY <1>1
  <2>2. y < x => <<y, x>> \in OpToRel(<, Nat)
    BY <2>1 DEF OpToRel
  <2>3. ~(y < x)
    BY <1>2, <2>2, Zenon
  <2> QED
    BY <2>1, <2>3
<1> QED
  BY <1>3

LEMMA CurrentListed ==
  ASSUME WalkOK, pull.left # {}
  PROVE  Current \in pull.left /\ Current \in Issue
<1>1. pull.left \in SUBSET Issue
  BY DEF WalkOK, Pull
<1> QED
  BY <1>1, FirstIssue DEF Current

\* The candidate is the same as long as none was dropped.
LEMMA SameCurrent == pull'.left = pull.left => Current' = Current
BY DEF Current

LEMMA Counted ==
  ASSUME NEW S \in SUBSET Issue
  PROVE  Cardinality(S) \in 0..MaxIssue
<1>1. IsFiniteSet(Issue) /\ Cardinality(Issue) = MaxIssue
  BY Bounds, FS_Interval DEF Issue
<1>2. IsFiniteSet(S) /\ Cardinality(S) <= MaxIssue
  BY <1>1, FS_Subset
<1> QED
  BY <1>2, FS_CardinalityType, Bounds

LEMMA TypesImplyTypeOK == Types => TypeOK
BY DEF Types, BoardOK, EntriesOK, SlotsOK, MemoryOK, BoundsOK, CountsOK, WalkOK, TypeOK

-----------------------------------------------------------------------------
(* Moves of the scanner's walk.                                            *)

LEMMA IdleWalks == Idle \in Pull /\ Idle.pc = "idle"
BY Bounds DEF Idle, Pull

LEMMA BudgetWalks ==
  ASSUME NEW r \in Pull, NEW n \in 0..PerCycle
  PROVE  [r EXCEPT !.pc = "board", !.slots = n, !.moves = MaxMoves] \in Pull
<1>1. MaxMoves \in 0..MaxMoves
  BY Bounds
<1>2. [r EXCEPT !.pc = "board"] \in Pull
  BY DEF Pull
<1>3. [r EXCEPT !.pc = "board", !.slots = n] \in Pull
  BY <1>2 DEF Pull
<1> QED
  BY <1>1, <1>3 DEF Pull

LEMMA NowWalks ==
  ASSUME WalkOK, NEW at \in Walking, pull.left # {}, pull.slots > 0, Now(at)
  PROVE  WalkOK' /\ pull'.left = pull.left /\ pull'.pc = at
BY DEF WalkOK, Now, Pull, Walking, Looking, Refusing

LEMMA SkipWalks ==
  ASSUME WalkOK, Skip
  PROVE  WalkOK' /\ pull'.pc = "walk"
BY DEF WalkOK, Skip, Pull, Walking, Looking, Refusing

LEMMA SpendWalks ==
  ASSUME WalkOK, pull.slots > 0, Spend
  PROVE  WalkOK' /\ pull'.pc = "walk"
<1>1. pull.slots - 1 \in 0..PerCycle /\ pull.left \ {Current} \in SUBSET Issue
  BY Bounds DEF WalkOK, Pull
<1> QED
  BY <1>1 DEF WalkOK, Spend, Pull, Walking, Looking, Refusing

-----------------------------------------------------------------------------
(* The types.                                                              *)

\* What the budget makes of its counts is a number of slots.
LEMMA LimitBounded ==
  ASSUME WalkOK, liveFile \in SUBSET Issue
  PROVE  Limit \in 0..PerCycle
<1>1. Cardinality(liveFile) \in Nat /\ pull.runnable \in Nat /\ pull.held \in Nat
  BY Counted DEF WalkOK, Pull
<1>2. Headroom(pull.runnable, pull.held, Cardinality(liveFile)) \in Int
  BY <1>1, Bounds DEF Headroom, Least
<1> QED
  BY <1>2, Bounds DEF Limit, Least

LEMMA InitTypes == Init => Types
<1> SUFFICES ASSUME Init PROVE Types
  OBVIOUS
<1>1. kind \in [Issue -> Kind]
  <2>1. PICK top \in {<<>>, <<"outsider", "edited", "raw">>, <<"gone">>} :
          kind = [i \in Issue |-> IF i <= Len(top) THEN top[i] ELSE "trusted"]
    BY DEF Init
  <2>2. ASSUME NEW i \in Issue PROVE kind[i] \in Kind
    <3>1. i \in Nat /\ i > 0
      BY Bounds DEF Issue
    <3>2. CASE top = <<>>
      BY <2>1, <3>1, <3>2 DEF Kind
    <3>3. CASE top = <<"outsider", "edited", "raw">>
      <4>1. i <= Len(top) => i \in {1, 2, 3}
        BY <3>1, <3>3
      <4> QED
        BY <2>1, <3>3, <4>1 DEF Kind
    <3>4. CASE top = <<"gone">>
      BY <2>1, <3>1, <3>4 DEF Kind
    <3> QED
      BY <2>1, <3>2, <3>3, <3>4
  <2> QED
    BY <2>1, <2>2
<1>2. WalkOK
  BY IdleWalks DEF Init, WalkOK, Walking, Looking, Refusing
<1>3. BoardOK /\ EntriesOK /\ SlotsOK
  BY <1>1, Bounds DEF Init, BoardOK, EntriesOK, SlotsOK
<1>5. MemoryOK
  BY DEF Init, MemoryOK
<1>4. BoundsOK /\ CountsOK
  BY Bounds DEF Init, BoundsOK, CountsOK
<1> QED
  BY <1>2, <1>3, <1>4, <1>5 DEF Types

\* An entry or a claim changes neither the walk nor the counts.
LEMMA OthersTypes == Types /\ Others => Types'
<1> SUFFICES ASSUME Types, Others PROVE Types'
  OBVIOUS
<1> USE DEF board, entries, cards, slots, history, bounds
<1>1. CASE Publish
  <2>1. claimed \in Issue
    BY <1>1, Bounds DEF Publish, Types, SlotsOK, Issue
  <2>2. SlotsOK'
    BY <1>1, <2>1, Bounds DEF Publish, Types, SlotsOK
  <2> QED
    BY <1>1, <2>2 DEF Publish, Types, BoardOK, EntriesOK, MemoryOK, BoundsOK, CountsOK, WalkOK
<1>2. CASE Heals
  <2>1. MemoryOK'
    BY <1>2 DEF Heals, Types, MemoryOK
  <2> QED
    BY <1>2, <2>1 DEF Heals, Types, BoardOK, EntriesOK, SlotsOK, BoundsOK, CountsOK, WalkOK
<1>3. ASSUME NEW i \in Issue, Claim(i) PROVE Types'
  <2>1. EntriesOK'
    BY <1>3 DEF Claim, TakeFresh, TakeAgain, Due, Types, EntriesOK
  <2>2. MemoryOK'
    BY <1>3 DEF Claim, Types, MemoryOK
  <2>3. SlotsOK'
    BY <1>3, Bounds DEF Claim, Types, SlotsOK, Issue
  <2> QED
    BY <1>3, <2>1, <2>2, <2>3 DEF Claim, Types, BoardOK, BoundsOK, CountsOK, WalkOK
<1>4. ASSUME NEW i \in Issue, Waits(i) PROVE Types'
  <2>1. BoundsOK'
    BY <1>4, Bounds DEF Waits, Types, BoundsOK
  <2>2. EntriesOK'
    BY <1>4 DEF Waits, Types, EntriesOK
  <2>3. SlotsOK'
    BY <1>4 DEF Waits, Types, SlotsOK
  <2> QED
    BY <1>4, <2>1, <2>2, <2>3 DEF Waits, Types, BoardOK, MemoryOK, CountsOK, WalkOK
<1>5. ASSUME NEW i \in Issue, Settles(i) PROVE Types'
  <2>1. MemoryOK'
    BY <1>5 DEF Settles, Types, MemoryOK
  <2> QED
    BY <1>5, <2>1 DEF Settles, Types, BoardOK, EntriesOK, SlotsOK, BoundsOK, CountsOK, WalkOK
<1>6. ASSUME NEW i \in Issue, Unlist(i) PROVE Types'
  <2>1. SlotsOK'
    BY <1>6 DEF Unlist, Types, SlotsOK
  <2> QED
    BY <1>6, <2>1 DEF Unlist, Types, BoardOK, EntriesOK, MemoryOK, BoundsOK, CountsOK, WalkOK
<1>7. ASSUME NEW i \in Issue, ComesDue(i) PROVE Types'
  BY <1>7 DEF ComesDue, Types, BoardOK, EntriesOK, SlotsOK, MemoryOK, BoundsOK, CountsOK, WalkOK
<1> QED
  BY <1>1, <1>2, <1>3, <1>4, <1>5, <1>6, <1>7 DEF Others

\* What a step of the scanner leaves alone.
LEMMA ScannerFrame ==
  ASSUME Types, PulledKnown, Scanner
  PROVE  SlotsOK' /\ BoardOK' /\ EntriesOK' /\ MemoryOK' /\ CountsOK' /\ BoundsOK'
<1> USE DEF board, entries, cards, slots, history, bounds
<1>c. pull.pc \in Walking => Current \in Issue
  BY CurrentListed DEF Types, WalkOK
<1>1. CASE Write
  <2>1. Current \in Issue /\ pulled[Current] \in {0, 1} /\ fresh[Current] \in {0, 1}
    BY <1>1, <1>c DEF Write, PulledKnown, Allowed, Looking, Walking, Types, EntriesOK, CountsOK
  <2>2. EntriesOK' /\ CountsOK'
    BY <1>1, <2>1 DEF Write, Types, EntriesOK, CountsOK
  <2> QED
    BY <1>1, <2>2 DEF Write, Types, SlotsOK, BoardOK, MemoryOK, BoundsOK
<1>2. CASE Refuse
  <2>1. CountsOK'
    BY <1>2, <1>c DEF Refuse, Types, CountsOK, Walking, Refusing
  <2> QED
    BY <1>2, <2>1 DEF Refuse, Types, SlotsOK, BoardOK, EntriesOK, MemoryOK, BoundsOK
<1>3. CASE Move
  <2>1. BoardOK'
    BY <1>3 DEF Move, Types, BoardOK
  <2> QED
    BY <1>3, <2>1 DEF Move, Types, SlotsOK, EntriesOK, MemoryOK, CountsOK, BoundsOK
<1>4. CASE Record
  <2>1. MemoryOK'
    BY <1>4, <1>c DEF Record, Types, MemoryOK, Walking, Refusing
  <2>2. BoundsOK'
    BY <1>4, Bounds DEF Record, Fault, Types, BoundsOK
  <2> QED
    BY <1>4, <2>1, <2>2 DEF Record, Types, SlotsOK, BoardOK, EntriesOK, CountsOK
<1>5. CASE Board
  <2>1. BoundsOK'
    BY <1>5, Bounds DEF Board, Fault, Types, BoundsOK
  <2>2. MemoryOK'
    BY <1>5 DEF Board, Types, MemoryOK
  <2> QED
    BY <1>5, <2>1, <2>2 DEF Board, Types, SlotsOK, BoardOK, EntriesOK, CountsOK
<1>6. CASE Done
  <2>1. MemoryOK'
    BY <1>6 DEF Done, Types, MemoryOK
  <2> QED
    BY <1>6, <2>1 DEF Done, Types, SlotsOK, BoardOK, EntriesOK, CountsOK, BoundsOK
<1>7. CASE Count \/ Budget \/ Exists \/ InQueue \/ Fetch \/ Editors
  <2>1. UNCHANGED <<board, comments, cards, slots, refused, standing, cool, history, bounds>>
    BY <1>7 DEF Count, Budget, Exists, InQueue, Fetch, Editors
  <2> QED
    BY <2>1 DEF Types, SlotsOK, BoardOK, EntriesOK, MemoryOK, CountsOK, BoundsOK
<1> QED
  BY <1>1, <1>2, <1>3, <1>4, <1>5, <1>6, <1>7 DEF Scanner

\* A step of the scanner keeps it at a candidate it has a slot for.
LEMMA ScannerWalks == Types /\ Scanner => WalkOK'
<1> SUFFICES ASSUME Types, Scanner PROVE WalkOK'
  OBVIOUS
<1>w. WalkOK
  BY DEF Types
<1>i. Idle \in Pull /\ Idle.pc \notin Walking
  BY IdleWalks DEF Walking, Looking, Refusing
<1>1. CASE Count
  <2>1. Runnable \in SUBSET Issue /\ Queued \ Runnable \in SUBSET Issue
    BY DEF Runnable, Queued
  <2>2. Cardinality(Runnable) \in 0..MaxIssue /\ Cardinality(Queued \ Runnable) \in 0..MaxIssue
    BY <2>1, Counted
  <2> QED
    BY <1>1, <1>i, <2>2 DEF Count, WalkOK, Pull, Walking, Looking, Refusing
<1>2. CASE Budget
  <2>1. Limit \in 0..PerCycle
    BY LimitBounded DEF Types, SlotsOK
  <2>2. [Idle EXCEPT !.pc = "board", !.slots = Limit, !.moves = MaxMoves] \in Pull
    BY <1>i, <2>1, BudgetWalks
  <2> QED
    BY <1>2, <1>i, <2>2 DEF Budget, WalkOK, Pull, Walking, Looking, Refusing
<1>3. CASE Board
  <2>1. todo \in SUBSET Issue
    BY DEF Types, BoardOK
  <2> QED
    BY <1>3, <1>w, <1>i, <2>1 DEF Board, WalkOK, Pull, Walking, Looking, Refusing
<1>4. CASE Exists
  BY <1>4, <1>w, SkipWalks, NowWalks DEF Exists, Walks, Walking, Looking
<1>5. CASE Fetch
  BY <1>5, <1>w, SkipWalks, NowWalks DEF Fetch, WalkOK, Walking, Looking, Refusing
<1>6. CASE Editors
  BY <1>6, <1>w, SpendWalks, NowWalks DEF Editors, WalkOK, Walking, Looking, Refusing
<1>7. CASE Write
  BY <1>7, <1>w, SpendWalks DEF Write, WalkOK, Walking, Looking
<1>8. CASE Refuse
  BY <1>8, <1>w, NowWalks DEF Refuse, WalkOK, Walking, Refusing
<1>9. CASE Move
  <2>1. pull.pc = "move" /\ pull.left # {} /\ pull.slots > 0
    BY <1>9, <1>w DEF Move, WalkOK, Walking, Refusing
  <2>2. CASE Now("record")
    BY <1>w, <2>1, <2>2, NowWalks DEF Walking, Refusing
  <2>3. CASE pull.moves > 0 /\ pull' = [pull EXCEPT !.pc = "record", !.moves = @ - 1]
    <3>1. pull.moves - 1 \in 0..MaxMoves
      BY <1>w, <2>3, Bounds DEF WalkOK, Pull
    <3> QED
      BY <1>w, <2>1, <2>3, <3>1 DEF WalkOK, Pull, Walking, Looking, Refusing
  <2> QED
    BY <1>9, <2>2, <2>3 DEF Move
<1>10. CASE Record
  BY <1>10, <1>w, SkipWalks DEF Record, PassOver
<1>11. CASE Done
  BY <1>11, <1>i DEF Done, WalkOK
<1>12. CASE InQueue
  BY <1>12, <1>w, SkipWalks, NowWalks DEF InQueue, WalkOK, Walking, Looking
<1> QED
  BY <1>1, <1>2, <1>3, <1>4, <1>5, <1>6, <1>7, <1>8, <1>9, <1>10, <1>11, <1>12 DEF Scanner

LEMMA NextTypes == Types /\ PulledKnown /\ [Next]_vars => Types'
<1> SUFFICES ASSUME Types, PulledKnown, [Next]_vars PROVE Types'
  OBVIOUS
<1> USE DEF board, entries, cards, slots, history, bounds
<1>i. Idle \in Pull /\ Idle.pc \notin Walking
  BY IdleWalks DEF Walking, Looking, Refusing
<1>1. CASE Scanner
  BY <1>1, ScannerFrame, ScannerWalks DEF Types
<1>2. CASE Others
  BY <1>2, OthersTypes
<1>3. CASE Fails
  <2>1. WalkOK'
    BY <1>3, SpendWalks DEF Fails, Types, WalkOK, Walking, Looking
  <2>2. BoundsOK'
    BY <1>3, Bounds DEF Fails, Fault, Types, BoundsOK
  <2> QED
    BY <1>3, <2>1, <2>2 DEF Fails, Types, BoardOK, EntriesOK, SlotsOK, MemoryOK, CountsOK
<1>4. CASE Dies
  <2>1. WalkOK'
    BY <1>4, <1>i DEF Dies, WalkOK
  <2>2. BoundsOK'
    BY <1>4, Bounds DEF Dies, Fault, Types, BoundsOK
  <2> QED
    BY <1>4, <2>1, <2>2 DEF Dies, Types, BoardOK, EntriesOK, SlotsOK, MemoryOK, CountsOK
<1>5. CASE Restart
  <2>1. WalkOK'
    BY <1>5, <1>i DEF Restart, WalkOK
  <2>2. BoundsOK' /\ SlotsOK'
    BY <1>5, Bounds DEF Restart, Fault, Types, BoundsOK, SlotsOK
  <2> QED
    BY <1>5, <2>1, <2>2 DEF Restart, Types, BoardOK, EntriesOK, MemoryOK, CountsOK
<1>6. ASSUME NEW m \in FirstCall, Cools(m) PROVE Types'
  <2>1. MemoryOK'
    BY <1>6 DEF Cools, Types, MemoryOK
  <2>2. BoundsOK'
    BY <1>6, Bounds DEF Cools, Types, BoundsOK
  <2> QED
    BY <1>6, <2>1, <2>2 DEF Cools, Types, BoardOK, EntriesOK, SlotsOK, CountsOK, WalkOK
<1>7. CASE UNCHANGED vars
  BY <1>7 DEF vars, Types, BoardOK, EntriesOK, SlotsOK, MemoryOK, BoundsOK, CountsOK, WalkOK
<1>8. ASSUME NEW i \in Issue, Returns(i) PROVE Types'
  <2>1. EntriesOK'
    BY <1>8 DEF Returns, Types, EntriesOK
  <2>2. BoundsOK'
    BY <1>8, Bounds DEF Returns, Types, BoundsOK
  <2> QED
    BY <1>8, <2>1, <2>2 DEF Returns, Types, BoardOK, SlotsOK, MemoryOK, CountsOK, WalkOK
<1> QED
  BY <1>1, <1>2, <1>3, <1>4, <1>5, <1>6, <1>7, <1>8 DEF Next

-----------------------------------------------------------------------------
(* An issue is enqueued once.                                              *)

LEMMA NextJournal == Types /\ JournalKept /\ [Next]_vars => JournalKept'
<1> SUFFICES ASSUME Types, JournalKept, [Next]_vars PROVE JournalKept'
  OBVIOUS
<1> USE DEF board, entries, cards, slots, history, bounds
<1>1. CASE UNCHANGED <<journaled, over, live, claimed>>
  BY <1>1 DEF JournalKept
<1>2. CASE Publish
  BY <1>2 DEF Publish, JournalKept
<1>3. ASSUME NEW i \in Issue, Claim(i) PROVE JournalKept'
  BY <1>3 DEF Claim, JournalKept
<1>4. ASSUME NEW i \in Issue, Settles(i) PROVE JournalKept'
  BY <1>4 DEF Settles, JournalKept
<1>5. ASSUME NEW i \in Issue, Unlist(i) PROVE JournalKept'
  BY <1>5 DEF Unlist, JournalKept
<1>6. CASE Restart
  BY <1>6 DEF Restart, JournalKept
<1>7. CASE Scanner \/ Fails \/ Dies \/ UNCHANGED vars
  BY <1>1, <1>7 DEF Scanner, Count, Budget, Board, Exists, InQueue, Fetch, Editors, Write, Refuse, Move,
     Record, Done, Fails, Dies, vars
<1>8. CASE Heals \/ \E m \in FirstCall : Cools(m)
  BY <1>1, <1>8 DEF Heals, Cools
<1>9. CASE \E i \in Issue : Waits(i) \/ ComesDue(i) \/ Returns(i)
  BY <1>1, <1>9 DEF Waits, ComesDue, Returns
<1> QED
  BY <1>2, <1>3, <1>4, <1>5, <1>6, <1>7, <1>8, <1>9 DEF Next, Others

\* A scanner that does not look at a candidate has none to enqueue.
LEMMA NothingLooked ==
  ASSUME pull'.pc \notin {"queue"} \cup Looking, missed' \subseteq journaled',
         \A i \in Issue : pulled'[i] <= Allowed(i)' /\ fresh'[i] <= pulled'[i],
         \A i \in Issue : pulled'[i] > 0 => Known(i)'
  PROVE  PulledKnown'
BY DEF PulledKnown

\* What has an entry or a directory keeps one of them, and a candidate the
\* scanner looks for gets no directory that it does not miss.
LEMMA StaysKnown ==
  ASSUME PulledKnown, pulled' = pulled, pull' = pull, missed \subseteq missed',
         missed' \subseteq journaled', pull.pc \in {"queue"} \cup Looking => Current \in Issue,
         pull.pc = "queue" /\ Current \in journaled' => Current \in journaled \cup missed',
         \A i \in Issue : fresh'[i] <= fresh[i] /\ (Known(i) => Known(i)'),
         fresh \in [Issue -> 0..2], fresh' \in [Issue -> 0..2], pulled \in [Issue -> Nat]
  PROVE  PulledKnown'
<1>1. Current' = Current
  BY SameCurrent
<1>2. ASSUME NEW i \in Issue PROVE Allowed(i) <= Allowed(i)' /\ Allowed(i) \in Nat /\ Allowed(i)' \in Nat
  BY DEF Allowed
<1>3. \A i \in Issue : pulled'[i] <= Allowed(i)' /\ fresh'[i] <= pulled'[i]
  BY <1>2 DEF PulledKnown
<1>4. pull'.pc \in Looking => pulled'[Current'] < Allowed(Current)'
  BY <1>1, <1>2 DEF PulledKnown
<1>5. pull'.pc = "queue" => pulled'[Current'] <= 1 /\ (Current' \in journaled' => Current' \in missed')
  BY <1>1 DEF PulledKnown
<1>6. \A i \in Issue : pulled'[i] > 0 => Known(i)'
  BY DEF PulledKnown
<1> QED
  BY <1>3, <1>4, <1>5, <1>6 DEF PulledKnown

LEMMA NextPulled == Types /\ Types' /\ JournalKept /\ PulledKnown /\ [Next]_vars => PulledKnown'
<1> SUFFICES ASSUME Types, Types', JournalKept, PulledKnown, [Next]_vars PROVE PulledKnown'
  OBVIOUS
<1> USE DEF board, entries, cards, slots, history, bounds
<1>t. /\ fresh \in [Issue -> 0..2] /\ fresh' \in [Issue -> 0..2] /\ pulled \in [Issue -> Nat]
      /\ again \in [Issue -> FirstCall \cup {"none"}] /\ missed \subseteq journaled
  BY DEF Types, EntriesOK, CountsOK, PulledKnown
<1>c. pull.pc \in Walking => Current \in Issue
  BY CurrentListed DEF Types, WalkOK
<1>q. pull.pc \in {"queue"} \cup Looking => Current \in Issue
  BY <1>c DEF Walking
<1>1. CASE UNCHANGED <<cards, pull, history>>
  <2>1. \A i \in Issue : Known(i)' = Known(i)
    BY <1>1 DEF Known, Queued
  <2> QED
    BY <1>1, <1>t, <1>q, <2>1, StaysKnown
<1>2. CASE UNCHANGED <<cards, history>> /\ pull'.pc \notin {"queue"} \cup Looking
  <2>1. \A i \in Issue : Known(i)' = Known(i)
    BY <1>2 DEF Known, Queued
  <2>2. \A i \in Issue : pulled'[i] <= Allowed(i)' /\ fresh'[i] <= pulled'[i]
    BY <1>2 DEF PulledKnown, Allowed
  <2>3. \A i \in Issue : pulled'[i] > 0 => Known(i)'
    BY <1>2, <2>1 DEF PulledKnown
  <2> QED
    BY <1>2, <1>t, <2>2, <2>3, NothingLooked
<1>3. ASSUME NEW i \in Issue, Claim(i) PROVE PulledKnown'
  <2>1. ASSUME NEW j \in Issue PROVE fresh'[j] <= fresh[j]
    BY <1>3, <1>t DEF Claim, TakeFresh, TakeAgain
  <2>2. ASSUME NEW j \in Issue, Known(j) PROVE Known(j)'
    <3>1. i \in journaled' /\ journaled \subseteq journaled'
      BY <1>3 DEF Claim, JournalKept
    <3>2. j # i => fresh'[j] = fresh[j] /\ again'[j] = again[j]
      BY <1>3, <1>t DEF Claim, TakeFresh, TakeAgain
    <3> QED
      BY <2>2, <3>1, <3>2 DEF Known, Queued
  <2>3. pulled' = pulled /\ pull' = pull
    BY <1>3 DEF Claim
  <2>4. missed \subseteq missed' /\ missed' \subseteq journaled'
    BY <1>3, <1>t DEF Claim
  <2>5. pull.pc = "queue" /\ Current \in journaled' => Current \in journaled \cup missed'
    BY <1>3 DEF Claim
  <2> QED
    BY <1>t, <1>q, <2>1, <2>2, <2>3, <2>4, <2>5, StaysKnown
<1>4. ASSUME NEW i \in Issue, Waits(i) \/ ComesDue(i) \/ Returns(i) PROVE PulledKnown'
  <2>1. UNCHANGED <<fresh, journaled, pulled, missed, pull>>
    BY <1>4 DEF Waits, ComesDue, Returns
  <2>2. \A j \in Issue : again[j] # "none" => again'[j] # "none"
    BY <1>4, <1>t DEF Waits, ComesDue, Returns, FirstCall
  <2>3. \A j \in Issue : Known(j) => Known(j)'
    BY <2>1, <2>2 DEF Known, Queued
  <2>4. \A j \in Issue : fresh'[j] <= fresh[j]
    BY <1>t, <2>1
  <2> QED
    BY <1>t, <1>q, <2>1, <2>3, <2>4, StaysKnown
<1>5. ASSUME NEW i \in Issue, Settles(i) PROVE PulledKnown'
  <2>1. UNCHANGED <<fresh, again, journaled, pulled, missed, pull>>
    BY <1>5 DEF Settles
  <2>2. \A j \in Issue : fresh'[j] <= fresh[j] /\ (Known(j) => Known(j)')
    BY <1>t, <2>1 DEF Known, Queued
  <2> QED
    BY <1>t, <1>q, <2>1, <2>2, StaysKnown
<1>6. CASE Publish \/ Heals \/ (\E i \in Issue : Unlist(i)) \/ (\E m \in FirstCall : Cools(m))
           \/ UNCHANGED vars
  BY <1>1, <1>6 DEF Publish, Heals, Unlist, Cools, vars
<1>7. CASE Count \/ Budget \/ Board \/ Done \/ Fails \/ Dies \/ Restart
  <2>1. pull'.pc \notin {"queue"} \cup Looking
    BY <1>7, SpendWalks, IdleWalks
       DEF Count, Budget, Board, Done, Fails, Dies, Restart, Looking, Types, WalkOK, Walking, Idle, Pull
  <2> QED
    BY <1>2, <1>7, <2>1 DEF Count, Budget, Board, Done, Fails, Dies, Restart
<1>8. CASE Refuse \/ Move \/ Record
  <2>1. pull'.pc \notin {"queue"} \cup Looking
    BY <1>8, SkipWalks DEF Refuse, Move, Record, PassOver, Now, Looking, Types, WalkOK, Pull
  <2> QED
    BY <1>2, <1>8, <2>1 DEF Refuse, Move, Record
<1>9. CASE Exists
  <2>1. CASE Current \in journaled
    BY <1>2, <1>9, <2>1, SkipWalks DEF Exists, Looking, Types
  <2>2. CASE Current \notin journaled
    <3>1. pull.left # {} /\ Now("queue")
      BY <1>9, <2>2 DEF Exists, Walks
    <3>2. Current' = Current /\ Current \in Issue /\ pull'.pc = "queue"
      BY <3>1, SameCurrent, CurrentListed DEF Now, Types, WalkOK, Pull
    <3>3. pulled[Current] <= 1
      BY <1>t, <2>2, <3>2 DEF PulledKnown, Allowed
    <3>4. UNCHANGED <<fresh, again, journaled, pulled, missed>>
      BY <1>9 DEF Exists
    <3>5. \A j \in Issue : Known(j)' = Known(j) /\ Allowed(j)' = Allowed(j)
      BY <3>4 DEF Known, Queued, Allowed
    <3> QED
      BY <2>2, <3>2, <3>3, <3>4, <3>5 DEF PulledKnown, Looking
  <2> QED
    BY <2>1, <2>2
<1>12. CASE InQueue
  <2>1. CASE Current \in Queued
    BY <1>2, <1>12, <2>1, SkipWalks DEF InQueue, Looking, Types
  <2>2. CASE Current \notin Queued
    <3>1. pull.pc = "queue" /\ Now("fetch") /\ Current \in Issue
      BY <1>12, <1>q, <2>2 DEF InQueue
    <3>2. Current' = Current /\ pull'.pc = "fetch"
      BY <3>1, SameCurrent DEF Now, Types, WalkOK, Pull
    <3>3. pulled[Current] < Allowed(Current)
      <4>1. CASE Current \in journaled
        BY <1>t, <3>1, <4>1 DEF PulledKnown, Allowed
      <4>2. CASE Current \notin journaled
        BY <1>t, <2>2, <3>1, <4>2 DEF PulledKnown, Allowed, Known
      <4> QED
        BY <4>1, <4>2
    <3>4. UNCHANGED <<fresh, again, journaled, pulled, missed>>
      BY <1>12 DEF InQueue
    <3>5. \A j \in Issue : Known(j)' = Known(j) /\ Allowed(j)' = Allowed(j)
      BY <3>4 DEF Known, Queued, Allowed
    <3> QED
      BY <3>1, <3>2, <3>3, <3>4, <3>5 DEF PulledKnown
  <2> QED
    BY <2>1, <2>2
<1>10. CASE Fetch \/ Editors
  <2>1. /\ UNCHANGED <<fresh, again, journaled, pulled, missed>> /\ pull.pc \in Looking
        /\ Current \in Issue
    BY <1>10, <1>q DEF Fetch, Editors, Looking
  <2>2. \A j \in Issue : Known(j)' = Known(j) /\ Allowed(j)' = Allowed(j)
    BY <2>1 DEF Known, Queued, Allowed
  <2>3. CASE Skip \/ Spend
    <3>1. pull'.pc \notin {"queue"} \cup Looking
      BY <2>1, <2>3, SkipWalks, SpendWalks DEF Types, WalkOK, Walking, Looking
    <3> QED
      BY <2>1, <2>2, <3>1 DEF PulledKnown
  <2>4. CASE pull'.left = pull.left /\ pull'.pc # "queue"
    BY <2>1, <2>2, <2>4, SameCurrent DEF PulledKnown
  <2> QED
    BY <1>10, <2>3, <2>4 DEF Fetch, Editors, Now, Types, WalkOK, Pull
<1>11. CASE Write
  <2>1. Current \in Issue /\ pulled[Current] < Allowed(Current) /\ fresh[Current] <= pulled[Current]
    BY <1>11, <1>q DEF Write, PulledKnown, Looking
  <2>2. pull'.pc \notin {"queue"} \cup Looking
    BY <1>11, SpendWalks DEF Write, Types, WalkOK, Walking, Looking
  <2>3. /\ pulled'[Current] = pulled[Current] + 1 /\ fresh'[Current] = fresh[Current] + 1
        /\ \A j \in Issue \ {Current} : pulled'[j] = pulled[j] /\ fresh'[j] = fresh[j]
    BY <1>11, <2>1, <1>t DEF Write
  <2>4. UNCHANGED <<again, journaled, missed>>
    BY <1>11 DEF Write
  <2>5. \A j \in Issue : pulled'[j] <= Allowed(j)' /\ fresh'[j] <= pulled'[j]
    BY <2>1, <2>3, <2>4, <1>t DEF PulledKnown, Allowed
  <2>6. \A j \in Issue : pulled'[j] > 0 => Known(j)'
    BY <2>1, <2>3, <2>4, <1>t DEF PulledKnown, Known, Queued
  <2> QED
    BY <1>t, <2>2, <2>4, <2>5, <2>6, NothingLooked
<1> QED
  BY <1>3, <1>4, <1>5, <1>6, <1>7, <1>8, <1>9, <1>10, <1>11, <1>12 DEF Next, Scanner, Others

-----------------------------------------------------------------------------
(* A refusal is commented on once.                                         *)

\* A step that comments on nothing, forgets no refusal, and lets go of a
\* comment's event only at the price of a fault.
LEMMA CommentsStay ==
  ASSUME Types, Types', CommentsPaid, comments' = comments, refused \subseteq refused',
         \/ faults' >= faults /\ \A i \in Issue : Owed(i) => i \in refused' \/ Owed(i)'
         \/ faults' = faults + 1
  PROVE  CommentsPaid'
<1>1. faults \in Nat /\ faults' \in Nat /\ comments \in [Issue -> Nat]
  BY Bounds DEF Types, BoundsOK, CountsOK
<1> QED
  BY <1>1 DEF CommentsPaid

LEMMA NextComments == Types /\ Types' /\ CommentsPaid /\ [Next]_vars => CommentsPaid'
<1> SUFFICES ASSUME Types, Types', CommentsPaid, [Next]_vars PROVE CommentsPaid'
  OBVIOUS
<1> USE DEF board, entries, cards, slots, history, bounds
<1>t. /\ faults \in Nat /\ faults' \in Nat /\ comments \in [Issue -> Nat]
      /\ pull.pc \in Walking => Current \in Issue
  BY CurrentListed, Bounds DEF Types, WalkOK, BoundsOK, CountsOK
<1>1. CASE UNCHANGED <<comments, refused, pull, faults>>
  <2>1. \A i \in Issue : Owed(i)' = Owed(i)
    BY <1>1, SameCurrent DEF Owed
  <2> QED
    BY <1>1, <1>t, <2>1, CommentsStay
<1>2. CASE UNCHANGED <<comments, refused, faults>> /\ pull.pc \notin {"move", "record"}
  <2>1. \A i \in Issue : ~Owed(i)
    BY <1>2 DEF Owed
  <2> QED
    BY <1>2, <1>t, <2>1, CommentsStay
<1>3. CASE Refuse
  <2>1. pull.pc = "refuse" /\ pull'.pc = "move" /\ pull'.left = pull.left
    BY <1>3 DEF Refuse, Now, Types, WalkOK, Pull
  <2>2. Current' = Current /\ Current \in Issue
    BY <1>t, <2>1, SameCurrent DEF Walking, Refusing
  <2>3. \A i \in Issue : ~Owed(i) /\ (Owed(i)' <=> i = Current)
    BY <2>1, <2>2 DEF Owed
  <2>4. refused' = refused /\ faults' = faults
    BY <1>3 DEF Refuse
  <2>5. ASSUME NEW i \in Issue
        PROVE  comments'[i] <= faults' + (IF i \in refused' \/ Owed(i)' THEN 1 ELSE 0)
    <3>1. comments[i] <= faults + (IF i \in refused THEN 1 ELSE 0)
      BY <2>3 DEF CommentsPaid
    <3>2. CASE i = Current /\ i \notin refused
      <4>1. comments'[i] <= comments[i] + 1
        BY <1>3, <1>t, <3>2 DEF Refuse
      <4>2. Owed(i)' /\ comments[i] <= faults
        BY <2>3, <3>1, <3>2, <1>t
      <4>3. comments'[i] \in Nat /\ comments[i] \in Nat
        BY <1>t DEF Types, CountsOK
      <4> QED
        BY <1>t, <2>4, <4>1, <4>2, <4>3
    <3>3. CASE i # Current \/ i \in refused
      <4>1. comments'[i] = comments[i]
        <5>1. CASE i # Current
          BY <1>3, <1>t, <5>1 DEF Refuse
        <5>2. CASE i = Current /\ i \in refused
          BY <1>3, <5>2 DEF Refuse
        <5> QED
          BY <3>3, <5>1, <5>2
      <4> QED
        BY <1>t, <2>3, <2>4, <3>1, <3>3, <4>1
    <3> QED
      BY <3>2, <3>3
  <2> QED
    BY <2>5 DEF CommentsPaid
<1>4. CASE Move
  <2>1. pull'.pc = "record" /\ pull'.left = pull.left
    BY <1>4 DEF Move, Now, Types, WalkOK, Pull
  <2>2. \A i \in Issue : Owed(i) => Owed(i)'
    BY <2>1, SameCurrent DEF Owed
  <2>3. UNCHANGED <<comments, refused, faults>>
    BY <1>4 DEF Move
  <2> QED
    BY <1>t, <2>2, <2>3, CommentsStay
<1>5. CASE Record
  <2>1. UNCHANGED comments /\ refused \subseteq refused'
    BY <1>5 DEF Record
  <2>2. CASE refused' = refused \cup {Current} /\ UNCHANGED faults
    BY <1>t, <2>1, <2>2, CommentsStay DEF Owed
  <2>3. CASE Fault
    BY <2>1, <2>3, CommentsStay DEF Fault
  <2> QED
    BY <1>5, <2>2, <2>3 DEF Record
<1>6. CASE Dies \/ Restart \/ Fails
  <2>1. UNCHANGED <<comments, refused>> /\ faults' = faults + 1
    BY <1>6 DEF Dies, Restart, Fails, Fault
  <2> QED
    BY <2>1, CommentsStay
<1>7. CASE Board
  <2>1. \A i \in Issue : ~Owed(i)
    BY <1>7 DEF Board, Owed
  <2>2. UNCHANGED <<comments, refused>> /\ faults' >= faults
    BY <1>7, <1>t DEF Board, Fault
  <2> QED
    BY <2>1, <2>2, CommentsStay
<1>8. CASE Count \/ Budget \/ Exists \/ InQueue \/ Fetch \/ Editors \/ Write \/ Done
  BY <1>2, <1>8 DEF Count, Budget, Exists, InQueue, Walks, Fetch, Editors, Write, Done
<1>9. CASE Others
  BY <1>1, <1>9 DEF Others, Publish, Heals, Claim, Waits, Settles, Unlist, ComesDue
<1>10. CASE UNCHANGED vars \/ (\E m \in FirstCall : Cools(m)) \/ \E i \in Issue : Returns(i)
  BY <1>1, <1>10 DEF vars, Cools, Returns
<1> QED
  BY <1>3, <1>4, <1>5, <1>6, <1>7, <1>8, <1>9, <1>10 DEF Next, Scanner

-----------------------------------------------------------------------------
(* The ceiling.  Between two cycles the scans may put back any number of   *)
(* cards.  During one the cards off the board only grow by what the        *)
(* scanner writes; what it counted at its start missed at most one card    *)
(* per worker, and its slots are what the count left.                      *)

Busy == {i \in Issue : i \in live \/ i = claimed}

WorkersKept == Cardinality(Busy) <= Workers
CeilingKept ==
  /\ pull.pc = "count" =>
       Cardinality(OffBoard) <= Workers + pull.runnable + pull.held
  /\ pull.pc \notin {"idle", "count"} =>
       Cardinality(OffBoard) + pull.slots <= 3 * Workers

LEMMA Fewer ==
  ASSUME NEW S \in SUBSET Issue, NEW T \in SUBSET S
  PROVE  /\ Cardinality(T) <= Cardinality(S)
         /\ Cardinality(S) \in Nat /\ Cardinality(T) \in Nat
         /\ IsFiniteSet(S) /\ IsFiniteSet(T)
<1>1. IsFiniteSet(Issue)
  BY Bounds, FS_Interval DEF Issue
<1>2. IsFiniteSet(S)
  BY <1>1, FS_Subset
<1>3. IsFiniteSet(T) /\ Cardinality(T) <= Cardinality(S)
  BY <1>2, FS_Subset
<1> QED
  BY <1>2, <1>3, FS_CardinalityType

LEMMA OneMore ==
  ASSUME NEW S, NEW x, IsFiniteSet(S)
  PROVE  /\ Cardinality(S \cup {x}) <= Cardinality(S) + 1
         /\ Cardinality(S \cup {x}) \in Nat
<1>1. Cardinality(S) \in Nat
  BY FS_CardinalityType
<1>2. Cardinality(S \cup {x}) = IF x \in S THEN Cardinality(S) ELSE Cardinality(S) + 1
  BY FS_AddElement
<1> QED
  BY <1>1, <1>2

LEMMA NoCardIsZero == 0 \notin Issue
BY Bounds DEF Issue

\* A card is claimed only while a worker is free.
LEMMA NextBusy == Types /\ WorkersKept /\ [Next]_vars => WorkersKept'
<1> SUFFICES ASSUME Types, WorkersKept, [Next]_vars PROVE WorkersKept'
  OBVIOUS
<1> USE DEF board, entries, cards, slots, history, bounds
<1>1. Busy \in SUBSET Issue
  BY DEF Busy
<1>2. CASE Busy' \subseteq Busy
  <2>1. Cardinality(Busy') <= Cardinality(Busy) /\ Cardinality(Busy) \in Nat /\ Cardinality(Busy') \in Nat
    BY <1>1, <1>2, Fewer
  <2> QED
    BY <2>1, Bounds DEF WorkersKept
<1>3. ASSUME NEW i \in Issue, Claim(i), claimed' # claimed PROVE WorkersKept'
  <2>1. claimed = 0 /\ live' = live /\ claimed' = i /\ live \in SUBSET Issue /\ Cardinality(live) < Workers
    BY <1>3 DEF Claim, Types, SlotsOK
  <2>2. Busy' = live \cup {i}
    BY <2>1 DEF Busy
  <2>3. IsFiniteSet(live) /\ Cardinality(live) \in Nat
    BY <2>1, Fewer
  <2>4. Cardinality(live \cup {i}) <= Cardinality(live) + 1 /\ Cardinality(live \cup {i}) \in Nat
    BY <2>3, OneMore
  <2> QED
    BY <2>1, <2>2, <2>3, <2>4, Bounds DEF WorkersKept
<1>4. CASE UNCHANGED <<live, claimed>>
  BY <1>2, <1>4 DEF Busy
<1>5. CASE Publish
  BY <1>2, <1>5, NoCardIsZero DEF Publish, Busy
<1>6. ASSUME NEW i \in Issue, Unlist(i) PROVE WorkersKept'
  BY <1>2, <1>6 DEF Unlist, Busy
<1>7. CASE Restart
  BY <1>2, <1>7, Bounds DEF Restart, Busy, Issue
<1>8. ASSUME NEW i \in Issue, Claim(i) \/ Waits(i) \/ Settles(i) \/ ComesDue(i) \/ Returns(i)
      PROVE  WorkersKept'
  BY <1>3, <1>4, <1>8 DEF Claim, Waits, Settles, ComesDue, Returns
<1>9. CASE Scanner
  BY <1>4, <1>9 DEF Scanner, Count, Budget, Board, Exists, InQueue, Fetch, Editors, Write, Refuse, Move, Record, Done
<1>10. CASE Fails \/ Dies \/ Heals \/ \E m \in FirstCall : Cools(m)
  BY <1>4, <1>10 DEF Fails, Dies, Heals, Cools
<1>11. CASE UNCHANGED vars
  BY <1>4, <1>11 DEF vars
<1> QED
  BY <1>5, <1>6, <1>7, <1>8, <1>9, <1>10, <1>11 DEF Next, Others

\* Only a write of the scanner and a return adds a card.
LEMMA OffBoardShrinks ==
  ASSUME Types, [Next]_vars, ~Write, \A i \in Issue : ~Returns(i)
  PROVE  OffBoard' \subseteq OffBoard
<1> USE DEF board, entries, cards, slots, history, bounds
<1>1. CASE UNCHANGED <<fresh, again, claimed, live, leaving>>
  BY <1>1 DEF OffBoard, Queued
<1>2. ASSUME NEW i \in Issue, Claim(i) PROVE OffBoard' \subseteq OffBoard
  <2>1. \A j \in Issue \ {i} : (j \in Queued)' => j \in Queued
    BY <1>2 DEF Types, EntriesOK, Claim, TakeFresh, TakeAgain, Due, Queued
  <2>2. i \in Queued
    BY <1>2 DEF Types, EntriesOK, Claim, TakeFresh, TakeAgain, Due, Queued
  <2>3. live' = live /\ leaving' = leaving /\ claimed' \in {claimed, i}
    BY <1>2 DEF Claim
  <2> QED
    BY <2>1, <2>2, <2>3 DEF OffBoard
<1>3. CASE Publish
  BY <1>3, NoCardIsZero DEF Publish, OffBoard, Queued
<1>4. ASSUME NEW i \in Issue, Waits(i) PROVE OffBoard' \subseteq OffBoard
  <2>1. i \in OffBoard /\ \A j \in Issue \ {i} : (j \in Queued)' => j \in Queued
    BY <1>4 DEF Types, EntriesOK, Waits, OffBoard, Queued
  <2> QED
    BY <1>4, <2>1 DEF Waits, OffBoard
<1>5. ASSUME NEW i \in Issue, Settles(i) \/ Unlist(i) PROVE OffBoard' \subseteq OffBoard
  BY <1>5 DEF Settles, Unlist, OffBoard, Queued
<1>6. ASSUME NEW i \in Issue, ComesDue(i) PROVE OffBoard' \subseteq OffBoard
  <2>1. \A j \in Issue : (j \in Queued)' => j \in Queued
    BY <1>6 DEF Types, EntriesOK, ComesDue, Queued
  <2> QED
    BY <1>6, <2>1 DEF ComesDue, OffBoard
<1>7. CASE Restart
  BY <1>7, Bounds DEF Restart, OffBoard, Queued, Issue
<1>8. CASE Scanner
  BY <1>1, <1>8 DEF Scanner, Count, Budget, Board, Exists, InQueue, Fetch, Editors, Refuse, Move, Record, Done
<1>9. CASE Fails \/ Dies \/ Heals \/ \E m \in FirstCall : Cools(m)
  BY <1>1, <1>9 DEF Fails, Dies, Heals, Cools
<1>10. CASE UNCHANGED vars
  BY <1>1, <1>10 DEF vars
<1> QED
  BY <1>2, <1>3, <1>4, <1>5, <1>6, <1>7, <1>8, <1>9, <1>10 DEF Next, Others

\* No card is added, and the scanner has no more slots than it had.
LEMMA NoMore ==
  ASSUME Types, Types', CeilingKept, OffBoard' \subseteq OffBoard,
         \/ pull' = pull
         \/ pull'.pc = "idle"
         \/ /\ pull.pc \notin {"idle", "count"} /\ pull'.pc \notin {"idle", "count"}
            /\ pull'.slots <= pull.slots
  PROVE  CeilingKept'
<1>1. OffBoard \in SUBSET Issue
  BY DEF OffBoard
<1>2. Cardinality(OffBoard') <= Cardinality(OffBoard) /\ Cardinality(OffBoard) \in Nat /\ Cardinality(OffBoard') \in Nat
  BY <1>1, Fewer
<1>3. /\ pull.slots \in Nat /\ pull.runnable \in Nat /\ pull.held \in Nat
      /\ pull'.slots \in Nat /\ pull'.runnable \in Nat /\ pull'.held \in Nat
  BY Bounds DEF Types, WalkOK, Pull
<1> QED
  BY <1>2, <1>3, Bounds DEF CeilingKept

\* The count misses the cards that a worker holds, or that is being published.
LEMMA CountKeeps ==
  ASSUME Types, WorkersKept, CeilingKept, Count
  PROVE  CeilingKept'
<1> DEFINE free == Queued \ Runnable
<1>1. pull'.pc = "count" /\ pull'.runnable = Cardinality(Runnable) /\ pull'.held = Cardinality(free)
  BY DEF Count, Idle
<1>2. Runnable \in SUBSET Queued /\ Queued \in SUBSET Issue /\ free \in SUBSET Queued
  BY DEF Runnable, Due, Queued
<1>3. /\ Cardinality(Runnable) \in Nat /\ Cardinality(free) \in Nat /\ Cardinality(Queued) \in Nat
      /\ IsFiniteSet(Runnable) /\ IsFiniteSet(free)
  BY <1>2, Fewer
<1>4. Cardinality(Queued) = Cardinality(Runnable) + Cardinality(free)
  <2>1. Runnable \cup free = Queued /\ Runnable \cap free = {}
    BY <1>2
  <2>2. Cardinality(Runnable \cap free) = 0
    BY <2>1, FS_EmptySet
  <2>3. Cardinality(Runnable \cup free)
          = Cardinality(Runnable) + Cardinality(free) - Cardinality(Runnable \cap free)
    BY <1>3, FS_Union
  <2> QED
    BY <1>3, <2>1, <2>2, <2>3
<1>5. OffBoard' = OffBoard /\ OffBoard \in SUBSET (Queued \cup Busy) /\ Queued \cup Busy \in SUBSET Issue
  BY DEF Count, OffBoard, Queued, Busy, entries, cards, slots
<1>6. Cardinality(OffBoard) <= Cardinality(Queued \cup Busy) /\ Cardinality(OffBoard) \in Nat /\ Cardinality(Queued \cup Busy) \in Nat
  BY <1>5, Fewer
<1>7. Cardinality(Queued \cup Busy) <= Cardinality(Queued) + Cardinality(Busy)
  <2>1. /\ IsFiniteSet(Queued) /\ IsFiniteSet(Busy)
        /\ Cardinality(Queued \cap Busy) \in Nat /\ Cardinality(Busy) \in Nat
    <3>1. Busy \in SUBSET Issue /\ Queued \cap Busy \in SUBSET Queued
      BY DEF Busy
    <3> QED
      BY <1>2, <3>1, Fewer
  <2>2. Cardinality(Queued \cup Busy) = Cardinality(Queued) + Cardinality(Busy) - Cardinality(Queued \cap Busy)
    BY <2>1, FS_Union
  <2> QED
    BY <1>3, <2>1, <2>2
<1>8. Cardinality(Busy) <= Workers /\ Cardinality(Busy) \in Nat
  <2>1. Busy \in SUBSET Issue
    BY DEF Busy
  <2> QED
    BY <2>1, Fewer DEF WorkersKept
<1>9. Cardinality(OffBoard) <= Workers + Cardinality(Runnable) + Cardinality(free)
  BY <1>3, <1>4, <1>6, <1>7, <1>8, Bounds
<1> QED
  BY <1>1, <1>5, <1>9 DEF CeilingKept

\* The slots are what two cards per worker leave over the count.
LEMMA BudgetKeeps ==
  ASSUME Types, Types', CeilingKept, Budget
  PROVE  CeilingKept'
<1>1. OffBoard' = OffBoard
  BY DEF Budget, OffBoard, Queued, entries, cards, slots
<1>2. CASE Limit = 0
  BY <1>1, <1>2, NoMore, IdleWalks DEF Budget
<1>3. CASE Limit # 0
  <2>1. pull'.pc = "board" /\ pull'.slots = Limit
    BY <1>3 DEF Budget, Idle
  <2>2. pull.runnable \in Nat /\ pull.held \in Nat /\ pull.pc = "count"
    BY Bounds DEF Types, WalkOK, Pull, Budget
  <2>3. Cardinality(liveFile) \in Nat
    BY Counted, Bounds DEF Types, SlotsOK
  <2>4. Limit <= 2 * Workers - pull.runnable - pull.held /\ Limit \in Nat
    BY <1>3, <2>2, <2>3, Bounds DEF Limit, Headroom, Least
  <2>5. Cardinality(OffBoard) \in Nat /\ Cardinality(OffBoard) <= Workers + pull.runnable + pull.held
    <3>1. OffBoard \in SUBSET Issue
      BY DEF OffBoard
    <3> QED
      BY <2>2, <3>1, Fewer DEF CeilingKept
  <2> QED
    BY <1>1, <2>1, <2>2, <2>4, <2>5, Bounds DEF CeilingKept
<1> QED
  BY <1>2, <1>3

\* An entry that is written uses a slot.
LEMMA WriteKeeps ==
  ASSUME Types, Types', CeilingKept, Write
  PROVE  CeilingKept'
<1>1. pull.slots \in Nat /\ pull.slots > 0 /\ pull.left # {}
  BY Bounds DEF Types, WalkOK, Pull, Write, Walking, Looking
<1>2. pull'.pc = "walk" /\ pull'.slots = pull.slots - 1
  BY DEF Write, Spend, Types, WalkOK, Pull
<1>3. OffBoard' \subseteq OffBoard \cup {Current}
  BY DEF Write, OffBoard, Queued, Types, EntriesOK, slots
<1>4. OffBoard \in SUBSET Issue /\ OffBoard \cup {Current} \in SUBSET Issue
  BY <1>1, CurrentListed DEF OffBoard, Types
<1>5. IsFiniteSet(OffBoard) /\ Cardinality(OffBoard) \in Nat
  BY <1>4, Fewer
<1>6. Cardinality(OffBoard \cup {Current}) <= Cardinality(OffBoard) + 1
  BY <1>5, OneMore
<1>7. /\ Cardinality(OffBoard') <= Cardinality(OffBoard \cup {Current})
      /\ Cardinality(OffBoard') \in Nat /\ Cardinality(OffBoard \cup {Current}) \in Nat
  BY <1>3, <1>4, Fewer
<1>8. Cardinality(OffBoard) + pull.slots <= 3 * Workers
  BY DEF CeilingKept, Write
<1> QED
  BY <1>1, <1>2, <1>5, <1>6, <1>7, <1>8, Bounds DEF CeilingKept

LEMMA NextCeiling ==
  Types /\ Types' /\ WorkersKept /\ CeilingKept /\ [Next]_vars => CeilingKept'
<1> SUFFICES ASSUME Types, Types', WorkersKept, CeilingKept, [Next]_vars PROVE CeilingKept'
  OBVIOUS
<1>1. CASE Count
  BY <1>1, CountKeeps
<1>2. CASE Budget
  BY <1>2, BudgetKeeps
<1>3. CASE Write
  BY <1>3, WriteKeeps
<1>4. CASE pull' = pull /\ ~Write /\ \A i \in Issue : ~Returns(i)
  BY <1>4, OffBoardShrinks, NoMore
<1>5. CASE pull'.pc = "idle"
  BY <1>5 DEF CeilingKept
<1>6. CASE Exists \/ InQueue \/ Fetch \/ Editors \/ Refuse \/ Move \/ Record \/ Fails \/ Board
  <2>1. \/ pull'.pc = "idle"
        \/ /\ pull.pc \notin {"idle", "count"} /\ pull'.pc \notin {"idle", "count"}
           /\ pull'.slots <= pull.slots
    <3>1. pull \in Pull /\ pull.slots \in Nat
      BY Bounds DEF Types, WalkOK, Pull
    <3>2. CASE Board
      <4>1. CASE pull' = [pull EXCEPT !.pc = "walk", !.left = todo]
        BY <3>1, <3>2, <4>1 DEF Board, Pull
      <4>2. CASE pull' = Idle
        BY <4>2, IdleWalks
      <4> QED
        BY <3>2, <4>1, <4>2 DEF Board
    <3>3. ASSUME NEW at \in Walking, Now(at) PROVE pull'.pc = at /\ pull'.slots = pull.slots
      BY <3>1, <3>3 DEF Now, Pull
    <3>4. ASSUME Skip \/ Spend PROVE pull'.pc = "walk" /\ pull'.slots <= pull.slots
      <4>1. CASE Skip
        BY <3>1, <4>1 DEF Skip, Pull
      <4>2. CASE Spend
        <5>1. pull'.pc = "walk" /\ pull'.slots = pull.slots - 1
          BY <3>1, <4>2 DEF Spend, Pull
        <5> QED
          BY <3>1, <5>1
      <4> QED
        BY <3>4, <4>1, <4>2
    <3>5. CASE Exists
      BY <3>1, <3>3, <3>4, <3>5 DEF Exists, Walks, Walking, Looking
    <3>6. CASE Fetch
      BY <3>1, <3>3, <3>4, <3>6 DEF Fetch, Walking, Looking, Refusing
    <3>7. CASE Editors
      BY <3>1, <3>3, <3>4, <3>7 DEF Editors, Walking, Looking, Refusing
    <3>8. CASE Refuse
      BY <3>1, <3>3, <3>8 DEF Refuse, Walking, Refusing
    <3>9. CASE Move
      <4>1. pull.pc = "move" /\ pull'.pc = "record" /\ pull'.slots = pull.slots
        BY <3>1, <3>9 DEF Move, Now, Pull
      <4> QED
        BY <3>1, <4>1
    <3>10. CASE Record \/ Fails
      BY <3>1, <3>4, <3>10 DEF Record, PassOver, Fails
    <3>11. CASE InQueue
      BY <3>1, <3>3, <3>4, <3>11 DEF InQueue, Walking, Looking
    <3> QED
      BY <1>6, <3>2, <3>5, <3>6, <3>7, <3>8, <3>9, <3>10, <3>11
  <2>2. ~Write /\ \A i \in Issue : ~Returns(i)
    BY <1>6 DEF Returns, Write, Exists, InQueue, Walks, Fetch, Editors, Refuse, Move, Record, Fails, Board
  <2> QED
    BY <2>1, <2>2, OffBoardShrinks, NoMore
<1>7. CASE Done \/ Dies \/ Restart
  <2>1. pull'.pc = "idle"
    BY <1>7, IdleWalks DEF Done, Dies, Restart
  <2> QED
    BY <1>5, <2>1
<1>10. ASSUME NEW i \in Issue, Returns(i) PROVE CeilingKept'
  BY <1>5, <1>10 DEF Returns
<1>8. CASE Others \/ \E m \in FirstCall : Cools(m)
  <2>1. pull' = pull
    BY <1>8 DEF Others, Publish, Heals, Claim, Waits, Settles, Unlist, ComesDue, Cools
  <2> QED
    BY <1>3, <1>4, <1>10, <2>1
<1>9. CASE UNCHANGED vars
  BY <1>3, <1>4, <1>10, <1>9 DEF vars
<1> QED
  BY <1>1, <1>2, <1>3, <1>6, <1>7, <1>8, <1>9, <1>10 DEF Next, Scanner

-----------------------------------------------------------------------------
(* The theorems.                                                           *)

LEMMA InitIInv == Init => IInv
<1> SUFFICES ASSUME Init PROVE IInv
  OBVIOUS
<1>1. Types
  BY InitTypes
<1>2. pull.pc = "idle"
  BY IdleWalks DEF Init
<1>3. JournalKept
  BY DEF Init, JournalKept
<1>4. PulledKnown
  BY <1>2 DEF Init, PulledKnown, Allowed, Looking
<1>5. CommentsPaid
  BY DEF Init, CommentsPaid
<1> QED
  BY <1>1, <1>3, <1>4, <1>5 DEF IInv

LEMMA NextIInv == IInv /\ [Next]_vars => IInv'
BY NextTypes, NextJournal, NextPulled, NextComments DEF IInv

LEMMA SpecIInv == Spec => []IInv
BY InitIInv, NextIInv, PTL DEF Spec

\* Every variable of the auto-pull keeps its type, for any number of issues,
\* workers, slots and moves (auto-pull.js, intake.js).
THEOREM TypeCorrect == Spec => []TypeOK
<1>1. IInv => TypeOK
  BY TypesImplyTypeOK DEF IInv
<1> QED
  BY <1>1, SpecIInv, PTL

\* An issue is enqueued once, whichever process dies and whatever the other
\* processes do between the calls of makeTask; twice at most if takeNextTask
\* took its entry between the two readings of taskAlreadyExists.
THEOREM PulledAtMostOnce == Spec => []PulledOnce
<1>1. IInv => PulledOnce
  BY DEF IInv, PulledKnown, Allowed, PulledOnce
<1> QED
  BY <1>1, SpecIInv, PTL

\* A refusal is commented on once, but for a death between the comment and its
\* event or an event that is not written (applyTrustRefusal).
THEOREM CommentedAtMostOnce == Spec => []CommentedOnce
<1>1. IInv => CommentedOnce
  <2> SUFFICES ASSUME IInv, NEW i \in Issue PROVE comments[i] <= 1 + faults
    BY DEF CommentedOnce
  <2>1. faults \in Nat /\ comments[i] \in Nat
    BY Bounds DEF IInv, Types, BoundsOK, CountsOK
  <2> QED
    BY <2>1 DEF IInv, CommentsPaid
<1> QED
  BY <1>1, SpecIInv, PTL

\* No card is pulled past three per worker off the board, however many the scans
\* put back without asking (computeAutoPullBudget): the two per worker of the
\* ceiling, and one per worker that neither file showed.
THEOREM CeilingNeverPulledPast == Spec => NeverPulledPast
<1>1. Init => WorkersKept /\ CeilingKept
  <2> SUFFICES ASSUME Init PROVE WorkersKept /\ CeilingKept
    OBVIOUS
  <2>1. Busy = {} /\ pull.pc = "idle"
    BY Bounds, IdleWalks DEF Init, Busy, Issue
  <2> QED
    BY <2>1, Bounds, FS_EmptySet DEF WorkersKept, CeilingKept
<1>2. IInv /\ IInv' /\ WorkersKept /\ CeilingKept /\ [Next]_vars => (WorkersKept /\ CeilingKept)'
  BY NextBusy, NextCeiling DEF IInv
<1>3. IInv /\ IInv' /\ CeilingKept' => (Write => Cardinality(OffBoard') <= 3 * Workers)
  <2> SUFFICES ASSUME IInv, IInv', CeilingKept', Write PROVE Cardinality(OffBoard') <= 3 * Workers
    OBVIOUS
  <2>1. pull'.pc = "walk" /\ pull'.slots \in Nat
    BY SpendWalks, Bounds DEF Write, IInv, Types, WalkOK, Walking, Looking, Pull
  <2>2. OffBoard' \in SUBSET Issue
    BY DEF OffBoard
  <2>3. Cardinality(OffBoard') \in Nat
    BY <2>2, Fewer
  <2> QED
    BY <2>1, <2>3, Bounds DEF CeilingKept
<1>4. IInv /\ IInv' /\ CeilingKept' => [Write => Cardinality(OffBoard') <= 3 * Workers]_vars
  BY <1>3
<1> QED
  BY <1>1, <1>2, <1>4, SpecIInv, PTL DEF Spec, NeverPulledPast

-----------------------------------------------------------------------------
(* A cycle of the scanner ends, and passes nobody over.                    *)

\* Before the board is read there is no list, and the gates found against
\* whoever is being refused.
TurnKept ==
  /\ pull.pc \in {"idle", "count", "board"} => pull.left = {}
  /\ pull.pc \in Refusing => kind[Current] \in {"outsider", "edited"}

\* The steps a cycle has before it, at most: seven for each candidate.
Todo == 7 * Cardinality(pull.left)
Togo ==
  CASE pull.pc = "count" -> 7 * MaxIssue + 3
    [] pull.pc = "board" -> 7 * MaxIssue + 2
    [] pull.pc = "walk" -> Todo + 1
    [] pull.pc = "queue" -> Todo
    [] pull.pc = "fetch" -> Todo - 1
    [] pull.pc = "editors" -> Todo - 2
    [] pull.pc \in {"write", "refuse"} -> Todo - 3
    [] pull.pc = "move" -> Todo - 4
    [] pull.pc = "record" -> Todo - 5
    [] OTHER -> 0

LEMMA PullTypes ==
  ASSUME Types
  PROVE  /\ pull.left \in SUBSET Issue /\ pull.slots \in Nat
         /\ pull.pc \in {"idle", "count", "board", "walk"} \cup Walking
         /\ pull.pc \in Walking => pull.left # {} /\ pull.slots > 0
         /\ Cardinality(pull.left) \in 0..MaxIssue
         /\ pull.left # {} => Cardinality(pull.left) > 0
<1>1. /\ pull.left \in SUBSET Issue /\ pull.slots \in Nat
      /\ pull.pc \in {"idle", "count", "board", "walk"} \cup Walking
  BY Bounds DEF Types, WalkOK, Pull, Walking, Looking, Refusing
<1>2. IsFiniteSet(pull.left) /\ Cardinality(pull.left) \in 0..MaxIssue
  BY <1>1, Counted, Fewer
<1>3. pull.left # {} => Cardinality(pull.left) > 0
  BY <1>2, FS_EmptySet, Bounds
<1> QED
  BY <1>1, <1>2, <1>3 DEF Types, WalkOK

\* Without the candidate the list is one shorter.
LEMMA OneLess ==
  ASSUME Types, pull.left # {}
  PROVE  Cardinality(pull.left \ {Current}) = Cardinality(pull.left) - 1
<1>1. Current \in pull.left /\ pull.left \in SUBSET Issue
  BY CurrentListed, PullTypes DEF Types
<1>2. IsFiniteSet(pull.left)
  BY <1>1, Fewer
<1> QED
  BY <1>1, <1>2, FS_RemoveElement

\* The walk goes on to the next candidate, with or without a slot less.
Drops == /\ pull'.pc = "walk" /\ pull'.left = pull.left \ {Current}
         /\ pull.pc \in {"walk"} \cup Walking /\ pull.left # {}
\* It had a reason to.
Reason == \/ pull.pc \in Refusing
          \/ faults' > faults
          \/ \A i \in Issue : i = Current /\ Trusted(i) => Known(i)'
\* A slot is for an issue that is enqueued, cannot be decided, or met a fault.
Bought == pulled' # pulled \/ kind[Current] = "gone" \/ faults' > faults
Fair == pull'.slots = pull.slots \/ Bought
\* It looks closer at this one, or refuses it.
Stays == /\ pull'.pc \in Walking /\ pull'.left = pull.left
         /\ <<pull.pc, pull'.pc>> \in {<<"walk", "queue">>, <<"queue", "fetch">>, <<"fetch", "editors">>,
              <<"fetch", "refuse">>, <<"editors", "write">>, <<"editors", "refuse">>,
              <<"refuse", "move">>, <<"move", "record">>}
         /\ pull'.slots = pull.slots
         /\ pull'.pc = "refuse" => kind[Current] \in {"outsider", "edited"}
\* The cycle is over, or broken off.
Stops == /\ pull'.pc = "idle" /\ pull'.left = {}
         /\ pull.pc \in {"count", "board"} \/ Done \/ faults' > faults

LEMMA SkipDrops ==
  ASSUME Types, pull.pc \in {"walk"} \cup Walking, pull.left # {}, Skip \/ Spend
  PROVE  Drops /\ (Skip => pull'.slots = pull.slots)
<1>1. CASE Skip
  BY <1>1 DEF Types, WalkOK, Pull, Skip, Drops
<1>2. CASE Spend
  BY <1>2 DEF Types, WalkOK, Pull, Spend, Drops, Skip
<1> QED
  BY <1>1, <1>2

LEMMA WriteKnows ==
  ASSUME Types, Write, pull.left # {}
  PROVE  \A i \in Issue : i = Current => Known(i)'
<1>1. Current \in Issue /\ fresh[Current] \in Nat
  BY CurrentListed DEF Types, EntriesOK
<1>2. fresh'[Current] > 0
  BY <1>1 DEF Write, Types, EntriesOK
<1> QED
  BY <1>1, <1>2 DEF Known, Queued

\* Others, and what nobody waits for.
Elsewhere ==
  Others \/ (\E m \in FirstCall : Cools(m)) \/ \E i \in Issue : Returns(i)

\* What becomes of the walk in each step of the program.
LEMMA Turns ==
  ASSUME Types, Next
  PROVE  \/ pull.pc = "idle" /\ pull'.pc = "count" /\ pull'.left = {}
         \/ pull.pc = "count" /\ pull'.pc = "board" /\ pull'.left = {}
         \/ pull.pc = "board" /\ pull'.pc = "walk" /\ pull'.left = todo /\ todo \in SUBSET Issue
         \/ (Drops /\ Reason /\ Fair) \/ (Stays /\ kind' = kind) \/ Stops
         \/ Elsewhere /\ pull' = pull /\ kind' = kind
<1> DEFINE Result ==
      \/ pull.pc = "idle" /\ pull'.pc = "count" /\ pull'.left = {}
      \/ pull.pc = "count" /\ pull'.pc = "board" /\ pull'.left = {}
      \/ pull.pc = "board" /\ pull'.pc = "walk" /\ pull'.left = todo /\ todo \in SUBSET Issue
      \/ (Drops /\ Reason /\ Fair) \/ (Stays /\ kind' = kind) \/ Stops
      \/ Elsewhere /\ pull' = pull /\ kind' = kind
<1>1. /\ pull \in Pull /\ (pull.pc \in Walking => pull.left # {} /\ pull.slots > 0)
      /\ faults \in Nat
  BY Bounds DEF Types, WalkOK, BoundsOK
<1>2. CASE Count
  BY <1>2 DEF Count, Idle
<1>3. CASE Budget
  BY <1>3 DEF Budget, Idle, Stops
<1>4. CASE Board
  <2>1. CASE Fault /\ pull' = Idle
    BY <1>1, <1>4, <2>1 DEF Fault, Idle, Stops
  <2>2. CASE pull' = [pull EXCEPT !.pc = "walk", !.left = todo]
    BY <1>1, <1>4, <2>2 DEF Board, Pull, Types, BoardOK
  <2> QED
    BY <1>4, <2>1, <2>2 DEF Board
<1>5. CASE Exists
  <2>1. CASE Current \in journaled
    <3>1. Drops /\ pull'.slots = pull.slots
      BY <1>5, <2>1, SkipDrops DEF Exists, Walks
    <3>2. \A i \in Issue : i = Current => Known(i)'
      BY <1>5, <2>1, <3>1 DEF Exists, Known, cards
    <3> QED
      BY <3>1, <3>2 DEF Reason, Fair
  <2>2. CASE Now("queue")
    BY <1>1, <1>5, <2>2 DEF Exists, Walks, Now, Pull, Stays, Walking, Looking, board
  <2> QED
    BY <1>5, <2>1, <2>2 DEF Exists
<1>15. CASE InQueue
  <2>1. CASE Current \in Queued
    <3>1. Drops /\ pull'.slots = pull.slots
      BY <1>1, <1>15, <2>1, SkipDrops DEF InQueue, Walking
    <3>2. \A i \in Issue : i = Current => Known(i)'
      BY <1>15, <2>1, <3>1 DEF InQueue, Known, Queued, cards, entries
    <3> QED
      BY <3>1, <3>2 DEF Reason, Fair
  <2>2. CASE Now("fetch")
    BY <1>1, <1>15, <2>2 DEF InQueue, Now, Pull, Stays, Walking, Looking, board
  <2> QED
    BY <1>15, <2>1, <2>2 DEF InQueue
<1>6. CASE Fetch
  <2>1. CASE kind[Current] = "raw" /\ Skip
    BY <1>1, <1>6, <2>1, SkipDrops DEF Fetch, Walking, Looking, Trusted, Reason, Fair, Bought
  <2>2. CASE (kind[Current] = "outsider" /\ Now("refuse")) \/ Now("editors")
    BY <1>1, <1>6, <2>2 DEF Fetch, Now, Pull, Stays, Walking, Looking, Refusing, board
  <2> QED
    BY <1>6, <2>1, <2>2 DEF Fetch
<1>7. CASE Editors
  <2>1. CASE kind[Current] = "gone" /\ Spend
    BY <1>1, <1>7, <2>1, SkipDrops DEF Editors, Walking, Looking, Trusted, Reason, Fair, Bought
  <2>2. CASE Now("write") \/ (kind[Current] = "edited" /\ Now("refuse"))
    BY <1>1, <1>7, <2>2 DEF Editors, Now, Pull, Stays, Walking, Looking, Refusing, board
  <2> QED
    BY <1>7, <2>1, <2>2 DEF Editors
<1>8. CASE Write
  <2>1. Drops
    BY <1>1, <1>8, SkipDrops DEF Write, Walking, Looking
  <2>2. \A i \in Issue : i = Current => Known(i)'
    BY <1>8, <2>1, WriteKnows DEF Drops
  <2>3. pulled' # pulled
    BY <1>8, <2>1, CurrentListed DEF Write, Drops, Types, CountsOK
  <2> QED
    BY <2>1, <2>2, <2>3 DEF Reason, Fair, Bought
<1>9. CASE Refuse
  BY <1>1, <1>9 DEF Refuse, Now, Pull, Stays, Walking, Refusing, board
<1>10. CASE Move
  BY <1>1, <1>10 DEF Move, Now, Pull, Stays, Walking, Refusing
<1>11. CASE Record
  BY <1>1, <1>11, SkipDrops DEF Record, PassOver, Walking, Refusing, Reason, Fair
<1>12. CASE Done \/ Dies \/ Restart
  BY <1>1, <1>12 DEF Done, Dies, Restart, Idle, Fault, Stops
<1>13. CASE Fails
  <2>1. faults' > faults
    BY <1>1, <1>13 DEF Fails, Fault
  <2> QED
    BY <1>1, <1>13, <2>1, SkipDrops DEF Fails, Walking, Looking, Reason, Fair, Bought
<1>14. CASE Elsewhere
  BY <1>14 DEF Elsewhere, Returns, Others, Publish, Heals, Claim, Waits, Settles, Unlist, ComesDue, Cools, board
<1>16. Scanner \/ Elsewhere \/ Fails \/ Dies \/ Restart
  BY DEF Next, Elsewhere
<1> QED
  BY <1>2, <1>3, <1>4, <1>5, <1>6, <1>7, <1>8, <1>9, <1>10, <1>11, <1>12, <1>13, <1>14, <1>15,
     <1>16 DEF Scanner

LEMMA NextTurn == Types /\ TurnKept /\ [Next]_vars => TurnKept'
<1> SUFFICES ASSUME Types, TurnKept, [Next]_vars PROVE TurnKept'
  OBVIOUS
<1>1. CASE UNCHANGED vars
  BY <1>1 DEF vars, board, TurnKept, Current
<1>2. CASE Next /\ Stays /\ kind' = kind
  <2>1. Current' = Current
    BY <1>2, SameCurrent DEF Stays
  <2>2. CASE pull.pc \in Refusing
    BY <1>2, <2>1, <2>2 DEF Stays, TurnKept, Walking, Looking, Refusing
  <2>3. CASE pull.pc \notin Refusing
    BY <1>2, <2>1, <2>3 DEF Stays, TurnKept, Walking, Looking, Refusing
  <2> QED
    BY <1>2, <2>2, <2>3 DEF Stays, TurnKept, Walking, Looking, Refusing
<1>3. CASE Next /\ Elsewhere /\ pull' = pull /\ kind' = kind
  BY <1>3 DEF TurnKept, Current
<1>4. CASE pull'.pc = "walk" \/ (pull'.pc \in {"idle", "count", "board"} /\ pull'.left = {})
  BY <1>4 DEF TurnKept, Refusing
<1> QED
  BY <1>1, <1>2, <1>3, <1>4, Turns DEF Drops, Stops

LEMMA TurnsHold == Spec => []TurnKept
<1>1. Init => TurnKept
  BY DEF Init, Idle, TurnKept, Refusing
<1>2. IInv /\ TurnKept /\ [Next]_vars => TurnKept'
  BY NextTurn DEF IInv
<1> QED
  BY <1>1, <1>2, SpecIInv, PTL DEF Spec

LEMMA NextTogo ==
  ASSUME Types, TurnKept, Next, pull.pc # "idle"
  PROVE  \/ Togo' < Togo
         \/ Elsewhere /\ pull' = pull
<1> DEFINE n == Cardinality(pull.left)
<1>1. n \in 0..MaxIssue /\ (pull.left # {} => n > 0) /\ MaxIssue \in Nat
  BY PullTypes, Bounds
<1>2. pull.pc \in Walking => n > 0
  BY PullTypes
<1>3. CASE Drops
  <2>1. Cardinality(pull'.left) = n - 1 /\ n > 0
    BY <1>1, <1>3, OneLess DEF Drops
  <2>2. Togo' = 7 * (n - 1) + 1
    BY <1>3, <2>1 DEF Drops, Togo, Todo
  <2>3. Togo >= 7 * n - 5
    BY <1>1, <1>3, <2>1 DEF Drops, Togo, Todo, Walking, Looking, Refusing
  <2>4. Togo \in Int
    BY <1>1, <1>3 DEF Drops, Togo, Todo, Walking, Looking, Refusing
  <2> QED
    BY <1>1, <2>2, <2>3, <2>4
<1>4. CASE Stays
  <2>1. Cardinality(pull'.left) = n
    BY <1>4 DEF Stays
  <2> QED
    BY <1>1, <1>4, <2>1 DEF Stays, Togo, Todo, Walking, Looking, Refusing
<1>5. CASE pull'.pc = "idle"
  <2>1. Togo' = 0
    BY <1>5 DEF Togo
  <2>2. Togo > 0
    BY <1>1, <1>2, PullTypes DEF Togo, Todo, Walking, Looking, Refusing
  <2> QED
    BY <2>1, <2>2
<1>6. CASE pull.pc = "count" /\ pull'.pc = "board"
  BY <1>1, <1>6 DEF Togo
<1>7. CASE pull.pc = "board" /\ pull'.pc = "walk" /\ pull'.left = todo /\ todo \in SUBSET Issue
  <2>1. Cardinality(todo) \in 0..MaxIssue
    BY <1>7, Counted
  <2>2. Togo' = 7 * Cardinality(todo) + 1
    BY <1>7 DEF Togo, Todo
  <2> QED
    BY <1>1, <1>7, <2>1, <2>2 DEF Togo
<1> QED
  BY <1>3, <1>4, <1>5, <1>6, <1>7, Turns DEF Stops

\* A cycle of the scanner ends, however many refused or failing issues the
\* board lists: it never has more than seven steps for each issue before it, and
\* each of its steps, its death included, leaves fewer.  Everybody else leaves
\* it alone.  This is what OutageEnds needs besides the scanner's timer.
THEOREM CyclesEnd ==
  Spec => /\ [](Togo \in 0..(7 * MaxIssue + 3))
          /\ [][pull.pc # "idle" =>
                  \/ Togo' < Togo
                  \/ Elsewhere /\ pull' = pull]_vars
<1> DEFINE Shorter == pull.pc # "idle" =>
             \/ Togo' < Togo
             \/ Elsewhere /\ pull' = pull
<1>1. IInv => Togo \in 0..(7 * MaxIssue + 3)
  <2> SUFFICES ASSUME Types PROVE Togo \in 0..(7 * MaxIssue + 3)
    BY DEF IInv
  <2> DEFINE n == Cardinality(pull.left)
  <2>1. n \in Nat /\ n <= MaxIssue /\ MaxIssue \in Nat /\ (pull.pc \in Walking => n > 0)
    BY PullTypes, Bounds
  <2>2. pull.pc \in {"idle", "count", "board", "walk"} \cup Walking
    BY PullTypes
  <2>3. \/ Togo \in {0, 7 * MaxIssue + 3, 7 * MaxIssue + 2, 7 * n + 1}
        \/ n > 0 /\ Togo \in {7 * n, 7 * n - 1, 7 * n - 2, 7 * n - 3, 7 * n - 4, 7 * n - 5}
    <3>1. CASE pull.pc \in {"idle", "count", "board", "walk"}
      <4>1. pull.pc = "idle" => Togo = 0
        BY DEF Togo
      <4>2. pull.pc = "count" => Togo = 7 * MaxIssue + 3
        BY DEF Togo
      <4>3. pull.pc = "board" => Togo = 7 * MaxIssue + 2
        BY DEF Togo
      <4>4. pull.pc = "walk" => Togo = 7 * n + 1
        BY DEF Togo, Todo
      <4> QED
        BY <3>1, <4>1, <4>2, <4>3, <4>4
    <3>2. CASE pull.pc \in Walking
      BY <2>1, <3>2 DEF Togo, Todo, Walking, Looking, Refusing
    <3> QED
      BY <2>2, <3>1, <3>2
  <2> HIDE DEF n
  <2> QED
    BY <2>1, <2>3
<1>2. IInv /\ TurnKept /\ [Next]_vars => [Shorter]_vars
  BY NextTogo DEF IInv
<1> QED
  BY <1>1, <1>2, SpecIInv, TurnsHold, PTL DEF Spec

\* A trusted issue leaves the scanner's list because it is known, or enqueued
\* just now; else a call or a process failed, or the slots are spent.  And a
\* slot is spent on an issue that is enqueued, cannot be decided or met a fault.
\* So no refused issue above it, and no budget of moves, passes a trusted one
\* over: what TrustedAreReached needs besides scheduling.
THEOREM RefusalsKeepNobodyWaiting ==
  Spec => [][/\ \A i \in Issue :
                  Trusted(i) /\ i \in pull.left /\ i \notin pull'.left
                  => Known(i)' \/ faults' > faults \/ (Done /\ pull.slots = 0)
             /\ pull.left # {} /\ pull'.slots < pull.slots
                  => \/ pulled' # pulled \/ kind[Current] = "gone" \/ faults' > faults
                     \/ Done]_vars
<1> DEFINE Passed(i) == Trusted(i) /\ i \in pull.left /\ i \notin pull'.left
           Excused(i) == Known(i)' \/ faults' > faults \/ (Done /\ pull.slots = 0)
           Spent == /\ pull.left # {} /\ pull'.slots < pull.slots
                       => \/ pulled' # pulled \/ kind[Current] = "gone" \/ faults' > faults
                          \/ Done
<1>1. ASSUME IInv, TurnKept, Next, NEW i \in Issue, Passed(i) PROVE Excused(i)
  <2>1. /\ Types /\ pull.left \in SUBSET Issue /\ pull.left # {}
        /\ pull.pc \in {"walk"} \cup Walking /\ pull.slots \in Nat
    BY <1>1, PullTypes DEF IInv, TurnKept
  <2>2. CASE Drops /\ Reason
    <3>1. i = Current
      BY <1>1, <2>2 DEF Drops
    <3> QED
      BY <1>1, <2>2, <3>1 DEF Reason, TurnKept, Trusted
  <2>3. CASE Stops
    BY <1>1, <2>1, <2>3 DEF Stops, TurnKept, Done, Walks
  <2> QED
    BY <1>1, <2>1, <2>2, <2>3, Turns DEF Stays, TurnKept, Trusted
<1>2. ASSUME IInv, TurnKept, Next PROVE Spent
  <2> SUFFICES ASSUME pull.left # {}, pull'.slots < pull.slots
               PROVE  pulled' # pulled \/ kind[Current] = "gone" \/ faults' > faults \/ Done
    OBVIOUS
  <2>1. Types /\ pull.slots \in Nat /\ pull.pc \in {"walk"} \cup Walking
    BY <1>2, PullTypes DEF IInv, TurnKept
  <2>2. ~Stays
    BY <2>1 DEF Stays
  <2> QED
    BY <1>2, <2>1, <2>2, Turns DEF Stops, Fair, Bought, Walking, Looking, Refusing
<1>3. IInv /\ TurnKept /\ [Next]_vars
      => [(\A i \in Issue : Passed(i) => Excused(i)) /\ Spent]_vars
  BY <1>1, <1>2
<1> QED
  BY <1>3, SpecIInv, TurnsHold, PTL DEF Spec
=============================================================================
