------------------------- MODULE AccountPool_proofs -------------------------
(***************************************************************************)
(* Proofs about AccountPool, for any number of processes, accounts and     *)
(* models and any cooldowns: types, one call per account, and that the     *)
(* pool keeps the book of PoolBook.                                        *)
(***************************************************************************)
EXTENDS AccountPool, TLAPS, FiniteSetTheorems, WellFoundedInduction

-----------------------------------------------------------------------------
(* The inductive invariant: types, and where a process is.                 *)

Books == [Account -> [Model -> Book!Record]]
Trying == {"create", "read", "sweep", "again", "won", "lost"}

LocksOK ==
  /\ file \in [File -> Proc \cup {NoProc}] /\ age \in [File -> Nat]
  /\ lstep \in [Proc -> LockSteps] /\ want \in [Proc -> File]
  /\ dead \in SUBSET Proc /\ reused \in SUBSET dead
PlacesOK == at \in [Proc -> Steps \cup {"idle", "gone"}]
ChoicesOK ==
  /\ model \in [Proc -> Model] /\ may \in [Proc -> BOOLEAN] /\ acct \in [Proc -> Account]
  /\ tries \in [Proc -> 0..Cardinality(Account)] /\ polls \in [Proc -> 0..MaxPolls]
MetOK == met \in [Proc -> Book!Limit \cup {Nothing, Clearing}]
BookOK == cool \in Books /\ draft \in [Proc -> Books \cup {NoBook}]
CountsOK == jobs \in [Proc -> 0..MaxJobs] /\ limits \in 0..MaxLimits /\ sloppy \in BOOLEAN

Types == LocksOK /\ PlacesOK /\ ChoicesOK /\ MetOK /\ BookOK /\ CountsOK

\* What a process is at is what it does with the locks.
Place(p) ==
  /\ at[p] \in {"idle", "pick", "call", "gone"} => lstep[p] = "none"
  /\ at[p] \in {"idle", "pick", "lease", "call"} => met[p] = Nothing
  /\ at[p] = "lease" => lstep[p] \in Trying /\ want[p] = acct[p]
  /\ at[p] = "return" => lstep[p] \in {"none", "unlink"} /\ met[p] # Clearing
  /\ at[p] = "book" => lstep[p] \in Trying /\ want[p] = StateLock /\ met[p] # Nothing
  /\ at[p] = "write" => /\ lstep[p] = "won" \/ (lstep[p] = "none" /\ sloppy)
                        /\ want[p] = StateLock /\ met[p] # Nothing /\ draft[p] # NoBook
  /\ at[p] = "done" => lstep[p] \in {"none", "unlink"}
Placed == \A p \in Proc : Place(p)

-----------------------------------------------------------------------------
(* Lemmas.                                                                 *)

LEMMA Bounds ==
  /\ Account \subseteq Nat /\ IsFiniteSet(Account) /\ Account # {} /\ StateLock \notin Account
  /\ File = Account \cup {StateLock}
  /\ Judge \in Model /\ Spare \in Model
  /\ AgeLimit[StateLock] = 0 /\ AgeLimit \in [File -> Nat]
  /\ Overloaded \in Nat /\ Overloaded > 0 /\ Probe \in Nat /\ Escalated \in Nat /\ Window \in Nat
  /\ Overloaded <= Probe /\ Probe <= Escalated /\ Probe <= Window /\ Window > 0
  /\ \A a \in Account : AgeLimit[a] \in 1..Window
  /\ MaxPolls \in Nat /\ MaxJobs \in Nat /\ MaxLimits \in Nat /\ MaxDead \in Nat
  /\ NoProc \notin Proc
BY PoolAssumption, ShortLockAssumption

\* The first of a set of accounts is one of it.
LEMMA FirstAccount ==
  ASSUME NEW S \in SUBSET Account, S # {}
  PROVE  Min(S) \in S
<1>1. S \subseteq Nat
  BY Bounds
<1>2. PICK x \in S : \A y \in S : ~ (<<y, x>> \in OpToRel(<, Nat))
  BY <1>1, WFMin, NatLessThanWellFounded
<1>3. ASSUME NEW y \in S PROVE x <= y
  <2>1. x \in Nat /\ y \in Nat
    BY <1>1
  <2>2. y < x => <<y, x>> \in OpToRel(<, Nat)
    BY <2>1 DEF OpToRel
  <2>3. ~(y < x)
    BY <1>2, <2>2, Zenon
  <2> QED
    BY <2>1, <2>3
<1> QED
  BY <1>3 DEF Min

LEMMA Accounts == Cardinality(Account) \in Nat /\ Cardinality(Account) > 0
<1>1. Cardinality(Account) \in Nat /\ Cardinality(Account) # 0
  BY Bounds, FS_CardinalityType, FS_EmptySet
<1> QED
  BY <1>1

LEMMA TypesImplyTypeOK == Types => TypeOK
BY DEF Types, LocksOK, PlacesOK, ChoicesOK, MetOK, BookOK, CountsOK, Books, TypeOK, LockTypeOK

\* The end of a step or a clear.
LEMMA EndsMoves ==
  ASSUME Types, NEW p \in Proc, NEW l \in {"idle", "gone"}, Ends(p, l)
  PROVE  /\ PlacesOK' /\ ChoicesOK' /\ MetOK'
         /\ draft' \in [Proc -> Books \cup {NoBook}]
         /\ at'[p] = l /\ met'[p] = Nothing
         /\ \A q \in Proc \ {p} :
              /\ at'[q] = at[q] /\ model'[q] = model[q] /\ acct'[q] = acct[q]
              /\ met'[q] = met[q] /\ draft'[q] = draft[q]
<1>1. Min(Account) \in Account
  BY Bounds, FirstAccount
<1>2. Judge \in Model /\ 0 \in 0..Cardinality(Account) /\ 0 \in 0..MaxPolls
  BY Bounds, Accounts
<1>3. PlacesOK' /\ at'[p] = l /\ \A q \in Proc \ {p} : at'[q] = at[q]
  BY DEF Ends, Goto, Types, PlacesOK
<1>4. ChoicesOK' /\ \A q \in Proc \ {p} : model'[q] = model[q] /\ acct'[q] = acct[q]
  BY <1>1, <1>2 DEF Ends, Types, ChoicesOK
<1>5. MetOK' /\ met'[p] = Nothing /\ \A q \in Proc \ {p} : met'[q] = met[q]
  BY DEF Ends, Types, MetOK
<1>6. draft' \in [Proc -> Books \cup {NoBook}] /\ \A q \in Proc \ {p} : draft'[q] = draft[q]
  BY DEF Ends, Types, BookOK
<1> QED
  BY <1>3, <1>4, <1>5, <1>6

LEMMA GotoMoves ==
  ASSUME PlacesOK, NEW p \in Proc, NEW l \in Steps, Goto(p, l)
  PROVE  PlacesOK' /\ at'[p] = l /\ \A q \in Proc \ {p} : at'[q] = at[q]
BY DEF PlacesOK, Goto

\* An attempt at a lock, and its release.
LEMMA TryMoves ==
  ASSUME LocksOK, NEW p \in Proc, NEW f \in File, TryLock(p, f)
  PROVE  /\ LocksOK' /\ lstep'[p] = "create" /\ want'[p] = f
         /\ \A q \in Proc \ {p} : lstep'[q] = lstep[q] /\ want'[q] = want[q]
BY DEF LocksOK, TryLock, LockSteps

LEMMA ReleaseMoves ==
  ASSUME LocksOK, NEW p \in Proc, NEW f \in File, ReleaseFile(p, f)
  PROVE  /\ LocksOK' /\ want'[p] = f
         /\ lstep'[p] = IF file[f] = p THEN "unlink" ELSE "none"
         /\ \A q \in Proc \ {p} : lstep'[q] = lstep[q] /\ want'[q] = want[q]
BY DEF LocksOK, ReleaseFile, LockSteps

LEMMA DoneMoves ==
  ASSUME LocksOK, NEW p \in Proc, LockDone(p), UNCHANGED <<file, age, want, dead, reused>>
  PROVE  LocksOK' /\ lstep'[p] = "none" /\ \A q \in Proc \ {p} : lstep'[q] = lstep[q]
BY DEF LocksOK, LockDone, LockSteps

\* A step of a lock rewrites its file, or leaves it.
LEMMA PutMoves ==
  ASSUME LocksOK, NEW p \in Proc, NEW f \in File, NEW h \in Proc \cup {NoProc}, NEW l \in LockSteps,
         Put(f, h) \/ UNCHANGED <<file, age>>,
         lstep' = [lstep EXCEPT ![p] = l], UNCHANGED <<want, dead, reused>>
  PROVE  LocksOK' /\ lstep'[p] = l /\ \A q \in Proc \ {p} : lstep'[q] = lstep[q]
<1>1. file' \in [File -> Proc \cup {NoProc}] /\ age' \in [File -> Nat]
  BY DEF Put, LocksOK
<1>2. /\ lstep' \in [Proc -> LockSteps] /\ lstep'[p] = l
      /\ \A q \in Proc \ {p} : lstep'[q] = lstep[q]
  BY DEF LocksOK
<1>3. want' \in [Proc -> File] /\ dead' \in SUBSET Proc /\ reused' \in SUBSET dead'
  BY DEF LocksOK
<1> QED
  BY <1>1, <1>2, <1>3 DEF LocksOK

\* Where an attempt leads.
LockMove(p, from, to) ==
  /\ lstep[p] = from /\ lstep'[p] = to /\ LocksOK' /\ want' = want /\ dead' = dead
  /\ \A q \in Proc \ {p} : lstep'[q] = lstep[q]

LEMMA LockStepMoves ==
  ASSUME LocksOK, NEW p \in Proc, LockStep(p)
  PROVE  \/ \E from \in {"create", "read", "sweep", "again"}, to \in Trying : LockMove(p, from, to)
         \/ LockMove(p, "unlink", "none")
<1>0. want[p] \in File
  BY DEF LocksOK
<1>a. ASSUME NEW from \in {"create", "again"}, NEW other \in {"read", "lost"},
             Attempt(p, from, other)
      PROVE  \E to \in Trying : LockMove(p, from, to)
  <2>1. PICK l \in {"won", other} :
          /\ lstep' = [lstep EXCEPT ![p] = l]
          /\ Put(want[p], p) \/ UNCHANGED <<file, age>>
    BY <1>a DEF Attempt
  <2>2. lstep[p] = from /\ UNCHANGED <<want, dead, reused>>
    BY <1>a DEF Attempt
  <2>3. l \in LockSteps /\ l \in Trying
    BY DEF LockSteps, Trying
  <2>4. LocksOK' /\ lstep'[p] = l /\ \A q \in Proc \ {p} : lstep'[q] = lstep[q]
    BY <1>0, <2>1, <2>2, <2>3, PutMoves
  <2> QED
    BY <2>2, <2>3, <2>4 DEF LockMove
<1>1. CASE CreateFile(p) \/ CreateAgain(p)
  BY <1>1, <1>a DEF CreateFile, CreateAgain
<1>2. CASE JudgeFile(p)
  <2>1. PICK l \in {"again", "lost", "sweep"} : lstep' = [lstep EXCEPT ![p] = l]
    BY <1>2 DEF JudgeFile
  <2>2. lstep[p] = "read" /\ UNCHANGED <<file, age, want, dead, reused>>
    BY <1>2 DEF JudgeFile
  <2>3. l \in LockSteps /\ l \in Trying
    BY DEF LockSteps, Trying
  <2>4. LocksOK' /\ lstep'[p] = l /\ \A q \in Proc \ {p} : lstep'[q] = lstep[q]
    BY <1>0, <2>1, <2>2, <2>3, PutMoves
  <2> QED
    BY <2>2, <2>3, <2>4 DEF LockMove
<1>3. CASE SweepFile(p)
  <2>1. "again" \in LockSteps /\ "again" \in Trying
    BY DEF LockSteps, Trying
  <2>2. /\ lstep[p] = "sweep" /\ Put(want[p], NoProc) /\ lstep' = [lstep EXCEPT ![p] = "again"]
        /\ UNCHANGED <<want, dead, reused>>
    BY <1>3 DEF SweepFile
  <2>3. LocksOK' /\ lstep'[p] = "again" /\ \A q \in Proc \ {p} : lstep'[q] = lstep[q]
    BY <1>0, <2>1, <2>2, PutMoves
  <2> QED
    BY <2>1, <2>2, <2>3 DEF LockMove
<1>4. CASE UnlinkFile(p)
  <2>1. "none" \in LockSteps
    BY DEF LockSteps
  <2>2. /\ lstep[p] = "unlink" /\ Put(want[p], NoProc) /\ lstep' = [lstep EXCEPT ![p] = "none"]
        /\ UNCHANGED <<want, dead, reused>>
    BY <1>4 DEF UnlinkFile, LockDone
  <2>3. LocksOK' /\ lstep'[p] = "none" /\ \A q \in Proc \ {p} : lstep'[q] = lstep[q]
    BY <1>0, <2>1, <2>2, PutMoves
  <2> QED
    BY <2>2, <2>3 DEF LockMove
<1> QED
  BY <1>1, <1>2, <1>3, <1>4 DEF LockStep

-----------------------------------------------------------------------------
(* The book.                                                               *)

LEMMA FreshTypes == Book!Fresh \in Book!Record
BY Bounds DEF Book!Fresh, Book!Record, Book!Never

LEMMA UsageTimes ==
  ASSUME NEW rec
  PROVE  Book!UsageTime(rec) \in {Probe, Escalated} /\ Book!UsageTime(rec) \in 1..Escalated
BY Bounds DEF Book!UsageTime

LEMMA UsageTypes ==
  ASSUME NEW rec \in Book!Record, NEW end \in 1..Escalated, NEW scope \in {"model", "account"}
  PROVE  /\ Book!UsageUntil(rec, end, scope) \in Book!Record
         /\ Book!UsageUntil(rec, end, scope).left = end
         /\ Book!UsageUntil(rec, end, scope).since = 0
         /\ Book!UsageUntil(rec, end, scope).scope = scope
<1>1. end \in 0..Escalated /\ 0 \in 0..(Window + 1)
  BY Bounds
<1> QED
  BY <1>1 DEF Book!UsageUntil, Book!Record, Book!Never

LEMMA OverloadTypes ==
  ASSUME NEW rec \in Book!Record
  PROVE  /\ Book!Overload(rec) \in Book!Record
         /\ Book!Overload(rec).left >= rec.left /\ Book!Overload(rec).left > 0
         /\ Book!Overload(rec).since = rec.since
         /\ Book!Overload(rec).scope = "account" =>
              rec.scope = "account" /\ Book!Overload(rec) = rec
<1>1. rec.left \in 0..Escalated /\ Overloaded \in 0..Escalated /\ Overloaded > 0
  BY Bounds DEF Book!Record
<1>2. CASE rec.left >= Overloaded
  BY <1>1, <1>2 DEF Book!Overload
<1>3. CASE ~(rec.left >= Overloaded)
  <2>1. Book!Overload(rec) = [rec EXCEPT !.left = Overloaded, !.kind = "overloaded", !.scope = "model"]
    BY <1>3 DEF Book!Overload
  <2>2. /\ Book!Overload(rec) \in Book!Record /\ Book!Overload(rec).left = Overloaded
        /\ Book!Overload(rec).since = rec.since /\ Book!Overload(rec).scope = "model"
    BY <1>1, <2>1 DEF Book!Record
  <2> QED
    BY <1>1, <1>3, <2>2
<1> QED
  BY <1>2, <1>3

\* The longest of the models' ends is one of them.
LEMMA LongestEnd ==
  ASSUME NEW f \in [Model -> Book!Record]
  PROVE  Book!Max({Book!UsageTime(f[u]) : u \in Model}) \in 1..Escalated
<1> DEFINE S == {Book!UsageTime(f[u]) : u \in Model}
<1>1. S # {} /\ S \subseteq {Probe, Escalated}
  BY UsageTimes, Bounds
<1> HIDE DEF S
<1>2. PICK x \in S : \A y \in S : x >= y
  <2>1. CASE Escalated \in S
    <3>1. \A y \in S : Escalated >= y
      BY <1>1, Bounds
    <3> QED
      BY <2>1, <3>1
  <2>2. CASE Escalated \notin S
    <3>1. \E x \in S : \A y \in S : x = Probe /\ y = Probe
      BY <1>1, <2>2
    <3> QED
      BY <3>1, Bounds
  <2> QED
    BY <2>1, <2>2
<1>3. Book!Max(S) \in S
  BY <1>2 DEF Book!Max
<1>4. Book!Max(S) \in 1..Escalated
  <2>1. Probe \in 1..Escalated /\ Escalated \in 1..Escalated
    BY Bounds
  <2>2. Book!Max(S) = Probe \/ Book!Max(S) = Escalated
    BY <1>1, <1>3
  <2> QED
    BY <2>1, <2>2
<1> QED
  BY <1>4 DEF S

\* The three ways an account's records change when a limit is booked.
Overloads(r, m, n) == n = [r EXCEPT ![m] = Book!Overload(r[m])]
UsesOne(r, m, n) ==
  n = [r EXCEPT ![m] = Book!UsageUntil(r[m], Book!UsageTime(r[m]), "model")]
UsesAll(r, n) ==
  \E end \in 1..Escalated : n = [t \in Model |-> Book!UsageUntil(r[t], end, "account")]

\* What a booking makes of the book, account by account.
LEMMA BookedTypes ==
  ASSUME NEW b \in Books, NEW a \in Account, NEW m \in Model, NEW limit \in Book!Limit
  PROVE  /\ Book!Booked(b, a, m, limit) \in Books
         /\ \A c \in Account \ {a} : Book!Booked(b, a, m, limit)[c] = b[c]
         /\ \/ Overloads(b[a], m, Book!Booked(b, a, m, limit)[a])
            \/ /\ limit.kind # "overloaded"
               /\ \/ UsesOne(b[a], m, Book!Booked(b, a, m, limit)[a])
                  \/ UsesAll(b[a], Book!Booked(b, a, m, limit)[a])
<1>t. b[a] \in [Model -> Book!Record] /\ b[a][m] \in Book!Record
  BY DEF Books
<1>1. ASSUME NEW r \in [Model -> Book!Record],
             Book!Booked(b, a, m, limit) = [b EXCEPT ![a] = r]
      PROVE  /\ Book!Booked(b, a, m, limit) \in Books
             /\ \A c \in Account \ {a} : Book!Booked(b, a, m, limit)[c] = b[c]
             /\ Book!Booked(b, a, m, limit)[a] = r
  BY <1>1 DEF Books
<1>2. CASE limit.kind = "overloaded"
  <2>1. Book!Overload(b[a][m]) \in Book!Record
    BY <1>t, OverloadTypes
  <2>2. [b[a] EXCEPT ![m] = Book!Overload(b[a][m])] \in [Model -> Book!Record]
    BY <1>t, <2>1
  <2>3. Book!Booked(b, a, m, limit) = [b EXCEPT ![a] = [b[a] EXCEPT ![m] = Book!Overload(b[a][m])]]
    BY <1>2 DEF Book!Booked
  <2> QED
    BY <1>1, <1>2, <2>2, <2>3 DEF Overloads
<1>3. CASE limit.kind # "overloaded" /\ limit.scope = "model"
  <2> DEFINE u == Book!UsageUntil(b[a][m], Book!UsageTime(b[a][m]), "model")
  <2>1. u \in Book!Record
    BY <1>t, UsageTimes, UsageTypes
  <2>2. [b[a] EXCEPT ![m] = u] \in [Model -> Book!Record]
    BY <1>t, <2>1
  <2>3. Book!Booked(b, a, m, limit) = [b EXCEPT ![a] = [b[a] EXCEPT ![m] = u]]
    BY <1>3 DEF Book!Booked
  <2> HIDE DEF u
  <2>4. /\ Book!Booked(b, a, m, limit) \in Books
        /\ \A c \in Account \ {a} : Book!Booked(b, a, m, limit)[c] = b[c]
        /\ Book!Booked(b, a, m, limit)[a] = [b[a] EXCEPT ![m] = u]
    BY <1>1, <2>2, <2>3
  <2> QED
    BY <1>3, <2>4 DEF u, UsesOne
<1>4. CASE limit.kind # "overloaded" /\ limit.scope # "model"
  <2> DEFINE end == Book!Max({Book!UsageTime(b[a][u]) : u \in Model})
             r == [t \in Model |-> Book!UsageUntil(b[a][t], end, "account")]
  <2>1. end \in 1..Escalated
    BY <1>t, LongestEnd
  <2>2. Book!Booked(b, a, m, limit) = [b EXCEPT ![a] = r]
    BY <1>4 DEF Book!Booked
  <2> HIDE DEF end
  <2>3. ASSUME NEW t \in Model PROVE Book!UsageUntil(b[a][t], end, "account") \in Book!Record
    BY <1>t, <2>1, UsageTypes
  <2>4. r \in [Model -> Book!Record]
    BY <2>3
  <2>5. /\ Book!Booked(b, a, m, limit) \in Books
        /\ \A c \in Account \ {a} : Book!Booked(b, a, m, limit)[c] = b[c]
        /\ Book!Booked(b, a, m, limit)[a] = r
    BY <1>1, <2>2, <2>4
  <2> QED
    BY <1>4, <2>1, <2>5 DEF UsesAll
<1> QED
  BY <1>2, <1>3, <1>4

LEMMA ClearedTypes ==
  ASSUME NEW b \in Books, NEW a \in Account
  PROVE  /\ Book!Cleared(b, a) \in Books
         /\ Book!Cleared(b, a)[a] = [t \in Model |-> Book!Fresh]
         /\ \A c \in Account \ {a} : Book!Cleared(b, a)[c] = b[c]
<1>1. [t \in Model |-> Book!Fresh] \in [Model -> Book!Record]
  BY FreshTypes
<1> QED
  BY <1>1 DEF Book!Cleared, Books

LEMMA DraftTypes ==
  ASSUME Types, NEW p \in Proc, met[p] # Nothing
  PROVE  Draft(p) \in Books
<1>1. cool \in Books /\ acct[p] \in Account /\ model[p] \in Model
  BY DEF Types, BookOK, ChoicesOK
<1>2. CASE met[p] = Clearing
  BY <1>1, <1>2, ClearedTypes DEF Draft
<1>3. CASE met[p] # Clearing
  <2>1. met[p] \in Book!Limit
    BY <1>3 DEF Types, MetOK
  <2> QED
    BY <1>1, <1>3, <2>1, BookedTypes DEF Draft
<1> QED
  BY <1>2, <1>3

LEMMA AgedTypes ==
  ASSUME NEW rec \in Book!Record
  PROVE  /\ Book!Aged(rec) \in Book!Record
         /\ Book!Aged(rec).left = (IF rec.left = 0 THEN 0 ELSE rec.left - 1)
         /\ Book!Aged(rec).since = (IF rec.since = Window + 1 THEN Window + 1 ELSE rec.since + 1)
         /\ Book!Aged(rec).scope = (IF Book!Aged(rec).left = 0 THEN "none" ELSE rec.scope)
<1> DEFINE l == IF rec.left = 0 THEN 0 ELSE rec.left - 1
           s == IF rec.since = Window + 1 THEN Window + 1 ELSE rec.since + 1
           k == IF l = 0 THEN "none" ELSE rec.kind
           c == IF l = 0 THEN "none" ELSE rec.scope
<1>1. Book!Aged(rec) = [left |-> l, since |-> s, kind |-> k, scope |-> c]
  BY DEF Book!Aged, Book!Never
<1>2. /\ rec.left \in 0..Escalated /\ rec.since \in 0..(Window + 1)
      /\ rec.kind \in {"none", "usage", "overloaded"} /\ rec.scope \in {"none", "model", "account"}
  BY DEF Book!Record, Book!Never
<1>3. l \in 0..Escalated /\ s \in 0..(Window + 1)
  BY <1>2, Bounds
<1>4. k \in {"none", "usage", "overloaded"} /\ c \in {"none", "model", "account"}
  BY <1>2
<1> HIDE DEF l, s, k, c
<1>5. Book!Aged(rec) \in Book!Record
  BY <1>1, <1>3, <1>4 DEF Book!Record, Book!Never
<1>6. Book!Aged(rec).left = l /\ Book!Aged(rec).since = s /\ Book!Aged(rec).scope = c
  BY <1>1
<1> QED
  BY <1>5, <1>6 DEF l, s, c

-----------------------------------------------------------------------------
(* A process acts alone: types and places.                                 *)

Same(q) ==
  /\ at'[q] = at[q] /\ lstep'[q] = lstep[q] /\ want'[q] = want[q]
  /\ model'[q] = model[q] /\ acct'[q] = acct[q] /\ met'[q] = met[q] /\ draft'[q] = draft[q]
Acts(p) ==
  /\ Types' /\ Place(p)' /\ (sloppy => sloppy')
  /\ \A q \in Proc \ {p} : Same(q)

LEMMA BeginActs ==
  ASSUME Types, NEW p \in Proc, Place(p),
         NEW m \in Model, NEW f \in BOOLEAN, BeginRotation(p, m, f)
  PROVE  Acts(p)
<1>1. /\ PlacesOK' /\ at'[p] = "pick" /\ \A q \in Proc \ {p} : at'[q] = at[q]
  BY GotoMoves DEF BeginRotation, Types, Steps
<1>2. at[p] = "idle" /\ jobs[p] + 1 \in 0..MaxJobs
  BY Bounds DEF BeginRotation, Idle, Types, CountsOK
<1>3. CountsOK'
  BY <1>2 DEF BeginRotation, Types, CountsOK
<1>4. ChoicesOK' /\ \A q \in Proc \ {p} : model'[q] = model[q] /\ acct'[q] = acct[q]
  BY Bounds, Accounts DEF BeginRotation, Types, ChoicesOK
<1>5. UNCHANGED <<lockVars, cool, met, draft, sloppy>>
  BY DEF BeginRotation
<1>6. LocksOK' /\ MetOK' /\ BookOK'
  BY <1>5 DEF Types, LocksOK, MetOK, BookOK, lockVars
<1>7. Place(p)'
  BY <1>1, <1>2, <1>5 DEF Place, lockVars
<1> QED
  BY <1>1, <1>3, <1>4, <1>5, <1>6, <1>7 DEF Acts, Same, Types, lockVars

LEMMA ClearActs ==
  ASSUME Types, NEW p \in Proc, Place(p), StartClear(p)
  PROVE  Acts(p)
<1>1. /\ PlacesOK' /\ at'[p] = "book" /\ \A q \in Proc \ {p} : at'[q] = at[q]
  BY GotoMoves DEF StartClear, Types, Steps
<1>2. jobs[p] + 1 \in 0..MaxJobs
  BY Bounds DEF StartClear, Idle, Types, CountsOK
<1>3. CountsOK'
  BY <1>2 DEF StartClear, Types, CountsOK
<1>4. ChoicesOK' /\ \A q \in Proc \ {p} : acct'[q] = acct[q]
  BY Bounds DEF StartClear, Types, ChoicesOK
<1>5. UNCHANGED <<cool, model, draft, sloppy>>
  BY DEF StartClear
<1>6. MetOK' /\ met'[p] = Clearing /\ \A q \in Proc \ {p} : met'[q] = met[q]
  BY DEF StartClear, Types, MetOK
<1>7. /\ LocksOK' /\ lstep'[p] = "create" /\ want'[p] = StateLock
      /\ \A q \in Proc \ {p} : lstep'[q] = lstep[q] /\ want'[q] = want[q]
  BY Bounds, TryMoves DEF StartClear, Types
<1>8. Clearing # Nothing
  BY DEF Clearing, Nothing
<1>9. Place(p)'
  BY <1>1, <1>6, <1>7, <1>8 DEF Place, Trying
<1> QED
  BY <1>1, <1>3, <1>4, <1>5, <1>6, <1>7, <1>9 DEF Acts, Same, Types, BookOK

\* The end of a step or a clear, with no lock to let go of.
LEMMA EndActs ==
  ASSUME Types, NEW p \in Proc, Ends(p, "idle"), LocksOK', want' = want,
         lstep'[p] = "none", \A q \in Proc \ {p} : lstep'[q] = lstep[q],
         UNCHANGED <<cool, jobs, limits, sloppy>>
  PROVE  Acts(p)
<1>1. /\ PlacesOK' /\ ChoicesOK' /\ MetOK' /\ draft' \in [Proc -> Books \cup {NoBook}]
      /\ at'[p] = "idle" /\ met'[p] = Nothing
      /\ \A q \in Proc \ {p} :
           /\ at'[q] = at[q] /\ model'[q] = model[q] /\ acct'[q] = acct[q]
           /\ met'[q] = met[q] /\ draft'[q] = draft[q]
  BY EndsMoves
<1>2. BookOK' /\ CountsOK'
  BY <1>1 DEF Types, BookOK, CountsOK
<1>3. Place(p)'
  BY <1>1 DEF Place
<1> QED
  BY <1>1, <1>2, <1>3 DEF Acts, Same, Types

\* The rotation picks again: with another model, or after a sleep.
LEMMA PickActs ==
  ASSUME Types, NEW p \in Proc, LocksOK', want' = want,
         lstep'[p] = "none", \A q \in Proc \ {p} : lstep'[q] = lstep[q],
         ChoicesOK', \A q \in Proc \ {p} : model'[q] = model[q] /\ acct'[q] = acct[q],
         MetOK', met'[p] = Nothing, \A q \in Proc \ {p} : met'[q] = met[q],
         Goto(p, "pick"), UNCHANGED <<cool, draft, jobs, limits, sloppy>>
  PROVE  Acts(p)
<1>1. /\ PlacesOK' /\ at'[p] = "pick" /\ \A q \in Proc \ {p} : at'[q] = at[q]
  BY GotoMoves DEF Types, Steps
<1>2. BookOK' /\ CountsOK'
  BY DEF Types, BookOK, CountsOK
<1>3. Place(p)'
  BY <1>1 DEF Place
<1> QED
  BY <1>1, <1>2, <1>3 DEF Acts, Same, Types

LEMMA PollActs ==
  ASSUME Types, NEW p \in Proc, Place(p), met[p] = Nothing, PollAgain(p), LocksOK', want' = want,
         lstep'[p] = "none", \A q \in Proc \ {p} : lstep'[q] = lstep[q],
         UNCHANGED <<cool, jobs, limits, sloppy>>
  PROVE  Acts(p)
<1>1. CASE polls[p] < MaxPolls
  <2>1. polls[p] + 1 \in 0..MaxPolls
    BY <1>1, Bounds DEF Types, ChoicesOK
  <2>2. polls' = [polls EXCEPT ![p] = polls[p] + 1] /\ UNCHANGED <<model, may, acct, tries, met, draft>>
    BY <1>1 DEF PollAgain
  <2>3. ChoicesOK' /\ MetOK'
    BY <2>1, <2>2 DEF Types, ChoicesOK, MetOK
  <2>4. Goto(p, "pick")
    BY <1>1 DEF PollAgain
  <2> QED
    BY <2>2, <2>3, <2>4, PickActs
<1>2. CASE ~(polls[p] < MaxPolls)
  BY <1>2, EndActs DEF PollAgain
<1> QED
  BY <1>1, <1>2

LEMMA SwitchActs ==
  ASSUME Types, NEW p \in Proc, Place(p), SwitchModel(p), lstep[p] = "none",
         UNCHANGED <<lockVars, cool, jobs, limits, sloppy>>
  PROVE  Acts(p)
<1>1. ChoicesOK' /\ \A q \in Proc \ {p} : model'[q] = model[q] /\ acct'[q] = acct[q]
  <2>1. 1 \in 0..Cardinality(Account) /\ 0 \in 0..MaxPolls /\ Spare \in Model
    BY Bounds, Accounts
  <2> QED
    BY <2>1 DEF SwitchModel, Types, ChoicesOK
<1>2. MetOK' /\ met'[p] = Nothing /\ \A q \in Proc \ {p} : met'[q] = met[q]
  BY DEF SwitchModel, Types, MetOK
<1>3. LocksOK' /\ want' = want /\ lstep' = lstep
  BY DEF lockVars, Types, LocksOK
<1> QED
  BY <1>1, <1>2, <1>3, PickActs DEF SwitchModel

LEMMA PicksAct ==
  ASSUME Types, NEW p \in Proc, Place(p), PickFree(p) \/ PickLeased(p) \/ PickCooling(p)
  PROVE  Acts(p)
<1>1. at[p] = "pick" /\ lstep[p] = "none" /\ met[p] = Nothing
  BY DEF PickFree, PickLeased, PickCooling, Place
<1>l. LocksOK /\ lstep \in [Proc -> LockSteps]
  BY DEF Types, LocksOK
<1>2. CASE PickFree(p)
  <2> DEFINE free == Healthy(model[p]) \ Leased
             a == Min(free)
  <2>1. a \in Account /\ a \in File
    <3>1. free \in SUBSET Account /\ free # {}
      BY <1>2 DEF PickFree, Healthy
    <3> QED
      BY <3>1, FirstAccount, Bounds
  <2>2. /\ acct' = [acct EXCEPT ![p] = a] /\ TryLock(p, a) /\ Goto(p, "lease")
        /\ UNCHANGED <<cool, model, may, tries, polls, met, draft, jobs, limits, sloppy>>
    BY <1>2 DEF PickFree
  <2> HIDE DEF a
  <2>3. ChoicesOK' /\ acct'[p] = a /\ \A q \in Proc \ {p} : acct'[q] = acct[q]
    BY <2>1, <2>2 DEF Types, ChoicesOK
  <2>4. PlacesOK' /\ at'[p] = "lease" /\ \A q \in Proc \ {p} : at'[q] = at[q]
    BY <2>2, GotoMoves DEF Types, Steps
  <2>5. /\ LocksOK' /\ lstep'[p] = "create" /\ want'[p] = a
        /\ \A q \in Proc \ {p} : lstep'[q] = lstep[q] /\ want'[q] = want[q]
    BY <1>l, <2>1, <2>2, TryMoves
  <2>6. MetOK' /\ BookOK' /\ CountsOK'
    BY <2>2 DEF Types, MetOK, BookOK, CountsOK
  <2>7. Place(p)'
    BY <1>1, <2>2, <2>3, <2>4, <2>5 DEF Place, Trying
  <2> QED
    BY <2>2, <2>3, <2>4, <2>5, <2>6, <2>7 DEF Acts, Same, Types
<1>3. CASE PickLeased(p)
  <2>1. UNCHANGED <<lockVars, cool, jobs, limits, sloppy>> /\ PollAgain(p)
    BY <1>3 DEF PickLeased
  <2>2. LocksOK' /\ want' = want /\ lstep' = lstep
    BY <1>l, <2>1 DEF lockVars, LocksOK
  <2> QED
    BY <1>1, <2>1, <2>2, PollActs
<1>4. CASE PickCooling(p)
  <2>1. UNCHANGED <<lockVars, cool, jobs, limits, sloppy>>
    BY <1>4 DEF PickCooling
  <2>2. LocksOK' /\ want' = want /\ lstep' = lstep
    BY <1>l, <2>1 DEF lockVars, LocksOK
  <2>3. CASE SwitchModel(p)
    BY <1>1, <2>1, <2>3, SwitchActs
  <2>4. CASE Ends(p, "idle")
    BY <1>1, <2>1, <2>2, <2>4, EndActs
  <2> QED
    BY <1>4, <2>3, <2>4 DEF PickCooling
<1> QED
  BY <1>2, <1>3, <1>4

\* A step that moves on with its locals and its locks as they are, or done with.
LEMMA MoveActs ==
  ASSUME Types, NEW p \in Proc, NEW l \in Steps, Goto(p, l), Place(p)',
         LocksOK', \A q \in Proc \ {p} : lstep'[q] = lstep[q] /\ want'[q] = want[q],
         MetOK', \A q \in Proc \ {p} : met'[q] = met[q],
         BookOK', \A q \in Proc \ {p} : draft'[q] = draft[q],
         CountsOK', sloppy => sloppy',
         polls' \in [Proc -> 0..MaxPolls], UNCHANGED <<model, may, acct, tries>>
  PROVE  Acts(p)
<1>1. /\ PlacesOK' /\ at'[p] = l /\ \A q \in Proc \ {p} : at'[q] = at[q]
  BY GotoMoves DEF Types
<1>2. ChoicesOK'
  BY DEF Types, ChoicesOK
<1> QED
  BY <1>1, <1>2 DEF Acts, Same, Types

LEMMA LeaseActs ==
  ASSUME Types, NEW p \in Proc, Place(p), LeaseWon(p) \/ LeaseLost(p)
  PROVE  Acts(p)
<1>1. at[p] = "lease" /\ met[p] = Nothing
  BY DEF LeaseWon, LeaseLost, Place
<1>2. LockDone(p) /\ UNCHANGED <<file, age, want, dead, reused, cool, jobs, limits, sloppy>>
  BY DEF LeaseWon, LeaseLost
<1>3. LocksOK' /\ lstep'[p] = "none" /\ \A q \in Proc \ {p} : lstep'[q] = lstep[q]
  BY <1>2, DoneMoves DEF Types
<1>4. CASE LeaseWon(p)
  <2>1. Goto(p, "call") /\ UNCHANGED <<model, may, acct, tries, polls, met, draft>>
    BY <1>4 DEF LeaseWon
  <2>2. at'[p] = "call" /\ "call" \in Steps
    BY <2>1, GotoMoves DEF Types, Steps
  <2>3. Place(p)'
    BY <1>1, <1>3, <2>1, <2>2 DEF Place
  <2>4. MetOK' /\ BookOK' /\ CountsOK' /\ polls' \in [Proc -> 0..MaxPolls]
    BY <1>2, <2>1 DEF Types, MetOK, BookOK, CountsOK, ChoicesOK
  <2> QED
    BY <1>2, <1>3, <2>1, <2>2, <2>3, <2>4, MoveActs
<1>5. CASE LeaseLost(p)
  BY <1>1, <1>2, <1>3, <1>5, PollActs DEF LeaseLost
<1> QED
  BY <1>4, <1>5

LEMMA ReturnActs ==
  ASSUME Types, NEW p \in Proc, Place(p), CallReturns(p) \/ StepReturns(p) \/ StartBooking(p)
  PROVE  Acts(p)
<1>t. LocksOK /\ acct[p] \in Account /\ acct[p] \in File /\ StateLock \in File
  BY Bounds DEF Types, ChoicesOK
<1>1. CASE CallReturns(p)
  <2>1. /\ ReleaseFile(p, acct[p]) /\ Goto(p, "return")
        /\ UNCHANGED <<cool, model, may, acct, tries, polls, draft, jobs, sloppy>>
    BY <1>1 DEF CallReturns
  <2>2. /\ LocksOK' /\ lstep'[p] \in {"none", "unlink"}
        /\ \A q \in Proc \ {p} : lstep'[q] = lstep[q] /\ want'[q] = want[q]
    BY <1>t, <2>1, ReleaseMoves
  <2>3. limits' \in 0..MaxLimits
    BY <1>1, Bounds DEF CallReturns, Types, CountsOK
  <2>4. CASE met' = met
    <3>1. met'[p] = Nothing /\ Nothing # Clearing
      BY <1>1, <2>4 DEF CallReturns, Place, Nothing, Clearing
    <3>2. at'[p] = "return" /\ "return" \in Steps
      BY <2>1, GotoMoves DEF Types, Steps
    <3>3. Place(p)'
      BY <2>2, <3>1, <3>2 DEF Place
    <3>4. MetOK' /\ BookOK' /\ CountsOK' /\ polls' \in [Proc -> 0..MaxPolls]
      BY <2>1, <2>3, <2>4 DEF Types, MetOK, BookOK, CountsOK, ChoicesOK
    <3> QED
      BY <2>1, <2>2, <2>4, <3>2, <3>3, <3>4, MoveActs
  <2>5. ASSUME NEW m \in Book!Limit, met' = [met EXCEPT ![p] = m] PROVE Acts(p)
    <3>1. met'[p] = m /\ m # Clearing
      BY <2>5 DEF Types, MetOK, Book!Limit, Clearing
    <3>2. at'[p] = "return" /\ "return" \in Steps
      BY <2>1, GotoMoves DEF Types, Steps
    <3>3. Place(p)'
      BY <2>2, <3>1, <3>2 DEF Place
    <3>4. MetOK' /\ \A q \in Proc \ {p} : met'[q] = met[q]
      BY <2>5 DEF Types, MetOK
    <3>5. BookOK' /\ CountsOK' /\ polls' \in [Proc -> 0..MaxPolls]
      BY <2>1, <2>3 DEF Types, BookOK, CountsOK, ChoicesOK
    <3> QED
      BY <2>1, <2>2, <3>2, <3>3, <3>4, <3>5, MoveActs
  <2> QED
    BY <1>1, <2>4, <2>5 DEF CallReturns
<1>2. CASE StepReturns(p)
  <2>1. UNCHANGED <<lockVars, cool, jobs, limits, sloppy>> /\ Ends(p, "idle") /\ lstep[p] = "none"
    BY <1>2 DEF StepReturns
  <2>2. LocksOK' /\ want' = want /\ lstep' = lstep
    BY <1>t, <2>1 DEF lockVars, LocksOK
  <2> QED
    BY <2>1, <2>2, EndActs
<1>3. CASE StartBooking(p)
  <2>1. /\ TryLock(p, StateLock) /\ Goto(p, "book") /\ met[p] # Nothing
        /\ UNCHANGED <<cool, model, may, acct, tries, met, draft, jobs, limits, sloppy>>
    BY <1>3 DEF StartBooking
  <2>2. /\ LocksOK' /\ lstep'[p] = "create" /\ want'[p] = StateLock
        /\ \A q \in Proc \ {p} : lstep'[q] = lstep[q] /\ want'[q] = want[q]
    BY <1>t, <2>1, TryMoves
  <2>3. at'[p] = "book" /\ "book" \in Steps
    BY <2>1, GotoMoves DEF Types, Steps
  <2>4. Place(p)'
    BY <2>1, <2>2, <2>3 DEF Place, Trying
  <2>5. MetOK' /\ BookOK' /\ CountsOK'
    BY <2>1 DEF Types, MetOK, BookOK, CountsOK
  <2>6. polls' \in [Proc -> 0..MaxPolls]
    BY <1>3, Bounds DEF StartBooking, Types, ChoicesOK
  <2> QED
    BY <2>1, <2>2, <2>3, <2>4, <2>5, <2>6, MoveActs
<1> QED
  BY <1>1, <1>2, <1>3

LEMMA BookingActs ==
  ASSUME Types, NEW p \in Proc, Place(p), BookingWaits(p) \/ ReadBook(p) \/ WriteBook(p)
  PROVE  Acts(p)
<1>t. LocksOK /\ StateLock \in File
  BY Bounds DEF Types
<1>1. CASE BookingWaits(p)
  <2>1. polls[p] + 1 \in 0..MaxPolls
    BY <1>1, Bounds DEF BookingWaits, Types, ChoicesOK
  <2>2. /\ TryLock(p, StateLock) /\ at[p] = "book"
        /\ polls' = [polls EXCEPT ![p] = polls[p] + 1]
        /\ UNCHANGED <<cool, at, model, may, acct, tries, met, draft, jobs, limits, sloppy>>
    BY <1>1 DEF BookingWaits
  <2>3. /\ LocksOK' /\ lstep'[p] = "create" /\ want'[p] = StateLock
        /\ \A q \in Proc \ {p} : lstep'[q] = lstep[q] /\ want'[q] = want[q]
    BY <1>t, <2>2, TryMoves
  <2>4. Place(p)'
    BY <2>2, <2>3 DEF Place, Trying
  <2>5. PlacesOK' /\ ChoicesOK' /\ MetOK' /\ BookOK' /\ CountsOK'
    BY <2>1, <2>2 DEF Types, PlacesOK, ChoicesOK, MetOK, BookOK, CountsOK
  <2> QED
    BY <2>2, <2>3, <2>4, <2>5 DEF Acts, Same, Types
<1>2. CASE ReadBook(p)
  <2>1. /\ at[p] = "book" /\ met[p] # Nothing /\ want[p] = StateLock
        /\ draft' = [draft EXCEPT ![p] = Draft(p)] /\ Goto(p, "write")
        /\ UNCHANGED <<file, age, want, dead, reused>>
        /\ UNCHANGED <<cool, model, may, acct, tries, polls, met, jobs, limits>>
    BY <1>2 DEF ReadBook, Place
  <2>2. Draft(p) \in Books /\ Draft(p) # NoBook
    <3>1. Draft(p) \in Books
      BY <2>1, DraftTypes
    <3>2. NoBook \notin Books
      <4>1. DOMAIN NoBook = {} /\ \A b \in Books : DOMAIN b = Account
        BY DEF NoBook, Books
      <4> QED
        BY <4>1, Bounds
    <3> QED
      BY <3>1, <3>2
  <2>3. BookOK' /\ draft'[p] # NoBook /\ \A q \in Proc \ {p} : draft'[q] = draft[q]
    BY <2>1, <2>2 DEF Types, BookOK
  <2>4. at'[p] = "write" /\ "write" \in Steps
    BY <2>1, GotoMoves DEF Types, Steps
  <2>5. /\ LocksOK' /\ \A q \in Proc \ {p} : lstep'[q] = lstep[q]
        /\ lstep'[p] = "won" \/ (lstep'[p] = "none" /\ sloppy')
    <3>1. CASE lstep[p] = "won" /\ UNCHANGED <<lstep, sloppy>>
      BY <1>t, <2>1, <3>1 DEF LocksOK
    <3>2. CASE LockDone(p) /\ sloppy' = TRUE
      BY <1>t, <2>1, <3>2, DoneMoves
    <3> QED
      BY <1>2, <3>1, <3>2 DEF ReadBook
  <2>6. Place(p)'
    BY <2>1, <2>3, <2>4, <2>5 DEF Place
  <2>7. sloppy' \in BOOLEAN /\ (sloppy => sloppy')
    <3>1. CASE sloppy' = sloppy
      BY <3>1 DEF Types, CountsOK
    <3>2. CASE sloppy' = TRUE
      BY <3>2
    <3> QED
      BY <1>2, <3>1, <3>2 DEF ReadBook
  <2>8. MetOK' /\ CountsOK' /\ polls' \in [Proc -> 0..MaxPolls]
    BY <2>1, <2>7 DEF Types, MetOK, CountsOK, ChoicesOK
  <2> QED
    BY <2>1, <2>3, <2>4, <2>5, <2>6, <2>7, <2>8, MoveActs
<1>3. CASE WriteBook(p)
  <2>1. /\ at[p] = "write" /\ cool' = draft[p] /\ draft' = [draft EXCEPT ![p] = NoBook]
        /\ Goto(p, "done")
        /\ UNCHANGED <<model, may, acct, tries, polls, met, jobs, limits, sloppy>>
    BY <1>3 DEF WriteBook
  <2>2. draft[p] \in Books
    BY <2>1 DEF Place, Types, BookOK
  <2>3. BookOK' /\ \A q \in Proc \ {p} : draft'[q] = draft[q]
    BY <2>1, <2>2 DEF Types, BookOK
  <2>4. at'[p] = "done" /\ "done" \in Steps
    BY <2>1, GotoMoves DEF Types, Steps
  <2>5. /\ LocksOK' /\ lstep'[p] \in {"none", "unlink"}
        /\ \A q \in Proc \ {p} : lstep'[q] = lstep[q] /\ want'[q] = want[q]
    <3>1. CASE lstep[p] = "won"
      BY <1>t, <1>3, <3>1, ReleaseMoves DEF WriteBook
    <3>2. CASE lstep[p] # "won"
      <4>1. lstep[p] = "none"
        BY <2>1, <3>2 DEF Place
      <4> QED
        BY <1>t, <1>3, <3>2, <4>1 DEF WriteBook, lockVars, LocksOK
    <3> QED
      BY <3>1, <3>2
  <2>6. Place(p)'
    BY <2>4, <2>5 DEF Place
  <2>7. MetOK' /\ CountsOK' /\ polls' \in [Proc -> 0..MaxPolls]
    BY <2>1 DEF Types, MetOK, CountsOK, ChoicesOK
  <2> QED
    BY <2>1, <2>3, <2>4, <2>5, <2>6, <2>7, MoveActs
<1> QED
  BY <1>1, <1>2, <1>3

LEMMA DoneActs ==
  ASSUME Types, NEW p \in Proc, Place(p), ClearEnds(p) \/ Rotate(p)
  PROVE  Acts(p)
<1>1. at[p] = "done" /\ lstep[p] = "none" /\ UNCHANGED <<lockVars, cool, jobs, limits, sloppy>>
  BY DEF ClearEnds, Rotate
<1>2. LocksOK' /\ want' = want /\ lstep' = lstep
  BY <1>1 DEF lockVars, Types, LocksOK
<1>3. CASE Ends(p, "idle")
  BY <1>1, <1>2, <1>3, EndActs
<1>4. CASE SwitchModel(p)
  BY <1>1, <1>4, SwitchActs
<1>5. CASE /\ tries[p] < Cardinality(Account)
           /\ tries' = [tries EXCEPT ![p] = @ + 1] /\ polls' = [polls EXCEPT ![p] = 0]
           /\ met' = [met EXCEPT ![p] = Nothing]
           /\ Goto(p, "pick") /\ UNCHANGED <<model, may, acct, draft>>
  <2>1. tries[p] + 1 \in 0..Cardinality(Account) /\ 0 \in 0..MaxPolls
    BY <1>5, Bounds, Accounts DEF Types, ChoicesOK
  <2>2. ChoicesOK'
    BY <1>5, <2>1 DEF Types, ChoicesOK
  <2>3. MetOK' /\ met'[p] = Nothing /\ \A q \in Proc \ {p} : met'[q] = met[q]
    BY <1>5 DEF Types, MetOK
  <2> QED
    BY <1>1, <1>2, <1>5, <2>2, <2>3, PickActs
<1> QED
  BY <1>3, <1>4, <1>5 DEF ClearEnds, Rotate

LEMMA UseLockActs ==
  ASSUME Types, NEW p \in Proc, Place(p), UseLock(p)
  PROVE  Acts(p)
<1>1. UNCHANGED <<cool, at, model, may, acct, tries, polls, met, draft, jobs, limits, sloppy>>
  BY DEF UseLock
<1>2. PICK from \in LockSteps, to \in LockSteps :
        /\ LockMove(p, from, to)
        /\ \/ from \in {"create", "read", "sweep", "again"} /\ to \in Trying
           \/ from = "unlink" /\ to = "none"
  BY LockStepMoves DEF UseLock, Types, LockSteps, Trying
<1>3. PlacesOK' /\ ChoicesOK' /\ MetOK' /\ BookOK' /\ CountsOK'
  BY <1>1 DEF Types, PlacesOK, ChoicesOK, MetOK, BookOK, CountsOK
<1>4. LocksOK' /\ want' = want /\ \A q \in Proc \ {p} : lstep'[q] = lstep[q]
  BY <1>2 DEF LockMove
<1>5. at[p] \in Steps \cup {"idle", "gone"}
  BY DEF Types, PlacesOK
<1>6. ASSUME from \in {"create", "read", "sweep", "again"}, to \in Trying PROVE Place(p)'
  <2>1. at[p] \in {"lease", "book"}
    BY <1>2, <1>5, <1>6 DEF LockMove, Place, Steps
  <2> QED
    BY <1>1, <1>2, <1>4, <1>6, <2>1 DEF LockMove, Place
<1>7. ASSUME from = "unlink", to = "none" PROVE Place(p)'
  <2>1. at[p] \in {"return", "done"}
    BY <1>2, <1>5, <1>7 DEF LockMove, Place, Steps, Trying
  <2> QED
    BY <1>1, <1>2, <1>4, <1>7, <2>1 DEF LockMove, Place
<1>8. Place(p)'
  BY <1>2, <1>6, <1>7
<1> QED
  BY <1>1, <1>3, <1>4, <1>8 DEF Acts, Same, Types

LEMMA CrashActs ==
  ASSUME Types, NEW p \in Proc, Crash(p)
  PROVE  Acts(p)
<1>1. Ends(p, "gone") /\ UNCHANGED <<cool, jobs, limits, sloppy>> /\ Die(p)
  BY DEF Crash
<1>2. /\ PlacesOK' /\ ChoicesOK' /\ MetOK' /\ draft' \in [Proc -> Books \cup {NoBook}]
      /\ at'[p] = "gone" /\ met'[p] = Nothing
      /\ \A q \in Proc \ {p} :
           /\ at'[q] = at[q] /\ model'[q] = model[q] /\ acct'[q] = acct[q]
           /\ met'[q] = met[q] /\ draft'[q] = draft[q]
  BY <1>1, EndsMoves
<1>3. /\ LocksOK' /\ want' = want /\ lstep'[p] = "none"
      /\ \A q \in Proc \ {p} : lstep'[q] = lstep[q]
  BY <1>1 DEF Die, LockDone, Types, LocksOK, LockSteps
<1>4. BookOK' /\ CountsOK'
  BY <1>1, <1>2 DEF Types, BookOK, CountsOK
<1>5. Place(p)'
  BY <1>2, <1>3 DEF Place
<1> QED
  BY <1>1, <1>2, <1>3, <1>4, <1>5 DEF Acts, Same, Types

\* What a process may do.
Moves(p) == StartJudge(p) \/ StartStep(p) \/ StartClear(p) \/ StepOf(p) \/ Crash(p)

LEMMA MovesAct ==
  ASSUME Types, NEW p \in Proc, Place(p), Moves(p)
  PROVE  Acts(p)
<1>1. CASE StartJudge(p) \/ StartStep(p)
  BY <1>1, BeginActs, Bounds DEF StartJudge, StartStep
<1>2. CASE StepOf(p)
  BY <1>2, PicksAct, LeaseActs, ReturnActs, BookingActs, DoneActs, UseLockActs DEF StepOf
<1> QED
  BY <1>1, <1>2, ClearActs, CrashActs DEF Moves

\* Time changes ages and cooldowns, and nothing else.
LEMMA TickTypes ==
  ASSUME Types, Tick
  PROVE  Types' /\ cool' = [a \in Account |-> [m \in Model |-> Book!Aged(cool[a][m])]]
<1>1. /\ cool' = [a \in Account |-> [m \in Model |-> Book!Aged(cool[a][m])]]
      /\ UNCHANGED <<file, lstep, want, dead, reused, at, model, may, acct, tries, polls, met,
                     draft, jobs, limits, sloppy>>
      /\ age' = [f \in File |-> IF file[f] = NoProc \/ AgeLimit[f] = 0 \/ Expired(f) THEN age[f]
                                ELSE age[f] + 1]
  BY DEF Tick
<1>2. ASSUME NEW a \in Account, NEW m \in Model PROVE Book!Aged(cool[a][m]) \in Book!Record
  BY AgedTypes DEF Types, BookOK, Books
<1>3. cool' \in Books
  BY <1>1, <1>2 DEF Books
<1>4. age' \in [File -> Nat]
  BY <1>1 DEF Types, LocksOK
<1> QED
  BY <1>1, <1>3, <1>4 DEF Types, LocksOK, PlacesOK, ChoicesOK, MetOK, BookOK, CountsOK

LEMMA NextTypes ==
  ASSUME Types, Placed, [Next]_vars
  PROVE  Types' /\ Placed'
<1>1. ASSUME NEW p \in Proc, Moves(p) PROVE Types' /\ Placed'
  <2>1. Acts(p)
    BY <1>1, MovesAct DEF Placed
  <2>2. ASSUME NEW q \in Proc \ {p} PROVE Place(q)'
    BY <2>1 DEF Acts, Same, Placed, Place
  <2> QED
    BY <2>1, <2>2 DEF Acts, Placed
<1>2. CASE Tick
  <2>1. Types' /\ UNCHANGED <<at, lstep, want, met, acct, draft, sloppy>>
    BY <1>2, TickTypes DEF Tick
  <2> QED
    BY <2>1 DEF Placed, Place
<1>3. CASE UNCHANGED vars
  BY <1>3 DEF vars, lockVars, Types, LocksOK, PlacesOK, ChoicesOK, MetOK, BookOK, CountsOK,
     Placed, Place
<1> QED
  BY <1>1, <1>2, <1>3 DEF Next, Moves

LEMMA InitTypes == Init => Types /\ Placed
<1> SUFFICES ASSUME Init PROVE Types /\ Placed
  OBVIOUS
<1>1. LocksOK
  <2>1. File # {} /\ (CHOOSE f \in File : TRUE) \in File
    BY Bounds
  <2> QED
    BY <2>1 DEF Init, LockInit, LocksOK, LockSteps
<1>2. PlacesOK /\ MetOK
  BY DEF Init, PlacesOK, MetOK
<1>3. ChoicesOK
  <2>1. Min(Account) \in Account
    BY Bounds, FirstAccount
  <2> QED
    BY <2>1, Bounds, Accounts DEF Init, ChoicesOK
<1>4. BookOK
  <2>1. [m \in Model |-> Book!Fresh] \in [Model -> Book!Record]
    BY FreshTypes
  <2> QED
    BY <2>1 DEF Init, BookOK, Books
<1>5. CountsOK
  <2>1. 0 \in 0..MaxJobs /\ 0 \in 0..MaxLimits
    BY Bounds
  <2>2. sloppy \in BOOLEAN
    BY DEF Init
  <2> QED
    BY <2>1, <2>2 DEF Init, CountsOK
<1>6. Placed
  BY DEF Init, LockInit, Placed, Place
<1> QED
  BY <1>1, <1>2, <1>3, <1>4, <1>5, <1>6 DEF Types

\* Every variable of the pool and its locks keeps its type, whatever dies and
\* whatever the locks lose (accounts.js, account-lease.js, lock.js).
THEOREM TypeCorrect == Spec => []TypeOK
<1>1. Init => Types /\ Placed
  BY InitTypes
<1>2. Types /\ Placed /\ [Next]_vars => (Types /\ Placed)'
  BY NextTypes
<1>3. Types => TypeOK
  BY TypesImplyTypeOK
<1> QED
  BY <1>1, <1>2, <1>3, PTL DEF Spec

-----------------------------------------------------------------------------
(* One call per account: while nobody died, no lock file changes hands.    *)

FileOf(p) ==
  /\ lstep[p] # "sweep"
  /\ lstep[p] \in {"won", "unlink"} => file[want[p]] = p
  /\ at[p] = "call" => file[acct[p]] = p
InTime(f) == file[f] \in Proc => ~Expired(f)
LockExcl == (\A p \in Proc : FileOf(p)) /\ (\A f \in File : InTime(f))

\* Every action but the steps inside a lock leaves the files alone, and takes no
\* file for its own that is not.
LEMMA FilesUntouched ==
  ASSUME Types, Placed, LockExcl, dead' = {}, NEW p \in Proc, Moves(p), ~UseLock(p)
  PROVE  file' = file /\ age' = age /\ FileOf(p)'
<1>t. /\ LocksOK /\ Place(p) /\ FileOf(p) /\ acct[p] \in Account /\ acct[p] \in File
      /\ StateLock \in File /\ lstep[p] \in LockSteps
  BY Bounds DEF Types, Placed, LockExcl, ChoicesOK, LocksOK
<1>a. Acts(p)
  BY <1>t, MovesAct
\* Wherever the locks are left as they are and the process ends up idle, picking or done.
<1>b. ASSUME UNCHANGED lockVars, at'[p] # "call" PROVE file' = file /\ age' = age /\ FileOf(p)'
  BY <1>t, <1>b DEF lockVars, FileOf
<1>c. ASSUME NEW f \in File, TryLock(p, f), at'[p] # "call"
      PROVE  file' = file /\ age' = age /\ FileOf(p)'
  <2>1. lstep'[p] = "create"
    BY <1>t, <1>c, TryMoves
  <2> QED
    BY <1>c, <2>1 DEF TryLock, FileOf
<1>d. ASSUME NEW f \in File, ReleaseFile(p, f), at'[p] # "call"
      PROVE  file' = file /\ age' = age /\ FileOf(p)'
  <2>1. want'[p] = f /\ lstep'[p] = IF file[f] = p THEN "unlink" ELSE "none"
    BY <1>t, <1>d, ReleaseMoves
  <2> QED
    BY <1>d, <2>1 DEF ReleaseFile, FileOf
<1>e. ASSUME LockDone(p), UNCHANGED <<file, age, want, dead, reused>>, at'[p] # "call"
      PROVE  file' = file /\ age' = age /\ FileOf(p)'
  <2>1. lstep'[p] = "none"
    BY <1>t, <1>e, DoneMoves
  <2> QED
    BY <1>e, <2>1 DEF FileOf
<1>g. ASSUME NEW l \in Steps \cup {"idle", "gone"}, at' = [at EXCEPT ![p] = l]
      PROVE  at'[p] = l
  BY <1>g DEF Types, PlacesOK
<1>1. CASE StartJudge(p) \/ StartStep(p)
  <2>1. UNCHANGED lockVars /\ Goto(p, "pick")
    BY <1>1 DEF StartJudge, StartStep, BeginRotation
  <2> QED
    BY <1>b, <1>g, <2>1 DEF Goto, Steps
<1>2. CASE StartClear(p) \/ StartBooking(p) \/ BookingWaits(p)
  <2>1. TryLock(p, StateLock) /\ at'[p] = "book"
    BY <1>2, <1>g DEF StartClear, StartBooking, BookingWaits, Goto, Steps
  <2> QED
    BY <1>t, <1>c, <2>1
<1>3. CASE PickFree(p)
  <2>1. acct'[p] \in File /\ TryLock(p, acct'[p]) /\ at'[p] = "lease"
    <3> DEFINE a == Min(Healthy(model[p]) \ Leased)
    <3>1. acct' = [acct EXCEPT ![p] = a] /\ TryLock(p, a) /\ Goto(p, "lease")
      BY <1>3 DEF PickFree
    <3> HIDE DEF a
    <3>2. acct'[p] = a
      BY <3>1 DEF Types, ChoicesOK
    <3>3. acct'[p] \in File
      BY <1>a, Bounds DEF Acts, Types, ChoicesOK
    <3> QED
      BY <1>g, <3>1, <3>2, <3>3 DEF Goto, Steps
  <2> QED
    BY <1>c, <2>1
<1>h. ASSUME Ends(p, "idle") PROVE at'[p] = "idle"
  BY <1>h, <1>g DEF Ends, Goto
<1>i. ASSUME PollAgain(p) PROVE at'[p] # "call"
  BY <1>i, <1>h, <1>g DEF PollAgain, Goto, Steps
<1>j. ASSUME SwitchModel(p) PROVE at'[p] # "call"
  BY <1>j, <1>g DEF SwitchModel, Goto, Steps
<1>4. CASE PickLeased(p) \/ PickCooling(p) \/ StepReturns(p) \/ ClearEnds(p) \/ Rotate(p)
  <2>1. UNCHANGED lockVars
    BY <1>4 DEF PickLeased, PickCooling, StepReturns, ClearEnds, Rotate
  <2>2. Ends(p, "idle") \/ PollAgain(p) \/ SwitchModel(p) \/ Goto(p, "pick")
    BY <1>4 DEF PickLeased, PickCooling, StepReturns, ClearEnds, Rotate
  <2> QED
    BY <1>b, <1>g, <1>h, <1>i, <1>j, <2>1, <2>2 DEF Goto, Steps
<1>5. CASE LeaseWon(p)
  <2>1. /\ LockDone(p) /\ UNCHANGED <<file, age, want, dead, reused, acct>>
        /\ at[p] = "lease" /\ lstep[p] = "won"
    BY <1>5 DEF LeaseWon
  <2>2. lstep'[p] = "none"
    BY <1>t, <2>1, DoneMoves
  <2>3. file[acct[p]] = p
    BY <1>t, <2>1 DEF Place, FileOf
  <2> QED
    BY <2>1, <2>2, <2>3 DEF FileOf
<1>6. CASE LeaseLost(p)
  BY <1>6, <1>e, <1>i DEF LeaseLost
<1>7. CASE CallReturns(p)
  <2>1. ReleaseFile(p, acct[p]) /\ at'[p] = "return"
    BY <1>7, <1>g DEF CallReturns, Goto, Steps
  <2> QED
    BY <1>t, <1>d, <2>1
<1>8. CASE ReadBook(p)
  <2>1. at'[p] = "write" /\ UNCHANGED <<file, age, want, dead, reused>>
    BY <1>8, <1>g DEF ReadBook, Goto, Steps
  <2>2. CASE LockDone(p)
    BY <1>e, <2>1, <2>2
  <2>3. CASE lstep' = lstep
    BY <1>b, <2>1, <2>3 DEF lockVars
  <2> QED
    BY <1>8, <2>2, <2>3 DEF ReadBook
<1>9. CASE WriteBook(p)
  <2>1. at'[p] = "done" /\ (ReleaseFile(p, StateLock) \/ UNCHANGED lockVars)
    BY <1>9, <1>g DEF WriteBook, Goto, Steps
  <2> QED
    BY <1>t, <1>b, <1>d, <2>1
<1>10. CASE Crash(p)
  BY <1>10 DEF Crash, Die
<1> QED
  BY <1>1, <1>2, <1>3, <1>4, <1>5, <1>6, <1>7, <1>8, <1>9, <1>10 DEF Moves, StepOf

\* A file is only created where there is none, swept or unlinked by the one it names.
LEMMA LockKeepsExcl ==
  ASSUME Types, Placed, LockExcl, dead = {}, NEW p \in Proc, UseLock(p)
  PROVE  LockExcl'
<1>t. /\ LocksOK /\ want[p] \in File /\ lstep[p] \in LockSteps /\ NoProc \notin Proc
      /\ file[want[p]] \in Proc \cup {NoProc}
  BY Bounds DEF Types, LocksOK
<1>u. UNCHANGED <<at, acct>> /\ LockStep(p)
  BY DEF UseLock
<1>p. FileOf(p) /\ Place(p)
  BY DEF LockExcl, Placed
<1>q. ASSUME NEW q \in Proc, at[q] = "call" PROVE acct[q] \in File /\ lstep[q] = "none"
  BY <1>q, Bounds DEF Types, ChoicesOK, Placed, Place
<1>l. ASSUME NEW l \in LockSteps, lstep' = [lstep EXCEPT ![p] = l]
      PROVE  lstep'[p] = l /\ \A q \in Proc \ {p} : lstep'[q] = lstep[q]
  BY <1>l DEF Types, LocksOK
\* The file is left alone.
<1>a. ASSUME NEW l \in {"read", "lost", "again"}, lstep' = [lstep EXCEPT ![p] = l],
             UNCHANGED <<file, age, want>>
      PROVE  LockExcl'
  <2>1. lstep'[p] = l /\ \A q \in Proc \ {p} : lstep'[q] = lstep[q]
    BY <1>l, <1>a DEF LockSteps
  <2>2. ASSUME NEW q \in Proc PROVE FileOf(q)'
    BY <1>u, <1>a, <2>1 DEF LockExcl, FileOf
  <2>3. ASSUME NEW f \in File PROVE InTime(f)'
    BY <1>a DEF LockExcl, InTime, Expired
  <2> QED
    BY <2>2, <2>3 DEF LockExcl
\* The file is created.
<1>b. ASSUME file[want[p]] = NoProc, Put(want[p], p), lstep' = [lstep EXCEPT ![p] = "won"],
             UNCHANGED want
      PROVE  LockExcl'
  <2>1. lstep'[p] = "won" /\ \A q \in Proc \ {p} : lstep'[q] = lstep[q]
    BY <1>l, <1>b DEF LockSteps
  <2>2. /\ file'[want[p]] = p /\ age'[want[p]] = 0
        /\ \A f \in File \ {want[p]} : file'[f] = file[f] /\ age'[f] = age[f]
    BY <1>t, <1>b DEF Put, LocksOK
  <2>3. ASSUME NEW q \in Proc PROVE FileOf(q)'
    <3>1. CASE q = p
      <4>1. at[p] # "call" \/ file[acct[p]] = p
        BY <1>p DEF FileOf
      <4>2. at[p] = "call" => acct[p] \in File
        BY <1>q
      <4> QED
        BY <1>u, <1>b, <2>1, <2>2, <3>1, <4>1, <4>2 DEF FileOf
    <3>2. CASE q # p
      <4>1. FileOf(q) /\ want[q] \in File
        BY DEF LockExcl, Types, LocksOK
      <4>2. lstep[q] \in {"won", "unlink"} => want[q] # want[p]
        BY <1>t, <1>b, <4>1 DEF FileOf
      <4>3. at[q] = "call" => acct[q] \in File /\ acct[q] # want[p]
        BY <1>t, <1>b, <1>q, <4>1 DEF FileOf
      <4> QED
        BY <1>u, <1>b, <2>1, <2>2, <3>2, <4>1, <4>2, <4>3 DEF FileOf
    <3> QED
      BY <3>1, <3>2
  <2>4. ASSUME NEW f \in File PROVE InTime(f)'
    <3>1. CASE f = want[p]
      <4>1. ~(AgeLimit[f] > 0 /\ 0 > AgeLimit[f])
        BY Bounds
      <4> QED
        BY <2>2, <3>1, <4>1 DEF InTime, Expired
    <3>2. CASE f # want[p]
      BY <2>2, <3>2 DEF LockExcl, InTime, Expired
    <3> QED
      BY <3>1, <3>2
  <2> QED
    BY <2>3, <2>4 DEF LockExcl
<1>1. CASE CreateFile(p) \/ CreateAgain(p)
  <2>1. PICK l \in {"read", "lost"} : Attempt(p, "create", l) \/ Attempt(p, "again", l)
    BY <1>1 DEF CreateFile, CreateAgain
  <2>2. CASE file[want[p]] = NoProc
    BY <1>b, <2>1, <2>2 DEF Attempt
  <2>3. CASE file[want[p]] # NoProc
    BY <1>a, <2>1, <2>3 DEF Attempt
  <2> QED
    BY <2>2, <2>3
<1>2. CASE JudgeFile(p)
  <2>1. file[want[p]] # NoProc => Held(want[p])
    BY <1>t DEF LockExcl, InTime, Held, PidAlive
  <2> QED
    BY <1>a, <1>2, <2>1 DEF JudgeFile
<1>3. CASE SweepFile(p)
  BY <1>p, <1>3 DEF SweepFile, FileOf
<1>4. CASE UnlinkFile(p)
  <2>0. lstep[p] = "unlink" /\ Put(want[p], NoProc) /\ lstep' = [lstep EXCEPT ![p] = "none"]
        /\ UNCHANGED want
    BY <1>4 DEF UnlinkFile, LockDone
  <2>1. lstep'[p] = "none" /\ \A q \in Proc \ {p} : lstep'[q] = lstep[q]
    BY <1>l, <2>0 DEF LockSteps
  <2>2. /\ file'[want[p]] = NoProc /\ file[want[p]] = p
        /\ \A f \in File \ {want[p]} : file'[f] = file[f] /\ age'[f] = age[f]
    BY <1>t, <1>p, <2>0 DEF Put, LocksOK, FileOf
  <2>3. ASSUME NEW q \in Proc PROVE FileOf(q)'
    <3>1. CASE q = p
      <4>1. at[p] # "call"
        BY <1>p, <2>0 DEF Place
      <4> QED
        BY <1>u, <2>1, <3>1, <4>1 DEF FileOf
    <3>2. CASE q # p
      <4>1. FileOf(q) /\ want[q] \in File
        BY DEF LockExcl, Types, LocksOK
      <4>2. lstep[q] \in {"won", "unlink"} => want[q] # want[p]
        BY <2>2, <3>2, <4>1 DEF FileOf
      <4>3. at[q] = "call" => acct[q] \in File /\ acct[q] # want[p]
        BY <1>q, <2>2, <3>2, <4>1 DEF FileOf
      <4> QED
        BY <1>u, <2>0, <2>1, <2>2, <3>2, <4>1, <4>2, <4>3 DEF FileOf
    <3> QED
      BY <3>1, <3>2
  <2>4. ASSUME NEW f \in File PROVE InTime(f)'
    <3>1. CASE f = want[p]
      BY <1>t, <2>2, <3>1 DEF InTime
    <3>2. CASE f # want[p]
      BY <2>2, <3>2 DEF LockExcl, InTime, Expired
    <3> QED
      BY <3>1, <3>2
  <2> QED
    BY <2>3, <2>4 DEF LockExcl
<1> QED
  BY <1>u, <1>1, <1>2, <1>3, <1>4 DEF LockStep

\* Time does not age a file of a live holder beyond its limit.
LEMMA TickKeepsExcl ==
  ASSUME Types, LockExcl, dead = {}, Tick
  PROVE  LockExcl'
<1>1. UNCHANGED <<file, lstep, want, at, acct>>
  BY DEF Tick
<1>2. ASSUME NEW f \in File, file[f] \in Proc PROVE ~Expired(f)'
  <2>1. age[f] \in Nat /\ AgeLimit[f] \in Nat /\ f \in Account \cup {StateLock}
    BY Bounds DEF Types, LocksOK
  <2>2. age'[f] = age[f] \/ age'[f] = age[f] + 1
    BY DEF Tick
  <2>3. CASE f = StateLock
    BY <2>3, Bounds DEF Expired
  <2>4. CASE f \in Account
    <3>1. age[f] < AgeLimit[f]
      BY <1>2, <2>4 DEF Tick
    <3> QED
      BY <2>1, <2>2, <3>1 DEF Expired
  <2> QED
    BY <2>1, <2>3, <2>4
<1> QED
  BY <1>1, <1>2 DEF LockExcl, FileOf, InTime

LEMMA DeadStays == [Next]_vars => dead \subseteq dead'
<1>1. ASSUME NEW p \in Proc, Moves(p) PROVE dead \subseteq dead'
  BY <1>1 DEF Moves, StartJudge, StartStep, BeginRotation, StartClear, TryLock, StepOf, PickFree,
     PickLeased, PickCooling, LeaseWon, LeaseLost, CallReturns, ReleaseFile, StepReturns,
     StartBooking, BookingWaits, ReadBook, WriteBook, ClearEnds, Rotate, UseLock, LockStep,
     CreateFile, CreateAgain, Attempt, JudgeFile, SweepFile, UnlinkFile, Crash, Die, lockVars
<1> QED
  BY <1>1 DEF Next, Moves, Tick, vars, lockVars

LEMMA NextKeepsExcl ==
  ASSUME Types, Placed, dead = {} => LockExcl, [Next]_vars
  PROVE  dead' = {} => LockExcl'
<1> SUFFICES ASSUME dead' = {} PROVE LockExcl'
  OBVIOUS
<1>0. dead = {} /\ LockExcl
  BY DeadStays
<1>1. ASSUME NEW p \in Proc, Moves(p), ~UseLock(p) PROVE LockExcl'
  <2>1. file' = file /\ age' = age /\ FileOf(p)'
    BY <1>0, <1>1, FilesUntouched
  <2>2. Acts(p)
    BY <1>1, MovesAct DEF Placed
  <2>3. ASSUME NEW q \in Proc PROVE FileOf(q)'
    BY <1>0, <2>1, <2>2 DEF LockExcl, FileOf, Acts, Same
  <2>4. ASSUME NEW f \in File PROVE InTime(f)'
    BY <1>0, <2>1 DEF LockExcl, InTime, Expired
  <2> QED
    BY <2>3, <2>4 DEF LockExcl
<1>2. ASSUME NEW p \in Proc, UseLock(p) PROVE LockExcl'
  BY <1>0, <1>2, LockKeepsExcl
<1>3. CASE Tick
  BY <1>0, <1>3, TickKeepsExcl
<1>4. CASE UNCHANGED vars
  BY <1>0, <1>4 DEF vars, lockVars, LockExcl, FileOf, InTime, Expired
<1> QED
  BY <1>1, <1>2, <1>3, <1>4 DEF Next, Moves

LEMMA InitExcl == Init => LockExcl
BY Bounds DEF Init, LockInit, LockExcl, FileOf, InTime

Safe == Types /\ Placed /\ (dead = {} => LockExcl)

LEMMA SafeHolds == Spec => []Safe
<1>1. Init => Safe
  BY InitTypes, InitExcl DEF Safe
<1>2. Safe /\ [Next]_vars => Safe'
  BY NextTypes, NextKeepsExcl DEF Safe
<1> QED
  BY <1>1, <1>2, PTL DEF Spec

\* As long as nobody died, no two processes call claude on one account at the same
\* time (tryAcquireLease, releaseLease): a live holder's lease is never swept, and
\* a lease is unlinked only by the process it names.
THEOREM OneCall == Spec => []OneCallPerAccount
<1>1. Safe => OneCallPerAccount
  BY DEF Safe, LockExcl, FileOf, OneCallPerAccount
<1> QED
  BY <1>1, SafeHolds, PTL

-----------------------------------------------------------------------------
(* The book: whoever is about to write has read what is there now.         *)

DraftCurrent == \A p \in Proc : at[p] = "write" => draft[p] = Draft(p)

\* At most one process has read the book and not written it.
LEMMA OneBooking ==
  ASSUME Types, Placed, LockExcl, ~sloppy,
         NEW p \in Proc, NEW q \in Proc, at[p] = "write", at[q] = "write"
  PROVE  p = q
BY DEF Placed, Place, LockExcl, FileOf

\* The book is only rewritten by WriteBook and by time.
LEMMA BookRewritten ==
  ASSUME NEW p \in Proc, Moves(p)
  PROVE  cool' = cool \/ WriteBook(p)
BY DEF Moves, StartJudge, StartStep, BeginRotation, StartClear, StepOf, PickFree,
   PickLeased, PickCooling, LeaseWon, LeaseLost, CallReturns, StepReturns,
   StartBooking, BookingWaits, ReadBook, ClearEnds, Rotate, UseLock, Crash

\* Only ReadBook leads to the writing.
LEMMA WriteEntered ==
  ASSUME Types, NEW p \in Proc, Moves(p), at'[p] = "write"
  PROVE  ReadBook(p) \/ (at[p] = "write" /\ UseLock(p))
<1>g. ASSUME NEW l \in Steps \cup {"idle", "gone"}, at' = [at EXCEPT ![p] = l]
      PROVE  l = "write"
  BY <1>g DEF Types, PlacesOK
<1>h. ~Goto(p, "idle") /\ ~Goto(p, "gone") /\ ~Goto(p, "pick") /\ ~Goto(p, "lease")
      /\ ~Goto(p, "call") /\ ~Goto(p, "return") /\ ~Goto(p, "book") /\ ~Goto(p, "done")
  BY <1>g DEF Goto, Steps
<1>i. ~Ends(p, "idle") /\ ~Ends(p, "gone") /\ ~PollAgain(p) /\ ~SwitchModel(p)
  BY <1>h DEF Ends, PollAgain, SwitchModel
<1>1. ~StartJudge(p) /\ ~StartStep(p) /\ ~StartClear(p) /\ ~Crash(p)
  BY <1>h, <1>i DEF StartJudge, StartStep, BeginRotation, StartClear, Crash
<1>2. ~PickFree(p) /\ ~PickLeased(p) /\ ~PickCooling(p) /\ ~LeaseWon(p) /\ ~LeaseLost(p)
  BY <1>h, <1>i DEF PickFree, PickLeased, PickCooling, LeaseWon, LeaseLost
<1>3. ~CallReturns(p) /\ ~StepReturns(p) /\ ~StartBooking(p) /\ ~WriteBook(p)
      /\ ~ClearEnds(p) /\ ~Rotate(p)
  BY <1>h, <1>i DEF CallReturns, StepReturns, StartBooking, WriteBook, ClearEnds, Rotate
<1>4. ~BookingWaits(p)
  BY DEF BookingWaits
<1>5. UseLock(p) => at[p] = "write"
  BY DEF UseLock
<1> QED
  BY <1>1, <1>2, <1>3, <1>4, <1>5 DEF Moves, StepOf

LEMMA NextKeepsDraft ==
  ASSUME Safe, NothingWentWrong => DraftCurrent, [Next]_vars
  PROVE  NothingWentWrong' => DraftCurrent'
<1> SUFFICES ASSUME NothingWentWrong', NEW q \in Proc, at'[q] = "write"
             PROVE  draft'[q] = Draft(q)'
  BY DEF DraftCurrent
<1>t. Types /\ Placed /\ dead' = {} /\ ~sloppy'
  BY DEF Safe, NothingWentWrong
<1>0. dead = {} /\ LockExcl
  BY <1>t, DeadStays DEF Safe
<1>1. ASSUME NEW p \in Proc, Moves(p) PROVE draft'[q] = Draft(q)'
  <2>1. Acts(p)
    BY <1>1, <1>t, MovesAct DEF Placed
  <2>2. NothingWentWrong /\ DraftCurrent
    BY <1>0, <1>t, <2>1 DEF NothingWentWrong, Acts
  <2>3. CASE p = q
    <3>1. CASE ReadBook(p)
      <4>1. draft'[q] = Draft(q) /\ UNCHANGED <<cool, acct, model, met>>
        BY <2>3, <3>1 DEF ReadBook, Types, BookOK, Safe
      <4> QED
        BY <4>1 DEF Draft
    <3>2. CASE at[p] = "write" /\ UseLock(p)
      BY <2>2, <2>3, <3>2 DEF UseLock, DraftCurrent, Draft
    <3> QED
      BY <1>1, <1>t, <2>3, <3>1, <3>2, WriteEntered
  <2>4. CASE p # q
    <3>1. at[q] = "write" /\ draft'[q] = draft[q] /\ met'[q] = met[q] /\ acct'[q] = acct[q]
          /\ model'[q] = model[q]
      BY <2>1, <2>4 DEF Acts, Same
    <3>2. ~WriteBook(p)
      BY <1>0, <1>t, <2>2, <2>4, <3>1, OneBooking DEF WriteBook, NothingWentWrong
    <3>3. cool' = cool
      BY <1>1, <3>2, BookRewritten
    <3> QED
      BY <2>2, <3>1, <3>3 DEF DraftCurrent, Draft
  <2> QED
    BY <2>3, <2>4
<1>2. CASE Tick
  <2>1. at[q] \in {"idle", "pick", "call"} /\ at' = at
    BY <1>0, <1>2 DEF Tick
  <2> QED
    BY <2>1
<1>3. CASE UNCHANGED vars
  <2>1. NothingWentWrong /\ DraftCurrent /\ at[q] = "write"
    BY <1>0, <1>t, <1>3 DEF NothingWentWrong, vars
  <2> QED
    BY <1>3, <2>1 DEF DraftCurrent, Draft, vars
<1> QED
  BY <1>1, <1>2, <1>3 DEF Next, Moves

Booking == Safe /\ (NothingWentWrong => DraftCurrent)

LEMMA InitBooking == Init => Booking
BY InitTypes, InitExcl DEF Booking, Safe, Init, DraftCurrent

LEMMA NextKeepsBooking == Booking /\ [Next]_vars => Booking'
BY NextTypes, NextKeepsExcl, NextKeepsDraft DEF Booking, Safe

LEMMA BookingHolds == Spec => []Booking
BY InitBooking, NextKeepsBooking, PTL DEF Spec

-----------------------------------------------------------------------------
(* The refinement of PoolBook.                                             *)

LEMMA InitBook == Init => Book!Init
BY DEF Init, LockInit, Book!Init

\* A write of the book, while nothing went wrong, marks one limit or clears one
\* account on the book of that moment.
LEMMA WritesBook ==
  ASSUME Booking, NothingWentWrong, NEW p \in Proc, WriteBook(p)
  PROVE  Book!Clear \/ Book!Mark
<1>1. /\ Types /\ Place(p) /\ at[p] = "write" /\ cool' = draft[p] /\ draft[p] = Draft(p)
      /\ met[p] # Nothing
  BY DEF Booking, Safe, Placed, Place, WriteBook, DraftCurrent
<1>2. acct[p] \in Account /\ model[p] \in Model /\ met[p] \in Book!Limit \cup {Clearing}
  BY <1>1 DEF Types, ChoicesOK, MetOK
<1>3. CASE met[p] = Clearing
  BY <1>1, <1>2, <1>3 DEF Draft, Book!Clear
<1>4. CASE met[p] # Clearing
  <2>1. met[p] \in Book!Limit /\ cool' = Book!Booked(cool, acct[p], model[p], met[p])
    BY <1>1, <1>2, <1>4 DEF Draft
  <2> QED
    BY <1>2, <2>1 DEF Book!Mark
<1> QED
  BY <1>3, <1>4

LEMMA NextBook == Booking /\ [Next]_vars => [Book!Next]_<<cool, sloppy \/ dead # {}>>
<1> SUFFICES ASSUME Booking, [Next]_vars
             PROVE  \/ Book!Next
                    \/ cool' = cool /\ (sloppy \/ dead # {})' = (sloppy \/ dead # {})
  OBVIOUS
<1>t. Types /\ Placed
  BY DEF Booking, Safe
<1>1. (sloppy \/ dead # {}) => (sloppy \/ dead # {})'
  <2>1. ASSUME NEW p \in Proc, Moves(p) PROVE sloppy => sloppy'
    BY <1>t, <2>1, MovesAct DEF Placed, Acts
  <2>2. sloppy => sloppy'
    BY <2>1 DEF Next, Moves, Tick, vars
  <2> QED
    BY <2>2, DeadStays
<1>2. ASSUME NEW p \in Proc, Moves(p) PROVE Book!Next
  <2>1. CASE cool' = cool
    BY <1>1, <2>1 DEF Book!Next
  <2>2. CASE WriteBook(p) /\ NothingWentWrong
    BY <1>1, <2>2, WritesBook DEF Book!Next
  <2>3. CASE WriteBook(p) /\ ~NothingWentWrong
    <3>1. (sloppy \/ dead # {})'
      BY <1>1, <2>3 DEF NothingWentWrong
    <3> QED
      BY <1>1, <3>1 DEF Book!Next
  <2> QED
    BY <1>2, <2>1, <2>2, <2>3, BookRewritten
<1>3. CASE Tick
  BY <1>1, <1>3 DEF Tick, Book!Next, Book!Pass
<1>4. CASE UNCHANGED vars
  BY <1>4 DEF vars, lockVars
<1> QED
  BY <1>2, <1>3, <1>4 DEF Next, Moves

\* The pool implements PoolBook: as long as nobody wrote without the lock and
\* nobody died, each rewrite of state.json is one limit or one clear on top of all
\* the earlier ones (markLimit, clearCooldown, acquireShortLock).
THEOREM KeepsTheBook == Spec => KeepsBook
<1>1. Init => Book!Init
  BY InitBook
<1>2. Booking /\ [Next]_vars => [Book!Next]_<<cool, sloppy \/ dead # {}>>
  BY NextBook
<1> QED
  BY <1>1, <1>2, BookingHolds, PTL DEF Spec, KeepsBook, Book!Spec

\* What a limit makes of any record: time left is not lost by a 529.
LEMMA OverloadLengthens ==
  ASSUME NEW b \in Books, NEW a \in Account, NEW m \in Model, NEW limit \in Book!Limit,
         limit.kind = "overloaded", NEW c \in Account, NEW t \in Model
  PROVE  Book!Booked(b, a, m, limit)[c][t].left >= b[c][t].left
<1>1. b[c] \in [Model -> Book!Record] /\ b[a] \in [Model -> Book!Record]
  BY DEF Books
<1>2. b[c][t].left \in Nat /\ b[c][t] \in Book!Record /\ b[a][m] \in Book!Record
  <2>1. b[c][t] \in Book!Record /\ b[a][m] \in Book!Record
    BY <1>1
  <2> QED
    BY <2>1, Bounds DEF Book!Record
<1>3. CASE c # a
  <2>1. Book!Booked(b, a, m, limit)[c] = b[c]
    BY <1>3, BookedTypes
  <2> QED
    BY <1>2, <2>1
<1>4. CASE c = a
  <2>1. Book!Booked(b, a, m, limit)[a] = [b[a] EXCEPT ![m] = Book!Overload(b[a][m])]
    BY BookedTypes DEF Overloads
  <2>2. CASE t = m
    BY <1>1, <1>2, <1>4, <2>1, <2>2, OverloadTypes
  <2>3. CASE t # m
    BY <1>1, <1>2, <1>4, <2>1, <2>3
  <2> QED
    BY <2>2, <2>3
<1> QED
  BY <1>3, <1>4

\* The only step from "write" to "done" is the writing.
LEMMA WriteLeft ==
  ASSUME Types, NEW p \in Proc, Moves(p), at[p] = "write", at'[p] = "done"
  PROVE  WriteBook(p)
<1>1. ~StartJudge(p) /\ ~StartStep(p) /\ ~StartClear(p)
  BY DEF StartJudge, StartStep, BeginRotation, StartClear, Idle
<1>2. ~PickFree(p) /\ ~PickLeased(p) /\ ~PickCooling(p) /\ ~LeaseWon(p) /\ ~LeaseLost(p)
  BY DEF PickFree, PickLeased, PickCooling, LeaseWon, LeaseLost
<1>3. ~CallReturns(p) /\ ~StepReturns(p) /\ ~StartBooking(p) /\ ~BookingWaits(p) /\ ~ReadBook(p)
      /\ ~ClearEnds(p) /\ ~Rotate(p)
  BY DEF CallReturns, StepReturns, StartBooking, BookingWaits, ReadBook, ClearEnds, Rotate
<1>4. ~UseLock(p)
  BY DEF UseLock
<1>5. ~Crash(p)
  BY DEF Crash, Ends, Goto, Types, PlacesOK
<1> QED
  BY <1>1, <1>2, <1>3, <1>4, <1>5 DEF Moves, StepOf

\* A 529 that is booked late, over a usage limit met by another call, does not
\* bring any account back earlier (computeLimitUpdate under .state.lock).
THEOREM OverloadKeeps == Spec => OverloadKeepsQuota
<1> DEFINE Kept == \A p \in Proc :
             /\ NothingWentWrong' /\ at[p] = "write" /\ at'[p] = "done"
             /\ met[p].kind = "overloaded"
             => \A a \in Account, m \in Model : cool'[a][m].left >= cool[a][m].left
<1>1. Booking /\ [Next]_vars => [Kept]_vars
  <2> SUFFICES ASSUME Booking, Next, NEW p \in Proc, NothingWentWrong', at[p] = "write",
                      at'[p] = "done", met[p].kind = "overloaded",
                      NEW c \in Account, NEW t \in Model
               PROVE  cool'[c][t].left >= cool[c][t].left
    BY DEF vars
  <2>t. Types /\ Placed
    BY DEF Booking, Safe
  <2>1. ~Tick
    BY DEF Tick
  <2>2. PICK q \in Proc : Moves(q)
    BY <2>1 DEF Next, Moves
  <2>3. Acts(q) /\ dead = {}
    BY <2>t, <2>2, MovesAct, DeadStays DEF Placed, NothingWentWrong
  <2>4. q = p
    BY <2>3 DEF Acts, Same
  <2>5. WriteBook(p) /\ NothingWentWrong
    BY <2>t, <2>2, <2>3, <2>4, WriteLeft DEF Acts, NothingWentWrong
  <2>6. /\ cool' = Draft(p) /\ met[p] # Nothing /\ cool \in Books
        /\ acct[p] \in Account /\ model[p] \in Model /\ met[p] \in Book!Limit \cup {Nothing, Clearing}
    BY <2>t, <2>5 DEF WriteBook, Booking, DraftCurrent, Placed, Place, Types, ChoicesOK, MetOK, BookOK
  <2>7. met[p] # Clearing
    BY DEF Clearing
  <2>8. met[p] \in Book!Limit /\ cool' = Book!Booked(cool, acct[p], model[p], met[p])
    BY <2>6, <2>7 DEF Draft
  <2> QED
    BY <2>6, <2>8, OverloadLengthens
<1> QED
  BY <1>1, BookingHolds, PTL DEF Spec, OverloadKeepsQuota

-----------------------------------------------------------------------------
(* An account-wide limit ends for all models together.                     *)

ScopedOut(a) == \E m \in Model : cool[a][m].scope = "account"
TogetherIn(r) ==
  \A m \in Model : r[m].scope = "account" =>
    r[m].left > 0 /\ \A t \in Model : r[t].left >= r[m].left
Together == \A a \in Account : TogetherIn(cool[a])

\* How long ago, at most, an account-wide limit can have been booked on an account
\* that a call in flight had found healthy.
Latest(p) == IF at[p] = "lease" THEN 0 ELSE IF at[p] = "call" THEN age[acct[p]] ELSE Window
InFlight(p) == at[p] \in {"lease", "call", "return", "book", "write"} /\ met[p] # Clearing
Recent(p) ==
  InFlight(p) /\ ScopedOut(acct[p]) => \A t \in Model : cool[acct[p]][t].since <= Latest(p)
Wide == Together /\ \A p \in Proc : Recent(p)

\* One record of an account is replaced by one that lasts as long, and is not
\* account-wide unless it is the same.
LEMMA OneRecord ==
  ASSUME NEW r \in [Model -> Book!Record], NEW m \in Model, NEW rec \in Book!Record, TogetherIn(r),
         rec.scope = "account" => rec = r[m],
         (\E t \in Model : r[t].scope = "account") => rec.left >= r[m].left \/ rec.left = Escalated
  PROVE  TogetherIn([r EXCEPT ![m] = rec])
<1> DEFINE n == [r EXCEPT ![m] = rec]
<1> SUFFICES ASSUME NEW u \in Model, n[u].scope = "account", NEW t \in Model
             PROVE  n[u].left > 0 /\ n[t].left >= n[u].left
  BY Zenon DEF TogetherIn
<1>1. r[u].scope = "account" /\ n[u] = r[u]
  BY DEF TogetherIn
<1>2. r[u].left > 0 /\ r[t].left >= r[u].left
  BY <1>1 DEF TogetherIn
<1>3. r[t].left \in 0..Escalated /\ r[u].left \in 0..Escalated /\ rec.left \in 0..Escalated
  BY DEF Book!Record
<1>4. CASE t = m
  BY <1>1, <1>2, <1>3, <1>4, Bounds
<1>5. CASE t # m
  BY <1>1, <1>2, <1>5
<1> QED
  BY <1>4, <1>5

\* A limit or a clear, written on the book of that moment, keeps the accounts
\* together: p's account was healthy when its call began.
LEMMA WriteKeepsTogether ==
  ASSUME Types, Together, NEW p \in Proc, Recent(p), at[p] = "write", met[p] # Nothing
  PROVE  \A a \in Account : TogetherIn(Draft(p)[a])
<1> DEFINE a == acct[p]
           m == model[p]
           r == cool[a]
<1>t. /\ cool \in Books /\ a \in Account /\ m \in Model /\ r \in [Model -> Book!Record]
      /\ r[m] \in Book!Record /\ TogetherIn(r)
      /\ met[p] \in Book!Limit \cup {Nothing, Clearing}
  <2>1. cool \in Books /\ a \in Account /\ m \in Model /\ met[p] \in Book!Limit \cup {Nothing, Clearing}
    BY DEF Types, BookOK, ChoicesOK, MetOK
  <2>2. r \in [Model -> Book!Record]
    BY <2>1 DEF Books
  <2> QED
    BY <2>1, <2>2 DEF Together
<1> HIDE DEF a, m, r
<1>1. CASE met[p] = Clearing
  <2>1. Draft(p)[a] = [t \in Model |-> Book!Fresh] /\ \A c \in Account \ {a} : Draft(p)[c] = cool[c]
    BY <1>t, <1>1, ClearedTypes DEF Draft, a
  <2>2. TogetherIn(Draft(p)[a])
    BY <2>1 DEF TogetherIn, Book!Fresh
  <2> QED
    BY <2>1, <2>2 DEF Together
<1>2. CASE met[p] # Clearing
  <2>1. met[p] \in Book!Limit /\ Draft(p) = Book!Booked(cool, a, m, met[p])
    BY <1>t, <1>2 DEF Draft, a, m
  <2>2. \A c \in Account \ {a} : Draft(p)[c] = cool[c]
    BY <1>t, <2>1, BookedTypes
  <2>3. ASSUME Overloads(r, m, Draft(p)[a]) PROVE TogetherIn(Draft(p)[a])
    <3> DEFINE rec == Book!Overload(r[m])
    <3>1. rec \in Book!Record /\ rec.left >= r[m].left /\ (rec.scope = "account" => rec = r[m])
      BY <1>t, OverloadTypes
    <3> HIDE DEF rec
    <3>2. TogetherIn([r EXCEPT ![m] = rec])
      BY <1>t, <3>1, OneRecord
    <3> QED
      BY <2>3, <3>2 DEF rec, Overloads
  <2>4. ASSUME UsesOne(r, m, Draft(p)[a]) PROVE TogetherIn(Draft(p)[a])
    <3> DEFINE rec == Book!UsageUntil(r[m], Book!UsageTime(r[m]), "model")
    <3>1. rec \in Book!Record /\ rec.left = Book!UsageTime(r[m]) /\ rec.scope = "model"
      BY <1>t, UsageTimes, UsageTypes
    <3>2. (\E t \in Model : r[t].scope = "account") => r[m].since <= Window
      BY <1>t, <1>2 DEF Recent, InFlight, ScopedOut, Latest, a, r
    <3>3. (\E t \in Model : r[t].scope = "account") => rec.left = Escalated
      BY <3>1, <3>2 DEF Book!UsageTime
    <3> HIDE DEF rec
    <3>4. TogetherIn([r EXCEPT ![m] = rec])
      BY <1>t, <3>1, <3>3, OneRecord
    <3> QED
      BY <2>4, <3>4 DEF rec, UsesOne
  <2>5. ASSUME NEW end \in 1..Escalated,
               Draft(p)[a] = [t \in Model |-> Book!UsageUntil(r[t], end, "account")]
        PROVE  TogetherIn(Draft(p)[a])
    <3>1. \A t \in Model : Draft(p)[a][t].left = end
      BY <1>t, <2>5, UsageTypes
    <3> QED
      BY <3>1, Bounds DEF TogetherIn
  <2>6. Overloads(r, m, Draft(p)[a]) \/ UsesOne(r, m, Draft(p)[a]) \/ UsesAll(r, Draft(p)[a])
    BY <1>t, <2>1, BookedTypes DEF r
  <2>7. TogetherIn(Draft(p)[a])
    BY <2>3, <2>4, <2>5, <2>6 DEF UsesAll
  <2> QED
    BY <2>2, <2>7 DEF Together
<1> QED
  BY <1>1, <1>2

\* A limit or a clear never makes a record of an account-wide limit older.
LEMMA WriteKeepsRecent ==
  ASSUME Types, NEW p \in Proc, met[p] # Nothing, NEW c \in Account, NEW k \in Nat,
         ScopedOut(c) => \A t \in Model : cool[c][t].since <= k
  PROVE  (\E m \in Model : Draft(p)[c][m].scope = "account") =>
           \A t \in Model : Draft(p)[c][t].since <= k
<1> DEFINE a == acct[p]
           m == model[p]
           r == cool[a]
<1>t. /\ cool \in Books /\ a \in Account /\ m \in Model /\ r \in [Model -> Book!Record]
      /\ r[m] \in Book!Record /\ met[p] \in Book!Limit \cup {Nothing, Clearing}
  <2>1. cool \in Books /\ a \in Account /\ m \in Model /\ met[p] \in Book!Limit \cup {Nothing, Clearing}
    BY DEF Types, BookOK, ChoicesOK, MetOK
  <2>2. r \in [Model -> Book!Record]
    BY <2>1 DEF Books
  <2> QED
    BY <2>1, <2>2
<1> HIDE DEF a, m, r
<1>1. CASE c # a
  <2>1. Draft(p)[c] = cool[c]
    <3>1. CASE met[p] = Clearing
      BY <1>t, <1>1, <3>1, ClearedTypes DEF Draft, a
    <3>2. CASE met[p] # Clearing
      BY <1>t, <1>1, <3>2, BookedTypes DEF Draft, a, m
    <3> QED
      BY <3>1, <3>2
  <2> QED
    BY <2>1 DEF ScopedOut
<1>2. CASE c = a /\ met[p] = Clearing
  <2>1. Draft(p)[c] = [t \in Model |-> Book!Fresh]
    BY <1>t, <1>2, ClearedTypes DEF Draft, a
  <2> QED
    BY <2>1 DEF Book!Fresh
<1>3. CASE c = a /\ met[p] # Clearing
  <2>1. met[p] \in Book!Limit /\ Draft(p) = Book!Booked(cool, a, m, met[p])
    BY <1>t, <1>3 DEF Draft, a, m
  <2>2. ASSUME NEW rec, Draft(p)[c] = [r EXCEPT ![m] = rec], rec.since = r[m].since \/ rec.since = 0,
               rec.scope = "account" => r[m].scope = "account"
        PROVE  (\E u \in Model : Draft(p)[c][u].scope = "account") =>
                 \A t \in Model : Draft(p)[c][t].since <= k
    <3> SUFFICES ASSUME NEW u \in Model, Draft(p)[c][u].scope = "account", NEW t \in Model
                 PROVE  Draft(p)[c][t].since <= k
      OBVIOUS
    <3>1. r[u].scope = "account"
      BY <1>t, <2>2
    <3>2. r[t].since <= k
      BY <1>3, <3>1 DEF ScopedOut, r
    <3> QED
      BY <1>t, <2>2, <3>2
  <2>3. CASE Overloads(r, m, Draft(p)[a])
    BY <1>t, <1>3, <2>2, <2>3, OverloadTypes DEF Overloads
  <2>4. CASE UsesOne(r, m, Draft(p)[a])
    <3>1. /\ Book!UsageUntil(r[m], Book!UsageTime(r[m]), "model").since = 0
          /\ Book!UsageUntil(r[m], Book!UsageTime(r[m]), "model").scope = "model"
      BY <1>t, UsageTimes, UsageTypes
    <3> QED
      BY <1>3, <2>2, <2>4, <3>1 DEF UsesOne
  <2>5. ASSUME NEW end \in 1..Escalated,
               Draft(p)[a] = [t \in Model |-> Book!UsageUntil(r[t], end, "account")]
        PROVE  \A t \in Model : Draft(p)[a][t].since <= k
    BY <1>t, <2>5, UsageTypes
  <2>6. Overloads(r, m, Draft(p)[a]) \/ UsesOne(r, m, Draft(p)[a]) \/ UsesAll(r, Draft(p)[a])
    BY <1>t, <2>1, BookedTypes DEF r
  <2> QED
    BY <1>3, <2>3, <2>4, <2>5, <2>6 DEF UsesAll
<1> QED
  BY <1>1, <1>2, <1>3

\* An account that is out for every model is healthy for none: nobody picks it.
LEMMA PickedIsNotOut ==
  ASSUME Types, Together, NEW p \in Proc, PickFree(p)
  PROVE  acct'[p] \in Account /\ \A m \in Model : cool[acct'[p]][m].scope # "account"
<1> DEFINE free == Healthy(model[p]) \ Leased
           a == Min(free)
<1>1. free \in SUBSET Account /\ free # {}
  BY DEF PickFree, Healthy
<1>2. a \in free
  BY <1>1, FirstAccount
<1>3. acct' = [acct EXCEPT ![p] = a]
  BY DEF PickFree
<1>4. cool[a][model[p]].left = 0 /\ a \in Account
  BY <1>2 DEF Healthy
<1> HIDE DEF a
<1>5. acct'[p] = a /\ model[p] \in Model
  BY <1>3 DEF Types, ChoicesOK
<1>6. ASSUME NEW m \in Model, cool[a][m].scope = "account" PROVE FALSE
  <2>1. cool[a][m].left > 0 /\ cool[a][model[p]].left >= cool[a][m].left
    BY <1>4, <1>5, <1>6 DEF Together, TogetherIn
  <2>2. cool[a] \in [Model -> Book!Record]
    BY <1>4 DEF Types, BookOK, Books
  <2>3. cool[a][m].left \in Nat
    BY <2>2, Bounds DEF Book!Record
  <2> QED
    BY <1>4, <2>1, <2>3
<1> QED
  BY <1>4, <1>5, <1>6

\* How far back a limit can lie only grows as the call goes on.
LEMMA LatestTypes ==
  ASSUME Types, Placed, LockExcl, NEW p \in Proc, InFlight(p)
  PROVE  Latest(p) \in 0..Window
<1>1. CASE at[p] = "call"
  <2>1. acct[p] \in Account /\ file[acct[p]] = p /\ acct[p] \in File
    BY <1>1, Bounds DEF Types, ChoicesOK, LockExcl, FileOf
  <2>2. age[acct[p]] \in Nat /\ AgeLimit[acct[p]] \in 1..Window /\ ~Expired(acct[p])
    BY <2>1, Bounds DEF Types, LocksOK, LockExcl, InTime
  <2> QED
    BY <1>1, <2>2, Bounds DEF Latest, Expired
<1> QED
  BY <1>1, Bounds DEF Latest

\* A process that is in flight after its step was in flight before, on the same
\* account, with less behind it; or it has just picked one.
LEMMA StaysInFlight ==
  ASSUME Types, Placed, LockExcl, dead' = {}, NEW p \in Proc, Moves(p), InFlight(p)'
  PROVE  \/ PickFree(p)
         \/ /\ InFlight(p) /\ acct'[p] = acct[p] /\ Latest(p) <= Latest(p)'
            /\ cool' = cool
<1>a. Acts(p) /\ Place(p)
  BY MovesAct DEF Placed
<1>0. /\ at'[p] \in {"lease", "call", "return", "book", "write"} /\ met'[p] # Clearing
      /\ Types' /\ Place(p)'
  BY <1>a DEF InFlight, Acts
<1>g. ASSUME NEW l \in Steps \cup {"idle", "gone"}, at' = [at EXCEPT ![p] = l]
      PROVE  at'[p] = l
  BY <1>g DEF Types, PlacesOK
<1>h. ~Goto(p, "idle") /\ ~Goto(p, "gone") /\ ~Goto(p, "pick") /\ ~Goto(p, "done")
  BY <1>0, <1>g DEF Goto, Steps
<1>i. ~Ends(p, "idle") /\ ~Ends(p, "gone") /\ ~PollAgain(p) /\ ~SwitchModel(p)
  BY <1>h DEF Ends, PollAgain, SwitchModel
<1>1. ~StartJudge(p) /\ ~StartStep(p) /\ ~Crash(p)
  BY <1>h, <1>i DEF StartJudge, StartStep, BeginRotation, Crash
<1>2. ~StartClear(p)
  BY <1>0 DEF StartClear, Types, MetOK
<1>3. ~PickLeased(p) /\ ~PickCooling(p) /\ ~LeaseLost(p) /\ ~StepReturns(p) /\ ~WriteBook(p)
      /\ ~ClearEnds(p) /\ ~Rotate(p)
  BY <1>h, <1>i DEF PickLeased, PickCooling, LeaseLost, StepReturns, WriteBook, ClearEnds, Rotate
<1>4. ASSUME InFlight(p) PROVE Latest(p) \in 0..Window
  BY <1>4, LatestTypes
<1>n. Nothing # Clearing
  BY DEF Nothing, Clearing
<1>5. CASE LeaseWon(p)
  <2>1. /\ at[p] = "lease" /\ met[p] = Nothing /\ UNCHANGED <<acct, cool>> /\ at'[p] = "call"
    BY <1>5, <1>a, <1>g DEF LeaseWon, Place, Goto, Steps
  <2>2. age'[acct'[p]] \in Nat
    BY <1>0, Bounds DEF Types, LocksOK, ChoicesOK
  <2> QED
    BY <1>n, <2>1, <2>2 DEF InFlight, Latest
<1>6. CASE CallReturns(p)
  <2>1. /\ at[p] = "call" /\ met[p] = Nothing /\ UNCHANGED <<acct, cool>> /\ at'[p] = "return"
    BY <1>6, <1>a, <1>g DEF CallReturns, Place, Goto, Steps
  <2>2. InFlight(p)
    BY <1>n, <2>1 DEF InFlight
  <2>3. Latest(p)' = Window
    BY <2>1 DEF Latest
  <2> QED
    BY <1>4, <2>1, <2>2, <2>3, Bounds
<1>7. CASE StartBooking(p) \/ BookingWaits(p) \/ ReadBook(p)
  <2>1. /\ at[p] \in {"return", "book"} /\ met'[p] = met[p] /\ UNCHANGED <<acct, cool>>
        /\ at'[p] \in {"book", "write"}
    BY <1>7, <1>g DEF StartBooking, BookingWaits, ReadBook, Goto, Steps
  <2>2. InFlight(p)
    BY <1>0, <2>1 DEF InFlight
  <2>3. Latest(p) = Window /\ Latest(p)' = Window
    BY <2>1 DEF Latest
  <2> QED
    BY <2>1, <2>2, <2>3, Bounds
<1>8. CASE UseLock(p)
  <2>1. UNCHANGED <<at, met, acct, cool>>
    BY <1>8 DEF UseLock
  <2>2. InFlight(p)
    BY <1>0, <2>1 DEF InFlight
  <2>3. at[p] = "call" => lstep[p] = "none"
    BY <1>a DEF Place
  <2>4. at[p] # "call"
    BY <1>8, <2>3 DEF UseLock, LockStep, CreateFile, CreateAgain, Attempt, JudgeFile, SweepFile, UnlinkFile
  <2>5. Latest(p)' = Latest(p)
    BY <2>1, <2>4 DEF Latest
  <2> QED
    BY <1>4, <2>1, <2>2, <2>5, Bounds
<1> QED
  BY <1>1, <1>2, <1>3, <1>5, <1>6, <1>7, <1>8 DEF Moves, StepOf

\* Nobody else's step makes the lease of a running call younger.
LEMMA LeaseAges ==
  ASSUME Types, Placed, LockExcl, dead' = {}, NEW q \in Proc, Moves(q),
         NEW p \in Proc \ {q}, NEW f \in File, file'[f] = p
  PROVE  age'[f] = age[f]
<1>t. LocksOK /\ want[q] \in File /\ NoProc # p
  BY Bounds DEF Types, LocksOK
<1>1. CASE ~UseLock(q)
  BY <1>1, FilesUntouched
<1>2. ASSUME NEW h \in {q, NoProc}, Put(want[q], h) PROVE age'[f] = age[f]
  <2>1. f # want[q]
    BY <1>t, <1>2 DEF Put, LocksOK
  <2> QED
    BY <1>t, <1>2, <2>1 DEF Put, LocksOK
<1>3. CASE UseLock(q)
  BY <1>2, <1>3 DEF UseLock, LockStep, CreateFile, CreateAgain, Attempt, JudgeFile, SweepFile, UnlinkFile
<1> QED
  BY <1>1, <1>3

LEMMA MoveKeepsWide ==
  ASSUME Booking, NothingWentWrong, Wide, NEW p \in Proc, Moves(p), dead' = {}, LockExcl'
  PROVE  Wide'
<1>t. Types /\ Placed /\ LockExcl /\ Place(p) /\ Together /\ Recent(p) /\ cool \in Books
  BY DEF Booking, Safe, NothingWentWrong, Wide, Placed, Types, BookOK
<1>a. Acts(p) /\ Types'
  BY <1>t, MovesAct DEF Acts
<1>w. ASSUME WriteBook(p) PROVE at[p] = "write" /\ met[p] # Nothing /\ cool' = Draft(p)
  BY <1>t, <1>w DEF WriteBook, Place, Booking, NothingWentWrong, DraftCurrent
<1>1. Together'
  <2>1. CASE cool' = cool
    BY <1>t, <2>1 DEF Together, TogetherIn
  <2>2. CASE WriteBook(p)
    <3>1. \A a \in Account : TogetherIn(Draft(p)[a])
      BY <1>t, <1>w, <2>2, WriteKeepsTogether
    <3> QED
      BY <1>w, <2>2, <3>1 DEF Together, TogetherIn
  <2> QED
    BY <2>1, <2>2, BookRewritten
<1>2. ASSUME NEW q \in Proc, InFlight(q)', ScopedOut(acct[q])', acct'[q] = acct[q], InFlight(q),
             Latest(q) <= Latest(q)', NEW t \in Model
      PROVE  cool'[acct[q]][t].since <= Latest(q)'
  <2>1. acct[q] \in Account /\ Latest(q) \in Nat /\ Recent(q)
    <3>1. Latest(q) \in 0..Window
      BY <1>t, <1>2, LatestTypes
    <3> QED
      BY <1>t, <3>1, Bounds DEF Types, ChoicesOK, Wide
  <2>2. Latest(q)' \in Nat
    <3>1. acct'[q] \in File
      BY <1>a, Bounds DEF Types, ChoicesOK
    <3> QED
      BY <1>a, <3>1, Bounds DEF Latest, Types, LocksOK
  <2>3. ScopedOut(acct[q]) => \A u \in Model : cool[acct[q]][u].since <= Latest(q)
    BY <1>2, <2>1 DEF Recent
  <2>4. cool'[acct[q]][t].since <= Latest(q)
    <3>1. CASE cool' = cool
      BY <1>2, <2>3, <3>1 DEF ScopedOut
    <3>2. CASE WriteBook(p)
      <4>1. \E m \in Model : Draft(p)[acct[q]][m].scope = "account"
        BY <1>2, <1>w, <3>2 DEF ScopedOut
      <4>2. \A u \in Model : Draft(p)[acct[q]][u].since <= Latest(q)
        BY <1>t, <1>w, <2>1, <2>3, <3>2, <4>1, WriteKeepsRecent
      <4> QED
        BY <1>w, <3>2, <4>2
    <3> QED
      BY <3>1, <3>2, BookRewritten
  <2>5. cool'[acct[q]][t].since \in Nat
    <3>1. cool'[acct[q]] \in [Model -> Book!Record]
      BY <1>a, <2>1 DEF Types, BookOK, Books
    <3> QED
      BY <3>1, Bounds DEF Book!Record, Book!Never
  <2> QED
    BY <1>2, <2>1, <2>2, <2>4, <2>5
<1>3. ASSUME NEW q \in Proc, InFlight(q)', ScopedOut(acct[q])', NEW t \in Model
      PROVE  cool'[acct'[q]][t].since <= Latest(q)'
  <2>1. CASE q = p /\ PickFree(p)
    <3>1. cool' = cool
      BY <2>1 DEF PickFree
    <3>2. \A m \in Model : cool[acct'[p]][m].scope # "account"
      BY <1>t, <2>1, PickedIsNotOut
    <3> QED
      BY <1>3, <2>1, <3>1, <3>2 DEF ScopedOut
  <2>2. CASE q = p /\ ~PickFree(p)
    <3>1. InFlight(p) /\ acct'[p] = acct[p] /\ Latest(p) <= Latest(p)'
      BY <1>t, <1>3, <2>2, StaysInFlight
    <3> QED
      BY <1>2, <1>3, <2>2, <3>1
  <2>3. CASE q # p
    <3>1. at'[q] = at[q] /\ met'[q] = met[q] /\ acct'[q] = acct[q]
      BY <1>a, <2>3 DEF Acts, Same
    <3>2. InFlight(q)
      BY <1>3, <3>1 DEF InFlight
    <3>3. Latest(q)' = Latest(q)
      <4>1. CASE at[q] = "call"
        <5>1. file'[acct[q]] = q /\ acct[q] \in File
          BY <1>t, <3>1, <4>1, Bounds DEF LockExcl, FileOf, Types, ChoicesOK
        <5>2. age'[acct[q]] = age[acct[q]]
          BY <1>t, <2>3, <5>1, LeaseAges
        <5> QED
          BY <3>1, <4>1, <5>2 DEF Latest
      <4>2. CASE at[q] # "call"
        BY <3>1, <4>2 DEF Latest
      <4> QED
        BY <4>1, <4>2
    <3>4. Latest(q) <= Latest(q)'
      <4>1. Latest(q) \in 0..Window
        BY <1>t, <3>2, LatestTypes
      <4> QED
        BY <3>3, <4>1, Bounds
    <3> QED
      BY <1>2, <1>3, <3>1, <3>2, <3>4
  <2> QED
    BY <2>1, <2>2, <2>3
<1>4. ASSUME NEW q \in Proc PROVE Recent(q)'
  <2>1. SUFFICES ASSUME InFlight(q)', ScopedOut(acct[q])', NEW t \in Model
                 PROVE  cool'[acct'[q]][t].since <= Latest(q)'
    BY DEF Recent
  <2> QED
    BY <1>3, <2>1
<1> QED
  BY <1>1, <1>4 DEF Wide

\* Time runs the cooldowns of an account down together, and a call that is under
\* way ages with the limits booked since it began.
LEMMA TickKeepsWide ==
  ASSUME Booking, NothingWentWrong, Wide, Tick
  PROVE  Wide'
<1>t. Types /\ LockExcl /\ dead = {} /\ cool \in Books /\ Together
  BY DEF Booking, Safe, NothingWentWrong, Wide, Types, BookOK
<1>u. UNCHANGED <<file, at, met, acct, dead>>
  BY DEF Tick
<1>c. ASSUME NEW a \in Account, NEW m \in Model
      PROVE  cool'[a][m] = Book!Aged(cool[a][m]) /\ cool[a][m] \in Book!Record
  BY <1>t DEF Tick, Books
<1>s. ASSUME NEW a \in Account, NEW m \in Model, cool'[a][m].scope = "account"
      PROVE  /\ cool[a][m].scope = "account"
             /\ cool'[a][m].left > 0 /\ cool[a][m].left = cool'[a][m].left + 1
  <2>1. cool[a][m].left \in Nat
    BY <1>c, Bounds DEF Book!Record
  <2> QED
    BY <1>c, <1>s, <2>1, AgedTypes
<1>1. ASSUME NEW a \in Account, NEW m \in Model, cool'[a][m].scope = "account", NEW t \in Model
      PROVE  cool'[a][m].left > 0 /\ cool'[a][t].left >= cool'[a][m].left
  <2>1. cool[a][t].left >= cool[a][m].left /\ cool[a][m].left = cool'[a][m].left + 1 /\ cool'[a][m].left > 0
    BY <1>t, <1>1, <1>s DEF Together, TogetherIn
  <2>2. cool[a][t].left \in Nat /\ cool[a][m].left \in Nat
    BY <1>c, Bounds DEF Book!Record
  <2>3. cool'[a][t].left = IF cool[a][t].left = 0 THEN 0 ELSE cool[a][t].left - 1
    BY <1>c, AgedTypes
  <2>4. cool'[a][m].left = IF cool[a][m].left = 0 THEN 0 ELSE cool[a][m].left - 1
    BY <1>c, AgedTypes
  <2> QED
    BY <2>1, <2>2, <2>3, <2>4
<1>2. Together'
  BY <1>1 DEF Together, TogetherIn
<1>3. ASSUME NEW q \in Proc, InFlight(q)', ScopedOut(acct[q])', NEW t \in Model
      PROVE  cool'[acct[q]][t].since <= Latest(q)'
  <2>1. at[q] \in {"idle", "pick", "call"}
    BY <1>t DEF Tick
  <2>2. at[q] = "call" /\ InFlight(q) /\ at'[q] = "call" /\ acct'[q] = acct[q]
    BY <1>u, <1>3, <2>1 DEF InFlight
  <2> DEFINE a == acct[q]
  <2>3. a \in Account /\ a \in File /\ file[a] = q /\ q \notin dead
    BY <1>t, <2>2, Bounds DEF Types, ChoicesOK, LockExcl, FileOf
  <2>4. ScopedOut(a)
    BY <1>3, <1>s, <2>2, <2>3 DEF ScopedOut
  <2>5. cool[a][t].since <= age[a]
    BY <2>2, <2>4 DEF Wide, Recent, Latest
  <2>6. age[a] < AgeLimit[a] /\ age[a] \in Nat /\ AgeLimit[a] \in 1..Window /\ ~Expired(a)
    BY <1>t, <2>3, Bounds DEF Tick, Types, LocksOK, LockExcl, InTime
  <2>7. age'[a] = age[a] + 1
    BY <2>3, <2>6, Bounds DEF Tick
  <2>8. cool[a][t].since \in Nat
    <3>1. cool[a][t] \in Book!Record
      BY <1>c, <2>3
    <3> QED
      BY <3>1, Bounds DEF Book!Record, Book!Never
  <2>9. cool'[a][t].since = cool[a][t].since + 1
    <3>1. cool[a][t].since # Window + 1
      BY <2>5, <2>6, <2>8, Bounds
    <3> QED
      BY <1>c, <2>3, <3>1, AgedTypes
  <2>10. Latest(q)' = age'[a]
    BY <2>2 DEF Latest
  <2> HIDE DEF a
  <2>11. cool'[a][t].since <= Latest(q)'
    BY <2>5, <2>6, <2>7, <2>8, <2>9, <2>10
  <2> QED
    BY <2>11 DEF a
<1>4. ASSUME NEW q \in Proc PROVE Recent(q)'
  <2>1. SUFFICES ASSUME InFlight(q)', ScopedOut(acct[q])', NEW t \in Model
                 PROVE  cool'[acct'[q]][t].since <= Latest(q)'
    BY DEF Recent
  <2> QED
    BY <1>u, <1>3, <2>1
<1> QED
  BY <1>2, <1>4 DEF Wide

LEMMA NextKeepsWide ==
  ASSUME Booking, NothingWentWrong => Wide, [Next]_vars
  PROVE  NothingWentWrong' => Wide'
<1> SUFFICES ASSUME NothingWentWrong' PROVE Wide'
  OBVIOUS
<1>t. Types /\ Placed /\ dead = {} /\ dead' = {}
  BY DeadStays DEF Booking, Safe, NothingWentWrong
<1>x. LockExcl'
  BY <1>t, NextKeepsBooking DEF Booking, Safe
<1>1. ASSUME NEW p \in Proc, Moves(p) PROVE Wide'
  <2>1. NothingWentWrong
    BY <1>t, <1>1, MovesAct DEF Placed, Acts, NothingWentWrong
  <2> QED
    BY <1>t, <1>x, <1>1, <2>1, MoveKeepsWide
<1>2. CASE Tick
  <2>1. NothingWentWrong
    BY <1>t, <1>2 DEF Tick, NothingWentWrong
  <2> QED
    BY <1>2, <2>1, TickKeepsWide
<1>3. CASE UNCHANGED vars
  BY <1>t, <1>3 DEF vars, lockVars, NothingWentWrong, Wide, Together, TogetherIn, Recent, InFlight,
     Latest, ScopedOut
<1> QED
  BY <1>1, <1>2, <1>3 DEF Next, Moves

LEMMA InitWide == Init => Wide
BY DEF Init, Wide, Together, TogetherIn, Recent, InFlight, ScopedOut, Book!Fresh

\* As long as nobody died and nobody wrote without the lock, an account-wide limit is
\* over for one model only when it is over for all (computeLimitUpdate): whatever
\* limits the calls in flight book, and however late.
THEOREM AccountWide == Spec => []AccountWideEndsTogether
<1>1. Init => Booking /\ (NothingWentWrong => Wide)
  BY InitBooking, InitWide
<1>2. Booking /\ (NothingWentWrong => Wide) /\ [Next]_vars => (Booking /\ (NothingWentWrong => Wide))'
  BY NextKeepsBooking, NextKeepsWide
<1>3. Booking /\ (NothingWentWrong => Wide) => AccountWideEndsTogether
  <2> SUFFICES ASSUME Booking, Wide, NEW a \in Account, NEW u \in Model, cool[a][u].scope = "account",
                      NEW m \in Model
               PROVE  cool[a][m].left > 0
    BY DEF AccountWideEndsTogether
  <2>1. cool[a][u].left > 0 /\ cool[a][m].left >= cool[a][u].left
    BY DEF Wide, Together, TogetherIn
  <2>2. cool[a] \in [Model -> Book!Record]
    BY DEF Booking, Safe, Types, BookOK, Books
  <2>3. cool[a][u].left \in Nat /\ cool[a][m].left \in Nat
    BY <2>2, Bounds DEF Book!Record
  <2> QED
    BY <2>1, <2>3
<1> QED
  BY <1>1, <1>2, <1>3, PTL DEF Spec
=============================================================================
