----------------------------- MODULE AccountPool -----------------------------
(***************************************************************************)
(* The pool of claude accounts (orchestrator/accounts.js, account-lease.js)*)
(* and the rotation of one LLM step over it (callLlmStepRotating in        *)
(* state-machine.js, callIntakeStepWithRotation in intake.js).             *)
(*                                                                         *)
(* Workers and the scanner each lease an account for one call, release it, *)
(* and book a limit the call met in state.json under .state.lock; an       *)
(* operator clears an account under the same lock.  All of them share one  *)
(* directory and nothing else.                                             *)
(***************************************************************************)
EXTENDS ShortLock, FiniteSetsExt

CONSTANTS
  Account,      \* the enabled accounts, numbered in registry order
  Model,        \* the models a step may ask for
  Judge,        \* the model a judging step asks for
  Spare,        \* its quotaFallbackModel
  StateLock,    \* .state.lock
  Overloaded, Probe, Escalated, Window,
  MaxPolls,     \* times a wait polls before its budget is spent
  MaxJobs,      \* bound: steps and clears one process runs
  MaxLimits,    \* bound: limits the calls meet
  MaxDead       \* bound: crashes

ASSUME PoolAssumption ==
  /\ Account \subseteq Nat /\ IsFiniteSet(Account) /\ Account # {}
  /\ StateLock \notin Account
  /\ File = Account \cup {StateLock}
  /\ {Judge, Spare} \subseteq Model /\ Judge # Spare
  /\ AgeLimit[StateLock] = 0
  /\ {Overloaded, Probe, Escalated, Window} \subseteq Nat \ {0}
  /\ Overloaded <= Probe /\ Probe <= Escalated /\ Probe <= Window
  /\ \A a \in Account : AgeLimit[a] \in 1..Window
  /\ {MaxPolls, MaxJobs, MaxLimits, MaxDead} \subseteq Nat

VARIABLES
  cool,   \* state.json: account -> model -> record (see PoolBook)
  at,     \* where each process is
  model,  \* the model of its step now
  may,    \* mayFallBack: a fallback is declared and was not taken
  acct,   \* the account it calls, or clears
  tries,  \* attempt
  polls,  \* polls of the wait it is in
  met,    \* what it has to book: a limit, a clear or nothing
  draft,  \* the state.json it is about to write
  jobs,   \* steps and clears it started
  limits, \* limits met so far
  sloppy  \* somebody rewrote state.json without the lock

vars == <<lockVars, cool, at, model, may, acct, tries, polls, met, draft, jobs, limits, sloppy>>

Book == INSTANCE PoolBook WITH book <- cool, sloppy <- sloppy \/ dead # {}

NoBook == <<>>
Nothing == [kind |-> "none", scope |-> "none"]
Clearing == [kind |-> "clear", scope |-> "none"]
Steps == {"pick", "lease", "call", "return", "book", "write", "done"}

TypeOK ==
  /\ LockTypeOK
  /\ cool \in [Account -> [Model -> Book!Record]]
  /\ at \in [Proc -> Steps \cup {"idle", "gone"}]
  /\ model \in [Proc -> Model] /\ may \in [Proc -> BOOLEAN]
  /\ acct \in [Proc -> Account]
  /\ tries \in [Proc -> 0..Cardinality(Account)] /\ polls \in [Proc -> 0..MaxPolls]
  /\ met \in [Proc -> Book!Limit \cup {Nothing, Clearing}]
  /\ \A p \in Proc : draft[p] # NoBook => draft[p] \in [Account -> [Model -> Book!Record]]
  /\ jobs \in [Proc -> 0..MaxJobs] /\ limits \in 0..MaxLimits /\ sloppy \in BOOLEAN

Init ==
  /\ LockInit
  /\ cool = [a \in Account |-> [m \in Model |-> Book!Fresh]] /\ sloppy = FALSE
  /\ at = [p \in Proc |-> "idle"]
  /\ model = [p \in Proc |-> Judge] /\ may = [p \in Proc |-> FALSE]
  /\ acct = [p \in Proc |-> Min(Account)]
  /\ tries = [p \in Proc |-> 0] /\ polls = [p \in Proc |-> 0]
  /\ met = [p \in Proc |-> Nothing] /\ draft = [p \in Proc |-> NoBook]
  /\ jobs = [p \in Proc |-> 0] /\ limits = 0

-----------------------------------------------------------------------------
Goto(p, l) == at' = [at EXCEPT ![p] = l]
Idle(p) == at[p] = "idle" /\ jobs[p] < MaxJobs

\* The locals of a step or a clear are gone with it.
Ends(p, l) ==
  /\ Goto(p, l)
  /\ model' = [model EXCEPT ![p] = Judge] /\ may' = [may EXCEPT ![p] = FALSE]
  /\ acct' = [acct EXCEPT ![p] = Min(Account)]
  /\ tries' = [tries EXCEPT ![p] = 0] /\ polls' = [polls EXCEPT ![p] = 0]
  /\ met' = [met EXCEPT ![p] = Nothing] /\ draft' = [draft EXCEPT ![p] = NoBook]

\* activeCooldownUntil: an account is healthy for a model whose record ran out.
Healthy(m) == {a \in Account : cool[a][m].left = 0}

\* leasedAccountNames
Leased == {a \in Account : Held(a)}

\* quotaFallbackServable: no account has quota for m, and none is merely
\* overloaded; the fallback model has some.
Servable(m) ==
  /\ \A a \in Account : cool[a][m].left > 0 /\ cool[a][m].kind # "overloaded"
  /\ Healthy(Spare) # {}

BeginRotation(p, m, f) ==
  /\ Idle(p)
  /\ model' = [model EXCEPT ![p] = m] /\ may' = [may EXCEPT ![p] = f]
  /\ jobs' = [jobs EXCEPT ![p] = @ + 1]
  /\ tries' = [tries EXCEPT ![p] = 1] /\ polls' = [polls EXCEPT ![p] = 0]
  /\ Goto(p, "pick")
  /\ UNCHANGED <<lockVars, cool, acct, met, draft, limits, sloppy>>

\* callLlmStepRotating, for a judging step: it has a quotaFallbackModel.
StartJudge(p) == BeginRotation(p, Judge, TRUE)

\* callIntakeStepWithRotation, or a card's other step: whatever its model, it
\* has no fallback.
StartStep(p) == \E m \in {Judge, Spare} : BeginRotation(p, m, FALSE)

\* `spo account clear`
StartClear(p) ==
  /\ Idle(p)
  /\ jobs' = [jobs EXCEPT ![p] = @ + 1]
  /\ acct' \in [Proc -> Account] /\ \A q \in Proc \ {p} : acct'[q] = acct[q]
  /\ met' = [met EXCEPT ![p] = Clearing]
  /\ polls' = [polls EXCEPT ![p] = 0]
  /\ TryLock(p, StateLock) /\ Goto(p, "book")
  /\ UNCHANGED <<cool, model, may, tries, draft, limits, sloppy>>

\* switchToQuotaFallback: the rotation starts over with the other model.
SwitchModel(p) ==
  /\ model' = [model EXCEPT ![p] = Spare] /\ may' = [may EXCEPT ![p] = FALSE]
  /\ tries' = [tries EXCEPT ![p] = 1] /\ polls' = [polls EXCEPT ![p] = 0]
  /\ met' = [met EXCEPT ![p] = Nothing]
  /\ Goto(p, "pick") /\ UNCHANGED <<acct, draft>>

\* leaseHealthyAccount sleeps and looks again, until its budget is spent.
PollAgain_Unbounded(p) ==
  /\ polls' = [polls EXCEPT ![p] = @ + 1] /\ Goto(p, "pick")
  /\ UNCHANGED <<model, may, acct, tries, met, draft>>
PollAgain(p) ==
  IF polls[p] < MaxPolls
    THEN /\ polls' = [polls EXCEPT ![p] = @ + 1] /\ Goto(p, "pick")
         /\ UNCHANGED <<model, may, acct, tries, met, draft>>
    ELSE Ends(p, "idle")

\* pick: the first account in registry order that is healthy and not leased.
PickFree(p) ==
  LET free == Healthy(model[p]) \ Leased
  IN /\ at[p] = "pick" /\ free # {}
     /\ acct' = [acct EXCEPT ![p] = Min(free)]
     /\ TryLock(p, Min(free)) /\ Goto(p, "lease")
     /\ UNCHANGED <<cool, model, may, tries, polls, met, draft, jobs, limits, sloppy>>

\* AllAccountsLeasedError
PickLeased(p) ==
  /\ at[p] = "pick" /\ Healthy(model[p]) # {} /\ Healthy(model[p]) \subseteq Leased
  /\ PollAgain(p)
  /\ UNCHANGED <<lockVars, cool, jobs, limits, sloppy>>

\* AllAccountsCoolingError is not waited for: the other model, or a park.
PickCooling(p) ==
  /\ at[p] = "pick" /\ Healthy(model[p]) = {}
  /\ IF may[p] /\ Servable(model[p])
       THEN SwitchModel(p)
       ELSE Ends(p, "idle")
  /\ UNCHANGED <<lockVars, cool, jobs, limits, sloppy>>

\* tryAcquireLease, won: the call runs.
LeaseWon(p) ==
  /\ at[p] = "lease" /\ lstep[p] = "won"
  /\ LockDone(p) /\ Goto(p, "call")
  /\ UNCHANGED <<file, age, want, dead, reused, cool, model, may, acct, tries, polls, met,
                 draft, jobs, limits, sloppy>>

LeaseLost(p) ==
  /\ at[p] = "lease" /\ lstep[p] = "lost"
  /\ LockDone(p) /\ PollAgain(p)
  /\ UNCHANGED <<file, age, want, dead, reused, cool, jobs, limits, sloppy>>

\* invokeClaudeReal comes back with an answer (or an error, or the deadline's
\* kill, which are answers here) or with a limit; the finally releases.
CallReturns(p) ==
  /\ at[p] = "call"
  /\ \/ UNCHANGED <<met, limits>>
     \/ /\ limits < MaxLimits /\ limits' = limits + 1
        /\ \E m \in Book!Limit : met' = [met EXCEPT ![p] = m]
  /\ ReleaseFile(p, acct[p]) /\ Goto(p, "return")
  /\ UNCHANGED <<cool, model, may, acct, tries, polls, draft, jobs, sloppy>>

\* The lease is gone.  Nothing to book: the step has its result.
StepReturns(p) ==
  /\ at[p] = "return" /\ lstep[p] = "none" /\ met[p] = Nothing
  /\ Ends(p, "idle")
  /\ UNCHANGED <<lockVars, cool, jobs, limits, sloppy>>

\* markLimit starts after the release, on its own lock.
StartBooking(p) ==
  /\ at[p] = "return" /\ lstep[p] = "none" /\ met[p] # Nothing
  /\ polls' = [polls EXCEPT ![p] = 0]
  /\ TryLock(p, StateLock) /\ Goto(p, "book")
  /\ UNCHANGED <<cool, model, may, acct, tries, met, draft, jobs, limits, sloppy>>

\* markLimit and clearCooldown poll for the lock, then go on without it (degraded).
BookingWaits(p) ==
  /\ at[p] = "book" /\ lstep[p] = "lost" /\ polls[p] < MaxPolls
  /\ polls' = [polls EXCEPT ![p] = @ + 1]
  /\ TryLock(p, StateLock)
  /\ UNCHANGED <<cool, at, model, may, acct, tries, met, draft, jobs, limits, sloppy>>

\* readState, and the whole next state computed from it.
Draft(p) == IF met[p] = Clearing THEN Book!Cleared(cool, acct[p])
            ELSE Book!Booked(cool, acct[p], model[p], met[p])

ReadBook(p) ==
  /\ at[p] = "book"
  /\ \/ lstep[p] = "won" /\ UNCHANGED <<lstep, sloppy>>
     \/ lstep[p] = "lost" /\ polls[p] = MaxPolls /\ LockDone(p) /\ sloppy' = TRUE
  /\ draft' = [draft EXCEPT ![p] = Draft(p)]
  /\ Goto(p, "write")
  /\ UNCHANGED <<file, age, want, dead, reused, cool, model, may, acct, tries, polls, met, jobs, limits>>

\* writeState replaces the file; then releaseShortLock, if the lock was had.
WriteBook(p) ==
  /\ at[p] = "write"
  /\ cool' = draft[p] /\ draft' = [draft EXCEPT ![p] = NoBook]
  /\ IF lstep[p] = "won" THEN ReleaseFile(p, StateLock) ELSE UNCHANGED lockVars
  /\ Goto(p, "done")
  /\ UNCHANGED <<model, may, acct, tries, polls, met, jobs, limits, sloppy>>

ClearEnds(p) ==
  /\ at[p] = "done" /\ lstep[p] = "none" /\ met[p] = Clearing
  /\ Ends(p, "idle")
  /\ UNCHANGED <<lockVars, cool, jobs, limits, sloppy>>

\* The limit is booked: the other model, the next account, or the end of the loop.
Rotate(p) ==
  /\ at[p] = "done" /\ lstep[p] = "none" /\ met[p] # Clearing
  /\ IF may[p] /\ Servable(model[p]) THEN SwitchModel(p)
     ELSE IF tries[p] < Cardinality(Account)
       THEN /\ tries' = [tries EXCEPT ![p] = @ + 1] /\ polls' = [polls EXCEPT ![p] = 0]
            /\ met' = [met EXCEPT ![p] = Nothing]
            /\ Goto(p, "pick") /\ UNCHANGED <<model, may, acct, draft>>
     ELSE Ends(p, "idle")
  /\ UNCHANGED <<lockVars, cool, jobs, limits, sloppy>>

\* One step of acquireShortLock or releaseShortLock.
UseLock(p) ==
  /\ LockStep(p)
  /\ UNCHANGED <<cool, at, model, may, acct, tries, polls, met, draft, jobs, limits, sloppy>>

Crash(p) ==
  /\ at[p] \in Steps /\ Cardinality(dead) < MaxDead
  /\ Die(p) /\ Ends(p, "gone")
  /\ UNCHANGED <<cool, jobs, limits, sloppy>>

\* Time, in units that are long beside the use of a file: it passes only while
\* each process runs a call or sleeps.  A lease (two attempts, each under its
\* deadline) is let go before MAX_LEASE_AGE_MS.
Tick ==
  /\ \A p \in Proc \ dead : at[p] \in {"idle", "pick", "call"}
  /\ \A a \in Account : file[a] \in Proc \ dead => age[a] < AgeLimit[a]
  /\ cool' = [a \in Account |-> [m \in Model |-> Book!Aged(cool[a][m])]]
  /\ age' = [f \in File |-> IF file[f] = NoProc \/ AgeLimit[f] = 0 \/ Expired(f) THEN age[f]
                            ELSE age[f] + 1]
  /\ UNCHANGED <<file, lstep, want, dead, reused, at, model, may, acct, tries, polls, met,
                 draft, jobs, limits, sloppy>>

StepOf(p) ==
  \/ PickFree(p) \/ PickLeased(p) \/ PickCooling(p) \/ LeaseWon(p) \/ LeaseLost(p)
  \/ CallReturns(p) \/ StepReturns(p) \/ StartBooking(p)
  \/ BookingWaits(p) \/ ReadBook(p) \/ WriteBook(p)
  \/ ClearEnds(p) \/ Rotate(p) \/ UseLock(p)

Next ==
  \/ \E p \in Proc \ dead : StartJudge(p) \/ StartStep(p) \/ StartClear(p) \/ StepOf(p) \/ Crash(p)
  \/ Tick

Spec == Init /\ [][Next]_vars

-----------------------------------------------------------------------------
NothingWentWrong == dead = {} /\ ~sloppy

\* Two live callers never run claude on one account at the same time, whatever
\* they believed when they picked it (tryAcquireLease, releaseLease).
OneCallPerAccount ==
  dead = {} => \A p, q \in Proc : p # q /\ at[p] = "call" /\ at[q] = "call" => acct[p] # acct[q]

\* An account under an account-wide limit is healthy for no model before it is
\* healthy for all (computeLimitUpdate), so that a judge never falls back onto an
\* account that is out for every model: not when limits of several calls on the
\* account are booked late and in another order than they were met.
AccountWideEndsTogether ==
  NothingWentWrong =>
    \A a \in Account : (\E m \in Model : cool[a][m].scope = "account")
                       => \A m \in Model : cool[a][m].left > 0

\* A 529 booked after somebody else's quota limit does not bring the account back
\* earlier (computeLimitUpdate).
OverloadKeepsQuota ==
  [][\A p \in Proc :
       /\ NothingWentWrong' /\ at[p] = "write" /\ at'[p] = "done"
       /\ met[p].kind = "overloaded"
       => \A a \in Account, m \in Model : cool'[a][m].left >= cool[a][m].left]_vars

\* The pool keeps its book: as long as nobody wrote without the lock and nobody
\* died, every rewrite of state.json books one limit or clears one account on top
\* of what all the others booked (markLimit, clearCooldown).
KeepsBook == Book!Spec
==============================================================================
