---------------------------- MODULE ReportTriage ----------------------------
(***************************************************************************)
(* The path of a player's bug report (orchestrator/report-intake.js,       *)
(* orchestrator/auto-triage.js).  Stage 1 raises a raw issue for a queued  *)
(* report, stage 2 reads the maintainer's "confirm" or "discard" under it, *)
(* stage 3 claims a confirmed report, has it reproduced and reviewed, and  *)
(* files a public card, disposes of a duplicate, or holds it.              *)
(*                                                                         *)
(* The daemon's scanner runs the three stages one after the other;         *)
(* `spo triage --file`, run by hand, is a second process that runs stage 3 *)
(* beside it.  The file of a report is in exactly one directory, and every *)
(* decision is read back from the journal (daemon.jsonl).  The two         *)
(* processes share both, so in stage 3 a step is one call on the file      *)
(* system.  Stages 1 and 2 are the daemon's alone: a step is what it does  *)
(* between two calls it waits for.  Calls fail or lose their answer, and a *)
(* process may die between any two steps.                                  *)
(***************************************************************************)
EXTENDS Naturals, FiniteSets, Sequences, SequencesExt

CONSTANTS Report,       \* reports, each with its own file
          Key, Anchor,  \* the anchorKey a report is deduplicated by
          Cap,          \* MECHANICAL_FAILURE_CAP
          MaxTroubles,  \* bound: calls that fail or lose their answer, deaths, gaps
          MaxCrashes,   \* bound: the deaths among them
          MaxCommands   \* bound: `spo triage --file` and `--retry` run by hand

ASSUME ReportAssumption ==
  /\ IsFiniteSet(Report)
  /\ Anchor \in [Report -> Key]
  /\ Cap \in Nat \ {0}
  /\ {MaxTroubles, MaxCrashes, MaxCommands} \subseteq Nat

Runner == {"daemon", "hand"}

(* The events of a report that some decision reads back. *)
Verdict == {"triaged", "held", "mechanical"}
Handled == Verdict \cup {"unclaimable"}
Event == Handled \cup {"intake", "duplicate", "confirmed", "discarded",
                       "claimed", "error"}

(* Stage 3's steps on a report: its claim is being made (renamed, then the  *)
(* file's mtime and the sidecar), is signed and worked on until it is given *)
(* back, or is being undone, by a sweep or by the runner that gave it back. *)
Making == {"stamp", "sign"}
Signed == {"enter", "judge", "hold", "leak", "dup", "file", "archive",
           "record", "error", "cap", "release"}
Undoing == {"return", "forget", "unsign"}
Held == Making \cup Signed
Step == Held \cup Undoing \cup
        {"idle", "render", "create", "instruct", "pend", "announce", "reply",
         "discard", "sweep", "stat", "pick", "claim", "lost", "gone"}

(* What carries the time of a claim: the file's mtime, the sidecar's        *)
(* claimedAt and the last "claimed" event.                                  *)
Stamp == {"file", "sidecar", "event"}

VARIABLES
  place,    \* which directory of ~/.spo-reports holds the report's file
  raw,      \* it has a raw issue, open or closed, in the private repository
  answer,   \* what a maintainer replied under the raw issue
  journal,  \* the report's events since its last confirmation
  owner,    \* who the claim's sidecar names
  past,     \* which of its stamps are past the claim's grace
  cooling,  \* its last mechanical failure is inside the backoff
  cards,    \* public cards filed for it
  run,      \* each runner's step, and the reports its list still holds
  faults, crashes, commands,
  lost,     \* history: filings whose outcome no event records
  stale,    \* history: taken from a list read before its verdict
  raced     \* history: a claim of it was made in another runner's gap

vars == <<place, raw, answer, journal, owner, past, cooling, cards, run,
          faults, crashes, commands, lost, stale, raced>>

Idle == [step |-> "idle", todo |-> <<>>]
Unwritten == [events |-> {}, verdicts |-> 0, errors |-> 0, last |-> "none"]

Init ==
  /\ place = [r \in Report |-> "queue"]
  /\ raw = [r \in Report |-> FALSE]
  /\ answer = [r \in Report |-> "none"]
  /\ journal = [r \in Report |-> Unwritten]
  /\ owner = [r \in Report |-> "none"]
  /\ past = [r \in Report |-> Stamp]
  /\ cooling = [r \in Report |-> FALSE]
  /\ cards = [r \in Report |-> 0]
  /\ run = [p \in Runner |-> Idle]
  /\ faults = 0 /\ crashes = 0 /\ commands = 0
  /\ lost = [r \in Report |-> 0]
  /\ stale = [r \in Report |-> FALSE]
  /\ raced = [r \in Report |-> FALSE]

-----------------------------------------------------------------------------
(* The journal: what its readers look for after the last confirmation: the  *)
(* events there are, how many verdicts and errors, and what disposed of the *)
(* report last.  A confirmation makes them forget what stands before it.    *)

Has(r, events) == journal[r].events \cap events # {}

(* A raw issue nobody has answered yet. *)
PendingIntake(r) == Has(r, {"intake"}) /\ ~Has(r, {"confirmed", "discarded"})

Unhandled_HoldsReopen(r) ==
  Has(r, {"confirmed"}) /\ ~Has(r, {"triaged", "unclaimable"})

(* Confirmed, and nothing that disposes of it since. *)
Unhandled(r) == Has(r, {"confirmed"}) /\ ~Has(r, Handled)

Written(j, e) ==
  IF e = "confirmed" THEN [Unwritten EXCEPT !.events = {e}]
  ELSE [events |-> j.events \cup {e},
        verdicts |-> IF e \in Verdict THEN j.verdicts + 1 ELSE j.verdicts,
        errors |-> IF e = "error" THEN j.errors + 1 ELSE j.errors,
        last |-> IF e \in Handled THEN e ELSE j.last]

Log(r, e) == journal' = [journal EXCEPT ![r] = Written(@, e)]

-----------------------------------------------------------------------------
(* Where a runner is. *)

At(p, step) == run[p].step = step
(* A loop takes the reports of its list in turn. *)
Within(p, steps, r) ==
  run[p].step \in steps /\ run[p].todo # <<>> /\ r = Head(run[p].todo)
Working(p, step, r) == Within(p, {step}, r)
Holds(p, r) == Within(p, Held, r)
Goes(p, step) == run' = [run EXCEPT ![p].step = step]
Starts(p, step, todo) == run' = [run EXCEPT ![p] = [step |-> step, todo |-> todo]]
(* On to the next report of the list, from the step the loop begins with. *)
Continues(p, step) ==
  run' = [run EXCEPT ![p] = [step |-> step, todo |-> Tail(@.todo)]]

Spare == faults + crashes + Cardinality({r \in Report : raced[r]}) < MaxTroubles
Fault == Spare /\ faults' = faults + 1

Reports == <<place, raw, answer, owner, past, cooling, cards, lost, stale, raced>>
Bounds == <<faults, crashes, commands>>

-----------------------------------------------------------------------------
(* Stage 1: a raw issue for every queued report.                           *)

InQueue == {r \in Report : place[r] = "queue"}

(* checkReportIntakeRepo: unless GitHub answers that the repository is       *)
(* private, nothing is raised this cycle and the reports stay queued.       *)
RepoRefused == InQueue # {} /\ Fault /\ Starts("daemon", "render", <<>>)

StartIntake ==
  /\ At("daemon", "idle")
  /\ \/ (\E todo \in SetToSeqs(InQueue) : Starts("daemon", "render", todo)) /\ UNCHANGED faults
     \/ RepoRefused
  /\ UNCHANGED <<Reports, journal, crashes, commands>>

(* The search for the anchorKey finds a raw issue, open or closed: the      *)
(* report is one more occurrence of it.                                     *)
Hit(r) == \E s \in Report : Anchor[s] = Anchor[r] /\ raw[s]

Occurrence(r) ==
  /\ Hit(r)
  /\ place' = [place EXCEPT ![r] = "archive"]
  /\ Log(r, "duplicate")
  /\ Continues("daemon", "render")
  /\ UNCHANGED faults

(* It finds none, or it fails: an issue is created. *)
NoHit(r) ==
  /\ IF Hit(r) THEN Fault ELSE UNCHANGED faults
  /\ Goes("daemon", "create")
  /\ UNCHANGED <<place, journal>>

(* report:card knows another schema version, exits red or prints no card    *)
(* (parseCardOutput), or the occurrence is not noted: the report stays.     *)
Unrendered(r) ==
  /\ Fault /\ Continues("daemon", "render")
  /\ UNCHANGED <<place, journal>>

Render(r) ==
  /\ Working("daemon", "render", r)
  /\ Occurrence(r) \/ NoHit(r) \/ Unrendered(r)
  /\ UNCHANGED <<raw, answer, owner, past, cooling, cards, lost, stale,
                 raced, crashes, commands>>

Create(r) ==
  /\ Working("daemon", "create", r)
  /\ \/ /\ raw' = [raw EXCEPT ![r] = TRUE]
        /\ answer' = [answer EXCEPT ![r] = "none"]
        /\ \/ Goes("daemon", "instruct") /\ UNCHANGED faults
           \/ Fault /\ Continues("daemon", "render")
     \/ Fault /\ Continues("daemon", "render") /\ UNCHANGED <<raw, answer>>
  /\ UNCHANGED <<place, journal, owner, past, cooling, cards, lost,
                 stale, raced, crashes, commands>>

(* The comment that asks for "confirm" or "discard". *)
Instruct(r) ==
  /\ Working("daemon", "instruct", r)
  /\ \/ Goes("daemon", "pend") /\ UNCHANGED faults
     \/ Fault /\ Continues("daemon", "render")
  /\ UNCHANGED <<Reports, journal, crashes, commands>>

Pend(r) ==
  /\ Working("daemon", "pend", r)
  /\ place' = [place EXCEPT ![r] = "pending"]
  /\ Goes("daemon", "announce")
  /\ UNCHANGED <<raw, answer, journal, owner, past, cooling, cards, lost, stale,
                 raced, Bounds>>

Announce(r) ==
  /\ Working("daemon", "announce", r)
  /\ Log(r, "intake")
  /\ Continues("daemon", "render")
  /\ UNCHANGED <<Reports, Bounds>>

-----------------------------------------------------------------------------
(* Stage 2: the maintainer's word.                                         *)

Reply(r) ==
  /\ PendingIntake(r) /\ answer[r] = "none"
  /\ \E word \in {"confirm", "discard"} : answer' = [answer EXCEPT ![r] = word]
  /\ UNCHANGED <<place, raw, journal, owner, past, cooling, cards, lost, stale,
                 raced, run, Bounds>>

StartConfirm ==
  /\ At("daemon", "render") /\ run["daemon"].todo = <<>>
  /\ \E todo \in SetToSeqs({r \in Report : PendingIntake(r)}) :
       Starts("daemon", "reply", todo)
  /\ UNCHANGED <<Reports, journal, Bounds>>

(* One entry of the confirm scan: its comments are read, or cannot be. *)
ReadReply(r) ==
  /\ Working("daemon", "reply", r)
  /\ \/ /\ answer[r] = "confirm"
        /\ Log(r, "confirmed")
        /\ Continues("daemon", "reply")
        /\ UNCHANGED faults
     \/ /\ answer[r] = "discard"
        /\ Goes("daemon", "discard")
        /\ UNCHANGED <<journal, faults>>
     \/ /\ IF answer[r] = "none" THEN UNCHANGED faults ELSE Fault
        /\ Continues("daemon", "reply")
        /\ UNCHANGED journal
  /\ UNCHANGED <<Reports, crashes, commands>>

(* The issue is closed, then the file archived and the event written. *)
Discard(r) ==
  /\ Working("daemon", "discard", r)
  /\ \/ /\ place' = [place EXCEPT ![r] = "archive"]
        /\ Log(r, "discarded")
        /\ UNCHANGED faults
     \/ Fault /\ UNCHANGED <<place, journal>>
  /\ Continues("daemon", "reply")
  /\ UNCHANGED <<raw, answer, owner, past, cooling, cards, lost, stale,
                 raced, crashes, commands>>

-----------------------------------------------------------------------------
(* Stage 3, first: reclaimStaleClaims returns the claims of runners that   *)
(* died to pending/, file by file of what in-progress/ held.               *)

SameButRun == <<place, raw, answer, owner, past, cooling, cards, lost, stale>>

Sweep(p) ==
  \E todo \in SetToSeqs({r \in Report : place[r] = "progress"}) : Starts(p, "sweep", todo)

StartTriage ==
  /\ At("daemon", "reply") /\ run["daemon"].todo = <<>>
  /\ Sweep("daemon")
  /\ UNCHANGED <<Reports, journal, Bounds>>

StartByHand ==
  /\ At("hand", "idle") /\ commands < MaxCommands
  /\ commands' = commands + 1
  /\ Sweep("hand")
  /\ UNCHANGED <<Reports, journal, faults, crashes>>

(* The owner is provably gone and its grace has passed; a live owner keeps  *)
(* its claim at any age.                                                    *)
OwnerGone(r) == owner[r] = "dead" /\ "sidecar" \in past[r]

(* A gap: what the step of p assumes of r is not so while another runner is *)
(* within these steps of r.  (The bound counts the reports it happens to.)  *)
Gap(p, steps, r) ==
  IF \E q \in Runner \ {p} : Within(q, steps, r)
  THEN (Spare \/ raced[r]) /\ raced' = [raced EXCEPT ![r] = TRUE]
  ELSE UNCHANGED raced

(* The sidecar is read; one that is left from a dead owner says nothing of  *)
(* a runner that is just making its own.                                    *)
ReadClaim(p, r) ==
  /\ Working(p, "sweep", r)
  /\ \/ owner[r] = "none" /\ Goes(p, "stat") /\ UNCHANGED raced
     \/ OwnerGone(r) /\ Goes(p, "return") /\ Gap(p, Making, r)
     \/ owner[r] # "none" /\ ~OwnerGone(r) /\ Continues(p, "sweep") /\ UNCHANGED raced
  /\ UNCHANGED <<SameButRun, journal, Bounds>>

FileOld(r) == place[r] = "progress" /\ "file" \in past[r]

(* Without a sidecar the file's mtime decides: that of the claim, or, of a  *)
(* claim whose mtime is not set yet, that of the report.                    *)
StatClaim(p, r) ==
  /\ Working(p, "stat", r)
  /\ IF FileOld(r) THEN Goes(p, "return") /\ Gap(p, {"stamp"}, r)
     ELSE Continues(p, "sweep") /\ UNCHANGED raced
  /\ UNCHANGED <<SameButRun, journal, Bounds>>

(* The file is renamed back, if it is still there ...                       *)
ReturnClaim(p, r) ==
  /\ Working(p, "return", r)
  /\ IF place[r] = "progress"
     THEN place' = [place EXCEPT ![r] = "pending"] /\ Goes(p, "forget")
     ELSE Continues(p, "sweep") /\ UNCHANGED place
  /\ UNCHANGED <<raw, answer, owner, past, cooling, cards, lost, stale, raced,
                 journal, Bounds>>

(* ... and its sidecar removed, whoever it names now. *)
Forget(r) == owner' = [owner EXCEPT ![r] = "none"]

ForgetClaim(p, r) ==
  /\ Working(p, "forget", r)
  /\ Forget(r) /\ Continues(p, "sweep")
  /\ UNCHANGED <<place, raw, answer, past, cooling, cards, lost, stale, raced,
                 journal, Bounds>>

-----------------------------------------------------------------------------
(* Stage 3, then: the reports to triage are read, once for the cycle, and  *)
(* claimed in turn.                                                        *)

ListConfirmed(p) ==
  /\ At(p, "sweep") /\ run[p].todo = <<>>
  /\ \E todo \in SetToSeqs({r \in Report : Unhandled(r)}) : Starts(p, "pick", todo)
  /\ UNCHANGED <<Reports, journal, Bounds>>

(* A report inside its backoff is passed over. *)
Pick(p, r) ==
  /\ Working(p, "pick", r)
  /\ IF journal[r].errors > 0 /\ cooling[r] THEN Continues(p, "pick") ELSE Goes(p, "claim")
  /\ UNCHANGED <<Reports, journal, Bounds>>

(* claimReport: one rename into in-progress/ finds the file.                *)
Claim(p, r) ==
  /\ Working(p, "claim", r) /\ place[r] = "pending"
  /\ place' = [place EXCEPT ![r] = "progress"]
  /\ stale' = [stale EXCEPT ![r] = @ \/ ~Unhandled(r)]
  /\ Gap(p, Undoing, r)
  /\ Goes(p, "stamp")
  /\ UNCHANGED <<raw, answer, owner, past, cooling, cards, lost, journal, Bounds>>

(* Another runner has it, or nobody ever will: is it in in-progress/ ...    *)
ClaimFails(p, r) ==
  /\ \/ Working(p, "claim", r) /\ place[r] # "pending" /\ Goes(p, "lost")
     \/ Working(p, "lost", r) /\ place[r] = "progress" /\ Continues(p, "pick")
     \/ Working(p, "lost", r) /\ place[r] # "progress" /\ Goes(p, "gone")
  /\ UNCHANGED <<Reports, journal, Bounds>>

(* ... or was it claimed just now?  If not it is held.  (isClaimLive; what  *)
(* the journal gets between its reading and this event changes neither.)    *)
Unclaimable(p, r) ==
  /\ Working(p, "gone", r)
  /\ IF Has(r, {"claimed"}) /\ "event" \notin past[r]
     THEN UNCHANGED journal ELSE Log(r, "unclaimable")
  /\ Continues(p, "pick")
  /\ UNCHANGED <<Reports, Bounds>>

Stamped(r, stamp) == past' = [past EXCEPT ![r] = @ \ {stamp}]

StampClaim_Skipped(p, r) ==
  /\ Working(p, "stamp", r) /\ Goes(p, "sign")
  /\ UNCHANGED <<past, raced, faults, place, raw, answer, owner, cooling, cards,
                 lost, stale, journal, crashes, commands>>

(* The rename kept the mtime of the report; a file system that refuses to   *)
(* set another leaves the claim old until its sidecar is there.             *)
StampClaim(p, r) ==
  /\ Working(p, "stamp", r)
  /\ \/ Stamped(r, "file") /\ UNCHANGED <<raced, faults>>
     \/ Fault /\ raced' = [raced EXCEPT ![r] = TRUE] /\ UNCHANGED past
  /\ Goes(p, "sign")
  /\ UNCHANGED <<place, raw, answer, owner, cooling, cards, lost, stale,
                 journal, crashes, commands>>

SignClaim(p, r) ==
  /\ Working(p, "sign", r)
  /\ owner' = [owner EXCEPT ![r] = p]
  /\ Stamped(r, "sidecar")
  /\ Goes(p, "enter")
  /\ UNCHANGED <<place, raw, answer, cooling, cards, lost, stale, raced,
                 journal, Bounds>>

EnterClaim(p, r) ==
  /\ Working(p, "enter", r)
  /\ Log(r, "claimed") /\ Stamped(r, "event")
  /\ Goes(p, "judge")
  /\ UNCHANGED <<place, raw, answer, owner, cooling, cards, lost, stale, raced,
                 Bounds>>

EndCycle(p) ==
  /\ At(p, "pick") /\ run[p].todo = <<>>
  /\ Starts(p, "idle", <<>>)
  /\ UNCHANGED <<Reports, journal, Bounds>>

-----------------------------------------------------------------------------
(* Stage 3: the report a runner has claimed.  A step that fails            *)
(* mechanically goes to "error"; every way out ends in "release".           *)

(* checkPublicLeak: a draft is fit to file only if its check says so; a      *)
(* check that cannot run, or times out, holds it like one that finds a leak. *)
LeakCheck == {"file", "leak"}

(* reviewAndFile: DO_NOT_FILE holds the draft before the leak check. *)
Reviewed == {"hold"} \cup LeakCheck

(* A suggestion is drafted and reviewed; a bug is reproduced first, and may  *)
(* turn out a duplicate, or be held without a draft.                        *)
SuggestionEnds == Reviewed
BugEnds == {"dup", "hold"} \cup Reviewed

(* It may fail mechanically each time: the cap bounds that, not the model.  *)
Judge(p, r) ==
  /\ Working(p, "judge", r)
  /\ \E to \in SuggestionEnds \cup BugEnds \cup {"error"} : Goes(p, to)
  /\ UNCHANGED <<Reports, journal, Bounds>>

(* A verdict is held once its comment is posted ... *)
Hold(p, r) ==
  /\ Working(p, "hold", r)
  /\ \/ Log(r, "held") /\ Goes(p, "release") /\ UNCHANGED faults
     \/ Fault /\ Goes(p, "error") /\ UNCHANGED journal
  /\ UNCHANGED <<Reports, crashes, commands>>

(* ... and the leak check holds a report whether or not its comment is. *)
LeakHold(p, r) ==
  /\ Working(p, "leak", r)
  /\ Log(r, "held") /\ Goes(p, "release")
  /\ UNCHANGED <<Reports, Bounds>>

(* The note that closes the raw issue, and the public occurrence note. *)
Duplicate(p, r) ==
  /\ Working(p, "dup", r)
  /\ \/ Goes(p, "archive") /\ UNCHANGED faults
     \/ Fault /\ Goes(p, "error")
  /\ UNCHANGED <<Reports, journal, crashes, commands>>

FileCard_CommentDecides(p, r) ==
  /\ Working(p, "file", r)
  /\ \/ /\ cards' = [cards EXCEPT ![r] = @ + 1]
        /\ \/ Goes(p, "archive") /\ UNCHANGED <<lost, faults>>
           \/ Fault /\ Goes(p, "error") /\ UNCHANGED lost
           \/ Fault /\ Goes(p, "error") /\ lost' = [lost EXCEPT ![r] = @ + 1]
     \/ Fault /\ Goes(p, "error") /\ UNCHANGED <<cards, lost>>
  /\ UNCHANGED <<place, raw, answer, journal, owner, past, cooling, stale, raced,
                 crashes, commands>>

(* fileCard: once a public issue number is known the report counts as filed *)
(* though the review comment fails; an answer that is lost leaves a card    *)
(* nobody knows of.                                                         *)
FileCard(p, r) ==
  /\ Working(p, "file", r)
  /\ \/ /\ cards' = [cards EXCEPT ![r] = @ + 1]
        /\ \/ Goes(p, "archive") /\ UNCHANGED <<lost, faults>>
           \/ Fault /\ Goes(p, "archive") /\ UNCHANGED lost
           \/ Fault /\ Goes(p, "error") /\ lost' = [lost EXCEPT ![r] = @ + 1]
     \/ Fault /\ Goes(p, "error") /\ UNCHANGED <<cards, lost>>
  /\ UNCHANGED <<place, raw, answer, journal, owner, past, cooling, stale, raced,
                 crashes, commands>>

(* The board move, the private note and the close come first: none of it is *)
(* tried again or read back.  Then the file moves to archive/; one that is  *)
(* gone is only journalled.                                                 *)
ArchiveReport(p, r) ==
  /\ Working(p, "archive", r)
  /\ place' = IF place[r] = "progress"
              THEN [place EXCEPT ![r] = "archive"] ELSE place
  /\ Goes(p, "record")
  /\ UNCHANGED <<raw, answer, journal, owner, past, cooling, cards, lost, stale,
                 raced, Bounds>>

RecordTriaged(p, r) ==
  /\ Working(p, "record", r)
  /\ Log(r, "triaged") /\ Goes(p, "release")
  /\ UNCHANGED <<Reports, Bounds>>

(* A mechanical failure is counted; the failure that reaches the cap is     *)
(* explained under the raw issue and holds the report.                      *)
Reached_OffByOne(n) == n > Cap
Reached(n) == n >= Cap

CountError(p, r) ==
  /\ Working(p, "error", r)
  /\ Log(r, "error")
  /\ cooling' = [cooling EXCEPT ![r] = TRUE]
  /\ Goes(p, IF Reached(journal[r].errors + 1) THEN "cap" ELSE "release")
  /\ UNCHANGED <<place, raw, answer, owner, past, cards, lost, stale, raced, Bounds>>

HoldMechanical(p, r) ==
  /\ Working(p, "cap", r)
  /\ Log(r, "mechanical") /\ Goes(p, "release")
  /\ UNCHANGED <<Reports, Bounds>>

(* The finally: the file goes back to pending/ unless it was archived ...   *)
Release(p, r) ==
  /\ Working(p, "release", r)
  /\ place' = IF place[r] = "progress"
              THEN [place EXCEPT ![r] = "pending"] ELSE place
  /\ Goes(p, "unsign")
  /\ UNCHANGED <<raw, answer, owner, past, cooling, cards, lost, stale, raced,
                 journal, Bounds>>

(* ... and then the sidecar goes, whoever it names now.                     *)
Unsign(p, r) ==
  /\ Working(p, "unsign", r)
  /\ Forget(r) /\ Continues(p, "pick")
  /\ UNCHANGED <<place, raw, answer, past, cooling, cards, lost, stale, raced,
                 journal, Bounds>>

-----------------------------------------------------------------------------
(* `spo triage --retry <issue>`: what disposed of the report last was no    *)
(* filing, and its file is still in pending/ ...                            *)
Retryable(r) ==
  Has(r, Handled) /\ journal[r].last # "triaged" /\ place[r] = "pending"

(* ... so it is confirmed again, which resets what is counted.              *)
RetryHeld(r) ==
  /\ commands < MaxCommands /\ commands' = commands + 1
  /\ Retryable(r)
  /\ Log(r, "confirmed")
  /\ UNCHANGED <<Reports, run, faults, crashes>>

(* A process dies: its sidecars name a dead owner.  The daemon's next start *)
(* is a new process.                                                        *)
Crash(p) ==
  /\ Spare /\ crashes < MaxCrashes /\ crashes' = crashes + 1
  /\ ~At(p, "idle")
  /\ owner' = [r \in Report |-> IF owner[r] = p THEN "dead" ELSE owner[r]]
  /\ lost' = [r \in Report |->
       IF Working(p, "archive", r) /\ cards[r] > 0
       THEN lost[r] + 1 ELSE lost[r]]
  /\ Starts(p, "idle", <<>>)
  /\ UNCHANGED <<place, raw, answer, journal, past, cooling, cards, stale, raced,
                 faults, commands>>

(* Time passes: a claim's grace, a failure's backoff.  A grace that passes  *)
(* between two calls of a claim, or of a sweep that reads it, is a gap.     *)
Age(r) ==
  /\ past[r] # Stamp /\ past' = [past EXCEPT ![r] = Stamp]
  /\ raced' = [raced EXCEPT ![r] =
       @ \/ \E p \in Runner : Within(p, Making \cup {"stat"}, r)]
  /\ UNCHANGED <<place, raw, answer, journal, owner, cooling, cards, lost,
                 stale, run, Bounds>>

Cool(r) ==
  /\ cooling[r] /\ cooling' = [cooling EXCEPT ![r] = FALSE]
  /\ UNCHANGED <<place, raw, answer, journal, owner, past, cards, lost,
                 stale, raced, run, Bounds>>

-----------------------------------------------------------------------------
Intake ==
  \/ StartIntake
  \/ \E r \in Report : Render(r) \/ Create(r) \/ Instruct(r) \/ Pend(r) \/ Announce(r)

ConfirmScan == StartConfirm \/ \E r \in Report : ReadReply(r) \/ Discard(r)

Triage(p) ==
  \/ ListConfirmed(p) \/ EndCycle(p)
  \/ \E r \in Report :
       \/ ReadClaim(p, r) \/ StatClaim(p, r) \/ ReturnClaim(p, r) \/ ForgetClaim(p, r)
       \/ Pick(p, r) \/ Claim(p, r) \/ ClaimFails(p, r) \/ Unclaimable(p, r)
       \/ StampClaim(p, r) \/ SignClaim(p, r) \/ EnterClaim(p, r)
       \/ Judge(p, r) \/ Hold(p, r) \/ LeakHold(p, r) \/ Duplicate(p, r) \/ FileCard(p, r)
       \/ ArchiveReport(p, r) \/ RecordTriaged(p, r)
       \/ CountError(p, r) \/ HoldMechanical(p, r) \/ Release(p, r) \/ Unsign(p, r)

Daemon == Intake \/ ConfirmScan \/ StartTriage \/ Triage("daemon")

Next ==
  \/ Daemon
  \/ StartByHand \/ Triage("hand")
  \/ \E r \in Report : Reply(r) \/ RetryHeld(r) \/ Age(r) \/ Cool(r)
  \/ \E p \in Runner : Crash(p)

Spec == Init /\ [][Next]_vars

(* The daemon goes on, its deadlines end every call it or a hand-run cycle  *)
(* waits for, and time passes.  A maintainer need not answer.               *)
FairSpec ==
  /\ Spec
  /\ WF_vars(Daemon)
  /\ WF_vars(Triage("hand"))
  /\ \A r \in Report : WF_vars(Age(r)) /\ WF_vars(Cool(r))

-----------------------------------------------------------------------------
TypeOK ==
  /\ place \in [Report -> {"queue", "pending", "progress", "archive"}]
  /\ raw \in [Report -> BOOLEAN]
  /\ answer \in [Report -> {"none", "confirm", "discard"}]
  /\ journal \in [Report -> [events : SUBSET Event, verdicts : Nat, errors : Nat,
                             last : Handled \cup {"none"}]]
  /\ owner \in [Report -> Runner \cup {"none", "dead"}]
  /\ past \in [Report -> SUBSET Stamp] /\ cooling \in [Report -> BOOLEAN]
  /\ cards \in [Report -> Nat] /\ lost \in [Report -> Nat]
  /\ stale \in [Report -> BOOLEAN] /\ raced \in [Report -> BOOLEAN]
  /\ \A p \in Runner : /\ run[p].step \in Step
                       /\ run[p].todo \in Seq(Report)
                       /\ run[p].step \in Held => run[p].todo # <<>>
  /\ faults \in 0..MaxTroubles /\ crashes \in 0..MaxCrashes
  /\ commands \in 0..MaxCommands

(* Two runners never work on one report at the same time, whatever dies or  *)
(* is swept, outside the gaps the file system leaves them: a claim made     *)
(* while another runner is about to return, or to unsign, an earlier one; a *)
(* sweep that judges a claim by a dead runner's sidecar before it has its   *)
(* own, or by the mtime before that is set; or a grace that passes in       *)
(* between.  Everywhere else the rename, the stamp and the sidecar, in this *)
(* order, are enough.                                                       *)
OneClaimant == \A r \in Report : ~raced[r] => ~(Holds("daemon", r) /\ Holds("hand", r))

(* A confirmation is answered by one verdict, whatever fails or dies,       *)
(* unless a runner took the report from a list older than that verdict, or  *)
(* claimed it in a gap.                                                     *)
OneVerdict == \A r \in Report : ~stale[r] /\ ~raced[r] => journal[r].verdicts <= 1

(* A public card is filed a second time only when no event could tell that  *)
(* the first one exists (its answer was lost, or its process died before    *)
(* recording it), or by a second runner that claimed the report in a gap.   *)
(* A list older than a verdict files nothing twice: what was filed is in    *)
(* archive/, where no claim finds it.                                       *)
FiledOnce == \A r \in Report : ~raced[r] => cards[r] <= 1 + lost[r]

(* Triage is attempted at most Cap times for one confirmation; only a       *)
(* process that dies as it reaches the cap allows another attempt.          *)
AttemptsAreCapped ==
  \A r \in Report : ~stale[r] /\ ~raced[r] => journal[r].errors <= Cap + crashes

=============================================================================
