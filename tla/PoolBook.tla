------------------------------- MODULE PoolBook -------------------------------
(***************************************************************************)
(* What the account pool promises about its cooldowns (accounts.js): each  *)
(* limit a call met is booked, whole, on the cooldowns of that moment; an  *)
(* operator's clear takes one account's away; time runs them down.  The    *)
(* code keeps the book in one file that several processes rewrite;         *)
(* AccountPool implements this module as long as nobody was sloppy.        *)
(***************************************************************************)
EXTENDS Naturals, FiniteSetsExt

CONSTANTS
  Account,
  Model,
  Overloaded, Probe, Escalated,  \* how long each cooldown lasts
  Window                         \* ESCALATION_WINDOW_MS

VARIABLES
  book,   \* account -> model -> its record
  sloppy  \* some update ran without the lock, or after a crash

Never == Window + 1

\* left: until cooldownUntil; since: lastUsageLimitAt; kind, scope: cooldownKind
\* and cooldownScope
Fresh == [left |-> 0, since |-> Never, kind |-> "none", scope |-> "none"]

Record == [left : 0..Escalated, since : 0..Never,
           kind : {"none", "usage", "overloaded"}, scope : {"none", "model", "account"}]

\* What a call can report: limitKindForFailure and limitScopeFor.
Limit == {[kind |-> "usage", scope |-> "account"], [kind |-> "usage", scope |-> "model"],
          [kind |-> "overloaded", scope |-> "model"]}

UsageTime(rec) == IF rec.since <= Window THEN Escalated ELSE Probe

\* A 529 keeps a longer cooldown that is running, with its kind and scope.
Overload_Replaces(rec) ==
  [rec EXCEPT !.left = Overloaded, !.kind = "overloaded", !.scope = "model"]
Overload(rec) ==
  IF rec.left >= Overloaded THEN rec
  ELSE [rec EXCEPT !.left = Overloaded, !.kind = "overloaded", !.scope = "model"]

UsageUntil(rec, end, scope) == [left |-> end, since |-> 0, kind |-> "usage", scope |-> scope]

\* computeLimitUpdate.  The models of an account-wide limit share one end.
Booked_OwnEnds(b, a, m, limit) ==
  IF limit.kind = "overloaded" THEN [b EXCEPT ![a][m] = Overload(@)]
  ELSE IF limit.scope = "model"
    THEN [b EXCEPT ![a][m] = UsageUntil(@, UsageTime(@), "model")]
  ELSE [b EXCEPT ![a] = [t \in Model |-> UsageUntil(@[t], UsageTime(@[t]), "account")]]
Booked(b, a, m, limit) ==
  IF limit.kind = "overloaded" THEN [b EXCEPT ![a][m] = Overload(@)]
  ELSE IF limit.scope = "model"
    THEN [b EXCEPT ![a][m] = UsageUntil(@, UsageTime(@), "model")]
  ELSE [b EXCEPT ![a] = [t \in Model |->
          UsageUntil(@[t], Max({UsageTime(@[u]) : u \in Model}), "account")]]

Cleared(b, a) == [b EXCEPT ![a] = [t \in Model |-> Fresh]]

Aged(rec) ==
  LET left == IF rec.left = 0 THEN 0 ELSE rec.left - 1
  IN [left  |-> left,
      since |-> IF rec.since = Never THEN Never ELSE rec.since + 1,
      kind  |-> IF left = 0 THEN "none" ELSE rec.kind,
      scope |-> IF left = 0 THEN "none" ELSE rec.scope]

Init ==
  /\ book = [a \in Account |-> [m \in Model |-> Fresh]]
  /\ sloppy = FALSE

Mark == \E a \in Account, m \in Model, limit \in Limit : book' = Booked(book, a, m, limit)
Clear == \E a \in Account : book' = Cleared(book, a)
Pass == book' = [a \in Account |-> [m \in Model |-> Aged(book[a][m])]]

Next ==
  /\ sloppy => sloppy'
  /\ UNCHANGED book \/ sloppy' \/ Pass \/ Clear \/ Mark

Spec == Init /\ [][Next]_<<book, sloppy>>
==============================================================================
