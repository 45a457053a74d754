---------------------------- MODULE RecoveryPolicy ----------------------------
(***************************************************************************)
(* The bounded retry policy of background recovery:                        *)
(* src-tauri/src/recovery/policy.rs.  It has no side effects, so each      *)
(* method is an operator from the policy before to the policy after.       *)
(*                                                                         *)
(* The code compares instants with the current one.  Here an instant is    *)
(* kept as its distance from now: `due` and `floor` count down to 0, which *)
(* is "reached", and `since` counts up to Stable, which is "long enough";  *)
(* Age is the passing of one unit of time.                                 *)
(***************************************************************************)
EXTENDS Integers, Sequences

CONSTANTS
  Debounce,   \* DEBOUNCE_MS
  Retry,      \* RETRY_MS
  Stable      \* STABLE_MS

ASSUME TimeAssumption ==
  /\ Debounce \in Nat /\ Stable \in Nat
  /\ Retry \in Seq(Nat) /\ Len(Retry) > 0
  /\ \A i \in 1 .. Len(Retry) : Retry[i] > 0

None == -1
Evidences ==
  {"Healthy", "DeadEngine", "ActiveFailure", "CandidateHealthy", "Unavailable", "Authentication"}
Decisions == {"Wait", "ProbeActive", "ProbeCandidate", "Reconnect", "GiveUp", "Cancel"}

\* The failures are compared with 2 only: the count stops there.
Policies ==
  [enabled : BOOLEAN, attempts : Nat, due : Nat \cup {None}, failures : 0 .. 2,
   network : Nat \cup {None}, since : Nat \cup {None}, exhausted : BOOLEAN,
   floor : Nat \cup {None}, inFlight : BOOLEAN]

DefaultPolicy ==
  [enabled |-> FALSE, attempts |-> 0, due |-> None, failures |-> 0, network |-> None,
   since |-> None, exhausted |-> FALSE, floor |-> None, inFlight |-> FALSE]

\* Option::get_or_insert
OrElse(timer, value) == IF timer = None THEN value ELSE timer

\* abandon_unstarted: what was approved but never launched is not an attempt.
AbandonUnstarted(p) ==
  [p EXCEPT !.attempts = IF p.inFlight /\ @ > 0 THEN @ - 1 ELSE @,
            !.inFlight = FALSE, !.due = None]

\* Bug: the delay of the attempt that ended, not of the next one.
AttemptFinishedEarly(p) ==
  IF p.inFlight THEN [p EXCEPT !.inFlight = FALSE, !.floor = Retry[p.attempts]] ELSE p

\* attempt_finished: the next attempt waits from now on.
AttemptFinished(p) ==
  IF ~p.inFlight THEN p
  ELSE [p EXCEPT !.inFlight = FALSE,
                 !.floor = IF p.attempts < Len(Retry) THEN Retry[p.attempts + 1] ELSE None]

\* Bug: an event counts only when it names another network.
EventOfNewNetwork(p, network) ==
  IF ~p.enabled \/ p.exhausted \/ p.network = network THEN p
  ELSE [p EXCEPT !.failures = 0, !.network = network, !.since = None, !.due = Debounce]

\* event: the network or the engine changed.
Event(p, network) ==
  IF ~p.enabled \/ p.exhausted THEN p
  ELSE LET seen == [p EXCEPT !.failures = IF p.network = network THEN @ ELSE 0,
                             !.network = network, !.since = None]
           floor == OrElse(p.floor, Debounce)
       IN IF p.inFlight THEN seen
          ELSE [seen EXCEPT !.floor = floor,
                            !.due = IF floor > Debounce THEN floor ELSE Debounce]

\* Bug: the attempt that is under way is forgotten too.
CancelAttempt(p) ==
  [p EXCEPT !.due = None, !.failures = 0, !.since = None, !.inFlight = FALSE]

\* Bug: it makes the budget full.
CancelRefills(p) == [p EXCEPT !.due = None, !.failures = 0, !.since = None, !.attempts = 0]

\* cancel
CancelWork(p) == [p EXCEPT !.due = None, !.failures = 0, !.since = None]

\* next: its decision, and the policy once the due time is consumed
NextDecision(p) ==
  IF ~p.enabled THEN "Cancel"
  ELSE IF p.exhausted THEN "GiveUp"
  ELSE IF p.due = None THEN "Cancel"
  ELSE IF p.due > 0 THEN "Wait" ELSE "ProbeActive"

Consumed(p) == IF NextDecision(p) = "ProbeActive" THEN [p EXCEPT !.due = None] ELSE p

Outcome(p, decision) == [policy |-> p, decision |-> decision]

\* observe(Healthy): the budget starts over after confirmed stability only.
ObserveHealthy(p) ==
  LET q == [p EXCEPT !.due = None, !.inFlight = FALSE, !.failures = 0, !.since = OrElse(@, 0)]
  IN IF q.since < Stable THEN q
     ELSE [q EXCEPT !.attempts = 0, !.exhausted = FALSE, !.floor = None]

Exhaust(p) == [CancelWork(p) EXCEPT !.exhausted = TRUE]

\* observe of what permits a restart: the budget, then the floor
ObserveRestartable(p) ==
  LET floor == OrElse(p.floor, Retry[1])
      q == [p EXCEPT !.floor = floor]
  IN IF p.attempts >= Len(Retry) THEN Outcome(Exhaust(p), "GiveUp")
     ELSE IF p.inFlight THEN Outcome(p, "Wait")
     ELSE IF floor > 0 THEN Outcome([q EXCEPT !.due = floor], "Wait")
     ELSE Outcome([q EXCEPT !.due = None, !.attempts = @ + 1, !.inFlight = TRUE], "Reconnect")

\* Bug: a failure leaves the start of the stable interval alone.
ObserveKeepsSince(p, evidence) ==
  LET failures == IF p.failures < 2 THEN p.failures + 1 ELSE 2
  IN IF ~p.enabled THEN Outcome(p, "Cancel")
     ELSE IF evidence = "Healthy" THEN Outcome(ObserveHealthy(p), "Wait")
     ELSE IF p.exhausted THEN Outcome(p, "GiveUp")
     ELSE CASE evidence = "Authentication" -> Outcome(Exhaust(p), "GiveUp")
            [] evidence = "Unavailable" -> Outcome([p EXCEPT !.failures = 0], "Wait")
            [] evidence = "ActiveFailure" ->
                 Outcome([p EXCEPT !.failures = failures],
                         IF failures = 2 THEN "ProbeCandidate" ELSE "ProbeActive")
            [] evidence = "CandidateHealthy" /\ p.failures < 2 -> Outcome(p, "Wait")
            [] OTHER -> ObserveRestartable(p)

\* observe
Observe(p, evidence) ==
  LET q == [p EXCEPT !.since = None]
      failures == IF q.failures < 2 THEN q.failures + 1 ELSE 2
  IN IF ~p.enabled THEN Outcome(p, "Cancel")
     ELSE IF evidence = "Healthy" THEN Outcome(ObserveHealthy(p), "Wait")
     ELSE IF p.exhausted THEN Outcome(q, "GiveUp")
     ELSE CASE evidence = "Authentication" -> Outcome(Exhaust(q), "GiveUp")
            [] evidence = "Unavailable" -> Outcome([q EXCEPT !.failures = 0], "Wait")
            [] evidence = "ActiveFailure" ->
                 Outcome([q EXCEPT !.failures = failures],
                         IF failures = 2 THEN "ProbeCandidate" ELSE "ProbeActive")
            [] evidence = "CandidateHealthy" /\ q.failures < 2 -> Outcome(q, "Wait")
            [] OTHER -> ObserveRestartable(q)

\* One unit of time passes.
Down(timer) == IF timer > 0 THEN timer - 1 ELSE timer
Age(p) ==
  [p EXCEPT !.due = Down(@), !.floor = Down(@),
            !.since = IF @ = None \/ @ >= Stable THEN @ ELSE @ + 1]
=============================================================================
