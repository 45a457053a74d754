---------------------- MODULE RecoveryCoordinator_proofs ----------------------
(***************************************************************************)
(* Proofs about RecoveryCoordinator for every value of its constants: what *)
(* the methods of the retry policy keep, for every schedule; the types,    *)
(* one attempt at a time, the count of launches and its bound; then the    *)
(* delays between launches, what makes the budget full again, and the      *)
(* evidence a running engine is replaced on.                               *)
(***************************************************************************)
EXTENDS RecoveryCoordinator, TLAPS

-----------------------------------------------------------------------------
(* What the methods of the policy keep.                                    *)

\* A retry delay that is still to come is one of the schedule's.
LEMMA RetryType ==
  ASSUME NEW n \in Nat, n < Len(Retry)
  PROVE  Retry[n + 1] \in Nat /\ Retry[n + 1] > 0
BY TimeAssumption

\* The values a timer and the failure count are set to
LEMMA TimerValues ==
  /\ None \in Nat \cup {None} /\ 0 \in Nat \cup {None} /\ 0 \in 0 .. 2 /\ None \notin Nat
  /\ Debounce \in Nat \cup {None} /\ 0 \in Nat
BY TimeAssumption DEF None

\* The schedule is not empty, so the first delay exists.
LEMMA FirstRetryType == Retry[1] \in Nat /\ Retry[1] > 0
BY TimeAssumption

\* An event changes neither the budget nor the attempt under way.
LEMMA EventKeeps ==
  ASSUME NEW q \in Policies, NEW n \in Nat
  PROVE  /\ Event(q, n) \in Policies
         /\ Event(q, n).attempts = q.attempts /\ Event(q, n).inFlight = q.inFlight
<1>1. CASE ~q.enabled \/ q.exhausted
  BY <1>1 DEF Event
<1>2. CASE q.enabled /\ ~q.exhausted
  <2> DEFINE failures == IF q.network = n THEN q.failures ELSE 0
             noted == [q EXCEPT !.failures = failures, !.network = n, !.since = None]
             floor == OrElse(q.floor, Debounce)
             due == IF floor > Debounce THEN floor ELSE Debounce
  <2>1. failures \in 0 .. 2 /\ floor \in Nat /\ due \in Nat
    BY TimeAssumption DEF OrElse, Policies, None
  <2>2. noted \in Policies /\ noted.attempts = q.attempts /\ noted.inFlight = q.inFlight
    <3> HIDE DEF failures
    <3> QED BY <2>1, TimerValues DEF Policies
  <2>3. Event(q, n) = IF q.inFlight THEN noted ELSE [noted EXCEPT !.floor = floor, !.due = due]
    BY <1>2 DEF Event
  <2> HIDE DEF failures, noted, floor, due
  <2> QED
    BY <2>1, <2>2, <2>3, TimerValues DEF Policies
<1> QED
  BY <1>1, <1>2 DEF Policies

\* cancel clears what is due, never the budget, the floor or the attempt.
LEMMA CancelKeeps ==
  ASSUME NEW q \in Policies
  PROVE  /\ CancelWork(q) \in Policies
         /\ CancelWork(q).attempts = q.attempts /\ CancelWork(q).inFlight = q.inFlight
BY TimerValues DEF CancelWork, Policies

\* Giving up spends nothing and ends no attempt.
LEMMA ExhaustKeeps ==
  ASSUME NEW q \in Policies
  PROVE  /\ Exhaust(q) \in Policies
         /\ Exhaust(q).attempts = q.attempts /\ Exhaust(q).inFlight = q.inFlight
BY CancelKeeps DEF Exhaust, Policies

\* next consumes the due time only.
LEMMA ConsumedKeeps ==
  ASSUME NEW q \in Policies
  PROVE  /\ Consumed(q) \in Policies
         /\ Consumed(q).attempts = q.attempts /\ Consumed(q).inFlight = q.inFlight
BY DEF Consumed, NextDecision, Policies, None

\* Time moves the timers only.
LEMMA AgeKeeps ==
  ASSUME NEW q \in Policies
  PROVE  /\ Age(q) \in Policies
         /\ Age(q).attempts = q.attempts /\ Age(q).inFlight = q.inFlight
<1> DEFINE due == Down(q.due)
           floor == Down(q.floor)
           since == IF q.since = None \/ q.since >= Stable THEN q.since ELSE q.since + 1
<1>1. due \in Nat \cup {None} /\ floor \in Nat \cup {None} /\ since \in Nat \cup {None}
  BY DEF Down, Policies, None
<1>2. Age(q) = [q EXCEPT !.due = due, !.floor = floor, !.since = since]
  BY DEF Age
<1> HIDE DEF due, floor, since
<1> QED
  BY <1>1, <1>2 DEF Policies

\* An attempt that never launched gives its part of the budget back.
LEMMA AbandonKeeps ==
  ASSUME NEW q \in Policies, q.inFlight, q.attempts > 0
  PROVE  /\ AbandonUnstarted(q) \in Policies
         /\ AbandonUnstarted(q).attempts = q.attempts - 1 /\ ~AbandonUnstarted(q).inFlight
<1>1. q.attempts - 1 \in Nat /\ q.attempts > 0
  BY DEF Policies
<1>2. AbandonUnstarted(q) = [q EXCEPT !.attempts = q.attempts - 1, !.inFlight = FALSE, !.due = None]
  BY DEF AbandonUnstarted
<1> QED
  BY <1>1, <1>2, TimerValues DEF Policies

\* The end of an attempt sets the delay of the next one, if one is left.
LEMMA FinishedKeeps ==
  ASSUME NEW q \in Policies, q.inFlight
  PROVE  /\ AttemptFinished(q) \in Policies
         /\ AttemptFinished(q).attempts = q.attempts /\ ~AttemptFinished(q).inFlight
         /\ q.attempts < Len(Retry) => AttemptFinished(q).floor > 0
<1>1. q.attempts \in Nat /\ Len(Retry) \in Nat
  BY TimeAssumption DEF Policies
<1>2. q.attempts < Len(Retry) => Retry[q.attempts + 1] \in Nat /\ Retry[q.attempts + 1] > 0
  BY <1>1, RetryType
<1> QED
  BY <1>1, <1>2 DEF AttemptFinished, Policies, None

\* A health answer ends no attempt but may make the budget full.
LEMMA HealthyKeeps ==
  ASSUME NEW q \in Policies
  PROVE  /\ ObserveHealthy(q) \in Policies /\ ~ObserveHealthy(q).inFlight
         /\ ObserveHealthy(q).attempts \in {0, q.attempts}
<1> DEFINE since == OrElse(q.since, 0)
           r == [q EXCEPT !.due = None, !.inFlight = FALSE, !.failures = 0, !.since = since]
<1>1. since \in Nat \cup {None}
  BY DEF OrElse, Policies, None
<1>2. r \in Policies /\ r.attempts = q.attempts /\ ~r.inFlight
  <2> HIDE DEF since
  <2> QED BY <1>1, TimerValues DEF Policies
<1>3. ObserveHealthy(q) = IF r.since < Stable THEN r
                          ELSE [r EXCEPT !.attempts = 0, !.exhausted = FALSE, !.floor = None]
  BY DEF ObserveHealthy
<1> HIDE DEF r, since
<1> QED
  BY <1>2, <1>3, TimerValues DEF Policies

\* A restart is approved within the budget, never beside another one, and
\* never while a delay runs.
LEMMA RestartableKeeps ==
  ASSUME NEW q \in Policies, q.attempts <= Len(Retry)
  PROVE  LET out == ObserveRestartable(q)
         IN /\ out.policy \in Policies /\ out.decision \in Decisions
            /\ out.policy.attempts <= Len(Retry)
            /\ out.decision = "Reconnect" =>
                 /\ ~q.inFlight /\ out.policy.inFlight
                 /\ out.policy.attempts = q.attempts + 1
            /\ out.decision # "Reconnect" =>
                 /\ out.policy.inFlight = q.inFlight
                 /\ out.policy.attempts = q.attempts
            /\ q.floor > 0 => out.decision # "Reconnect"
<1>1. Len(Retry) \in Nat /\ q.attempts \in Nat
  BY TimeAssumption DEF Policies
<1>2. Exhaust(q) \in Policies /\ Exhaust(q).attempts = q.attempts
      /\ Exhaust(q).inFlight = q.inFlight
  BY ExhaustKeeps
<1> DEFINE floor == OrElse(q.floor, Retry[1])
<1>3. floor \in Nat /\ (q.floor > 0 => floor > 0)
  BY FirstRetryType DEF OrElse, Policies, None
<1>4. CASE q.attempts >= Len(Retry)
  <2>1. ObserveRestartable(q) = Outcome(Exhaust(q), "GiveUp")
    BY <1>4 DEF ObserveRestartable
  <2> QED
    BY <2>1, <1>1, <1>2 DEF Outcome, Decisions
<1>5. CASE q.attempts < Len(Retry) /\ q.inFlight
  <2>1. ObserveRestartable(q) = Outcome(q, "Wait")
    BY <1>1, <1>5 DEF ObserveRestartable
  <2> QED
    BY <2>1, <1>1 DEF Outcome, Decisions
<1> DEFINE asked == [q EXCEPT !.floor = floor]
           waiting == [asked EXCEPT !.due = floor]
           next == [asked EXCEPT !.due = None, !.attempts = q.attempts + 1, !.inFlight = TRUE]
<1>6. asked \in Policies /\ asked.attempts = q.attempts /\ asked.inFlight = q.inFlight
  BY <1>3 DEF Policies
<1>7. CASE q.attempts < Len(Retry) /\ ~q.inFlight /\ floor > 0
  <2>1. ObserveRestartable(q) = Outcome(waiting, "Wait")
    BY <1>1, <1>7 DEF ObserveRestartable
  <2>2. waiting \in Policies /\ waiting.attempts = q.attempts /\ waiting.inFlight = q.inFlight
    <3> HIDE DEF asked
    <3> QED BY <1>3, <1>6 DEF Policies
  <2> HIDE DEF waiting, asked, floor
  <2> QED
    BY <2>1, <2>2, <1>1, <1>7 DEF Outcome, Decisions
<1>8. CASE q.attempts < Len(Retry) /\ ~q.inFlight /\ ~(floor > 0)
  <2>1. ObserveRestartable(q) = Outcome(next, "Reconnect")
    BY <1>1, <1>6, <1>8 DEF ObserveRestartable
  <2>2. next \in Policies /\ next.attempts = q.attempts + 1 /\ next.inFlight
    <3>1. q.attempts + 1 \in Nat /\ TRUE \in BOOLEAN
      BY <1>1
    <3> HIDE DEF asked
    <3> QED BY <3>1, <1>6, TimerValues DEF Policies
  <2> HIDE DEF next, asked, floor
  <2> QED
    BY <2>1, <2>2, <1>1, <1>3, <1>8 DEF Outcome, Decisions
<1> QED
  BY <1>1, <1>3, <1>4, <1>5, <1>7, <1>8

\* What observing e in policy q may lead to: the budget is never exceeded, an
\* attempt is approved only when none is under way and no delay runs, and only
\* health makes the budget full.
MayFollow(q, e, out) ==
  /\ out.policy \in Policies /\ out.decision \in Decisions
  /\ out.policy.attempts <= Len(Retry)
  /\ out.decision = "Reconnect" =>
       /\ ~q.inFlight /\ out.policy.inFlight
       /\ e \in {"DeadEngine", "CandidateHealthy"} /\ ~(q.floor > 0)
       /\ out.policy.attempts = q.attempts + 1
  /\ out.decision # "Reconnect" =>
       /\ out.policy.inFlight = q.inFlight \/ (e = "Healthy" /\ ~out.policy.inFlight)
       /\ out.policy.attempts = q.attempts \/ (e = "Healthy" /\ out.policy.attempts = 0)

\* Whatever the evidence, the budget only changes as MayFollow allows.
LEMMA ObserveKeeps ==
  ASSUME NEW q \in Policies, q.attempts <= Len(Retry), NEW e \in Evidences
  PROVE  MayFollow(q, e, Observe(q, e))
<1> DEFINE r == [q EXCEPT !.since = None]
           failures == IF r.failures < 2 THEN r.failures + 1 ELSE 2
<1>1. Len(Retry) \in Nat /\ q.attempts \in Nat
  BY TimeAssumption DEF Policies
<1>2. r \in Policies /\ r.attempts = q.attempts /\ r.inFlight = q.inFlight /\ r.floor = q.floor
  BY TimerValues DEF Policies
<1>3. failures \in 0 .. 2
  BY <1>2 DEF Policies
<1> HIDE DEF r, failures
<1>4. CASE ~q.enabled
  <2>1. Observe(q, e) = Outcome(q, "Cancel")
    BY <1>4 DEF Observe
  <2> QED
    BY <2>1, <1>1 DEF Outcome, Decisions, MayFollow
<1>5. CASE q.enabled /\ e = "Healthy"
  <2>1. Observe(q, e) = Outcome(ObserveHealthy(q), "Wait")
    BY <1>5 DEF Observe
  <2> QED
    BY <2>1, <1>1, <1>5, HealthyKeeps DEF Outcome, Decisions, MayFollow
<1>6. CASE q.enabled /\ e # "Healthy" /\ q.exhausted
  <2>1. Observe(q, e) = Outcome(r, "GiveUp")
    BY <1>6 DEF Observe, r
  <2> QED
    BY <2>1, <1>1, <1>2 DEF Outcome, Decisions, MayFollow
<1>7. CASE q.enabled /\ ~q.exhausted /\ e = "Authentication"
  <2>1. Observe(q, e) = Outcome(Exhaust(r), "GiveUp")
    BY <1>7 DEF Observe, r
  <2> QED
    BY <2>1, <1>1, <1>2, ExhaustKeeps DEF Outcome, Decisions, MayFollow
<1>8. CASE q.enabled /\ ~q.exhausted /\ e = "Unavailable"
  <2> DEFINE u == [r EXCEPT !.failures = 0]
  <2>1. Observe(q, e) = Outcome(u, "Wait")
    BY <1>8 DEF Observe, r
  <2>2. u \in Policies /\ u.attempts = r.attempts /\ u.inFlight = r.inFlight
    BY <1>2, TimerValues DEF Policies
  <2> HIDE DEF u
  <2> QED
    BY <2>1, <2>2, <1>1, <1>2 DEF Outcome, Decisions, MayFollow
<1>9. CASE q.enabled /\ ~q.exhausted /\ e = "ActiveFailure"
  <2> DEFINE u == [r EXCEPT !.failures = failures]
             decision == IF failures = 2 THEN "ProbeCandidate" ELSE "ProbeActive"
  <2>1. Observe(q, e) = Outcome(u, decision)
    BY <1>9 DEF Observe, r, failures
  <2>2. u \in Policies /\ u.attempts = r.attempts /\ u.inFlight = r.inFlight
    BY <1>2, <1>3 DEF Policies
  <2>3. decision \in {"ProbeCandidate", "ProbeActive"}
    OBVIOUS
  <2> HIDE DEF u, decision
  <2> QED
    BY <2>1, <2>2, <2>3, <1>1, <1>2 DEF Outcome, Decisions, MayFollow
<1>10. CASE q.enabled /\ ~q.exhausted /\ e = "CandidateHealthy" /\ r.failures < 2
  <2>1. Observe(q, e) = Outcome(r, "Wait")
    BY <1>10 DEF Observe, r
  <2> QED
    BY <2>1, <1>1, <1>2 DEF Outcome, Decisions, MayFollow
<1>11. CASE /\ q.enabled /\ ~q.exhausted
            /\ e = "DeadEngine" \/ (e = "CandidateHealthy" /\ ~(r.failures < 2))
  <2> DEFINE out == ObserveRestartable(r)
  <2>1. Observe(q, e) = out
    BY <1>11 DEF Observe, r
  <2>2. e \in {"DeadEngine", "CandidateHealthy"}
    BY <1>11
  <2>3. /\ out.policy \in Policies /\ out.decision \in Decisions
        /\ out.policy.attempts <= Len(Retry)
        /\ out.decision = "Reconnect" =>
             ~r.inFlight /\ out.policy.inFlight /\ out.policy.attempts = r.attempts + 1
        /\ out.decision # "Reconnect" =>
             out.policy.inFlight = r.inFlight /\ out.policy.attempts = r.attempts
        /\ r.floor > 0 => out.decision # "Reconnect"
    BY <1>1, <1>2, RestartableKeeps
  <2> HIDE DEF out
  <2>4. MayFollow(q, e, out)
    BY <2>2, <2>3, <1>2 DEF MayFollow
  <2> QED
    BY <2>1, <2>4
<1> QED
  BY <1>4, <1>5, <1>6, <1>7, <1>8, <1>9, <1>10, <1>11 DEF Evidences

-----------------------------------------------------------------------------
(* What the methods of the policy do to its timers.                        *)

\* An event stops the time that counts as stable, and sets a due time of at
\* least the debounce unless an attempt is under way; a floor is never lowered.
LEMMA EventTimers ==
  ASSUME NEW q \in Policies, NEW n \in Nat, q.enabled, ~q.exhausted
  PROVE  /\ Event(q, n).enabled = q.enabled /\ Event(q, n).exhausted = q.exhausted
         /\ Event(q, n).since = None
         /\ q.floor # None => Event(q, n).floor = q.floor
         /\ q.inFlight => Event(q, n).due = q.due
         /\ ~q.inFlight => Event(q, n).due \in Nat /\ Event(q, n).due >= Debounce
<1> DEFINE failures == IF q.network = n THEN q.failures ELSE 0
           noted == [q EXCEPT !.failures = failures, !.network = n, !.since = None]
           floor == OrElse(q.floor, Debounce)
           due == IF floor > Debounce THEN floor ELSE Debounce
<1>1. /\ floor \in Nat /\ (q.floor # None => floor = q.floor) /\ due \in Nat /\ due >= Debounce
  BY TimeAssumption DEF OrElse, Policies, None
<1>2. /\ noted.enabled = q.enabled /\ noted.exhausted = q.exhausted /\ noted.since = None
      /\ noted.floor = q.floor /\ noted.due = q.due
      /\ [noted EXCEPT !.floor = floor, !.due = due].enabled = q.enabled
      /\ [noted EXCEPT !.floor = floor, !.due = due].exhausted = q.exhausted
      /\ [noted EXCEPT !.floor = floor, !.due = due].since = None
      /\ [noted EXCEPT !.floor = floor, !.due = due].floor = floor
      /\ [noted EXCEPT !.floor = floor, !.due = due].due = due
  <2> HIDE DEF failures, floor, due
  <2> QED BY DEF Policies
<1>3. Event(q, n) = IF q.inFlight THEN noted ELSE [noted EXCEPT !.floor = floor, !.due = due]
  BY DEF Event
<1> HIDE DEF noted, floor, due
<1> QED
  BY <1>1, <1>2, <1>3

\* cancel stops what is due and the time that counts as stable.
LEMMA CancelTimers ==
  ASSUME NEW q \in Policies
  PROVE  /\ CancelWork(q).enabled = q.enabled /\ CancelWork(q).exhausted = q.exhausted
         /\ CancelWork(q).due = None /\ CancelWork(q).since = None
         /\ CancelWork(q).floor = q.floor
BY DEF CancelWork, Policies

\* Giving up does the same.
LEMMA ExhaustTimers ==
  ASSUME NEW q \in Policies
  PROVE  /\ Exhaust(q).enabled = q.enabled /\ Exhaust(q).due = None
         /\ Exhaust(q).since = None /\ Exhaust(q).floor = q.floor
BY CancelKeeps, CancelTimers DEF Exhaust, Policies

\* A due time is consumed once it is reached.
LEMMA ConsumedTimers ==
  ASSUME NEW q \in Policies
  PROVE  /\ Consumed(q).enabled = q.enabled /\ Consumed(q).exhausted = q.exhausted
         /\ Consumed(q).since = q.since /\ Consumed(q).floor = q.floor
         /\ Consumed(q).due \in {q.due, None}
         /\ NextDecision(q) = "ProbeActive" => q.due = 0
BY DEF Consumed, NextDecision, Policies, None

\* Time brings a due time and a floor one unit closer, and counts stability.
LEMMA AgeTimers ==
  ASSUME NEW q \in Policies
  PROVE  /\ Age(q).enabled = q.enabled /\ Age(q).exhausted = q.exhausted
         /\ Age(q).due = Down(q.due) /\ Age(q).floor = Down(q.floor)
         /\ q.since = None => Age(q).since = None
         /\ q.since # None =>
              Age(q).since = (IF q.since >= Stable THEN q.since ELSE q.since + 1)
BY DEF Age, Policies

\* What was approved but not launched leaves the floor as it was.
LEMMA AbandonTimers ==
  ASSUME NEW q \in Policies
  PROVE  /\ AbandonUnstarted(q).enabled = q.enabled /\ AbandonUnstarted(q).due = None
         /\ AbandonUnstarted(q).since = q.since /\ AbandonUnstarted(q).floor = q.floor
BY DEF AbandonUnstarted, Policies

\* After an attempt the next delay of the schedule is the floor.
LEMMA FinishedTimers ==
  ASSUME NEW q \in Policies, q.inFlight
  PROVE  /\ AttemptFinished(q).enabled = q.enabled /\ AttemptFinished(q).due = q.due
         /\ AttemptFinished(q).since = q.since
         /\ q.attempts < Len(Retry) => AttemptFinished(q).floor = Retry[q.attempts + 1]
BY DEF AttemptFinished, Policies

\* What evidence e may do to the timers of policy q: only what permits a
\* restart sets a due time, a floor that is set stays until health has lasted
\* for Stable units and the budget is full, and health alone is counted.
TimersFollow(q, e, out) ==
  /\ out.policy.enabled = q.enabled
  /\ out.decision = "Reconnect" =>
       /\ ~out.policy.exhausted /\ out.policy.floor = 0 /\ q.floor = 0
       /\ out.policy.due = None
  /\ e \notin {"DeadEngine", "CandidateHealthy"} => out.policy.due \in {q.due, None}
  /\ q.floor # None =>
       out.policy.floor = q.floor \/ (e = "Healthy" /\ out.policy.attempts = 0)
  /\ \/ out.policy.since \in {q.since, None}
     \/ e = "Healthy" /\ out.policy.since = 0
  /\ e # "Healthy" /\ q.enabled => out.policy.since = None
  /\ e = "Healthy" /\ q.attempts # 0 /\ out.policy.attempts = 0 =>
       OrElse(q.since, 0) >= Stable
  /\ e = "Healthy" /\ q.enabled => out.policy.due = None

\* What permits a restart: only an approval needs a floor that is reached.
LEMMA RestartableTimers ==
  ASSUME NEW q \in Policies, q.since = None, ~q.exhausted
  PROVE  LET out == ObserveRestartable(q)
         IN /\ out.policy.enabled = q.enabled /\ out.policy.since = None
            /\ q.floor # None => out.policy.floor = q.floor
            /\ out.decision = "Reconnect" =>
                 /\ ~out.policy.exhausted /\ out.policy.floor = 0 /\ q.floor = 0
                 /\ out.policy.due = None
<1> DEFINE floor == OrElse(q.floor, Retry[1])
           asked == [q EXCEPT !.floor = floor]
           waiting == [asked EXCEPT !.due = floor]
           next == [asked EXCEPT !.due = None, !.attempts = q.attempts + 1, !.inFlight = TRUE]
<1>1. floor \in Nat /\ (q.floor # None => floor = q.floor) /\ (floor = 0 => q.floor = 0)
  BY FirstRetryType DEF OrElse, Policies, None
<1>2. /\ asked.enabled = q.enabled /\ asked.since = None /\ asked.floor = floor
      /\ ~asked.exhausted /\ asked.attempts = q.attempts
      /\ asked \in Policies
  BY <1>1 DEF Policies
<1>3. /\ waiting.enabled = q.enabled /\ waiting.since = None /\ waiting.floor = floor
  <2> HIDE DEF asked, floor
  <2> QED BY <1>2 DEF Policies
<1>4. /\ next.enabled = q.enabled /\ next.since = None /\ next.floor = floor
      /\ ~next.exhausted /\ next.due = None
  <2> HIDE DEF asked, floor
  <2> QED BY <1>2 DEF Policies
<1>5. \/ ObserveRestartable(q) = Outcome(Exhaust(q), "GiveUp")
      \/ ObserveRestartable(q) = Outcome(q, "Wait")
      \/ ObserveRestartable(q) = Outcome(waiting, "Wait")
      \/ ~(floor > 0) /\ ObserveRestartable(q) = Outcome(next, "Reconnect")
  BY <1>2 DEF ObserveRestartable
<1>6. floor \in Nat /\ ~(floor > 0) => floor = 0
  BY <1>1
<1> HIDE DEF floor, asked, waiting, next
<1> QED
  BY <1>1, <1>3, <1>4, <1>5, <1>6, ExhaustTimers DEF Outcome

\* Health is counted from its first answer, and refills after Stable units.
LEMMA HealthyTimers ==
  ASSUME NEW q \in Policies
  PROVE  LET out == ObserveHealthy(q)
         IN /\ out.enabled = q.enabled /\ out.due = None
            /\ out.since \in {q.since, 0}
            /\ out.floor = q.floor \/ out.attempts = 0
            /\ q.attempts # 0 /\ out.attempts = 0 => OrElse(q.since, 0) >= Stable
<1> DEFINE since == OrElse(q.since, 0)
           r == [q EXCEPT !.due = None, !.inFlight = FALSE, !.failures = 0, !.since = since]
<1>1. since \in Nat /\ since \in {q.since, 0}
  BY DEF OrElse, Policies, None
<1>2. /\ r.enabled = q.enabled /\ r.due = None /\ r.since = since /\ r.floor = q.floor
      /\ r.attempts = q.attempts /\ r \in Policies
  <2> HIDE DEF since
  <2> QED BY <1>1, TimerValues DEF Policies
<1>3. ObserveHealthy(q) = IF r.since < Stable THEN r
                          ELSE [r EXCEPT !.attempts = 0, !.exhausted = FALSE, !.floor = None]
  BY DEF ObserveHealthy
<1>4. LET f == [r EXCEPT !.attempts = 0, !.exhausted = FALSE, !.floor = None]
      IN f.enabled = q.enabled /\ f.due = None /\ f.since = since /\ f.attempts = 0
  <2> HIDE DEF r, since
  <2> QED BY <1>2 DEF Policies
<1>5. ~(since < Stable) => since >= Stable
  BY <1>1, TimeAssumption
<1> HIDE DEF r
<1>6. OrElse(q.since, 0) = since
  OBVIOUS
<1> HIDE DEF since
<1> QED
  BY <1>1, <1>2, <1>3, <1>4, <1>5, <1>6

\* Whatever the evidence, the timers change as TimersFollow allows.
LEMMA ObserveTimers ==
  ASSUME NEW q \in Policies, NEW e \in Evidences
  PROVE  TimersFollow(q, e, Observe(q, e))
<1> DEFINE out == Observe(q, e)
           r == [q EXCEPT !.since = None]
           failures == IF r.failures < 2 THEN r.failures + 1 ELSE 2
<1>1. /\ r \in Policies /\ r.enabled = q.enabled /\ r.exhausted = q.exhausted
      /\ r.since = None /\ r.floor = q.floor /\ r.due = q.due
  BY TimerValues DEF Policies
<1>2. failures \in 0 .. 2
  BY <1>1 DEF Policies
<1> HIDE DEF r, failures
<1>3. CASE ~q.enabled
  <2>1. out.policy = q /\ out.decision = "Cancel"
    BY <1>3 DEF Outcome, Observe
  <2> QED
    BY <2>1, <1>3 DEF TimersFollow, Policies
<1>4. CASE q.enabled /\ e = "Healthy"
  <2>1. out.policy = ObserveHealthy(q) /\ out.decision = "Wait"
    BY <1>4 DEF Outcome, Observe
  <2> QED
    BY <2>1, <1>4, HealthyTimers DEF TimersFollow
<1>5. CASE q.enabled /\ e # "Healthy" /\ q.exhausted
  <2>1. out.policy = r /\ out.decision = "GiveUp"
    BY <1>5 DEF Outcome, Observe, r
  <2> QED
    BY <2>1, <1>1, <1>5 DEF TimersFollow
<1>6. CASE q.enabled /\ ~q.exhausted /\ e = "Authentication"
  <2>1. out.policy = Exhaust(r) /\ out.decision = "GiveUp"
    BY <1>6 DEF Outcome, Observe, r
  <2> QED
    BY <2>1, <1>1, <1>6, ExhaustTimers DEF TimersFollow
<1>7. CASE q.enabled /\ ~q.exhausted /\ e = "Unavailable"
  <2> DEFINE u == [r EXCEPT !.failures = 0]
  <2>1. out.policy = u /\ out.decision = "Wait"
    BY <1>7 DEF Outcome, Observe, r
  <2>2. u.enabled = r.enabled /\ u.due = r.due /\ u.since = r.since /\ u.floor = r.floor
    BY <1>1 DEF Policies
  <2> HIDE DEF u
  <2> QED
    BY <2>1, <2>2, <1>1, <1>7 DEF TimersFollow
<1>8. CASE q.enabled /\ ~q.exhausted /\ e = "ActiveFailure"
  <2> DEFINE u == [r EXCEPT !.failures = failures]
             decision == IF failures = 2 THEN "ProbeCandidate" ELSE "ProbeActive"
  <2>1. out.policy = u /\ out.decision = decision
    BY <1>8 DEF Outcome, Observe, r, failures
  <2>2. u.enabled = r.enabled /\ u.due = r.due /\ u.since = r.since /\ u.floor = r.floor
    BY <1>1 DEF Policies
  <2>3. decision # "Reconnect"
    OBVIOUS
  <2> HIDE DEF u, decision
  <2> QED
    BY <2>1, <2>2, <2>3, <1>1, <1>8 DEF TimersFollow
<1>9. CASE q.enabled /\ ~q.exhausted /\ e = "CandidateHealthy" /\ r.failures < 2
  <2>1. out.policy = r /\ out.decision = "Wait"
    BY <1>9 DEF Outcome, Observe, r
  <2> QED
    BY <2>1, <1>1, <1>9 DEF TimersFollow
<1>10. CASE /\ q.enabled /\ ~q.exhausted
            /\ e = "DeadEngine" \/ (e = "CandidateHealthy" /\ ~(r.failures < 2))
  <2> DEFINE answer == ObserveRestartable(r)
  <2>1. out = answer
    BY <1>10 DEF Observe, r
  <2>2. /\ answer.policy.enabled = r.enabled /\ answer.policy.since = None
        /\ r.floor # None => answer.policy.floor = r.floor
        /\ answer.decision = "Reconnect" =>
             /\ ~answer.policy.exhausted /\ answer.policy.floor = 0 /\ r.floor = 0
             /\ answer.policy.due = None
    BY <1>1, <1>10, RestartableTimers
  <2>3. e # "Healthy" /\ e \in {"DeadEngine", "CandidateHealthy"}
    BY <1>10
  <2> HIDE DEF answer
  <2>4. TimersFollow(q, e, answer)
    BY <2>2, <2>3, <1>1 DEF TimersFollow
  <2> QED
    BY <2>1, <2>4
<1> QED
  BY <1>3, <1>4, <1>5, <1>6, <1>7, <1>8, <1>9, <1>10 DEF Evidences

-----------------------------------------------------------------------------
(* The inductive invariant.                                                *)

Holding == {"decide", "evidence", "discover", "engine", "probe", "candidate", "restart", "launch"}

\* A token in use names an accepted run and an intent not newer than the
\* current one: once the intent has moved on, the token stays void.
TokenInUse == pc \in Holding => tok.run # 0 /\ tok.epoch <= epoch

\* Up to the launch the attempt is approved but not started, unless a manual
\* connection erased it and voided the token; after it, the attempt is ours
\* and started.
AttemptStage ==
  /\ pc = "restart" => ~attempt.started /\ (tok.epoch = epoch => attempt = Owned(tok, FALSE))
  /\ pc = "launch" => attempt = Owned(tok, TRUE)

WithinBudget == p.attempts <= Len(Retry)

IInv ==
  TypeOK /\ TokenInUse /\ AttemptStage /\ OneAttempt /\ AttemptsCounted /\ WithinBudget

-----------------------------------------------------------------------------
(* The steps that touch the attempt or the budget, each in a lemma.        *)

Probing == {"evidence", "discover", "engine", "probe", "candidate"}
Attempts == [epoch : Nat, network : Nat, run : Nat, wake : Nat, started : BOOLEAN]

\* The part of the invariant a step of the loop can disturb
Core ==
  /\ p \in Policies /\ phase \in Phases /\ issue \in Issues /\ attempt \in Attempts
  /\ pc \in Labels /\ started \in Nat
  /\ TokenInUse /\ AttemptStage /\ OneAttempt /\ AttemptsCounted /\ WithinBudget

\* An attempt of a token in use is not NoAttempt, and has the type of one.
LEMMA OwnedType ==
  ASSUME NEW t \in Tokens, t.run # 0, NEW b \in BOOLEAN
  PROVE  /\ Owned(t, b) \in Attempts /\ Owned(t, b) # NoAttempt /\ Owned(t, b).started = b
         /\ Owned(t, b).epoch = t.epoch
BY DEF Owned, NoAttempt, Tokens, Attempts

\* The end of evidence(): at most one more attempt, within the budget.
LEMMA ConcludeCore ==
  ASSUME IInv, pc \in Probing, UNCHANGED <<tok, epoch>>,
         NEW q \in Policies, q.attempts = p.attempts, q.inFlight = p.inFlight,
         NEW e \in Evidences, NEW why \in Issues \cup {Kept}, Conclude(q, e, why)
  PROVE  Core'
<1> DEFINE answer == Observe(q, e)
           shown == IF why = Kept \/ ~CurrentIntent THEN issue ELSE why
           phaseShown == IF why = Kept \/ ~CurrentIntent THEN phase ELSE "unavailable"
<1>1. /\ attempt = NoAttempt /\ ~p.inFlight /\ p.attempts = started
      /\ started \in Nat /\ tok.run # 0 /\ tok.epoch <= epoch /\ tok \in Tokens
      /\ q.attempts <= Len(Retry) /\ ~q.inFlight
  BY DEF IInv, TypeOK, OneAttempt, AttemptsCounted, WithinBudget, TokenInUse, Probing, Holding
<1>2. shown \in Issues /\ phaseShown \in Phases
  BY DEF IInv, TypeOK, Phases
<1>3. MayFollow(q, e, answer)
  BY <1>1, ObserveKeeps
<1>4. NoAttempt \in Attempts /\ ~NoAttempt.started
  BY DEF NoAttempt, Attempts
<1>5. pc' \in {"sleep", "restart"}
  BY DEF Conclude
<1>6. TokenInUse'
  BY <1>1, <1>5 DEF TokenInUse
<1>7. CASE ~Current
  <2>1. /\ p' = q /\ phase' = phaseShown /\ issue' = shown /\ pc' = "sleep"
        /\ attempt' = attempt /\ started' = started
    BY <1>7 DEF Conclude
  <2> HIDE DEF shown, phaseShown
  <2> QED
    BY <2>1, <1>1, <1>2, <1>4, <1>6
    DEF Core, Labels, AttemptStage, OneAttempt, AttemptsCounted, WithinBudget
<1>8. CASE Current /\ answer.decision = "Reconnect"
  <2>1. /\ p' = answer.policy /\ pc' = "restart" /\ attempt' = Owned(tok, FALSE)
        /\ phase' = "recovering" /\ issue' = "none"
    <3>1. e # "Healthy" /\ answer.decision # "GiveUp"
      BY <1>3, <1>8 DEF MayFollow
    <3> HIDE DEF shown, phaseShown
    <3> QED
      BY <3>1, <1>8 DEF Conclude
  <2>2. started' = started
    BY <1>3, <1>8 DEF Conclude, MayFollow
  <2>3. /\ p' \in Policies /\ p'.attempts <= Len(Retry) /\ p'.inFlight
        /\ p'.attempts = started + 1
    BY <2>1, <1>1, <1>3, <1>8 DEF MayFollow
  <2>4. /\ attempt' \in Attempts /\ attempt' # NoAttempt /\ ~attempt'.started
        /\ AttemptOf(tok)' /\ attempt' = Owned(tok', FALSE)
    BY <2>1, <1>1, OwnedType DEF AttemptOf, Owned
  <2>5. AttemptStage' /\ OneAttempt' /\ AttemptsCounted' /\ WithinBudget'
    BY <2>1, <2>2, <2>3, <2>4, <1>1
    DEF AttemptStage, OneAttempt, AttemptsCounted, WithinBudget
  <2> QED
    BY <2>1, <2>2, <2>3, <2>4, <2>5, <1>1, <1>6 DEF Core, Labels, Phases, Issues
<1>9. CASE Current /\ answer.decision # "Reconnect"
  <2>1. /\ p' = answer.policy /\ pc' = "sleep" /\ attempt' = attempt
        /\ started' = IF e = "Healthy" /\ p'.attempts = 0 THEN 0 ELSE started
    BY <1>9 DEF Conclude
  <2>2. /\ p' \in Policies /\ p'.attempts <= Len(Retry) /\ ~p'.inFlight
        /\ p'.attempts = started \/ (e = "Healthy" /\ p'.attempts = 0)
    BY <2>1, <1>1, <1>3, <1>9 DEF MayFollow
  <2>3. phase' \in Phases /\ issue' \in Issues
    <3>1. ExhaustedIssue(shown, e) \in Issues
      BY <1>2 DEF ExhaustedIssue, Issues
    <3> HIDE DEF shown, phaseShown
    <3>2. \/ phase' = "exhausted" /\ issue' = ExhaustedIssue(shown, e)
          \/ phase' = "idle" /\ issue' = "none"
          \/ phase' = phaseShown /\ issue' = shown
      BY <1>9 DEF Conclude, shown, phaseShown
    <3> QED
      BY <3>1, <3>2, <1>2 DEF Phases, Issues
  <2>4. AttemptsCounted' /\ started' \in Nat
    BY <2>1, <2>2, <1>1 DEF AttemptsCounted
  <2>5. AttemptStage' /\ OneAttempt' /\ WithinBudget'
    BY <2>1, <2>2, <1>1, <1>4 DEF AttemptStage, OneAttempt, WithinBudget
  <2> QED
    BY <2>1, <2>2, <2>3, <2>4, <2>5, <1>1, <1>4, <1>6 DEF Core, Labels
<1> QED
  BY <1>7, <1>8, <1>9

\* attempt_finished: a launch is counted, what never launched is not, and
\* after a launch the next delay runs.
LEMMA AfterAttemptPolicy ==
  ASSUME IInv, pc \in {"restart", "launch"}
  PROVE  LET q == PolicyAfterAttempt
         IN /\ q \in Policies /\ ~q.inFlight /\ q.attempts = started
            /\ q.attempts <= Len(Retry)
            /\ pc = "launch" /\ q.attempts < Len(Retry) => q.floor > 0
<1>1. /\ p \in Policies /\ attempt \in Attempts /\ started \in Nat /\ tok \in Tokens
      /\ p.inFlight <=> attempt # NoAttempt
      /\ attempt # NoAttempt => AttemptOf(tok)
      /\ p.attempts = started + (IF attempt # NoAttempt /\ ~attempt.started THEN 1 ELSE 0)
      /\ p.attempts <= Len(Retry) /\ tok.run # 0
  BY DEF IInv, TypeOK, OneAttempt, AttemptsCounted, WithinBudget, TokenInUse, Holding, Attempts
<1>2. ~NoAttempt.started /\ Len(Retry) \in Nat
  BY TimeAssumption DEF NoAttempt
<1>3. AttemptOf(tok) => attempt # NoAttempt
  BY <1>1, OwnedType DEF AttemptOf
<1>4. CASE pc = "launch"
  <2>1. attempt = Owned(tok, TRUE) /\ attempt.started /\ AttemptOf(tok)
    BY <1>1, <1>4, OwnedType DEF IInv, AttemptStage, AttemptOf
  <2>2. PolicyAfterAttempt = AttemptFinished(p)
    BY <2>1 DEF PolicyAfterAttempt
  <2>3. p.inFlight /\ p.attempts = started
    <3>1. attempt # NoAttempt
      BY <1>3, <2>1
    <3>2. p.attempts = started + 0
      BY <1>1, <2>1
    <3>3. started + 0 = started
      BY <1>1
    <3> QED
      BY <1>1, <3>1, <3>2, <3>3
  <2> QED
    BY <2>2, <2>3, <1>1, FinishedKeeps
<1>5. CASE pc = "restart" /\ attempt = NoAttempt
  <2>1. PolicyAfterAttempt = p
    BY <1>3, <1>5 DEF PolicyAfterAttempt
  <2> QED
    BY <2>1, <1>1, <1>2, <1>5
<1>6. CASE pc = "restart" /\ attempt # NoAttempt
  <2>1. ~attempt.started /\ AttemptOf(tok)
    BY <1>1, <1>6 DEF IInv, AttemptStage
  <2>2. PolicyAfterAttempt = AbandonUnstarted(p)
    BY <2>1 DEF PolicyAfterAttempt
  <2>3. p.inFlight /\ p.attempts = started + 1
    BY <1>1, <1>6, <2>1
  <2>4. p.attempts > 0 /\ p.attempts - 1 = started
    BY <2>3, <1>1
  <2>5. /\ AbandonUnstarted(p) \in Policies /\ AbandonUnstarted(p).attempts = started
        /\ ~AbandonUnstarted(p).inFlight
    BY <2>3, <2>4, <1>1, AbandonKeeps
  <2>6. started <= Len(Retry)
    BY <2>3, <1>1, <1>2
  <2> QED
    BY <2>2, <2>5, <2>6, <1>6
<1> QED
  BY <1>4, <1>5, <1>6

\* Whatever a launch came to, no attempt is left and its count stays.
LEMMA FinishCore ==
  ASSUME IInv, pc \in {"restart", "launch"}, UNCHANGED <<tok, epoch, started>>,
         NEW result \in {"permission", "cancelled", "failed"}, result = "failed" => pc = "launch",
         NEW current \in BOOLEAN, NEW mine \in BOOLEAN, Finish(result, current, mine)
  PROVE  Core' /\ rest' \in Nat
<1> DEFINE q == PolicyAfterAttempt
<1>1. /\ q \in Policies /\ ~q.inFlight /\ q.attempts = started /\ q.attempts <= Len(Retry)
      /\ pc = "launch" /\ q.attempts < Len(Retry) => q.floor > 0
  BY AfterAttemptPolicy
<1>2. /\ attempt \in Attempts /\ phase \in Phases /\ issue \in Issues /\ rest \in Nat
      /\ started \in Nat /\ tok.run # 0 /\ tok.epoch <= epoch
      /\ attempt # NoAttempt => AttemptOf(tok)
  BY DEF IInv, TypeOK, OneAttempt, TokenInUse, Holding, Attempts
<1>3. pc' = "sleep" /\ attempt' = NoAttempt /\ NoAttempt \in Attempts /\ ~NoAttempt.started
  BY <1>2 DEF Finish, NoAttempt, Attempts
<1>4. rest' \in Nat
  BY <1>2 DEF Finish
<1>5. /\ p' \in Policies /\ ~p'.inFlight /\ p'.attempts = started /\ p'.attempts <= Len(Retry)
  <2> HIDE DEF q
  <2>1. /\ MayFollow(q, "Authentication", Observe(q, "Authentication"))
        /\ MayFollow(q, "Unavailable", Observe(q, "Unavailable"))
        /\ MayFollow(q, "DeadEngine", Observe(q, "DeadEngine"))
    BY <1>1, ObserveKeeps DEF Evidences
  <2>2. CASE p' = q
    BY <2>2, <1>1
  <2>3. CASE p' = Observe(q, "Authentication").policy
    BY <2>1, <2>3, <1>1 DEF MayFollow
  <2>4. CASE p' = Observe(q, "Unavailable").policy
    BY <2>1, <2>4, <1>1 DEF MayFollow
  <2>5. CASE p' = Observe(q, "DeadEngine").policy /\ pc = "launch"
    <3>1. Observe(q, "DeadEngine").decision # "Reconnect"
      <4>1. CASE q.attempts < Len(Retry)
        BY <4>1, <2>1, <2>5, <1>1 DEF MayFollow
      <4>2. CASE ~(q.attempts < Len(Retry))
        <5>1. Len(Retry) \in Nat /\ q.attempts \in Nat
          BY TimeAssumption, <1>1, <1>2
        <5> QED
          BY <4>2, <5>1, <2>1, <1>1 DEF MayFollow
      <4> QED
        BY <4>1, <4>2
    <3> QED
      BY <3>1, <2>1, <2>5, <1>1 DEF MayFollow
  <2>6. \/ p' = q \/ p' = Observe(q, "Authentication").policy
        \/ p' = Observe(q, "Unavailable").policy
        \/ p' = Observe(q, "DeadEngine").policy /\ pc = "launch"
    BY DEF Finish, q
  <2> QED
    BY <2>2, <2>3, <2>4, <2>5, <2>6
<1>6. phase' \in Phases /\ issue' \in Issues
  <2>1. \/ phase' = "exhausted" /\ issue' \in {"permission_required", "retry_exhausted"}
        \/ phase' = "unavailable" /\ issue' = "network_unavailable"
        \/ phase' = phase /\ issue' = issue
    BY DEF Finish, reportVars
  <2> QED
    BY <2>1, <1>2 DEF Phases, Issues
<1>7. AttemptsCounted' /\ OneAttempt' /\ AttemptStage' /\ WithinBudget' /\ TokenInUse'
  BY <1>2, <1>3, <1>5
  DEF AttemptsCounted, OneAttempt, AttemptStage, WithinBudget, TokenInUse, Holding
<1> QED
  BY <1>2, <1>3, <1>4, <1>5, <1>6, <1>7 DEF Core, Labels

-----------------------------------------------------------------------------
(* The other steps.                                                        *)

\* The types a step of the loop's evidence or launch leaves alone
OtherTypes ==
  /\ epoch \in Nat /\ network \in Nat /\ wake \in Nat /\ accepted \in Nat
  /\ enabled \in BOOLEAN /\ manual \in BOOLEAN
  /\ deadProven \in Nat /\ proofGen \in Nat
  /\ tok \in Tokens /\ passGen \in Nat /\ passWake \in Nat
  /\ loopGen \in Nat /\ loopWake \in Nat
  /\ seen \in [path : Paths \cup {NoPath, "unseen"}, wake : Nat]
  /\ health \in Nat /\ lastDead \in Nat /\ evGen \in Nat /\ probes \in {0, 1}
  /\ engine \in [run : Nat, state : {"alive", "exited", "gone", "none"}] /\ runs \in Nat
  /\ gen \in Nat /\ wakeGen \in Nat /\ path \in Paths \cup {NoPath}
  /\ changes \in Nat /\ ops \in Nat /\ rest \in Nat /\ quiet \in Nat

Proofs == [run : Nat, gen : Nat, failed : Nat, candidate : BOOLEAN]
HistoryTypes == calm \in Nat /\ proof \in Proofs

\* The inductive invariant is its core and the types of the rest.
LEMMA Split == IInv <=> Core /\ OtherTypes /\ HistoryTypes
BY DEF IInv, Core, OtherTypes, HistoryTypes, TypeOK, Attempts, Proofs

\* What a step may do to the history of the evidence
LEMMA HistoryMoves ==
  ASSUME Next
  PROVE  /\ calm' \in {0, calm, Longer(calm, Horizon)}
         /\ proof' \in {proof, NoProof, ProbeFailed, CandidatePassed}
<1>a. ASSUME NEW q, NEW e, NEW why, Conclude(q, e, why)
      PROVE  calm' \in {0, calm}
  BY <1>a DEF Conclude
<1>b. ASSUME NEW result, NEW current, NEW mine, Finish(result, current, mine)
      PROVE  calm' \in {0, calm} /\ proof' = NoProof
  BY <1>b DEF Finish
<1>1. CASE UserStep
  BY <1>1 DEF UserStep, ManualBegin, ManualReject, ManualAccept, Stop, TargetChanged, SetEnabled,
              historyVars
<1>2. CASE EngineExit \/ EngineGone \/ OsChange \/ Tick
  BY <1>2 DEF EngineExit, EngineGone, OsChange, Tick, historyVars
<1>3. CASE Forget \/ Look \/ ReadPath \/ Capture \/ Decide
  BY <1>3 DEF Forget, Look, ReadPath, Capture, Decide, historyVars
<1>4. CASE EvidenceBegin \/ EvidenceNetwork \/ EvidenceEngine
  BY <1>4, <1>a DEF EvidenceBegin, EvidenceNetwork, EvidenceEngine, Inconclusive
<1>5. CASE EvidenceProbe
  BY <1>5, <1>a DEF EvidenceProbe, Inconclusive
<1>6. CASE EvidenceCandidate
  BY <1>6, <1>a DEF EvidenceCandidate, Inconclusive
<1>7. CASE RestartRefused \/ RestartFailed
  BY <1>7, <1>b DEF RestartRefused, RestartFailed
<1>8. CASE RestartBegin \/ RestartAccepted
  BY <1>8 DEF RestartBegin, RestartAccepted
<1> QED
  BY <1>1, <1>2, <1>3, <1>4, <1>5, <1>6, <1>7, <1>8 DEF Next, LoopStep

\* The history keeps its types.
LEMMA HistorySteps ==
  ASSUME IInv, Next
  PROVE  HistoryTypes'
<1>1. /\ calm \in Nat /\ proof \in Proofs /\ Horizon \in Nat /\ gen \in Nat /\ ActiveRun \in Nat
  BY RecoveryAssumption DEF IInv, TypeOK, Proofs, ActiveRun
<1>2. Longer(calm, Horizon) \in Nat
  BY <1>1 DEF Longer
<1>3. NoProof \in Proofs /\ ProbeFailed \in Proofs
  <2>1. (IF proof.run = ActiveRun /\ proof.gen = gen THEN proof.failed + 1 ELSE 1) \in Nat
    BY <1>1 DEF Proofs
  <2> QED
    BY <1>1, <2>1 DEF NoProof, ProbeFailed, Proofs
<1>4. CandidatePassed \in Proofs
  BY <1>1 DEF CandidatePassed, Proofs
<1> QED
  BY <1>1, <1>2, <1>3, <1>4, HistoryMoves DEF HistoryTypes

\* A step that starts and ends no attempt, and voids tokens at most
LEMMA KeepCore ==
  ASSUME Core, UNCHANGED <<attempt, started>>,
         p' \in Policies, p'.attempts = p.attempts, p'.inFlight = p.inFlight,
         phase' \in Phases, issue' \in Issues,
         epoch \in Nat, epoch' \in Nat, epoch' >= epoch, tok \in Tokens,
         \/ pc' = pc /\ tok' = tok
         \/ /\ pc \notin {"restart", "launch"} /\ pc' \in Labels \ {"restart", "launch"}
            /\ TokenInUse'
  PROVE  Core'
<1>1. CASE pc' = pc /\ tok' = tok
  <2>1. TokenInUse'
    BY <1>1 DEF Core, TokenInUse, Tokens
  <2>2. pc = "restart" => (tok'.epoch = epoch' => tok.epoch = epoch)
    BY <1>1 DEF Core, TokenInUse, Tokens, Holding
  <2>3. AttemptStage'
    BY <1>1, <2>2 DEF Core, AttemptStage, Owned
  <2>4. OneAttempt'
    BY <1>1 DEF Core, OneAttempt, AttemptOf, Owned
  <2> QED
    BY <1>1, <2>1, <2>3, <2>4 DEF Core, AttemptsCounted, WithinBudget
<1>2. CASE /\ pc \notin {"restart", "launch"} /\ pc' \in Labels \ {"restart", "launch"}
           /\ TokenInUse'
  <2>1. attempt = NoAttempt
    BY <1>2 DEF Core, OneAttempt
  <2> QED
    BY <1>2, <2>1 DEF Core, AttemptStage, OneAttempt, AttemptsCounted, WithinBudget
<1> QED
  BY <1>1, <1>2

\* event(generation) on the policy keeps its type, budget and attempt.
LEMMA AfterEventKeeps ==
  ASSUME Core, NEW n \in Nat
  PROVE  /\ AfterEvent(n) \in Policies
         /\ AfterEvent(n).attempts = p.attempts /\ AfterEvent(n).inFlight = p.inFlight
BY EventKeeps DEF Core, AfterEvent

\* A manual acceptance replaces the policy and the attempt.
LEMMA FreshPolicy ==
  ASSUME NEW b \in BOOLEAN
  PROVE  LET q == [DefaultPolicy EXCEPT !.enabled = b]
         IN q \in Policies /\ q.attempts = 0 /\ ~q.inFlight
BY TimerValues DEF DefaultPolicy, Policies

\* Steps that leave the policy alone, and change no label
LEMMA EnvironmentSteps ==
  ASSUME Core, OtherTypes, EngineExit \/ EngineGone \/ OsChange \/ Forget
  PROVE  Core' /\ OtherTypes'
<1>1. CASE EngineExit
  <2>1. OtherTypes'
    BY <1>1 DEF EngineExit, OtherTypes, intentVars, loopVars, osVars, boundVars, historyVars
  <2>2. /\ UNCHANGED <<attempt, started, p, phase, issue, epoch, tok, pc>>
    BY <1>1 DEF EngineExit, intentVars, loopVars, reportVars, historyVars
  <2> QED
    BY <2>1, <2>2, KeepCore DEF Core, OtherTypes
<1>2. CASE EngineGone
  <2>1. OtherTypes'
    BY <1>2 DEF EngineGone, OtherTypes, intentVars, loopVars, osVars, boundVars, historyVars
  <2>2. UNCHANGED <<attempt, started, p, phase, issue, epoch, tok, pc>>
    BY <1>2 DEF EngineGone, intentVars, loopVars, reportVars, historyVars
  <2> QED
    BY <2>1, <2>2, KeepCore DEF Core, OtherTypes
<1>3. CASE OsChange
  <2>1. OtherTypes'
    BY <1>3 DEF OsChange, OtherTypes, intentVars, loopVars, engineVars, Paths, historyVars
  <2>2. UNCHANGED <<attempt, started, p, phase, issue, epoch, tok, pc>>
    BY <1>3 DEF OsChange, intentVars, loopVars, reportVars, historyVars
  <2> QED
    BY <2>1, <2>2, KeepCore DEF Core, OtherTypes
<1>4. CASE Forget
  <2>1. OtherTypes'
    BY <1>4 DEF Forget, OtherTypes, Unseen, intentVars, engineVars, osVars, boundVars, historyVars
  <2>2. UNCHANGED <<attempt, started, p, phase, issue, epoch, tok, pc>>
    BY <1>4 DEF Forget, intentVars, reportVars, historyVars
  <2> QED
    BY <2>1, <2>2, KeepCore DEF Core, OtherTypes
<1> QED
  BY <1>1, <1>2, <1>3, <1>4

\* The first part of a pass, up to the decision to gather evidence
LEMMA PassSteps ==
  ASSUME Core, OtherTypes, Look \/ ReadPath \/ Capture \/ Decide \/ Tick
  PROVE  Core' /\ OtherTypes'
<1>1. CASE Look
  <2>1. OtherTypes'
    BY <1>1
    DEF Look, OtherTypes, NoToken, Tokens, intentVars, engineVars, osVars, boundVars, historyVars
  <2>2. UNCHANGED <<attempt, started, p, phase, issue, epoch>>
    BY <1>1 DEF Look, intentVars, reportVars, historyVars
  <2>3. pc = "sleep" /\ pc' \in {"path", "token"}
    BY <1>1 DEF Look, historyVars
  <2> QED
    BY <2>1, <2>2, <2>3, KeepCore DEF Core, OtherTypes, Labels, TokenInUse, Holding
<1>2. CASE ReadPath
  <2>1. PICK found \in Discovered : found \in Paths \cup {NoPath}
                                   /\ seen' \in {seen, [path |-> found, wake |-> passWake]}
    BY <1>2 DEF ReadPath, Discovered, OtherTypes
  <2>2. OtherTypes'
    BY <1>2, <2>1 DEF ReadPath, OtherTypes, engineVars, osVars, boundVars
  <2>3. /\ UNCHANGED <<attempt, started, epoch, tok>>
        /\ pc = "path" /\ pc' \in {"sleep", "token"}
        /\ p' = p \/ p' = AfterEvent(passGen)
        /\ phase' \in {phase, "waiting"} /\ issue' \in {issue, "none"}
    BY <1>2 DEF ReadPath, reportVars
  <2>4. p' \in Policies /\ p'.attempts = p.attempts /\ p'.inFlight = p.inFlight
    BY <2>3, AfterEventKeeps DEF Core, OtherTypes
  <2>5. phase' \in Phases /\ issue' \in Issues
    BY <2>3 DEF Core, Phases, Issues
  <2> QED
    BY <2>2, <2>3, <2>4, <2>5, KeepCore DEF OtherTypes, Labels, TokenInUse, Holding
<1>3. CASE Capture
  <2>1. Token \in Tokens
    BY DEF Token, Tokens, OtherTypes
  <2>2. OtherTypes'
    BY <1>3, <2>1 DEF Capture, OtherTypes, intentVars, engineVars, osVars, boundVars, historyVars
  <2>3. /\ UNCHANGED <<attempt, started, p, phase, issue, epoch>>
        /\ pc = "token" /\ pc' \in {"sleep", "decide"}
    BY <1>3 DEF Capture, intentVars, reportVars, historyVars
  <2>4. TokenInUse'
    BY <1>3, <2>3 DEF Capture, HasToken, Token, TokenInUse, Holding, OtherTypes, intentVars, historyVars
  <2> QED
    BY <2>2, <2>3, <2>4, KeepCore DEF Core, OtherTypes, Labels
<1>4. CASE Decide
  <2> DEFINE died == tok.run # lastDead /\ EngineDead(tok.run)
             q == IF died THEN AfterEvent(tok.network) ELSE p
  <2>1. tok \in Tokens /\ tok.network \in Nat /\ tok.run \in Nat
    BY DEF OtherTypes, Tokens
  <2>2. OtherTypes'
    BY <1>4, <2>1 DEF Decide, OtherTypes, engineVars, osVars, boundVars
  <2>3. q \in Policies /\ q.attempts = p.attempts /\ q.inFlight = p.inFlight
    BY <2>1, AfterEventKeeps DEF Core
  <2>4. p' = Consumed(q)
    BY <1>4 DEF Decide
  <2>5. p' \in Policies /\ p'.attempts = p.attempts /\ p'.inFlight = p.inFlight
    BY <2>3, <2>4, ConsumedKeeps
  <2>6. /\ UNCHANGED <<attempt, started, epoch, tok>>
        /\ pc = "decide" /\ pc' \in {"sleep", "evidence"}
        /\ phase' \in {phase, "checking", "waiting"} /\ issue' \in {issue, "none"}
    BY <1>4 DEF Decide, reportVars
  <2>7. TokenInUse'
    BY <2>6 DEF Core, TokenInUse, Holding
  <2>8. phase' \in Phases /\ issue' \in Issues
    BY <2>6 DEF Core, Phases, Issues
  <2> QED
    BY <2>2, <2>5, <2>6, <2>7, <2>8, KeepCore DEF OtherTypes, Labels
<1>5. CASE Tick
  <2>1. OtherTypes'
    BY <1>5, RecoveryAssumption
    DEF Tick, Longer, OtherTypes, intentVars, loopVars, engineVars, osVars, boundVars
  <2>2. UNCHANGED <<attempt, started, phase, issue, epoch, tok, pc>>
    BY <1>5 DEF Tick, intentVars, loopVars, reportVars
  <2>3. p' \in Policies /\ p'.attempts = p.attempts /\ p'.inFlight = p.inFlight
    BY <1>5, AgeKeeps DEF Tick, Core
  <2> QED
    BY <2>1, <2>2, <2>3, KeepCore DEF Core, OtherTypes
<1> QED
  BY <1>1, <1>2, <1>3, <1>4, <1>5

\* Every step of evidence() concludes, or goes on with the attempt untouched.
LEMMA EvidenceSteps ==
  ASSUME IInv,
         \/ EvidenceBegin \/ EvidenceNetwork \/ EvidenceEngine \/ EvidenceProbe
         \/ EvidenceCandidate
  PROVE  Core' /\ OtherTypes'
<1> USE Split
<1>a. \A e \in Evidences, why \in Issues \cup {Kept} :
        pc \in Probing /\ UNCHANGED <<tok, epoch>> /\ Conclude(p, e, why) => Core'
  BY ConcludeCore DEF Core
<1>b. ASSUME pc \in Probing, pc' \in Probing, UNCHANGED <<tok, epoch, p, phase, issue, attempt, started>>
      PROVE  Core'
  <2>1. TokenInUse'
    BY <1>b DEF Core, TokenInUse, Probing, Holding
  <2>2. pc \notin {"restart", "launch"} /\ pc' \in Labels \ {"restart", "launch"}
    BY <1>b DEF Probing, Labels
  <2> QED
    BY <1>b, <2>1, <2>2, KeepCore DEF Core, OtherTypes
<1>c. {"network_unavailable", "unsupported_probe", Kept} \subseteq Issues \cup {Kept}
  BY DEF Issues
<1>1. CASE EvidenceBegin
  <2>1. OtherTypes'
    BY <1>1 DEF EvidenceBegin, OtherTypes, intentVars, loopVars, engineVars, osVars, boundVars
  <2>2. pc = "evidence" /\ UNCHANGED <<tok, epoch>>
    BY <1>1 DEF EvidenceBegin, intentVars, loopVars
  <2>3. \/ pc' = "discover" /\ UNCHANGED <<p, phase, issue, attempt, started>>
        \/ Conclude(p, "Authentication", Kept) \/ Conclude(p, "Unavailable", Kept)
    BY <1>1 DEF EvidenceBegin, Inconclusive, reportVars
  <2> QED
    BY <2>1, <2>2, <2>3, <1>a, <1>b, <1>c DEF Evidences, Probing
<1>2. CASE EvidenceNetwork
  <2>1. OtherTypes'
    BY <1>2 DEF EvidenceNetwork, OtherTypes, intentVars, loopVars, engineVars, osVars, boundVars
  <2>2. pc = "discover" /\ UNCHANGED <<tok, epoch>>
    BY <1>2 DEF EvidenceNetwork, intentVars, loopVars
  <2>3. \/ pc' = "engine" /\ UNCHANGED <<p, phase, issue, attempt, started>>
        \/ Conclude(p, "Unavailable", "network_unavailable") \/ Conclude(p, "Unavailable", Kept)
    BY <1>2 DEF EvidenceNetwork, Inconclusive, reportVars
  <2> QED
    BY <2>1, <2>2, <2>3, <1>a, <1>b, <1>c DEF Evidences, Probing
<1>3. CASE EvidenceEngine
  <2>1. OtherTypes'
    BY <1>3 DEF EvidenceEngine, OtherTypes, Tokens, intentVars, loopVars, engineVars, osVars, boundVars
  <2>2. pc = "engine" /\ UNCHANGED <<tok, epoch>>
    BY <1>3 DEF EvidenceEngine, intentVars, loopVars
  <2>3. \/ pc' = "probe" /\ UNCHANGED <<p, phase, issue, attempt, started>>
        \/ Conclude(p, "DeadEngine", Kept) \/ Conclude(p, "Unavailable", Kept)
        \/ Conclude(p, "Unavailable", "unsupported_probe")
    BY <1>3 DEF EvidenceEngine, Inconclusive, reportVars
  <2> QED
    BY <2>1, <2>2, <2>3, <1>a, <1>b, <1>c DEF Evidences, Probing
<1>4. CASE EvidenceProbe
  <2>1. OtherTypes'
    BY <1>4 DEF EvidenceProbe, OtherTypes, intentVars, loopVars, engineVars, osVars, boundVars
  <2>2. pc = "probe" /\ UNCHANGED <<tok, epoch>>
    BY <1>4 DEF EvidenceProbe, intentVars, loopVars
  <2> DEFINE failed == Observe(p, "ActiveFailure")
  <2>3. /\ p.attempts <= Len(Retry) /\ ~p.inFlight /\ attempt = NoAttempt /\ p.attempts = started
        /\ started \in Nat
    BY <2>2 DEF Core, WithinBudget, OneAttempt, AttemptsCounted
  <2>4. MayFollow(p, "ActiveFailure", failed)
    BY <2>3, ObserveKeeps DEF Evidences, Core
  <2>5. /\ failed.policy \in Policies /\ failed.policy.attempts = p.attempts
        /\ failed.policy.inFlight = p.inFlight
    BY <2>4 DEF MayFollow
  <2> HIDE DEF failed
  <2>6. \/ \E e \in Evidences, why \in Issues \cup {Kept} : Conclude(p, e, why)
        \/ Conclude(failed.policy, "Unavailable", Kept)
        \/ /\ p' = failed.policy /\ pc' \in {"probe", "candidate"} /\ UNCHANGED <<attempt, started>>
           /\ \/ UNCHANGED <<phase, issue>>
              \/ phase' = "exhausted" /\ issue' = ExhaustedIssue(issue, "ActiveFailure")
    BY <1>4, <2>2, <1>c DEF EvidenceProbe, Inconclusive, reportVars, failed, Evidences
  <2>7. CASE \E e \in Evidences, why \in Issues \cup {Kept} : Conclude(p, e, why)
    BY <2>1, <2>2, <2>7, <1>a DEF Probing
  <2>8. CASE Conclude(failed.policy, "Unavailable", Kept)
    BY <2>1, <2>2, <2>5, <2>8, ConcludeCore DEF Probing, Evidences
  <2>9. CASE /\ p' = failed.policy /\ pc' \in {"probe", "candidate"} /\ UNCHANGED <<attempt, started>>
             /\ \/ UNCHANGED <<phase, issue>>
                \/ phase' = "exhausted" /\ issue' = ExhaustedIssue(issue, "ActiveFailure")
    <3>1. ExhaustedIssue(issue, "ActiveFailure") \in Issues
      BY DEF ExhaustedIssue, Core, Issues
    <3>2. phase' \in Phases /\ issue' \in Issues
      BY <2>9, <3>1 DEF Core, Phases
    <3>3. TokenInUse'
      BY <2>2, <2>9 DEF Core, TokenInUse, Holding
    <3> QED
      BY <2>1, <2>2, <2>5, <2>9, <3>2, <3>3, KeepCore DEF OtherTypes, Labels
  <2> QED
    BY <2>6, <2>7, <2>8, <2>9
<1>5. CASE EvidenceCandidate
  <2>1. OtherTypes'
    BY <1>5 DEF EvidenceCandidate, OtherTypes, intentVars, loopVars, engineVars, osVars, boundVars
  <2>2. pc = "candidate" /\ UNCHANGED <<tok, epoch>>
    BY <1>5 DEF EvidenceCandidate, intentVars, loopVars
  <2>3. \/ Conclude(p, "CandidateHealthy", Kept) \/ Conclude(p, "Unavailable", Kept)
        \/ Conclude(p, "Unavailable", "network_unavailable")
        \/ Conclude(p, "Unavailable", "unsupported_probe")
    BY <1>5 DEF EvidenceCandidate, Inconclusive
  <2> QED
    BY <2>1, <2>2, <2>3, <1>a, <1>c DEF Evidences, Probing
<1> QED
  BY <1>1, <1>2, <1>3, <1>4, <1>5

\* A launch is refused, starts, fails or is accepted.
LEMMA RestartSteps ==
  ASSUME IInv, RestartRefused \/ RestartBegin \/ RestartFailed \/ RestartAccepted
  PROVE  Core' /\ OtherTypes'
<1> USE Split
<1>a. Current \in BOOLEAN /\ CurrentIntent \in BOOLEAN
  BY DEF Current, CurrentIntent, HasToken, OtherTypes
<1>1. CASE RestartRefused
  <2>1. pc = "restart" /\ UNCHANGED <<tok, epoch, started>>
    BY <1>1 DEF RestartRefused, intentVars, loopVars
  <2>2. \E result \in {"permission", "cancelled"} : Finish(result, Current, CurrentIntent)
    BY <1>1 DEF RestartRefused
  <2>3. Core' /\ rest' \in Nat
    BY <2>1, <2>2, <1>a, FinishCore
  <2>4. OtherTypes'
    BY <1>1, <2>3 DEF RestartRefused, OtherTypes, intentVars, loopVars, engineVars, osVars, boundVars
  <2> QED
    BY <2>3, <2>4
<1>2. CASE RestartBegin
  <2>1. /\ pc = "restart" /\ pc' = "launch" /\ started' = started + 1
        /\ UNCHANGED <<tok, epoch, p, phase, issue>> /\ tok.epoch = epoch
    BY <1>2 DEF RestartBegin, Current, CurrentIntent, Token, intentVars, loopVars, reportVars, Tokens, OtherTypes
  <2>2. attempt = Owned(tok, FALSE) /\ tok.run # 0 /\ tok \in Tokens
    BY <2>1 DEF Core, AttemptStage, TokenInUse, Holding, OtherTypes
  <2>3. /\ attempt # NoAttempt /\ ~attempt.started
        /\ Owned(tok, TRUE) \in Attempts /\ Owned(tok, TRUE) # NoAttempt
        /\ Owned(tok, TRUE).started
    BY <2>2, OwnedType
  <2>4. attempt' = Owned(tok, TRUE) /\ attempt' = Owned(tok', TRUE)
    BY <1>2, <2>1, <2>2 DEF RestartBegin, AttemptOf, Owned
  <2>5. p.inFlight /\ p.attempts = started + 1
    <3>1. p.attempts = started + 1
      BY <2>3 DEF Core, AttemptsCounted
    <3> QED
      BY <2>3, <3>1 DEF Core, OneAttempt
  <2>6. OneAttempt' /\ AttemptStage' /\ TokenInUse'
    BY <2>1, <2>2, <2>3, <2>4, <2>5
    DEF OneAttempt, AttemptStage, TokenInUse, AttemptOf, Core, Holding
  <2>7. AttemptsCounted' /\ WithinBudget' /\ started' \in Nat
    BY <2>1, <2>3, <2>4, <2>5 DEF AttemptsCounted, WithinBudget, Core
  <2>8. OtherTypes'
    BY <1>2 DEF RestartBegin, OtherTypes, StoppedEngine, Tokens, intentVars, loopVars, osVars, boundVars
  <2> QED
    BY <2>1, <2>3, <2>4, <2>6, <2>7, <2>8 DEF Core, Labels
<1>3. CASE RestartFailed
  <2>1. pc = "launch" /\ UNCHANGED <<tok, epoch, started>>
    BY <1>3 DEF RestartFailed, intentVars, loopVars
  <2>2. \E result \in {"permission", "cancelled", "failed"} :
          Finish(result, Current, CurrentIntent)
    BY <1>3 DEF RestartFailed
  <2>3. Core' /\ rest' \in Nat
    BY <2>1, <2>2, <1>a, FinishCore
  <2>4. OtherTypes'
    BY <1>3, <2>3 DEF RestartFailed, OtherTypes, intentVars, loopVars, engineVars, osVars, boundVars
  <2> QED
    BY <2>3, <2>4
<1>4. CASE RestartAccepted
  <2>1. /\ pc = "launch" /\ pc' = "sleep" /\ p' = PolicyAfterAttempt
        /\ phase' = "idle" /\ issue' = "none" /\ UNCHANGED started
    BY <1>4 DEF RestartAccepted
  <2>2. /\ p' \in Policies /\ ~p'.inFlight /\ p'.attempts = started /\ p'.attempts <= Len(Retry)
    BY <2>1, AfterAttemptPolicy
  <2>3. attempt' = NoAttempt /\ NoAttempt \in Attempts /\ ~NoAttempt.started
    BY <1>4, <2>1 DEF RestartAccepted, Core, AttemptStage, AttemptOf, NoAttempt, Attempts
  <2>4. OtherTypes'
    BY <1>4 DEF RestartAccepted, OtherTypes, loopVars, osVars, boundVars
  <2>5. OneAttempt' /\ AttemptStage' /\ TokenInUse' /\ AttemptsCounted' /\ WithinBudget'
    BY <2>1, <2>2, <2>3
    DEF OneAttempt, AttemptStage, TokenInUse, AttemptsCounted, WithinBudget, Holding, Core
  <2> QED
    BY <2>1, <2>2, <2>3, <2>4, <2>5 DEF Core, Labels, Phases, Issues
<1> QED
  BY <1>1, <1>2, <1>3, <1>4

\* The commands void tokens and cancel what is due, but end no attempt.
LEMMA UserSteps ==
  ASSUME IInv, UserStep
  PROVE  Core' /\ OtherTypes'
<1> USE Split
<1>a. /\ p \in Policies /\ CancelWork(p) \in Policies
      /\ CancelWork(p).attempts = p.attempts /\ CancelWork(p).inFlight = p.inFlight
  BY CancelKeeps DEF Core
<1>b. {"idle", "waiting", "unavailable"} \subseteq Phases /\ {"none", "unsupported_probe"} \subseteq Issues
  BY DEF Phases, Issues
<1>1. CASE ManualBegin
  <2>1. OtherTypes'
    BY <1>1 DEF ManualBegin, Invalidate, OtherTypes, loopVars, engineVars, osVars, historyVars
  <2>2. /\ UNCHANGED <<attempt, started, pc, tok>> /\ epoch' = epoch + 1
        /\ p' = CancelWork(p) /\ phase' = "idle" /\ issue' = "none"
    BY <1>1 DEF ManualBegin, Invalidate, loopVars, historyVars
  <2> QED
    BY <2>1, <2>2, <1>a, <1>b, KeepCore DEF OtherTypes
<1>2. CASE ManualReject
  <2>0. engine' \in [run : Nat, state : {"alive", "exited", "gone", "none"}]
    BY <1>2 DEF ManualReject, StoppedEngine, OtherTypes, historyVars
  <2>1. OtherTypes'
    BY <1>2, <2>0 DEF ManualReject, OtherTypes, loopVars, osVars, boundVars, historyVars
  <2>2. UNCHANGED <<attempt, started, p, phase, issue, epoch, tok, pc>>
    BY <1>2 DEF ManualReject, loopVars, reportVars, historyVars
  <2> QED
    BY <2>1, <2>2, KeepCore DEF Core, OtherTypes
<1>3. CASE ManualAccept
  <2>0. /\ engine' \in [run : Nat, state : {"alive", "exited", "gone", "none"}]
        /\ epoch' \in Nat /\ accepted' \in Nat /\ runs' \in Nat /\ manual' \in BOOLEAN
        /\ deadProven' \in Nat
    <3>1. /\ engine' = [run |-> runs + 1, state |-> "alive"] /\ runs' = runs + 1
          /\ epoch' = epoch + 1 /\ accepted' = runs + 1 /\ manual' = FALSE /\ deadProven' = 0
      BY <1>3 DEF ManualAccept
    <3>2. manual' \in BOOLEAN /\ deadProven' \in Nat
      BY <3>1
    <3>3. epoch \in Nat /\ runs \in Nat
      BY DEF OtherTypes
    <3>4. epoch' \in Nat /\ runs' \in Nat /\ accepted' \in Nat
      BY <3>1, <3>3
    <3>5. engine' \in [run : Nat, state : {"alive", "exited", "gone", "none"}]
      BY <3>1, <3>3
    <3> QED
      BY <3>2, <3>4, <3>5
  <2>a. UNCHANGED <<network, wake, enabled, proofGen, loopVars, health, osVars, boundVars, rest, quiet>>
    BY <1>3 DEF ManualAccept
  <2>1. OtherTypes'
    BY <2>0, <2>a DEF OtherTypes, loopVars, osVars, boundVars
  <2>2. /\ UNCHANGED <<pc, tok>> /\ pc # "launch" /\ epoch' = epoch + 1
        /\ p' = [DefaultPolicy EXCEPT !.enabled = enabled] /\ attempt' = NoAttempt
        /\ phase' = "idle" /\ issue' = "none" /\ started' = 0
    BY <1>3 DEF ManualAccept, loopVars
  <2>3. p' \in Policies /\ p'.attempts = 0 /\ ~p'.inFlight
    BY <2>2, FreshPolicy DEF OtherTypes
  <2>4. NoAttempt \in Attempts /\ ~NoAttempt.started
    BY DEF NoAttempt, Attempts
  <2>5. pc \in Holding => tok.epoch < epoch'
    BY <2>2 DEF Core, TokenInUse, OtherTypes, Tokens
  <2>6. TokenInUse' /\ AttemptStage' /\ OneAttempt'
    <3>1. TokenInUse'
      BY <2>2, <2>5 DEF Core, TokenInUse, Holding, OtherTypes, Tokens
    <3>2. AttemptStage'
      <4>1. pc = "restart" => tok.epoch # epoch'
        BY <2>5 DEF Holding, OtherTypes, Tokens
      <4> QED
        BY <2>2, <2>4, <4>1 DEF AttemptStage
    <3>3. OneAttempt'
      BY <2>2, <2>3 DEF OneAttempt
    <3> QED
      BY <3>1, <3>2, <3>3
  <2>7. AttemptsCounted' /\ WithinBudget'
    BY <2>2, <2>3, <2>4, TimeAssumption DEF AttemptsCounted, WithinBudget
  <2> QED
    BY <2>1, <2>2, <2>3, <2>4, <2>6, <2>7, <1>b DEF Core
<1>4. CASE Stop
  <2>1. OtherTypes'
    BY <1>4 DEF Stop, StoppedEngine, Invalidate, OtherTypes, loopVars, osVars, historyVars
  <2>2. /\ UNCHANGED <<attempt, started, pc, tok>> /\ epoch' = epoch + 1
        /\ p' = CancelWork(p) /\ phase' = "idle" /\ issue' = "none"
    BY <1>4 DEF Stop, Invalidate, loopVars, historyVars
  <2> QED
    BY <2>1, <2>2, <1>a, <1>b, KeepCore DEF OtherTypes
<1>5. CASE TargetChanged
  <2>1. OtherTypes'
    BY <1>5 DEF TargetChanged, OtherTypes, loopVars, engineVars, osVars, historyVars
  <2>2. /\ UNCHANGED <<attempt, started, pc, tok>> /\ epoch' = epoch + 1
        /\ p' = CancelWork(p) /\ phase' = "unavailable" /\ issue' = "unsupported_probe"
    BY <1>5 DEF TargetChanged, loopVars, historyVars
  <2> QED
    BY <2>1, <2>2, <1>a, <1>b, KeepCore DEF OtherTypes
<1>6. CASE SetEnabled
  <2> DEFINE set == [p EXCEPT !.enabled = ~enabled]
             q == CancelWork(set)
  <2>1. OtherTypes'
    BY <1>6 DEF SetEnabled, OtherTypes, loopVars, engineVars, osVars
  <2>2. set \in Policies /\ set.attempts = p.attempts /\ set.inFlight = p.inFlight
    BY <1>a DEF OtherTypes, Policies
  <2>3. q \in Policies /\ q.attempts = p.attempts /\ q.inFlight = p.inFlight
    BY <2>2, CancelKeeps
  <2>4. /\ Event(q, gen) \in Policies
        /\ Event(q, gen).attempts = p.attempts /\ Event(q, gen).inFlight = p.inFlight
    BY <2>3, EventKeeps DEF OtherTypes
  <2>5. /\ UNCHANGED <<attempt, started, pc, tok>> /\ epoch' = epoch + 1
        /\ p' = q \/ p' = Event(q, gen)
        /\ phase' \in {"idle", "waiting"} /\ issue' = "none"
    BY <1>6 DEF SetEnabled, loopVars
  <2>6. p' \in Policies /\ p'.attempts = p.attempts /\ p'.inFlight = p.inFlight
    BY <2>3, <2>4, <2>5
  <2> HIDE DEF set, q
  <2> QED
    BY <2>1, <2>5, <2>6, <1>b, KeepCore DEF OtherTypes
<1> QED
  BY <1>1, <1>2, <1>3, <1>4, <1>5, <1>6 DEF UserStep

-----------------------------------------------------------------------------
(* The theorems.                                                           *)

\* A coordinator that has just been made has a full budget and no attempt.
LEMMA InitInvariant == Init => IInv
<1> SUFFICES ASSUME Init PROVE IInv
  OBVIOUS
<1>1. Token \in Tokens /\ NoAttempt \in Attempts /\ ~NoAttempt.started
  BY DEF Init, Token, Tokens, NoAttempt, Attempts
<1>2. p \in Policies /\ p.attempts = 0 /\ ~p.inFlight
  BY TimerValues DEF Init, DefaultPolicy, Policies
<1>3. OtherTypes
  BY <1>1 DEF Init, OtherTypes, Unseen, StoppedEngine, Paths
<1>4. Core
  BY <1>1, <1>2, TimeAssumption
  DEF Init, Core, Phases, Issues, Labels, TokenInUse, Holding, AttemptStage, OneAttempt,
      AttemptsCounted, WithinBudget
<1>5. HistoryTypes
  BY DEF Init, HistoryTypes, NoProof, Proofs
<1> QED
  BY <1>3, <1>4, <1>5, Split DEF Init

\* Every step, of the loop, the user or the system, keeps the invariant.
LEMMA StepInvariant == IInv /\ [Next]_vars => IInv'
<1> SUFFICES ASSUME IInv, [Next]_vars PROVE IInv'
  OBVIOUS
<1>1. CASE Next
  <2>1. Core' /\ OtherTypes' /\ HistoryTypes'
    <3>0. HistoryTypes'
      BY <1>1, HistorySteps
    <3>1. CASE Forget \/ EngineExit \/ EngineGone \/ OsChange
      BY <3>1, <3>0, Split, EnvironmentSteps
    <3>2. CASE Look \/ ReadPath \/ Capture \/ Decide \/ Tick
      BY <3>2, <3>0, Split, PassSteps
    <3>3. CASE \/ EvidenceBegin \/ EvidenceNetwork \/ EvidenceEngine \/ EvidenceProbe
               \/ EvidenceCandidate
      BY <3>0, <3>3, EvidenceSteps
    <3>4. CASE RestartRefused \/ RestartBegin \/ RestartFailed \/ RestartAccepted
      BY <3>0, <3>4, RestartSteps
    <3>5. CASE UserStep
      BY <3>0, <3>5, UserSteps
    <3> QED
      BY <1>1, <3>0, <3>1, <3>2, <3>3, <3>4, <3>5 DEF Next, LoopStep
  <2> QED
    BY <2>1 DEF IInv, Core, OtherTypes, HistoryTypes, TypeOK, Attempts, Proofs
<1>2. CASE UNCHANGED vars
  <2>1. UNCHANGED <<attempt, started, p, phase, issue, epoch, tok, pc>>
    BY <1>2 DEF vars, intentVars, reportVars, loopVars, historyVars
  <2>2. Core'
    BY <2>1, Split, KeepCore DEF Core, OtherTypes
  <2>3. OtherTypes'
    BY <1>2, Split
    DEF OtherTypes, vars, intentVars, loopVars, engineVars, osVars, boundVars, historyVars
  <2>4. HistoryTypes'
    BY <1>2, Split DEF HistoryTypes, vars, historyVars
  <2> QED
    BY <2>2, <2>3, <2>4 DEF IInv, Core, OtherTypes, HistoryTypes, TypeOK, Attempts, Proofs
<1> QED
  BY <1>1, <1>2

\* The inductive invariant holds of every state of the coordinator.
THEOREM Invariance == Spec => []IInv
<1> QED
  BY InitInvariant, StepInvariant, PTL DEF Spec

\* Every variable keeps its type; the policy's own fields among them.
THEOREM TypeCorrect == Spec => []TypeOK
BY Invariance, PTL DEF IInv

\* The policy holds an attempt exactly while the loop carries one out for the
\* token it was approved for, whatever the user and the system do meanwhile.
THEOREM OneAttemptAtATime == Spec => []OneAttempt
BY Invariance, PTL DEF IInv

\* What the policy counts are launches: neither a refused attempt nor a
\* setting, an event or a rejected manual request changes the count.
THEOREM LaunchesCounted == Spec => []AttemptsCounted
BY Invariance, PTL DEF IInv

\* No more launches than the schedule has entries between two full budgets.
THEOREM LaunchesBounded == Spec => []BudgetRespected
<1>1. IInv => BudgetRespected
  BY DEF IInv, TypeOK, AttemptsCounted, WithinBudget, BudgetRespected, Policies
<1> QED
  BY <1>1, Invariance, PTL

-----------------------------------------------------------------------------
(* When a launch may come, and what licenses it.  The timers of the policy *)
(* are tied to the time the history measures: whatever a timer has left to *)
(* run, what has already passed makes up the rest of the delay.            *)

\* The time that counts as stable has no launch and no event in it, and the
\* first attempt is due no earlier than a debounce after the last event.
Elapsed(q, n, r, t) ==
  /\ q.since # None => r >= q.since /\ t >= q.since
  /\ n = 0 /\ q.due # None => t + q.due >= Debounce

\* After n launches the floor and the time since the last one make up the delay.
Waited(q, n, r) == 0 < n /\ n < Len(Retry) => q.floor # None /\ r + q.floor >= Retry[n + 1]

\* The timers agree with the history, and an attempt stops the stable time.
TimersKept ==
  /\ Elapsed(p, started, rest, quiet)
  /\ ~attempt.started => Waited(p, started, rest)
  /\ p.inFlight => p.since = None

\* An approved attempt has waited: nothing moves its timers any more.
Approved == attempt # NoAttempt /\ ~attempt.started => p.floor = 0 /\ ~p.exhausted

\* A pass that looks for evidence with a token still current began after the
\* debounce, unless launches were made before.
ProbedInTime ==
  started = 0 /\ pc \in Probing \cup {"restart"} /\ tok.epoch = epoch => quiet >= Debounce

\* The network a launch compares with is the one of the evidence.
Evidence == pc \in {"engine", "probe", "candidate", "restart"} => proofGen = evGen

\* What the policy and the engine say of the rest of the state
Agreed ==
  /\ p.enabled = enabled
  /\ accepted <= runs
  /\ engine.state = "alive" => engine.run # 0
  /\ pc = "launch" => started > 0

TInv == TimersKept /\ Approved /\ ProbedInTime /\ Evidence /\ Agreed

\* An event restarts the time since the last event, and lowers no floor.
LEMMA EventElapsed ==
  ASSUME NEW q \in Policies, NEW g \in Nat, q.enabled, ~q.exhausted,
         q.inFlight => q.due = None, NEW n \in Nat, NEW r \in Nat, Waited(q, n, r)
  PROVE  Elapsed(Event(q, g), n, r, 0) /\ Waited(Event(q, g), n, r)
<1>1. Debounce \in Nat
  BY TimeAssumption
<1> QED
  BY <1>1, EventTimers DEF Elapsed, Waited

\* An observation keeps what has passed: only a restart that has to wait sets
\* a due time, and only health that has lasted clears the floor.
LEMMA ObserveElapsed ==
  ASSUME NEW q \in Policies, q.attempts <= Len(Retry), NEW e \in Evidences,
         e = "Healthy" => q.enabled,
         NEW n \in Nat, NEW m \in Nat, NEW r \in Nat, NEW t \in Nat,
         Elapsed(q, n, r, t), Waited(q, n, r),
         n = 0 /\ e \in {"DeadEngine", "CandidateHealthy"} => t >= Debounce,
         m = IF e = "Healthy" /\ Observe(q, e).policy.attempts = 0 THEN 0 ELSE n
  PROVE  Elapsed(Observe(q, e).policy, m, r, t) /\ Waited(Observe(q, e).policy, m, r)
<1> DEFINE out == Observe(q, e)
<1>1. TimersFollow(q, e, out)
  BY ObserveTimers
<1>2. out.policy \in Policies
  BY ObserveKeeps DEF MayFollow
<1> HIDE DEF out
<1>3. out.policy.due # None => out.policy.due \in Nat
  BY <1>2 DEF Policies
<1>4. Debounce \in Nat
  BY TimeAssumption
<1>5. out.policy.since # None => r >= out.policy.since /\ t >= out.policy.since
  BY <1>1 DEF TimersFollow, Elapsed
<1>6. m = 0 /\ out.policy.due # None => t + out.policy.due >= Debounce
  <2> SUFFICES ASSUME m = 0, out.policy.due # None PROVE t + out.policy.due >= Debounce
    OBVIOUS
  <2>1. e # "Healthy"
    BY <1>1 DEF TimersFollow
  <2>2. n = 0
    BY <2>1
  <2>3. CASE e \in {"DeadEngine", "CandidateHealthy"}
    BY <2>2, <2>3, <1>3, <1>4
  <2>4. CASE e \notin {"DeadEngine", "CandidateHealthy"}
    BY <2>2, <2>4, <1>1 DEF TimersFollow, Elapsed
  <2> QED
    BY <2>3, <2>4
<1>7. Waited(out.policy, m, r)
  <2> SUFFICES ASSUME 0 < m, m < Len(Retry)
               PROVE  out.policy.floor # None /\ r + out.policy.floor >= Retry[m + 1]
    BY DEF Waited
  <2>1. m = n /\ ~(e = "Healthy" /\ out.policy.attempts = 0)
    BY DEF out
  <2>2. out.policy.floor = q.floor
    BY <2>1, <1>1 DEF TimersFollow, Waited
  <2> QED
    BY <2>1, <2>2 DEF Waited
<1> QED
  BY <1>5, <1>6, <1>7 DEF Elapsed, out

\* Time passes for the timers and for the history alike.
LEMMA AgeElapsed ==
  ASSUME NEW q \in Policies, NEW n \in Nat, NEW r \in Nat, NEW t \in Nat
  PROVE  LET rr == Longer(r, Horizon)
             tt == Longer(t, Horizon)
         IN /\ Elapsed(q, n, r, t) => Elapsed(Age(q), n, rr, tt)
            /\ Waited(q, n, r) => Waited(Age(q), n, rr)
<1> DEFINE rr == Longer(r, Horizon)
           tt == Longer(t, Horizon)
<1>0. /\ Stable \in Nat /\ Debounce \in Nat /\ Horizon \in Nat /\ Len(Retry) \in Nat
      /\ Debounce <= Horizon /\ Stable <= Horizon
  BY TimeAssumption, RecoveryAssumption
<1>1. /\ rr \in Nat /\ tt \in Nat /\ rr >= r /\ tt >= t
      /\ (rr = r + 1 \/ rr >= Horizon) /\ (tt = t + 1 \/ tt >= Horizon)
  BY <1>0 DEF Longer
<1> HIDE DEF rr, tt
<1>2. ASSUME Elapsed(q, n, r, t)
      PROVE  Elapsed(Age(q), n, rr, tt)
  <2>1. ASSUME Age(q).since # None
        PROVE  rr >= Age(q).since /\ tt >= Age(q).since
    <3>1. q.since # None /\ q.since \in Nat
      BY <2>1, AgeTimers DEF Policies
    <3>2. r >= q.since /\ t >= q.since
      BY <3>1, <1>2 DEF Elapsed
    <3> QED
      BY <3>1, <3>2, <1>0, <1>1, AgeTimers
  <2>2. ASSUME n = 0, Age(q).due # None
        PROVE  tt + Age(q).due >= Debounce
    <3>1. q.due \in Nat /\ Age(q).due = (IF q.due > 0 THEN q.due - 1 ELSE q.due)
      BY <2>2, AgeTimers DEF Policies, Down, None
    <3>2. t + q.due >= Debounce
      BY <2>2, <3>1, <1>2 DEF Elapsed, None
    <3> QED
      BY <3>1, <3>2, <1>0, <1>1
  <2> QED
    BY <2>1, <2>2 DEF Elapsed
<1>3. ASSUME Waited(q, n, r)
      PROVE  Waited(Age(q), n, rr)
  <2> SUFFICES ASSUME 0 < n, n < Len(Retry)
               PROVE  Age(q).floor # None /\ rr + Age(q).floor >= Retry[n + 1]
    BY DEF Waited
  <2>1. q.floor # None /\ r + q.floor >= Retry[n + 1]
    BY <1>3 DEF Waited
  <2>2. q.floor \in Nat /\ Age(q).floor = (IF q.floor > 0 THEN q.floor - 1 ELSE q.floor)
    BY <2>1, AgeTimers DEF Policies, Down, None
  <2>3. Retry[n + 1] \in Nat /\ Retry[n + 1] <= Horizon
    BY <1>0, RetryType, RecoveryAssumption
  <2> QED
    BY <2>1, <2>2, <2>3, <1>0, <1>1 DEF None
<1> QED
  BY <1>2, <1>3 DEF rr, tt

\* A step that touches neither the policy, the attempt nor the history
LEMMA QuietStep ==
  ASSUME IInv, TInv, UNCHANGED <<p, attempt, started, rest, quiet, enabled, accepted, runs, epoch>>,
         \/ UNCHANGED <<pc, tok, proofGen, evGen>>
         \/ pc' \notin Probing \cup {"restart", "launch"}
         \/ /\ pc \in Probing /\ pc' \in Probing /\ tok' = tok
            /\ pc' \in {"engine", "probe", "candidate"} => proofGen' = evGen',
         engine'.state = "alive" => engine' = engine
  PROVE  TInv'
<1>1. TimersKept' /\ Approved'
  BY DEF TInv, TimersKept, Approved
<1>2. ProbedInTime'
  BY DEF TInv, ProbedInTime, Probing
<1>3. Evidence'
  BY DEF TInv, Evidence, Probing
<1>4. Agreed'
  BY DEF TInv, Agreed, Probing
<1> QED
  BY <1>1, <1>2, <1>3, <1>4 DEF TInv

\* The attempt an attempt_finished speaks of
LEMMA AttemptCases ==
  ASSUME IInv, pc \in {"restart", "launch"}
  PROVE  /\ pc = "launch" =>
              /\ PolicyAfterAttempt = AttemptFinished(p) /\ p.inFlight /\ p.attempts = started
              /\ AttemptOf(tok) /\ attempt.started
         /\ pc = "restart" =>
              /\ ~attempt.started
              /\ PolicyAfterAttempt \in {p, AbandonUnstarted(p)}
<1>1. tok \in Tokens /\ tok.run # 0 /\ started \in Nat
  BY DEF IInv, TypeOK, TokenInUse, Holding
<1>2. CASE pc = "launch"
  <2>1. attempt = Owned(tok, TRUE) /\ attempt # NoAttempt /\ attempt.started /\ AttemptOf(tok)
    BY <1>1, <1>2, OwnedType DEF IInv, AttemptStage, AttemptOf
  <2>2. p.inFlight
    BY <2>1 DEF IInv, OneAttempt
  <2>3. p.attempts = started + 0
    BY <2>1 DEF IInv, AttemptsCounted
  <2> QED
    BY <2>1, <2>2, <2>3, <1>1, <1>2 DEF PolicyAfterAttempt
<1>3. CASE pc = "restart"
  BY <1>3 DEF IInv, AttemptStage, PolicyAfterAttempt
<1> QED
  BY <1>2, <1>3

\* The end of an attempt: after a launch the delay of the next one begins.
LEMMA AfterAttemptElapsed ==
  ASSUME IInv, TInv, pc \in {"restart", "launch"}
  PROVE  LET q == PolicyAfterAttempt
             r == IF AttemptOf(tok) /\ attempt.started THEN 0 ELSE rest
         IN /\ q.enabled = p.enabled /\ r \in Nat
            /\ Elapsed(q, started, r, quiet) /\ Waited(q, started, r)
<1> DEFINE q == PolicyAfterAttempt
           r == IF AttemptOf(tok) /\ attempt.started THEN 0 ELSE rest
<1>1. p \in Policies /\ rest \in Nat /\ quiet \in Nat /\ started \in Nat /\ Len(Retry) \in Nat
  BY TimeAssumption DEF IInv, TypeOK
<1>2. Elapsed(p, started, rest, quiet) /\ (~attempt.started => Waited(p, started, rest))
  BY DEF TInv, TimersKept
<1>3. CASE pc = "launch"
  <2>1. /\ q = AttemptFinished(p) /\ p.inFlight /\ p.attempts = started /\ r = 0
        /\ started > 0 /\ p.since = None
    BY <1>3, AttemptCases DEF TInv, Agreed, TimersKept
  <2>2. /\ q.enabled = p.enabled /\ q.since = None
        /\ started < Len(Retry) => q.floor = Retry[started + 1]
    BY <2>1, <1>1, FinishedTimers
  <2>3. started < Len(Retry) => Retry[started + 1] \in Nat
    BY <1>1, RetryType
  <2> HIDE DEF q, r
  <2>4. Elapsed(q, started, r, quiet)
    BY <2>1, <2>2, <1>1 DEF Elapsed
  <2>5. Waited(q, started, r)
    BY <2>1, <2>2, <2>3, <1>1 DEF Waited, None
  <2> QED
    BY <2>1, <2>2, <2>4, <2>5 DEF q, r
<1>4. CASE pc = "restart"
  <2>1. q \in {p, AbandonUnstarted(p)} /\ r = rest /\ ~attempt.started
    BY <1>4, AttemptCases
  <2>2. /\ AbandonUnstarted(p).enabled = p.enabled /\ AbandonUnstarted(p).due = None
        /\ AbandonUnstarted(p).since = p.since /\ AbandonUnstarted(p).floor = p.floor
    BY <1>1, AbandonTimers
  <2>3. CASE q = p
    BY <2>1, <2>3, <1>1, <1>2
  <2>4. CASE q = AbandonUnstarted(p)
    <3> HIDE DEF q, r
    <3>1. Elapsed(q, started, r, quiet) /\ Waited(q, started, r) /\ q.enabled = p.enabled
      BY <2>1, <2>2, <2>4, <1>2 DEF Elapsed, Waited
    <3> QED
      BY <3>1, <2>1, <1>1 DEF q, r
  <2> QED
    BY <2>1, <2>3, <2>4
<1> QED
  BY <1>3, <1>4

\* Once the loop sleeps, what is left to show is the timers.
LEMMA SleepStep ==
  ASSUME IInv, IInv', TInv, pc' = "sleep", UNCHANGED <<enabled, accepted, runs, engine>>,
         p'.enabled = p.enabled,
         Elapsed(p', started', rest', quiet'), Waited(p', started', rest')
  PROVE  TInv'
<1>1. attempt' = NoAttempt /\ ~p'.inFlight
  BY DEF IInv, OneAttempt
<1> QED
  BY <1>1 DEF TInv, TimersKept, Approved, ProbedInTime, Evidence, Agreed, Probing

\* Whatever a launch came to, the timers stay tied to the history.
LEMMA FinishTimers ==
  ASSUME IInv, IInv', TInv, pc \in {"restart", "launch"},
         UNCHANGED <<started, quiet, enabled, accepted, runs, engine>>,
         NEW result \in {"permission", "cancelled", "failed"}, result = "failed" => pc = "launch",
         NEW current \in BOOLEAN, NEW mine \in BOOLEAN, Finish(result, current, mine)
  PROVE  TInv'
<1> DEFINE q == PolicyAfterAttempt
           r == IF AttemptOf(tok) /\ attempt.started THEN 0 ELSE rest
<1>1. /\ q.enabled = p.enabled /\ r \in Nat
      /\ Elapsed(q, started, r, quiet) /\ Waited(q, started, r)
  BY AfterAttemptElapsed
<1>2. q \in Policies /\ q.attempts <= Len(Retry)
  BY AfterAttemptPolicy
<1>3. started \in Nat /\ quiet \in Nat
  BY DEF IInv, TypeOK
<1>4. pc' = "sleep" /\ rest' = r
  BY DEF Finish
<1>5. \/ p' = q \/ p' = Observe(q, "Authentication").policy
      \/ p' = Observe(q, "Unavailable").policy
      \/ p' = Observe(q, "DeadEngine").policy /\ pc = "launch"
  BY DEF Finish, q
<1> HIDE DEF q, r
<1>6. ASSUME NEW e \in {"Authentication", "Unavailable", "DeadEngine"},
             e = "DeadEngine" => pc = "launch"
      PROVE  /\ Observe(q, e).policy.enabled = q.enabled
             /\ Elapsed(Observe(q, e).policy, started, r, quiet)
             /\ Waited(Observe(q, e).policy, started, r)
  <2>1. e \in Evidences /\ e # "Healthy" /\ e # "CandidateHealthy"
    BY DEF Evidences
  <2>2. e = "DeadEngine" => started # 0
    BY <1>3, <1>6 DEF TInv, Agreed
  <2>3. Observe(q, e).policy.enabled = q.enabled
    BY <2>1, <1>2, ObserveTimers DEF TimersFollow
  <2> QED
    BY <2>1, <2>2, <2>3, <1>1, <1>2, <1>3, ObserveElapsed
<1>7. /\ p'.enabled = p.enabled
      /\ Elapsed(p', started, r, quiet) /\ Waited(p', started, r)
  BY <1>1, <1>5, <1>6
<1> QED
  BY <1>4, <1>7, SleepStep

\* The end of evidence(): an approval shows that the delay has passed, and
\* only health that has lasted makes the budget full.
LEMMA ConcludeTimers ==
  ASSUME IInv, IInv', TInv, pc \in Probing,
         UNCHANGED <<tok, epoch, rest, quiet, enabled, accepted, runs, engine>>,
         NEW q \in Policies, q.attempts = p.attempts, q.enabled = p.enabled,
         Elapsed(q, started, rest, quiet), Waited(q, started, rest),
         NEW e \in Evidences, NEW why, Conclude(q, e, why),
         e \in {"DeadEngine", "CandidateHealthy"} =>
           pc \in {"engine", "candidate"} /\ UNCHANGED <<evGen, proofGen>>
  PROVE  TInv'
<1> DEFINE out == Observe(q, e)
<1>1. /\ p \in Policies /\ p.attempts <= Len(Retry) /\ q.attempts <= Len(Retry)
      /\ started \in Nat /\ rest \in Nat /\ quiet \in Nat
      /\ attempt = NoAttempt
  BY DEF IInv, TypeOK, WithinBudget, OneAttempt, Probing
<1>2. MayFollow(q, e, out) /\ TimersFollow(q, e, out)
  BY <1>1, ObserveKeeps, ObserveTimers
<1> HIDE DEF out
<1>3. CASE ~Current
  <2>1. p' = q /\ pc' = "sleep" /\ started' = started
    BY <1>3 DEF Conclude
  <2> QED
    BY <2>1, SleepStep
<1>4. ASSUME Current
      PROVE  /\ q.enabled /\ tok.epoch = epoch
             /\ started = 0 => quiet >= Debounce
             /\ Elapsed(out.policy, started', rest, quiet) /\ Waited(out.policy, started', rest)
             /\ p' = out.policy
  <2>1. q.enabled /\ tok.epoch = epoch
    BY <1>4 DEF Current, CurrentIntent, HasToken, Token, TInv, Agreed
  <2>2. started = 0 => quiet >= Debounce
    BY <2>1 DEF TInv, ProbedInTime
  <2>3. p' = out.policy /\ started' = IF e = "Healthy" /\ p'.attempts = 0 THEN 0 ELSE started
    BY <1>4 DEF Conclude, out
  <2>4. started' \in Nat
    BY DEF IInv, TypeOK
  <2>5. Elapsed(out.policy, started', rest, quiet) /\ Waited(out.policy, started', rest)
    BY <2>1, <2>2, <2>3, <2>4, <1>1, ObserveElapsed DEF out
  <2> QED
    BY <2>1, <2>2, <2>3, <2>5
<1>5. CASE Current /\ out.decision # "Reconnect"
  <2>1. pc' = "sleep"
    BY <1>5 DEF Conclude, out
  <2>2. p'.enabled = p.enabled
    BY <1>2, <1>4, <1>5 DEF TimersFollow
  <2> QED
    BY <2>1, <2>2, <1>4, <1>5, SleepStep
<1>6. CASE Current /\ out.decision = "Reconnect"
  <2>1. pc' = "restart" /\ attempt' = Owned(tok, FALSE) /\ p' = out.policy
    BY <1>6 DEF Conclude, out
  <2>2. /\ e \in {"DeadEngine", "CandidateHealthy"}
        /\ ~p'.exhausted /\ p'.floor = 0 /\ p'.since = None
        /\ p'.enabled = p.enabled
    BY <2>1, <1>2, <1>4, <1>6 DEF MayFollow, TimersFollow
  <2>3. started' = started
    BY <2>2, <1>6 DEF Conclude
  <2>4. TimersKept'
    BY <2>1, <2>2, <2>3, <1>4, <1>6 DEF TimersKept
  <2>5. Approved'
    BY <2>2 DEF Approved
  <2>6. ProbedInTime'
    BY <2>3, <1>4, <1>6 DEF ProbedInTime
  <2>7. Evidence'
    BY <2>2 DEF TInv, Evidence
  <2>8. Agreed'
    BY <2>1, <2>2 DEF TInv, Agreed
  <2> QED
    BY <2>4, <2>5, <2>6, <2>7, <2>8 DEF TInv
<1> QED
  BY <1>3, <1>5, <1>6

\* The steps that gather evidence
LEMMA EvidenceTimers ==
  ASSUME IInv, IInv', TInv,
         \/ EvidenceBegin \/ EvidenceNetwork \/ EvidenceEngine \/ EvidenceProbe
         \/ EvidenceCandidate
  PROVE  TInv'
<1>a. /\ p \in Policies /\ p.attempts <= Len(Retry)
      /\ started \in Nat /\ rest \in Nat /\ quiet \in Nat /\ tok \in Tokens
  BY DEF IInv, TypeOK, WithinBudget
<1>b. UNCHANGED <<tok, epoch, rest, quiet, enabled, accepted, runs, engine>>
  BY DEF EvidenceBegin, EvidenceNetwork, EvidenceEngine, EvidenceProbe, EvidenceCandidate,
         intentVars, loopVars, engineVars
<1>c. pc \in Probing => Elapsed(p, started, rest, quiet) /\ Waited(p, started, rest)
  BY DEF IInv, OneAttempt, Probing, NoAttempt, TInv, TimersKept
<1>1. CASE EvidenceBegin
  <2>1. pc = "evidence" /\ evGen' = gen
    BY <1>1 DEF EvidenceBegin
  <2>2. CASE pc' = "discover" /\ UNCHANGED <<p, attempt, started>>
    BY <2>1, <2>2, <1>b, QuietStep DEF Probing
  <2>3. CASE Conclude(p, "Authentication", Kept) \/ Conclude(p, "Unavailable", Kept)
    BY <2>1, <2>3, <1>a, <1>b, <1>c, ConcludeTimers DEF Probing, Evidences
  <2> QED
    BY <1>1, <2>2, <2>3 DEF EvidenceBegin, Inconclusive
<1>2. CASE EvidenceNetwork
  <2>1. pc = "discover" /\ evGen' = evGen
    BY <1>2 DEF EvidenceNetwork
  <2>2. CASE pc' = "engine" /\ proofGen' = evGen /\ UNCHANGED <<p, attempt, started>>
    BY <2>1, <2>2, <1>b, QuietStep DEF Probing
  <2>3. CASE \E why : Conclude(p, "Unavailable", why)
    BY <2>1, <2>3, <1>a, <1>b, <1>c, ConcludeTimers DEF Probing, Evidences
  <2> QED
    BY <1>2, <2>2, <2>3 DEF EvidenceNetwork, Inconclusive
<1>3. CASE EvidenceEngine
  <2>1. pc = "engine" /\ UNCHANGED <<evGen, proofGen>>
    BY <1>3 DEF EvidenceEngine
  <2>2. CASE pc' = "probe" /\ UNCHANGED <<p, attempt, started>>
    <3>1. proofGen' = evGen'
      BY <2>1 DEF TInv, Evidence
    <3> QED
      BY <2>1, <2>2, <3>1, <1>b, QuietStep DEF Probing
  <2>3. CASE \E why : Conclude(p, "Unavailable", why)
    BY <2>1, <2>3, <1>a, <1>b, <1>c, ConcludeTimers DEF Probing, Evidences
  <2>4. CASE Conclude(p, "DeadEngine", Kept)
    BY <2>1, <2>4, <1>a, <1>b, <1>c, ConcludeTimers DEF Probing, Evidences
  <2> QED
    BY <1>3, <2>2, <2>3, <2>4 DEF EvidenceEngine, Inconclusive
<1>4. CASE EvidenceProbe
  <2> DEFINE failed == Observe(p, "ActiveFailure")
  <2>1. pc = "probe" /\ UNCHANGED <<evGen, proofGen>>
    BY <1>4 DEF EvidenceProbe
  <2>2. attempt = NoAttempt /\ p.inFlight = FALSE
    BY <2>1 DEF IInv, TypeOK, OneAttempt, Policies
  <2>3. /\ failed.policy \in Policies /\ failed.policy.attempts = p.attempts
        /\ failed.policy.enabled = p.enabled
        /\ Elapsed(failed.policy, started, rest, quiet) /\ Waited(failed.policy, started, rest)
    <3>1. "ActiveFailure" \in Evidences /\ "ActiveFailure" # "Healthy"
          /\ "ActiveFailure" \notin {"DeadEngine", "CandidateHealthy"}
      BY DEF Evidences
    <3>2. MayFollow(p, "ActiveFailure", failed) /\ TimersFollow(p, "ActiveFailure", failed)
      BY <3>1, <1>a, ObserveKeeps, ObserveTimers
    <3>3. failed.policy \in Policies /\ failed.decision # "Reconnect"
          /\ failed.policy.enabled = p.enabled
      BY <3>1, <3>2 DEF MayFollow, TimersFollow
    <3>4. failed.policy.attempts = p.attempts
      BY <3>1, <3>2, <3>3 DEF MayFollow
    <3>5. Elapsed(failed.policy, started, rest, quiet) /\ Waited(failed.policy, started, rest)
      BY <3>1, <2>1, <1>a, <1>c, ObserveElapsed DEF Probing
    <3> QED
      BY <3>3, <3>4, <3>5
  <2> HIDE DEF failed
  <2>4. CASE p' = failed.policy /\ pc' \in {"probe", "candidate"} /\ UNCHANGED <<attempt, started>>
    <3>1. TimersKept' /\ Approved'
      <4>1. attempt' = NoAttempt /\ p'.inFlight = FALSE
        BY <2>2, <2>4 DEF IInv, TypeOK, OneAttempt, Policies
      <4> QED
        BY <4>1, <2>3, <2>4, <1>b DEF TimersKept, Approved
    <3>2. ProbedInTime'
      BY <2>1, <2>4, <1>b DEF TInv, ProbedInTime, Probing
    <3>3. Evidence'
      BY <2>1, <2>4 DEF TInv, Evidence
    <3>4. Agreed'
      BY <2>3, <2>4, <1>b DEF TInv, Agreed
    <3> QED
      BY <3>1, <3>2, <3>3, <3>4 DEF TInv
  <2>5. CASE \E e \in {"Healthy", "Authentication", "Unavailable"} : \E why : Conclude(p, e, why)
    BY <2>1, <2>5, <1>a, <1>b, <1>c, ConcludeTimers DEF Probing, Evidences
  <2>6. CASE Conclude(failed.policy, "Unavailable", Kept)
    BY <2>1, <2>3, <2>6, <1>b, ConcludeTimers DEF Probing, Evidences
  <2> QED
    BY <1>4, <2>1, <2>4, <2>5, <2>6 DEF EvidenceProbe, Inconclusive, failed
<1>5. CASE EvidenceCandidate
  <2>1. pc = "candidate" /\ UNCHANGED <<evGen, proofGen>>
    BY <1>5 DEF EvidenceCandidate, loopVars
  <2>2. \E e \in {"CandidateHealthy", "Unavailable"} : \E why : Conclude(p, e, why)
    BY <1>5 DEF EvidenceCandidate, Inconclusive
  <2> QED
    BY <2>1, <2>2, <1>a, <1>b, <1>c, ConcludeTimers DEF Probing, Evidences
<1> QED
  BY <1>1, <1>2, <1>3, <1>4, <1>5

\* The steps that launch
LEMMA LaunchTimers ==
  ASSUME IInv, IInv', TInv, RestartRefused \/ RestartBegin \/ RestartFailed \/ RestartAccepted
  PROVE  TInv'
<1>a. Current \in BOOLEAN /\ CurrentIntent \in BOOLEAN
  BY DEF Current, CurrentIntent, HasToken, IInv, TypeOK
<1>b. /\ p \in Policies /\ started \in Nat /\ rest \in Nat /\ quiet \in Nat /\ runs \in Nat
  BY DEF IInv, TypeOK
<1>1. CASE RestartRefused
  <2>1. pc = "restart" /\ UNCHANGED <<started, quiet, enabled, accepted, runs, engine>>
    BY <1>1 DEF RestartRefused, intentVars, engineVars
  <2>2. \E result \in {"permission", "cancelled"} : Finish(result, Current, CurrentIntent)
    BY <1>1 DEF RestartRefused
  <2> QED
    BY <2>1, <2>2, <1>a, FinishTimers
<1>2. CASE RestartBegin
  <2>1. /\ pc = "restart" /\ pc' = "launch" /\ started' = started + 1
        /\ UNCHANGED <<p, rest, quiet, enabled, accepted, runs>> /\ engine' = StoppedEngine
    BY <1>2 DEF RestartBegin, intentVars
  <2>2. attempt' # NoAttempt /\ attempt'.started /\ p'.inFlight
    <3>1. attempt' = Owned(tok', TRUE) /\ tok' \in Tokens /\ tok'.run # 0
      BY <2>1 DEF IInv, TypeOK, AttemptStage, TokenInUse, Holding
    <3>2. attempt' # NoAttempt /\ attempt'.started
      BY <3>1, OwnedType
    <3> QED
      BY <3>2 DEF IInv, OneAttempt
  <2>3. TimersKept'
    <3>1. Elapsed(p, started + 1, rest, quiet)
      BY <1>b DEF TInv, TimersKept, Elapsed
    <3> QED
      BY <2>1, <2>2, <3>1 DEF TInv, TimersKept
  <2>4. Agreed'
    BY <2>1, <1>b DEF TInv, Agreed, StoppedEngine
  <2> QED
    BY <2>1, <2>2, <2>3, <2>4 DEF TInv, Approved, ProbedInTime, Evidence, Probing
<1>3. CASE RestartFailed
  <2>1. pc = "launch" /\ UNCHANGED <<started, quiet, enabled, accepted, runs, engine>>
    BY <1>3 DEF RestartFailed, intentVars, engineVars
  <2>2. \E result \in {"permission", "cancelled", "failed"} :
          Finish(result, Current, CurrentIntent)
    BY <1>3 DEF RestartFailed
  <2> QED
    BY <2>1, <2>2, <1>a, FinishTimers
<1>4. CASE RestartAccepted
  <2> DEFINE q == PolicyAfterAttempt
  <2>1. /\ pc = "launch" /\ pc' = "sleep" /\ p' = q /\ rest' = 0
        /\ UNCHANGED <<started, quiet, enabled>>
        /\ accepted' = runs + 1 /\ runs' = runs + 1
        /\ engine' = [run |-> runs + 1, state |-> "alive"]
    BY <1>4 DEF RestartAccepted
  <2>2. AttemptOf(tok) /\ attempt.started
    BY <2>1, AttemptCases
  <2>3. q.enabled = p.enabled /\ Elapsed(q, started, 0, quiet) /\ Waited(q, started, 0)
    BY <2>1, <2>2, AfterAttemptElapsed
  <2> HIDE DEF q
  <2>4. attempt' = NoAttempt /\ ~p'.inFlight
    BY <2>1 DEF IInv, OneAttempt
  <2>5. TimersKept' /\ Approved'
    BY <2>1, <2>3, <2>4 DEF TimersKept, Approved
  <2>6. Agreed'
    <3>1. p'.enabled = enabled'
      BY <2>1, <2>3 DEF TInv, Agreed
    <3>2. accepted' <= runs' /\ engine'.run # 0
      BY <2>1, <1>b
    <3> QED
      BY <2>1, <3>1, <3>2 DEF Agreed
  <2> QED
    BY <2>1, <2>5, <2>6 DEF TInv, ProbedInTime, Evidence, Probing
<1> QED
  BY <1>1, <1>2, <1>3, <1>4

\* The first steps of a pass, and what needs no step of the loop
LEMMA PassTimers ==
  ASSUME IInv, IInv', TInv,
         \/ Forget \/ Look \/ ReadPath \/ Capture \/ Decide \/ Tick
         \/ EngineExit \/ EngineGone \/ OsChange
  PROVE  TInv'
<1>a. /\ p \in Policies /\ started \in Nat /\ rest \in Nat /\ quiet \in Nat /\ gen \in Nat
      /\ passGen \in Nat /\ tok \in Tokens
  BY DEF IInv, TypeOK
<1>1. CASE Forget \/ Look \/ Capture
  <2>1. UNCHANGED <<p, attempt, started, rest, quiet, enabled, accepted, runs, epoch, engine>>
    BY <1>1 DEF Forget, Look, Capture, intentVars, engineVars, historyVars
  <2>2. pc' \in {"sleep", "path", "token", "decide"}
    BY <1>1 DEF Forget, Look, Capture, historyVars
  <2> QED
    BY <2>1, <2>2, QuietStep DEF Probing
<1>2. CASE EngineExit \/ EngineGone \/ OsChange
  <2>1. /\ UNCHANGED <<p, attempt, started, rest, quiet, enabled, accepted, runs, epoch>>
        /\ UNCHANGED <<pc, tok, proofGen, evGen>>
    BY <1>2 DEF EngineExit, EngineGone, OsChange, intentVars, loopVars, engineVars, historyVars
  <2>2. engine'.state = "alive" => engine' = engine
    BY <1>2 DEF EngineExit, EngineGone, OsChange, engineVars, IInv, TypeOK, historyVars
  <2> QED
    BY <2>1, <2>2, QuietStep
<1>3. CASE ReadPath
  <2>1. /\ pc = "path" /\ pc' \in {"sleep", "token"}
        /\ UNCHANGED <<attempt, started, rest, enabled, accepted, runs, epoch, engine>>
    BY <1>3 DEF ReadPath, engineVars
  <2>2. \/ UNCHANGED <<p, quiet>>
        \/ EventApplies /\ p' = Event(p, passGen) /\ quiet' = 0
    BY <1>3 DEF ReadPath, AfterEvent
  <2>3. CASE UNCHANGED <<p, quiet>>
    BY <2>1, <2>3, QuietStep DEF Probing
  <2>4. CASE EventApplies /\ p' = Event(p, passGen) /\ quiet' = 0
    <3>1. /\ attempt = NoAttempt /\ ~p.inFlight /\ p.enabled /\ ~p.exhausted
          /\ Waited(p, started, rest)
      BY <2>1, <2>4 DEF IInv, OneAttempt, EventApplies, HasToken, TInv, Agreed, TimersKept, NoAttempt
    <3>2. Elapsed(p', started, rest, 0) /\ Waited(p', started, rest)
      BY <2>4, <3>1, <1>a, EventElapsed
    <3>3. p'.enabled = p.enabled
      BY <2>4, <3>1, <1>a, EventTimers
    <3>4. attempt' = NoAttempt /\ ~p'.inFlight
      BY <2>1 DEF IInv, OneAttempt
    <3>5. TimersKept' /\ Approved'
      BY <2>1, <2>4, <3>2, <3>4 DEF TimersKept, Approved
    <3>6. Agreed'
      BY <2>1, <3>3 DEF TInv, Agreed
    <3> QED
      BY <2>1, <3>5, <3>6 DEF TInv, ProbedInTime, Evidence, Probing
  <2> QED
    BY <2>2, <2>3, <2>4
<1>4. CASE Decide
  <2> DEFINE died == tok.run # lastDead /\ EngineDead(tok.run)
             q == IF died THEN AfterEvent(tok.network) ELSE p
             t == IF died /\ EventApplies THEN 0 ELSE quiet
  <2>1. /\ pc = "decide" /\ pc' \in {"evidence", "sleep"} /\ p' = Consumed(q) /\ quiet' = t
        /\ UNCHANGED <<attempt, started, rest, enabled, accepted, runs, epoch, engine, tok>>
        /\ pc' = "evidence" => NextDecision(q) = "ProbeActive" \/ q.attempts > 0
    BY <1>4 DEF Decide, engineVars
  <2>2. /\ attempt = NoAttempt /\ ~p.inFlight /\ p.attempts = started
        /\ Elapsed(p, started, rest, quiet) /\ Waited(p, started, rest)
    BY <2>1, <1>a DEF IInv, OneAttempt, AttemptsCounted, NoAttempt, TInv, TimersKept
  <2>3. /\ q \in Policies /\ q.attempts = started /\ q.enabled = p.enabled /\ t \in Nat
        /\ Elapsed(q, started, rest, t) /\ Waited(q, started, rest)
    <3>1. CASE died /\ EventApplies
      <4>1. q = Event(p, tok.network) /\ t = 0 /\ tok.network \in Nat
        BY <3>1, <1>a DEF AfterEvent, Tokens
      <4>2. p.enabled /\ ~p.exhausted
        BY <3>1 DEF EventApplies, HasToken, TInv, Agreed
      <4> HIDE DEF q, t, died
      <4>3. q \in Policies /\ q.attempts = p.attempts /\ q.enabled = p.enabled
        BY <4>1, <4>2, <1>a, EventKeeps, EventTimers
      <4>4. Elapsed(q, started, rest, 0) /\ Waited(q, started, rest)
        BY <4>1, <4>2, <2>2, <1>a, EventElapsed
      <4> QED
        BY <4>1, <4>3, <4>4, <2>2
    <3>2. CASE ~(died /\ EventApplies)
      <4>1. q = p /\ t = quiet
        BY <3>2 DEF AfterEvent
      <4> HIDE DEF q, t, died
      <4> QED
        BY <4>1, <2>2, <1>a
    <3> QED
      BY <3>1, <3>2
  <2> HIDE DEF q, t, died
  <2>4. /\ p'.enabled = p.enabled /\ p'.since = q.since /\ p'.floor = q.floor
        /\ p'.due \in {q.due, None}
    BY <2>1, <2>3, ConsumedTimers
  <2>5. TimersKept' /\ Approved'
    <3>1. Elapsed(p', started, rest, t) /\ Waited(p', started, rest)
      BY <2>3, <2>4 DEF Elapsed, Waited
    <3>2. attempt' = NoAttempt /\ ~p'.inFlight
      BY <2>1 DEF IInv, OneAttempt
    <3> QED
      BY <2>1, <3>1, <3>2 DEF TimersKept, Approved
  <2>6. started = 0 /\ pc' = "evidence" => t >= Debounce
    <3> SUFFICES ASSUME started = 0, pc' = "evidence" PROVE t >= Debounce
      OBVIOUS
    <3>1. q.due = 0
      BY <2>1, <2>3, ConsumedTimers
    <3>2. t + 0 >= Debounce
      BY <2>3, <3>1 DEF Elapsed, None
    <3> QED
      BY <3>2, <2>3
  <2>7. ProbedInTime'
    BY <2>1, <2>6 DEF ProbedInTime, Probing
  <2>8. Agreed'
    BY <2>1, <2>4 DEF TInv, Agreed
  <2> QED
    BY <2>1, <2>5, <2>7, <2>8 DEF TInv, Evidence
<1>5. CASE Tick
  <2>1. /\ p' = Age(p) /\ rest' = Longer(rest, Horizon) /\ quiet' = Longer(quiet, Horizon)
        /\ UNCHANGED <<attempt, started, enabled, accepted, runs, epoch, engine>>
        /\ UNCHANGED <<pc, tok, proofGen, evGen>>
    BY <1>5 DEF Tick, intentVars, loopVars, engineVars
  <2>2. /\ p'.enabled = p.enabled /\ p'.exhausted = p.exhausted
        /\ p'.inFlight = p.inFlight /\ p'.floor = Down(p.floor)
        /\ p.since = None => p'.since = None
    BY <2>1, <1>a, AgeTimers, AgeKeeps
  <2>3. TimersKept'
    <3>1. Elapsed(p', started', rest', quiet')
      BY <2>1, <1>a, AgeElapsed DEF TInv, TimersKept
    <3>2. ~attempt'.started => Waited(p', started', rest')
      BY <2>1, <1>a, AgeElapsed DEF TInv, TimersKept
    <3> QED
      BY <2>2, <3>1, <3>2 DEF TInv, TimersKept
  <2>4. Approved'
    BY <2>1, <2>2 DEF TInv, Approved, Down
  <2>5. quiet' >= quiet
    BY <2>1, <1>a DEF Longer
  <2>6. ProbedInTime'
    <3>1. quiet' \in Nat /\ Debounce \in Nat
      BY TimeAssumption DEF IInv, TypeOK
    <3> QED
      BY <2>1, <2>5, <3>1, <1>a DEF TInv, ProbedInTime
  <2>7. Evidence' /\ Agreed'
    BY <2>1, <2>2 DEF TInv, Evidence, Agreed
  <2> QED
    BY <2>3, <2>4, <2>6, <2>7 DEF TInv
<1> QED
  BY <1>1, <1>2, <1>3, <1>4, <1>5

\* A command voids the token of the pass and cancels what is due.
LEMMA UserTimers ==
  ASSUME IInv, IInv', TInv, UserStep
  PROVE  TInv'
<1>a. /\ p \in Policies /\ started \in Nat /\ rest \in Nat /\ quiet \in Nat /\ gen \in Nat
      /\ runs \in Nat /\ epoch \in Nat /\ tok \in Tokens /\ enabled \in BOOLEAN
  BY DEF IInv, TypeOK
<1>b. epoch' = epoch + 1 /\ UNCHANGED <<pc, tok>> =>
        (pc' \in Probing \cup {"restart"} => tok'.epoch # epoch')
  BY <1>a DEF IInv, TokenInUse, Probing, Holding, Tokens
<1>1. CASE ManualBegin \/ Stop \/ TargetChanged
  <2>1. /\ p' = CancelWork(p) /\ epoch' = epoch + 1
        /\ UNCHANGED <<attempt, started, rest, quiet, enabled, runs, pc, tok, proofGen, evGen>>
        /\ accepted' \in {accepted, 0} /\ engine' \in {engine, StoppedEngine}
    BY <1>1 DEF ManualBegin, Stop, TargetChanged, Invalidate, loopVars, engineVars, historyVars
  <2>2. /\ p'.enabled = p.enabled /\ p'.exhausted = p.exhausted /\ p'.floor = p.floor
        /\ p'.due = None /\ p'.since = None
    BY <2>1, <1>a, CancelTimers
  <2>3. TimersKept'
    BY <2>1, <2>2 DEF TInv, TimersKept, Elapsed, Waited
  <2>4. Approved'
    BY <2>1, <2>2 DEF TInv, Approved
  <2>5. ProbedInTime'
    BY <2>1, <1>b DEF ProbedInTime
  <2>6. Evidence'
    BY <2>1, <1>b DEF TInv, Evidence
  <2>7. Agreed'
    <3>1. accepted' <= runs'
      BY <2>1, <1>a DEF TInv, Agreed
    <3>2. engine'.state = "alive" => engine'.run # 0
      BY <2>1 DEF TInv, Agreed, StoppedEngine
    <3> QED
      BY <2>1, <2>2, <3>1, <3>2 DEF TInv, Agreed
  <2> QED
    BY <2>3, <2>4, <2>5, <2>6, <2>7 DEF TInv
<1>2. CASE ManualReject
  <2>1. /\ UNCHANGED <<p, attempt, started, rest, quiet, enabled, accepted, runs, epoch>>
        /\ UNCHANGED <<pc, tok, proofGen, evGen>>
        /\ engine'.state = "alive" => engine' = engine
    BY <1>2 DEF ManualReject, StoppedEngine, loopVars, boundVars, historyVars
  <2> QED
    BY <2>1, QuietStep
<1>3. CASE ManualAccept
  <2>1. /\ p' = [DefaultPolicy EXCEPT !.enabled = enabled] /\ attempt' = NoAttempt
        /\ epoch' = epoch + 1 /\ started' = 0 /\ pc # "launch"
        /\ UNCHANGED <<rest, quiet, enabled, pc, tok, proofGen, evGen>>
        /\ runs' = runs + 1 /\ accepted' = runs + 1
        /\ engine' = [run |-> runs + 1, state |-> "alive"]
    BY <1>3 DEF ManualAccept, loopVars
  <2>2. /\ p'.enabled = enabled /\ p'.due = None /\ p'.since = None
    BY <2>1 DEF DefaultPolicy
  <2>3. TimersKept' /\ Approved'
    BY <2>1, <2>2 DEF TimersKept, Elapsed, Waited, Approved
  <2>4. ProbedInTime'
    BY <2>1, <1>b DEF ProbedInTime
  <2>5. Evidence'
    BY <2>1, <1>b DEF TInv, Evidence
  <2>6. Agreed'
    BY <2>1, <2>2, <1>a DEF Agreed
  <2> QED
    BY <2>3, <2>4, <2>5, <2>6 DEF TInv
<1>4. CASE SetEnabled
  <2> DEFINE set == [p EXCEPT !.enabled = ~enabled]
             q == CancelWork(set)
             applies == ~enabled /\ ~manual /\ accepted # 0 /\ ~q.exhausted
  <2>1. /\ p' = IF applies THEN Event(q, gen) ELSE q
        /\ quiet' = IF applies THEN 0 ELSE quiet
        /\ enabled' = ~enabled /\ epoch' = epoch + 1
        /\ UNCHANGED <<attempt, started, rest, accepted, runs, engine, pc, tok, proofGen, evGen>>
    BY <1>4 DEF SetEnabled, loopVars, engineVars
  <2>2. /\ set \in Policies /\ set.enabled = ~enabled /\ set.exhausted = p.exhausted
        /\ set.floor = p.floor /\ set.inFlight = p.inFlight
    BY <1>a DEF Policies
  <2> HIDE DEF set
  <2>3. /\ q \in Policies /\ q.enabled = set.enabled /\ q.exhausted = set.exhausted
        /\ q.floor = set.floor /\ q.inFlight = set.inFlight /\ q.due = None /\ q.since = None
    BY <2>2, CancelKeeps, CancelTimers
  <2> HIDE DEF q
  <2>4. Elapsed(q, started, rest, quiet) /\ (~attempt.started => Waited(q, started, rest))
    BY <2>2, <2>3 DEF TInv, TimersKept, Elapsed, Waited
  <2>5. Approved /\ Approved'
    <3>1. ASSUME applies
          PROVE  /\ Event(q, gen).exhausted = q.exhausted
                 /\ q.floor # None => Event(q, gen).floor = q.floor
      <4>1. q.enabled /\ ~q.exhausted
        BY <3>1, <2>2, <2>3
      <4> QED
        BY <4>1, <2>3, <1>a, EventTimers
    <3> HIDE DEF applies
    <3> QED
      BY <2>1, <2>2, <2>3, <3>1 DEF TInv, Approved, None
  <2>6. CASE ~applies
    <3>1. p' = q /\ quiet' = quiet
      BY <2>1, <2>6
    <3>2. TimersKept'
      BY <2>1, <2>3, <2>4, <3>1 DEF TimersKept
    <3>3. p'.enabled = enabled'
      BY <2>1, <2>2, <2>3, <3>1
    <3> QED
      BY <2>1, <2>5, <3>2, <3>3, <1>b DEF TInv, ProbedInTime, Evidence, Agreed
  <2>7. CASE applies
    <3>1. p' = Event(q, gen) /\ quiet' = 0 /\ q.enabled /\ ~q.exhausted
      BY <2>1, <2>2, <2>3, <2>7
    <3>2. p'.enabled = q.enabled /\ p'.since = None
      BY <2>3, <3>1, <1>a, EventTimers
    <3>3. Elapsed(p', started', rest', quiet')
      BY <2>1, <2>3, <3>1, <1>a, EventElapsed, EventTimers DEF Elapsed
    <3>4. ~attempt.started => Waited(p', started, rest)
      BY <2>3, <2>4, <3>1, <1>a, EventElapsed
    <3>5. TimersKept'
      BY <2>1, <3>2, <3>3, <3>4 DEF TimersKept
    <3>6. p'.enabled = enabled'
      BY <2>1, <2>2, <2>3, <3>2
    <3> QED
      BY <2>1, <2>5, <3>5, <3>6, <1>b DEF TInv, ProbedInTime, Evidence, Agreed
  <2> QED
    BY <2>6, <2>7
<1> QED
  BY <1>1, <1>2, <1>3, <1>4 DEF UserStep

\* A coordinator that has just been made has nothing due and no attempt.
LEMMA InitTimers == Init => TInv
<1> SUFFICES ASSUME Init PROVE TInv
  OBVIOUS
<1>1. /\ p = [DefaultPolicy EXCEPT !.enabled = enabled] /\ attempt = NoAttempt /\ started = 0
      /\ pc = "sleep" /\ accepted = 0 /\ runs = 0 /\ engine = StoppedEngine
  BY DEF Init
<1>2. p.enabled = enabled /\ p.due = None /\ p.since = None
  BY <1>1 DEF DefaultPolicy
<1> QED
  BY <1>1, <1>2
  DEF TInv, TimersKept, Elapsed, Waited, Approved, ProbedInTime, Evidence, Agreed, Probing,
      StoppedEngine

\* Every step keeps the timers tied to the history.
LEMMA StepTimers == IInv /\ IInv' /\ TInv /\ [Next]_vars => TInv'
<1> SUFFICES ASSUME IInv, IInv', TInv, [Next]_vars PROVE TInv'
  OBVIOUS
<1>1. CASE UNCHANGED vars
  <2>1. /\ UNCHANGED <<p, attempt, started, rest, quiet, enabled, accepted, runs, epoch, engine>>
        /\ UNCHANGED <<pc, tok, proofGen, evGen>>
    BY <1>1 DEF vars, intentVars, loopVars, engineVars, historyVars
  <2> QED
    BY <2>1, QuietStep
<1>2. CASE \/ Forget \/ Look \/ ReadPath \/ Capture \/ Decide \/ Tick
           \/ EngineExit \/ EngineGone \/ OsChange
  BY <1>2, PassTimers
<1>3. CASE \/ EvidenceBegin \/ EvidenceNetwork \/ EvidenceEngine \/ EvidenceProbe
           \/ EvidenceCandidate
  BY <1>3, EvidenceTimers
<1>4. CASE RestartRefused \/ RestartBegin \/ RestartFailed \/ RestartAccepted
  BY <1>4, LaunchTimers
<1>5. CASE UserStep
  BY <1>5, UserTimers
<1> QED
  BY <1>1, <1>2, <1>3, <1>4, <1>5 DEF Next, LoopStep

\* The timers of the policy and the history agree in every state.
THEOREM TimersAgree == Spec => [](IInv /\ TInv)
<1>1. IInv /\ TInv /\ [Next]_vars => (IInv /\ TInv)'
  BY StepInvariant, StepTimers
<1> QED
  BY <1>1, InitInvariant, InitTimers, PTL DEF Spec

-----------------------------------------------------------------------------
(* What the history of the evidence shows.                                 *)

\* The stable time has no failure and no inconclusive evidence in it.
Calm == p.since # None => calm >= p.since

\* What the probes of this pass have shown of the token's run, so far
Shown(failed, candidate) ==
  [run |-> tok.run, gen |-> evGen, failed |-> failed, candidate |-> candidate]

\* A pass goes on only by failed probes of the token's run, then a candidate;
\* what it needs none for is the replacement of an engine that does not run.
Licence ==
  /\ pc \in {"discover", "engine"} \/ (pc = "probe" /\ probes = 0) => proof = NoProof
  /\ pc = "probe" /\ probes = 1 => proof = Shown(1, FALSE)
  /\ pc = "candidate" => proof = Shown(2, FALSE)
  /\ pc = "restart" /\ tok.epoch = epoch /\ engine.state = "alive" => proof = Shown(2, TRUE)

\* While there is an accepted run, no other has an engine.
RunAgreed == accepted # 0 /\ engine.run # 0 => engine.run = accepted

HInv == Calm /\ Licence /\ RunAgreed

\* A current token: the policy is switched on, and names the accepted run.
LEMMA CurrentToken ==
  ASSUME TInv, Current
  PROVE  p.enabled /\ tok.run = accepted /\ accepted # 0 /\ tok.epoch = epoch
BY DEF TInv, Agreed, Current, CurrentIntent, HasToken, Token

\* An event ends the stable time.
LEMMA AfterEventSince ==
  ASSUME IInv, TInv, NEW n \in Nat
  PROVE  AfterEvent(n).since \in {p.since, None}
<1>1. p \in Policies
  BY DEF IInv, TypeOK
<1>2. CASE EventApplies
  <2>1. p.enabled /\ ~p.exhausted
    BY <1>2 DEF EventApplies, HasToken, TInv, Agreed
  <2> QED
    BY <1>1, <1>2, <2>1, EventTimers DEF AfterEvent
<1>3. CASE ~EventApplies
  BY <1>3 DEF AfterEvent
<1> QED
  BY <1>2, <1>3

\* The end of evidence(): whatever is not health ends the stable time.
LEMMA ConcludeCalm ==
  ASSUME IInv, TInv, Calm, NEW q \in Policies, q.enabled = p.enabled, q.since \in {p.since, None},
         NEW e \in Evidences, NEW why, Conclude(q, e, why)
  PROVE  Calm'
<1>1. TimersFollow(q, e, Observe(q, e)) /\ calm \in Nat /\ p \in Policies
  BY ObserveTimers DEF IInv, TypeOK
<1>2. CASE ~Current
  BY <1>2 DEF Conclude, Calm
<1>3. CASE Current /\ e = "Healthy"
  <2>1. p' = Observe(q, e).policy /\ calm' = calm
    BY <1>3 DEF Conclude
  <2>2. p'.since \in {p.since, None, 0}
    BY <2>1, <1>1 DEF TimersFollow
  <2> QED
    BY <2>1, <2>2, <1>1 DEF Calm
<1>4. CASE Current /\ e # "Healthy"
  <2>1. p' = Observe(q, e).policy
    BY <1>4 DEF Conclude
  <2>2. p'.since = None
    BY <2>1, <1>1, <1>4, CurrentToken DEF TimersFollow
  <2> QED
    BY <2>2 DEF Calm
<1> QED
  BY <1>2, <1>3, <1>4

\* The end of a launch: so does a launch that came to nothing.
LEMMA FinishCalm ==
  ASSUME IInv, TInv, Calm, pc \in {"restart", "launch"},
         NEW result \in {"permission", "cancelled", "failed"},
         Finish(result, Current, CurrentIntent)
  PROVE  Calm'
<1> DEFINE q == PolicyAfterAttempt
<1>1. p \in Policies /\ calm \in Nat /\ q \in Policies
  BY AfterAttemptPolicy DEF IInv, TypeOK
<1>2. q.enabled = p.enabled
  BY AfterAttemptElapsed
<1>3. q.since = p.since
  <2>1. CASE pc = "launch"
    BY <2>1, <1>1, AttemptCases, FinishedTimers
  <2>2. CASE pc = "restart"
    BY <2>2, <1>1, AttemptCases, AbandonTimers
  <2> QED
    BY <2>1, <2>2
<1>4. CurrentIntent => p.enabled
  BY DEF TInv, Agreed, CurrentIntent, HasToken
<1>5. Current => CurrentIntent
  BY DEF Current
<1>6. \A e \in {"Authentication", "Unavailable", "DeadEngine"} :
        q.enabled => Observe(q, e).policy.since = None
  BY <1>1, ObserveTimers DEF TimersFollow, Evidences
<1>7. \/ p' = q /\ calm' = calm
      \/ CurrentIntent /\ \E e \in {"Authentication", "Unavailable", "DeadEngine"} :
                             p' = Observe(q, e).policy
  <2>1. CASE result = "permission"
    BY <2>1 DEF Finish, q
  <2>2. CASE result = "cancelled"
    BY <2>2, <1>5 DEF Finish, q
  <2>3. CASE result = "failed"
    BY <2>3, <1>5 DEF Finish, q
  <2> QED
    BY <2>1, <2>2, <2>3
<1> HIDE DEF q
<1> QED
  BY <1>2, <1>3, <1>4, <1>6, <1>7 DEF Calm

\* Every step keeps the stable time free of failures.
LEMMA CalmSteps ==
  ASSUME IInv, TInv, Calm, Next
  PROVE  Calm'
<1>a. /\ p \in Policies /\ calm \in Nat /\ tok \in Tokens /\ passGen \in Nat /\ gen \in Nat
      /\ enabled \in BOOLEAN /\ p.attempts <= Len(Retry) /\ tok.network \in Nat
  BY DEF IInv, TypeOK, WithinBudget, Tokens
<1>b. ASSUME UNCHANGED calm, p'.since \in {p.since, None}
      PROVE  Calm'
  BY <1>b DEF Calm
<1>c. \A e \in Evidences, why \in Issues \cup {Kept} : Conclude(p, e, why) => Calm'
  BY <1>a, ConcludeCalm
<1>d. {"network_unavailable", "unsupported_probe", Kept} \subseteq Issues \cup {Kept}
  BY DEF Issues
<1>1. CASE \/ Forget \/ Look \/ Capture \/ EngineExit \/ EngineGone \/ OsChange \/ ManualReject
           \/ RestartBegin
  BY <1>1, <1>b
  DEF Forget, Look, Capture, EngineExit, EngineGone, OsChange, ManualReject, RestartBegin, historyVars
<1>2. CASE ReadPath
  <2>1. UNCHANGED calm /\ (p' = p \/ p' = AfterEvent(passGen))
    BY <1>2 DEF ReadPath
  <2> QED
    BY <2>1, <1>a, <1>b, AfterEventSince
<1>3. CASE Decide
  <2> DEFINE q == IF tok.run # lastDead /\ EngineDead(tok.run) THEN AfterEvent(tok.network) ELSE p
  <2>1. UNCHANGED calm /\ p' = Consumed(q)
    BY <1>3 DEF Decide
  <2>2. q \in Policies /\ q.since \in {p.since, None}
    BY <1>a, AfterEventSince, AfterEventKeeps, Split
  <2> HIDE DEF q
  <2> QED
    BY <2>1, <2>2, <1>b, ConsumedTimers
<1>4. CASE Tick
  <2>1. p' = Age(p) /\ calm' = Longer(calm, Horizon)
    BY <1>4 DEF Tick
  <2>2. /\ Stable \in Nat /\ Horizon \in Nat /\ Stable <= Horizon
    BY TimeAssumption, RecoveryAssumption
  <2>3. SUFFICES ASSUME p'.since # None PROVE calm' >= p'.since
    BY DEF Calm
  <2>4. p.since \in Nat /\ p'.since = (IF p.since >= Stable THEN p.since ELSE p.since + 1)
    BY <2>1, <2>3, <1>a, AgeTimers DEF Policies
  <2>5. calm >= p.since
    BY <2>4 DEF Calm, None
  <2> QED
    BY <2>1, <2>2, <2>4, <2>5, <1>a DEF Longer
<1>5. CASE ManualBegin \/ Stop \/ TargetChanged
  <2>1. p' = CancelWork(p)
    BY <1>5 DEF ManualBegin, Stop, TargetChanged, Invalidate
  <2> QED
    BY <2>1, <1>a, CancelTimers DEF Calm
<1>6. CASE ManualAccept
  BY <1>6 DEF ManualAccept, DefaultPolicy, Calm
<1>7. CASE SetEnabled
  <2> DEFINE set == [p EXCEPT !.enabled = ~enabled]
             q == CancelWork(set)
             applies == ~enabled /\ ~manual /\ accepted # 0 /\ ~q.exhausted
  <2>1. p' = IF applies THEN Event(q, gen) ELSE q
    BY <1>7 DEF SetEnabled
  <2>2. set \in Policies /\ set.enabled = ~enabled
    BY <1>a DEF Policies
  <2> HIDE DEF set
  <2>3. q \in Policies /\ q.enabled = ~enabled /\ q.since = None
    BY <2>2, CancelKeeps, CancelTimers
  <2> HIDE DEF q
  <2>4. applies => Event(q, gen).since = None
    BY <2>3, <1>a, EventTimers
  <2> HIDE DEF applies
  <2> QED
    BY <2>1, <2>3, <2>4 DEF Calm
<1>8. CASE EvidenceBegin
  BY <1>8, <1>b, <1>c, <1>d DEF EvidenceBegin, Inconclusive, Evidences
<1>9. CASE EvidenceNetwork
  BY <1>9, <1>b, <1>c, <1>d DEF EvidenceNetwork, Inconclusive, Evidences
<1>10. CASE EvidenceEngine
  BY <1>10, <1>b, <1>c, <1>d DEF EvidenceEngine, Inconclusive, Evidences
<1>11. CASE EvidenceProbe
  <2> DEFINE failed == Observe(p, "ActiveFailure")
  <2>1. failed.policy \in Policies /\ TimersFollow(p, "ActiveFailure", failed)
    BY <1>a, ObserveKeeps, ObserveTimers DEF MayFollow, Evidences
  <2>2. failed.policy.enabled = p.enabled /\ failed.policy.since \in {p.since, None}
    BY <2>1 DEF TimersFollow
  <2> HIDE DEF failed
  <2>3. \/ \E e \in Evidences, why \in Issues \cup {Kept} : Conclude(p, e, why)
        \/ Conclude(failed.policy, "Unavailable", Kept)
        \/ Current /\ p' = failed.policy
    BY <1>11, <1>d DEF EvidenceProbe, Inconclusive, Void, failed, Evidences
  <2>4. CASE Conclude(failed.policy, "Unavailable", Kept)
    BY <2>1, <2>2, <2>4, ConcludeCalm DEF Evidences
  <2>5. CASE Current /\ p' = failed.policy
    BY <2>1, <2>5, CurrentToken DEF TimersFollow, Calm
  <2> QED
    BY <2>3, <2>4, <2>5, <1>c
<1>12. CASE EvidenceCandidate
  BY <1>12, <1>c, <1>d DEF EvidenceCandidate, Inconclusive, Evidences
<1>13. CASE RestartRefused \/ RestartFailed
  BY <1>13, FinishCalm DEF RestartRefused, RestartFailed
<1>14. CASE RestartAccepted
  <2>1. pc = "launch" /\ UNCHANGED calm /\ p' = AttemptFinished(p) /\ p.inFlight
    BY <1>14, AttemptCases DEF RestartAccepted
  <2> QED
    BY <2>1, <1>a, <1>b, FinishedTimers
<1> QED
  BY <1>1, <1>2, <1>3, <1>4, <1>5, <1>6, <1>7, <1>8, <1>9, <1>10, <1>11, <1>12, <1>13, <1>14
  DEF Next, LoopStep, UserStep

\* Evidence that ends with an approval is of a dead engine or of a candidate.
LEMMA ConcludeApproves ==
  ASSUME IInv, NEW q \in Policies, q.attempts = p.attempts, NEW e \in Evidences, NEW why,
         Conclude(q, e, why)
  PROVE  \/ pc' = "sleep"
         \/ pc' = "restart" /\ Current /\ e \in {"DeadEngine", "CandidateHealthy"}
<1>1. MayFollow(q, e, Observe(q, e))
  BY ObserveKeeps DEF IInv, WithinBudget
<1> QED
  BY <1>1 DEF Conclude, MayFollow

\* A step of the loop that is not part of the evidence leaves no approval.
LEMMA LicenceOver ==
  ASSUME pc' \in {"sleep", "path", "token", "decide", "evidence", "launch"}
  PROVE  Licence'
BY DEF Licence

\* The steps of the evidence count what the probes showed of the token's run.
LEMMA EvidenceLicence ==
  ASSUME IInv, TInv, Licence,
         \/ EvidenceBegin \/ EvidenceNetwork \/ EvidenceEngine \/ EvidenceProbe
         \/ EvidenceCandidate
  PROVE  Licence'
<1>a. p \in Policies /\ tok \in Tokens
  BY DEF IInv, TypeOK
<1>b. \A e \in Evidences \ {"DeadEngine", "CandidateHealthy"}, why \in Issues \cup {Kept} :
        Conclude(p, e, why) => Licence'
  BY <1>a, ConcludeApproves, LicenceOver
<1>c. {"network_unavailable", "unsupported_probe", Kept} \subseteq Issues \cup {Kept}
  BY DEF Issues
<1>d. {"Unavailable", "Healthy", "Authentication"} \subseteq Evidences \ {"DeadEngine", "CandidateHealthy"}
  BY DEF Evidences
<1>1. CASE EvidenceBegin
  <2>1. CASE pc' = "discover"
    BY <1>1, <2>1 DEF EvidenceBegin, Licence
  <2> QED
    BY <1>1, <2>1, <1>b, <1>c, <1>d DEF EvidenceBegin, Inconclusive
<1>2. CASE EvidenceNetwork
  <2>1. CASE pc' = "engine"
    BY <1>2, <2>1 DEF EvidenceNetwork, Licence
  <2> QED
    BY <1>2, <2>1, <1>b, <1>c, <1>d DEF EvidenceNetwork, Inconclusive
<1>3. CASE EvidenceEngine
  <2>1. pc = "engine" /\ UNCHANGED <<tok, evGen, engine, epoch>>
    BY <1>3 DEF EvidenceEngine, engineVars, intentVars
  <2>2. CASE pc' = "probe" /\ probes' = 0
    BY <1>3, <2>1, <2>2 DEF EvidenceEngine, Licence
  <2>3. CASE /\ EngineDead(tok.run) \/ (deadProven = tok.run /\ ActiveRun = 0)
             /\ Conclude(p, "DeadEngine", Kept)
    <3>1. engine'.state # "alive"
      BY <2>1, <2>3 DEF EngineDead, ActiveRun, TInv, Agreed
    <3>2. pc' \in {"sleep", "restart"}
      BY <2>3 DEF Conclude
    <3> QED
      BY <3>1, <3>2 DEF Licence
  <2> QED
    BY <1>3, <2>2, <2>3, <1>b, <1>c, <1>d DEF EvidenceEngine, Inconclusive
<1>4. CASE EvidenceProbe
  <2> DEFINE failed == Observe(p, "ActiveFailure")
  <2>1. pc = "probe" /\ probes \in {0, 1} /\ tok.run # 0 /\ UNCHANGED <<tok, evGen>>
    BY <1>4 DEF EvidenceProbe, IInv, TypeOK, TokenInUse, Holding
  <2>2. failed.policy \in Policies /\ failed.policy.attempts = p.attempts
    BY <1>a, ObserveKeeps DEF MayFollow, Evidences, IInv, WithinBudget
  <2> HIDE DEF failed
  <2>3. CASE Conclude(failed.policy, "Unavailable", Kept)
    BY <2>2, <2>3, <1>d, ConcludeApproves, LicenceOver
  <2>4. CASE \E e \in {"Unavailable", "Healthy", "Authentication"}, why \in Issues \cup {Kept} :
               Conclude(p, e, why)
    BY <2>4, <1>b, <1>d
  <2>5. CASE ~Void /\ probes = 0 /\ probes' = 1 /\ UNCHANGED pc /\ proof' = ProbeFailed
    <3>1. proof = NoProof /\ ActiveRun = tok.run /\ gen = evGen
      BY <2>1, <2>5 DEF Licence, Void
    <3>2. ProbeFailed = Shown(1, FALSE)
      BY <2>1, <3>1 DEF ProbeFailed, NoProof, Shown
    <3> QED
      BY <2>1, <2>5, <3>2 DEF Licence, Shown
  <2>6. CASE ~Void /\ probes = 1 /\ pc' = "candidate" /\ proof' = ProbeFailed
    <3>1. proof = Shown(1, FALSE) /\ ActiveRun = tok.run /\ gen = evGen
      BY <2>1, <2>6 DEF Licence, Void
    <3>2. ProbeFailed = Shown(2, FALSE)
      BY <2>1, <3>1 DEF ProbeFailed, Shown
    <3> QED
      BY <2>1, <2>6, <3>2 DEF Licence, Shown
  <2> QED
    BY <1>4, <1>c, <2>1, <2>3, <2>4, <2>5, <2>6 DEF EvidenceProbe, Inconclusive, failed
<1>5. CASE EvidenceCandidate
  <2>1. pc = "candidate" /\ UNCHANGED <<tok, evGen>> /\ proof = Shown(2, FALSE)
    BY <1>5 DEF EvidenceCandidate, loopVars, Licence
  <2>2. CASE Conclude(p, "CandidateHealthy", Kept) /\ ~Void /\ pc' = "restart" /\ proof' = CandidatePassed
    <3>1. tok.run = accepted /\ gen = evGen
      BY <2>2, CurrentToken DEF Void
    <3>2. proof.run = accepted /\ proof.gen = gen
      BY <2>1, <3>1 DEF Shown
    <3>3. CandidatePassed = [proof EXCEPT !.candidate = TRUE]
      BY <3>2 DEF CandidatePassed
    <3>4. CandidatePassed = Shown(2, TRUE)
      BY <2>1, <3>3 DEF Shown
    <3> QED
      BY <2>1, <2>2, <3>4 DEF Licence, Shown
  <2>3. CASE Conclude(p, "CandidateHealthy", Kept) /\ pc' # "restart"
    BY <2>3, LicenceOver DEF Conclude
  <2> QED
    BY <1>5, <2>2, <2>3, <1>b, <1>c, <1>d DEF EvidenceCandidate, Inconclusive
<1> QED
  BY <1>1, <1>2, <1>3, <1>4, <1>5

\* Every other step voids the token, ends the pass or touches none of it.
LEMMA LicenceSteps ==
  ASSUME IInv, TInv, Licence, Next
  PROVE  Licence'
<1>a. epoch \in Nat /\ tok \in Tokens /\ (pc \in Holding => tok.epoch <= epoch)
  BY DEF IInv, TypeOK, TokenInUse
<1>b. ASSUME UNCHANGED <<pc, tok, evGen, probes, proof>>,
             \/ epoch' = epoch + 1
             \/ epoch' = epoch /\ (engine'.state = "alive" => engine.state = "alive")
      PROVE  Licence'
  <2>1. pc' = "restart" /\ tok'.epoch = epoch' /\ engine'.state = "alive" =>
          tok.epoch = epoch /\ engine.state = "alive"
    BY <1>a, <1>b DEF Holding, Tokens
  <2>2. Shown(1, FALSE)' = Shown(1, FALSE) /\ Shown(2, FALSE)' = Shown(2, FALSE)
        /\ Shown(2, TRUE)' = Shown(2, TRUE)
    BY <1>b DEF Shown
  <2> QED
    BY <1>b, <2>1, <2>2 DEF Licence
<1>1. CASE Forget \/ Look \/ ReadPath \/ Capture \/ Decide
  BY <1>1, LicenceOver DEF Forget, Look, ReadPath, Capture, Decide
<1>2. CASE RestartRefused \/ RestartBegin \/ RestartFailed \/ RestartAccepted
  BY <1>2, LicenceOver DEF RestartRefused, RestartBegin, RestartFailed, RestartAccepted, Finish
<1>3. CASE EngineExit \/ EngineGone \/ OsChange \/ Tick
  BY <1>3, <1>b
  DEF EngineExit, EngineGone, OsChange, Tick, intentVars, loopVars, engineVars, historyVars, IInv, TypeOK
<1>4. CASE ManualReject
  BY <1>4, <1>b DEF ManualReject, StoppedEngine, loopVars, historyVars
<1>5. CASE ManualBegin \/ ManualAccept \/ Stop \/ TargetChanged \/ SetEnabled
  BY <1>5, <1>b
  DEF ManualBegin, ManualAccept, Stop, TargetChanged, SetEnabled, Invalidate, loopVars, historyVars
<1> QED
  BY <1>1, <1>2, <1>3, <1>4, <1>5, EvidenceLicence DEF Next, LoopStep, UserStep

\* Engines and accepted runs are replaced together.
LEMMA RunSteps ==
  ASSUME IInv, RunAgreed, Next
  PROVE  RunAgreed'
<1>1. CASE UserStep
  BY <1>1
  DEF RunAgreed, UserStep, ManualBegin, ManualReject, ManualAccept, Stop, TargetChanged, SetEnabled,
      StoppedEngine, engineVars
<1>2. CASE EngineExit \/ EngineGone
  BY <1>2 DEF RunAgreed, EngineExit, EngineGone, intentVars, IInv, TypeOK
<1>3. CASE OsChange \/ Tick \/ Forget \/ Look \/ ReadPath \/ Capture \/ Decide
  BY <1>3 DEF RunAgreed, OsChange, Tick, Forget, Look, ReadPath, Capture, Decide, intentVars, engineVars
<1>4. CASE \/ EvidenceBegin \/ EvidenceNetwork \/ EvidenceEngine \/ EvidenceProbe
           \/ EvidenceCandidate
  BY <1>4
  DEF RunAgreed, EvidenceBegin, EvidenceNetwork, EvidenceEngine, EvidenceProbe, EvidenceCandidate,
      intentVars, engineVars
<1>5. CASE RestartRefused \/ RestartFailed
  <2>1. UNCHANGED <<accepted, engine>>
    BY <1>5 DEF RestartRefused, RestartFailed, intentVars, engineVars
  <2> QED
    BY <2>1 DEF RunAgreed
<1>6. CASE RestartBegin
  BY <1>6 DEF RunAgreed, RestartBegin, StoppedEngine
<1>7. CASE RestartAccepted
  BY <1>7 DEF RunAgreed, RestartAccepted
<1> QED
  BY <1>1, <1>2, <1>3, <1>4, <1>5, <1>6, <1>7 DEF Next, LoopStep

\* What the history shows of the policy and of the pass holds in every state.
THEOREM HistoryAgrees == Spec => [](IInv /\ TInv /\ HInv)
<1>1. Init => HInv
  <2> SUFFICES ASSUME Init PROVE HInv
    OBVIOUS
  <2>1. p.since = None /\ pc = "sleep" /\ accepted = 0
    BY DEF Init, DefaultPolicy
  <2> QED
    BY <2>1 DEF HInv, Calm, Licence, RunAgreed
<1>2. IInv /\ TInv /\ HInv /\ [Next]_vars => HInv'
  <2>1. CASE UNCHANGED vars
    BY <2>1 DEF HInv, Calm, Licence, Shown, RunAgreed, vars, intentVars, loopVars, engineVars, historyVars
  <2> QED
    BY <2>1, CalmSteps, LicenceSteps, RunSteps DEF HInv
<1> QED
  BY <1>1, <1>2, InitInvariant, InitTimers, StepInvariant, StepTimers, PTL DEF Spec

\* A launch is counted in one step only, with a current token, for an approved
\* attempt whose delay has passed.
LEMMA LaunchIsRestart ==
  ASSUME IInv, Next, started' > started
  PROVE  /\ RestartBegin /\ started' = started + 1 /\ started < Len(Retry)
         /\ tok.epoch = epoch /\ attempt # NoAttempt /\ ~attempt.started
<1>1. started \in Nat
  BY DEF IInv, TypeOK
<1>2. RestartBegin
  <2>1. CASE UserStep
    BY <2>1, <1>1
    DEF UserStep, ManualBegin, ManualReject, ManualAccept, Stop, TargetChanged, SetEnabled, historyVars
  <2>2. CASE EngineExit \/ EngineGone \/ OsChange \/ Tick
    BY <2>2, <1>1 DEF EngineExit, EngineGone, OsChange, Tick, historyVars
  <2>3. CASE Forget \/ Look \/ ReadPath \/ Capture \/ Decide
    BY <2>3, <1>1 DEF Forget, Look, ReadPath, Capture, Decide, historyVars
  <2>4. ASSUME NEW q, NEW e, NEW why, Conclude(q, e, why)
        PROVE  FALSE
    <3>1. started' \in {0, started}
      BY <2>4 DEF Conclude
    <3> QED
      BY <3>1, <1>1
  <2>5. CASE EvidenceBegin \/ EvidenceNetwork \/ EvidenceEngine
    BY <2>4, <2>5, <1>1 DEF EvidenceBegin, EvidenceNetwork, EvidenceEngine, Inconclusive
  <2>6. CASE EvidenceProbe \/ EvidenceCandidate
    BY <2>4, <2>6, <1>1 DEF EvidenceProbe, EvidenceCandidate, Inconclusive
  <2>7. CASE RestartRefused \/ RestartFailed \/ RestartAccepted
    BY <2>7, <1>1 DEF RestartRefused, RestartFailed, RestartAccepted
  <2> QED
    BY <2>1, <2>2, <2>3, <2>5, <2>6, <2>7 DEF Next, LoopStep
<1>3. pc = "restart" /\ tok.epoch = epoch /\ started' = started + 1
  BY <1>2 DEF RestartBegin, Current, CurrentIntent, Token
<1>4. attempt = Owned(tok, FALSE) /\ tok \in Tokens /\ tok.run # 0
  BY <1>3 DEF IInv, TypeOK, AttemptStage, TokenInUse, Holding
<1>5. attempt # NoAttempt /\ ~attempt.started
  BY <1>4, OwnedType
<1>6. p.attempts = started + 1
  BY <1>5 DEF IInv, AttemptsCounted
<1>7. Len(Retry) \in Nat /\ started + 1 <= Len(Retry)
  BY <1>6, TimeAssumption DEF IInv, WithinBudget
<1> QED
  BY <1>1, <1>2, <1>3, <1>5, <1>7

\* Whatever events, settings and rejected requests come in between, a launch
\* waits for the debounce or for its delay after the one before.
THEOREM BackoffIsKept == Spec => BackoffKept
<1>1. ASSUME IInv, TInv, Next, started' > started
      PROVE  IF started = 0 THEN quiet >= Debounce ELSE rest >= Retry[started + 1]
  <2>1. /\ RestartBegin /\ started < Len(Retry) /\ tok.epoch = epoch
        /\ attempt # NoAttempt /\ ~attempt.started
    BY <1>1, LaunchIsRestart
  <2>2. CASE started = 0
    BY <1>1, <2>1, <2>2 DEF TInv, ProbedInTime, RestartBegin
  <2>3. CASE started # 0
    <3>1. started > 0 /\ rest \in Nat
      BY <1>1, <2>3 DEF IInv, TypeOK
    <3>2. p.floor = 0
      BY <1>1, <2>1 DEF TInv, Approved
    <3>3. rest + 0 >= Retry[started + 1]
      BY <1>1, <2>1, <3>1, <3>2 DEF TInv, TimersKept, Waited
    <3> QED
      BY <2>3, <3>1, <3>3
  <2> QED
    BY <2>2, <2>3
<1>2. IInv /\ TInv /\ [Next]_vars =>
        [started' > started =>
           IF started = 0 THEN quiet >= Debounce ELSE rest >= Retry[started + 1]]_vars
  BY <1>1
<1> QED
  BY <1>2, TimersAgree, PTL DEF Spec, BackoffKept

\* Short of a new manual connection, the budget is full again only after
\* Stable units without a launch or an event, in which the policy learnt
\* nothing but that the engine is healthy.
THEOREM BudgetNeedsStability == Spec => StableBeforeReset
<1>1. ASSUME IInv, TInv, HInv, Next, started > 0, started' = 0, accepted' = accepted
      PROVE  rest >= Stable /\ quiet >= Stable /\ calm >= Stable
  <2>1. /\ started \in Nat /\ rest \in Nat /\ quiet \in Nat /\ calm \in Nat /\ Stable \in Nat
        /\ p \in Policies /\ accepted \in Nat /\ runs \in Nat /\ p.attempts <= Len(Retry)
    BY <1>1, TimeAssumption DEF IInv, TypeOK, WithinBudget
  <2>2. started' # started
    BY <1>1
  <2>3. \E q, e, why : Conclude(q, e, why) /\ (e = "Healthy" => q = p) /\ pc \in Probing
    <3>1. ~(UserStep \/ EngineExit \/ EngineGone \/ OsChange \/ Tick)
      <4>1. ~ManualAccept
        BY <1>1, <2>1 DEF ManualAccept, TInv, Agreed
      <4> QED
        BY <4>1, <2>2 DEF UserStep, ManualBegin, ManualReject, Stop, TargetChanged, SetEnabled,
                          EngineExit, EngineGone, OsChange, Tick, historyVars
    <3>2. ~(Forget \/ Look \/ ReadPath \/ Capture \/ Decide)
      BY <2>2 DEF Forget, Look, ReadPath, Capture, Decide, historyVars
    <3>3. ~(RestartRefused \/ RestartBegin \/ RestartFailed \/ RestartAccepted)
      <4>1. started + 1 # 0
        BY <2>1
      <4> QED
        BY <4>1, <1>1, <2>2 DEF RestartRefused, RestartBegin, RestartFailed, RestartAccepted
    <3>4. CASE EvidenceBegin
      BY <3>4, <2>2 DEF EvidenceBegin, Inconclusive, Probing
    <3>5. CASE EvidenceNetwork
      BY <3>5, <2>2 DEF EvidenceNetwork, Inconclusive, Probing
    <3>6. CASE EvidenceEngine
      BY <3>6, <2>2 DEF EvidenceEngine, Inconclusive, Probing
    <3>7. CASE EvidenceProbe
      BY <3>7, <2>2 DEF EvidenceProbe, Inconclusive, Probing
    <3>8. CASE EvidenceCandidate
      BY <3>8, <2>2 DEF EvidenceCandidate, Inconclusive, Probing
    <3> QED
      BY <1>1, <3>1, <3>2, <3>3, <3>4, <3>5, <3>6, <3>7, <3>8 DEF Next, LoopStep
  <2>4. PICK q, e, why : Conclude(q, e, why) /\ (e = "Healthy" => q = p) /\ pc \in Probing
    BY <2>3
  <2>5. e = "Healthy" /\ p' = Observe(p, "Healthy").policy /\ p'.attempts = 0
    BY <2>2, <2>4 DEF Conclude
  <2>6. p.attempts # 0
    BY <1>1, <2>1, <2>4 DEF IInv, OneAttempt, AttemptsCounted, Probing
  <2>7. OrElse(p.since, 0) >= Stable
    <3>1. "Healthy" \in Evidences
      BY DEF Evidences
    <3> QED
      BY <3>1, <2>1, <2>5, <2>6, ObserveTimers DEF TimersFollow
  <2>8. CASE p.since = None
    BY <2>1, <2>7, <2>8 DEF OrElse
  <2>9. CASE p.since # None
    <3>1. /\ rest >= p.since /\ quiet >= p.since /\ calm >= p.since
          /\ p.since >= Stable /\ p.since \in Nat
      BY <1>1, <2>1, <2>7, <2>9 DEF OrElse, TInv, TimersKept, Elapsed, HInv, Calm, Policies
    <3> QED
      BY <2>1, <3>1
  <2> QED
    BY <2>8, <2>9
<1>2. IInv /\ TInv /\ HInv /\ [Next]_vars =>
        [started > 0 /\ started' = 0 /\ accepted' = accepted
           => rest >= Stable /\ quiet >= Stable /\ calm >= Stable]_vars
  BY <1>1
<1> QED
  BY <1>2, HistoryAgrees, PTL DEF Spec, StableBeforeReset

\* A running engine is replaced only after two failed probes of its own run and
\* a healthy candidate, in the same pass and on the network that is still the
\* current one, and never once the policy gave up.
THEOREM RestartsAreLicensed == Spec => RestartIsLicensed
<1> DEFINE Licensed ==
      /\ ~p.exhausted
      /\ ActiveRun # 0 /\ ~EngineDead(ActiveRun) =>
           proof = [run |-> ActiveRun, gen |-> gen, failed |-> 2, candidate |-> TRUE]
<1>1. ASSUME IInv, TInv, HInv, Next, started' > started
      PROVE  Licensed
  <2>1. RestartBegin /\ tok.epoch = epoch /\ attempt # NoAttempt /\ ~attempt.started
    BY <1>1, LaunchIsRestart
  <2>2. ~p.exhausted
    BY <1>1, <2>1 DEF TInv, Approved
  <2>3. pc = "restart" /\ gen = proofGen /\ tok.run = accepted /\ accepted # 0
    BY <1>1, <2>1, CurrentToken DEF RestartBegin, SameNetwork
  <2>4. gen = evGen
    BY <1>1, <2>3 DEF TInv, Evidence
  <2>5. ASSUME ActiveRun # 0, ~EngineDead(ActiveRun)
        PROVE  proof = [run |-> ActiveRun, gen |-> gen, failed |-> 2, candidate |-> TRUE]
    <3>1. engine.state = "alive" /\ ActiveRun = engine.run
      BY <2>5 DEF ActiveRun, EngineDead
    <3>2. engine.run = tok.run
      BY <1>1, <2>3, <2>5, <3>1 DEF HInv, RunAgreed
    <3>3. proof = Shown(2, TRUE)
      BY <1>1, <2>1, <2>3, <3>1 DEF HInv, Licence
    <3> QED
      BY <2>4, <3>1, <3>2, <3>3 DEF Shown
  <2> QED
    BY <2>2, <2>5
<1>2. IInv /\ TInv /\ HInv /\ [Next]_vars => [started' > started => Licensed]_vars
  BY <1>1
<1> QED
  BY <1>2, HistoryAgrees, PTL DEF Spec, RestartIsLicensed
=============================================================================
