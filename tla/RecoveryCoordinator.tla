-------------------------- MODULE RecoveryCoordinator --------------------------
(***************************************************************************)
(* Background recovery of the desktop client: the intent, the policy and   *)
(* the loop of src-tauri/src/recovery/coordinator.rs, with intent.rs and   *)
(* event_filter.rs.                                                        *)
(*                                                                         *)
(* The engine is abstract: ProcessManager models what a launch does, here  *)
(* it is refused, started, accepted or failed.  A step of the loop is what *)
(* runs between two awaits.  At most one manual request is pending.        *)
(***************************************************************************)
EXTENDS RecoveryPolicy

CONSTANTS
  Heartbeat,   \* 10 s between checks of a session that spent attempts
  Changes,     \* what the operating system may report
  Commands,    \* what the user may do
  Faulty,      \* reading the physical network may fail, or time out
  SlowLoop,    \* time may pass between the capture of a token and the decision
  RawAnytime,  \* a report of no matter may come while evidence is gathered, too
  Horizon,     \* bound: the longest time the history measures
  MaxChanges,  \* bound: reports of the operating system
  MaxOps,      \* bound: commands of the user
  MaxRuns      \* bound: accepted runs

AllCommands == {"manual", "reject", "stop", "select", "setting"}
AllChanges == {"bump", "path", "wake"}
Paths == {"A", "B"}
NoPath == "down"

ASSUME RecoveryAssumption ==
  /\ Heartbeat \in Nat /\ Faulty \in BOOLEAN /\ SlowLoop \in BOOLEAN
  /\ RawAnytime \in BOOLEAN /\ Changes \subseteq AllChanges
  /\ Commands \subseteq AllCommands
  /\ MaxChanges \in Nat /\ MaxOps \in Nat /\ MaxRuns \in Nat
  /\ Horizon \in Nat /\ Debounce <= Horizon /\ Stable <= Horizon
  /\ \A i \in 1 .. Len(Retry) : Retry[i] <= Horizon

VARIABLES
  \* State of the coordinator, under its mutex
  epoch, network, wake, enabled, manual, accepted,
  p,                 \* the policy
  phase, issue, deadProven, proofGen,
  attempt,           \* the token an attempt belongs to, and whether it started
  \* locals of the loop
  pc, tok, passGen, passWake, loopGen, loopWake, seen, health, lastDead, evGen, probes,
  \* the engine and the operating system
  engine, runs, gen, wakeGen, path,
  \* what the bounds count
  changes, ops,
  \* history: launches since the budget was last full; the time since the last
  \* one ended, since the last event, and since the policy last learnt anything
  \* but that the engine is healthy; what the probes of this pass have shown
  started, rest, quiet, calm, proof

intentVars == <<epoch, network, wake, enabled, manual, accepted>>
reportVars == <<phase, issue>>
loopVars == <<tok, passGen, passWake, loopGen, loopWake, seen, lastDead, evGen, probes>>
engineVars == <<engine, runs>>
osVars == <<gen, wakeGen, path>>
boundVars == <<changes, ops>>
historyVars == <<started, rest, quiet, calm, proof>>
vars == <<intentVars, p, reportVars, deadProven, proofGen, attempt, pc, loopVars, health,
          engineVars, osVars, boundVars, historyVars>>

-----------------------------------------------------------------------------
NoAttempt == [epoch |-> 0, network |-> 0, run |-> 0, wake |-> 0, started |-> FALSE]
Owned(t, begun) ==
  [epoch |-> t.epoch, network |-> t.network, run |-> t.run, wake |-> t.wake, started |-> begun]
AttemptOf(t) == attempt \in {Owned(t, TRUE), Owned(t, FALSE)}
NoToken == [epoch |-> 0, network |-> 0, run |-> 0, wake |-> 0]

\* Intent::token
HasToken == enabled /\ ~manual /\ accepted # 0
Token == [epoch |-> epoch, network |-> network, run |-> accepted, wake |-> wake]

\* Intent::current, and RecoveryCoordinator::current
CurrentIntent == HasToken /\ tok = Token
Current == CurrentIntent /\ wakeGen = tok.wake

\* ProcessManager: active_run_id, recovery_engine_dead and probe_run_alive
ActiveRun == IF engine.state \in {"alive", "exited"} THEN engine.run ELSE 0
EngineDead(n) == engine.run = n /\ engine.state \in {"exited", "gone"}
EngineAlive(n) == engine.run = n /\ engine.state = "alive"
StoppedEngine == [run |-> 0, state |-> "none"]

\* History: the run whose probes failed, on which network, how often, and whether
\* the candidate then passed there.
NoProof == [run |-> 0, gen |-> 0, failed |-> 0, candidate |-> FALSE]
ProbeFailed ==
  [run |-> ActiveRun, gen |-> gen, candidate |-> FALSE,
   failed |-> IF proof.run = ActiveRun /\ proof.gen = gen THEN proof.failed + 1 ELSE 1]
CandidatePassed == [proof EXCEPT !.candidate = proof.run = accepted /\ proof.gen = gen]

\* The effects of event(generation) on the policy and on what is shown
EventApplies == HasToken /\ ~p.exhausted
AfterEvent(generation) == IF EventApplies THEN Event(p, generation) ELSE p

\* A reading of the physical network
Discovered == {path} \cup (IF Faulty THEN {NoPath} ELSE {})

Terminal == {"authentication", "permission_required"}
Kept == "kept"

\* The issue an exhausted policy shows: a terminal one is not replaced.
ExhaustedIssue(shown, evidence) ==
  IF shown \in Terminal THEN shown
  ELSE IF evidence = "Authentication" THEN "authentication" ELSE "retry_exhausted"

\* The end of evidence(): `why` is reported, or the issue is Kept; then the
\* policy observes the evidence if the token is still current.
Conclude(policy, evidence, why) ==
  LET answer == Observe(policy, evidence)
      shown == IF why = Kept \/ ~CurrentIntent THEN issue ELSE why
      phaseShown == IF why = Kept \/ ~CurrentIntent THEN phase ELSE "unavailable"
  IN /\ pc' = IF Current /\ answer.decision = "Reconnect" THEN "restart" ELSE "sleep"
     /\ calm' = IF Current /\ evidence # "Healthy" THEN 0 ELSE calm
     /\ IF ~Current
        THEN p' = policy /\ phase' = phaseShown /\ issue' = shown /\ UNCHANGED <<attempt, started>>
        ELSE /\ p' = answer.policy
             /\ started' = IF evidence = "Healthy" /\ p'.attempts = 0 THEN 0 ELSE started
             /\ attempt' = IF answer.decision = "Reconnect" THEN Owned(tok, FALSE) ELSE attempt
             /\ CASE answer.decision = "Reconnect" -> phase' = "recovering" /\ issue' = "none"
                  [] answer.decision = "GiveUp" ->
                       phase' = "exhausted" /\ issue' = ExhaustedIssue(shown, evidence)
                  [] evidence = "Healthy" -> phase' = "idle" /\ issue' = "none"
                  [] OTHER -> phase' = phaseShown /\ issue' = shown

Inconclusive(why) == Conclude(p, "Unavailable", why)

-----------------------------------------------------------------------------
Unseen == [path |-> "unseen", wake |-> 0]

\* The window sends the stored setting once, before any command; switching it on
\* has taken the generations of the system.
Init ==
  /\ enabled \in BOOLEAN /\ epoch = (IF enabled THEN 1 ELSE 0) /\ network = epoch /\ wake = epoch
  /\ manual = FALSE /\ accepted = 0
  /\ p = [DefaultPolicy EXCEPT !.enabled = enabled] /\ phase = "idle" /\ issue = "none"
  /\ deadProven = 0 /\ proofGen = 0 /\ attempt = NoAttempt
  /\ pc = "sleep" /\ tok = Token /\ passGen = 0 /\ passWake = 0 /\ loopGen = 1 /\ loopWake = 1 /\ seen = Unseen
  /\ health = 0 /\ lastDead = 0 /\ evGen = 0 /\ probes = 0
  /\ engine = StoppedEngine /\ runs = 0
  /\ gen = 1 /\ wakeGen = 1 /\ path = "A"
  /\ changes = 0 /\ ops = 0 /\ started = 0 /\ rest = 0 /\ quiet = 0 /\ calm = 0 /\ proof = NoProof

-----------------------------------------------------------------------------
(* One pass of the loop.                                                   *)

\* No token: the last seen network is forgotten.
Forget ==
  /\ pc = "sleep" /\ ~HasToken /\ seen # Unseen
  /\ seen' = Unseen
  /\ UNCHANGED <<intentVars, p, reportVars, deadProven, proofGen, attempt, pc, tok, passGen, passWake,
                 loopGen, loopWake, lastDead, evGen, probes, health, engineVars, osVars, boundVars,
                 historyVars>>

\* A pass begins; the locals of the one before are gone.
Look ==
  /\ pc = "sleep" /\ HasToken
  /\ IF gen # loopGen \/ wakeGen # loopWake \/ seen.path = "unseen"
     THEN pc' = "path" /\ passGen' = gen /\ passWake' = wakeGen
     ELSE pc' = "token" /\ UNCHANGED <<passGen, passWake>>
  /\ tok' = NoToken /\ evGen' = 0 /\ probes' = 0
  /\ UNCHANGED <<intentVars, p, reportVars, deadProven, proofGen, attempt, loopGen, loopWake,
                 seen, lastDead, health, engineVars, osVars, boundVars, historyVars>>

\* discover() returned: an event only when the path or the wake count differs
\* from what was last seen.
ReadPath ==
  /\ pc = "path"
  /\ \E found \in Discovered :
       LET now == [path |-> found, wake |-> passWake]
       IN IF gen # passGen
          THEN /\ pc' = "sleep"
               /\ UNCHANGED <<network, wake, p, reportVars, quiet, seen, loopGen, loopWake>>
          ELSE /\ pc' = "token"
               /\ seen' = now /\ loopGen' = passGen /\ loopWake' = passWake
               /\ IF seen # now
                  THEN /\ network' = passGen /\ wake' = wakeGen
                       /\ p' = AfterEvent(passGen)
                       /\ IF EventApplies
                          THEN phase' = "waiting" /\ issue' = "none" /\ quiet' = 0
                          ELSE UNCHANGED <<reportVars, quiet>>
                  ELSE UNCHANGED <<network, wake, p, reportVars, quiet>>
  /\ passGen' = 0 /\ passWake' = 0
  /\ UNCHANGED <<epoch, enabled, manual, accepted, deadProven, proofGen, attempt, tok, lastDead,
                 evGen, probes, health, engineVars, osVars, boundVars, started, rest, calm,
                 proof>>

Capture ==
  /\ pc = "token"
  /\ IF HasToken /\ wake = wakeGen
     THEN tok' = Token /\ pc' = "decide"
     ELSE pc' = "sleep" /\ UNCHANGED tok
  /\ UNCHANGED <<intentVars, p, reportVars, deadProven, proofGen, attempt, passGen,
                 passWake, loopGen, loopWake, seen, lastDead, evGen, probes, health, engineVars, osVars,
                 boundVars, historyVars>>

\* The death of the accepted engine is an event, once per run.  Then the due
\* time, or the heartbeat of a session that already spent attempts.
Decide ==
  /\ pc = "decide"
  /\ LET died == tok.run # lastDead /\ EngineDead(tok.run)
         q == IF died THEN AfterEvent(tok.network) ELSE p
         decision == NextDecision(q)
         heartbeat ==
           /\ decision \in {"Cancel", "GiveUp"} /\ q.attempts > 0 /\ health >= Heartbeat
           /\ decision = "GiveUp" => EngineAlive(tok.run)
         go == decision = "ProbeActive" \/ heartbeat
     IN /\ p' = Consumed(q)
        /\ IF died
           THEN lastDead' = tok.run /\ network' = tok.network /\ wake' = wakeGen
           ELSE UNCHANGED <<lastDead, network, wake>>
        /\ quiet' = IF died /\ EventApplies THEN 0 ELSE quiet
        /\ pc' = IF go THEN "evidence" ELSE "sleep"
        /\ health' = IF go THEN 0 ELSE health
        /\ CASE go /\ HasToken /\ tok = [Token EXCEPT !.network = network', !.wake = wake'] ->
                  phase' = "checking" /\ issue' = "none"
             [] OTHER -> IF died /\ EventApplies
                         THEN phase' = "waiting" /\ issue' = "none"
                         ELSE UNCHANGED reportVars
  /\ UNCHANGED <<epoch, enabled, manual, accepted, deadProven, proofGen, attempt, tok, passGen,
                 passWake, loopGen, loopWake, seen, evGen, probes, engineVars, osVars, boundVars, started, rest,
                 calm, proof>>

-----------------------------------------------------------------------------
(* evidence().                                                             *)

\* The network generation of the evidence, and a recorded failure of
\* authentication, which needs no probe.
EvidenceBegin ==
  /\ pc = "evidence"
  /\ evGen' = gen
  /\ proof' = NoProof
  /\ \/ Current /\ pc' = "discover" /\ UNCHANGED <<p, reportVars, attempt, started, calm>>
     \/ Current /\ engine.run # 0 /\ Conclude(p, "Authentication", Kept)
     \/ ~Current /\ Inconclusive(Kept)
  /\ UNCHANGED <<intentVars, deadProven, proofGen, tok, passGen, passWake, loopGen, loopWake, seen, lastDead,
                 probes, health, engineVars, osVars, boundVars, rest, quiet>>

EvidenceNetwork ==
  /\ pc = "discover"
  /\ \E found \in Discovered :
       \/ (found = NoPath \/ ~Current) /\ Inconclusive("network_unavailable")
          /\ UNCHANGED proofGen
       \/ /\ found # NoPath /\ (~Current \/ gen # evGen) /\ Inconclusive(Kept)
          /\ UNCHANGED proofGen
       \/ /\ found # NoPath /\ Current /\ gen = evGen
          /\ proofGen' = evGen /\ pc' = "engine"
          /\ UNCHANGED <<p, reportVars, attempt, started, calm>>
  /\ UNCHANGED <<intentVars, deadProven, tok, passGen, passWake, loopGen, loopWake, seen, lastDead, evGen, probes,
                 health, engineVars, osVars, boundVars, rest, quiet, proof>>

\* The engine is dead, is not the accepted one, cannot be probed, or is probed.
EvidenceEngine ==
  /\ pc = "engine"
  /\ LET dead == EngineDead(tok.run) \/ (deadProven = tok.run /\ ActiveRun = 0)
     IN \/ dead /\ deadProven' = tok.run /\ UNCHANGED probes
           /\ Conclude(p, "DeadEngine", Kept)
        \/ ~dead /\ ActiveRun # tok.run /\ Inconclusive(Kept) /\ UNCHANGED <<deadProven, probes>>
        \/ ~dead /\ ActiveRun = tok.run /\ Inconclusive("unsupported_probe")
           /\ UNCHANGED <<deadProven, probes>>
        \/ /\ ~dead /\ ActiveRun = tok.run
           /\ pc' = "probe" /\ probes' = 0
           /\ UNCHANGED <<deadProven, p, reportVars, attempt, started, calm>>
  /\ UNCHANGED <<intentVars, proofGen, tok, passGen, passWake, loopGen, loopWake, seen, lastDead, evGen, health,
                 engineVars, osVars, boundVars, rest, quiet, proof>>

\* Evidence is void once the token, the network or the run is another.
Void == ~Current \/ gen # evGen \/ ActiveRun # tok.run

\* One of the two probes of the running session
EvidenceProbe ==
  /\ pc = "probe"
  /\ LET failed == Observe(p, "ActiveFailure")
     IN \/ /\ \/ Inconclusive("network_unavailable")
              \/ (Void \/ Faulty) /\ Inconclusive(Kept)
              \/ ~Void /\ EngineAlive(tok.run)
                 /\ \E evidence \in {"Healthy", "Authentication"} : Conclude(p, evidence, Kept)
              \/ ~Void /\ Inconclusive("unsupported_probe")
              \/ ~Void /\ probes = 1 /\ failed.decision # "ProbeCandidate"
                 /\ Conclude(failed.policy, "Unavailable", Kept)
           /\ proof' = NoProof /\ UNCHANGED probes
        \/ /\ ~Void /\ probes = 0
           /\ p' = failed.policy /\ probes' = 1
           /\ IF failed.decision = "GiveUp"
              THEN /\ phase' = "exhausted"
                   /\ issue' = ExhaustedIssue(issue, "ActiveFailure")
              ELSE UNCHANGED reportVars
           /\ calm' = 0 /\ proof' = ProbeFailed
           /\ UNCHANGED <<pc, attempt, started>>
        \/ /\ ~Void /\ probes = 1 /\ failed.decision = "ProbeCandidate"
           /\ p' = failed.policy /\ pc' = "candidate"
           /\ calm' = 0 /\ proof' = ProbeFailed
           /\ UNCHANGED <<probes, reportVars, attempt, started>>
  /\ UNCHANGED <<intentVars, deadProven, proofGen, tok, passGen, passWake, loopGen, loopWake, seen, lastDead, evGen,
                 health, engineVars, osVars, boundVars, rest, quiet>>

\* A private engine with the accepted bytes, on the same physical network
EvidenceCandidate ==
  /\ pc = "candidate"
  /\ \/ ~Void /\ Conclude(p, "CandidateHealthy", Kept)
        /\ proof' = IF pc' = "restart" THEN CandidatePassed ELSE NoProof
     \/ /\ \/ Inconclusive("network_unavailable")
           \/ Inconclusive("unsupported_probe")
           \/ (Void \/ Faulty) /\ Inconclusive(Kept)
        /\ proof' = NoProof
  /\ UNCHANGED <<intentVars, deadProven, proofGen, loopVars, health, engineVars, osVars,
                 boundVars, rest, quiet>>

-----------------------------------------------------------------------------
(* restart_recovery and what the loop does with its result.                *)

\* attempt_finished(tok)
PolicyAfterAttempt ==
  IF ~AttemptOf(tok) THEN p
  ELSE IF attempt.started THEN AttemptFinished(p) ELSE AbandonUnstarted(p)

\* The arms of the loop's match on the result; `current` is the token's state
\* and `mine` the intent's after the launch.
Finish(result, current, mine) ==
  LET q == PolicyAfterAttempt
  IN /\ pc' = "sleep"
     /\ attempt' = IF AttemptOf(tok) THEN NoAttempt ELSE attempt
     /\ rest' = IF AttemptOf(tok) /\ attempt.started THEN 0 ELSE rest
     /\ proof' = NoProof
     /\ calm' = IF (IF result = "permission" THEN mine ELSE current) THEN 0 ELSE calm
     /\ p' = CASE result = "permission" /\ mine -> Observe(q, "Authentication").policy
               [] result = "cancelled" /\ current -> Observe(q, "Unavailable").policy
               [] result = "failed" /\ current -> Observe(q, "DeadEngine").policy
               [] OTHER -> q
     /\ CASE result = "permission" /\ mine ->
               phase' = "exhausted" /\ issue' = "permission_required"
          [] result = "cancelled" /\ mine ->
               phase' = "unavailable" /\ issue' = "network_unavailable"
          [] result = "failed" /\ current /\ p'.exhausted ->
               phase' = "exhausted" /\ issue' = "retry_exhausted"
          [] OTHER -> UNCHANGED reportVars

\* The launch is refused before the accepted run is touched: elevation would be
\* needed, or the token or the physical network is not the proven one.
RestartRefused ==
  /\ pc = "restart"
  /\ \/ Current /\ Finish("permission", Current, CurrentIntent)
     \/ ~Current /\ Finish("cancelled", Current, CurrentIntent)
     \/ (gen # proofGen \/ Faulty) /\ Finish("cancelled", Current, CurrentIntent)
  /\ UNCHANGED <<intentVars, deadProven, proofGen, loopVars, health, engineVars, osVars,
                 boundVars, started, quiet>>

\* Bug: any reading of the network will do.
SameNetworkAlways == TRUE

\* physical_matches with the generation
SameNetwork == gen = proofGen

\* mark_restarting, and the stop of the engine that is replaced
RestartBegin ==
  /\ pc = "restart" /\ Current /\ SameNetwork
  /\ pc' = "launch"
  /\ deadProven' = tok.run
  /\ attempt' = IF AttemptOf(tok) THEN Owned(tok, TRUE) ELSE attempt
  /\ engine' = StoppedEngine
  /\ started' = started + 1 /\ proof' = NoProof
  /\ UNCHANGED <<intentVars, p, reportVars, proofGen, loopVars, health, runs, osVars, boundVars,
                 rest, quiet, calm>>

RestartFailed ==
  /\ pc = "launch"
  /\ \/ Finish("failed", Current, CurrentIntent)
     \/ Finish("permission", Current, CurrentIntent)
     \/ ~Current /\ Finish("cancelled", Current, CurrentIntent)
     \/ (gen # proofGen \/ Faulty) /\ Finish("cancelled", Current, CurrentIntent)
  /\ UNCHANGED <<intentVars, deadProven, proofGen, loopVars, health, engineVars, osVars,
                 boundVars, started, quiet>>

\* accept_checked(Recovery): the policy keeps its budget.
RestartAccepted ==
  /\ pc = "launch" /\ Current /\ runs < MaxRuns
  /\ runs' = runs + 1 /\ engine' = [run |-> runs + 1, state |-> "alive"]
  /\ accepted' = runs + 1 /\ deadProven' = 0
  /\ phase' = "idle" /\ issue' = "none"
  /\ pc' = "sleep" /\ p' = PolicyAfterAttempt
  /\ attempt' = IF AttemptOf(tok) THEN NoAttempt ELSE attempt
  /\ rest' = 0
  /\ UNCHANGED <<epoch, network, wake, enabled, manual, proofGen, loopVars, health, osVars,
                 boundVars, started, quiet, calm, proof>>

-----------------------------------------------------------------------------
(* The user's commands, as they reach the coordinator.                     *)

\* invalidate_state
Invalidate ==
  /\ epoch' = epoch + 1 /\ p' = CancelWork(p)
  /\ phase' = "idle" /\ issue' = "none"

ManualBegin ==
  /\ "manual" \in Commands /\ ~manual /\ ops < MaxOps /\ ops' = ops + 1
  /\ Invalidate /\ manual' = TRUE
  /\ UNCHANGED <<network, wake, enabled, accepted, deadProven, proofGen, attempt, pc, loopVars,
                 health, engineVars, osVars, changes, historyVars>>

\* The candidate is rejected, before or after the engine it replaces stopped.
ManualReject ==
  /\ "reject" \in Commands /\ manual /\ manual' = FALSE
  /\ engine' \in {engine} \cup (IF pc = "launch" THEN {} ELSE {StoppedEngine})
  /\ UNCHANGED <<epoch, network, wake, enabled, accepted, p, reportVars, deadProven, proofGen,
                 attempt, pc, loopVars, health, runs, osVars, boundVars, historyVars>>

\* accept_checked(Manual), in the transition gate: a new intent and budget
ManualAccept ==
  /\ manual /\ manual' = FALSE /\ pc # "launch" /\ runs < MaxRuns
  /\ runs' = runs + 1 /\ engine' = [run |-> runs + 1, state |-> "alive"]
  /\ epoch' = epoch + 1 /\ accepted' = runs + 1
  /\ p' = [DefaultPolicy EXCEPT !.enabled = enabled] /\ attempt' = NoAttempt
  /\ phase' = "idle" /\ issue' = "none" /\ deadProven' = 0
  /\ started' = 0
  /\ UNCHANGED <<network, wake, enabled, proofGen, pc, loopVars, health, osVars, boundVars, rest,
                 quiet, calm, proof>>

\* stop_with and the stop of the engine
Stop ==
  /\ "stop" \in Commands /\ ops < MaxOps /\ ops' = ops + 1 /\ accepted # 0
  /\ Invalidate /\ accepted' = 0 /\ engine' = StoppedEngine
  /\ UNCHANGED <<network, wake, enabled, manual, deadProven, proofGen, attempt, pc, loopVars,
                 health, runs, osVars, changes, historyVars>>

\* target_changed: the selector moved, the snapshot no longer describes it.
TargetChanged ==
  /\ "select" \in Commands /\ ops < MaxOps /\ ops' = ops + 1
  /\ accepted # 0 /\ accepted = ActiveRun /\ pc # "launch"
  /\ epoch' = epoch + 1 /\ accepted' = 0 /\ p' = CancelWork(p)
  /\ phase' = "unavailable" /\ issue' = "unsupported_probe"
  /\ UNCHANGED <<network, wake, enabled, manual, deadProven, proofGen, attempt, pc, loopVars,
                 health, engineVars, osVars, changes, historyVars>>

SetEnabled ==
  /\ "setting" \in Commands /\ ops < MaxOps /\ ops' = ops + 1
  /\ enabled' = ~enabled /\ epoch' = epoch + 1
  /\ LET q == CancelWork([p EXCEPT !.enabled = ~enabled])
         applies == ~enabled /\ ~manual /\ accepted # 0 /\ ~q.exhausted
     IN /\ p' = IF applies THEN Event(q, gen) ELSE q
        /\ phase' = IF applies THEN "waiting" ELSE "idle"
        /\ quiet' = IF applies THEN 0 ELSE quiet
  /\ issue' = "none"
  /\ IF enabled THEN UNCHANGED <<network, wake>> ELSE network' = gen /\ wake' = wakeGen
  /\ UNCHANGED <<manual, accepted, deadProven, proofGen, attempt, pc, loopVars, health,
                 engineVars, osVars, changes, started, rest, calm, proof>>

-----------------------------------------------------------------------------
(* The environment.                                                        *)

EngineExit ==
  /\ engine.state = "alive" /\ engine' = [engine EXCEPT !.state = "exited"]
  /\ UNCHANGED <<intentVars, p, reportVars, deadProven, proofGen, attempt, pc, loopVars, health,
                 runs, osVars, boundVars, historyVars>>

\* The exit watcher finalizes the run.
EngineGone ==
  /\ engine.state = "exited" /\ engine' = [engine EXCEPT !.state = "gone"]
  /\ UNCHANGED <<intentVars, p, reportVars, deadProven, proofGen, attempt, pc, loopVars, health,
                 runs, osVars, boundVars, historyVars>>

\* From the due time that is consumed to the launch
Gathering == {"evidence", "discover", "engine", "probe", "candidate", "restart"}

\* Every callback bumps the generation: of a device that does not matter, of
\* the physical path, or of a wake.
OsChange ==
  /\ changes < MaxChanges /\ changes' = changes + 1
  /\ \E change \in Changes :
       /\ change = "bump" /\ pc \in Gathering => RawAnytime
       /\ gen' = gen + 1
       /\ wakeGen' = IF change = "wake" THEN wakeGen + 1 ELSE wakeGen
       /\ path' \in IF change = "path" THEN (Paths \cup {NoPath}) \ {path} ELSE {path}
  /\ UNCHANGED <<intentVars, p, reportVars, deadProven, proofGen, attempt, pc, loopVars, health,
                 engineVars, ops, historyVars>>

Longer(elapsed, enough) == IF elapsed < enough THEN elapsed + 1 ELSE elapsed
Tick ==
  /\ pc = "decide" => SlowLoop
  /\ p' = Age(p)
  /\ health' = Longer(health, Heartbeat)
  /\ rest' = Longer(rest, Horizon) /\ quiet' = Longer(quiet, Horizon) /\ calm' = Longer(calm, Horizon)
  /\ UNCHANGED <<intentVars, reportVars, deadProven, proofGen, attempt, pc, loopVars,
                 engineVars, osVars, boundVars, started, proof>>

-----------------------------------------------------------------------------
LoopStep ==
  \/ Forget \/ Look \/ ReadPath \/ Capture \/ Decide
  \/ EvidenceBegin \/ EvidenceNetwork \/ EvidenceEngine \/ EvidenceProbe \/ EvidenceCandidate
  \/ RestartRefused \/ RestartBegin \/ RestartFailed \/ RestartAccepted

UserStep ==
  ManualBegin \/ ManualReject \/ ManualAccept \/ Stop \/ TargetChanged \/ SetEnabled

Next ==
  LoopStep \/ UserStep \/ EngineExit \/ EngineGone \/ OsChange \/ Tick

Spec == Init /\ [][Next]_vars

\* The loop is a task of its own that never waits for ever, commands return,
\* exits are noticed and time passes (each pass of the loop sleeps).  Nothing has to be reported by the
\* operating system and the user has to do nothing.
Fairness ==
  /\ WF_vars(LoopStep) /\ WF_vars(ManualReject \/ ManualAccept)
  /\ WF_vars(EngineGone) /\ SF_vars(Tick)
FairSpec == Spec /\ Fairness

-----------------------------------------------------------------------------
Labels == {"sleep", "path", "token", "decide", "evidence", "discover", "engine", "probe",
           "candidate", "restart", "launch"}
Phases == {"idle", "waiting", "checking", "recovering", "unavailable", "exhausted"}
Issues == {"none", "network_unavailable", "unsupported_probe", "authentication",
           "permission_required", "retry_exhausted"}
Tokens == [epoch : Nat, network : Nat, run : Nat, wake : Nat]

TypeOK ==
  /\ epoch \in Nat /\ network \in Nat /\ wake \in Nat /\ accepted \in Nat
  /\ enabled \in BOOLEAN /\ manual \in BOOLEAN
  /\ p \in Policies /\ phase \in Phases /\ issue \in Issues
  /\ deadProven \in Nat /\ proofGen \in Nat
  /\ attempt \in [epoch : Nat, network : Nat, run : Nat, wake : Nat, started : BOOLEAN]
  /\ pc \in Labels /\ tok \in Tokens /\ passGen \in Nat /\ passWake \in Nat
  /\ loopGen \in Nat /\ loopWake \in Nat
  /\ seen \in [path : Paths \cup {NoPath, "unseen"}, wake : Nat]
  /\ health \in Nat /\ lastDead \in Nat /\ evGen \in Nat /\ probes \in {0, 1}
  /\ engine \in [run : Nat, state : {"alive", "exited", "gone", "none"}] /\ runs \in Nat
  /\ gen \in Nat /\ wakeGen \in Nat /\ path \in Paths \cup {NoPath}
  /\ changes \in Nat /\ ops \in Nat /\ started \in Nat /\ rest \in Nat /\ quiet \in Nat
  /\ calm \in Nat /\ proof \in [run : Nat, gen : Nat, failed : Nat, candidate : BOOLEAN]

\* The budget counts launches: an attempt that was approved but refused before
\* the accepted run was touched costs nothing, every other one costs one.
AttemptsCounted ==
  p.attempts = started + (IF attempt # NoAttempt /\ ~attempt.started THEN 1 ELSE 0)

\* At most Len(Retry) launches between two moments of a full budget, whatever
\* the network, the setting and rejected manual requests do meanwhile.
BudgetRespected == started <= Len(Retry)

\* One operation at a time: the policy waits for an attempt exactly while the
\* loop carries one out for the token it was approved for.
OneAttempt ==
  /\ p.inFlight <=> attempt # NoAttempt
  /\ attempt # NoAttempt => pc \in {"restart", "launch"} /\ AttemptOf(tok)

\* The first launch comes a Debounce after the last event, a later one its
\* delay after the end of the one before, whatever events came in between.
BackoffKept ==
  [][started' > started =>
       IF started = 0 THEN quiet >= Debounce ELSE rest >= Retry[started + 1]]_vars

\* Only Stable units without a launch, an event or a failure make the budget
\* full again, or a new manual connection.
StableBeforeReset ==
  [][started > 0 /\ started' = 0 /\ accepted' = accepted
       => rest >= Stable /\ quiet >= Stable /\ calm >= Stable]_vars

\* A launch replaces a running engine only after two failed probes of that run
\* and a healthy candidate, all on the network that is still there and in one
\* pass of the loop, and never once the policy gave up.
RestartIsLicensed ==
  [][started' > started =>
       /\ ~p.exhausted
       /\ ActiveRun # 0 /\ ~EngineDead(ActiveRun) =>
            proof = [run |-> ActiveRun, gen |-> gen, failed |-> 2, candidate |-> TRUE]]_vars

\* The accepted engine died, there is a network, and it is the loop's turn.
Waiting ==
  /\ HasToken /\ ~p.exhausted /\ pc # "launch" /\ path # NoPath
  /\ EngineDead(accepted) \/ deadProven = accepted

\* A dead engine is launched again, or recovery gives up and says so.  It is
\* not so in two cases the run `retried` leaves out by its constants: two changes
\* of the path while evidence is gathered (the run `blip`), and one report of no
\* matter there (RawAnytime): either voids the evidence, the due time is spent,
\* and the loop, which compares paths only, has seen no event.
DeadEngineRetried == Waiting ~> ~Waiting

=============================================================================
