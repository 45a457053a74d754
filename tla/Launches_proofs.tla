---------------------------- MODULE Launches_proofs ----------------------------
(***************************************************************************)
(* More proofs about ProcessManager, on top of its lifecycle invariant:    *)
(* what a launch leaves behind, whom an acceptance belongs to, what the    *)
(* recovery takes down, what the system proxy points at, and that it keeps *)
(* the promise of EngineOwnership.                                         *)
(***************************************************************************)
EXTENDS ProcessManager_proofs

-----------------------------------------------------------------------------
(* Next by actor.                                                          *)

RequestActs(r) == BeginManual(r) \/ BeginStop(r) \/ LaunchAbandoned(r) \/ RequestStep(r)
Acts(a) ==
  \/ LaunchStep(a)
  \/ a \in Reqs /\ RequestActs(a)
  \/ a = Rec /\ (RecoveryStep \/ Reconnect)
System ==
  \/ RecoveryEvent \/ SetEnabled \/ WatcherStep \/ Wake \/ CatalogMutation
  \/ (\E n \in reapers : Reap(n)) \/ (\E n \in live : Exit(n))

\* Every step is one actor's, or the system's.
LEMMA StepBy ==
  ASSUME Next
  PROVE  System \/ \E a \in Actors : Acts(a)
  BY DEF Next, System, Acts, RequestActs, Actors

\* A step of one actor moves no other.
Only(a) ==
  \A b \in Actors : b # a =>
    /\ pc'[b] = pc[b] /\ run'[b] = run[b] /\ kind'[b] = kind[b] /\ ret'[b] = ret[b]
\* A step of one task leaves the program counter and the run of the others.
LEMMA OthersStay ==
  ASSUME IInv, NEW a \in Actors, Acts(a)
  PROVE  Only(a)
<1> USE DEF IInv, Numbers, Controls, Only, Goto, Report, taskVars
<1>1. CASE LaunchStep(a)
  BY <1>1
  DEF LaunchStep, LaunchEnter, LaunchClaim, LaunchWire, LaunchRefusedByOs, LaunchSpawn, LaunchReady,
      LaunchRegate, LaunchFallback, LaunchFinish, LaunchAccept, LaunchNotAccepted, StopReap,
      GiveUp, StopAndGiveUp, TakeChild
<1>2. CASE RequestActs(a)
  BY <1>2
  DEF RequestActs, BeginManual, BeginStop, LaunchAbandoned, RequestStep, Handoff, PreStop, ApplyProxy,
      FrontendProxy, ResetAfter, StopEnter, ResetEnter, SelectEnter, SelectApi, TakeChild
<1>3. CASE a = Rec /\ (RecoveryStep \/ Reconnect)
  BY <1>3
  DEF RecoveryStep, Reconnect, LaunchPhysical, LaunchRecheck, LaunchRecoveryProxy,
      GiveUp, StopAndGiveUp, TakeChild
<1> QED
  BY <1>1, <1>2, <1>3 DEF Acts

-----------------------------------------------------------------------------
(* The inductive invariant.                                                *)

Launch == Prelaunch \cup Readying \cup {"lfinal", "lproxy", "laccept"}
Ending == {"lfinal", "lproxy", "laccept"}

\* A launch past its readiness is the active run's: it holds the gate.
EndIsActive == \A a \in Actors : pc[a] \in Ending => active = run[a] /\ run[a] # 0

\* A manual request that may still be accepted is the newest request.
ManualIsNewest == manualTicket \in {0, readyEpoch}

\* A running engine was accepted or is about to be.
RunningKnown ==
  slot # 0 /\ status = "Running" =>
    slot \in acceptedRuns \/ \E a \in Actors : pc[a] \in {"lproxy", "laccept"} /\ run[a] = slot

\* A run that no launch works on any more, and that nobody accepted, has no child
\* unless a reaper is to dispose of it.
FailedGone ==
  \A a \in Actors :
    pc[a] \notin Launch /\ run[a] # 0 /\ run[a] \notin acceptedRuns
      => slot # run[a] \/ run[a] \in reapers

\* While the token of an attempt is current nobody else has launched: a launch of a
\* request counts as pending, and its beginning voided the token.
TokenHolds ==
  /\ tok.epoch <= epoch
  /\ \A r \in Reqs : pc[r] # "idle" => kind[r] \in AllKinds
  /\ pc[Rec] = "stopping" => ret[Rec] # "lgate"
  /\ pc[Rec] \in {"lgate", "lphysical"} /\ tok.epoch = epoch =>
       NoPendingManual /\ slot \in {0, tok.run}

Outcomes == EndIsActive /\ ManualIsNewest /\ RunningKnown /\ FailedGone /\ TokenHolds

\* A stopped engine has no active run, but for a fallback before its spawn.
StoppedIsIdle == status = "Stopped" => active = 0 \/ \E a \in Actors : pc[a] = "lrespawn"

\* The proxy was applied for a run that was finished; one that a reaper will dispose
\* of, or a launch may still discard, has no proxy.
ProxySettled ==
  /\ proxy <= nextRun /\ \A n \in reapers : n # 0 /\ n <= nextRun
  /\ \A a \in Actors : pc[a] \in Launch \ {"lproxy", "laccept"} => proxy # run[a]
  /\ \A a \in Actors : pc[a] \in Launch \cup {"apply"} => run[a] \notin reapers
  /\ proxy \notin reapers

\* The proxy is the active run's, or could not be cleared.
ProxyIsActive == proxy # 0 => proxy = active \/ proxyStuck

\* The window does not apply the proxy on its own.
BackendProxy == ProxyModes \subseteq {"none", "checked", "clear"}
NoFrontend == \A a \in Actors : pc[a] # "fproxy"

ProxyInv == StoppedIsIdle /\ ProxySettled /\ ProxyIsActive /\ NoFrontend

-----------------------------------------------------------------------------
(* The outcomes of launches, one lemma to a part.                          *)

\* Only a new request moves the newest ticket.
LEMMA ManualStep ==
  ASSUME IInv, ManualIsNewest, Next
  PROVE  ManualIsNewest'
<1> USE DEF ManualIsNewest, ticketVars, intentVars
<1>1. CASE System
  BY <1>1
  DEF System, RecoveryEvent, SetEnabled, WatcherStep, WatchObserve, WatchTake, WatchFinalize, Wake,
      CatalogMutation, Reap, Exit
<1>2. ASSUME NEW a \in Actors, LaunchStep(a)
      PROVE  ManualIsNewest'
  BY <1>2
  DEF LaunchStep, LaunchEnter, LaunchClaim, LaunchWire, LaunchRefusedByOs, LaunchSpawn, LaunchReady,
      LaunchRegate, LaunchFallback, LaunchFinish, LaunchAccept, LaunchNotAccepted, StopReap
<1>3. ASSUME NEW r \in Reqs, RequestActs(r)
      PROVE  ManualIsNewest'
  BY <1>3
  DEF RequestActs, BeginManual, BeginStop, LaunchAbandoned, RequestStep, Handoff, PreStop, ApplyProxy,
      FrontendProxy, ResetAfter, StopEnter, ResetEnter, SelectEnter, SelectApi
<1>4. CASE RecoveryStep \/ Reconnect
  BY <1>4 DEF RecoveryStep, Reconnect, LaunchPhysical, LaunchRecheck, LaunchRecoveryProxy
<1> QED
  BY <1>1, <1>2, <1>3, <1>4, StepBy DEF Acts

\* While a task holds the gate nobody else touches the engine or the proxy.
LEMMA OthersWait ==
  ASSUME IInv, NEW a \in Actors, Acts(a), NEW b \in Actors, a # b, pc[b] \in Holding
  PROVE  UNCHANGED <<slot, status, active, nextRun, pending, proxyVars>>
<1>0. gate = b /\ gate # Free /\ pc[a] \notin Holding
  BY ActorAssumption DEF IInv, GateHeld
<1> USE <1>0 DEF runVars, proxyVars
<1>1. CASE LaunchStep(a)
  BY <1>1
  DEF LaunchStep, LaunchEnter, LaunchClaim, LaunchWire, LaunchRefusedByOs, LaunchSpawn, LaunchReady,
      LaunchRegate, LaunchFallback, LaunchFinish, LaunchAccept, LaunchNotAccepted, StopReap, Holding
<1>2. CASE RequestActs(a)
  BY <1>2
  DEF RequestActs, BeginManual, BeginStop, LaunchAbandoned, RequestStep, Handoff, PreStop, ApplyProxy,
      FrontendProxy, ResetAfter, StopEnter, ResetEnter, SelectEnter, SelectApi
<1>3. CASE a = Rec /\ (RecoveryStep \/ Reconnect)
  BY <1>3 DEF RecoveryStep, Reconnect, LaunchPhysical, LaunchRecheck, LaunchRecoveryProxy, Holding
<1> QED
  BY <1>1, <1>2, <1>3 DEF Acts

\* The system moves no task, and without the gate it only empties the slot.
LEMMA SystemStays ==
  ASSUME IInv, System
  PROVE  /\ UNCHANGED <<pc, run, kind, ret, tok, readyEpoch, manualTicket, acceptedRuns, nextRun>>
         /\ gate # Free => UNCHANGED <<status, active, pending, proxyVars, reapers>>
         /\ slot' \in {0, slot} /\ epoch' >= epoch
         /\ UNCHANGED <<status, active>> \/ (status' = "Stopped" /\ active' = 0)
<1> USE DEF runVars, proxyVars, taskVars, ticketVars, intentVars, IInv, Numbers
<1>1. CASE RecoveryEvent \/ SetEnabled \/ Wake \/ CatalogMutation \/ \E n \in live : Exit(n)
  <2>0. epoch' = epoch \/ epoch' = epoch + 1
    BY <1>1 DEF RecoveryEvent, SetEnabled, Wake, CatalogMutation, Exit
  <2>1. epoch' >= epoch
    BY <2>0
  <2>2. UNCHANGED <<pc, run, kind, ret, tok, readyEpoch, manualTicket, acceptedRuns, nextRun>>
    BY <1>1 DEF RecoveryEvent, SetEnabled, Wake, CatalogMutation, Exit
  <2>3. UNCHANGED <<slot, status, active, pending, proxyVars, reapers>>
    BY <1>1 DEF RecoveryEvent, SetEnabled, Wake, CatalogMutation, Exit
  <2> QED
    BY <2>1, <2>2, <2>3
<1>2. CASE WatcherStep
  <2>1. CASE WatchObserve
    BY <2>1 DEF WatchObserve
  <2>3. CASE WatchTake
    <3>1. UNCHANGED <<pc, run, kind, ret, tok, ticketVars, intentVars, nextRun, status, active, pending, proxyVars, reapers>>
      BY <2>3 DEF WatchTake
    <3>2. slot' \in {0, slot}
      BY <2>3 DEF WatchTake
    <3>3. epoch \in Nat /\ epoch' = epoch
      BY <3>1
    <3> QED
      BY <3>1, <3>2, <3>3
  <2>2. CASE WatchFinalize
    <3>1. /\ UNCHANGED <<pc, run, kind, ret, tok, ticketVars, intentVars, nextRun, pending, slot, reapers>>
          /\ gate = Free
      BY <2>2 DEF WatchFinalize
    <3>2. UNCHANGED <<status, active>> \/ (status' = "Stopped" /\ active' = 0)
      BY <2>2, FinalizeEffect DEF WatchFinalize
    <3>3. epoch \in Nat /\ epoch' = epoch
      BY <3>1
    <3> QED
      BY <3>1, <3>2, <3>3
  <2> QED
    BY <1>2, <2>1, <2>2, <2>3 DEF WatcherStep
<1>3. ASSUME NEW n \in reapers, Reap(n)
      PROVE  /\ UNCHANGED <<pc, run, kind, ret, tok, readyEpoch, manualTicket, acceptedRuns, nextRun>>
             /\ gate = Free /\ slot' \in {0, slot} /\ epoch' = epoch
             /\ UNCHANGED <<status, active>> \/ (status' = "Stopped" /\ active' = 0)
  BY <1>3, DiscardEffect DEF Reap, Cleared
<1> QED
  BY <1>1, <1>2, <1>3 DEF System

\* Where a launch gets from its spawn to its acceptance
LEMMA EntersEnding ==
  ASSUME IInv, NEW a \in Actors, Acts(a), pc'[a] \in Ending
  PROVE  \/ LaunchSpawn(a) \/ LaunchRegate(a) \/ LaunchFinish(a)
         \/ (a = Rec /\ LaunchRecoveryProxy)
<1> USE DEF IInv, Controls, Ending, Goto, Report, AfterFailure
<1>1. CASE LaunchStep(a)
  BY <1>1
  DEF LaunchStep, LaunchEnter, LaunchClaim, LaunchWire, LaunchRefusedByOs, LaunchReady,
      LaunchFallback, LaunchAccept, LaunchNotAccepted, StopReap, GiveUp, StopAndGiveUp, TakeChild
<1>2. CASE RequestActs(a)
  BY <1>2
  DEF RequestActs, BeginManual, BeginStop, LaunchAbandoned, RequestStep, Handoff, PreStop, ApplyProxy,
      FrontendProxy, ResetAfter, StopEnter, ResetEnter, SelectEnter, SelectApi, TakeChild
<1>3. CASE a = Rec /\ (RecoveryStep \/ Reconnect)
  BY <1>3
  DEF RecoveryStep, Reconnect, LaunchPhysical, LaunchRecheck, GiveUp, StopAndGiveUp, TakeChild
<1> QED
  BY <1>1, <1>2, <1>3 DEF Acts

\* A launch that gets past its readiness found its run active in the gate.
LEMMA EndStep ==
  ASSUME IInv, EndIsActive, Next
  PROVE  EndIsActive'
<1>1. CASE System
  BY <1>1, SystemStays, ActorAssumption DEF EndIsActive, Ending, IInv, GateHeld, Holding
<1>2. ASSUME NEW a \in Actors, Acts(a)
      PROVE  EndIsActive'
  <2>0. Only(a)
    BY <1>2, OthersStay
  <2>1. ASSUME NEW b \in Actors, b # a, pc'[b] \in Ending
        PROVE  active' = run'[b] /\ run'[b] # 0
    BY <1>2, <2>0, <2>1, OthersWait DEF Only, EndIsActive, Ending, Holding
  <2>2. ASSUME pc'[a] \in Ending
        PROVE  active' = run'[a] /\ run'[a] # 0
    <3> USE DEF taskVars
    <3>1. CASE LaunchSpawn(a)
      BY <3>1 DEF LaunchSpawn, IInv, Lifecycle, BeforeSpawn, Prelaunch
    <3>2. CASE LaunchRegate(a)
      BY <2>2, <3>2 DEF LaunchRegate, Superseded, Report, Goto, AfterFailure, Ending,
         IInv, Controls, Lifecycle, WhileReadying, Readying
    <3>3. CASE LaunchFinish(a)
      BY <2>2, <3>3 DEF LaunchFinish, GiveUp, Report, Goto, AfterFailure, EndIsActive, Ending,
         IInv, Controls
    <3>4. CASE a = Rec /\ LaunchRecoveryProxy
      BY <3>4 DEF LaunchRecoveryProxy, EndIsActive, Ending
    <3> QED
      BY <1>2, <2>2, <3>1, <3>2, <3>3, <3>4, EntersEnding
  <2> QED
    BY <2>1, <2>2 DEF EndIsActive
<1> QED
  BY <1>1, <1>2, StepBy

\* Only a spawn fills the slot, and nothing an actor does forgets an acceptance or a
\* reaper.
LEMMA ActorEngine ==
  ASSUME IInv, NEW a \in Actors, Acts(a)
  PROVE  /\ LaunchSpawn(a) \/ slot' \in {0, slot}
         /\ acceptedRuns \subseteq acceptedRuns' /\ reapers \subseteq reapers'
<1> USE DEF runVars, intentVars
<1>1. CASE LaunchStep(a)
  <2>1. CASE LaunchRegate(a)
    BY <2>1, DiscardEffect DEF LaunchRegate, Cleared
  <2>2. CASE LaunchFinish(a)
    BY <2>2, DiscardEffect DEF LaunchFinish, GiveUp, Cleared
  <2>3. CASE LaunchFallback(a)
    BY <2>3 DEF LaunchFallback, Discard
  <2>4. CASE LaunchStep(a) /\ ~LaunchRegate(a) /\ ~LaunchFinish(a) /\ ~LaunchFallback(a)
    BY <2>4
    DEF LaunchStep, LaunchEnter, LaunchClaim, LaunchWire, LaunchRefusedByOs, LaunchReady,
        LaunchAccept, LaunchNotAccepted, StopReap, GiveUp, StopAndGiveUp, TakeChild, LaunchSpawn
  <2> QED
    BY <1>1, <2>1, <2>2, <2>3, <2>4
<1>2. CASE RequestActs(a)
  BY <1>2
  DEF RequestActs, BeginManual, BeginStop, LaunchAbandoned, RequestStep, Handoff, PreStop, ApplyProxy,
      FrontendProxy, ResetAfter, StopEnter, ResetEnter, ResetAll, SelectEnter, SelectApi, TakeChild
<1>3. CASE a = Rec /\ (RecoveryStep \/ Reconnect)
  BY <1>3
  DEF RecoveryStep, Reconnect, LaunchPhysical, LaunchRecheck, LaunchRecoveryProxy, GiveUp, StopAndGiveUp,
      TakeChild
<1> QED
  BY <1>1, <1>2, <1>3 DEF Acts

\* Running is set by the end of a launch only.
LEMMA RunningSet ==
  ASSUME IInv, NEW a \in Actors, Acts(a)
  PROVE  status' \in {status, "Stopped", "Starting", "Stopping"} \/ (LaunchFinish(a) /\ LaunchCurrent(a))
<1> USE DEF runVars
<1>1. CASE LaunchStep(a)
  BY <1>1
  DEF LaunchStep, LaunchEnter, LaunchClaim, LaunchWire, LaunchRefusedByOs, LaunchSpawn, LaunchReady,
      LaunchRegate, LaunchFallback, LaunchFinish, LaunchAccept, LaunchNotAccepted, StopReap, AbortStart,
      StopAndGiveUp, GiveUp, TakeChild, Discard, Finalize
<1>2. CASE RequestActs(a)
  BY <1>2
  DEF RequestActs, BeginManual, BeginStop, LaunchAbandoned, RequestStep, Handoff, PreStop, ApplyProxy,
      FrontendProxy, ResetAfter, StopEnter, ResetEnter, ResetAll, SelectEnter, SelectApi, TakeChild
<1>3. CASE a = Rec /\ (RecoveryStep \/ Reconnect)
  BY <1>3
  DEF RecoveryStep, Reconnect, LaunchPhysical, LaunchRecheck, LaunchRecoveryProxy, GiveUp, StopAndGiveUp,
      TakeChild
<1> QED
  BY <1>1, <1>2, <1>3 DEF Acts

\* A launch changes its run when it claims one, first or for the fallback.
LEMMA RunChanged ==
  ASSUME IInv, NEW a \in Actors, Acts(a), run'[a] # run[a]
  PROVE  /\ pc'[a] \in Prelaunch /\ run'[a] = nextRun + 1
         /\ run' = [run EXCEPT ![a] = nextRun + 1]
         /\ pc[a] \in {"lclaim", "lunready"}
<1> USE DEF taskVars, IInv, Numbers, Controls, Prelaunch, Goto
<1>1. CASE LaunchStep(a)
  BY <1>1
  DEF LaunchStep, LaunchEnter, LaunchClaim, LaunchWire, LaunchRefusedByOs, LaunchSpawn, LaunchReady,
      LaunchRegate, LaunchFallback, LaunchFinish, LaunchAccept, LaunchNotAccepted, StopReap
<1>2. CASE RequestActs(a)
  BY <1>2
  DEF RequestActs, BeginManual, BeginStop, LaunchAbandoned, RequestStep, Handoff, PreStop, ApplyProxy,
      FrontendProxy, ResetAfter, StopEnter, ResetEnter, SelectEnter, SelectApi
<1>3. CASE a = Rec /\ (RecoveryStep \/ Reconnect)
  BY <1>3 DEF RecoveryStep, Reconnect, LaunchPhysical, LaunchRecheck, LaunchRecoveryProxy
<1> QED
  BY <1>1, <1>2, <1>3 DEF Acts

\* Which actions work on a launch
LEMMA LaunchMoves ==
  ASSUME IInv, NEW a \in Actors, Acts(a), pc[a] \in Launch
  PROVE  \/ LaunchWire(a) \/ LaunchRefusedByOs(a) \/ LaunchSpawn(a) \/ LaunchReady(a)
         \/ LaunchRegate(a) \/ LaunchFallback(a) \/ LaunchFinish(a) \/ LaunchAccept(a)
         \/ LaunchNotAccepted(a) \/ (a \in Reqs /\ LaunchAbandoned(a))
         \/ (a = Rec /\ LaunchRecoveryProxy)
<1> USE DEF Launch, Prelaunch, Readying
<1>1. CASE LaunchStep(a)
  BY <1>1 DEF LaunchStep, LaunchEnter, LaunchClaim, StopReap
<1>2. CASE a \in Reqs /\ RequestActs(a)
  BY <1>2
  DEF RequestActs, BeginManual, BeginStop, RequestStep, Handoff, PreStop, ApplyProxy, FrontendProxy,
      ResetAfter, StopEnter, ResetEnter, SelectEnter, SelectApi
<1>3. CASE a = Rec /\ (RecoveryStep \/ Reconnect)
  BY <1>3 DEF RecoveryStep, Reconnect, LaunchPhysical, LaunchRecheck
<1> QED
  BY <1>1, <1>2, <1>3 DEF Acts

\* A launch owns a run.
LEMMA LaunchHasRun ==
  ASSUME IInv, EndIsActive, NEW a \in Actors, pc[a] \in Launch
  PROVE  run[a] # 0
  BY DEF IInv, Lifecycle, BeforeSpawn, WhileReadying, EndIsActive, Launch, Ending

\* Discarding a run's child leaves none of it in the slot.
LEMMA DiscardLeaves ==
  ASSUME IInv, NEW n \in Nat \ {0}, NEW t \in Waits(n), Discard(n, t)
  PROVE  slot' # n
  BY DiscardEffect DEF IInv, Lifecycle, SlotIsActive, Cleared

\* A launch ends with its run accepted, without its child, or with a reaper for it.
LEMMA LaunchLeft ==
  ASSUME IInv, EndIsActive, NEW a \in Actors, Acts(a), pc[a] \in Launch, pc'[a] \notin Launch
  PROVE  run'[a] = run[a] /\ (run[a] \in acceptedRuns' \/ slot' # run[a] \/ run[a] \in reapers')
<1>0. run[a] \in Nat \ {0} /\ pc \in [Actors -> Labels]
  BY LaunchHasRun DEF IInv, Numbers, Controls
<1>1. run'[a] = run[a]
  BY RunChanged DEF Launch
<1>a. ASSUME NEW t \in Waits(run[a]), Discard(run[a], t)
      PROVE  slot' # run[a]
  BY <1>0, <1>a, DiscardLeaves
<1>2. CASE LaunchWire(a) \/ LaunchRefusedByOs(a)
  <2>1. pc[a] \in Prelaunch
    BY <1>2 DEF LaunchWire, LaunchRefusedByOs, Prelaunch
  <2>2. slot = 0
    BY <2>1 DEF IInv, Lifecycle, BeforeSpawn
  <2>3. slot' = slot
    BY <1>2 DEF LaunchWire, LaunchRefusedByOs
  <2> QED
    BY <1>0, <1>1, <2>2, <2>3
<1>3. CASE LaunchSpawn(a) \/ LaunchReady(a)
  BY <1>0, <1>3 DEF LaunchSpawn, LaunchReady, Goto, Launch, Readying
<1>4. CASE LaunchRegate(a)
  <2>1. Superseded(a)
    BY <1>0, <1>4 DEF LaunchRegate, Goto, Launch
  <2>2. \E t \in Waits(run[a]) : Discard(run[a], t)
    BY <1>4, <2>1 DEF LaunchRegate
  <2> QED
    BY <1>a, <1>1, <2>2
<1>5. CASE LaunchFallback(a)
  <2>1. pc'[a] # "lrespawn"
    BY DEF Launch, Prelaunch
  <2>2. (Discard(run[a], TRUE) /\ TRUE \in Waits(run[a])) \/ Discard(run[a], FALSE)
    BY <1>0, <1>5, <2>1 DEF LaunchFallback, Goto
  <2>3. FALSE \in Waits(run[a])
    BY DEF Waits
  <2> QED
    BY <1>a, <1>1, <2>2, <2>3
<1>6. CASE LaunchFinish(a)
  <2>1. ~LaunchCurrent(a)
    BY <1>0, <1>6 DEF LaunchFinish, Goto, Launch
  <2>2. \E t \in Waits(run[a]) : Discard(run[a], t)
    BY <1>6, <2>1 DEF LaunchFinish
  <2> QED
    BY <1>a, <1>1, <2>2
<1>7. CASE LaunchAccept(a) \/ (a \in Reqs /\ LaunchAbandoned(a))
  BY <1>1, <1>7 DEF LaunchAccept, LaunchAbandoned
<1>8. CASE LaunchNotAccepted(a) \/ (a = Rec /\ LaunchRecoveryProxy)
  BY <1>0, <1>8 DEF LaunchNotAccepted, LaunchRecoveryProxy, StopAndGiveUp, TakeChild, Goto, Launch
<1> QED
  BY <1>1, <1>2, <1>3, <1>4, <1>5, <1>6, <1>7, <1>8, LaunchMoves

\* A running engine keeps the launch that is to have it accepted, or is accepted.
LEMMA RunningStep ==
  ASSUME IInv, EndIsActive, RunningKnown, Next
  PROVE  RunningKnown'
<1>1. CASE System
  BY <1>1, SystemStays DEF RunningKnown
<1>2. ASSUME NEW a \in Actors, Acts(a)
      PROVE  RunningKnown'
  <2>0. Only(a) /\ acceptedRuns \subseteq acceptedRuns'
    BY <1>2, OthersStay, ActorEngine
  <2>1. CASE LaunchSpawn(a)
    BY <2>1 DEF LaunchSpawn, RunningKnown
  <2>2. CASE LaunchFinish(a) /\ LaunchCurrent(a)
    <3>1. pc'[a] \in {"lproxy", "laccept"} /\ run'[a] = run[a] /\ slot' = slot
      BY <2>2 DEF LaunchFinish, Goto, taskVars, IInv, Controls
    <3>2. slot # 0 => slot = run[a]
      BY <2>2 DEF LaunchFinish, IInv, Lifecycle, SlotIsActive, EndIsActive, Ending
    <3> QED
      BY <3>1, <3>2 DEF RunningKnown
  <2>3. CASE ~LaunchSpawn(a) /\ ~(LaunchFinish(a) /\ LaunchCurrent(a))
    <3>1. slot' \in {0, slot} /\ (status' = "Running" => status = "Running")
      BY <1>2, <2>3, ActorEngine, RunningSet
    <3> SUFFICES ASSUME slot' # 0, slot' = slot, status = "Running"
                 PROVE  slot \in acceptedRuns' \/
                        \E b \in Actors : pc'[b] \in {"lproxy", "laccept"} /\ run'[b] = slot
      BY <3>1 DEF RunningKnown
    <3>2. CASE slot \in acceptedRuns
      BY <2>0, <3>2
    <3>3. ASSUME NEW b \in Actors, pc[b] \in {"lproxy", "laccept"}, run[b] = slot, b # a
          PROVE  pc'[b] \in {"lproxy", "laccept"} /\ run'[b] = slot
      BY <2>0, <3>3 DEF Only
    <3>4. CASE pc[a] \in {"lproxy", "laccept"} /\ run[a] = slot
      <4>1. pc[a] \in Launch
        BY <3>4 DEF Launch
      <4>2. LaunchAccept(a) \/ LaunchNotAccepted(a) \/ (a = Rec /\ LaunchRecoveryProxy)
        BY <1>2, <3>4, <4>1, LaunchMoves
        DEF LaunchWire, LaunchRefusedByOs, LaunchSpawn, LaunchReady, LaunchRegate, LaunchFallback,
            LaunchFinish, LaunchAbandoned
      <4>3. CASE LaunchAccept(a)
        BY <3>4, <4>3 DEF LaunchAccept
      <4>4. CASE LaunchNotAccepted(a)
        BY <4>4 DEF LaunchNotAccepted, StopAndGiveUp, TakeChild
      <4>5. CASE a = Rec /\ LaunchRecoveryProxy
        BY <3>4, <4>5 DEF LaunchRecoveryProxy, StopAndGiveUp, TakeChild, Goto, IInv, Controls
      <4> QED
        BY <4>2, <4>3, <4>4, <4>5
    <3> QED
      BY <3>2, <3>3, <3>4 DEF RunningKnown
  <2> QED
    BY <2>1, <2>2, <2>3
<1> QED
  BY <1>1, <1>2, StepBy

\* A run nobody works on any more and nobody accepted stays without a child.
LEMMA FailedStep ==
  ASSUME IInv, EndIsActive, FailedGone, Next
  PROVE  FailedGone'
<1>1. CASE System
  <2> SUFFICES ASSUME NEW b \in Actors, pc[b] \notin Launch, run[b] # 0, run[b] \notin acceptedRuns,
                      slot' = run[b], run[b] \notin reapers'
               PROVE  FALSE
    BY <1>1, SystemStays DEF FailedGone
  <2>1. slot = run[b] /\ run[b] \in reapers
    BY <1>1, SystemStays DEF FailedGone
  <2>2. PICK n \in reapers : Reap(n)
    BY <1>1, <2>1
    DEF System, RecoveryEvent, SetEnabled, WatcherStep, WatchObserve, WatchTake, WatchFinalize, Wake,
        CatalogMutation, Exit
  <2>3. n = run[b]
    BY <2>1, <2>2 DEF Reap
  <2>4. n \in Nat \ {0}
    BY <2>3 DEF IInv, Numbers
  <2> QED
    BY <2>2, <2>3, <2>4, DiscardLeaves DEF Reap
<1>2. ASSUME NEW a \in Actors, Acts(a)
      PROVE  FailedGone'
  <2>0. /\ Only(a) /\ acceptedRuns \subseteq acceptedRuns' /\ reapers \subseteq reapers'
        /\ LaunchSpawn(a) \/ slot' \in {0, slot}
    BY <1>2, OthersStay, ActorEngine
  <2> SUFFICES ASSUME NEW b \in Actors, pc'[b] \notin Launch, run'[b] # 0,
                      run'[b] \notin acceptedRuns', slot' = run'[b]
               PROVE  run'[b] \in reapers'
    BY DEF FailedGone
  <2>1. CASE b = a /\ pc[a] \in Launch
    BY <1>2, <2>1, LaunchLeft
  <2>2. CASE ~(b = a /\ pc[a] \in Launch)
    <3>1. run'[b] = run[b]
      BY <1>2, <2>0, RunChanged DEF Only, Launch
    <3>2. pc[b] \notin Launch
      BY <2>0, <2>2 DEF Only
    <3>3. slot = run[b] => run[b] \in reapers
      BY <2>0, <3>1, <3>2 DEF FailedGone
    <3>4. CASE LaunchSpawn(a)
      <4>1. slot' = run[a] /\ pc[a] \in Launch
        BY <3>4 DEF LaunchSpawn, Launch, Prelaunch
      <4>2. a # b
        BY <3>2, <4>1
      <4> QED
        BY <3>1, <4>1, <4>2 DEF IInv, Lifecycle, RunsDistinct
    <3>5. CASE slot' \in {0, slot}
      BY <2>0, <3>1, <3>3, <3>5
    <3> QED
      BY <2>0, <3>4, <3>5
  <2> QED
    BY <2>1, <2>2
<1> QED
  BY <1>1, <1>2, StepBy

\* What a step of a request does to the count of pending requests
LEMMA RequestMoves ==
  ASSUME IInv, NEW r \in Reqs, Acts(r)
  PROVE  \/ (/\ epoch' = epoch + 1 /\ kind'[r] \in AllKinds)
         \/ (/\ kind'[r] = kind[r] /\ pc[r] # "idle"
             /\ pc[r] \in {"fproxy", "fclear", "done"} => pc'[r] = "done")
<1> USE ActorAssumption
    DEF IInv, Controls, Goto, Report, taskVars, intentVars, Actors
<1>1. CASE BeginManual(r) \/ BeginStop(r)
  BY <1>1 DEF BeginManual, BeginStop, AllKinds
<1>2. CASE LaunchStep(r)
  BY <1>2
  DEF LaunchStep, LaunchEnter, LaunchClaim, LaunchWire, LaunchRefusedByOs, LaunchSpawn, LaunchReady,
      LaunchRegate, LaunchFallback, LaunchFinish, LaunchAccept, LaunchNotAccepted, StopReap
<1>3. CASE RequestActs(r) /\ ~BeginManual(r) /\ ~BeginStop(r)
  BY <1>3
  DEF RequestActs, LaunchAbandoned, RequestStep, Handoff, PreStop, ApplyProxy, FrontendProxy,
      ResetAfter, StopEnter, ResetEnter, SelectEnter, SelectApi, AllKinds
<1> QED
  BY <1>1, <1>2, <1>3 DEF Acts, RequestActs

\* How the recovery loop comes to its gate, and who bumps the epoch
LEMMA RecoveryMoves ==
  ASSUME IInv, NEW a \in Actors, Acts(a)
  PROVE  /\ epoch' \in {epoch, epoch + 1}
         /\ tok' = tok \/ Reconnect
         /\ a = Rec /\ pc'[Rec] \in {"lgate", "lphysical"} =>
              Reconnect \/ LaunchEnter(Rec) \/ (StopReap(Rec) /\ pc'[Rec] = ret[Rec])
         /\ a = Rec /\ pc'[Rec] = "stopping" => ret'[Rec] # "lgate"
<1> USE ActorAssumption
    DEF IInv, Controls, Goto, Report, taskVars, intentVars, Actors, GiveUp, StopAndGiveUp, TakeChild,
        AfterFailure
<1>1. CASE LaunchStep(a)
  BY <1>1
  DEF LaunchStep, LaunchEnter, LaunchClaim, LaunchWire, LaunchRefusedByOs, LaunchSpawn, LaunchReady,
      LaunchRegate, LaunchFallback, LaunchFinish, LaunchAccept, LaunchNotAccepted, StopReap
<1>2. CASE a \in Reqs /\ RequestActs(a)
  BY <1>2
  DEF RequestActs, BeginManual, BeginStop, LaunchAbandoned, RequestStep, Handoff, PreStop, ApplyProxy,
      FrontendProxy, ResetAfter, StopEnter, ResetEnter, SelectEnter, SelectApi
<1>3. CASE a = Rec /\ (RecoveryStep \/ Reconnect)
  BY <1>3 DEF RecoveryStep, Reconnect, LaunchPhysical, LaunchRecheck, LaunchRecoveryProxy
<1> QED
  BY <1>1, <1>2, <1>3 DEF Acts

\* The token is captured with no request pending, and a new request voids it.
LEMMA TokenStep ==
  ASSUME IInv, TokenHolds, Next
  PROVE  TokenHolds'
<1>0. epoch \in Nat /\ tok.epoch \in Nat /\ Rec \in Actors /\ Rec \notin Reqs
  BY ActorAssumption DEF IInv, Numbers, Records, Actors
<1>1. CASE System
  <2>1. /\ UNCHANGED <<pc, run, kind, ret, tok>> /\ slot' \in {0, slot} /\ epoch' >= epoch
        /\ epoch' \in Nat
    BY <1>1, SystemStays, StepInvariant DEF IInv, Numbers
  <2>2. tok'.epoch = epoch' => tok.epoch = epoch
    BY <1>0, <2>1 DEF TokenHolds
  <2>3. tok'.epoch <= epoch'
    BY <1>0, <2>1 DEF TokenHolds
  <2> QED
    BY <2>1, <2>2, <2>3 DEF TokenHolds, NoPendingManual, Guarded
<1>2. ASSUME NEW a \in Actors, Acts(a)
      PROVE  TokenHolds'
  <2>0. Only(a) /\ epoch' \in {epoch, epoch + 1} /\ (tok' = tok \/ Reconnect)
    BY <1>2, OthersStay, RecoveryMoves
  <2>1. tok'.epoch <= epoch'
    <3>1. Reconnect => tok'.epoch = epoch /\ epoch' = epoch
      BY DEF Reconnect
    <3> QED
      BY <1>0, <2>0, <3>1 DEF TokenHolds
  <2>2. \A r \in Reqs : pc'[r] # "idle" => kind'[r] \in AllKinds
    BY <1>2, <2>0, RequestMoves DEF TokenHolds, Only, Actors
  <2>3. pc'[Rec] = "stopping" => ret'[Rec] # "lgate"
    BY <1>0, <1>2, <2>0, RecoveryMoves DEF TokenHolds, Only
  <2>4. ASSUME pc'[Rec] \in {"lgate", "lphysical"}, tok'.epoch = epoch'
        PROVE  NoPendingManual' /\ slot' \in {0, tok'.run}
    <3>1. CASE Reconnect
      <4>1. NoPendingManual /\ UNCHANGED <<kind, slot>> /\ tok'.run = accepted
        BY <3>1 DEF Reconnect, HasToken, runVars
      <4>2. \A r \in Reqs : pc'[r] = pc[r]
        BY <1>0, <3>1 DEF Reconnect, Goto, IInv, Controls, Actors
      <4>3. slot \in {0, accepted}
        BY <3>1 DEF Reconnect, EngineDead, IInv, Lifecycle, SlotIsActive
      <4> QED
        BY <4>1, <4>2, <4>3 DEF NoPendingManual, Guarded
    <3>2. CASE a = Rec /\ ~Reconnect
      <4>1. LaunchEnter(Rec)
        BY <1>2, <2>4, <3>2, RecoveryMoves DEF StopReap, TokenHolds, IInv, Controls
      <4>2. pc[Rec] = "lgate" /\ UNCHANGED <<slot, epoch, tok>>
        BY <4>1 DEF LaunchEnter, runVars, intentVars, taskVars
      <4> QED
        BY <1>0, <2>0, <2>4, <3>2, <4>2 DEF TokenHolds, NoPendingManual, Guarded, Only, Actors
    <3>3. CASE a # Rec /\ ~Reconnect
      <4>1. a \in Reqs /\ pc'[Rec] = pc[Rec] /\ tok' = tok
        BY <1>0, <2>0, <3>3 DEF Only, Actors
      <4>2. epoch' = epoch
        BY <1>0, <2>0, <2>4, <4>1 DEF TokenHolds
      <4>3. NoPendingManual /\ slot \in {0, tok.run}
        BY <2>4, <4>1, <4>2 DEF TokenHolds
      <4>4. /\ kind'[a] = kind[a] /\ pc[a] # "idle"
            /\ pc[a] \in {"fproxy", "fclear", "done"} => pc'[a] = "done"
        BY <1>0, <1>2, <4>1, <4>2, RequestMoves
      <4>5. NoPendingManual'
        BY <2>0, <4>1, <4>3, <4>4 DEF NoPendingManual, Guarded, Only, Actors
      <4>6. ~LaunchSpawn(a)
        BY <4>1, <4>3, <4>4
        DEF LaunchSpawn, NoPendingManual, Guarded, TokenHolds, IInv, StopOrder, StopLabels, Stopper, AllKinds
      <4> QED
        BY <1>2, <4>1, <4>3, <4>5, <4>6, ActorEngine
    <3> QED
      BY <3>1, <3>2, <3>3
  <2> QED
    BY <2>1, <2>2, <2>3, <2>4 DEF TokenHolds
<1> QED
  BY <1>1, <1>2, StepBy

\* The lifecycle's invariant and the outcomes are inductive together.
LInv == IInv /\ Outcomes

\* At the start there is no launch.
LEMMA InitOutcomes == Init => Outcomes
<1> SUFFICES ASSUME Init PROVE Outcomes
  OBVIOUS
<1> USE DEF Init
<1>1. EndIsActive /\ ManualIsNewest /\ RunningKnown /\ FailedGone
  BY DEF EndIsActive, Ending, ManualIsNewest, RunningKnown, FailedGone
<1>2. TokenHolds
  BY ActorAssumption DEF TokenHolds, Actors
<1> QED
  BY <1>1, <1>2 DEF Outcomes

\* Every step keeps the outcomes.
LEMMA StepOutcomes == LInv /\ [Next]_vars => LInv'
<1> SUFFICES ASSUME LInv, [Next]_vars PROVE LInv'
  OBVIOUS
<1>1. IInv'
  BY StepInvariant DEF LInv
<1>2. CASE Next
  BY <1>1, <1>2, ManualStep, EndStep, RunningStep, FailedStep, TokenStep DEF LInv, Outcomes
<1>3. CASE UNCHANGED vars
  BY <1>1, <1>3
  DEF LInv, Outcomes, EndIsActive, ManualIsNewest, RunningKnown, FailedGone, TokenHolds, NoPendingManual,
      Guarded, vars, runVars, ticketVars, intentVars, taskVars
<1> QED
  BY <1>2, <1>3

\* The inductive invariant of the launches holds throughout.
THEOREM OutcomesHold == Spec => []LInv
<1>1. Init => LInv
  BY InitInvariant, InitOutcomes DEF LInv
<1> QED
  BY <1>1, StepOutcomes, PTL DEF Spec

-----------------------------------------------------------------------------
(* The theorems.                                                           *)

\* Between transitions a running engine was accepted (RunningWasAccepted): a launch
\* that lost its ticket or token after its engine came up takes the engine down
\* before it gives the gate back.
THEOREM RunningIsAccepted == Spec => []RunningWasAccepted
<1>1. LInv => RunningWasAccepted
  BY ActorAssumption
  DEF LInv, Outcomes, RunningKnown, RunningWasAccepted, IInv, GateHeld, Holding
<1> QED
  BY <1>1, OutcomesHold, PTL

\* A launch that failed, was cancelled, refused or abandoned leaves no engine in the
\* slot but one that a reaper is to dispose of (FailureLeavesNoEngine).
THEOREM FailureIsClean == Spec => []FailureLeavesNoEngine
<1>1. LInv => FailureLeavesNoEngine
  BY DEF LInv, Outcomes, FailedGone, FailureLeavesNoEngine, Launch, Prelaunch, Readying
<1> QED
  BY <1>1, OutcomesHold, PTL

\* Only the newest request, or recovery when no request is pending, is accepted
\* (NewestAccepts), although the intent is asked long after the ticket was issued.
THEOREM NewestIsAccepted == Spec => NewestAccepts
<1> DEFINE Wins == \A a \in Actors : pc[a] = "laccept" /\ acceptedRuns' # acceptedRuns /\ outcome'[a] = "ok"
                     => IF a = Rec THEN NoPendingManual ELSE ticket[a] = readyEpoch
<1>1. LInv /\ [Next]_vars => [Wins]_vars
  <2> SUFFICES ASSUME LInv, Next, NEW a \in Actors, pc[a] = "laccept", acceptedRuns' # acceptedRuns
               PROVE  IF a = Rec THEN NoPendingManual ELSE ticket[a] = readyEpoch
    OBVIOUS
  <2>1. LaunchAccept(a)
    <3>1. ASSUME NEW b \in Actors, Acts(b)
          PROVE  LaunchAccept(b)
      <4> USE DEF intentVars
      <4>1. CASE LaunchStep(b)
        BY <4>1
        DEF LaunchStep, LaunchEnter, LaunchClaim, LaunchWire, LaunchRefusedByOs, LaunchSpawn,
            LaunchReady, LaunchRegate, LaunchFallback, LaunchFinish, LaunchNotAccepted, StopReap
      <4>2. CASE RequestActs(b)
        BY <4>2
        DEF RequestActs, BeginManual, BeginStop, LaunchAbandoned, RequestStep, Handoff, PreStop,
            ApplyProxy, FrontendProxy, ResetAfter, StopEnter, ResetEnter, SelectEnter, SelectApi
      <4>3. CASE RecoveryStep \/ Reconnect
        BY <4>3 DEF RecoveryStep, Reconnect, LaunchPhysical, LaunchRecheck, LaunchRecoveryProxy
      <4> QED
        BY <3>1, <4>1, <4>2, <4>3 DEF Acts
    <3>2. ~System
      BY SystemStays DEF LInv
    <3>3. PICK b \in Actors : LaunchAccept(b)
      BY <3>1, <3>2, StepBy
    <3> QED
      BY <3>3 DEF LaunchAccept, LInv, IInv, GateHeld, Holding
  <2>2. CASE a = Rec
    BY <2>1, <2>2 DEF LaunchAccept, Acceptable, TokenCurrent, HasToken
  <2>3. CASE a # Rec
    BY <2>1, <2>3
    DEF LaunchAccept, Acceptable, LInv, Outcomes, ManualIsNewest, IInv, StopOrder, Tickets, Actors
  <2> QED
    BY <2>2, <2>3
<1> QED
  BY <1>1, OutcomesHold, PTL DEF Spec, NewestAccepts

\* Recovery takes down the run whose token it holds, or its own launch, and no engine
\* a request started meanwhile (RecoveryStopsItsOwn).
THEOREM RecoveryKeepsOthers == Spec => RecoveryStopsItsOwn
<1> DEFINE Own == slot # 0 /\ slot' = 0 /\ pc'[Rec] # pc[Rec] => slot \in {tok.run, run[Rec]}
<1>1. LInv /\ [Next]_vars => [Own]_vars
  <2> SUFFICES ASSUME LInv, Next, slot # 0, slot' = 0, pc'[Rec] # pc[Rec]
               PROVE  slot \in {tok.run, run[Rec]}
    OBVIOUS
  <2>0. Rec \in Actors /\ LInv /\ IInv /\ EndIsActive
    BY DEF LInv, Outcomes, Actors
  <2>1. Acts(Rec) /\ ~(Rec \in Reqs)
    BY <2>0, StepBy, SystemStays, OthersStay, ActorAssumption DEF Only
  <2>a. ASSUME NEW t \in Waits(run[Rec]), Discard(run[Rec], t)
        PROVE  slot = run[Rec]
    BY <2>0, <2>a DEF Discard, IInv, Lifecycle, SlotIsActive
  <2>2. CASE RecoveryStep
    <3>1. CASE LaunchPhysical
      BY <2>0, <3>1
      DEF LaunchPhysical, LInv, Outcomes, TokenHolds, TokenCurrent
    <3>2. CASE LaunchRecheck
      BY <3>2 DEF LaunchRecheck, runVars
    <3>3. CASE LaunchRecoveryProxy
      BY <2>0, <3>3 DEF LaunchRecoveryProxy, EndIsActive, Ending, IInv, Lifecycle, SlotIsActive
    <3> QED
      BY <2>2, <3>1, <3>2, <3>3 DEF RecoveryStep
  <2>3. CASE LaunchStep(Rec)
    <3>1. CASE LaunchRegate(Rec)
      BY <2>a, <3>1 DEF LaunchRegate
    <3>2. CASE LaunchFallback(Rec)
      <4>1. active = run[Rec]
        BY <3>2 DEF LaunchFallback, Superseded
      <4> QED
        BY <2>0, <4>1 DEF IInv, Lifecycle, SlotIsActive
    <3>3. CASE LaunchFinish(Rec)
      BY <2>a, <3>3 DEF LaunchFinish
    <3>4. CASE LaunchSpawn(Rec)
      BY <2>0, <3>4 DEF LaunchSpawn, IInv, Lifecycle, BeforeSpawn, Prelaunch
    <3>5. CASE LaunchNotAccepted(Rec)
      BY <2>0, <3>5 DEF LaunchNotAccepted, EndIsActive, Ending, IInv, Lifecycle, SlotIsActive
    <3> QED
      BY <2>3, <3>1, <3>2, <3>3, <3>4, <3>5
      DEF LaunchStep, LaunchEnter, LaunchClaim, LaunchWire, LaunchRefusedByOs, LaunchReady,
          LaunchAccept, StopReap, runVars
  <2>4. CASE Reconnect
    BY <2>4 DEF Reconnect, runVars
  <2> QED
    BY <2>1, <2>2, <2>3, <2>4 DEF Acts
<1> QED
  BY <1>1, OutcomesHold, PTL DEF Spec, RecoveryStopsItsOwn

-----------------------------------------------------------------------------
(* The system proxy.                                                       *)

Undecided == Launch \ {"lproxy", "laccept"}

\* A reaper is spawned for a run that is still launching.
LEMMA ReaperSpawned ==
  ASSUME LInv, NEW a \in Actors, Acts(a), reapers' # reapers
  PROVE  /\ reapers' = reapers \cup {run[a]} /\ run'[a] = run[a]
         /\ pc[a] \in Undecided /\ pc'[a] \in {"idle", "rgate", "done"}
<1>0. /\ IInv /\ EndIsActive /\ pc \in [Actors -> Labels] /\ reapers \subseteq Nat
      /\ pending \in Nat /\ run[a] \in Nat
  BY DEF LInv, Outcomes, IInv, Controls, Numbers
<1>1. ASSUME NEW result, GiveUp(a, result)
      PROVE  /\ reapers' = reapers \/ reapers' = reapers \cup {run[a]}
             /\ pc'[a] \in {"idle", "rgate", "done"}
             /\ reapers' # reapers => pending = run[a] /\ pending # 0 /\ pending \notin reapers
  BY <1>0, <1>1 DEF GiveUp, Report, Goto, AfterFailure
<1>2. ASSUME pending = run[a], pending # 0, pending \notin reapers
      PROVE  Launching(a)
  BY <1>0, <1>2 DEF IInv, PendingHasOwner, Lifecycle, RunsDistinct
<1>3. Launching(a) => pc[a] \in Undecided
  BY DEF Launching, Undecided, Launch, Prelaunch, Readying
<1>4. pc[a] \in Undecided => run'[a] = run[a] \/ pc'[a] \in Prelaunch
  BY <1>0, RunChanged
<1> USE DEF Undecided, Launch, Prelaunch, Readying
<1>5. CASE LaunchStep(a)
  <2>1. CASE LaunchClaim(a) \/ LaunchRefusedByOs(a) \/ LaunchFinish(a) \/ LaunchNotAccepted(a)
    <3>1. PICK result : GiveUp(a, result)
      BY <2>1 DEF LaunchClaim, LaunchRefusedByOs, LaunchFinish, LaunchNotAccepted, StopAndGiveUp
    <3>2. run' = run
      BY <2>1, <3>1, <1>1
      DEF LaunchClaim, LaunchRefusedByOs, LaunchFinish, LaunchNotAccepted, taskVars, Goto
    <3> QED
      BY <1>1, <1>2, <1>3, <3>1, <3>2
  <2>2. CASE LaunchWire(a)
    BY <1>0, <2>2 DEF LaunchWire, Report, Goto, AfterFailure, taskVars
  <2>3. CASE LaunchRegate(a)
    BY <1>0, <2>3 DEF LaunchRegate, Report, Goto, AfterFailure, taskVars
  <2>4. CASE LaunchFallback(a)
    BY <1>0, <2>4 DEF LaunchFallback, Report, Goto, AfterFailure
  <2> QED
    BY <1>5, <2>1, <2>2, <2>3, <2>4
    DEF LaunchStep, LaunchEnter, LaunchSpawn, LaunchReady, LaunchAccept, StopReap
<1>6. CASE a \in Reqs /\ RequestActs(a)
  BY <1>0, <1>6
  DEF RequestActs, BeginManual, BeginStop, LaunchAbandoned, RequestStep, Handoff, PreStop, ApplyProxy,
      FrontendProxy, ResetAfter, StopEnter, ResetEnter, SelectEnter, SelectApi, Report, Goto, taskVars
<1>7. CASE a = Rec /\ (RecoveryStep \/ Reconnect)
  <2>1. PICK result : GiveUp(a, result)
    BY <1>7
    DEF RecoveryStep, Reconnect, LaunchPhysical, LaunchRecheck, LaunchRecoveryProxy, StopAndGiveUp
  <2>2. run' = run
    BY <1>7
    DEF RecoveryStep, Reconnect, LaunchPhysical, LaunchRecheck, LaunchRecoveryProxy, taskVars
  <2> QED
    BY <1>1, <1>2, <1>3, <2>1, <2>2
<1> QED
  BY <1>5, <1>6, <1>7 DEF Acts

\* The proxy is cleared, or applied for the active run by its own task.
LEMMA ProxyMoves ==
  ASSUME LInv, NEW a \in Actors, Acts(a), NoFrontend
  PROVE  \/ UNCHANGED proxyVars
         \/ proxy' = 0
         \/ (proxy' = proxy /\ proxyStuck' = TRUE)
         \/ (/\ proxy' = run[a] /\ active = run[a] /\ active' = active
             /\ (pc[a] = "apply" /\ pc'[a] = "done") \/ (pc[a] = "lproxy" /\ pc'[a] = "laccept"))
<1>0. IInv /\ EndIsActive /\ pc \in [Actors -> Labels]
  BY DEF LInv, Outcomes, IInv, Controls
<1> USE DEF ClearProxy, Goto, proxyVars
<1>1. CASE LaunchStep(a)
  BY <1>1
  DEF LaunchStep, LaunchEnter, LaunchClaim, LaunchWire, LaunchRefusedByOs, LaunchSpawn, LaunchReady,
      LaunchRegate, LaunchFallback, LaunchFinish, LaunchAccept, LaunchNotAccepted, StopReap, Finalize
<1>2. CASE RequestActs(a)
  <2>1. CASE ApplyProxy(a)
    BY <1>0, <2>1 DEF ApplyProxy
  <2>2. CASE FrontendProxy(a)
    BY <2>2 DEF FrontendProxy, NoFrontend
  <2> QED
    BY <1>2, <2>1, <2>2
    DEF RequestActs, BeginManual, BeginStop, LaunchAbandoned, RequestStep, Handoff, PreStop,
        ResetAfter, StopEnter, ResetEnter, ResetAll, SelectEnter, SelectApi
<1>3. CASE a = Rec /\ (RecoveryStep \/ Reconnect)
  <2>1. CASE LaunchRecoveryProxy /\ tok.proxy
    BY <1>0, <1>3, <2>1 DEF LaunchRecoveryProxy, EndIsActive, Ending
  <2>2. CASE LaunchRecoveryProxy /\ ~tok.proxy
    <3>1. proxy' = proxy
      BY <2>2 DEF LaunchRecoveryProxy
    <3>2. proxyStuck' = proxyStuck
      BY <1>0, <2>2 DEF LaunchRecoveryProxy, IInv, Flags
    <3> QED
      BY <3>1, <3>2
  <2> QED
    BY <1>3, <2>1, <2>2 DEF RecoveryStep, Reconnect, LaunchPhysical, LaunchRecheck
<1> QED
  BY <1>1, <1>2, <1>3 DEF Acts

\* When a run ends or begins the proxy was not its own, or is cleared.
LEMMA ActiveMoves ==
  ASSUME LInv, StoppedIsIdle, NEW a \in Actors, Acts(a), active' # active
  PROVE  \/ (UNCHANGED proxyVars /\ active = run[a] /\ pc[a] \in Undecided)
         \/ (UNCHANGED proxyVars /\ active = 0)
         \/ proxy' = 0
         \/ proxyStuck' = TRUE
<1>0. IInv /\ EndIsActive
  BY DEF LInv, Outcomes
<1> USE DEF ClearProxy, proxyVars, runVars, Undecided, Launch, Prelaunch, Readying
<1>1. CASE LaunchClaim(a)
  <2>1. status = "Stopped" /\ UNCHANGED proxyVars /\ pc[a] = "lclaim"
    BY <1>0, <1>1 DEF LaunchClaim, GiveUp, IInv, Controls
  <2>2. \A b \in Actors : pc[b] # "lrespawn"
    BY <1>0, <2>1 DEF IInv, GateHeld, Holding
  <2> QED
    BY <2>1, <2>2 DEF StoppedIsIdle
<1>2. CASE LaunchWire(a) \/ LaunchRefusedByOs(a)
  BY <1>2 DEF LaunchWire, LaunchRefusedByOs, AbortStart
<1>3. CASE LaunchRegate(a) \/ LaunchFallback(a) \/ LaunchFinish(a)
  BY <1>3 DEF LaunchRegate, LaunchFallback, LaunchFinish, Discard, Superseded
<1>4. CASE StopReap(a)
  BY <1>4 DEF StopReap, Finalize
<1>5. CASE a \in Reqs /\ RequestActs(a)
  BY <1>5
  DEF RequestActs, BeginManual, BeginStop, LaunchAbandoned, RequestStep, Handoff, PreStop, ApplyProxy,
      FrontendProxy, ResetAfter, StopEnter, ResetEnter, ResetAll, SelectEnter, SelectApi
<1>6. CASE a = Rec /\ (RecoveryStep \/ Reconnect)
  BY <1>6 DEF RecoveryStep, Reconnect, LaunchPhysical, LaunchRecheck, LaunchRecoveryProxy
<1> QED
  BY <1>1, <1>2, <1>3, <1>4, <1>5, <1>6
  DEF Acts, LaunchStep, LaunchEnter, LaunchSpawn, LaunchReady, LaunchAccept, LaunchNotAccepted

\* A run ends with the stopped state, and the fallback's begins in it.
LEMMA StoppedMoves ==
  ASSUME LInv, NEW a \in Actors, Acts(a), status' = "Stopped"
  PROVE  \/ active' = 0
         \/ pc'[a] = "lrespawn"
         \/ (status = "Stopped" /\ active' = active /\ pc[a] # "lrespawn")
<1>0. IInv /\ EndIsActive /\ pc \in [Actors -> Labels]
  BY DEF LInv, Outcomes, IInv, Controls
<1> USE DEF runVars, Goto
<1>1. CASE LaunchClaim(a)
  BY <1>1 DEF LaunchClaim
<1>2. CASE LaunchWire(a) \/ LaunchRefusedByOs(a)
  BY <1>0, <1>2
  DEF LaunchWire, LaunchRefusedByOs, AbortStart, IInv, Lifecycle, BeforeSpawn, Prelaunch
<1>3. CASE LaunchRegate(a) \/ LaunchFallback(a) \/ LaunchFinish(a)
  BY <1>0, <1>3 DEF LaunchRegate, LaunchFallback, LaunchFinish, Discard
<1>4. CASE StopReap(a)
  BY <1>4 DEF StopReap, Finalize
<1>5. CASE LaunchNotAccepted(a)
  BY <1>5 DEF LaunchNotAccepted, StopAndGiveUp, TakeChild
<1>6. CASE a \in Reqs /\ RequestActs(a)
  BY <1>6
  DEF RequestActs, BeginManual, BeginStop, LaunchAbandoned, RequestStep, Handoff, PreStop, ApplyProxy,
      FrontendProxy, ResetAfter, StopEnter, ResetEnter, ResetAll, SelectEnter, SelectApi, TakeChild
<1>7. CASE a = Rec /\ (RecoveryStep \/ Reconnect)
  BY <1>7
  DEF RecoveryStep, Reconnect, LaunchPhysical, LaunchRecheck, LaunchRecoveryProxy, StopAndGiveUp, TakeChild
<1> QED
  BY <1>1, <1>2, <1>3, <1>4, <1>5, <1>6, <1>7
  DEF Acts, LaunchStep, LaunchEnter, LaunchSpawn, LaunchReady, LaunchAccept

\* Only the windows of frontend mode apply the proxy on their own.
LEMMA FrontendStep ==
  ASSUME BackendProxy, LInv, NoFrontend, NEW a \in Actors, Acts(a)
  PROVE  pc'[a] # "fproxy"
<1>0. pc \in [Actors -> Labels] /\ "frontend" \notin ProxyModes
  BY DEF LInv, IInv, Controls, BackendProxy
<1> USE <1>0 DEF NoFrontend, Report, Goto, GiveUp, StopAndGiveUp, TakeChild, AfterFailure
<1>1. CASE LaunchAccept(a)
  BY <1>1, ChoiceAssumption DEF LaunchAccept, AllModes
<1>2. CASE LaunchStep(a) /\ ~LaunchAccept(a) /\ ~StopReap(a)
  BY <1>2
  DEF LaunchStep, LaunchEnter, LaunchClaim, LaunchWire, LaunchRefusedByOs, LaunchSpawn, LaunchReady,
      LaunchRegate, LaunchFallback, LaunchFinish, LaunchNotAccepted
<1>3. CASE StopReap(a)
  BY <1>3 DEF StopReap, LInv, IInv, Controls
<1>4. CASE RequestActs(a)
  BY <1>4
  DEF RequestActs, BeginManual, BeginStop, LaunchAbandoned, RequestStep, Handoff, PreStop, ApplyProxy,
      FrontendProxy, ResetAfter, StopEnter, ResetEnter, SelectEnter, SelectApi
<1>5. CASE a = Rec /\ (RecoveryStep \/ Reconnect)
  BY <1>5 DEF RecoveryStep, Reconnect, LaunchPhysical, LaunchRecheck, LaunchRecoveryProxy
<1> QED
  BY <1>1, <1>2, <1>3, <1>4, <1>5 DEF Acts

\* A task gets into a launch by claiming a new run.
LEMMA LaunchEntered ==
  ASSUME LInv, NEW a \in Actors, Acts(a), run'[a] = run[a]
  PROVE  /\ pc'[a] \in Undecided => pc[a] \in Undecided
         /\ pc'[a] \in Launch \cup {"apply"} => pc[a] \in Launch
<1>0. pc \in [Actors -> Labels] /\ run \in [Actors -> Nat] /\ nextRun \in Nat /\ run[a] <= nextRun
  BY DEF LInv, IInv, Controls, Numbers, Lifecycle, RunsInOrder
<1> USE <1>0
    DEF Undecided, Launch, Prelaunch, Readying, Report, Goto, GiveUp, StopAndGiveUp, TakeChild, AfterFailure
<1>1. CASE LaunchStep(a)
  <2>1. CASE LaunchClaim(a)
    BY <2>1 DEF LaunchClaim
  <2>2. CASE StopReap(a)
    BY <2>2 DEF StopReap, LInv, IInv, Controls
  <2>3. CASE LaunchAccept(a)
    BY <2>3, ChoiceAssumption DEF LaunchAccept, AllModes
  <2> QED
    BY <1>1, <2>1, <2>2, <2>3
    DEF LaunchStep, LaunchEnter, LaunchWire, LaunchRefusedByOs, LaunchSpawn, LaunchReady,
        LaunchRegate, LaunchFallback, LaunchFinish, LaunchNotAccepted
<1>2. CASE RequestActs(a)
  BY <1>2
  DEF RequestActs, BeginManual, BeginStop, LaunchAbandoned, RequestStep, Handoff, PreStop, ApplyProxy,
      FrontendProxy, ResetAfter, StopEnter, ResetEnter, SelectEnter, SelectApi
<1>3. CASE a = Rec /\ (RecoveryStep \/ Reconnect)
  BY <1>3 DEF RecoveryStep, Reconnect, LaunchPhysical, LaunchRecheck, LaunchRecoveryProxy
<1> QED
  BY <1>1, <1>2, <1>3 DEF Acts

\* Run identifiers only grow.
LEMMA RunsGrow ==
  ASSUME LInv, Next
  PROVE  nextRun \in Nat /\ nextRun' \in {nextRun, nextRun + 1}
<1>0. nextRun \in Nat
  BY DEF LInv, IInv, Numbers
<1> USE DEF runVars
<1>1. ASSUME NEW a \in Actors, LaunchStep(a)
      PROVE  nextRun' \in {nextRun, nextRun + 1}
  BY <1>1
  DEF LaunchStep, LaunchEnter, LaunchClaim, LaunchWire, LaunchRefusedByOs, LaunchSpawn, LaunchReady,
      LaunchRegate, LaunchFallback, LaunchFinish, LaunchAccept, LaunchNotAccepted, StopReap
<1>2. ASSUME NEW r \in Reqs, RequestActs(r)
      PROVE  nextRun' = nextRun
  BY <1>2
  DEF RequestActs, BeginManual, BeginStop, LaunchAbandoned, RequestStep, Handoff, PreStop, ApplyProxy,
      FrontendProxy, ResetAfter, StopEnter, ResetEnter, ResetAll, SelectEnter, SelectApi
<1>3. CASE RecoveryStep \/ Reconnect
  BY <1>0, <1>3 DEF RecoveryStep, Reconnect, LaunchPhysical, LaunchRecheck, LaunchRecoveryProxy
<1>4. CASE System
  BY <1>0, <1>4, SystemStays DEF LInv
<1> QED
  BY <1>0, <1>1, <1>2, <1>3, <1>4, StepBy DEF Acts

\* A reaper or the watcher that ends the active run leaves no proxy behind.
LEMMA SystemEnds ==
  ASSUME LInv, System
  PROVE  /\ reapers' \subseteq reapers
         /\ \/ (UNCHANGED proxyVars /\ (active' = active \/ active \in reapers))
            \/ proxy' = 0
            \/ (proxy' = proxy /\ proxyStuck' = TRUE)
<1> USE DEF proxyVars, runVars, ClearProxy
<1>1. CASE RecoveryEvent \/ SetEnabled \/ Wake \/ CatalogMutation \/ \E n \in live : Exit(n)
  <2>1. UNCHANGED <<reapers, proxy, proxyStuck, active>>
    BY <1>1 DEF RecoveryEvent, SetEnabled, Wake, CatalogMutation, Exit
  <2> QED
    BY <2>1
<1>2. CASE WatcherStep
  <2>1. CASE WatchObserve \/ WatchTake
    <3>1. UNCHANGED <<reapers, proxy, proxyStuck, active>>
      BY <2>1 DEF WatchObserve, WatchTake
    <3> QED
      BY <3>1
  <2>2. CASE WatchFinalize
    BY <2>2 DEF WatchFinalize, Finalize
  <2> QED
    BY <1>2, <2>1, <2>2 DEF WatcherStep
<1>3. ASSUME NEW n \in reapers, Reap(n)
      PROVE  /\ reapers' \subseteq reapers /\ UNCHANGED proxyVars
             /\ active' = active \/ active \in reapers
  BY <1>3 DEF Reap, Discard
<1> QED
  BY <1>1, <1>2, <1>3 DEF System

\* The system changes the status only to end a run.
LEMMA ProxySystemStep ==
  ASSUME LInv, ProxyInv, System
  PROVE  ProxyInv'
<1>0. /\ UNCHANGED <<pc, run, nextRun>> /\ reapers' \subseteq reapers
      /\ UNCHANGED <<status, active>> \/ (status' = "Stopped" /\ active' = 0)
      /\ \/ (UNCHANGED proxyVars /\ (active' = active \/ active \in reapers))
         \/ proxy' = 0
         \/ (proxy' = proxy /\ proxyStuck' = TRUE)
  BY SystemStays, SystemEnds DEF LInv
<1>1. StoppedIsIdle' /\ NoFrontend'
  BY <1>0 DEF ProxyInv, StoppedIsIdle, NoFrontend
<1>2. proxy' \in {0, proxy}
  BY <1>0 DEF proxyVars
<1>3. \A a \in Actors : pc[a] \in Launch => run[a] # 0
  BY LaunchHasRun DEF LInv, Outcomes
<1>4. ProxySettled'
  BY <1>0, <1>2, <1>3 DEF ProxyInv, ProxySettled, LInv, IInv, Numbers
<1>5. ProxyIsActive'
  BY <1>0 DEF ProxyInv, ProxySettled, ProxyIsActive, proxyVars
<1> QED
  BY <1>1, <1>4, <1>5 DEF ProxyInv

\* Every actor keeps the proxy with the active run.
LEMMA ProxyActorStep ==
  ASSUME BackendProxy, LInv, ProxyInv, NEW a \in Actors, Acts(a), Next
  PROVE  ProxyInv'
<1>0. /\ IInv /\ Only(a) /\ NoFrontend /\ StoppedIsIdle
      /\ run \in [Actors -> Nat] /\ proxy \in Nat /\ reapers \subseteq Nat /\ nextRun \in Nat
      /\ nextRun' \in {nextRun, nextRun + 1}
  BY OthersStay, RunsGrow DEF LInv, ProxyInv, IInv, Numbers
<1>1. \A b \in Actors : pc[b] \in Launch => run[b] # 0
  BY LaunchHasRun DEF LInv, Outcomes
<1>2. \/ UNCHANGED proxyVars
      \/ proxy' = 0
      \/ (proxy' = proxy /\ proxyStuck' = TRUE)
      \/ (/\ proxy' = run[a] /\ active = run[a] /\ active' = active
          /\ (pc[a] = "apply" /\ pc'[a] = "done") \/ (pc[a] = "lproxy" /\ pc'[a] = "laccept"))
  BY <1>0, ProxyMoves
<1>3. \/ reapers' = reapers
      \/ (/\ reapers' = reapers \cup {run[a]} /\ run'[a] = run[a]
          /\ pc[a] \in Undecided /\ pc'[a] \in {"idle", "rgate", "done"})
  BY ReaperSpawned
<1>4. \/ (run'[a] = nextRun + 1 /\ pc'[a] \in Prelaunch)
      \/ (/\ run'[a] = run[a]
          /\ pc'[a] \in Undecided => pc[a] \in Undecided
          /\ pc'[a] \in Launch \cup {"apply"} => pc[a] \in Launch)
  BY <1>0, RunChanged, LaunchEntered
<1>5. NoFrontend'
  BY <1>0, FrontendStep DEF NoFrontend, Only
<1>6. StoppedIsIdle'
  BY <1>0, StoppedMoves DEF StoppedIsIdle, Only
<1>7. ProxyIsActive'
  BY <1>0, <1>2, ActiveMoves DEF ProxyInv, ProxySettled, ProxyIsActive, Undecided, proxyVars
<1>8. \A b \in Actors : b # a => pc'[b] = pc[b] /\ run'[b] = run[b]
  BY <1>0 DEF Only
<1>9. /\ proxy <= nextRun /\ (\A n \in reapers : n # 0 /\ n <= nextRun) /\ proxy \notin reapers
      /\ \A b \in Actors : pc[b] \in Undecided => proxy # run[b]
      /\ \A b \in Actors : pc[b] \in Launch \cup {"apply"} => run[b] \notin reapers
  BY DEF ProxyInv, ProxySettled, Undecided
<1>10. /\ \A b \in Actors : run[b] <= nextRun
       /\ \A b, c \in Actors : run[b] = run[c] /\ run[b] # 0 => b = c
  BY <1>0 DEF IInv, Lifecycle, RunsInOrder, RunsDistinct
<1>11. proxy' \in {0, proxy} \/ (proxy' = run[a] /\ reapers' = reapers /\ pc'[a] \in {"done", "laccept"}
                                /\ pc[a] \in {"apply", "lproxy"})
  BY <1>2, <1>3 DEF proxyVars, Undecided, Launch, Prelaunch, Readying
<1>12. proxy' <= nextRun' /\ \A n \in reapers' : n # 0 /\ n <= nextRun'
  <2>1. proxy' <= nextRun /\ proxy' \in Nat
    BY <1>0, <1>9, <1>10, <1>11
  <2>2. \A n \in reapers' : n # 0 /\ n <= nextRun /\ n \in Nat
    <3>1. \A n \in reapers : n # 0 /\ n <= nextRun /\ n \in Nat
      BY <1>0, <1>9
    <3>2. run[a] <= nextRun /\ run[a] \in Nat
      BY <1>0, <1>10
    <3>3. pc[a] \in Undecided => run[a] # 0
      BY <1>1 DEF Undecided
    <3> QED
      BY <1>3, <3>1, <3>2, <3>3
  <2> QED
    BY <1>0, <2>1, <2>2
<1>13. ASSUME NEW b \in Actors, pc'[b] \in Undecided
       PROVE  proxy' # run'[b]
  <2>1. run'[b] # 0
    BY <1>0, <1>1, <1>4, <1>8, <1>13 DEF Undecided
  <2>2. CASE proxy' = 0
    BY <2>1, <2>2
  <2>3. CASE proxy' = proxy
    BY <1>0, <1>4, <1>8, <1>9, <1>13, <2>3
  <2>4. CASE proxy' = run[a] /\ pc'[a] \in {"done", "laccept"}
    <3>1. a # b
      BY <1>13, <2>4 DEF Undecided, Launch, Prelaunch, Readying
    <3> QED
      BY <1>8, <1>10, <2>1, <2>4, <3>1
  <2> QED
    BY <1>11, <2>2, <2>3, <2>4
<1>14. ASSUME NEW b \in Actors, pc'[b] \in Launch \cup {"apply"}
       PROVE  run'[b] \notin reapers'
  <2>1. CASE reapers' = reapers
    BY <1>0, <1>4, <1>8, <1>9, <1>14, <2>1
  <2>2. CASE reapers' = reapers \cup {run[a]} /\ pc[a] \in Undecided /\ pc'[a] \in {"idle", "rgate", "done"}
    <3>1. a # b
      BY <1>14, <2>2 DEF Launch, Prelaunch, Readying
    <3>2. run[a] # 0
      BY <1>1, <2>2 DEF Undecided
    <3> QED
      BY <1>8, <1>9, <1>10, <1>14, <2>2, <3>1, <3>2
  <2> QED
    BY <1>3, <2>1, <2>2
<1>15. proxy' \notin reapers'
  <2>1. CASE proxy' \in {0, proxy}
    BY <1>1, <1>3, <1>9, <2>1 DEF Undecided
  <2>2. CASE proxy' = run[a] /\ reapers' = reapers /\ pc[a] \in {"apply", "lproxy"}
    BY <1>9, <2>2 DEF Launch
  <2> QED
    BY <1>11, <2>1, <2>2
<1>16. ProxySettled'
  BY <1>12, <1>13, <1>14, <1>15 DEF ProxySettled, Undecided
<1> QED
  BY <1>5, <1>6, <1>7, <1>16 DEF ProxyInv

\* Between transitions the system proxy points at the active run's engine, or could
\* not be cleared (ProxyFollowsEngine), as long as the backend applies it: the window
\* that does it in a call of its own after the launch names the run it started, which
\* may be over by then.
THEOREM ProxyFollows ==
  ASSUME BackendProxy
  PROVE  Spec => []ProxyFollowsEngine
<1>1. Init => LInv /\ ProxyInv
  <2>1. Init => ProxyInv
    BY DEF Init, ProxyInv, StoppedIsIdle, ProxySettled, ProxyIsActive, NoFrontend, Launch, Prelaunch,
           Readying
  <2> QED
    BY <2>1, InitInvariant, InitOutcomes DEF LInv
<1>2. LInv /\ ProxyInv /\ [Next]_vars => (LInv /\ ProxyInv)'
  <2> SUFFICES ASSUME LInv, ProxyInv, [Next]_vars PROVE LInv' /\ ProxyInv'
    OBVIOUS
  <2>1. CASE Next
    BY <2>1, StepOutcomes, StepBy, ProxySystemStep, ProxyActorStep
  <2>2. CASE UNCHANGED vars
    <3>1. ProxyInv'
      BY <2>2
      DEF ProxyInv, StoppedIsIdle, ProxySettled, ProxyIsActive, NoFrontend, vars, proxyVars, runVars,
          taskVars
    <3> QED
      BY <2>2, <3>1, StepOutcomes
  <2> QED
    BY <2>1, <2>2
<1>3. LInv /\ ProxyInv => ProxyFollowsEngine
  BY DEF ProxyInv, ProxyIsActive, ProxyFollowsEngine
<1> QED
  BY <1>1, <1>2, <1>3, PTL DEF Spec

-----------------------------------------------------------------------------
(* The promise about engine processes.                                     *)

\* A run is accepted once, at the end of its launch: the next run is a new one.
FreshRuns ==
  /\ \A n \in acceptedRuns : n <= nextRun
  /\ \A a \in Actors : pc[a] \in Launch => run[a] \notin acceptedRuns

OwnerInv == LInv /\ FreshRuns

Begins(a) == a \in Reqs /\ (BeginManual(a) \/ BeginStop(a))
Halted == \E r \in Reqs : Stopped(r)

\* Only accept_checked accepts a run.
LEMMA OnlyAccepts ==
  ASSUME NEW a \in Actors, Acts(a), ~LaunchAccept(a)
  PROVE  acceptedRuns' = acceptedRuns
<1> USE DEF intentVars
<1>1. CASE LaunchStep(a)
  BY <1>1
  DEF LaunchStep, LaunchEnter, LaunchClaim, LaunchWire, LaunchRefusedByOs, LaunchSpawn, LaunchReady,
      LaunchRegate, LaunchFallback, LaunchFinish, LaunchNotAccepted, StopReap
<1>2. CASE RequestActs(a)
  BY <1>2
  DEF RequestActs, BeginManual, BeginStop, LaunchAbandoned, RequestStep, Handoff, PreStop, ApplyProxy,
      FrontendProxy, ResetAfter, StopEnter, ResetEnter, SelectEnter, SelectApi
<1>3. CASE RecoveryStep \/ Reconnect
  BY <1>3 DEF RecoveryStep, Reconnect, LaunchPhysical, LaunchRecheck, LaunchRecoveryProxy
<1> QED
  BY <1>1, <1>2, <1>3 DEF Acts

\* Acceptance ends the launch.
LEMMA AcceptEnds ==
  ASSUME LInv, NEW a \in Actors, LaunchAccept(a)
  PROVE  /\ acceptedRuns' = acceptedRuns \cup {run[a]} /\ run' = run
         /\ pc[a] = "laccept" /\ pc'[a] \notin Launch
<1>1. pc \in [Actors -> Labels]
  BY DEF LInv, IInv, Controls
<1> QED
  BY <1>1, ChoiceAssumption
  DEF LaunchAccept, Report, Goto, Launch, Prelaunch, Readying, taskVars, AllModes

\* Every step keeps the runs fresh: a launch claims a run above all others.
LEMMA FreshStep ==
  ASSUME LInv, FreshRuns, Next
  PROVE  FreshRuns'
<1>0. /\ IInv /\ EndIsActive /\ RunsDistinct /\ nextRun \in Nat /\ acceptedRuns \subseteq Nat
      /\ nextRun' \in {nextRun, nextRun + 1}
      /\ \A a \in Actors : run[a] \in Nat /\ run[a] <= nextRun
  BY RunsGrow DEF LInv, Outcomes, IInv, Lifecycle, Numbers, RunsInOrder
<1>1. CASE System
  BY <1>0, <1>1, SystemStays DEF FreshRuns
<1>2. ASSUME NEW a \in Actors, Acts(a)
      PROVE  FreshRuns'
  <2>0. Only(a)
    BY <1>0, <1>2, OthersStay
  <2>1. CASE LaunchAccept(a)
    <3>1. \A b \in Actors : b # a /\ pc[b] \in Launch => run[b] # run[a]
      BY <1>0, <2>1, LaunchHasRun DEF RunsDistinct
    <3>2. /\ acceptedRuns' = acceptedRuns \cup {run[a]} /\ run' = run
          /\ pc[a] = "laccept" /\ pc'[a] \notin Launch
      BY <2>1, AcceptEnds
    <3>3. \A n \in acceptedRuns' : n <= nextRun'
      BY <1>0, <3>2 DEF FreshRuns
    <3>4. ASSUME NEW b \in Actors, pc'[b] \in Launch PROVE run'[b] \notin acceptedRuns'
      BY <2>0, <3>1, <3>2, <3>4 DEF FreshRuns, Only
    <3> QED
      BY <3>3, <3>4 DEF FreshRuns
  <2>2. CASE ~LaunchAccept(a)
    <3>1. acceptedRuns' = acceptedRuns
      BY <1>2, <2>2, OnlyAccepts
    <3>2. ASSUME pc'[a] \in Launch PROVE run'[a] \notin acceptedRuns
      <4>1. CASE run'[a] = run[a]
        BY <1>2, <3>2, <4>1, LaunchEntered DEF FreshRuns
      <4>2. CASE run'[a] # run[a]
        BY <1>0, <1>2, <4>2, RunChanged DEF FreshRuns
      <4> QED
        BY <4>1, <4>2
    <3> QED
      BY <1>0, <2>0, <3>1, <3>2 DEF FreshRuns, Only
  <2> QED
    BY <2>1, <2>2
<1> QED
  BY <1>1, <1>2, StepBy

\* The fresh runs and the launches' invariant hold throughout.
LEMMA OwnerInvariance == Spec => []OwnerInv
<1>1. Init => OwnerInv
  <2>1. Init => FreshRuns
    BY DEF Init, FreshRuns, Launch, Prelaunch, Readying
  <2> QED
    BY <2>1, InitInvariant, InitOutcomes DEF OwnerInv, LInv
<1>2. OwnerInv /\ [Next]_vars => OwnerInv'
  <2>1. FreshRuns /\ UNCHANGED vars => FreshRuns'
    BY DEF FreshRuns, vars, runVars, intentVars, taskVars
  <2> QED
    BY <2>1, StepOutcomes, FreshStep DEF OwnerInv
<1> QED
  BY <1>1, <1>2, PTL DEF Spec

-----------------------------------------------------------------------------
(* When a stop counts as returned.                                         *)

\* After its beginning a command keeps what it is and its ticket, and one that returned
\* does nothing more.
LEMMA KeepsTicket ==
  ASSUME LInv, NEW a \in Actors, Acts(a), ~Begins(a)
  PROVE  UNCHANGED <<kind, ticket, readyEpoch>> /\ pc[a] # "done"
<1> USE DEF taskVars, ticketVars, Begins
<1>1. CASE LaunchStep(a)
  <2>1. UNCHANGED <<kind, ticket, readyEpoch>>
    BY <1>1
    DEF LaunchStep, LaunchEnter, LaunchClaim, LaunchWire, LaunchRefusedByOs, LaunchSpawn, LaunchReady,
        LaunchRegate, LaunchFallback, LaunchFinish, LaunchAccept, LaunchNotAccepted, StopReap
  <2>2. pc[a] # "done"
    BY <1>1
    DEF LaunchStep, LaunchEnter, LaunchClaim, LaunchWire, LaunchRefusedByOs, LaunchSpawn, LaunchReady,
        LaunchRegate, LaunchFallback, LaunchFinish, LaunchAccept, LaunchNotAccepted, StopReap
  <2> QED
    BY <2>1, <2>2
<1>2. CASE a \in Reqs /\ RequestActs(a)
  <2>1. UNCHANGED <<kind, ticket, readyEpoch>>
    BY <1>2
    DEF RequestActs, LaunchAbandoned, RequestStep, Handoff, PreStop, ApplyProxy,
        FrontendProxy, ResetAfter, StopEnter, ResetEnter, SelectEnter, SelectApi
  <2>2. pc[a] # "done"
    BY <1>2
    DEF RequestActs, LaunchAbandoned, RequestStep, Handoff, PreStop, ApplyProxy,
        FrontendProxy, ResetAfter, StopEnter, ResetEnter, SelectEnter, SelectApi
  <2> QED
    BY <2>1, <2>2
<1>3. CASE a = Rec /\ (RecoveryStep \/ Reconnect)
  <2>1. UNCHANGED <<kind, ticket, readyEpoch>>
    BY <1>3 DEF RecoveryStep, Reconnect, LaunchPhysical, LaunchRecheck, LaunchRecoveryProxy
  <2>2. pc[a] # "done"
    BY <1>3 DEF RecoveryStep, Reconnect, LaunchPhysical, LaunchRecheck, LaunchRecoveryProxy
  <2> QED
    BY <2>1, <2>2
<1> QED
  BY <1>1, <1>2, <1>3 DEF Acts

Returns(a) == a \in Reqs /\ Stopper(a) /\ ticket[a] = readyEpoch /\ pc'[a] = "done"

\* Only the return of the newest stop or reset makes it count as returned.
LEMMA HaltedStays ==
  ASSUME LInv, NEW a \in Actors, Acts(a), ~Begins(a)
  PROVE  Halted' <=> Halted \/ Returns(a)
<1>1. UNCHANGED <<kind, ticket, readyEpoch>> /\ pc[a] # "done" /\ Only(a)
  BY KeepsTicket, OthersStay DEF LInv
<1>2. \A r \in Reqs : r # a => (Stopped(r)' <=> Stopped(r))
  BY <1>1 DEF Stopped, Only, Actors
<1>3. a \in Reqs => ~Stopped(a) /\ (Stopped(a)' <=> Returns(a))
  BY <1>1 DEF Stopped, Returns, Stopper
<1>4. a \notin Reqs => ~Returns(a)
  BY DEF Returns
<1> QED
  BY <1>2, <1>3, <1>4 DEF Halted

\* The beginning of a request outdates every stop.
LEMMA BeginsAnew ==
  ASSUME LInv, NEW a \in Reqs, BeginManual(a) \/ BeginStop(a)
  PROVE  ~Halted' /\ UNCHANGED <<live, orphans, acceptedRuns>>
<1>0. readyEpoch \in Nat /\ ticket \in [Actors -> Nat] /\ pc \in [Actors -> Labels]
      /\ \A r \in Reqs : r \in Actors /\ ticket[r] <= readyEpoch
  BY DEF LInv, IInv, Numbers, Controls, StopOrder, Tickets, Actors
<1>1. /\ readyEpoch' = readyEpoch + 1 /\ ticket' = [ticket EXCEPT ![a] = readyEpoch + 1]
      /\ UNCHANGED <<live, orphans, acceptedRuns>>
  BY DEF BeginManual, BeginStop, osVars
<1>2. pc'[a] # "done"
  BY <1>0 DEF BeginManual, BeginStop, Goto
<1>3. \A r \in Reqs : r # a => ticket'[r] # readyEpoch'
  BY <1>0, <1>1
<1> QED
  BY <1>1, <1>2, <1>3 DEF Halted, Stopped

-----------------------------------------------------------------------------
(* What a step does to the engine processes.                               *)

\* While a task is in the gate, or the gate is free, no other task holds a child.
LEMMA SlotOrDying ==
  ASSUME LInv, NEW n \in live, n \notin orphans
  PROVE  n = slot \/ \E a \in Actors : gate = a /\ pc[a] = "stopping" /\ victim[a] = n /\ slot = 0
BY DEF LInv, IInv, Numbers, Lifecycle, OwnedEach, VictimHeld, GateHeld, Holding

\* With the gate free or in the hands of a task that stops nothing, the only engine is
\* the one in the slot, and it is the active run's.
LEMMA OwnedIsSlot ==
  ASSUME LInv, NEW a \in Actors, gate \in {Free, a}, pc[a] # "stopping"
  PROVE  live \ orphans \subseteq {slot} /\ live \ orphans \subseteq {active}
<1>1. \A b \in Actors : gate = b => b = a
  BY ActorAssumption
<1>2. live \ orphans \subseteq {slot}
  BY <1>1, SlotOrDying
<1>3. slot # 0 => slot = active
  BY DEF LInv, IInv, Lifecycle, SlotIsActive
<1> QED
  BY <1>2, <1>3 DEF LInv, IInv, Numbers

\* Killed and awaited, killed and not awaited, or nothing.
Ends == \E n \in live \ orphans : live' = live \ {n} /\ orphans' = orphans
Drops ==
  /\ live' = live /\ orphans' = live /\ live \ orphans # {}
Same == live' = live /\ orphans' = orphans

\* Discarding a starting child kills the engine if it was the active one's.
LEMMA DiscardOwns ==
  ASSUME LInv, NEW a \in Actors, gate \in {Free, a}, pc[a] # "stopping",
         NEW n \in Nat \ {0}, NEW t \in Waits(n), Discard(n, t)
  PROVE  Ends \/ Drops \/ Same
<1>0. /\ live \ orphans \subseteq {slot} /\ live \ orphans \subseteq {active}
      /\ active \notin orphans /\ orphans \subseteq live
  BY OwnedIsSlot DEF LInv, IInv, Numbers, Lifecycle, OrphansInactive
<1>1. CASE active # n
  BY <1>1 DEF Discard, Same
<1>2. CASE active = n /\ t = TRUE
  <2>1. n \in live /\ slot = n /\ orphans' = orphans \cup {n} /\ live' = live
    BY <1>2 DEF Discard, Waits
  <2> QED
    BY <1>0, <1>2, <2>1 DEF Drops
<1>3. CASE active = n /\ t = FALSE
  <2>1. orphans' = orphans /\ live' = (IF slot = n THEN live \ {n} ELSE live)
    BY <1>3 DEF Discard
  <2>2. CASE slot = n /\ n \in live
    BY <1>0, <1>3, <2>1, <2>2 DEF Ends
  <2>3. CASE ~(slot = n /\ n \in live)
    BY <2>1, <2>3 DEF Same
  <2> QED
    BY <2>2, <2>3
<1>4. t = TRUE \/ t = FALSE
  BY DEF Waits
<1> QED
  BY <1>1, <1>2, <1>3, <1>4

\* A reset drops the child in the slot, if there is one.
LEMMA ResetOwns ==
  ASSUME LInv, gate = Free, ResetAll
  PROVE  (Drops \/ Same) /\ live' \ orphans' = {}
<1>1. Rec \in Actors /\ pc[Rec] # "stopping"
  BY ActorAssumption DEF LInv, IInv, GateHeld, Holding, Actors
<1>2. live \ orphans \subseteq {slot} /\ orphans \subseteq live
  BY <1>1, OwnedIsSlot DEF LInv, IInv, Numbers
<1>3. live' = live /\ orphans' = orphans \cup ({slot} \cap live)
  BY DEF ResetAll, DropChild
<1> QED
  BY <1>2, <1>3 DEF Drops, Same

-----------------------------------------------------------------------------
(* The mapping of the steps.                                               *)

Stays == acceptedRuns' = acceptedRuns

\* Without the return of a stop, what happens to processes is Exit, Dismiss or nothing.
LEMMA MapsProcess ==
  ASSUME LInv, Stays, Ends \/ Drops \/ Same, Halted' <=> Halted
  PROVE  [Owner!Next]_(Owner!vars)
<1>0. (\E r \in Reqs : Stopped(r))' = (\E r \in Reqs : Stopped(r)) /\ acceptedRuns' = acceptedRuns
  BY DEF Halted, Stays
<1>1. orphans \subseteq live
  BY DEF LInv, IInv, Numbers
<1>2. CASE Ends
  <2>1. PICK n \in live \ orphans : live' = live \ {n} /\ orphans' = orphans
    BY <1>2 DEF Ends
  <2>2. (live \ orphans)' = (live \ orphans) \ {n} /\ orphans' = orphans \ {n}
    BY <2>1
  <2>3. Owner!Exit
    BY <1>0, <2>2, <2>1 DEF Owner!Exit
  <2> QED
    BY <2>3 DEF Owner!Next
<1>3. CASE Drops
  <2>1. /\ live \ orphans # {} /\ (live \ orphans)' = {} /\ orphans' = orphans \cup (live \ orphans)
    BY <1>1, <1>3 DEF Drops
  <2>2. Owner!Dismiss
    BY <1>0, <2>1 DEF Owner!Dismiss
  <2> QED
    BY <2>2 DEF Owner!Next
<1>4. CASE Same
  <2>1. (live \ orphans)' = live \ orphans /\ orphans' = orphans
    BY <1>4 DEF Same
  <2>2. UNCHANGED Owner!vars
    BY <1>0, <2>1 DEF Owner!vars
  <2> QED
    BY <2>2
<1> QED
  BY <1>2, <1>3, <1>4

\* When a stop or a reset returns there was no engine, or it is killed in that step.
LEMMA MapsReturn ==
  ASSUME LInv, Stays, Drops \/ (Same /\ live \subseteq orphans), Halted'
  PROVE  Owner!Next
<1>0. (\E r \in Reqs : Stopped(r))' = TRUE /\ acceptedRuns' = acceptedRuns
  BY DEF Halted, Stays
<1>1. orphans \subseteq live
  BY DEF LInv, IInv, Numbers
<1>2. CASE Drops
  <2>1. /\ live \ orphans # {} /\ (live \ orphans)' = {} /\ orphans' = orphans \cup (live \ orphans)
    BY <1>1, <1>2 DEF Drops
  <2>2. Owner!Dismiss
    BY <1>0, <2>1 DEF Owner!Dismiss
  <2> QED
    BY <2>2 DEF Owner!Next
<1>3. CASE Same /\ live \subseteq orphans
  <2>1. live \ orphans = {} /\ (live \ orphans)' = live \ orphans /\ orphans' = orphans
    BY <1>3 DEF Same
  <2>2. Owner!Halt
    BY <1>0, <2>1 DEF Owner!Halt
  <2> QED
    BY <2>2 DEF Owner!Next
<1> QED
  BY <1>2, <1>3

\* While a task that is no returned stop holds the gate, no stop counts as returned.
LEMMA HolderNotHalted ==
  ASSUME LInv, NEW a \in Actors, gate = a, pc[a] # "done"
  PROVE  ~Halted
<1> SUFFICES ASSUME NEW r \in Reqs, Stopped(r) PROVE FALSE
  BY DEF Halted
<1>1. gate \in {Free, r} /\ pc[r] = "done"
  BY DEF LInv, IInv, StopOrder, StopHolds, Stopper, Stopped
<1> QED
  BY <1>1, ActorAssumption

\* Only a stop or a reset in the gate, or at the end of its wait, returns.
LEMMA WhoReturns ==
  ASSUME LInv, NEW a \in Actors, Acts(a), ~Begins(a), Returns(a)
  PROVE  StopEnter(a) \/ ResetEnter(a) \/ StopReap(a)
<1>1. pc[a] \in {"sgate", "stopping", "done"} /\ a \in Reqs
  BY DEF Returns, LInv, IInv, StopOrder, StopLabels
<1>2. CASE LaunchStep(a)
  BY <1>1, <1>2
  DEF LaunchStep, LaunchEnter, LaunchClaim, LaunchWire, LaunchRefusedByOs, LaunchSpawn, LaunchReady,
      LaunchRegate, LaunchFallback, LaunchFinish, LaunchAccept, LaunchNotAccepted
<1>3. CASE RequestActs(a)
  BY <1>1, <1>3
  DEF RequestActs, Begins, LaunchAbandoned, RequestStep, Handoff, PreStop, ApplyProxy,
      FrontendProxy, ResetAfter, SelectEnter, SelectApi
<1>4. a # Rec
  BY <1>1, ActorAssumption
<1> QED
  BY <1>2, <1>3, <1>4 DEF Acts

\* A launch spawns alone, a run that was never accepted.
LEMMA SpawnMaps ==
  ASSUME OwnerInv, NEW a \in Actors, LaunchSpawn(a)
  PROVE  Owner!Next
<1>0. LInv /\ IInv /\ FreshRuns
  BY DEF OwnerInv, LInv
<1>1. slot = 0 /\ gate = a /\ pc[a] \in Prelaunch /\ active = run[a] /\ run[a] # 0
  BY <1>0 DEF LaunchSpawn, IInv, GateHeld, Holding, Lifecycle, BeforeSpawn, Prelaunch
<1>2. live \ orphans = {} /\ run[a] \notin orphans /\ 0 \notin live
  BY <1>0, <1>1, OwnedIsSlot DEF IInv, Numbers, Lifecycle, OrphansInactive, Prelaunch
<1>3. run[a] \notin acceptedRuns
  BY <1>0, <1>1 DEF FreshRuns, Launch
<1>4. live' = live \cup {run[a]} /\ orphans' = orphans /\ acceptedRuns' = acceptedRuns
  BY <1>1, <1>2 DEF LaunchSpawn, DropChild, intentVars
<1>5. (live \ orphans)' = {run[a]}
  BY <1>2, <1>4
<1>6. ~Halted
  BY <1>0, <1>1, HolderNotHalted DEF Prelaunch
<1>7. ~Halted'
  <2>1. Acts(a) /\ ~Begins(a)
    BY <1>1 DEF Acts, LaunchStep, Begins, BeginManual, BeginStop, Prelaunch
  <2>2. ~Returns(a)
    BY <1>0, <1>1 DEF Returns, IInv, StopOrder, StopLabels, Prelaunch
  <2> QED
    BY <1>0, <1>6, <2>1, <2>2, HaltedStays
<1>8. (\E r \in Reqs : Stopped(r)) = FALSE /\ (\E r \in Reqs : Stopped(r))' = FALSE
  BY <1>6, <1>7 DEF Halted
<1>9. Owner!Spawn
  BY <1>2, <1>3, <1>4, <1>5, <1>8 DEF Owner!Spawn
<1> QED
  BY <1>9 DEF Owner!Next

\* The run that is accepted is the one in the slot, or its process just exited.
LEMMA AcceptMaps ==
  ASSUME OwnerInv, NEW a \in Actors, LaunchAccept(a)
  PROVE  Owner!Next
<1>0. LInv /\ IInv /\ FreshRuns
  BY DEF OwnerInv, LInv
<1>1. gate = a /\ pc[a] = "laccept" /\ active = run[a]
  BY <1>0 DEF LaunchAccept, LInv, Outcomes, EndIsActive, Ending, IInv, GateHeld, Holding
<1>2. live \ orphans \subseteq {run[a]}
  BY <1>0, <1>1, OwnedIsSlot
<1>3. acceptedRuns' = acceptedRuns \cup {run[a]} /\ live' = live /\ orphans' = orphans
  BY DEF LaunchAccept, osVars
<1>4. ~Halted
  BY <1>0, <1>1, HolderNotHalted
<1>5. ~Halted'
  <2>1. Acts(a) /\ ~Begins(a)
    BY <1>1 DEF Acts, LaunchStep, Begins, BeginManual, BeginStop
  <2>2. ~Returns(a)
    BY <1>0, <1>1 DEF Returns, IInv, StopOrder, StopLabels
  <2> QED
    BY <1>0, <1>4, <2>1, <2>2, HaltedStays
<1>6. (\E r \in Reqs : Stopped(r)) = FALSE /\ (\E r \in Reqs : Stopped(r))' = FALSE
  BY <1>4, <1>5 DEF Halted
<1>7. Owner!Serve
  BY <1>2, <1>3, <1>6 DEF Owner!Serve
<1> QED
  BY <1>7 DEF Owner!Next

\* Which of the other actions touch a process
LEMMA ProcessSteps ==
  ASSUME LInv, NEW a \in Actors, Acts(a), ~LaunchSpawn(a), ~LaunchAccept(a)
  PROVE  Stays /\ (Ends \/ Drops \/ Same)
<1>0. IInv /\ Stays /\ run[a] \in Nat /\ EndIsActive
  BY OnlyAccepts DEF LInv, IInv, Numbers, Outcomes, Stays
<1>1. CASE LaunchRegate(a) \/ LaunchFinish(a)
  <2>1. gate \in {Free, a} /\ pc[a] # "stopping" /\ pc[a] \in Launch
    BY <1>0, <1>1 DEF LaunchRegate, LaunchFinish, IInv, GateHeld, Holding, Launch, Readying
  <2>2. run[a] \in Nat \ {0}
    BY <1>0, <2>1, LaunchHasRun
  <2>3. ASSUME NEW t \in Waits(run[a]), Discard(run[a], t)
        PROVE  Ends \/ Drops \/ Same
    BY <2>1, <2>2, <2>3, DiscardOwns
  <2>4. Same \/ \E t \in Waits(run[a]) : Discard(run[a], t)
    BY <1>1 DEF LaunchRegate, LaunchFinish, Same
  <2> QED
    BY <1>0, <2>3, <2>4
<1>2. CASE LaunchFallback(a)
  <2>1. gate \in {Free, a} /\ pc[a] # "stopping" /\ pc[a] \in Launch /\ active = run[a]
    BY <1>2 DEF LaunchFallback, Launch, Readying, Superseded
  <2>2. run[a] \in Nat \ {0} /\ run[a] \notin orphans
    BY <1>0, <2>1, LaunchHasRun DEF IInv, Lifecycle, OrphansInactive
  <2>3. FALSE \in Waits(run[a])
    BY DEF Waits
  <2>4. ASSUME NEW t \in Waits(run[a]), Discard(run[a], t)
        PROVE  Ends \/ Drops \/ Same
    BY <2>1, <2>2, <2>4, DiscardOwns
  <2>5. \/ \E t \in Waits(run[a]) : Discard(run[a], t)
        \/ live' = live \ {run[a]} /\ orphans' = orphans
    BY <1>2, <2>3 DEF LaunchFallback
  <2>6. live' = live \ {run[a]} /\ orphans' = orphans => Ends \/ Same
    BY <2>2 DEF Ends, Same
  <2> QED
    BY <1>0, <2>4, <2>5, <2>6
<1>3. CASE LaunchStep(a) /\ ~LaunchRegate(a) /\ ~LaunchFinish(a) /\ ~LaunchFallback(a)
  BY <1>0, <1>3
  DEF LaunchStep, LaunchEnter, LaunchClaim, LaunchWire, LaunchRefusedByOs, LaunchReady,
      LaunchNotAccepted, StopReap, Same, osVars
<1>4. CASE RequestActs(a) /\ (ResetAfter(a) \/ ResetEnter(a))
  <2>1. gate = Free /\ (ResetAll \/ Same)
    BY <1>4 DEF ResetAfter, ResetEnter, Same, osVars
  <2> QED
    BY <1>0, <2>1, ResetOwns
<1>5. CASE RequestActs(a) /\ ~ResetAfter(a) /\ ~ResetEnter(a)
  BY <1>0, <1>5
  DEF RequestActs, BeginManual, BeginStop, LaunchAbandoned, RequestStep, Handoff, PreStop, ApplyProxy,
      FrontendProxy, StopEnter, SelectEnter, SelectApi, Same, osVars
<1>6. CASE RecoveryStep \/ Reconnect
  BY <1>0, <1>6
  DEF RecoveryStep, Reconnect, LaunchPhysical, LaunchRecheck, LaunchRecoveryProxy, Same, osVars
<1> QED
  BY <1>1, <1>2, <1>3, <1>4, <1>5, <1>6 DEF Acts, LaunchStep

\* When the newest stop or reset returns, no engine is left that was not killed.
LEMMA ReturnMaps ==
  ASSUME LInv, NEW a \in Actors, Acts(a), ~Begins(a), Returns(a)
  PROVE  Stays /\ (Drops \/ (Same /\ live \subseteq orphans))
<1>0. IInv /\ a \in Reqs /\ Stopper(a) /\ ticket[a] = readyEpoch
  BY DEF LInv, Returns
<1>1. CASE StopEnter(a)
  <2>1. pc[a] = "sgate" /\ gate = Free /\ Same /\ Stays
    BY <1>1 DEF StopEnter, Same, Stays, osVars, intentVars
  <2>2. pc'[a] = "done" /\ pc \in [Actors -> Labels]
    BY <1>0 DEF Returns, IInv, Controls
  <2>3. slot = 0
    BY <1>0, <1>1, <2>2 DEF StopEnter, TakeChild, Goto
  <2> QED
    BY <1>0, <2>1, <2>3, OwnedIsSlot DEF IInv, Numbers
<1>2. CASE ResetEnter(a)
  <2>1. ResetAll /\ gate = Free /\ Stays
    BY <1>0, <1>2 DEF ResetEnter, Stays, intentVars
  <2>2. Drops \/ Same
    BY <2>1, ResetOwns
  <2>3. Same => live \subseteq orphans
    BY <2>1, ResetOwns DEF Same
  <2> QED
    BY <2>1, <2>2, <2>3
<1>3. CASE StopReap(a)
  <2>1. pc[a] = "stopping" /\ victim[a] \notin live /\ Same /\ Stays
    BY <1>3 DEF StopReap, Reaped, Same, Stays, osVars, intentVars
  <2>2. gate = a /\ slot = 0
    BY <1>0, <2>1 DEF IInv, GateHeld, Holding, Lifecycle, VictimHeld
  <2>3. live \subseteq orphans
    BY <1>0, <2>1, <2>2, SlotOrDying DEF IInv, Numbers
  <2> QED
    BY <2>1, <2>3
<1> QED
  BY <1>1, <1>2, <1>3, WhoReturns

\* The system's steps end a process or dispose of a child that a launch abandoned.
LEMMA SystemMaps ==
  ASSUME LInv, System
  PROVE  [Owner!Next]_(Owner!vars)
<1>0. IInv /\ Rec \in Actors
  BY DEF LInv, Actors
<1>1. Halted' <=> Halted
  <2>1. UNCHANGED <<pc, kind, readyEpoch>>
    BY <1>0, SystemStays
  <2>2. ticket' = ticket
    BY DEF System, RecoveryEvent, SetEnabled, WatcherStep, WatchObserve, WatchTake, WatchFinalize, Wake,
       CatalogMutation, Reap, Exit, taskVars
  <2> QED
    BY <2>1, <2>2 DEF Halted, Stopped
<1>2. Stays
  BY <1>0, SystemStays DEF Stays
<1>3. CASE RecoveryEvent \/ SetEnabled \/ WatcherStep \/ Wake \/ CatalogMutation
  <2>1. Same
    BY <1>3 DEF RecoveryEvent, SetEnabled, WatcherStep, WatchObserve, WatchTake, WatchFinalize, Wake,
       CatalogMutation, Same, osVars
  <2> QED
    BY <1>1, <1>2, <2>1, MapsProcess
<1>4. ASSUME NEW n \in reapers, Reap(n)
      PROVE  [Owner!Next]_(Owner!vars)
  <2>1. gate = Free /\ pc[Rec] # "stopping"
    BY <1>0, <1>4, ActorAssumption DEF Reap, IInv, GateHeld, Holding
  <2>2. PICK t \in Waits(n) : Discard(n, t)
    BY <1>4 DEF Reap
  <2>3. n \in Nat
    BY <1>0 DEF IInv, Numbers
  <2>4. CASE n # 0
    <3>1. Ends \/ Drops \/ Same
      BY <1>0, <2>1, <2>2, <2>3, <2>4, DiscardOwns
    <3> QED
      BY <1>1, <1>2, <3>1, MapsProcess
  <2>5. CASE n = 0
    <3>1. t = FALSE /\ orphans' = orphans
      BY <1>0, <2>2, <2>5 DEF Waits, Discard, IInv, Numbers
    <3>2. Same
      BY <1>0, <2>2, <2>5, <3>1 DEF Discard, Same, IInv, Numbers
    <3> QED
      BY <1>1, <1>2, <3>2, MapsProcess
  <2> QED
    BY <2>4, <2>5
<1>5. ASSUME NEW n \in live, Exit(n)
      PROVE  [Owner!Next]_(Owner!vars)
  <2>1. live' = live \ {n} /\ orphans' = orphans \ {n}
    BY <1>5 DEF Exit
  <2>2. (live \ orphans)' = (live \ orphans) \ {n} /\ n \in (live \ orphans) \cup orphans
    BY <2>1
  <2>3. (\E r \in Reqs : Stopped(r))' = (\E r \in Reqs : Stopped(r)) /\ acceptedRuns' = acceptedRuns
    BY <1>1, <1>2 DEF Halted, Stays
  <2>4. Owner!Exit
    BY <2>1, <2>2, <2>3 DEF Owner!Exit
  <2> QED
    BY <2>4 DEF Owner!Next
<1> QED
  BY <1>3, <1>4, <1>5 DEF System

\* Every step of the engine lifecycle is one of the promise's, or none of its business.
LEMMA OwnerStep ==
  ASSUME OwnerInv, Next
  PROVE  [Owner!Next]_(Owner!vars)
<1>0. LInv
  BY DEF OwnerInv
<1>1. ASSUME NEW a \in Actors, Acts(a)
      PROVE  [Owner!Next]_(Owner!vars)
  <2>1. CASE LaunchSpawn(a)
    BY <2>1, SpawnMaps
  <2>2. CASE LaunchAccept(a)
    BY <2>2, AcceptMaps
  <2>3. CASE Begins(a)
    <3>1. ~Halted' /\ UNCHANGED <<live, orphans, acceptedRuns>>
      BY <1>0, <2>3, BeginsAnew DEF Begins
    <3>2. /\ (\E r \in Reqs : Stopped(r))' = FALSE /\ orphans' = orphans
          /\ (live \ orphans)' = live \ orphans /\ acceptedRuns' = acceptedRuns
      BY <3>1 DEF Halted
    <3>3. Owner!Request
      BY <3>2 DEF Owner!Request
    <3> QED
      BY <3>3 DEF Owner!Next
  <2>4. CASE ~LaunchSpawn(a) /\ ~LaunchAccept(a) /\ ~Begins(a) /\ Returns(a)
    BY <1>0, <1>1, <2>4, ReturnMaps, HaltedStays, MapsReturn
  <2>5. CASE ~LaunchSpawn(a) /\ ~LaunchAccept(a) /\ ~Begins(a) /\ ~Returns(a)
    <3>1. Halted' <=> Halted
      BY <1>0, <1>1, <2>5, HaltedStays
    <3> QED
      BY <1>0, <1>1, <2>5, <3>1, ProcessSteps, MapsProcess
  <2> QED
    BY <2>1, <2>2, <2>3, <2>4, <2>5
<1> QED
  BY <1>0, <1>1, SystemMaps, StepBy

\* The lifecycle implements EngineOwnership (OwnershipKept): whatever the requests, the
\* recovery, the watcher and the reapers do at once, one engine is owned at most, a new
\* one is spawned when no other is left but processes already killed, the one that is
\* accepted is the one that is owned, and a stop or a reset that returned as the newest
\* request leaves none, and none comes until the next request.
THEOREM OwnershipHolds == Spec => OwnershipKept
<1>1. Init => Owner!Init
  <2> SUFFICES ASSUME Init PROVE Owner!Init
    OBVIOUS
  <2>1. live \ orphans = {} /\ orphans = {} /\ acceptedRuns = {}
    BY DEF Init
  <2>2. (\E r \in Reqs : Stopped(r)) = FALSE
    BY DEF Init, Stopped, Actors
  <2> QED
    BY <2>1, <2>2 DEF Owner!Init
<1>2. OwnerInv /\ [Next]_vars => [Owner!Next]_(Owner!vars)
  <2>1. UNCHANGED vars => UNCHANGED Owner!vars
    <3> SUFFICES ASSUME UNCHANGED vars PROVE UNCHANGED Owner!vars
      OBVIOUS
    <3>1. UNCHANGED <<live, orphans, acceptedRuns, pc, kind, ticket, readyEpoch>>
      BY DEF vars, osVars, intentVars, taskVars, ticketVars
    <3>2. (\E r \in Reqs : Stopped(r))' = (\E r \in Reqs : Stopped(r))
      BY <3>1 DEF Stopped
    <3> QED
      BY <3>1, <3>2 DEF Owner!vars
  <2> QED
    BY <2>1, OwnerStep
<1> QED
  BY <1>1, <1>2, OwnerInvariance, PTL DEF Spec, OwnershipKept, Owner!Spec
=============================================================================
