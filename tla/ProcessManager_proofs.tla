------------------------- MODULE ProcessManager_proofs -------------------------
(***************************************************************************)
(* Proofs about ProcessManager for every value of its constants: the       *)
(* types, the ownership of engine processes, the child slot, the pending   *)
(* mark, and that Stop wins over every launch it overtook.                 *)
(***************************************************************************)
EXTENDS ProcessManager, TLAPS

-----------------------------------------------------------------------------
(* TypeOK in four parts, each within reach of one prover.                  *)

Numbers ==
  /\ live \subseteq Nat \ {0} /\ orphans \subseteq live
  /\ proxy \in Nat /\ slot \in Nat /\ active \in Nat /\ nextRun \in Nat /\ pending \in Nat
  /\ readyEpoch \in Nat /\ epoch \in Nat /\ accepted \in Nat
  /\ manualTicket \in Nat /\ deadProven \in Nat /\ acceptedRuns \subseteq Nat
  /\ ticket \in [Actors -> Nat] /\ run \in [Actors -> Nat]
  /\ startup \in [Actors -> Nat] /\ victim \in [Actors -> Nat]
  /\ watchRun \in Nat /\ reapers \subseteq Nat
  /\ recoveries \in Nat /\ wakes \in Nat /\ toggles \in Nat /\ mutations \in Nat

Controls ==
  /\ status \in {"Stopped", "Starting", "Running", "Stopping"}
  /\ gate \in Actors \cup {Free}
  /\ pc \in [Actors -> Labels]
  /\ kind \in [Actors -> AllKinds \cup {"none", "recovery"}]
  /\ ret \in [Actors -> {"lgate", "lrecheck", "done", "cancelled", "failed", "unapplied"}]
  /\ outcome \in [Actors -> Results]
  /\ watchPc \in {"idle", "take", "finalize"}

Flags ==
  /\ proxyStuck \in BOOLEAN /\ catalogFresh \in BOOLEAN /\ enabled \in BOOLEAN
  /\ accProxy \in BOOLEAN /\ woken \in BOOLEAN

Records ==
  /\ diag \in [run : Nat, session : Nat, ended : BOOLEAN]
  /\ tok \in [epoch : Nat, run : Nat, proxy : BOOLEAN]

-----------------------------------------------------------------------------
(* The inductive invariant.                                                *)

Holding == {"lphysical", "lrecheck", "lclaim", "lwire", "lspawn", "lrespawn", "lfinal",
            "lproxy", "laccept", "stopping", "selapi"}
Prelaunch == {"lwire", "lspawn", "lrespawn"}
Readying == {"lready", "lregate", "lunready"}

\* The gate belongs to the one actor whose label is inside it.
GateHeld == \A a \in Actors : gate = a <=> pc[a] \in Holding

\* Run identifiers are never reused, and no two launches share one.
RunsInOrder ==
  /\ active <= nextRun /\ watchRun <= nextRun
  /\ \A n \in live : n <= nextRun
  /\ \A a \in Actors : run[a] <= nextRun
RunsDistinct == \A a, b \in Actors : run[a] = run[b] /\ run[a] # 0 => a = b

\* A task that stops a child took it from the slot, and nobody refills it.
VictimHeld ==
  /\ \A a \in Actors : victim[a] # 0 => pc[a] = "stopping"
  /\ \A a \in Actors : pc[a] = "stopping" => slot = 0

\* Before the spawn the slot is empty and the run is the launch's own.
BeforeSpawn ==
  \A a \in Actors : pc[a] \in Prelaunch =>
    slot = 0 /\ active = run[a] /\ run[a] # 0 /\ watchRun # run[a]

\* While the listener comes up, a run that is still active is in the slot and
\* marked as pending, so the watcher has not seen it, or is being stopped.
WhileReadying ==
  \A a \in Actors : pc[a] \in Readying =>
    /\ run[a] # 0
    /\ active = run[a] =>
         \/ slot = run[a] /\ pending = run[a] /\ watchRun # run[a]
         \/ \E b \in Actors : pc[b] = "stopping" /\ victim[b] = run[a]

\* The watcher holds a run that ended.
WatchHolds ==
  /\ watchRun \notin live
  /\ watchPc # "idle" => watchRun # 0
  /\ watchPc = "finalize" => slot # watchRun

\* A process left to kill_on_drop is not the active run's.
OrphansInactive == active \notin orphans

\* EngineOwned, process by process
OwnedEach ==
  \A n \in live : n = slot \/ n \in orphans \/ \E a \in Actors : victim[a] = n

Lifecycle ==
  /\ RunsInOrder /\ RunsDistinct /\ VictimHeld /\ BeforeSpawn /\ WhileReadying
  /\ WatchHolds /\ OrphansInactive /\ SlotIsActive /\ OwnedEach

\* Tickets are issued in order, one to a request.
Tickets ==
  /\ \A r \in Reqs : ticket[r] <= readyEpoch
  /\ \A r \in Reqs : pc[r] # "idle" => ticket[r] # 0
  /\ \A q, r \in Reqs : ticket[q] = ticket[r] /\ ticket[q] # 0 => q = r

Stopper(r) == kind[r] \in {"stop", "reset"}
StopLabels ==
  \A r \in Reqs : Stopper(r) =>
    /\ pc[r] \in {"sgate", "stopping", "done"}
    /\ pc[r] = "stopping" => ret[r] = "done"

\* While a stop is the newest request nothing is accepted, and once it was in
\* the gate the slot stays empty and nobody else gets in.
StopHolds ==
  \A r \in Reqs : Stopper(r) /\ ticket[r] = readyEpoch =>
    /\ manualTicket = 0 /\ accepted = 0
    /\ pc[r] # "sgate" => slot = 0 /\ gate \in {Free, r}

StopOrder == Tickets /\ StopLabels /\ StopHolds

IInv == Numbers /\ Controls /\ Flags /\ Records /\ GateHeld /\ Lifecycle /\ PendingHasOwner /\ StopOrder
Diags == [run : Nat, session : Nat, ended : BOOLEAN]

-----------------------------------------------------------------------------
(* What the fragments of the lifecycle do.                                 *)

\* A retired record of the observed session is a record again.
LEMMA RetireType ==
  ASSUME NEW d \in Diags, NEW n, NEW i
  PROVE  Retire(d, n, i) \in Diags
<1>1. NoDiag \in Diags
  BY DEF NoDiag, Diags
<1>2. [run |-> 0, session |-> d.session, ended |-> TRUE] \in Diags
  BY DEF Diags
<1> QED
  BY <1>1, <1>2 DEF Retire

\* Clearing the system proxy clears it or leaves it.
LEMMA ClearEffect ==
  ASSUME ClearProxy
  PROVE  proxy' \in {0, proxy} /\ proxyStuck' \in BOOLEAN
<1>1. proxy' \in {0, proxy}
  BY DEF ClearProxy
<1>2. proxyStuck' = TRUE \/ proxyStuck' = FALSE
  BY DEF ClearProxy
<1> QED
  BY <1>1, <1>2

\* finalize_exit ends the active run or does nothing.
LEMMA FinalizeEffect ==
  ASSUME Flags, Records, NEW n, NEW i, Finalize(n, i)
  PROVE  /\ proxy' \in {0, proxy} /\ proxyStuck' \in BOOLEAN /\ diag' \in Diags
         /\ active = n => status' = "Stopped" /\ active' = 0
         /\ active # n => UNCHANGED <<status, active>>
<1>0. diag \in Diags /\ proxyStuck \in BOOLEAN
  BY DEF Records, Flags, Diags
<1>1. CASE active = n
  <2>1. diag' = Retire(diag, n, i) /\ status' = "Stopped" /\ active' = 0 /\ ClearProxy
    BY <1>1 DEF Finalize
  <2> QED
    BY <1>0, <1>1, <2>1, RetireType, ClearEffect
<1>2. CASE active # n
  <2>1. UNCHANGED <<diag, status, active, proxy, proxyStuck>>
    BY <1>2 DEF Finalize, proxyVars
  <2> QED
    BY <1>0, <1>2, <2>1
<1> QED
  BY <1>1, <1>2

\* The slot and the active run are cleared, and what was in the slot is dead
\* or was killed.
Cleared ==
  /\ slot' = 0 /\ active' = 0 /\ status' = "Stopped"
  /\ live' \subseteq live /\ orphans' \subseteq live'
  /\ \A n \in live' : n \in orphans \/ n = slot => n \in orphans'

\* discard_starting_child clears the slot of the active run or does nothing.
LEMMA DiscardEffect ==
  ASSUME IInv, NEW n, NEW t \in Waits(n), Discard(n, t)
  PROVE  /\ diag' \in Diags
         /\ active = n => Cleared
         /\ active # n => UNCHANGED <<slot, live, orphans, status, active>>
<1>0. diag \in Diags
  BY DEF IInv, Records, Diags
<1>1. CASE active = n
  <2>1. slot' = 0 /\ status' = "Stopped" /\ active' = 0 /\ diag' = Retire(diag, n, TRUE)
    BY <1>1 DEF Discard, IInv, Lifecycle, SlotIsActive
  <2>2. n \notin orphans /\ orphans \subseteq live /\ (slot = 0 \/ slot = n) /\ 0 \notin live
    BY <1>1 DEF IInv, Numbers, Lifecycle, OrphansInactive, SlotIsActive
  <2>3. Cleared
    <3>1. CASE t = TRUE
      <4>1. n \in live
        BY <3>1 DEF Waits
      <4>2. live' = live /\ orphans' = orphans \cup {n}
        BY <1>1, <3>1 DEF Discard
      <4> QED
        BY <2>1, <2>2, <4>1, <4>2 DEF Cleared
    <3>2. CASE t = FALSE
      <4>1. live' = (IF slot = n THEN live \ {n} ELSE live) /\ orphans' = orphans
        BY <1>1, <3>2 DEF Discard
      <4> QED
        BY <2>1, <2>2, <4>1 DEF Cleared
    <3>3. t = TRUE \/ t = FALSE
      BY DEF Waits
    <3> QED
      BY <3>1, <3>2, <3>3
  <2>4. diag' \in Diags
    BY <1>0, <2>1, RetireType
  <2> QED
    BY <1>1, <2>3, <2>4
<1>2. CASE active # n
  BY <1>0, <1>2 DEF Discard
<1> QED
  BY <1>1, <1>2

\* reset_with_proxy_cleanup clears the slot.
LEMMA ResetEffect ==
  ASSUME IInv, ResetAll
  PROVE  /\ Cleared /\ UNCHANGED <<live, nextRun, pending>>
         /\ proxy' \in {0, proxy} /\ proxyStuck' \in BOOLEAN /\ diag' \in Diags
<1>1. Cleared /\ UNCHANGED <<live, nextRun, pending>>
  BY DEF IInv, Numbers, ResetAll, DropChild, Cleared
<1>2. proxy' \in {0, proxy} /\ proxyStuck' \in BOOLEAN
  BY ClearEffect DEF ResetAll
<1>3. diag' \in Diags
  BY DEF ResetAll, NoDiag, Diags
<1> QED
  BY <1>1, <1>2, <1>3

\* After the slot was cleared outside any launch the lifecycle is in order.
LEMMA ClearedLife ==
  ASSUME IInv, Cleared, UNCHANGED <<nextRun, run, victim, watchRun, watchPc>>,
         \A b \in Actors : /\ pc'[b] \notin Prelaunch
                           /\ pc'[b] \in Readying => pc[b] \in Readying
                           /\ pc'[b] = "stopping" <=> pc[b] = "stopping"
  PROVE  Lifecycle'
<1> USE DEF IInv, Numbers, Controls, Lifecycle, Cleared
<1>1. RunsInOrder' /\ RunsDistinct'
  BY DEF RunsInOrder, RunsDistinct
<1>2. VictimHeld' /\ BeforeSpawn'
  BY DEF VictimHeld, BeforeSpawn
<1>3. WhileReadying'
  BY DEF WhileReadying
<1>4. WatchHolds' /\ OrphansInactive' /\ SlotIsActive'
  BY DEF WatchHolds, OrphansInactive, SlotIsActive
<1>5. OwnedEach'
  BY DEF OwnedEach
<1> QED
  BY <1>1, <1>2, <1>3, <1>4, <1>5

\* As long as nothing but labels moves, and none into a launch or a stop, the
\* lifecycle stays in order.
LEMMA CalmLife ==
  ASSUME IInv, UNCHANGED <<osVars, slot, status, active, nextRun, pending, run, victim, watchVars>>,
         \A b \in Actors : /\ pc'[b] \in Prelaunch => pc[b] \in Prelaunch
                           /\ pc'[b] \in Readying => pc[b] \in Readying
                           /\ pc'[b] = "stopping" <=> pc[b] = "stopping"
  PROVE  Lifecycle'
<1> USE DEF IInv, Lifecycle, osVars, watchVars
<1>1. RunsInOrder' /\ RunsDistinct'
  BY DEF RunsInOrder, RunsDistinct
<1>2. VictimHeld' /\ BeforeSpawn'
  BY DEF VictimHeld, BeforeSpawn
<1>3. WhileReadying'
  BY DEF WhileReadying
<1>4. WatchHolds' /\ OrphansInactive' /\ SlotIsActive'
  BY DEF WatchHolds, OrphansInactive, SlotIsActive
<1>5. OwnedEach'
  BY DEF OwnedEach
<1> QED
  BY <1>1, <1>2, <1>3, <1>4, <1>5

Taking == {"prestop", "lphysical", "lproxy", "laccept", "apply", "sgate"}

\* Taking the child out of the slot to stop it loses no process.
LEMMA TakeEffect ==
  ASSUME IInv, NEW a \in Actors, NEW next, TakeChild(a, next), pc[a] \in Taking,
         gate \in {Free, a}, UNCHANGED <<osVars, active, nextRun, pending, run, watchVars>>,
         UNCHANGED reapers
  PROVE  Lifecycle' /\ PendingHasOwner' /\ diag' \in Diags
<1> USE DEF osVars, watchVars
<1>0. /\ slot # 0 /\ slot' = 0 /\ slot = active /\ status' = "Stopping"
      /\ victim' = [victim EXCEPT ![a] = slot] /\ pc' = [pc EXCEPT ![a] = "stopping"]
      /\ victim[a] = 0
  BY DEF TakeChild, Goto, IInv, Controls, Lifecycle, SlotIsActive, VictimHeld, Taking
<1>1. victim \in [Actors -> Nat] /\ pc \in [Actors -> Labels]
  BY DEF IInv, Numbers, Controls
<1>2. \A b \in Actors : b # a => victim'[b] = victim[b] /\ pc'[b] = pc[b]
  BY <1>0, <1>1
<1>3. victim'[a] = slot /\ pc'[a] = "stopping"
  BY <1>0, <1>1
<1>4. RunsInOrder' /\ RunsDistinct'
  BY DEF IInv, Lifecycle, RunsInOrder, RunsDistinct
<1>5. VictimHeld'
  BY <1>0, <1>2, <1>3 DEF IInv, Lifecycle, VictimHeld
<1>6. BeforeSpawn'
  <2>1. \A b \in Actors : pc[b] \notin Prelaunch
    BY <1>0 DEF IInv, Lifecycle, BeforeSpawn
  <2> QED
    BY <1>2, <1>3, <2>1 DEF BeforeSpawn, Prelaunch
<1>7. WhileReadying'
  <2> SUFFICES ASSUME NEW b \in Actors, pc'[b] \in Readying, active' = run'[b]
               PROVE  \E c \in Actors : pc'[c] = "stopping" /\ victim'[c] = run'[b]
    BY <1>2, <1>3 DEF WhileReadying, Readying, IInv, Lifecycle
  <2> QED
    BY <1>0, <1>3
<1>8. WatchHolds' /\ OrphansInactive' /\ SlotIsActive'
  BY <1>0 DEF IInv, Lifecycle, WatchHolds, OrphansInactive, SlotIsActive
<1>9. OwnedEach'
  <2> SUFFICES ASSUME NEW n \in live
               PROVE  n \in orphans \/ \E b \in Actors : victim'[b] = n
    BY <1>0 DEF OwnedEach
  <2>1. CASE n = slot
    BY <1>3, <2>1
  <2>2. CASE n # slot /\ n \notin orphans
    <3>1. PICK b \in Actors : victim[b] = n
      BY <2>2 DEF IInv, Lifecycle, OwnedEach
    <3>2. b # a
      BY <1>0, <3>1 DEF IInv, Numbers
    <3> QED
      BY <1>2, <3>1, <3>2
  <2> QED
    BY <2>1, <2>2
<1>10. PendingHasOwner'
  <2>1. \A b \in Actors : Launching(b) => b # a
    BY DEF Launching, Taking
  <2> QED
    BY <1>2, <2>1 DEF IInv, PendingHasOwner, Launching
<1>11. diag' \in Diags
  BY RetireType DEF TakeChild, IInv, Records, Diags
<1> QED
  BY <1>4, <1>5, <1>6, <1>7, <1>8, <1>9, <1>10, <1>11 DEF Lifecycle

-----------------------------------------------------------------------------
(* Kinds of steps that several actions share.                              *)

Queueing == {"validate", "prestop", "lgate", "apply", "fproxy", "fclear", "rgate", "sgate", "selgate"}
Quiet == {"idle", "prestop", "lgate", "rgate", "done"}

\* A task moves on outside the gate and touches at most the proxy.
LEMMA QuietStep ==
  ASSUME IInv, NEW a \in Actors, pc[a] \in Queueing, NEW label \in Quiet,
         pc' = [pc EXCEPT ![a] = label], Stopper(a) => label = "done",
         pc[a] = "sgate" => gate = Free /\ (ticket[a] = readyEpoch => slot = 0),
         outcome' \in [Actors -> Results],
         proxy' \in Nat, proxyStuck' \in BOOLEAN, accProxy' \in BOOLEAN,
         UNCHANGED <<osVars, runVars, gate, ticketVars, epoch, enabled, accepted, manualTicket,
                     woken, deadProven, acceptedRuns, taskVars, watchVars, reapers, boundVars>>
  PROVE  IInv'
<1> USE DEF osVars, runVars, ticketVars, taskVars, watchVars, boundVars
<1>0. pc \in [Actors -> Labels] /\ pc'[a] = label /\ \A b \in Actors : b # a => pc'[b] = pc[b]
  BY DEF IInv, Controls
<1>1. Numbers'
  BY DEF IInv, Numbers
<1>2. Controls'
  BY DEF IInv, Controls, Labels, Quiet
<1>3. Flags' /\ Records'
  BY DEF IInv, Flags, Records
<1>4. GateHeld'
  BY <1>0 DEF IInv, GateHeld, Holding, Queueing, Quiet
<1>5. Lifecycle'
  BY <1>0, CalmLife DEF Queueing, Quiet, Prelaunch, Readying
<1>6. PendingHasOwner'
  BY <1>0 DEF IInv, PendingHasOwner, Launching, Queueing, Quiet
<1>7. Tickets' /\ StopLabels'
  BY <1>0 DEF IInv, StopOrder, Tickets, StopLabels, Stopper, Queueing, Quiet, Actors
<1>8. StopHolds'
  BY <1>0 DEF IInv, StopOrder, StopHolds, Stopper
<1> QED
  BY <1>1, <1>2, <1>3, <1>4, <1>5, <1>6, <1>7, <1>8 DEF IInv, StopOrder

\* A task takes the child out of the slot, kills it and waits in the gate.
LEMMA TakeStep ==
  ASSUME IInv, NEW a \in Actors, pc[a] \in Taking, gate \in {Free, a}, gate' = a,
         NEW next \in {"lgate", "lrecheck", "done", "cancelled", "failed", "unapplied"},
         TakeChild(a, next), pc[a] = "sgate" => next = "done",
         deadProven' \in Nat,
         UNCHANGED <<osVars, proxyVars, active, nextRun, pending, ticketVars, epoch, enabled,
                     accepted, accProxy, manualTicket, woken, acceptedRuns, outcome, kind, ticket,
                     run, startup, tok, watchVars, reapers, boundVars>>
  PROVE  IInv'
<1> USE DEF osVars, proxyVars, ticketVars, watchVars, boundVars
<1>0. /\ slot # 0 /\ slot' = 0 /\ status' \in {"Stopping", status}
      /\ victim' = [victim EXCEPT ![a] = slot] /\ pc' = [pc EXCEPT ![a] = "stopping"]
      /\ ret' = [ret EXCEPT ![a] = next]
  BY DEF TakeChild, Goto
<1>a. Lifecycle' /\ PendingHasOwner' /\ diag' \in Diags
  BY TakeEffect
<1>b. /\ pc \in [Actors -> Labels] /\ pc'[a] = "stopping" /\ ret'[a] = next
      /\ \A b \in Actors : b # a => pc'[b] = pc[b] /\ ret'[b] = ret[b]
  BY <1>0 DEF IInv, Controls
<1>1. Numbers'
  BY <1>0 DEF IInv, Numbers
<1>2. Controls'
  BY <1>0 DEF IInv, Controls, Labels
<1>3. Flags' /\ Records'
  <2>1. Flags'
    BY DEF IInv, Flags
  <2> QED
    BY <1>a, <2>1 DEF IInv, Records, Diags
<1>4. GateHeld'
  BY <1>b, ActorAssumption DEF IInv, GateHeld, Holding, Taking
<1>5. Tickets' /\ StopLabels'
  BY <1>b DEF IInv, StopOrder, Tickets, StopLabels, Stopper, Taking, Actors
<1>6. StopHolds'
  BY <1>0, <1>b DEF IInv, StopOrder, StopHolds, Stopper
<1> QED
  BY <1>a, <1>1, <1>2, <1>3, <1>4, <1>5, <1>6 DEF IInv, StopOrder

\* A launch whose child, if any, is not its own gives the gate up.
LEMMA GiveUpStep ==
  ASSUME IInv, NEW a \in Actors, NEW result \in Results, GiveUp(a, result),
         pc[a] \in {"lphysical", "lrecheck", "lclaim", "lproxy", "laccept"},
         deadProven' \in Nat, startup' \in [Actors -> Nat],
         UNCHANGED <<osVars, proxyVars, runVars, ticketVars, epoch, enabled, accepted, accProxy,
                     manualTicket, woken, acceptedRuns, kind, ticket, run, victim, ret, tok,
                     watchVars, boundVars>>
  PROVE  IInv'
<1> USE DEF osVars, proxyVars, runVars, ticketVars, watchVars, boundVars
<1>0. /\ gate' = Free /\ reapers' = reapers \cup ({run[a]} \cap ({pending} \ {0}))
      /\ outcome' = [outcome EXCEPT ![a] = result]
      /\ \E label \in {"idle", "rgate", "done"} : pc' = [pc EXCEPT ![a] = label]
  BY DEF GiveUp, Release, Report, Goto, AfterFailure
<1>b. /\ pc \in [Actors -> Labels] /\ pc'[a] \in {"idle", "rgate", "done"}
      /\ \A b \in Actors : b # a => pc'[b] = pc[b]
  BY <1>0 DEF IInv, Controls
<1>1. Numbers'
  BY <1>0 DEF IInv, Numbers
<1>2. Controls'
  BY <1>0 DEF IInv, Controls, Labels
<1>3. Flags' /\ Records'
  BY DEF IInv, Flags, Records
<1>4. GateHeld'
  BY <1>0, <1>b, ActorAssumption DEF IInv, GateHeld, Holding
<1>5. Lifecycle'
  BY <1>b, CalmLife DEF Prelaunch, Readying
<1>6. PendingHasOwner'
  BY <1>0, <1>b DEF IInv, PendingHasOwner, Launching
<1>7. Tickets' /\ StopLabels'
  BY <1>b DEF IInv, StopOrder, Tickets, StopLabels, Stopper, Actors
<1>8. StopHolds'
  BY <1>0, <1>b DEF IInv, StopOrder, StopLabels, StopHolds, Stopper
<1> QED
  BY <1>1, <1>2, <1>3, <1>4, <1>5, <1>6, <1>7, <1>8 DEF IInv, StopOrder

\* A request resets in the gate.
LEMMA ResetStep ==
  ASSUME IInv, NEW r \in Reqs, pc[r] \in {"rgate", "sgate"}, gate = Free, ResetAll,
         pc' = [pc EXCEPT ![r] = "done"], outcome' \in [Actors -> Results],
         UNCHANGED <<gate, ticketVars, intentVars, taskVars, watchVars, reapers, boundVars>>
  PROVE  IInv'
<1> USE DEF ticketVars, intentVars, taskVars, watchVars, boundVars
<1>0. /\ Cleared /\ UNCHANGED <<live, nextRun, pending>>
      /\ proxy' \in {0, proxy} /\ proxyStuck' \in BOOLEAN /\ diag' \in Diags
  BY ResetEffect
<1>b. /\ pc \in [Actors -> Labels] /\ r \in Actors /\ pc'[r] = "done"
      /\ \A b \in Actors : b # r => pc'[b] = pc[b]
  BY DEF IInv, Controls, Actors
<1>1. Numbers'
  BY <1>0 DEF IInv, Numbers, Cleared
<1>2. Controls'
  BY <1>0 DEF IInv, Controls, Labels, Cleared
<1>3. Flags' /\ Records'
  BY <1>0 DEF IInv, Flags, Records, Diags
<1>4. GateHeld'
  BY <1>b DEF IInv, GateHeld, Holding
<1>5. Lifecycle'
  <2>1. \A b \in Actors : pc[b] \notin Prelaunch
    BY ActorAssumption DEF IInv, GateHeld, Holding, Prelaunch
  <2> QED
    BY <1>0, <1>b, <2>1, ClearedLife DEF Prelaunch, Readying
<1>6. PendingHasOwner'
  BY <1>0, <1>b DEF IInv, PendingHasOwner, Launching
<1>7. Tickets' /\ StopLabels'
  BY <1>b DEF IInv, StopOrder, Tickets, StopLabels, Stopper
<1>8. StopHolds'
  BY <1>0, <1>b DEF IInv, StopOrder, StopHolds, Stopper, Cleared
<1> QED
  BY <1>1, <1>2, <1>3, <1>4, <1>5, <1>6, <1>7, <1>8 DEF IInv, StopOrder

\* A launch ends with its child discarded and leaves the gate; a pending mark
\* it does not take along goes to a reaper.
LEMMA DiscardStep ==
  ASSUME IInv, NEW a \in Actors, pc[a] \in {"lregate", "lunready", "lfinal"}, gate \in {Free, a},
         NEW t \in Waits(run[a]), Discard(run[a], t), gate' = Free,
         NEW label \in {"idle", "rgate", "done"}, pc' = [pc EXCEPT ![a] = label],
         outcome' \in [Actors -> Results],
         pending' \in {0, pending}, active # run[a] => pending' = pending,
         reapers \subseteq reapers', reapers' \subseteq reapers \cup {run[a]},
         pending' = run[a] => pending' = 0 \/ run[a] \in reapers',
         UNCHANGED <<proxyVars, nextRun, ticketVars, intentVars, taskVars, watchVars, boundVars>>
  PROVE  IInv'
<1> USE DEF proxyVars, ticketVars, intentVars, taskVars, watchVars, boundVars
<1>0. /\ diag' \in Diags
      /\ Cleared \/ (active # run[a] /\ UNCHANGED <<slot, live, orphans, status, active>>)
  BY DiscardEffect
<1>a. /\ pc \in [Actors -> Labels] /\ pc'[a] = label /\ label \in Labels
      /\ \A b \in Actors : b # a => pc'[b] = pc[b]
  BY DEF IInv, Controls, Labels
<1>b. slot' \in {0, slot}
  BY <1>0 DEF Cleared
<1>1. Numbers'
  <2>1. reapers' \subseteq Nat /\ pending' \in Nat
    BY DEF IInv, Numbers
  <2>2. CASE Cleared
    BY <2>1, <2>2 DEF IInv, Numbers, Cleared
  <2>3. CASE UNCHANGED <<slot, live, orphans, status, active>>
    BY <2>1, <2>3 DEF IInv, Numbers
  <2> QED
    BY <1>0, <2>2, <2>3
<1>2. Controls'
  BY <1>0, <1>a, ActorAssumption DEF IInv, Controls, Cleared
<1>3. Flags' /\ Records'
  <2>1. Flags'
    BY DEF IInv, Flags
  <2> QED
    BY <1>0, <2>1 DEF IInv, Records, Diags
<1>4. GateHeld'
  BY <1>a, ActorAssumption DEF IInv, GateHeld, Holding
<1>5. Lifecycle'
  <2>1. CASE Cleared
    <3>1. \A b \in Actors : pc[b] \notin Prelaunch
      BY ActorAssumption DEF IInv, GateHeld, Holding, Prelaunch
    <3> QED
      BY <1>a, <2>1, <3>1, ClearedLife DEF Prelaunch, Readying
  <2>2. CASE active # run[a] /\ UNCHANGED <<slot, live, orphans, status, active>>
    BY <1>a, <2>2, CalmLife DEF Prelaunch, Readying, osVars
  <2> QED
    BY <1>0, <2>1, <2>2
<1>6. PendingHasOwner'
  BY <1>a DEF IInv, PendingHasOwner, Launching
<1>7. Tickets' /\ StopLabels'
  BY <1>a DEF IInv, StopOrder, Tickets, StopLabels, Stopper, Actors
<1>8. StopHolds'
  BY <1>a, <1>b DEF IInv, StopOrder, StopLabels, StopHolds, Stopper
<1> QED
  BY <1>1, <1>2, <1>3, <1>4, <1>5, <1>6, <1>7, <1>8 DEF IInv, StopOrder

-----------------------------------------------------------------------------
(* The actions, one lemma each.                                            *)

\* A ticket for a launch or a selection touches no engine.
LEMMA BeginManualStep ==
  ASSUME IInv, NEW r \in Reqs, BeginManual(r)
  PROVE  IInv'
<1> USE ActorAssumption DEF BeginManual, Goto
<1> USE DEF vars, osVars, proxyVars, runVars, ticketVars, intentVars, taskVars, watchVars,
    boundVars
<1>1. Numbers'
  BY DEF IInv, Numbers, Actors
<1>2. Controls'
  BY DEF IInv, Controls, Labels, AllKinds, Manual
<1>3. Flags' /\ Records'
  BY DEF IInv, Flags, Records
<1>4. GateHeld'
  BY DEF IInv, Controls, GateHeld, Holding
<1>5. Lifecycle'
  BY CalmLife DEF IInv, Controls, Prelaunch, Readying
<1>6. PendingHasOwner'
  BY DEF IInv, PendingHasOwner, Launching
<1>7. StopOrder'
  BY DEF IInv, Numbers, Controls, StopOrder, Tickets, StopLabels, StopHolds, Stopper, Manual,
     Actors
<1> QED
  BY <1>1, <1>2, <1>3, <1>4, <1>5, <1>6, <1>7 DEF IInv

\* The ticket of a stop voids the older ones.
LEMMA BeginStopStep ==
  ASSUME IInv, NEW r \in Reqs, BeginStop(r)
  PROVE  IInv'
<1> USE ActorAssumption DEF BeginStop, Goto
<1> USE DEF vars, osVars, proxyVars, runVars, ticketVars, intentVars, taskVars, watchVars,
    boundVars
<1>1. Numbers'
  BY DEF IInv, Numbers, Actors
<1>2. Controls'
  BY DEF IInv, Controls, Labels, AllKinds, Manual
<1>3. Flags' /\ Records'
  <2>1. Flags'
    BY DEF IInv, Flags
  <2>2. Retire(diag, active, TRUE) \in Diags
    BY RetireType DEF IInv, Records, Diags
  <2>3. diag' \in Diags
    BY <2>2 DEF IInv, Records, Diags
  <2> QED
    BY <2>1, <2>3 DEF IInv, Records, Diags
<1>4. GateHeld'
  BY DEF IInv, Controls, GateHeld, Holding
<1>5. Lifecycle'
  BY CalmLife DEF IInv, Controls, Prelaunch, Readying
<1>6. PendingHasOwner'
  BY DEF IInv, PendingHasOwner, Launching
<1>7. StopOrder'
  BY DEF IInv, Numbers, Controls, StopOrder, Tickets, StopLabels, StopHolds, Stopper, Actors
<1> QED
  BY <1>1, <1>2, <1>3, <1>4, <1>5, <1>6, <1>7 DEF IInv

\* The preflight only moves its request.
LEMMA HandoffStep ==
  ASSUME IInv, NEW r \in Reqs, Handoff(r)
  PROVE  IInv'
<1>1. \E label \in {"prestop", "lgate", "done"} : pc' = [pc EXCEPT ![r] = label]
  BY DEF Handoff, Goto, Report
<1>2. outcome' \in [Actors -> Results]
  BY DEF Handoff, Report, IInv, Controls, Results
<1>3. ~Stopper(r)
  BY DEF Handoff, IInv, StopOrder, StopLabels
<1> QED
  BY <1>1, <1>2, <1>3, QuietStep
  DEF Handoff, Queueing, Quiet, IInv, Numbers, Flags, Actors, proxyVars, intentVars

\* A checked start stops the engine before it.
LEMMA PreStopStep ==
  ASSUME IInv, NEW r \in Reqs, PreStop(r)
  PROVE  IInv'
<1>1. CASE TakeChild(r, "lgate")
  <2>1. slot # 0 /\ slot' = 0
    BY <1>1 DEF TakeChild
  <2>2. gate = Free /\ gate' = r /\ UNCHANGED outcome
    BY <2>1 DEF PreStop, Report
  <2> QED
    BY <1>1, <2>2, TakeStep DEF PreStop, Taking, Actors, IInv, Numbers, intentVars
<1>2. CASE ~TakeChild(r, "lgate")
  <2>1. \E result \in Results : Report(r, "done", result)
    BY <1>2 DEF PreStop, Results
  <2>2. pc' = [pc EXCEPT ![r] = "done"] /\ outcome' \in [Actors -> Results]
    BY <2>1 DEF Report, Goto, IInv, Controls
  <2>3. UNCHANGED <<osVars, proxyVars, runVars, gate, ticketVars, intentVars, taskVars>>
    BY <1>2 DEF PreStop, runVars, taskVars
  <2> QED
    BY <2>2, <2>3, QuietStep
    DEF PreStop, Queueing, Quiet, IInv, Numbers, Flags, Actors, proxyVars, intentVars
<1> QED
  BY <1>1, <1>2

\* A launch enters the gate.
LEMMA LaunchEnterStep ==
  ASSUME IInv, NEW a \in Actors, LaunchEnter(a)
  PROVE  IInv'
<1> USE ActorAssumption DEF LaunchEnter, Goto, Report, AfterFailure
<1> USE DEF vars, osVars, proxyVars, runVars, ticketVars, intentVars, taskVars, watchVars,
    boundVars
<1>1. Numbers'
  BY DEF IInv, Numbers
<1>2. Controls'
  BY DEF IInv, Controls, Labels, Results
<1>3. Flags' /\ Records'
  BY DEF IInv, Flags, Records
<1>4. GateHeld'
  BY DEF IInv, Controls, GateHeld, Holding
<1>5. Lifecycle'
  BY CalmLife DEF IInv, Controls, Prelaunch, Readying
<1>6. PendingHasOwner'
  BY DEF IInv, Controls, PendingHasOwner, Launching
<1>7. StopOrder'
  BY DEF IInv, Controls, StopOrder, Tickets, StopLabels, StopHolds, Stopper, TicketCurrent,
     TokenCurrent, HasToken, LaunchCurrent, Actors
<1> QED
  BY <1>1, <1>2, <1>3, <1>4, <1>5, <1>6, <1>7 DEF IInv

\* Recovery stops what is left of its run.
LEMMA LaunchPhysicalStep ==
  ASSUME IInv, LaunchPhysical
  PROVE  IInv'
<1>1. CASE TakeChild(Rec, "lrecheck")
  <2>1. slot # 0 /\ slot' = 0 /\ pc' = [pc EXCEPT ![Rec] = "stopping"]
    BY <1>1 DEF TakeChild, Goto
  <2>2. deadProven' \in Nat /\ UNCHANGED <<gate, outcome, reapers>>
    BY <2>1 DEF LaunchPhysical, IInv, Records
  <2>3. gate = Rec /\ Rec \in Actors
    BY DEF LaunchPhysical, IInv, GateHeld, Holding, Actors
  <2> QED
    BY <1>1, <2>2, <2>3, TakeStep DEF LaunchPhysical, Taking
<1>2. CASE GiveUp(Rec, "cancelled") /\ UNCHANGED <<deadProven, slot, status, diag, victim, ret>>
  BY <1>2, GiveUpStep DEF LaunchPhysical, Results, Actors, IInv, Numbers, runVars
<1>3. CASE slot = 0 /\ Goto(Rec, "lrecheck") /\ deadProven' = tok.run
           /\ UNCHANGED <<gate, outcome, slot, status, diag, victim, ret, reapers>>
  <2> USE <1>3 DEF LaunchPhysical, Goto, vars, osVars, proxyVars, ticketVars, watchVars, boundVars
  <2>0. UNCHANGED <<live, orphans, slot, status, active, nextRun, pending, run, victim, watchRun, watchPc>>
    OBVIOUS
  <2>1. Numbers' /\ Controls'
    BY DEF IInv, Numbers, Controls, Records, Labels, Actors
  <2>2. Flags' /\ Records'
    BY DEF IInv, Flags, Records
  <2>3. GateHeld'
    BY DEF IInv, Controls, GateHeld, Holding, Actors
  <2>4. Lifecycle'
    BY CalmLife DEF IInv, Controls, Prelaunch, Readying, Actors
  <2>5. PendingHasOwner' /\ StopOrder'
    BY DEF IInv, Controls, PendingHasOwner, Launching, StopOrder, Tickets, StopLabels, StopHolds,
           Stopper, Actors
  <2> QED
    BY <2>1, <2>2, <2>3, <2>4, <2>5 DEF IInv
<1> QED
  BY <1>1, <1>2, <1>3 DEF LaunchPhysical

\* Recovery goes on to the launch or gives up.
LEMMA LaunchRecheckStep ==
  ASSUME IInv, LaunchRecheck
  PROVE  IInv'
<1>1. CASE GiveUp(Rec, IF TokenCurrent THEN "failed" ELSE "cancelled")
  BY <1>1, GiveUpStep
  DEF LaunchRecheck, Results, Actors, IInv, Numbers, intentVars, taskVars
<1>2. CASE Goto(Rec, "lclaim") /\ UNCHANGED <<gate, outcome, reapers>>
  <2> USE <1>2 DEF LaunchRecheck, Goto, osVars, proxyVars, runVars, ticketVars, intentVars, taskVars,
                   watchVars, boundVars
  <2>1. Numbers' /\ Controls'
    BY DEF IInv, Numbers, Controls, Labels, Actors
  <2>2. Flags' /\ Records'
    BY DEF IInv, Flags, Records
  <2>3. GateHeld'
    BY DEF IInv, Controls, GateHeld, Holding, Actors
  <2>4. Lifecycle'
    BY CalmLife DEF IInv, Controls, Prelaunch, Readying, Actors
  <2>5. PendingHasOwner' /\ StopOrder'
    BY DEF IInv, Controls, PendingHasOwner, Launching, StopOrder, Tickets, StopLabels, StopHolds,
           Stopper, Actors
  <2> QED
    BY <2>1, <2>2, <2>3, <2>4, <2>5 DEF IInv
<1> QED
  BY <1>1, <1>2 DEF LaunchRecheck

\* A launch claims the next run, in its own name.
LEMMA LaunchClaimStep ==
  ASSUME IInv, NEW a \in Actors, LaunchClaim(a)
  PROVE  IInv'
<1>0. /\ startup' \in [Actors -> Nat] /\ a \in Actors
      /\ UNCHANGED <<osVars, proxyVars, slot, pending, diag, ticketVars, intentVars, kind, ticket,
                     victim, ret, tok, watchVars, boundVars>>
  BY DEF LaunchClaim, IInv, Numbers
<1>1. CASE status \in {"Starting", "Running", "Stopping"}
  BY <1>0, <1>1, GiveUpStep DEF LaunchClaim, Results, IInv, Numbers, runVars, intentVars
<1>2. CASE status \notin {"Starting", "Running", "Stopping"}
  <2> DEFINE next == nextRun + 1
  <2>0. /\ pc[a] = "lclaim" /\ status' = "Starting"
        /\ nextRun' = next /\ active' = next /\ run' = [run EXCEPT ![a] = next]
        /\ pc' = [pc EXCEPT ![a] = "lwire"] /\ UNCHANGED <<gate, outcome, reapers>>
    BY <1>2 DEF LaunchClaim, Goto
  <2>a. next \in Nat /\ next # 0 /\ next > nextRun
    BY DEF IInv, Numbers
  <2> HIDE DEF next
  <2> USE <1>0, <2>0, <2>a DEF osVars, proxyVars, ticketVars, intentVars, watchVars, boundVars
  <2>b. slot = 0
    BY <1>2 DEF IInv, Lifecycle, SlotIsActive
  <2>1. Numbers'
    BY DEF IInv, Numbers
  <2>2. Controls'
    BY DEF IInv, Controls, Labels
  <2>3. Flags' /\ Records'
    BY DEF IInv, Flags, Records
  <2>4. GateHeld'
    BY DEF IInv, Controls, GateHeld, Holding
  <2>5. RunsInOrder' /\ RunsDistinct'
    BY DEF IInv, Numbers, Lifecycle, RunsInOrder, RunsDistinct
  <2>6. VictimHeld' /\ BeforeSpawn'
    <3>1. \A b \in Actors : pc[b] \in Prelaunch => b = a
      BY DEF IInv, GateHeld, Holding, Prelaunch
    <3> QED
      BY <2>b, <3>1 DEF IInv, Numbers, Controls, Lifecycle, RunsInOrder, VictimHeld, BeforeSpawn,
                        Prelaunch
  <2>7. WhileReadying'
    BY DEF IInv, Numbers, Controls, Lifecycle, RunsInOrder, WhileReadying, Readying
  <2>8. WatchHolds' /\ OrphansInactive' /\ SlotIsActive' /\ OwnedEach'
    BY <2>b DEF IInv, Numbers, Lifecycle, RunsInOrder, WatchHolds, OrphansInactive, SlotIsActive,
                OwnedEach
  <2>9. PendingHasOwner'
    BY DEF IInv, Controls, PendingHasOwner, Launching
  <2>10. StopOrder'
    BY <2>b DEF IInv, Controls, StopOrder, Tickets, StopLabels, StopHolds, Stopper, Actors
  <2> QED
    BY <2>1, <2>2, <2>3, <2>4, <2>5, <2>6, <2>7, <2>8, <2>9, <2>10 DEF IInv, Lifecycle
<1> QED
  BY <1>1, <1>2

\* The run is marked as pending; a stale launch is undone.
LEMMA LaunchWireStep ==
  ASSUME IInv, NEW a \in Actors, LaunchWire(a)
  PROVE  IInv'
<1> USE DEF LaunchWire, Goto, Report, Release, AfterFailure
<1> USE DEF osVars, proxyVars, ticketVars, intentVars, taskVars, watchVars, boundVars
<1>0. /\ pc[a] = "lwire" /\ gate = a /\ active = run[a] /\ slot = 0 /\ run[a] \in Nat \ {0}
      /\ run[a] <= nextRun
  BY DEF IInv, Numbers, GateHeld, Holding, Lifecycle, BeforeSpawn, Prelaunch, RunsInOrder
<1>1. pending' \in {pending, run[a]}
  OBVIOUS
<1>2. CASE LaunchCurrent(a)
  <2>0. /\ pc' = [pc EXCEPT ![a] = "lspawn"]
        /\ UNCHANGED <<diag, status, active, gate, outcome, reapers, live, orphans, proxy, proxyStuck,
                       slot, nextRun, readyEpoch, catalogFresh, epoch, enabled, accepted, accProxy,
                       manualTicket, woken, deadProven, acceptedRuns, kind, ticket, run, startup,
                       victim, ret, tok, watchRun, watchPc, recoveries, wakes, toggles, mutations>>
    BY <1>2
  <2>1. Numbers' /\ Controls'
    BY <1>0, <1>1, <2>0 DEF IInv, Numbers, Controls, Labels
  <2>2. Flags' /\ Records'
    BY <2>0 DEF IInv, Flags, Records
  <2>3. GateHeld'
    BY <2>0 DEF IInv, Controls, GateHeld, Holding
  <2>4. Lifecycle'
    BY <1>0, <2>0
    DEF IInv, Controls, GateHeld, Holding, Lifecycle, RunsInOrder, RunsDistinct, VictimHeld,
        BeforeSpawn, Prelaunch, WhileReadying, Readying, WatchHolds, OrphansInactive, SlotIsActive,
        OwnedEach
  <2>5. PendingHasOwner'
    BY <1>0, <1>1, <2>0 DEF IInv, Controls, PendingHasOwner, Launching
  <2>6. StopOrder'
    BY <2>0 DEF IInv, Controls, StopOrder, Tickets, StopLabels, StopHolds, Stopper, Actors
  <2> QED
    BY <2>1, <2>2, <2>3, <2>4, <2>5, <2>6 DEF IInv
<1>3. CASE ~LaunchCurrent(a)
  <2>0. /\ gate' = Free /\ status' = "Stopped" /\ active' = 0 /\ diag' = Retire(diag, run[a], TRUE)
        /\ outcome' = [outcome EXCEPT ![a] = "cancelled"]
        /\ \E label \in {"idle", "rgate", "done"} : pc' = [pc EXCEPT ![a] = label]
        /\ reapers' = reapers \cup ({run[a]} \cap {pending'})
        /\ UNCHANGED <<live, orphans, proxy, proxyStuck, slot, nextRun, readyEpoch, catalogFresh,
                       epoch, enabled, accepted, accProxy, manualTicket, woken, deadProven,
                       acceptedRuns, kind, ticket, run, startup, victim, ret, tok, watchRun, watchPc,
                       recoveries, wakes, toggles, mutations>>
    BY <1>0, <1>3 DEF AbortStart
  <2>1. Numbers' /\ Controls'
    BY <1>0, <1>1, <2>0 DEF IInv, Numbers, Controls, Labels, Results
  <2>2. Flags' /\ Records'
    <3>1. Flags'
      BY <2>0 DEF IInv, Flags
    <3>2. Retire(diag, run[a], TRUE) \in Diags
      BY RetireType DEF IInv, Records, Diags
    <3> QED
      BY <2>0, <3>1, <3>2 DEF IInv, Records, Diags
  <2>a. /\ pc' \in [Actors -> Labels] /\ pc'[a] \in {"idle", "rgate", "done"}
        /\ \A b \in Actors : b # a => pc'[b] = pc[b]
    BY <2>0, <2>1 DEF IInv, Controls
  <2>3. GateHeld'
    BY <1>0, <2>0, <2>a, ActorAssumption DEF IInv, GateHeld, Holding
  <2>4. Lifecycle'
    <3>1. Cleared
      BY <1>0, <2>0 DEF IInv, Numbers, Cleared
    <3>2. \A b \in Actors : pc[b] \in Prelaunch => b = a
      BY <1>0 DEF IInv, GateHeld, Holding, Prelaunch
    <3> QED
      BY <1>0, <2>0, <2>a, <3>1, <3>2, ClearedLife DEF Prelaunch, Readying
  <2>5. PendingHasOwner'
    BY <1>0, <1>1, <2>0, <2>a DEF IInv, PendingHasOwner, Launching
  <2>6. StopOrder'
    BY <1>0, <2>0, <2>a
    DEF IInv, StopOrder, Tickets, StopLabels, StopHolds, Stopper, Actors
  <2> QED
    BY <2>1, <2>2, <2>3, <2>4, <2>5, <2>6 DEF IInv
<1> QED
  BY <1>2, <1>3

\* A launch without a child is undone.
LEMMA LaunchRefusedByOsStep ==
  ASSUME IInv, NEW a \in Actors, LaunchRefusedByOs(a)
  PROVE  IInv'
<1> USE ActorAssumption DEF LaunchRefusedByOs, Goto, Report, GiveUp, Release, AfterFailure,
    AbortStart
<1> USE DEF vars, osVars, proxyVars, runVars, ticketVars, intentVars, taskVars, watchVars,
    boundVars
<1>1. Numbers'
  BY DEF IInv, Numbers, Controls, Labels, Lifecycle, BeforeSpawn, Prelaunch, OrphansInactive,
     SlotIsActive, Actors
<1>2. Controls'
  BY DEF IInv, Controls, Labels, Results
<1>3. Flags' /\ Records'
  <2>1. Flags'
    BY DEF IInv, Flags
  <2>2. Retire(diag, run[a], TRUE) \in Diags
    BY RetireType DEF IInv, Records, Diags
  <2>3. diag' \in Diags
    BY <2>2 DEF IInv, Records, Diags
  <2> QED
    BY <2>1, <2>3 DEF IInv, Records, Diags
<1>4. GateHeld'
  BY DEF IInv, Controls, GateHeld, Holding
<1>5. Lifecycle'
  BY DEF IInv, Numbers, Controls, Lifecycle, RunsInOrder, RunsDistinct, VictimHeld,
     BeforeSpawn, Prelaunch, WhileReadying, Readying, WatchHolds, OrphansInactive,
     SlotIsActive, OwnedEach
<1>6. PendingHasOwner'
  BY DEF IInv, PendingHasOwner, Launching
<1>7. StopOrder'
  BY DEF IInv, StopOrder, Tickets, StopLabels, StopHolds, Stopper
<1> QED
  BY <1>1, <1>2, <1>3, <1>4, <1>5, <1>6, <1>7 DEF IInv

\* The spawn fills the empty slot with the active run.
LEMMA LaunchSpawnStep ==
  ASSUME IInv, NEW a \in Actors, LaunchSpawn(a)
  PROVE  IInv'
<1> USE ActorAssumption DEF LaunchSpawn, Goto, Release, DropChild
<1> USE DEF vars, osVars, proxyVars, runVars, ticketVars, intentVars, taskVars, watchVars,
    boundVars
<1>1. Numbers'
  BY DEF IInv, Numbers, Controls, Labels, Lifecycle, BeforeSpawn, Prelaunch, OrphansInactive,
     SlotIsActive, Actors
<1>2. Controls'
  BY DEF IInv, Controls, Labels
<1>3. Flags' /\ Records'
  <2>1. Flags'
    BY DEF IInv, Flags
  <2>2. diag' \in Diags
    BY DEF IInv, Numbers, Diags
  <2> QED
    BY <2>1, <2>2 DEF IInv, Records, Diags
<1>4. GateHeld'
  BY DEF IInv, Controls, GateHeld, Holding
<1>5. Lifecycle'
  BY DEF IInv, Numbers, Controls, GateHeld, Holding, Lifecycle, RunsInOrder, RunsDistinct,
     VictimHeld, BeforeSpawn, Prelaunch, WhileReadying, Readying, WatchHolds, OrphansInactive,
     SlotIsActive, OwnedEach, Actors
<1>6. PendingHasOwner'
  BY DEF IInv, Controls, PendingHasOwner, Launching
<1>7. StopOrder'
  BY DEF IInv, Controls, GateHeld, Holding, Lifecycle, BeforeSpawn, Prelaunch, StopOrder,
     Tickets, StopLabels, StopHolds, Stopper, Actors
<1> QED
  BY <1>1, <1>2, <1>3, <1>4, <1>5, <1>6, <1>7 DEF IInv

\* The listener came up or did not.
LEMMA LaunchReadyStep ==
  ASSUME IInv, NEW a \in Actors, LaunchReady(a)
  PROVE  IInv'
<1> USE ActorAssumption DEF LaunchReady, Goto
<1> USE DEF vars, osVars, proxyVars, runVars, ticketVars, intentVars, taskVars, watchVars,
    boundVars
<1>1. Numbers'
  BY DEF IInv, Numbers
<1>2. Controls'
  BY DEF IInv, Controls, Labels
<1>3. Flags' /\ Records'
  BY DEF IInv, Flags, Records
<1>4. GateHeld'
  BY DEF IInv, Controls, GateHeld, Holding
<1>5. Lifecycle'
  BY CalmLife DEF IInv, Controls, Prelaunch, Readying
<1>6. PendingHasOwner'
  BY DEF IInv, Controls, PendingHasOwner, Launching
<1>7. StopOrder'
  BY DEF IInv, Numbers, Controls, StopOrder, Tickets, StopLabels, StopHolds, Stopper, Actors
<1> QED
  BY <1>1, <1>2, <1>3, <1>4, <1>5, <1>6, <1>7 DEF IInv

\* An abandoned launch leaves its run to a reaper.
LEMMA LaunchAbandonedStep ==
  ASSUME IInv, NEW r \in Reqs, LaunchAbandoned(r)
  PROVE  IInv'
<1> USE ActorAssumption DEF LaunchAbandoned, Goto, Report
<1> USE DEF vars, osVars, proxyVars, runVars, ticketVars, intentVars, taskVars, watchVars,
    boundVars
<1>1. Numbers'
  BY DEF IInv, Numbers, Actors
<1>2. Controls'
  BY DEF IInv, Controls, Labels, Results
<1>3. Flags' /\ Records'
  BY DEF IInv, Flags, Records
<1>4. GateHeld'
  BY DEF IInv, Controls, GateHeld, Holding
<1>5. Lifecycle'
  BY CalmLife DEF IInv, Controls, Prelaunch, Readying
<1>6. PendingHasOwner'
  BY DEF IInv, PendingHasOwner, Launching
<1>7. StopOrder'
  BY DEF IInv, StopOrder, Tickets, StopLabels, StopHolds, Stopper
<1> QED
  BY <1>1, <1>2, <1>3, <1>4, <1>5, <1>6, <1>7 DEF IInv

\* After readiness a superseded launch is discarded, a ready one goes on.
LEMMA LaunchRegateStep ==
  ASSUME IInv, NEW a \in Actors, LaunchRegate(a)
  PROVE  IInv'
<1>0. pc[a] \in {"lregate", "lunready"} /\ gate = Free
  BY DEF LaunchRegate
<1>1. CASE Superseded(a)
  <2>1. /\ \E t \in Waits(run[a]) : Discard(run[a], t)
        /\ Report(a, AfterFailure(a), "cancelled")
        /\ reapers' = reapers \cup ({run[a]} \cap {pending})
        /\ UNCHANGED <<gate, proxyVars, nextRun, pending, ticketVars, intentVars, taskVars, watchVars,
                       boundVars>>
    BY <1>1 DEF LaunchRegate
  <2>2. /\ AfterFailure(a) \in {"idle", "rgate", "done"}
        /\ pc' = [pc EXCEPT ![a] = AfterFailure(a)] /\ outcome' \in [Actors -> Results]
    BY <2>1 DEF Report, Goto, AfterFailure, IInv, Controls, Results
  <2> QED
    BY <1>0, <2>1, <2>2, DiscardStep
<1>2. CASE ~Superseded(a)
  <2>0. /\ pc[a] = "lregate" /\ gate' = a /\ pc' = [pc EXCEPT ![a] = "lfinal"]
        /\ active = run[a]
        /\ UNCHANGED <<slot, live, orphans, diag, status, active, outcome, reapers, proxyVars, nextRun,
                       pending, ticketVars, intentVars, taskVars, watchVars, boundVars>>
    BY <1>2 DEF LaunchRegate, Goto, Superseded
  <2> USE <1>0, <2>0 DEF osVars, proxyVars, ticketVars, intentVars, taskVars, watchVars, boundVars
  <2>1. Numbers' /\ Controls'
    BY DEF IInv, Numbers, Controls, Labels
  <2>2. Flags' /\ Records'
    BY DEF IInv, Flags, Records
  <2>3. GateHeld'
    BY ActorAssumption DEF IInv, Controls, GateHeld, Holding
  <2>4. Lifecycle'
    BY CalmLife DEF IInv, Controls, Prelaunch, Readying
  <2>5. PendingHasOwner'
    BY DEF IInv, Controls, PendingHasOwner, Launching
  <2>6. Tickets' /\ StopLabels'
    BY DEF IInv, Controls, StopOrder, Tickets, StopLabels, Stopper, Actors
  <2>7. StopHolds'
    <3>1. slot # 0
      <4>1. \A b \in Actors : pc[b] # "stopping"
        BY ActorAssumption DEF IInv, GateHeld, Holding
      <4> QED
        BY <4>1 DEF IInv, Lifecycle, WhileReadying, Readying
    <3>2. \A r \in Reqs : Stopper(r) => r # a
      BY DEF IInv, StopOrder, StopLabels
    <3> QED
      BY <3>1, <3>2 DEF IInv, Controls, StopOrder, StopHolds, Stopper, Actors
  <2> QED
    BY <2>1, <2>2, <2>3, <2>4, <2>5, <2>6, <2>7 DEF IInv, StopOrder
<1> QED
  BY <1>1, <1>2

\* The launch runs, or is discarded when it lost its currency.
LEMMA LaunchFinishStep ==
  ASSUME IInv, NEW a \in Actors, LaunchFinish(a)
  PROVE  IInv'
<1>0. pc[a] = "lfinal" /\ gate = a
  BY DEF LaunchFinish, IInv, GateHeld, Holding
<1>1. CASE ~LaunchCurrent(a)
  <2>1. /\ \E t \in Waits(run[a]) : Discard(run[a], t)
        /\ GiveUp(a, "cancelled")
        /\ UNCHANGED <<pending, proxyVars, nextRun, ticketVars, intentVars, taskVars, watchVars,
                       boundVars>>
    BY <1>1 DEF LaunchFinish
  <2>2. /\ AfterFailure(a) \in {"idle", "rgate", "done"}
        /\ pc' = [pc EXCEPT ![a] = AfterFailure(a)] /\ outcome' \in [Actors -> Results]
        /\ gate' = Free /\ reapers' = reapers \cup ({run[a]} \cap ({pending} \ {0}))
    BY <2>1 DEF GiveUp, Release, Report, Goto, AfterFailure, IInv, Controls, Results
  <2> QED
    BY <1>0, <2>1, <2>2, DiscardStep
<1>2. CASE LaunchCurrent(a)
  <2>0. /\ pc' = [pc EXCEPT ![a] = IF a = Rec THEN "lproxy" ELSE "laccept"]
        /\ status' = "Running" /\ pending' = (IF pending = run[a] THEN 0 ELSE pending)
        /\ UNCHANGED <<slot, live, orphans, diag, active, gate, outcome, reapers, proxyVars, nextRun,
                       ticketVars, intentVars, taskVars, watchVars, boundVars>>
    BY <1>2 DEF LaunchFinish, Goto, FinishGuard
  <2> USE <1>0, <2>0 DEF osVars, proxyVars, ticketVars, intentVars, taskVars, watchVars, boundVars
  <2>1. Numbers' /\ Controls'
    BY DEF IInv, Numbers, Controls, Labels
  <2>2. Flags' /\ Records'
    BY DEF IInv, Flags, Records
  <2>3. GateHeld'
    BY DEF IInv, Controls, GateHeld, Holding
  <2>4. Lifecycle'
    BY DEF IInv, Numbers, Controls, GateHeld, Holding, Lifecycle, RunsInOrder, RunsDistinct,
           VictimHeld, BeforeSpawn, Prelaunch, WhileReadying, Readying, WatchHolds, OrphansInactive,
           SlotIsActive, OwnedEach
  <2>5. PendingHasOwner'
    BY DEF IInv, Controls, PendingHasOwner, Launching, Lifecycle, RunsDistinct
  <2>6. StopOrder'
    BY DEF IInv, Controls, StopOrder, Tickets, StopLabels, StopHolds, Stopper, Actors
  <2> QED
    BY <2>1, <2>2, <2>3, <2>4, <2>5, <2>6 DEF IInv
<1> QED
  BY <1>1, <1>2

\* An acceptance changes the intent only.
LEMMA LaunchAcceptStep ==
  ASSUME IInv, NEW a \in Actors, LaunchAccept(a)
  PROVE  IInv'
<1> USE ActorAssumption DEF LaunchAccept, Goto, Report, Release, Acceptable, TokenCurrent,
    HasToken
<1> USE DEF vars, osVars, proxyVars, runVars, ticketVars, intentVars, taskVars, watchVars,
    boundVars
<1>1. Numbers'
  BY DEF IInv, Numbers
<1>2. Controls'
  BY DEF IInv, Controls, Labels, Results
<1>3. Flags' /\ Records'
  BY DEF IInv, Flags, Records
<1>4. GateHeld'
  BY DEF IInv, Controls, GateHeld, Holding
<1>5. Lifecycle'
  BY CalmLife DEF IInv, Controls, Prelaunch, Readying
<1>6. PendingHasOwner'
  BY DEF IInv, Controls, PendingHasOwner, Launching
<1>7. StopOrder'
  BY DEF IInv, Numbers, Controls, StopOrder, Tickets, StopLabels, StopHolds, Stopper, Actors
<1> QED
  BY <1>1, <1>2, <1>3, <1>4, <1>5, <1>6, <1>7 DEF IInv

\* One fallback launch under a new run, or the end of the launch.
LEMMA LaunchFallbackStep ==
  ASSUME IInv, NEW a \in Actors, LaunchFallback(a)
  PROVE  IInv'
<1>0. /\ pc[a] = "lunready" /\ gate = Free /\ active = run[a] /\ run[a] # 0
      /\ UNCHANGED <<proxyVars, ticketVars, intentVars, kind, ticket, startup, victim, ret, tok,
                     watchVars, boundVars>>
  BY DEF LaunchFallback, Superseded, IInv, Lifecycle, WhileReadying, Readying
<1>a. \A b \in Actors : pc[b] \notin Holding
  BY <1>0, ActorAssumption DEF IInv, GateHeld
<1>b. slot = run[a] /\ pending = run[a] /\ watchRun # run[a]
  BY <1>0, <1>a DEF IInv, Lifecycle, WhileReadying, Readying, Holding
<1>c. AfterFailure(a) \in {"idle", "rgate", "done"}
  BY DEF AfterFailure
<1>1. CASE /\ TRUE \in Waits(run[a]) /\ Discard(run[a], TRUE)
           /\ Report(a, AfterFailure(a), "failed")
           /\ reapers' = reapers \cup ({run[a]} \cap {pending})
           /\ UNCHANGED <<gate, nextRun, run, pending>>
  <2>1. pc' = [pc EXCEPT ![a] = AfterFailure(a)] /\ outcome' \in [Actors -> Results]
    BY <1>1 DEF Report, Goto, IInv, Controls, Results
  <2> QED
    BY <1>0, <1>c, <1>1, <2>1, DiscardStep DEF taskVars
<1>2. CASE /\ Discard(run[a], FALSE) /\ Report(a, AfterFailure(a), "failed")
           /\ FinishGuard(run[a]) /\ UNCHANGED <<gate, nextRun, run, reapers>>
  <2>1. pc' = [pc EXCEPT ![a] = AfterFailure(a)] /\ outcome' \in [Actors -> Results]
    BY <1>2 DEF Report, Goto, IInv, Controls, Results
  <2>2. FALSE \in Waits(run[a])
    BY DEF Waits
  <2>3. pending' = 0
    BY <1>b, <1>2 DEF FinishGuard
  <2> QED
    BY <1>0, <1>c, <1>2, <2>1, <2>2, <2>3, DiscardStep DEF taskVars
<1>3. CASE /\ slot' = (IF slot = run[a] THEN 0 ELSE slot)
           /\ live' = live \ {run[a]} /\ diag' = Retire(diag, run[a], TRUE)
           /\ status' = "Stopped"
           /\ nextRun' = nextRun + 1 /\ active' = nextRun + 1 /\ pending' = nextRun + 1
           /\ run' = [run EXCEPT ![a] = nextRun + 1]
           /\ gate' = a /\ Goto(a, "lrespawn")
           /\ UNCHANGED <<orphans, outcome, reapers>>
  <2> DEFINE next == nextRun + 1
  <2>0. /\ slot' = 0 /\ live' = live \ {run[a]} /\ status' = "Stopped"
        /\ nextRun' = next /\ active' = next /\ pending' = next
        /\ run' = [run EXCEPT ![a] = next] /\ gate' = a /\ pc' = [pc EXCEPT ![a] = "lrespawn"]
        /\ UNCHANGED <<orphans, outcome, reapers>>
    BY <1>b, <1>3 DEF Goto
  <2>a. /\ next \in Nat /\ next # 0 /\ next > nextRun /\ next \notin live /\ next # watchRun
        /\ \A b \in Actors : run[b] # next
    BY DEF IInv, Numbers, Lifecycle, RunsInOrder
  <2>b. Retire(diag, run[a], TRUE) \in Diags
    BY RetireType DEF IInv, Records, Diags
  <2>c. diag' \in Diags
    BY <1>3, <2>b
  <2> HIDE DEF next
  <2>d. /\ pc \in [Actors -> Labels] /\ run \in [Actors -> Nat]
        /\ pc'[a] = "lrespawn" /\ run'[a] = next
        /\ \A b \in Actors : b # a => pc'[b] = pc[b] /\ run'[b] = run[b]
    BY <2>0 DEF IInv, Numbers, Controls
  <2> USE <1>0, <1>a, <1>b, <2>0, <2>a, <2>d
      DEF proxyVars, ticketVars, intentVars, watchVars, boundVars
  <2>1. Numbers'
    <3>1. run[a] \notin orphans /\ orphans' \subseteq live'
      BY DEF IInv, Numbers, Lifecycle, OrphansInactive
    <3> QED
      BY <3>1 DEF IInv, Numbers
  <2>2. Controls'
    BY DEF IInv, Controls, Labels
  <2>3. Flags' /\ Records'
    <3>1. Flags'
      BY DEF IInv, Flags
    <3> QED
      BY <2>c, <3>1 DEF IInv, Records, Diags
  <2>4. GateHeld'
    BY DEF IInv, GateHeld, Holding
  <2>5. RunsInOrder' /\ RunsDistinct'
    BY DEF IInv, Numbers, Lifecycle, RunsInOrder, RunsDistinct
  <2>6. VictimHeld' /\ BeforeSpawn'
    BY DEF IInv, Lifecycle, VictimHeld, BeforeSpawn, Holding, Prelaunch
  <2>7. WhileReadying'
    BY DEF IInv, Lifecycle, WhileReadying, Readying
  <2>8. WatchHolds' /\ OrphansInactive' /\ SlotIsActive' /\ OwnedEach'
    BY DEF IInv, Numbers, Lifecycle, WatchHolds, OrphansInactive, SlotIsActive, OwnedEach
  <2>9. PendingHasOwner'
    BY DEF PendingHasOwner, Launching
  <2>10. Tickets' /\ StopLabels'
    BY DEF IInv, StopOrder, Tickets, StopLabels, Stopper, Actors
  <2>11. StopHolds'
    BY DEF IInv, StopOrder, StopLabels, StopHolds, Stopper
  <2> QED
    BY <2>1, <2>2, <2>3, <2>4, <2>5, <2>6, <2>7, <2>8, <2>9, <2>10, <2>11
    DEF IInv, Lifecycle, StopOrder
<1> QED
  BY <1>1, <1>2, <1>3 DEF LaunchFallback

\* A launch that is not accepted stops its engine.
LEMMA LaunchNotAcceptedStep ==
  ASSUME IInv, NEW a \in Actors, LaunchNotAccepted(a)
  PROVE  IInv'
<1>0. /\ pc[a] = "laccept" /\ gate = a /\ deadProven' = deadProven
      /\ UNCHANGED <<osVars, proxyVars, active, nextRun, pending, ticketVars, intentVars, kind, ticket,
                     run, startup, tok, watchVars, boundVars>>
  BY DEF LaunchNotAccepted, IInv, GateHeld, Holding, intentVars
<1>1. CASE TakeChild(a, "cancelled") /\ UNCHANGED <<gate, outcome, reapers>>
  BY <1>0, <1>1, TakeStep DEF Taking, intentVars, IInv, Numbers
<1>2. CASE GiveUp(a, "cancelled") /\ UNCHANGED <<slot, status, diag, victim, ret>>
  BY <1>0, <1>2, GiveUpStep DEF Results, runVars, intentVars, IInv, Numbers
<1> QED
  BY <1>1, <1>2 DEF LaunchNotAccepted, StopAndGiveUp

\* Recovery applies the proxy of its snapshot, or stops its engine.
LEMMA LaunchRecoveryProxyStep ==
  ASSUME IInv, LaunchRecoveryProxy
  PROVE  IInv'
<1>0. /\ pc[Rec] = "lproxy" /\ gate = Rec /\ Rec \in Actors
      /\ UNCHANGED <<osVars, active, nextRun, pending, ticketVars, intentVars, kind, ticket, run,
                     startup, tok, watchVars, boundVars>>
  BY DEF LaunchRecoveryProxy, IInv, GateHeld, Holding, Actors
<1>1. ASSUME NEW result \in {"failed", "cancelled"}, StopAndGiveUp(Rec, result), UNCHANGED proxyVars
      PROVE  IInv'
  <2>1. CASE TakeChild(Rec, result) /\ UNCHANGED <<gate, outcome, reapers>>
    BY <1>0, <2>1, <1>1, TakeStep DEF Taking, intentVars, IInv, Numbers
  <2>2. CASE GiveUp(Rec, result) /\ UNCHANGED <<slot, status, diag, victim, ret>>
    BY <1>0, <2>2, <1>1, GiveUpStep DEF Results, runVars, intentVars, IInv, Numbers
  <2> QED
    BY <1>1, <2>1, <2>2 DEF StopAndGiveUp
<1>2. CASE /\ proxy' = (IF tok.proxy THEN run[Rec] ELSE proxy)
           /\ proxyStuck' = (~tok.proxy /\ proxyStuck)
           /\ Goto(Rec, "laccept")
           /\ UNCHANGED <<gate, outcome, reapers, slot, status, diag, victim, ret>>
  <2>0. /\ proxy' \in {proxy, run[Rec]} /\ pc' = [pc EXCEPT ![Rec] = "laccept"]
        /\ UNCHANGED <<gate, outcome, reapers, slot, status, diag, victim, ret>>
    BY <1>2 DEF Goto
  <2>a. proxyStuck' \in BOOLEAN
    BY <1>2
  <2> USE <1>0, <2>0 DEF osVars, ticketVars, intentVars, watchVars, boundVars
  <2>1. Numbers' /\ Controls'
    BY DEF IInv, Numbers, Controls, Labels
  <2>2. Flags' /\ Records'
    BY <2>a DEF IInv, Flags, Records
  <2>3. GateHeld'
    BY DEF IInv, Controls, GateHeld, Holding
  <2>4. Lifecycle'
    BY CalmLife DEF IInv, Controls, Prelaunch, Readying
  <2>5. PendingHasOwner' /\ StopOrder'
    BY DEF IInv, Controls, PendingHasOwner, Launching, StopOrder, Tickets, StopLabels, StopHolds,
           Stopper, Actors
  <2> QED
    BY <2>1, <2>2, <2>3, <2>4, <2>5 DEF IInv
<1>3. (IF TokenCurrent THEN "failed" ELSE "cancelled") \in {"failed", "cancelled"}
  OBVIOUS
<1> QED
  BY <1>1, <1>2, <1>3 DEF LaunchRecoveryProxy

\* The proxy is applied, or the engine stopped because it was not.
LEMMA ApplyProxyStep ==
  ASSUME IInv, NEW r \in Reqs, ApplyProxy(r)
  PROVE  IInv'
<1>0. /\ pc[r] = "apply" /\ gate = Free /\ r \in Actors /\ ~Stopper(r)
      /\ UNCHANGED <<osVars, active, nextRun, pending, ticketVars, epoch, enabled, accepted,
                     manualTicket, woken, deadProven, acceptedRuns, kind, ticket, run, startup, tok,
                     watchVars, reapers, boundVars>>
  BY DEF ApplyProxy, IInv, StopOrder, StopLabels, Actors
<1>1. CASE TakeChild(r, "unapplied") /\ gate' = r /\ UNCHANGED <<outcome, proxyVars, accProxy>>
  BY <1>0, <1>1, TakeStep DEF Taking, IInv, Numbers
<1>2. CASE /\ Goto(r, "done") \/ \E result \in Results : Report(r, "done", result)
           /\ outcome' = outcome \/ \E result \in Results : Report(r, "done", result)
           /\ proxy' \in {proxy, run[r]} /\ proxyStuck' \in {proxyStuck, FALSE}
           /\ accProxy' \in BOOLEAN /\ UNCHANGED <<gate, slot, status, diag, victim, ret>>
  <2>1. pc' = [pc EXCEPT ![r] = "done"] /\ outcome' \in [Actors -> Results]
    BY <1>2 DEF Goto, Report, IInv, Controls
  <2>2. proxy' \in Nat
    BY <1>0, <1>2 DEF IInv, Numbers
  <2>3. proxyStuck' \in BOOLEAN
    BY <1>2 DEF IInv, Flags
  <2> QED
    BY <1>0, <1>2, <2>1, <2>2, <2>3, QuietStep DEF Queueing, Quiet, runVars, taskVars
<1> QED
  <2>1. accProxy \in BOOLEAN /\ (accProxy \/ accepted = run[r]) \in BOOLEAN
    BY DEF IInv, Flags
  <2> QED
    BY <1>1, <1>2, <2>1 DEF ApplyProxy, Results, proxyVars

\* The window changes the proxy only.
LEMMA FrontendProxyStep ==
  ASSUME IInv, NEW r \in Reqs, FrontendProxy(r)
  PROVE  IInv'
<1>0. pc' = [pc EXCEPT ![r] = "done"] /\ ~Stopper(r) /\ r \in Actors
  BY DEF FrontendProxy, Goto, IInv, StopOrder, StopLabels, Actors
<1>1. proxy' \in {0, proxy, run[r]} /\ proxyStuck' \in BOOLEAN
  BY ClearEffect DEF FrontendProxy
<1>2. proxy' \in Nat
  BY <1>0, <1>1 DEF IInv, Numbers
<1>3. accProxy' \in BOOLEAN
  BY DEF FrontendProxy, IInv, Flags
<1> QED
  BY <1>0, <1>1, <1>2, <1>3, QuietStep DEF FrontendProxy, Queueing, Quiet, IInv, Controls

\* The reset after a failed launch.
LEMMA ResetAfterStep ==
  ASSUME IInv, NEW r \in Reqs, ResetAfter(r)
  PROVE  IInv'
<1>0. /\ pc[r] = "rgate" /\ gate = Free /\ pc' = [pc EXCEPT ![r] = "done"] /\ r \in Actors
      /\ outcome' \in [Actors -> Results]
      /\ UNCHANGED <<gate, ticketVars, intentVars, taskVars, watchVars, reapers, boundVars>>
  BY DEF ResetAfter, Goto, IInv, Controls, Actors
<1>1. CASE ResetAll
  BY <1>0, <1>1, ResetStep
<1>2. CASE UNCHANGED <<osVars, proxyVars, runVars>>
  BY <1>0, <1>2, QuietStep
  DEF Queueing, Quiet, IInv, Numbers, Flags, StopOrder, StopLabels, proxyVars, intentVars
<1> QED
  BY <1>1, <1>2 DEF ResetAfter

\* A stop takes the child, or finds none.
LEMMA StopEnterStep ==
  ASSUME IInv, NEW r \in Reqs, StopEnter(r)
  PROVE  IInv'
<1>0. /\ pc[r] = "sgate" /\ gate = Free /\ r \in Actors
      /\ UNCHANGED <<osVars, proxyVars, active, nextRun, pending, ticketVars, intentVars, kind, ticket,
                     run, startup, tok, watchVars, reapers, boundVars>>
  BY DEF StopEnter, Actors
<1>1. CASE TakeChild(r, "done") /\ gate' = r /\ UNCHANGED outcome
  BY <1>0, <1>1, TakeStep DEF Taking, intentVars, IInv, Numbers
<1>2. CASE /\ readyEpoch = ticket[r] => slot = 0
           /\ \E result \in Results : Report(r, "done", result)
           /\ UNCHANGED <<gate, slot, status, diag, victim, ret>>
  <2>1. pc' = [pc EXCEPT ![r] = "done"] /\ outcome' \in [Actors -> Results]
    BY <1>2 DEF Goto, Report, IInv, Controls
  <2> QED
    BY <1>0, <1>2, <2>1, QuietStep
    DEF Queueing, Quiet, runVars, taskVars, proxyVars, intentVars, IInv, Numbers, Flags
<1> QED
  BY <1>1, <1>2 DEF StopEnter, Results

\* The reset a user asked for.
LEMMA ResetEnterStep ==
  ASSUME IInv, NEW r \in Reqs, ResetEnter(r)
  PROVE  IInv'
<1>0. /\ pc[r] = "sgate" /\ gate = Free /\ pc' = [pc EXCEPT ![r] = "done"] /\ r \in Actors
      /\ outcome' \in [Actors -> Results]
      /\ UNCHANGED <<gate, ticketVars, intentVars, taskVars, watchVars, reapers, boundVars>>
  BY DEF ResetEnter, Report, Goto, IInv, Controls, Actors, Results
<1>1. CASE ResetAll
  BY <1>0, <1>1, ResetStep
<1>2. CASE readyEpoch # ticket[r] /\ UNCHANGED <<osVars, proxyVars, runVars>>
  BY <1>0, <1>2, QuietStep
  DEF Queueing, Quiet, IInv, Numbers, Flags, proxyVars, intentVars
<1> QED
  BY <1>1, <1>2 DEF ResetEnter

\* The child is gone and its run is finalized.
LEMMA StopReapStep ==
  ASSUME IInv, NEW a \in Actors, StopReap(a)
  PROVE  IInv'
<1>0. /\ pc[a] = "stopping" /\ gate = a /\ victim[a] \notin live /\ slot = 0
      /\ victim' = [victim EXCEPT ![a] = 0]
      /\ gate' = IF ret[a] = "lrecheck" THEN gate ELSE Free
      /\ UNCHANGED <<osVars, slot, nextRun, pending, ticketVars, intentVars, kind, ticket, run,
                     startup, ret, tok, watchVars, reapers, boundVars>>
  BY DEF StopReap, Reaped, IInv, GateHeld, Holding, Lifecycle, VictimHeld
<1>1. /\ \E label \in {"lgate", "lrecheck", "done", "idle", "rgate"} :
           /\ pc' = [pc EXCEPT ![a] = label]
           /\ label = "lrecheck" <=> ret[a] = "lrecheck"
           /\ Stopper(a) /\ a \in Reqs => label = "done"
      /\ outcome' \in [Actors -> Results]
  <2>1. ret[a] \in {"lgate", "lrecheck", "done", "cancelled", "failed", "unapplied"}
    BY DEF IInv, Controls
  <2>2. Stopper(a) /\ a \in Reqs => ret[a] = "done"
    BY <1>0 DEF IInv, StopOrder, StopLabels
  <2>3. CASE ret[a] \in {"lgate", "lrecheck"}
    <3>1. Goto(a, ret[a]) /\ UNCHANGED outcome
      BY <2>3 DEF StopReap
    <3> QED
      BY <2>2, <2>3, <3>1 DEF Goto, IInv, Controls
  <2>4. CASE ret[a] = "done"
    <3>1. Report(a, "done", "ok")
      BY <2>4 DEF StopReap
    <3> QED
      BY <2>4, <3>1 DEF Report, Goto, IInv, Controls, Results
  <2>5. CASE ret[a] = "unapplied"
    <3>1. Report(a, "done", "failed")
      BY <2>5 DEF StopReap
    <3> QED
      BY <2>5, <3>1 DEF Report, Goto, IInv, Controls, Results
  <2>6. CASE ret[a] \in {"cancelled", "failed"}
    <3>1. Report(a, AfterFailure(a), ret[a])
      BY <2>6 DEF StopReap
    <3>2. AfterFailure(a) \in {"idle", "rgate", "done"}
      BY DEF AfterFailure
    <3> QED
      BY <2>2, <2>6, <3>1, <3>2 DEF Report, Goto, IInv, Controls, Results
  <2> QED
    BY <2>1, <2>3, <2>4, <2>5, <2>6
<1>2. /\ proxy' \in {0, proxy} /\ proxyStuck' \in BOOLEAN /\ diag' \in Diags
      /\ active = victim[a] => status' = "Stopped" /\ active' = 0
      /\ active # victim[a] => UNCHANGED <<status, active>>
  BY FinalizeEffect DEF StopReap, IInv
<1>3. PICK label \in {"lgate", "lrecheck", "done", "idle", "rgate"} :
        /\ pc' = [pc EXCEPT ![a] = label]
        /\ label = "lrecheck" <=> ret[a] = "lrecheck"
        /\ Stopper(a) /\ a \in Reqs => label = "done"
  BY <1>1
<1>4. /\ pc'[a] = label /\ victim'[a] = 0 /\ label \in Labels
      /\ \A b \in Actors : b # a => pc'[b] = pc[b] /\ victim'[b] = victim[b]
      /\ \A b \in Actors : b # a => pc[b] \notin Holding
  BY <1>0, <1>3 DEF IInv, Numbers, Controls, Labels, GateHeld
<1> USE <1>0, <1>2, <1>3, <1>4 DEF osVars, ticketVars, intentVars, watchVars, boundVars
<1>5. Numbers'
  BY DEF IInv, Numbers
<1>6. Controls'
  BY <1>1 DEF IInv, Controls
<1>7. Flags' /\ Records'
  <2>1. Flags'
    BY DEF IInv, Flags
  <2> QED
    BY <2>1 DEF IInv, Records, Diags
<1>8. GateHeld'
  BY ActorAssumption DEF IInv, GateHeld, Holding
<1>9. Lifecycle'
  <2>1. RunsInOrder' /\ RunsDistinct'
    BY DEF IInv, Numbers, Lifecycle, RunsInOrder, RunsDistinct
  <2>2. VictimHeld' /\ BeforeSpawn'
    BY DEF IInv, Lifecycle, VictimHeld, BeforeSpawn, Holding, Prelaunch
  <2>3. WhileReadying'
    <3> SUFFICES ASSUME NEW b \in Actors, pc[b] \in Readying, b # a, active' = run[b]
                 PROVE  FALSE
      BY DEF IInv, Lifecycle, WhileReadying, Readying
    <3>1. run[b] # 0 /\ active = run[b] /\ victim[a] # active
      BY DEF IInv, Lifecycle, WhileReadying
    <3>2. PICK c \in Actors : pc[c] = "stopping" /\ victim[c] = run[b]
      BY <3>1 DEF IInv, Lifecycle, WhileReadying
    <3> QED
      BY <3>1, <3>2 DEF Holding
  <2>4. WatchHolds' /\ OrphansInactive' /\ SlotIsActive'
    BY DEF IInv, Numbers, Lifecycle, WatchHolds, OrphansInactive, SlotIsActive
  <2>5. OwnedEach'
    <3> SUFFICES ASSUME NEW n \in live, n \notin orphans
                 PROVE  \E b \in Actors : victim'[b] = n
      BY DEF OwnedEach
    <3>1. PICK b \in Actors : victim[b] = n
      BY DEF IInv, Numbers, Lifecycle, OwnedEach
    <3> QED
      BY <3>1
  <2> QED
    BY <2>1, <2>2, <2>3, <2>4, <2>5 DEF Lifecycle
<1>10. PendingHasOwner'
  BY DEF IInv, PendingHasOwner, Launching
<1>11. Tickets' /\ StopLabels'
  BY DEF IInv, StopOrder, Tickets, StopLabels, Stopper, Actors
<1>12. StopHolds'
  BY DEF IInv, StopOrder, StopLabels, StopHolds, Stopper
<1> QED
  BY <1>5, <1>6, <1>7, <1>8, <1>9, <1>10, <1>11, <1>12 DEF IInv, StopOrder

\* A selection enters the gate.
LEMMA SelectEnterStep ==
  ASSUME IInv, NEW r \in Reqs, SelectEnter(r)
  PROVE  IInv'
<1> USE ActorAssumption DEF SelectEnter, Goto, Report
<1> USE DEF vars, osVars, proxyVars, runVars, ticketVars, intentVars, taskVars, watchVars,
    boundVars
<1>1. Numbers'
  BY DEF IInv, Numbers
<1>2. Controls'
  BY DEF IInv, Controls, Labels, Results, Actors
<1>3. Flags' /\ Records'
  BY DEF IInv, Flags, Records
<1>4. GateHeld'
  BY DEF IInv, Controls, GateHeld, Holding
<1>5. Lifecycle'
  BY CalmLife DEF IInv, Controls, Prelaunch, Readying
<1>6. PendingHasOwner'
  BY DEF IInv, Controls, PendingHasOwner, Launching
<1>7. StopOrder'
  BY DEF IInv, Controls, StopOrder, Tickets, StopLabels, StopHolds, Stopper, TicketCurrent,
     Actors
<1> QED
  BY <1>1, <1>2, <1>3, <1>4, <1>5, <1>6, <1>7 DEF IInv

\* A selection may void the accepted run.
LEMMA SelectApiStep ==
  ASSUME IInv, NEW r \in Reqs, SelectApi(r)
  PROVE  IInv'
<1> USE ActorAssumption DEF SelectApi, Goto, Report, Release
<1> USE DEF vars, osVars, proxyVars, runVars, ticketVars, intentVars, taskVars, watchVars,
    boundVars
<1>1. Numbers'
  BY DEF IInv, Numbers
<1>2. Controls'
  BY DEF IInv, Controls, Labels, Results
<1>3. Flags' /\ Records'
  BY DEF IInv, Flags, Records
<1>4. GateHeld'
  BY DEF IInv, Controls, GateHeld, Holding, Actors
<1>5. Lifecycle'
  BY CalmLife DEF IInv, Controls, Prelaunch, Readying
<1>6. PendingHasOwner'
  BY DEF IInv, PendingHasOwner, Launching
<1>7. StopOrder'
  BY DEF IInv, StopOrder, Tickets, StopLabels, StopHolds, Stopper
<1> QED
  BY <1>1, <1>2, <1>3, <1>4, <1>5, <1>6, <1>7 DEF IInv

\* The watcher sees a dead child that is not pending.
LEMMA WatchObserveStep ==
  ASSUME IInv, WatchObserve
  PROVE  IInv'
<1> USE ActorAssumption DEF WatchObserve
<1> USE DEF vars, osVars, proxyVars, runVars, ticketVars, intentVars, taskVars, watchVars,
    boundVars
<1>1. Numbers'
  BY DEF IInv, Numbers
<1>2. Controls'
  BY DEF IInv, Controls
<1>3. Flags' /\ Records'
  BY DEF IInv, Flags, Records
<1>4. GateHeld'
  BY DEF IInv, GateHeld
<1>5. Lifecycle'
  BY DEF IInv, Numbers, Controls, Lifecycle, RunsInOrder, RunsDistinct, VictimHeld,
     BeforeSpawn, Prelaunch, WhileReadying, Readying, WatchHolds, OrphansInactive,
     SlotIsActive, OwnedEach
<1>6. PendingHasOwner'
  BY DEF IInv, PendingHasOwner, Launching
<1>7. StopOrder'
  BY DEF IInv, StopOrder, Tickets, StopLabels, StopHolds, Stopper
<1> QED
  BY <1>1, <1>2, <1>3, <1>4, <1>5, <1>6, <1>7 DEF IInv

\* The watcher takes the child if it is still there.
LEMMA WatchTakeStep ==
  ASSUME IInv, WatchTake
  PROVE  IInv'
<1> USE ActorAssumption DEF WatchTake
<1> USE DEF vars, osVars, proxyVars, runVars, ticketVars, intentVars, taskVars, watchVars,
    boundVars
<1>1. Numbers'
  BY DEF IInv, Numbers
<1>2. Controls'
  BY DEF IInv, Controls
<1>3. Flags' /\ Records'
  BY DEF IInv, Flags, Records
<1>4. GateHeld'
  BY DEF IInv, GateHeld
<1>5. Lifecycle'
  BY DEF IInv, Numbers, Controls, Lifecycle, RunsInOrder, RunsDistinct, VictimHeld,
     BeforeSpawn, Prelaunch, WhileReadying, Readying, WatchHolds, OrphansInactive,
     SlotIsActive, OwnedEach
<1>6. PendingHasOwner'
  BY DEF IInv, PendingHasOwner, Launching
<1>7. StopOrder'
  BY DEF IInv, StopOrder, Tickets, StopLabels, StopHolds, Stopper
<1> QED
  BY <1>1, <1>2, <1>3, <1>4, <1>5, <1>6, <1>7 DEF IInv

\* The watcher finalizes the run it saw dead.
LEMMA WatchFinalizeStep ==
  ASSUME IInv, WatchFinalize
  PROVE  IInv'
<1> USE ActorAssumption DEF WatchFinalize
<1> USE DEF vars, osVars, proxyVars, runVars, ticketVars, intentVars, taskVars, watchVars,
    boundVars
<1>a. /\ proxy' \in {0, proxy} /\ proxyStuck' \in BOOLEAN /\ diag' \in Diags
      /\ active = watchRun => status' = "Stopped" /\ active' = 0
      /\ active # watchRun => UNCHANGED <<status, active>>
  BY FinalizeEffect DEF IInv
<1>1. Numbers'
  BY <1>a DEF IInv, Numbers
<1>2. Controls'
  BY <1>a DEF IInv, Controls
<1>3. Flags' /\ Records'
  <2>1. Flags'
    BY <1>a DEF IInv, Flags
  <2>2. diag' \in Diags
    BY <1>a DEF IInv
  <2> QED
    BY <2>1, <2>2 DEF IInv, Records, Diags
<1>4. GateHeld'
  BY DEF IInv, GateHeld
<1>5. Lifecycle'
  BY <1>a DEF IInv, Numbers, Controls, Lifecycle, RunsInOrder, RunsDistinct, VictimHeld,
     BeforeSpawn, Prelaunch, WhileReadying, Readying, WatchHolds, OrphansInactive,
     SlotIsActive, OwnedEach
<1>6. PendingHasOwner'
  BY DEF IInv, PendingHasOwner, Launching
<1>7. StopOrder'
  BY DEF IInv, StopOrder, Tickets, StopLabels, StopHolds, Stopper
<1> QED
  BY <1>1, <1>2, <1>3, <1>4, <1>5, <1>6, <1>7 DEF IInv

\* A reaper disposes of the child of an abandoned launch.
LEMMA ReapStep ==
  ASSUME IInv, NEW n \in reapers, Reap(n)
  PROVE  IInv'
<1>0. /\ n \in reapers /\ gate = Free /\ reapers' = reapers \ {n}
      /\ pending' = IF pending = n THEN 0 ELSE pending
      /\ UNCHANGED <<proxyVars, nextRun, gate, ticketVars, intentVars, pc, outcome, taskVars,
                     watchVars, boundVars>>
  BY DEF Reap, FinishGuard
<1>1. /\ diag' \in Diags
      /\ Cleared \/ (active # n /\ UNCHANGED <<slot, live, orphans, status, active>>)
  BY DiscardEffect DEF Reap
<1>2. \A b \in Actors : pc[b] \notin Holding
  BY <1>0, ActorAssumption DEF IInv, GateHeld
<1> USE <1>0 DEF proxyVars, ticketVars, intentVars, taskVars, watchVars, boundVars
<1>3. Numbers'
  <2>1. reapers' \subseteq Nat /\ pending' \in Nat
    BY DEF IInv, Numbers
  <2>2. CASE Cleared
    BY <2>1, <2>2 DEF IInv, Numbers, Cleared
  <2>3. CASE UNCHANGED <<slot, live, orphans, status, active>>
    BY <2>1, <2>3 DEF IInv, Numbers
  <2> QED
    BY <1>1, <2>2, <2>3
<1>4. Controls'
  BY <1>1 DEF IInv, Controls, Cleared
<1>5. Flags' /\ Records'
  <2>1. Flags'
    BY DEF IInv, Flags
  <2> QED
    BY <1>1, <2>1 DEF IInv, Records, Diags
<1>6. GateHeld'
  BY DEF IInv, GateHeld
<1>7. Lifecycle'
  <2>1. CASE Cleared
    BY <1>2, <2>1, ClearedLife DEF Holding, Prelaunch
  <2>2. CASE active # n /\ UNCHANGED <<slot, live, orphans, status, active>>
    <3>1. WhileReadying'
      BY <2>2 DEF IInv, Lifecycle, WhileReadying
    <3> QED
      BY <2>2, <3>1
      DEF IInv, Lifecycle, RunsInOrder, RunsDistinct, VictimHeld, BeforeSpawn, WatchHolds,
          OrphansInactive, SlotIsActive, OwnedEach
  <2> QED
    BY <1>1, <2>1, <2>2
<1>8. PendingHasOwner'
  BY DEF IInv, PendingHasOwner, Launching
<1>9. Tickets' /\ StopLabels'
  BY DEF IInv, StopOrder, Tickets, StopLabels, Stopper
<1>10. StopHolds'
  BY <1>1 DEF IInv, StopOrder, StopHolds, Stopper, Cleared
<1> QED
  BY <1>3, <1>4, <1>5, <1>6, <1>7, <1>8, <1>9, <1>10 DEF IInv, StopOrder

\* The loop captures a token of the accepted run.
LEMMA ReconnectStep ==
  ASSUME IInv, Reconnect
  PROVE  IInv'
<1> USE ActorAssumption DEF Reconnect, Goto
<1> USE DEF vars, osVars, proxyVars, runVars, ticketVars, intentVars, taskVars, watchVars,
    boundVars
<1>1. Numbers'
  BY DEF IInv, Numbers
<1>2. Controls'
  BY DEF IInv, Controls, Labels
<1>3. Flags' /\ Records'
  <2>1. Flags'
    BY DEF IInv, Flags
  <2>2. tok' \in [epoch : Nat, run : Nat, proxy : BOOLEAN]
    BY DEF IInv, Numbers, Flags
  <2> QED
    BY <2>1, <2>2 DEF IInv, Records
<1>4. GateHeld'
  BY DEF IInv, Controls, GateHeld, Holding
<1>5. Lifecycle'
  BY CalmLife DEF IInv, Controls, Prelaunch, Readying
<1>6. PendingHasOwner'
  BY DEF IInv, PendingHasOwner, Launching
<1>7. StopOrder'
  BY DEF IInv, StopOrder, Tickets, StopLabels, StopHolds, Stopper
<1> QED
  BY <1>1, <1>2, <1>3, <1>4, <1>5, <1>6, <1>7 DEF IInv

\* The loop adopts a wake.
LEMMA RecoveryEventStep ==
  ASSUME IInv, RecoveryEvent
  PROVE  IInv'
<1> USE ActorAssumption DEF RecoveryEvent
<1> USE DEF vars, osVars, proxyVars, runVars, ticketVars, intentVars, taskVars, watchVars,
    boundVars
<1>1. Numbers'
  BY DEF IInv, Numbers
<1>2. Controls'
  BY DEF IInv, Controls
<1>3. Flags' /\ Records'
  BY DEF IInv, Flags, Records
<1>4. GateHeld'
  BY DEF IInv, GateHeld
<1>5. Lifecycle'
  BY CalmLife DEF IInv, Controls, Prelaunch, Readying
<1>6. PendingHasOwner'
  BY DEF IInv, PendingHasOwner, Launching
<1>7. StopOrder'
  BY DEF IInv, StopOrder, Tickets, StopLabels, StopHolds, Stopper
<1> QED
  BY <1>1, <1>2, <1>3, <1>4, <1>5, <1>6, <1>7 DEF IInv

\* The setting changes the intent only.
LEMMA SetEnabledStep ==
  ASSUME IInv, SetEnabled
  PROVE  IInv'
<1> USE ActorAssumption DEF SetEnabled
<1> USE DEF vars, osVars, proxyVars, runVars, ticketVars, intentVars, taskVars, watchVars,
    boundVars
<1>1. Numbers'
  BY DEF IInv, Numbers
<1>2. Controls'
  BY DEF IInv, Controls
<1>3. Flags' /\ Records'
  BY DEF IInv, Flags, Records
<1>4. GateHeld'
  BY DEF IInv, GateHeld
<1>5. Lifecycle'
  BY CalmLife DEF IInv, Controls, Prelaunch, Readying
<1>6. PendingHasOwner'
  BY DEF IInv, PendingHasOwner, Launching
<1>7. StopOrder'
  BY DEF IInv, StopOrder, Tickets, StopLabels, StopHolds, Stopper
<1> QED
  BY <1>1, <1>2, <1>3, <1>4, <1>5, <1>6, <1>7 DEF IInv

\* A wake only sets its mark.
LEMMA WakeStep ==
  ASSUME IInv, Wake
  PROVE  IInv'
<1> USE ActorAssumption DEF Wake
<1> USE DEF vars, osVars, proxyVars, runVars, ticketVars, intentVars, taskVars, watchVars,
    boundVars
<1>1. Numbers'
  BY DEF IInv, Numbers
<1>2. Controls'
  BY DEF IInv, Controls
<1>3. Flags' /\ Records'
  BY DEF IInv, Flags, Records
<1>4. GateHeld'
  BY DEF IInv, GateHeld
<1>5. Lifecycle'
  BY CalmLife DEF IInv, Controls, Prelaunch, Readying
<1>6. PendingHasOwner'
  BY DEF IInv, PendingHasOwner, Launching
<1>7. StopOrder'
  BY DEF IInv, StopOrder, Tickets, StopLabels, StopHolds, Stopper
<1> QED
  BY <1>1, <1>2, <1>3, <1>4, <1>5, <1>6, <1>7 DEF IInv

\* A changed catalog only voids tickets.
LEMMA CatalogMutationStep ==
  ASSUME IInv, CatalogMutation
  PROVE  IInv'
<1> USE ActorAssumption DEF CatalogMutation
<1> USE DEF vars, osVars, proxyVars, runVars, ticketVars, intentVars, taskVars, watchVars,
    boundVars
<1>1. Numbers'
  BY DEF IInv, Numbers
<1>2. Controls'
  BY DEF IInv, Controls
<1>3. Flags' /\ Records'
  BY DEF IInv, Flags, Records
<1>4. GateHeld'
  BY DEF IInv, GateHeld
<1>5. Lifecycle'
  BY CalmLife DEF IInv, Controls, Prelaunch, Readying
<1>6. PendingHasOwner'
  BY DEF IInv, PendingHasOwner, Launching
<1>7. StopOrder'
  BY DEF IInv, StopOrder, Tickets, StopLabels, StopHolds, Stopper
<1> QED
  BY <1>1, <1>2, <1>3, <1>4, <1>5, <1>6, <1>7 DEF IInv

\* An engine that exits is in no set any more.
LEMMA ExitStep ==
  ASSUME IInv, NEW n \in live, Exit(n)
  PROVE  IInv'
<1> USE ActorAssumption DEF Exit
<1> USE DEF vars, osVars, proxyVars, runVars, ticketVars, intentVars, taskVars, watchVars,
    boundVars
<1>1. Numbers'
  BY DEF IInv, Numbers
<1>2. Controls'
  BY DEF IInv, Controls
<1>3. Flags' /\ Records'
  BY DEF IInv, Flags, Records
<1>4. GateHeld'
  BY DEF IInv, GateHeld
<1>5. Lifecycle'
  BY DEF IInv, Numbers, Controls, Lifecycle, RunsInOrder, RunsDistinct, VictimHeld,
     BeforeSpawn, Prelaunch, WhileReadying, Readying, WatchHolds, OrphansInactive,
     SlotIsActive, OwnedEach
<1>6. PendingHasOwner'
  BY DEF IInv, PendingHasOwner, Launching
<1>7. StopOrder'
  BY DEF IInv, StopOrder, Tickets, StopLabels, StopHolds, Stopper
<1> QED
  BY <1>1, <1>2, <1>3, <1>4, <1>5, <1>6, <1>7 DEF IInv

-----------------------------------------------------------------------------
(* The theorems.                                                           *)

\* No engine exists at the start.
LEMMA InitInvariant == Init => IInv
<1> SUFFICES ASSUME Init PROVE IInv
  OBVIOUS
<1> USE DEF Init
<1>1. Numbers /\ Flags
  BY DEF Numbers, Flags, Actors
<1>2. Controls
  BY DEF Controls, Labels, Results, AllKinds, Manual, Actors
<1>3. Records
  BY DEF Records, NoDiag
<1>4. GateHeld
  BY ActorAssumption DEF GateHeld, Holding
<1>5. Lifecycle
  BY DEF Lifecycle, RunsInOrder, RunsDistinct, VictimHeld, BeforeSpawn, Prelaunch, WhileReadying,
         Readying, WatchHolds, OrphansInactive, SlotIsActive, OwnedEach
<1>6. PendingHasOwner
  BY DEF PendingHasOwner
<1>7. StopOrder
  BY ActorAssumption DEF StopOrder, Tickets, StopLabels, StopHolds, Stopper, Actors
<1> QED
  BY <1>1, <1>2, <1>3, <1>4, <1>5, <1>6, <1>7 DEF IInv

\* A step that changes nothing keeps everything.
LEMMA StutterStep == IInv /\ UNCHANGED vars => IInv'
<1> SUFFICES ASSUME IInv, UNCHANGED vars PROVE IInv'
  OBVIOUS
<1> USE DEF vars, osVars, proxyVars, runVars, ticketVars, intentVars, taskVars, watchVars, boundVars
<1>1. Numbers' /\ Controls'
  BY DEF IInv, Numbers, Controls
<1>2. Flags' /\ Records'
  BY DEF IInv, Flags, Records
<1>3. GateHeld' /\ PendingHasOwner' /\ StopOrder'
  BY DEF IInv, GateHeld, PendingHasOwner, Launching, StopOrder, Tickets, StopLabels, StopHolds, Stopper
<1>4. Lifecycle'
  BY CalmLife DEF IInv
<1> QED
  BY <1>1, <1>2, <1>3, <1>4 DEF IInv

\* Every step keeps the invariant.
LEMMA StepInvariant == IInv /\ [Next]_vars => IInv'
<1> SUFFICES ASSUME IInv, [Next]_vars PROVE IInv'
  OBVIOUS
<1>1. ASSUME NEW r \in Reqs, BeginManual(r) \/ BeginStop(r) \/ LaunchAbandoned(r)
      PROVE  IInv'
  BY <1>1, BeginManualStep, BeginStopStep, LaunchAbandonedStep
<1>2. ASSUME NEW r \in Reqs, RequestStep(r)
      PROVE  IInv'
  BY <1>2, HandoffStep, PreStopStep, ApplyProxyStep, FrontendProxyStep, ResetAfterStep, StopEnterStep,
     ResetEnterStep, SelectEnterStep, SelectApiStep
  DEF RequestStep
<1>3. ASSUME NEW a \in Actors, LaunchStep(a)
      PROVE  IInv'
  BY <1>3, LaunchEnterStep, LaunchClaimStep, LaunchWireStep, LaunchRefusedByOsStep, LaunchSpawnStep,
     LaunchReadyStep, LaunchRegateStep, LaunchFallbackStep, LaunchFinishStep, LaunchAcceptStep,
     LaunchNotAcceptedStep, StopReapStep
  DEF LaunchStep
<1>4. CASE RecoveryStep \/ Reconnect \/ RecoveryEvent \/ SetEnabled
  BY <1>4, LaunchPhysicalStep, LaunchRecheckStep, LaunchRecoveryProxyStep, ReconnectStep,
     RecoveryEventStep, SetEnabledStep
  DEF RecoveryStep
<1>5. CASE WatcherStep
  BY <1>5, WatchObserveStep, WatchTakeStep, WatchFinalizeStep DEF WatcherStep
<1>6. ASSUME NEW n \in reapers, Reap(n)
      PROVE  IInv'
  BY <1>6, ReapStep
<1>7. ASSUME NEW n \in live, Exit(n)
      PROVE  IInv'
  BY <1>7, ExitStep
<1>8. CASE Wake \/ CatalogMutation
  BY <1>8, WakeStep, CatalogMutationStep
<1>9. CASE UNCHANGED vars
  BY <1>9, StutterStep
<1> QED
  BY <1>1, <1>2, <1>3, <1>4, <1>5, <1>6, <1>7, <1>8, <1>9 DEF Next

\* The invariant holds throughout.
THEOREM Invariance == Spec => []IInv
<1>1. Init => IInv
  BY InitInvariant
<1>2. IInv /\ [Next]_vars => IInv'
  BY StepInvariant
<1> QED
  BY <1>1, <1>2, PTL DEF Spec

\* Every variable keeps its type (TypeOK).
THEOREM TypeCorrect == Spec => []TypeOK
<1>1. IInv => TypeOK
  <2> SUFFICES ASSUME IInv PROVE TypeOK
    OBVIOUS
  <2>1. Numbers /\ Controls /\ Flags /\ Records
    BY DEF IInv
  <2> QED
    BY <2>1 DEF TypeOK, Numbers, Controls, Flags, Records
<1> QED
  BY <1>1, Invariance, PTL

\* Every engine process is in the slot, in the hands of the task that stops
\* it, or was killed (EngineOwned): the lifecycle loses none, whichever
\* launches, stops, resets, exits and abandoned starts interleave.
THEOREM NoEngineIsLost == Spec => []EngineOwned
<1>1. IInv => EngineOwned
  BY DEF IInv, Lifecycle, OwnedEach, EngineOwned
<1> QED
  BY <1>1, Invariance, PTL

\* The child in the slot is the active run's, which is starting or running
\* (SlotIsActive).
THEOREM SlotHoldsActiveRun == Spec => []SlotIsActive
<1>1. IInv => SlotIsActive
  BY DEF IInv, Lifecycle
<1> QED
  BY <1>1, Invariance, PTL

\* The mark that blinds the exit watcher never outlives the launch it belongs
\* to and its reaper (PendingHasOwner).
THEOREM PendingIsOwned == Spec => []PendingHasOwner
<1>1. IInv => PendingHasOwner
  BY DEF IInv
<1> QED
  BY <1>1, Invariance, PTL

\* Once the newest request is a stop or a reset that returned, no engine is
\* left but those already killed (StopWins): a launch or a reconnect that it
\* overtook can neither keep its engine nor bring one back.
THEOREM StopIsFinal == Spec => []StopWins
<1>1. IInv => StopWins
  <2> SUFFICES ASSUME IInv, NEW r \in Reqs, Stopped(r)
               PROVE  slot = 0 /\ live \subseteq orphans
    BY DEF StopWins
  <2>1. slot = 0 /\ gate \in {Free, r}
    BY DEF IInv, StopOrder, StopHolds, Stopper, Stopped
  <2>2. \A a \in Actors : victim[a] = 0
    BY <2>1, ActorAssumption
    DEF IInv, GateHeld, Holding, Lifecycle, VictimHeld, Stopped, Actors
  <2> QED
    BY <2>1, <2>2 DEF IInv, Numbers, Lifecycle, OwnedEach
<1> QED
  BY <1>1, Invariance, PTL

\* An engine is spawned only when every other one was killed (SpawnAlone).
THEOREM SpawnsAlone == Spec => SpawnAlone
<1>1. IInv /\ [Next]_vars => [live' \subseteq live \/ live \subseteq orphans]_vars
  <2> SUFFICES ASSUME IInv, Next PROVE live' \subseteq live \/ live \subseteq orphans
    OBVIOUS
  <2>1. ASSUME NEW a \in Actors, LaunchSpawn(a)
        PROVE  live \subseteq orphans
    <3>1. slot = 0 /\ gate = a /\ pc[a] # "stopping"
      BY <2>1 DEF LaunchSpawn, IInv, GateHeld, Holding, Lifecycle, BeforeSpawn, Prelaunch
    <3>2. \A b \in Actors : victim[b] = 0
      BY <3>1 DEF IInv, GateHeld, Holding, Lifecycle, VictimHeld
    <3> QED
      BY <3>1, <3>2 DEF IInv, Numbers, Lifecycle, OwnedEach
  <2>2. ASSUME NEW a \in Actors, LaunchStep(a), ~LaunchSpawn(a)
        PROVE  live' \subseteq live
    <3> USE DEF osVars
    <3>1. CASE LaunchRegate(a)
      BY <3>1, DiscardEffect DEF LaunchRegate, Cleared
    <3>2. CASE LaunchFallback(a)
      BY <3>2 DEF LaunchFallback, Discard
    <3>3. CASE LaunchFinish(a)
      BY <3>3, DiscardEffect DEF LaunchFinish, Cleared
    <3> QED
      BY <2>2, <3>1, <3>2, <3>3
      DEF LaunchStep, LaunchEnter, LaunchClaim, LaunchWire, LaunchRefusedByOs, LaunchReady,
          LaunchAccept, LaunchNotAccepted, StopReap
  <2>3. ASSUME NEW r \in Reqs, BeginManual(r) \/ BeginStop(r) \/ LaunchAbandoned(r) \/ RequestStep(r)
        PROVE  live' \subseteq live
    BY <2>3
    DEF BeginManual, BeginStop, LaunchAbandoned, RequestStep, Handoff, PreStop, ApplyProxy,
        FrontendProxy, ResetAfter, StopEnter, ResetEnter, ResetAll, SelectEnter, SelectApi, osVars
  <2>4. CASE RecoveryStep \/ Reconnect \/ RecoveryEvent \/ SetEnabled
    BY <2>4
    DEF RecoveryStep, LaunchPhysical, LaunchRecheck, LaunchRecoveryProxy, Reconnect, RecoveryEvent,
        SetEnabled, osVars
  <2>5. CASE WatcherStep \/ Wake \/ CatalogMutation
    BY <2>5 DEF WatcherStep, WatchObserve, WatchTake, WatchFinalize, Wake, CatalogMutation, osVars
  <2>6. ASSUME NEW n, Reap(n) \/ Exit(n)
        PROVE  live' \subseteq live
    BY <2>6, DiscardEffect DEF Reap, Exit, Cleared
  <2> QED
    BY <2>1, <2>2, <2>3, <2>4, <2>5, <2>6 DEF Next
<1> QED
  BY <1>1, Invariance, PTL DEF Spec, SpawnAlone
=============================================================================
