---------------------------- MODULE ProcessManager ----------------------------
(***************************************************************************)
(* The engine lifecycle of the desktop client: src-tauri/src/process.rs    *)
(* (ProcessManager) together with the commands that drive it               *)
(* (commands.rs) and the intent half of the recovery coordinator           *)
(* (recovery/intent.rs, recovery/coordinator.rs).                          *)
(*                                                                         *)
(* Every asynchronous task is an actor with a program counter.  A step is  *)
(* what runs between two points where another task can be observed: an     *)
(* await, a lock release or the transition gate.  The actors are user      *)
(* requests (each runs one Tauri command), the recovery loop, the exit     *)
(* watcher and the tasks a dropped PendingDiagnosticStart spawns.          *)
(*                                                                         *)
(* Run identifiers and tickets are the code's own counters; 0 is "none".   *)
(***************************************************************************)
EXTENDS Naturals, FiniteSets

CONSTANTS
  Reqs,           \* user requests, each issues one command
  Rec,            \* the recovery loop
  Free,           \* the transition gate is not held
  Kinds,          \* the commands the requests may be
  ProxyModes,     \* what happens to the system proxy after a ready launch
  MaxRecoveries,  \* bound: reconnect attempts of the recovery loop
  MaxWakes,       \* bound: wake notifications
  MaxToggles,     \* bound: changes of the recovery setting
  MaxMutations,   \* bound: changes of the profile catalog
  ClearMayFail    \* the operating system may refuse to clear the proxy

Manual == {"ready", "direct", "select"}
AllKinds == Manual \cup {"stop", "reset"}
AllModes == {"none", "checked", "frontend", "clear"}
Actors == Reqs \cup {Rec}

ASSUME ActorAssumption ==
  Rec \notin Reqs /\ Free \notin Actors
ASSUME ChoiceAssumption ==
  /\ Kinds \subseteq AllKinds
  /\ ProxyModes \subseteq AllModes /\ ProxyModes # {}
  /\ ClearMayFail \in BOOLEAN
ASSUME BoundAssumption ==
  MaxRecoveries \in Nat /\ MaxWakes \in Nat /\ MaxToggles \in Nat /\ MaxMutations \in Nat

VARIABLES
  \* the operating system
  live,         \* runs whose engine process exists
  orphans,      \* killed runs whose handle was dropped without waiting
  proxy,        \* run the system proxy was applied for, 0 when clear
  proxyStuck,   \* the last clear of the system proxy failed
  \* ProcessManager
  slot,         \* run of the child slot, 0 when empty
  status, active, nextRun,
  pending,      \* pending_diagnostic_start
  gate,         \* holder of the transition semaphore
  diag,         \* SessionDiagnostics: accepted run, its session, how it ended
  readyEpoch,   \* ready_check_epoch
  catalogFresh, \* ready_catalog_epoch = source_catalog.epoch()
  \* RecoveryCoordinator
  epoch, enabled,
  accepted,     \* run of the accepted snapshot
  accProxy,     \* the accepted snapshot holds a proxy
  manualTicket, woken, deadProven,
  \* locals of the tasks
  pc, kind, ticket, run, startup, victim, ret, outcome,
  tok,          \* token the recovery loop captured, and its snapshot's proxy
  watchRun, watchPc, reapers,
  \* what the bounds count, and the history of acceptances
  recoveries, wakes, toggles, mutations, acceptedRuns

osVars == <<live, orphans>>
proxyVars == <<proxy, proxyStuck>>
runVars == <<slot, status, active, nextRun, pending, diag>>
ticketVars == <<readyEpoch, catalogFresh>>
intentVars == <<epoch, enabled, accepted, accProxy, manualTicket, woken, deadProven, acceptedRuns>>
taskVars == <<kind, ticket, run, startup, victim, ret, tok>>
watchVars == <<watchRun, watchPc>>
boundVars == <<recoveries, wakes, toggles, mutations>>
vars == <<osVars, proxyVars, runVars, gate, ticketVars, intentVars, pc, outcome,
          taskVars, watchVars, reapers, boundVars>>

-----------------------------------------------------------------------------
(* Currency of tickets and tokens.                                         *)

\* The RAII guard ManualRequest counts into pending_manual until the command returns.
Guarded(r) == kind[r] \in Manual /\ pc[r] \notin {"idle", "fproxy", "fclear", "done"}
NoPendingManual == \A r \in Reqs : ~Guarded(r)

\* Intent::token is Some.
HasToken == enabled /\ NoPendingManual /\ accepted # 0

\* Bug: any accepted run will do.
TokenOfAnyRun == HasToken /\ ~woken

\* RecoveryCoordinator::current(tok).
TokenCurrent == HasToken /\ tok.epoch = epoch /\ tok.run = accepted /\ ~woken

\* Bug: a stored ticket stays good while its catalog does.
TicketOfCatalog(t) == catalogFresh

\* is_ready_profile_check_current
TicketCurrent(t) == readyEpoch = t /\ catalogFresh

\* is_launch_check_current, and the token test beside it in start_spec_with_check
LaunchCurrent(a) ==
  IF a = Rec THEN readyEpoch = startup[a] /\ TokenCurrent
             ELSE TicketCurrent(startup[a])

\* recovery_engine_dead
EngineDead(n) ==
  IF slot # 0 THEN slot = n /\ n \notin live
              ELSE active = 0 /\ diag.ended /\ diag.session = n

NoDiag == [run |-> 0, session |-> 0, ended |-> FALSE]

\* SessionDiagnostics::retire
Retire(d, n, intentional) ==
  IF d.run # n THEN d
  ELSE IF intentional THEN NoDiag
  ELSE [run |-> 0, session |-> d.session, ended |-> TRUE]

-----------------------------------------------------------------------------
(* Fragments of the lifecycle that several actions share.                  *)

ClearProxy ==
  \/ proxy' = 0 /\ proxyStuck' = FALSE
  \/ ClearMayFail /\ proxy # 0 /\ proxyStuck' = TRUE /\ UNCHANGED proxy

Goto(a, label) == pc' = [pc EXCEPT ![a] = label]
Report(a, label, result) ==
  /\ Goto(a, label)
  /\ outcome' = [outcome EXCEPT ![a] = result]

\* Where a launch that failed continues: start_checked_ready_profile resets.
AfterFailure(a) ==
  IF a = Rec THEN "idle" ELSE IF kind[a] = "ready" THEN "rgate" ELSE "done"

\* Bug: the permit is kept.
ReleaseLeaks == UNCHANGED gate
Release == gate' = Free

\* A launch gives up: the gate permit and the startup guard are dropped, and
\* an unfinished guard spawns a reaper for its run.
GiveUp(a, result) ==
  /\ Release
  /\ Report(a, AfterFailure(a), result)
  /\ reapers' = reapers \cup ({run[a]} \cap ({pending} \ {0}))

\* PendingDiagnosticStart::finish
FinishGuard(n) == pending' = IF pending = n THEN 0 ELSE pending

\* abort_start, when the launch never had a child
AbortStart(a) ==
  /\ diag' = Retire(diag, run[a], TRUE)
  /\ IF active = run[a]
     THEN status' = "Stopped" /\ active' = 0
     ELSE UNCHANGED <<status, active>>

\* Bug: the child stays in the slot.
DiscardKeepsChild(n, timedOut) ==
  /\ IF active # n THEN UNCHANGED <<diag, status, active>>
     ELSE diag' = Retire(diag, n, TRUE) /\ status' = "Stopped" /\ active' = 0
  /\ UNCHANGED <<slot, live, orphans>>

\* discard_starting_child: the child is killed and reaped, or left to
\* kill_on_drop when it does not exit in time (timedOut).
Discard(n, timedOut) ==
  IF active # n
  THEN UNCHANGED <<slot, live, orphans, diag, status, active>>
  ELSE /\ slot' = IF slot = n THEN 0 ELSE slot
       /\ live' = IF slot = n /\ ~timedOut THEN live \ {n} ELSE live
       /\ orphans' = IF timedOut THEN orphans \cup {n} ELSE orphans
       /\ diag' = Retire(diag, n, TRUE)
       /\ status' = "Stopped" /\ active' = 0

\* How the bounded wait for a discarded child may end
Waits(n) == IF slot = n /\ n \in live THEN BOOLEAN ELSE {FALSE}

\* Bug: the proxy is not released.
FinalizeKeepsProxy(n, intentional) ==
  /\ IF active = n
     THEN diag' = Retire(diag, n, intentional) /\ status' = "Stopped" /\ active' = 0
     ELSE UNCHANGED <<diag, status, active>>
  /\ UNCHANGED proxyVars

\* finalize_exit
Finalize(n, intentional) ==
  IF active = n
  THEN /\ diag' = Retire(diag, n, intentional)
       /\ status' = "Stopped" /\ active' = 0
       /\ ClearProxy
  ELSE UNCHANGED <<diag, status, active, proxyVars>>

\* The first half of stop_with_check_locked, up to the wait for the child.
TakeChild(a, next) ==
  /\ slot # 0
  /\ victim' = [victim EXCEPT ![a] = slot]
  /\ ret' = [ret EXCEPT ![a] = next]
  /\ slot' = 0
  /\ diag' = Retire(diag, slot, TRUE)
  /\ status' = IF active = slot THEN "Stopping" ELSE status
  /\ Goto(a, "stopping")

\* Bug: the process is not killed with its handle.
DropLeavesChild == UNCHANGED orphans

\* kill_on_drop: the child whose handle leaves the slot is killed, not awaited.
DropChild == orphans' = orphans \cup ({slot} \cap live)

\* reset_with_proxy_cleanup
ResetAll ==
  /\ ClearProxy
  /\ diag' = NoDiag
  /\ active' = 0 /\ status' = "Stopped" /\ slot' = 0
  /\ DropChild
  /\ UNCHANGED <<live, nextRun, pending>>

-----------------------------------------------------------------------------
Init ==
  /\ live = {} /\ orphans = {} /\ proxy = 0 /\ proxyStuck = FALSE
  /\ slot = 0 /\ status = "Stopped" /\ active = 0 /\ nextRun = 0 /\ pending = 0
  /\ gate = Free /\ diag = NoDiag
  /\ readyEpoch = 0 /\ catalogFresh = TRUE
  /\ epoch = 0 /\ enabled = FALSE /\ accepted = 0 /\ accProxy = FALSE
  /\ manualTicket = 0 /\ woken = FALSE /\ deadProven = 0 /\ acceptedRuns = {}
  /\ pc = [a \in Actors |-> "idle"]
  /\ kind = [a \in Actors |-> IF a = Rec THEN "recovery" ELSE "none"]
  /\ ticket = [a \in Actors |-> 0] /\ run = [a \in Actors |-> 0]
  /\ startup = [a \in Actors |-> 0] /\ victim = [a \in Actors |-> 0]
  /\ ret = [a \in Actors |-> "done"] /\ outcome = [a \in Actors |-> "none"]
  /\ tok = [epoch |-> 0, run |-> 0, proxy |-> FALSE]
  /\ watchRun = 0 /\ watchPc = "idle" /\ reapers = {}
  /\ recoveries = 0 /\ wakes = 0 /\ toggles = 0 /\ mutations = 0

-----------------------------------------------------------------------------
(* Requests up to the transition gate.                                     *)

\* begin_manual_profile_check: guard, ticket and intent under one lock
BeginManual(r) ==
  /\ pc[r] = "idle"
  /\ \E k \in Kinds \cap Manual :
       /\ kind' = [kind EXCEPT ![r] = k]
       /\ Goto(r, CASE k = "ready" -> "validate" [] k = "direct" -> "lgate" [] OTHER -> "selgate")
  /\ readyEpoch' = readyEpoch + 1 /\ catalogFresh' = TRUE
  /\ ticket' = [ticket EXCEPT ![r] = readyEpoch + 1]
  /\ manualTicket' = readyEpoch + 1
  /\ epoch' = epoch + 1
  /\ UNCHANGED <<osVars, proxyVars, runVars, gate, enabled, accepted, accProxy, woken,
                 deadProven, acceptedRuns, outcome, run, startup, victim, ret, tok,
                 watchVars, reapers, boundVars>>

\* stop and reset up to the gate: recovery.stop_with bumps both epochs and
\* forgets the accepted run; stop also retires the session it observed.
BeginStop(r) ==
  /\ pc[r] = "idle"
  /\ \E k \in Kinds \cap {"stop", "reset"} :
       /\ kind' = [kind EXCEPT ![r] = k]
       /\ diag' = IF k = "stop" THEN Retire(diag, active, TRUE) ELSE diag
  /\ Goto(r, "sgate")
  /\ readyEpoch' = readyEpoch + 1
  /\ ticket' = [ticket EXCEPT ![r] = readyEpoch + 1]
  /\ manualTicket' = 0 /\ accepted' = 0 /\ accProxy' = FALSE
  /\ epoch' = epoch + 1
  /\ UNCHANGED <<osVars, proxyVars, slot, status, active, nextRun, pending, gate, catalogFresh,
                 enabled, woken, deadProven, acceptedRuns, outcome, run, startup, victim,
                 ret, tok, watchVars, reapers, boundVars>>

\* start_checked_ready_profile before the lifecycle: preflight, catalog
\* handoff, ticket check and is_running.
Handoff(r) ==
  /\ pc[r] = "validate"
  /\ \/ TicketCurrent(ticket[r]) /\ Goto(r, IF slot # 0 THEN "prestop" ELSE "lgate")
        /\ UNCHANGED outcome
     \/ TicketCurrent(ticket[r]) /\ Report(r, "done", "failed")
     \/ ~TicketCurrent(ticket[r]) /\ Report(r, "done", "cancelled")
  /\ UNCHANGED <<osVars, proxyVars, runVars, gate, ticketVars, intentVars, taskVars,
                 watchVars, reapers, boundVars>>

\* stop_after_profile_check: its error ends the command without a reset
PreStop(r) ==
  /\ pc[r] = "prestop" /\ gate = Free
  /\ \/ /\ TicketCurrent(ticket[r])
        /\ TakeChild(r, "lgate") /\ gate' = r
        /\ UNCHANGED <<active, outcome>>
     \/ /\ TicketCurrent(ticket[r]) /\ slot = 0 /\ Report(r, "done", "failed")
        /\ UNCHANGED <<gate, slot, status, active, diag, victim, ret>>
     \/ /\ ~TicketCurrent(ticket[r]) /\ Report(r, "done", "cancelled")
        /\ UNCHANGED <<gate, slot, status, active, diag, victim, ret>>
  /\ UNCHANGED <<osVars, proxyVars, nextRun, pending, ticketVars, intentVars, kind, ticket,
                 run, startup, tok, watchVars, reapers, boundVars>>

-----------------------------------------------------------------------------
(* start_spec_with_check.                                                  *)

LaunchEnter(a) ==
  /\ pc[a] = "lgate" /\ gate = Free
  /\ IF (IF a = Rec THEN TokenCurrent ELSE TicketCurrent(ticket[a]))
     THEN /\ gate' = a
          /\ Goto(a, IF a = Rec THEN "lphysical" ELSE "lclaim")
          /\ UNCHANGED outcome
     ELSE Report(a, AfterFailure(a), "cancelled") /\ UNCHANGED gate
  /\ UNCHANGED <<osVars, proxyVars, runVars, ticketVars, intentVars, taskVars, watchVars,
                 reapers, boundVars>>

\* Recovery only: permissions and the physical network are read again, the
\* run is marked as restarting and a child still in the slot is stopped.
LaunchPhysical ==
  /\ pc[Rec] = "lphysical"
  /\ \/ /\ TokenCurrent /\ deadProven' = tok.run
        /\ slot = 0 /\ Goto(Rec, "lrecheck")
        /\ UNCHANGED <<gate, outcome, slot, status, diag, victim, ret, reapers>>
     \/ /\ TokenCurrent /\ deadProven' = tok.run
        /\ TakeChild(Rec, "lrecheck")
        /\ UNCHANGED <<gate, outcome, reapers>>
     \/ /\ GiveUp(Rec, "cancelled")
        /\ UNCHANGED <<deadProven, slot, status, diag, victim, ret>>
  /\ UNCHANGED <<osVars, proxyVars, active, nextRun, pending, ticketVars, epoch, enabled,
                 accepted, accProxy, manualTicket, woken, acceptedRuns, kind, ticket, run,
                 startup, tok, watchVars, boundVars>>

\* Recovery only: the token again, then the accepted bytes are written back.
LaunchRecheck ==
  /\ pc[Rec] = "lrecheck"
  /\ \/ TokenCurrent /\ Goto(Rec, "lclaim") /\ UNCHANGED <<gate, outcome, reapers>>
     \/ GiveUp(Rec, IF TokenCurrent THEN "failed" ELSE "cancelled")
  /\ UNCHANGED <<osVars, proxyVars, runVars, ticketVars, intentVars, taskVars, watchVars,
                 boundVars>>

\* The startup epoch is read after, and apart from, the ticket check.
LaunchClaim(a) ==
  /\ pc[a] = "lclaim"
  /\ startup' = [startup EXCEPT ![a] = readyEpoch]
  /\ IF status \in {"Starting", "Running", "Stopping"}
     THEN GiveUp(a, "refused") /\ UNCHANGED <<status, nextRun, active, run>>
     ELSE /\ status' = "Starting"
          /\ nextRun' = nextRun + 1 /\ active' = nextRun + 1
          /\ run' = [run EXCEPT ![a] = nextRun + 1]
          /\ Goto(a, "lwire")
          /\ UNCHANGED <<gate, outcome, reapers>>
  /\ UNCHANGED <<osVars, proxyVars, slot, pending, diag, ticketVars, intentVars, kind, ticket,
                 victim, ret, tok, watchVars, boundVars>>

\* Capabilities, the optional diagnostic listener and the last check before
\* the spawn.  Only a checked profile or its captured snapshot has a listener.
LaunchWire(a) ==
  /\ pc[a] = "lwire"
  /\ \E wired \in (IF kind[a] = "direct" THEN {FALSE} ELSE BOOLEAN) :
       pending' = IF wired THEN run[a] ELSE pending
  /\ IF LaunchCurrent(a)
     THEN Goto(a, "lspawn") /\ UNCHANGED <<diag, status, active, gate, outcome, reapers>>
     ELSE /\ AbortStart(a)
          /\ Release /\ Report(a, AfterFailure(a), "cancelled")
          /\ reapers' = reapers \cup ({run[a]} \cap {pending'})
  /\ UNCHANGED <<osVars, proxyVars, slot, nextRun, ticketVars, intentVars, taskVars, watchVars,
                 boundVars>>

\* The TUN capability check fails, recovery finds another physical network, or
\* the process cannot be spawned.
LaunchRefusedByOs(a) ==
  /\ pc[a] \in {"lwire", "lspawn", "lrespawn"}
  /\ AbortStart(a)
  /\ GiveUp(a, "failed")
  /\ UNCHANGED <<osVars, proxyVars, slot, nextRun, pending, ticketVars, intentVars, taskVars,
                 watchVars, boundVars>>

\* spawn_main_child.  A launch with a listener then leaves the gate.
LaunchSpawn(a) ==
  /\ pc[a] \in {"lspawn", "lrespawn"}
  /\ live' = live \cup {run[a]}
  /\ DropChild
  /\ slot' = run[a] /\ status' = "Starting"
  /\ diag' = [run |-> run[a], session |-> run[a], ended |-> FALSE]
  /\ IF pc[a] = "lspawn" /\ pending = run[a]
     THEN Goto(a, "lready") /\ Release
     ELSE Goto(a, "lfinal") /\ UNCHANGED gate
  /\ UNCHANGED <<proxyVars, active, nextRun, pending, ticketVars, intentVars, outcome, taskVars,
                 watchVars, reapers, boundVars>>

\* optional_listener_ready, outside the gate
LaunchReady(a) ==
  /\ pc[a] = "lready"
  /\ \/ /\ active = run[a] /\ slot = run[a] /\ run[a] \in live
        /\ readyEpoch = startup[a] /\ (a = Rec \/ catalogFresh)
        /\ Goto(a, "lregate")
     \/ Goto(a, "lunready")
  /\ UNCHANGED <<osVars, proxyVars, runVars, gate, ticketVars, intentVars, outcome, taskVars,
                 watchVars, reapers, boundVars>>

\* The future of a launch is dropped while its listener is starting.
LaunchAbandoned(r) ==
  /\ r \in Reqs /\ pc[r] = "lready"
  /\ reapers' = reapers \cup {run[r]}
  /\ Report(r, "done", "abandoned")
  /\ UNCHANGED <<osVars, proxyVars, runVars, gate, ticketVars, intentVars, taskVars, watchVars,
                 boundVars>>

Superseded(a) == active # run[a] \/ ~LaunchCurrent(a)

\* Back in the gate after readiness: cancelled, or accepted as ready
LaunchRegate(a) ==
  /\ pc[a] \in {"lregate", "lunready"} /\ gate = Free
  /\ IF Superseded(a)
     THEN /\ \E timedOut \in Waits(run[a]) : Discard(run[a], timedOut)
          /\ Report(a, AfterFailure(a), "cancelled")
          /\ reapers' = reapers \cup ({run[a]} \cap {pending})
          /\ UNCHANGED gate
     ELSE /\ pc[a] = "lregate"
          /\ gate' = a /\ Goto(a, "lfinal")
          /\ UNCHANGED <<slot, live, orphans, diag, status, active, outcome, reapers>>
  /\ UNCHANGED <<proxyVars, nextRun, pending, ticketVars, intentVars, taskVars, watchVars,
                 boundVars>>

\* The listener did not come up: one fallback launch of the original profile
\* under a new run, unless the child or the original cannot be replaced.
LaunchFallback(a) ==
  /\ pc[a] = "lunready" /\ gate = Free /\ ~Superseded(a)
  /\ \/ /\ TRUE \in Waits(run[a]) /\ Discard(run[a], TRUE)
        /\ Report(a, AfterFailure(a), "failed")
        /\ reapers' = reapers \cup ({run[a]} \cap {pending})
        /\ UNCHANGED <<gate, nextRun, run, pending>>
     \/ /\ Discard(run[a], FALSE)
        /\ Report(a, AfterFailure(a), "failed")
        /\ FinishGuard(run[a])
        /\ UNCHANGED <<gate, nextRun, run, reapers>>
     \/ /\ slot' = IF slot = run[a] THEN 0 ELSE slot
        /\ live' = live \ {run[a]} /\ diag' = Retire(diag, run[a], TRUE)
        /\ status' = "Stopped"
        /\ nextRun' = nextRun + 1 /\ active' = nextRun + 1 /\ pending' = nextRun + 1
        /\ run' = [run EXCEPT ![a] = nextRun + 1]
        /\ gate' = a /\ Goto(a, "lrespawn")
        /\ UNCHANGED <<orphans, outcome, reapers>>
  /\ UNCHANGED <<proxyVars, ticketVars, intentVars, kind, ticket, startup, victim, ret, tok,
                 watchVars, boundVars>>

\* The last check before Running, and the end of the startup guard
LaunchFinish(a) ==
  /\ pc[a] = "lfinal"
  /\ IF LaunchCurrent(a)
     THEN /\ status' = "Running"
          /\ FinishGuard(run[a])
          /\ Goto(a, IF a = Rec THEN "lproxy" ELSE "laccept")
          /\ UNCHANGED <<slot, live, orphans, diag, active, gate, outcome, reapers>>
     ELSE /\ \E timedOut \in Waits(run[a]) : Discard(run[a], timedOut)
          /\ GiveUp(a, "cancelled") /\ UNCHANGED pending
  /\ UNCHANGED <<proxyVars, nextRun, ticketVars, intentVars, taskVars, watchVars, boundVars>>

\* Bug: the error returns without the stop.
GiveUpRunning(a, result) ==
  GiveUp(a, result) /\ UNCHANGED <<slot, status, diag, victim, ret>>

\* `let _ = stop_with_check_locked(None)` followed by an error
StopAndGiveUp(a, result) ==
  \/ TakeChild(a, result) /\ UNCHANGED <<gate, outcome, reapers>>
  \/ slot = 0 /\ GiveUp(a, result) /\ UNCHANGED <<slot, status, diag, victim, ret>>

\* Recovery only: the accepted snapshot's proxy is applied before acceptance.
LaunchRecoveryProxy ==
  /\ pc[Rec] = "lproxy"
  /\ \/ /\ TokenCurrent
        /\ proxy' = IF tok.proxy THEN run[Rec] ELSE proxy
        /\ proxyStuck' = (~tok.proxy /\ proxyStuck)
        /\ Goto(Rec, "laccept")
        /\ UNCHANGED <<gate, outcome, reapers, slot, status, diag, victim, ret>>
     \/ /\ TokenCurrent => tok.proxy
        /\ StopAndGiveUp(Rec, IF TokenCurrent THEN "failed" ELSE "cancelled")
        /\ UNCHANGED proxyVars
  /\ UNCHANGED <<osVars, active, nextRun, pending, ticketVars, intentVars, kind, ticket, run,
                 startup, tok, watchVars, boundVars>>

\* Bug: a manual launch is accepted without asking the intent.
AcceptableManual(a) == a = Rec => TokenCurrent
\* The proof accept_checked asks for
Acceptable(a) == IF a = Rec THEN TokenCurrent ELSE manualTicket = ticket[a]

\* accept_checked.  The snapshot is lost when the config cannot be read back.
LaunchAccept(a) ==
  /\ pc[a] = "laccept" /\ Acceptable(a)
  /\ accepted' \in {0, run[a]}
  /\ accProxy' = (a = Rec /\ accepted' # 0 /\ tok.proxy)
  /\ deadProven' = 0 /\ acceptedRuns' = acceptedRuns \cup {run[a]}
  /\ epoch' = IF a = Rec THEN epoch ELSE epoch + 1
  /\ manualTicket' = IF a = Rec THEN manualTicket ELSE 0
  /\ Release
  /\ IF a = Rec \/ kind[a] = "direct"
     THEN Report(a, IF a = Rec THEN "idle" ELSE "done", "ok")
     ELSE \E mode \in ProxyModes :
            Report(a, CASE mode = "none" -> "done" [] mode = "checked" -> "apply"
                        [] mode = "frontend" -> "fproxy" [] OTHER -> "fclear", "ok")
  /\ UNCHANGED <<osVars, proxyVars, runVars, ticketVars, enabled, woken, taskVars, watchVars,
                 reapers, boundVars>>

LaunchNotAccepted(a) ==
  /\ pc[a] = "laccept" /\ ~Acceptable(a)
  /\ StopAndGiveUp(a, "cancelled")
  /\ UNCHANGED <<osVars, proxyVars, active, nextRun, pending, ticketVars, intentVars, kind,
                 ticket, run, startup, tok, watchVars, boundVars>>

-----------------------------------------------------------------------------
(* After the launch, and the other commands.                               *)

\* apply_proxy_for_run, for an engine whose proxy the backend owns
ApplyProxy(r) ==
  /\ pc[r] = "apply" /\ gate = Free
  /\ \/ /\ active = run[r] /\ TicketCurrent(ticket[r])
        /\ proxy' = run[r] /\ proxyStuck' = FALSE
        /\ accProxy' = (accProxy \/ accepted = run[r])
        /\ Goto(r, "done")
        /\ UNCHANGED <<gate, outcome, slot, status, diag, victim, ret>>
     \/ /\ active = run[r] /\ TicketCurrent(ticket[r])
        /\ \/ TakeChild(r, "unapplied") /\ gate' = r /\ UNCHANGED outcome
           \/ /\ slot = 0 /\ Report(r, "done", "failed")
              /\ UNCHANGED <<gate, slot, status, diag, victim, ret>>
        /\ UNCHANGED <<proxyVars, accProxy>>
     \/ /\ active # run[r] \/ ~TicketCurrent(ticket[r])
        /\ Report(r, "done", "cancelled")
        /\ UNCHANGED <<gate, proxyVars, accProxy, slot, status, diag, victim, ret>>
  /\ UNCHANGED <<osVars, active, nextRun, pending, ticketVars, epoch, enabled, accepted,
                 manualTicket, woken, deadProven, acceptedRuns, kind, ticket, run, startup,
                 tok, watchVars, reapers, boundVars>>

\* The window's own apply_system_proxy or clear_system_proxy call once the
\* launch returned: only the gate, no test of the run.
FrontendProxy(r) ==
  /\ pc[r] \in {"fproxy", "fclear"} /\ gate = Free
  /\ IF pc[r] = "fproxy" THEN proxy' = run[r] /\ proxyStuck' = FALSE ELSE ClearProxy
  /\ accProxy' = IF accepted # 0 /\ accepted = active /\ ~proxyStuck' THEN proxy' # 0 ELSE accProxy
  /\ Goto(r, "done")
  /\ UNCHANGED <<osVars, runVars, gate, ticketVars, epoch, enabled, accepted, manualTicket,
                 woken, deadProven, acceptedRuns, outcome, taskVars, watchVars, reapers,
                 boundVars>>

\* reset_after_profile_check
ResetAfter(r) ==
  /\ pc[r] = "rgate" /\ gate = Free
  /\ Goto(r, "done")
  /\ IF TicketCurrent(ticket[r])
     THEN ResetAll
     ELSE UNCHANGED <<osVars, proxyVars, runVars>>
  /\ UNCHANGED <<gate, ticketVars, intentVars, outcome, taskVars, watchVars, reapers, boundVars>>

\* stop in the gate
StopEnter(r) ==
  /\ pc[r] = "sgate" /\ kind[r] = "stop" /\ gate = Free
  /\ \/ readyEpoch = ticket[r] /\ TakeChild(r, "done") /\ gate' = r /\ UNCHANGED outcome
     \/ /\ readyEpoch = ticket[r] => slot = 0
        /\ Report(r, "done", IF readyEpoch = ticket[r] THEN "failed" ELSE "cancelled")
        /\ UNCHANGED <<gate, slot, status, diag, victim, ret>>
  /\ UNCHANGED <<osVars, proxyVars, active, nextRun, pending, ticketVars, intentVars, kind,
                 ticket, run, startup, tok, watchVars, reapers, boundVars>>

\* reset in the gate
ResetEnter(r) ==
  /\ pc[r] = "sgate" /\ kind[r] = "reset" /\ gate = Free
  /\ Report(r, "done", "ok")
  /\ IF readyEpoch = ticket[r] THEN ResetAll ELSE UNCHANGED <<osVars, proxyVars, runVars>>
  /\ UNCHANGED <<gate, ticketVars, intentVars, taskVars, watchVars, reapers, boundVars>>

\* Bug: the kill is not awaited.
ReapedAtOnce(a) == TRUE
\* child.wait() after the kill
Reaped(a) == victim[a] \notin live

\* The end of stop_with_check_locked: the child is gone, the run is finalized
\* and the caller goes on, in the gate only when recovery restarts the engine.
StopReap(a) ==
  /\ pc[a] = "stopping" /\ Reaped(a)
  /\ Finalize(victim[a], TRUE)
  /\ victim' = [victim EXCEPT ![a] = 0]
  /\ gate' = IF ret[a] = "lrecheck" THEN gate ELSE Free
  /\ CASE ret[a] \in {"lgate", "lrecheck"} -> Goto(a, ret[a]) /\ UNCHANGED outcome
       [] ret[a] = "done" -> Report(a, "done", "ok")
       [] ret[a] = "unapplied" -> Report(a, "done", "failed")
       [] OTHER -> Report(a, AfterFailure(a), ret[a])
  /\ UNCHANGED <<osVars, slot, nextRun, pending, ticketVars, intentVars, kind, ticket, run,
                 startup, ret, tok, watchVars, reapers, boundVars>>

\* select_proxy in the gate
SelectEnter(r) ==
  /\ pc[r] = "selgate" /\ gate = Free
  /\ \/ TicketCurrent(ticket[r]) /\ status = "Running" /\ gate' = r /\ Goto(r, "selapi")
        /\ UNCHANGED outcome
     \/ /\ TicketCurrent(ticket[r]) => status # "Running"
        /\ Report(r, "done", "failed") /\ UNCHANGED gate
  /\ UNCHANGED <<osVars, proxyVars, runVars, ticketVars, intentVars, taskVars, watchVars,
                 reapers, boundVars>>

\* The Clash API answered: an accepted snapshot no longer describes the engine.
SelectApi(r) ==
  /\ pc[r] = "selapi"
  /\ \E answered \in BOOLEAN :
       /\ Report(r, "done", IF ~answered THEN "failed"
                            ELSE IF TicketCurrent(ticket[r]) THEN "ok" ELSE "cancelled")
       /\ IF answered /\ accepted # 0 /\ accepted = active
          THEN epoch' = epoch + 1 /\ accepted' = 0 /\ accProxy' = FALSE
          ELSE UNCHANGED <<epoch, accepted, accProxy>>
  /\ Release
  /\ UNCHANGED <<osVars, proxyVars, runVars, ticketVars, enabled, manualTicket, woken,
                 deadProven, acceptedRuns, taskVars, watchVars, reapers, boundVars>>

-----------------------------------------------------------------------------
(* The watcher, the reapers and the recovery loop.                         *)

\* The watcher sees that the child exited, then takes the slot without the gate.
WatchObserve ==
  /\ watchPc = "idle" /\ slot # 0 /\ slot \notin live /\ pending # slot
  /\ watchRun' = slot /\ watchPc' = "take"
  /\ UNCHANGED <<osVars, proxyVars, runVars, gate, ticketVars, intentVars, pc, outcome, taskVars,
                 reapers, boundVars>>

\* Bug: the slot is emptied and the watcher goes on, the run is left as it was.
WatchTakeOnly ==
  /\ watchPc = "take"
  /\ slot' = IF slot = watchRun THEN 0 ELSE slot
  /\ watchPc' = "idle" /\ watchRun' = 0
  /\ UNCHANGED <<osVars, proxyVars, status, active, nextRun, pending, diag, gate, ticketVars,
                 intentVars, pc, outcome, taskVars, reapers, boundVars>>

\* take_child_if_run
WatchTake ==
  /\ watchPc = "take"
  /\ IF slot = watchRun
     THEN slot' = 0 /\ watchPc' = "finalize" /\ UNCHANGED watchRun
     ELSE watchPc' = "idle" /\ watchRun' = 0 /\ UNCHANGED slot
  /\ UNCHANGED <<osVars, proxyVars, status, active, nextRun, pending, diag, gate, ticketVars,
                 intentVars, pc, outcome, taskVars, reapers, boundVars>>

WatchFinalize ==
  /\ watchPc = "finalize" /\ gate = Free
  /\ Finalize(watchRun, FALSE)
  /\ watchPc' = "idle" /\ watchRun' = 0
  /\ UNCHANGED <<osVars, slot, nextRun, pending, gate, ticketVars, intentVars, pc, outcome,
                 taskVars, reapers, boundVars>>

\* The task a dropped PendingDiagnosticStart spawned.  One step: the gate and
\* the pending mark keep every other writer out while it runs.
Reap(n) ==
  /\ n \in reapers /\ gate = Free
  /\ \E timedOut \in Waits(n) : Discard(n, timedOut)
  /\ FinishGuard(n)
  /\ reapers' = reapers \ {n}
  /\ UNCHANGED <<proxyVars, nextRun, gate, ticketVars, intentVars, pc, outcome, taskVars,
                 watchVars, boundVars>>

\* One pass of the loop that ends in Reconnect.  The engine is dead, or it is
\* the active one and a candidate probe passed; the policy that rations the
\* attempts is a module of its own (RecoveryPolicy).
Reconnect ==
  /\ pc[Rec] = "idle" /\ recoveries < MaxRecoveries
  /\ HasToken /\ ~woken
  /\ \/ /\ EngineDead(accepted) \/ (deadProven = accepted /\ active = 0)
        /\ deadProven' = accepted
     \/ active = accepted /\ UNCHANGED deadProven
  /\ tok' = [epoch |-> epoch, run |-> accepted, proxy |-> accProxy]
  /\ recoveries' = recoveries + 1
  /\ Goto(Rec, "lgate")
  /\ UNCHANGED <<osVars, proxyVars, runVars, gate, ticketVars, epoch, enabled, accepted,
                 accProxy, manualTicket, woken, acceptedRuns, outcome, kind, ticket, run,
                 startup, victim, ret, watchVars, reapers, wakes, toggles, mutations>>

\* The loop notices a wake and adopts its generation.
RecoveryEvent ==
  /\ pc[Rec] = "idle" /\ woken /\ HasToken
  /\ woken' = FALSE
  /\ UNCHANGED <<osVars, proxyVars, runVars, gate, ticketVars, epoch, enabled, accepted,
                 accProxy, manualTicket, deadProven, acceptedRuns, pc, outcome, taskVars,
                 watchVars, reapers, boundVars>>

SetEnabled ==
  /\ toggles < MaxToggles /\ toggles' = toggles + 1
  /\ enabled' = ~enabled /\ epoch' = epoch + 1
  /\ woken' \in (IF enabled THEN {woken} ELSE {woken, FALSE})
  /\ UNCHANGED <<osVars, proxyVars, runVars, gate, ticketVars, accepted, accProxy, manualTicket,
                 deadProven, acceptedRuns, pc, outcome, taskVars, watchVars, reapers,
                 recoveries, wakes, mutations>>

-----------------------------------------------------------------------------
(* The environment.                                                        *)

\* An engine exits: by itself, or because it was killed.
Exit(n) ==
  /\ n \in live
  /\ live' = live \ {n} /\ orphans' = orphans \ {n}
  /\ UNCHANGED <<proxyVars, runVars, gate, ticketVars, intentVars, pc, outcome, taskVars,
                 watchVars, reapers, boundVars>>

Wake ==
  /\ wakes < MaxWakes /\ wakes' = wakes + 1 /\ woken' = TRUE
  /\ UNCHANGED <<osVars, proxyVars, runVars, gate, ticketVars, epoch, enabled, accepted,
                 accProxy, manualTicket, deadProven, acceptedRuns, pc, outcome, taskVars,
                 watchVars, reapers, recoveries, toggles, mutations>>

\* A ready launch holds the catalog's read lock from its handoff to its end.
HoldsHandoff(r) ==
  kind[r] = "ready" /\ pc[r] \notin {"validate", "apply", "fproxy", "fclear", "done"}

\* SourceCatalog::mutation, refused while a handoff is held
CatalogMutation ==
  /\ mutations < MaxMutations /\ mutations' = mutations + 1
  /\ \A r \in Reqs : ~HoldsHandoff(r)
  /\ catalogFresh' = FALSE
  /\ UNCHANGED <<osVars, proxyVars, runVars, gate, readyEpoch, intentVars, pc, outcome, taskVars,
                 watchVars, reapers, recoveries, wakes, toggles>>

-----------------------------------------------------------------------------
RequestStep(r) ==
  \/ Handoff(r) \/ PreStop(r) \/ ApplyProxy(r) \/ FrontendProxy(r) \/ ResetAfter(r)
  \/ StopEnter(r) \/ ResetEnter(r) \/ SelectEnter(r) \/ SelectApi(r)

LaunchStep(a) ==
  \/ LaunchEnter(a) \/ LaunchClaim(a) \/ LaunchWire(a) \/ LaunchRefusedByOs(a)
  \/ LaunchSpawn(a) \/ LaunchReady(a) \/ LaunchRegate(a) \/ LaunchFallback(a)
  \/ LaunchFinish(a) \/ LaunchAccept(a) \/ LaunchNotAccepted(a) \/ StopReap(a)

RecoveryStep == LaunchPhysical \/ LaunchRecheck \/ LaunchRecoveryProxy

WatcherStep == WatchObserve \/ WatchTake \/ WatchFinalize

Next ==
  \/ \E r \in Reqs : BeginManual(r) \/ BeginStop(r) \/ LaunchAbandoned(r) \/ RequestStep(r)
  \/ \E a \in Actors : LaunchStep(a)
  \/ RecoveryStep \/ Reconnect \/ RecoveryEvent \/ SetEnabled
  \/ WatcherStep
  \/ \E n \in reapers : Reap(n)
  \/ \E n \in live : Exit(n)
  \/ Wake \/ CatalogMutation

Spec == Init /\ [][Next]_vars

Killed == {victim[a] : a \in Actors} \cup orphans

\* The gate is tokio's Semaphore, which serves its waiters in order: a task
\* that waits for it is not overtaken for ever, hence strong fairness.  A
\* killed process exits.  No request has to be made and no engine has to die.
Fairness ==
  /\ \A r \in Reqs : SF_vars(RequestStep(r) \/ LaunchStep(r))
  /\ SF_vars(LaunchStep(Rec) \/ RecoveryStep)
  /\ SF_vars(WatcherStep)
  /\ SF_vars(\E n \in reapers : Reap(n))
  /\ WF_vars(\E n \in live \cap Killed : Exit(n))

FairSpec == Spec /\ Fairness

-----------------------------------------------------------------------------
Labels == {"idle", "validate", "prestop", "lgate", "lphysical", "lrecheck", "lclaim", "lwire",
           "lspawn", "lrespawn", "lready", "lregate", "lunready", "lfinal", "lproxy",
           "laccept", "apply", "fproxy", "fclear", "rgate", "sgate", "selgate", "selapi",
           "stopping", "done"}
Results == {"none", "ok", "cancelled", "failed", "refused", "abandoned"}

TypeOK ==
  /\ live \subseteq Nat \ {0} /\ orphans \subseteq live
  /\ proxy \in Nat /\ proxyStuck \in BOOLEAN
  /\ slot \in Nat /\ active \in Nat /\ nextRun \in Nat /\ pending \in Nat
  /\ status \in {"Stopped", "Starting", "Running", "Stopping"}
  /\ gate \in Actors \cup {Free}
  /\ diag \in [run : Nat, session : Nat, ended : BOOLEAN]
  /\ readyEpoch \in Nat /\ catalogFresh \in BOOLEAN
  /\ epoch \in Nat /\ enabled \in BOOLEAN /\ accepted \in Nat /\ accProxy \in BOOLEAN
  /\ manualTicket \in Nat /\ woken \in BOOLEAN /\ deadProven \in Nat
  /\ acceptedRuns \subseteq Nat
  /\ pc \in [Actors -> Labels]
  /\ kind \in [Actors -> AllKinds \cup {"none", "recovery"}]
  /\ ticket \in [Actors -> Nat] /\ run \in [Actors -> Nat]
  /\ startup \in [Actors -> Nat] /\ victim \in [Actors -> Nat]
  /\ ret \in [Actors -> {"lgate", "lrecheck", "done", "cancelled", "failed", "unapplied"}]
  /\ outcome \in [Actors -> Results]
  /\ tok \in [epoch : Nat, run : Nat, proxy : BOOLEAN]
  /\ watchRun \in Nat /\ watchPc \in {"idle", "take", "finalize"}
  /\ reapers \subseteq Nat
  /\ recoveries \in Nat /\ wakes \in Nat /\ toggles \in Nat /\ mutations \in Nat

\* No engine process is lost sight of: each one is in the child slot, in the
\* hands of the task that stops it, or was killed by dropping its handle.
EngineOwned == live \subseteq ({slot} \cup {victim[a] : a \in Actors} \cup orphans)

\* The child in the slot always belongs to the active run.
SlotIsActive == slot # 0 => slot = active /\ status \in {"Starting", "Running"}

\* An engine is spawned only when no other one is left, but for processes
\* already killed by a reset or a discard that did not wait for the end.
SpawnAlone == [][live' \subseteq live \/ live \subseteq orphans]_vars

Stopped(r) == kind[r] \in {"stop", "reset"} /\ pc[r] = "done" /\ ticket[r] = readyEpoch

\* The last user request was Stop (or Reset) and it returned: no engine is or
\* comes back, whichever launches or reconnects it overtook.
StopWins == (\E r \in Reqs : Stopped(r)) => slot = 0 /\ live \subseteq orphans

\* What the program promises of its engine processes, whatever the requests, the
\* recovery, the watcher and the reapers do at once: one engine at most, a new one
\* only when no other is left but processes already killed, acceptance of the one
\* that is owned, a stop that returns with none, and none until the next request.
Owner == INSTANCE EngineOwnership
  WITH engines <- live \ orphans, dying <- orphans,
       halted <- (\E r \in Reqs : Stopped(r)), served <- acceptedRuns
OwnershipKept == Owner!Spec

\* Between transitions a running engine was accepted: no launch that lost its
\* ticket or token on the way leaves its engine up.
RunningWasAccepted == gate = Free /\ slot # 0 /\ status = "Running" => slot \in acceptedRuns

\* Only the newest request, or recovery when no request is pending, accepts.
NewestAccepts ==
  [][\A a \in Actors : pc[a] = "laccept" /\ acceptedRuns' # acceptedRuns /\ outcome'[a] = "ok"
        => IF a = Rec THEN NoPendingManual ELSE ticket[a] = readyEpoch]_vars

\* The watcher ignores the pending run: the mark never outlives the launch or
\* its reaper, or the run's crash would go unnoticed.
Launching(a) == pc[a] \in {"lspawn", "lrespawn", "lready", "lregate", "lunready", "lfinal"}
PendingHasOwner ==
  pending # 0 => pending \in reapers \/ \E a \in Actors : Launching(a) /\ run[a] = pending

\* Recovery takes down the run whose token it holds, or its own launch.
RecoveryStopsItsOwn ==
  [][slot # 0 /\ slot' = 0 /\ pc'[Rec] # pc[Rec] => slot \in {tok.run, run[Rec]}]_vars

\* Between transitions the system proxy points at the active run's engine.
ProxyFollowsEngine == gate = Free /\ proxy # 0 => proxy = active \/ proxyStuck

\* A launch that ended without acceptance has no engine left, except one it
\* abandoned to the reaper.
FailureLeavesNoEngine ==
  \A a \in Actors :
    pc[a] \in {"idle", "rgate", "done"} /\ run[a] # 0 /\ run[a] \notin acceptedRuns
      => slot # run[a] \/ run[a] \in reapers

\* Every command returns, with launches, stops and recovery's own launch waiting
\* for the one permit: each request is one command, so they all come to an end.
UnderWay == \E r \in Reqs : pc[r] \notin {"idle", "done"}
RequestsEnd == UnderWay ~> ~UnderWay

\* The run of an engine that crashed ends: no run stays the active one without
\* an engine, whether the watcher, a launch or a stop has its child.
CrashIsNoticed ==
  active # 0 /\ active \notin live ~> active = 0 \/ active \in live

=============================================================================
