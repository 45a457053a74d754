-------------------------------- MODULE Probes --------------------------------
(***************************************************************************)
(* The checks of a connection on the desktop: the live session's record    *)
(* and its probes (src-tauri/src/diagnostics/active.rs) and the command    *)
(* that checks a selected profile (selected.rs), each on a coordinator of  *)
(* its own, with the network generation (network_events.rs), the source    *)
(* catalog (sources.rs) and the exit of the application (lib.rs).          *)
(*                                                                         *)
(* The record's mutex joins its reads and writes with the calls into the   *)
(* coordinator made under it; whatever awaits is split.                    *)
(***************************************************************************)
EXTENDS ProbeCoordinator

CONSTANT Limits   \* bounds on notifications, catalog mutations, identities, profile commands

ASSUME ProbesAssumption ==
  Limits \subseteq [nets : Nat, edits : Nat, stamps : Nat, commands : Nat]

VARIABLES
  limits,       \* the bounds of this behaviour
  session,      \* ActiveState: identity (0 without a run), wiring, epoch, network
  stamps,       \* identities given so far: a fresh uuid is a new number
  engine,       \* the session's engine is alive
  monitor,      \* spawn_monitor: step and the generation it read
  net,          \* network_events::generation
  seen,         \* lease -> the generation a refresh of the session captured
  catalog,      \* SourceCatalog::epoch; the stored profiles change with it
  mutating,     \* a mutation holds the write gate
  command       \* probe_desktop_profile: step and locals

sessionVars == <<session, stamps, engine, monitor, seen>>
catalogVars == <<catalog, mutating>>
vars == <<limits, probeVars, sessionVars, net, catalogVars, command>>

NoSession == [identity |-> 0, wiring |-> FALSE, epoch |-> 0, network |-> "unseen"]
NoMonitor == [pc |-> "off", epoch |-> 0]
NoCommand == [pc |-> "idle", count |-> 0, config |-> 0, catalog |-> 0, net |-> 0, op |-> NoOp,
              answer |-> "none"]

Init ==
  /\ ProbeInit
  /\ limits \in Limits
  /\ session = NoSession
  /\ stamps = 0
  /\ engine = FALSE
  /\ monitor = NoMonitor
  /\ net = 1
  /\ seen = [o \in Ops |-> 0]
  /\ catalog = 1
  /\ mutating = FALSE
  /\ command = NoCommand

HasRun == session.identity # 0
Fresh == stamps + 1

-----------------------------------------------------------------------------
(* SessionDiagnostics: the record                                          *)

\* accept, then spawn_monitor; a launch without wiring cannot be probed.
Accept ==
  /\ Fresh <= limits.stamps
  /\ Invalidate("session")
  /\ stamps' = Fresh
  /\ \E wiring \in BOOLEAN :
       session' = [NoSession EXCEPT !.identity = Fresh, !.wiring = wiring]
  /\ engine' = TRUE
  /\ monitor' = [pc |-> "loop", epoch |-> 0]
  /\ UNCHANGED <<seen, net, catalogVars, command>>

\* retire and clear. What stays after an exit is the text of the issue.
Retire ==
  /\ HasRun
  /\ Invalidate("session")
  /\ session' = NoSession
  /\ engine' = FALSE
  /\ UNCHANGED <<stamps, monitor, seen, net, catalogVars, command>>

\* A new identity of the same session; what was measured for the old one is void.
Renew(s) ==
  /\ stamps' = Fresh
  /\ Invalidate("session")
  /\ session' = [s EXCEPT !.identity = Fresh]

ObserveEpoch == Renew([session EXCEPT !.epoch = net, !.network = "unseen"])
EpochCurrent == session.epoch = net

\* Bug: a change of the target keeps the answer.
TargetKeepsAnswer ==
  /\ HasRun /\ session.wiring /\ Fresh <= limits.stamps
  /\ stamps' = Fresh
  /\ session' = [session EXCEPT !.identity = Fresh]
  /\ UNCHANGED <<probeVars, engine, monitor, seen, net, catalogVars, command>>

\* target_changed, which ends the wiring, and target_availability, which does not.
Target ==
  /\ HasRun /\ session.wiring /\ Fresh <= limits.stamps
  /\ \E wiring \in BOOLEAN : Renew([session EXCEPT !.wiring = wiring])
  /\ UNCHANGED <<engine, monitor, seen, net, catalogVars, command>>

\* synchronize_epoch, also from snapshot and begin.
Synchronize ==
  /\ HasRun /\ ~EpochCurrent
  /\ ObserveEpoch
  /\ UNCHANGED <<engine, monitor, seen, net, catalogVars, command>>

\* The monitor: the generation, then the network behind it, read without the lock.
MonitorEpoch ==
  /\ monitor.pc = "loop" /\ HasRun
  /\ IF EpochCurrent THEN UNCHANGED <<session, stamps, probeVars>> ELSE ObserveEpoch
  /\ monitor' = IF ~EpochCurrent \/ session.network = "unseen"
                THEN [pc |-> "discover", epoch |-> net] ELSE monitor
  /\ UNCHANGED <<engine, seen, net, catalogVars, command>>

MonitorNetwork ==
  /\ monitor.pc = "discover"
  /\ monitor' = [monitor EXCEPT !.pc = IF HasRun THEN "loop" ELSE "off"]
  /\ \/ /\ ~HasRun \/ net # monitor.epoch
        /\ UNCHANGED <<session, stamps, probeVars>>
     \/ /\ HasRun /\ net = monitor.epoch
        /\ \E found \in {"known", "unknown"} :
             IF session.network = found THEN UNCHANGED <<session, stamps, probeVars>>
             ELSE Renew([session EXCEPT !.network = found])
  /\ UNCHANGED <<engine, seen, net, catalogVars, command>>

-----------------------------------------------------------------------------
(* Probes of the session                                                   *)

\* begin synchronizes the generation first: a request then fails for want of the identity
\* it names. The window may ask at any time, the monitor once an hour.
RequestActive ==
  /\ HasRun /\ EpochCurrent
  /\ Lease("session", session.identity)
  /\ UNCHANGED <<sessionVars, net, catalogVars, command>>

IsCurrent(o) == HasRun /\ session.identity = op[o].identity /\ EpochCurrent

\* current: the generation is synchronized; then the identity and the engine are compared.
ActiveBegins(o) ==
  /\ op[o].pc = "work" /\ op[o].at = "session"
  /\ seen' = [seen EXCEPT ![o] = session.epoch]
  /\ \/ HasRun /\ ~EpochCurrent /\ ObserveEpoch
     \/ /\ HasRun => EpochCurrent
        /\ ~IsCurrent(o) \/ ~engine \/ ~session.wiring
        /\ Ends(o, "unavailable")
        /\ UNCHANGED <<closed, active, health, permit, poisoned, core, exit, session, stamps>>
     \/ /\ IsCurrent(o) /\ engine /\ session.wiring
        /\ Moves(o, IF session.network = "known" THEN "check" ELSE "refresh")
        /\ UNCHANGED <<closed, active, health, permit, poisoned, core, exit, session, stamps>>
  /\ UNCHANGED <<engine, monitor, net, catalogVars, command>>

\* refresh_failed_network: what is found is stored only if generation and identity are
\* still those seen before the await.
RefreshNetwork(o) ==
  LET same == /\ net = seen[o] /\ session.epoch = seen[o]
              /\ HasRun /\ session.identity = op[o].identity
  IN
  /\ op[o].pc = "refresh"
  /\ \/ ~same /\ Ends(o, "unavailable") /\ UNCHANGED session
     \/ /\ same
        /\ \/ session' = [session EXCEPT !.network = "known"] /\ Moves(o, "check")
           \/ session' = [session EXCEPT !.network = "unknown"] /\ Ends(o, "unavailable")
  /\ UNCHANGED <<closed, active, health, permit, poisoned, core, exit, stamps, engine, monitor,
                 seen, net, catalogVars, command>>

\* perform_check, through the session's own listener.
CheckTargets(o) ==
  /\ op[o].pc = "check"
  /\ \/ Ends(o, "unavailable")
     \/ engine /\ Moves(o, "alive")
  /\ UNCHANGED <<closed, active, health, permit, poisoned, core, exit, sessionVars, net,
                 catalogVars, command>>

\* A good answer counts only for a session that is still current.
ActiveEnds(o) ==
  /\ op[o].pc = "alive"
  /\ \/ HasRun /\ ~EpochCurrent /\ ObserveEpoch
     \/ /\ HasRun => EpochCurrent
        /\ Ends(o, IF engine /\ IsCurrent(o) THEN "healthy" ELSE "unavailable")
        /\ UNCHANGED <<closed, active, health, permit, poisoned, core, exit, session, stamps>>
  /\ UNCHANGED <<engine, monitor, seen, net, catalogVars, command>>

-----------------------------------------------------------------------------
(* probe_desktop_profile                                                   *)

Answers(answer) ==
  command' = [command EXCEPT !.pc = "idle", !.op = NoOp, !.config = 0, !.catalog = 0, !.net = 0,
                             !.answer = answer]

\* Admission is held to the end, so there is one command at a time. The row of the live
\* session is refused.
CommandBegin ==
  /\ command.pc = "idle" /\ command.count < limits.commands
  /\ \/ /\ ~closed["selected"]
        /\ command' = [NoCommand EXCEPT !.pc = "resolve", !.count = command.count + 1]
     \/ command' = [NoCommand EXCEPT !.count = command.count + 1, !.answer = "cancelled"]
  /\ UNCHANGED <<probeVars, sessionVars, net, catalogVars>>

\* Under the handoff no mutation runs: the profile and the epoch belong together.
\* Bug: the epoch is read after the handoff.
ResolveLoosely ==
  \/ /\ command.pc = "resolve" /\ ~mutating /\ command.config = 0
     /\ command' = [command EXCEPT !.config = catalog]
     /\ UNCHANGED <<probeVars, sessionVars, net, catalogVars>>
  \/ /\ command.pc = "resolve" /\ command.config # 0
     /\ command' = [command EXCEPT !.pc = "discover", !.catalog = catalog, !.net = net]
     /\ UNCHANGED <<probeVars, sessionVars, net, catalogVars>>

Resolve ==
  /\ command.pc = "resolve" /\ ~mutating
  /\ \/ Answers("refused")
     \/ command' = [command EXCEPT !.pc = "discover", !.config = catalog, !.catalog = catalog,
                                   !.net = net]
  /\ UNCHANGED <<probeVars, sessionVars, net, catalogVars>>

\* After discovery epoch and generation are compared, then the lease is taken.
Discover ==
  LET same == command.catalog = catalog /\ command.net = net IN
  /\ command.pc = "discover"
  /\ \/ /\ Answers("refused")
        /\ UNCHANGED probeVars
     \/ /\ same /\ Lease("selected", command.net)
        /\ command' = [command EXCEPT !.pc = "execute", !.op = FreeOp]
     \/ /\ same /\ ~Admits("selected")
        /\ Answers("cancelled")
        /\ UNCHANGED probeVars
  /\ UNCHANGED <<sessionVars, net, catalogVars>>

\* Execute has returned: the same comparisons, and the answer shown must be this lease's.
\* The profile may have become the live session's meanwhile.
CommandEnd ==
  LET h == health["selected"] IN
  /\ command.pc = "execute" /\ op[command.op].pc = "done"
  /\ \/ Invalidate("selected") /\ Answers("cancelled")
     \/ /\ IF command.catalog # catalog \/ command.net # net \/ h.op # command.op
              \/ h.outcome = "cancelled"
           THEN Answers("refused") ELSE Answers(h.outcome)
        /\ UNCHANGED probeVars
  /\ UNCHANGED <<sessionVars, net, catalogVars>>

-----------------------------------------------------------------------------
(* The operating system, the catalog, cancellation and exit                *)

NetworkChange ==
  /\ net <= limits.nets
  /\ net' = net + 1
  /\ UNCHANGED <<probeVars, sessionVars, catalogVars, command>>

EngineDies ==
  /\ engine
  /\ engine' = FALSE
  /\ UNCHANGED <<probeVars, session, stamps, monitor, seen, net, catalogVars, command>>

\* mutation: refused while a handoff is held, which here is one step.
Mutation ==
  /\ \/ ~mutating /\ catalog <= limits.edits /\ catalog' = catalog + 1 /\ mutating' = TRUE
     \/ mutating /\ mutating' = FALSE /\ UNCHANGED catalog
  /\ UNCHANGED <<probeVars, sessionVars, net, command>>

CancelProbe(c) ==
  /\ Cancel(c)
  /\ UNCHANGED <<sessionVars, net, catalogVars, command>>

ExitApp ==
  /\ Seal
  /\ UNCHANGED <<sessionVars, net, catalogVars, command>>

Drain(c) ==
  /\ ShutdownStep(c)
  /\ UNCHANGED <<sessionVars, net, catalogVars, command>>

\* Then the shutdown of the selected checks waits for the command in admission.
DrainAdmission ==
  /\ exit["selected"] = "stopped" /\ command.pc = "idle"
  /\ exit' = [exit EXCEPT !["selected"] = "drained"]
  /\ UNCHANGED <<closed, active, health, permit, poisoned, core, op, sessionVars, net, catalogVars,
                 command>>

Execute(o) ==
  /\ ExecuteStep(o)
  /\ UNCHANGED <<sessionVars, net, catalogVars, command>>

ActiveWork(o) == ActiveBegins(o) \/ RefreshNetwork(o) \/ CheckTargets(o) \/ ActiveEnds(o)

Task(o) == Execute(o) \/ ActiveWork(o)

Step ==
  \/ Accept \/ Retire \/ Target \/ MonitorEpoch \/ MonitorNetwork \/ Synchronize
  \/ RequestActive
  \/ CommandBegin \/ Resolve \/ Discover \/ CommandEnd
  \/ NetworkChange \/ EngineDies \/ Mutation
  \/ \E c \in Coordinators : CancelProbe(c) \/ Drain(c)
  \/ ExitApp \/ DrainAdmission
  \/ \E o \in Ops : Task(o)

Next == Step /\ UNCHANGED limits

Spec == Init /\ [][Next]_vars

-----------------------------------------------------------------------------
(* Properties                                                              *)

\* Whatever the record of the session shows was measured for its present identity: each
\* change of run, network or target voids the answer under the same lock (accept, retire,
\* observe_epoch, target_changed).
HealthIsCurrent ==
  health["session"].op # NoOp => HasRun /\ health["session"].identity = session.identity

\* A profile that was answered healthy was the stored one when the answer was given: the
\* configuration and the epoch were taken under one handoff (probe_desktop_profile).
AnswerFresh ==
  [][command.pc = "execute" /\ command'.answer = "healthy" => command.config = catalog]_vars

\* The exit barrier: once a coordinator has shut down none of its leases works and no
\* private engine runs, unless its death could not be proved; and when the shutdown of the
\* selected checks has returned, no command is on its way (ProbeCoordinator::shutdown,
\* SelectedProbes::shutdown).
ExitLeavesNothing ==
  /\ \A c \in Coordinators :
       exit[c] \in {"stopped", "drained"} =>
         /\ core[c] # NoCore => poisoned[c]
         /\ \A o \in Ops : op[o].at = c => op[o].pc \in {"free", "wait", "admit", "done"}
  /\ exit["selected"] = "drained" => command.pc = "idle"
=============================================================================
