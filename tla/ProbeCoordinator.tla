--------------------------- MODULE ProbeCoordinator ---------------------------
(***************************************************************************)
(* The probe coordinator, src-tauri/src/diagnostics/coordinator.rs, and    *)
(* the private engine it owns, owned_core.rs and desktop.rs.               *)
(*                                                                         *)
(* A request takes a lease, waits for the one probe slot, works, cleans up *)
(* and publishes.  A newer request, cancel, invalidate and shutdown cancel *)
(* the lease at any point; the cleanup of a cancelled owner still runs     *)
(* before the next owner works.  One coordinator serves the live session   *)
(* and has no private engine; the other serves selected profiles.          *)
(***************************************************************************)
EXTENDS Naturals

CONSTANTS
  MaxOps,       \* bound on the leases of all coordinators
  Attempts      \* ports tried by one desktop probe

ASSUME ProbeAssumption == MaxOps \in Nat /\ Attempts \in Nat \ {0}

Coordinators == {"session", "selected"}
Ops == 1..MaxOps
NoOp == 0
Exit == MaxOps + 1        \* shutdown, as the holder of the probe slot
NoHealth == [op |-> NoOp, identity |-> 0, outcome |-> "none"]
NoCore == [by |-> NoOp, child |-> FALSE]

VARIABLES
  closed,       \* coordinator -> State::closed
  active,       \* coordinator -> id of State::active
  health,       \* coordinator -> its slot of State::snapshot
  permit,       \* coordinator -> holder of probe_slot
  poisoned,     \* coordinator -> cleanup_failed
  core,         \* coordinator -> private_core: owner, and whether it has a child
  op,           \* lease -> coordinator, identity, cancelled, step, result, ports left
  exit          \* coordinator -> step of its shutdown

probeVars == <<closed, active, health, permit, poisoned, core, op, exit>>

NoLease == [at |-> "session", identity |-> 0, cancelled |-> FALSE, pc |-> "free",
            result |-> "none", ports |-> 0]

ProbeInit ==
  /\ closed = [c \in Coordinators |-> FALSE]
  /\ active = [c \in Coordinators |-> NoOp]
  /\ health = [c \in Coordinators |-> NoHealth]
  /\ permit = [c \in Coordinators |-> NoOp]
  /\ poisoned = [c \in Coordinators |-> FALSE]
  /\ core = [c \in Coordinators |-> NoCore]
  /\ op = [o \in Ops |-> NoLease]
  /\ exit = [c \in Coordinators |-> "open"]

-----------------------------------------------------------------------------
(* begin, cancel, invalidate                                               *)

Cancelled(c) == [o \in Ops |-> IF o = active[c] THEN [op[o] EXCEPT !.cancelled = TRUE] ELSE op[o]]

CancelledHealth(c) ==
  IF active[c] # NoOp /\ health[c].op = active[c]
  THEN [health[c] EXCEPT !.outcome = "cancelled"] ELSE health[c]

FreeOps == {o \in Ops : op[o].pc = "free"}
FreeOp == CHOOSE o \in FreeOps : TRUE            \* a fresh id

\* Bug: shutdown does not seal admission.
AdmitsAlways(c) == TRUE

Admits(c) == ~closed[c]
Shared(c, identity) == active[c] # NoOp /\ op[active[c]].identity = identity

\* A lease: the active one, if it is about something else, is cancelled. It starts
\* in the wait for the probe slot.
Lease(c, identity) ==
  /\ Admits(c) /\ ~Shared(c, identity) /\ FreeOps # {}
  /\ op' = [Cancelled(c) EXCEPT ![FreeOp] =
              [at |-> c, identity |-> identity, cancelled |-> FALSE, pc |-> "wait",
               result |-> "none", ports |-> Attempts]]
  /\ active' = [active EXCEPT ![c] = FreeOp]
  /\ health' = [health EXCEPT ![c] = [op |-> FreeOp, identity |-> identity,
                                      outcome |-> "checking"]]
  /\ UNCHANGED <<closed, permit, poisoned, core, exit>>

\* cancel: only the active lease has this id.
Cancel(c) ==
  /\ active[c] # NoOp
  /\ op' = Cancelled(c)
  /\ health' = [health EXCEPT ![c] = CancelledHealth(c)]
  /\ active' = [active EXCEPT ![c] = NoOp]
  /\ UNCHANGED <<closed, permit, poisoned, core, exit>>

Invalidate(c) ==
  /\ op' = Cancelled(c)
  /\ active' = [active EXCEPT ![c] = NoOp]
  /\ health' = [health EXCEPT ![c] = NoHealth]
  /\ UNCHANGED <<closed, permit, poisoned, core, exit>>

-----------------------------------------------------------------------------
(* execute                                                                 *)

Moves(o, l) == op' = [op EXCEPT ![o].pc = l]
Ends(o, result) == op' = [op EXCEPT ![o].pc = "cleanup", ![o].result = result]
Releases(c) == permit' = [permit EXCEPT ![c] = NoOp]

\* Bug: the answer of any lease is shown.
PublishAny(o, outcome) ==
  LET c == op[o].at IN
  /\ active' = [active EXCEPT ![c] = NoOp]
  /\ health' = [health EXCEPT ![c] = IF @.op = NoOp THEN @ ELSE [@ EXCEPT !.outcome = outcome]]

\* finish: the answer of a lease that is still the active one is shown.
Publish(o, outcome) ==
  LET c == op[o].at IN
  IF op[o].cancelled \/ active[c] # o
  THEN UNCHANGED <<active, health>>
  ELSE /\ active' = [active EXCEPT ![c] = NoOp]
       /\ health' = [health EXCEPT ![c] = IF @.op = NoOp THEN @ ELSE [@ EXCEPT !.outcome = outcome]]

\* Waiting counts against the deadline; cancellation is looked at first.
WaitEnds(o) ==
  /\ op[o].pc = "wait"
  /\ Moves(o, "done")
  /\ \/ op[o].cancelled /\ UNCHANGED <<active, health>>
     \/ ~op[o].cancelled /\ Publish(o, "failed")
  /\ UNCHANGED <<closed, permit, poisoned, core, exit>>

Acquire(o) ==
  /\ op[o].pc = "wait" /\ ~op[o].cancelled /\ permit[op[o].at] = NoOp
  /\ permit' = [permit EXCEPT ![op[o].at] = o]
  /\ Moves(o, "admit")
  /\ UNCHANGED <<closed, active, health, poisoned, core, exit>>

Admit(o) ==
  /\ op[o].pc = "admit"
  /\ \/ /\ op[o].cancelled
        /\ Moves(o, "done") /\ Releases(op[o].at)
        /\ UNCHANGED <<active, health>>
     \/ /\ ~op[o].cancelled /\ poisoned[op[o].at]
        /\ Moves(o, "done") /\ Releases(op[o].at)
        /\ Publish(o, "unavailable")
     \/ /\ ~op[o].cancelled /\ ~poisoned[op[o].at]
        /\ Moves(o, "work")
        /\ UNCHANGED <<active, health, permit>>
  /\ UNCHANGED <<closed, poisoned, core, exit>>

Working == {"work", "test", "ready", "probe", "verify", "refresh", "check", "alive"}

\* The work is dropped wherever it awaits, by cancellation or by the deadline.
Interrupted(o) ==
  /\ op[o].pc \in Working
  /\ Ends(o, IF op[o].cancelled THEN "none" ELSE "failed")
  /\ UNCHANGED <<closed, active, health, permit, poisoned, core, exit>>

\* Bug: a cleanup that failed lets the next owner in.
CleanupForgets(o) ==
  LET c == op[o].at IN
  /\ op[o].pc = "cleanup"
  /\ \/ Moves(o, "finish") /\ core' = [core EXCEPT ![c] = NoCore]
        /\ UNCHANGED <<active, health, permit>>
     \/ core[c].child /\ Moves(o, "done") /\ Releases(c) /\ Publish(o, "unavailable")
        /\ UNCHANGED core
  /\ UNCHANGED <<closed, poisoned, exit>>

\* The session's adapter has nothing to clean up. The desktop adapter stops the private
\* engine; when that is not proved in time, the coordinator never works again.
Cleanup(o) ==
  LET c == op[o].at IN
  /\ op[o].pc = "cleanup"
  /\ \/ /\ Moves(o, "finish")
        /\ core' = [core EXCEPT ![c] = NoCore]
        /\ UNCHANGED <<active, health, permit, poisoned>>
     \/ /\ core[c] # NoCore
        /\ poisoned' = [poisoned EXCEPT ![c] = TRUE]
        /\ Moves(o, "done") /\ Releases(c) /\ Publish(o, "unavailable")
        /\ core' \in {core, [core EXCEPT ![c].child = FALSE]}
  /\ UNCHANGED <<closed, exit>>

FinishProbe(o) ==
  /\ op[o].pc = "finish"
  /\ Moves(o, "done") /\ Releases(op[o].at)
  /\ IF op[o].result = "none" THEN UNCHANGED <<active, health>> ELSE Publish(o, op[o].result)
  /\ UNCHANGED <<closed, poisoned, core, exit>>

-----------------------------------------------------------------------------
(* DesktopProbe::run: the work of a selected probe                         *)

Unavailable(o) == Ends(o, "unavailable") /\ UNCHANGED core
HoldsCore(o) == core["selected"].by = o

\* Another command's engine is still there, or a directory, its file or the engine's
\* own check of the configuration cannot be started: no probe.
CreateCore(o) ==
  /\ op[o].pc = "work" /\ op[o].at = "selected"
  /\ \/ Unavailable(o)
     \/ /\ core["selected"] = NoCore
        /\ core' = [core EXCEPT !["selected"] = [by |-> o, child |-> FALSE]]
        /\ Ends(o, "unavailable")
     \/ /\ core["selected"] = NoCore
        /\ core' = [core EXCEPT !["selected"] = [by |-> o, child |-> TRUE]]
        /\ Moves(o, "test")
  /\ UNCHANGED <<closed, active, health, permit, poisoned, exit>>

\* The check exits and is reaped; the engine is spawned with the same configuration.
RunCore(o) ==
  /\ op[o].pc = "test" /\ HoldsCore(o)
  /\ \/ core' = [core EXCEPT !["selected"].child = FALSE] /\ Ends(o, "unavailable")
     \/ UNCHANGED core /\ Moves(o, "ready")
  /\ UNCHANGED <<closed, active, health, permit, poisoned, exit>>

\* Ready, not ready in time, or dead: then it is stopped here, and a port that was
\* taken meanwhile is tried again with a new engine.
AwaitReady(o) ==
  /\ op[o].pc = "ready" /\ HoldsCore(o)
  /\ \/ Moves(o, "probe") /\ UNCHANGED core
     \/ Unavailable(o)
     \/ /\ core' = [core EXCEPT !["selected"] = NoCore]
        /\ \/ Ends(o, "unavailable")
           \/ op[o].ports > 1 /\ op' = [op EXCEPT ![o].pc = "work", ![o].ports = @ - 1]
  /\ UNCHANGED <<closed, active, health, permit, poisoned, exit>>

\* The targets are asked through the engine; it must still be alive and the network the same.
ProbeTargets(o) ==
  /\ op[o].pc = "probe"
  /\ Moves(o, "verify")
  /\ UNCHANGED <<closed, active, health, permit, poisoned, core, exit>>

VerifyCore(o) ==
  /\ op[o].pc = "verify"
  /\ \E result \in {"healthy", "unavailable"} : Ends(o, result)
  /\ UNCHANGED <<closed, active, health, permit, poisoned, core, exit>>

-----------------------------------------------------------------------------
(* shutdown                                                                *)

\* The exit of the application polls every shutdown once: all are sealed before one waits.
Seal ==
  /\ exit = [c \in Coordinators |-> "open"]
  /\ exit' = [c \in Coordinators |-> "sealed"]
  /\ closed' = [c \in Coordinators |-> TRUE]
  /\ op' = [o \in Ops |-> IF \E c \in Coordinators : o = active[c]
                          THEN [op[o] EXCEPT !.cancelled = TRUE] ELSE op[o]]
  /\ health' = [c \in Coordinators |-> CancelledHealth(c)]
  /\ active' = [c \in Coordinators |-> NoOp]
  /\ UNCHANGED <<permit, poisoned, core>>

DrainSlot(c) ==
  /\ exit[c] = "sealed" /\ permit[c] = NoOp
  /\ exit' = [exit EXCEPT ![c] = "stopping"]
  /\ permit' = [permit EXCEPT ![c] = Exit]
  /\ UNCHANGED <<closed, active, health, poisoned, core, op>>

\* The engine a failed cleanup left behind is stopped once more; if that fails too it is
\* only logged.
StopLeftover(c) ==
  /\ exit[c] = "stopping"
  /\ exit' = [exit EXCEPT ![c] = "stopped"]
  /\ core' \in {core, [core EXCEPT ![c] = NoCore]}
  /\ Releases(c)
  /\ UNCHANGED <<closed, active, health, poisoned, op>>

ExecuteStep(o) ==
  \/ WaitEnds(o) \/ Acquire(o) \/ Admit(o) \/ Interrupted(o) \/ Cleanup(o) \/ FinishProbe(o)
  \/ CreateCore(o) \/ RunCore(o) \/ AwaitReady(o) \/ ProbeTargets(o) \/ VerifyCore(o)

ShutdownStep(c) == DrainSlot(c) \/ StopLeftover(c)

-----------------------------------------------------------------------------
(* Properties                                                              *)

\* The private engine belongs to the owner of the probe slot; one that nobody owns any
\* more is never joined by another, because its coordinator works no more ("Never
\* allow a second child to start if the former owner cannot prove cleanup").
CoreHasOwner ==
  \A c \in Coordinators :
    core[c] # NoCore => core[c].by = permit[c] \/ poisoned[c]

\* What is shown is the shown request's own: it is being checked as long as it says so,
\* and a result of an older lease never appears under the name of a newer one
\* (finish, cancel_active).
AnswerIsOwn ==
  \A c \in Coordinators :
    LET h == health[c] IN
    h.op # NoOp =>
      /\ h.outcome = "checking" => active[c] = h.op /\ op[h.op].pc # "done"
      /\ h.outcome = "healthy" => op[h.op].pc = "done" /\ op[h.op].result = "healthy"
      /\ h.outcome = "cancelled" => op[h.op].cancelled
=============================================================================
