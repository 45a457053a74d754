---------------------------- MODULE Probes_proofs ----------------------------
(***************************************************************************)
(* Proofs about Probes for every value of its constants: the private       *)
(* engine has an owner, an answer is shown for what it was measured on,    *)
(* and the exit leaves nothing behind.                                     *)
(***************************************************************************)
EXTENDS Probes, TLAPS

-----------------------------------------------------------------------------
(* Types.                                                                  *)

Labels == Working \cup {"free", "wait", "admit", "cleanup", "finish", "done"}
Answers0 == {"none", "failed", "unavailable", "healthy"}
Outcomes == {"none", "checking", "cancelled", "failed", "unavailable", "healthy"}
Replies == {"none", "refused", "checking", "cancelled", "failed", "unavailable", "healthy"}

LeaseType == [at : Coordinators, identity : Nat, cancelled : BOOLEAN, pc : Labels,
              result : Answers0, ports : Nat]
HealthType == [op : Ops \cup {NoOp}, identity : Nat, outcome : Outcomes]

CoordinatorsTyped ==
  /\ closed \in [Coordinators -> BOOLEAN]
  /\ active \in [Coordinators -> Ops \cup {NoOp}]
  /\ health \in [Coordinators -> HealthType]
  /\ permit \in [Coordinators -> Ops \cup {NoOp, Exit}]
  /\ poisoned \in [Coordinators -> BOOLEAN]
  /\ core \in [Coordinators -> [by : Ops \cup {NoOp}, child : BOOLEAN]]
  /\ op \in [Ops -> LeaseType]
  /\ exit \in [Coordinators -> {"open", "sealed", "stopping", "stopped", "drained"}]

SessionType == [identity : Nat, wiring : BOOLEAN, epoch : Nat,
                network : {"unseen", "known", "unknown"}]

CommandType == [pc : {"idle", "resolve", "discover", "execute"}, count : Nat, config : Nat,
                catalog : Nat, net : Nat, op : Ops \cup {NoOp}, answer : Replies]

SessionTyped ==
  /\ limits \in Limits
  /\ session \in SessionType
  /\ stamps \in Nat
  /\ engine \in BOOLEAN
  /\ monitor \in [pc : {"off", "loop", "discover"}, epoch : Nat]
  /\ net \in Nat
  /\ seen \in [Ops -> Nat]
  /\ catalog \in Nat
  /\ mutating \in BOOLEAN
  /\ command \in CommandType

TypeOK == CoordinatorsTyped /\ SessionTyped

-----------------------------------------------------------------------------
(* The inductive invariant.                                                *)

InSlot == Working \cup {"admit", "cleanup", "finish"}
Owning == Working \cup {"cleanup"}

\* The probe slot belongs to the lease whose step is inside it.
SlotHeld ==
  \A c \in Coordinators, o \in Ops :
    permit[c] = o <=> op[o].at = c /\ op[o].pc \in InSlot

\* A lease that is neither over nor cancelled is the active one of its coordinator.
ActiveLease ==
  /\ \A c \in Coordinators : active[c] # NoOp =>
       LET l == op[active[c]] IN l.at = c /\ ~l.cancelled /\ l.pc \notin {"free", "done"}
  /\ \A o \in Ops : op[o].pc \notin {"free", "done"} /\ ~op[o].cancelled =>
       active[op[o].at] = o
  /\ \A o \in Ops : op[o].pc \in {"cleanup", "finish"} /\ op[o].result = "none" =>
       op[o].cancelled

\* What a coordinator shows is its active lease, being checked, or a lease that is over.
ShownLease ==
  \A c \in Coordinators :
    /\ active[c] # NoOp => health[c].op = active[c] /\ health[c].outcome = "checking"
    /\ health[c].op # NoOp => op[health[c].op].pc # "free"

\* A private engine is its owner's from its creation to its cleanup, or its
\* coordinator does not work any more.
CoreOwned ==
  \A c \in Coordinators :
    core[c] # NoCore /\ ~poisoned[c] =>
      /\ core[c].by \in Ops
      /\ op[core[c].by].at = c /\ op[core[c].by].pc \in Owning

\* The steps that use a private engine are those of a selected profile's probe.
DesktopSteps == {"test", "ready", "probe", "verify"}
DesktopOnly == \A o \in Ops : op[o].pc \in DesktopSteps => op[o].at = "selected"

\* After the seal nothing is admitted, after the drain nothing works.
Sealed ==
  /\ \A c \in Coordinators : exit[c] # "open" <=> closed[c]
  /\ \A c \in Coordinators : closed[c] => active[c] = NoOp
  /\ \A c \in Coordinators : permit[c] = Exit <=> exit[c] = "stopping"
  /\ \A c \in Coordinators, o \in Ops :
       exit[c] \in {"stopping", "stopped", "drained"} /\ op[o].at = c =>
         op[o].pc \in {"free", "wait", "done"}

\* A command has no answer while it works, and names its own lease and the epoch
\* of the configuration it took; it is over before the admission is drained.
CommandHolds ==
  /\ command.pc # "idle" => command.answer = "none"
  /\ command.pc = "execute" => command.op \in Ops
  /\ command.pc \in {"discover", "execute"} => command.config = command.catalog
  /\ exit["selected"] = "drained" => command.pc = "idle"

ProbeInv ==
  /\ CoordinatorsTyped /\ SlotHeld /\ ActiveLease /\ ShownLease /\ CoreOwned
  /\ DesktopOnly /\ Sealed /\ AnswerIsOwn
IInv == ProbeInv /\ SessionTyped /\ CommandHolds /\ HealthIsCurrent

-----------------------------------------------------------------------------
(* The steps of a coordinator.                                             *)

\* What a step shows was shown for the same identity before.
ShowsNoMore ==
  \A c \in Coordinators : health'[c].op # NoOp =>
    health[c].op = health'[c].op /\ health[c].identity = health'[c].identity

\* No lease is the absent one or the exit, and there are finitely many ports to try.
LEMMA Numerals == NoOp \notin Ops /\ Exit \notin Ops /\ Exit # NoOp /\ Attempts \in Nat
  BY ProbeAssumption DEF NoOp, Ops, Exit

\* A lease that moves is a lease.
LEMMA LeaseMoves ==
  ASSUME NEW x \in LeaseType, NEW l \in Labels, NEW r \in Answers0, NEW n \in Nat
  PROVE  [x EXCEPT !.pc = l, !.result = r, !.ports = n] \in LeaseType
  BY DEF LeaseType

Put(o, l, r, n) == [op EXCEPT ![o] = [op[o] EXCEPT !.pc = l, !.result = r, !.ports = n]]

\* A step of the owner that stays in the slot, whatever it does to the engine it owns.
LEMMA OwnerMoves ==
  ASSUME ProbeInv, NEW o \in Ops, op[o].pc \in Owning, NEW l \in Owning, NEW r \in Answers0,
         NEW n \in Nat,
         l = "cleanup" /\ r = "none" => op[o].cancelled,
         l \in DesktopSteps => op[o].at = "selected",
         op' = Put(o, l, r, n),
         UNCHANGED <<closed, active, health, permit, poisoned, exit>>,
         core' \in [Coordinators -> [by : Ops \cup {NoOp}, child : BOOLEAN]],
         \A c \in Coordinators : core'[c] \in {core[c], NoCore} \/ (c = op[o].at /\ core'[c].by = o)
  PROVE  ProbeInv' /\ ShowsNoMore
<1> USE Numerals DEF ProbeInv, CoordinatorsTyped, Put
<1>1. CoordinatorsTyped'
  <2>1. l \in Labels
    BY DEF Labels, Owning, Working
  <2>2. op' \in [Ops -> LeaseType]
    <3>1. [op[o] EXCEPT !.pc = l, !.result = r, !.ports = n] \in LeaseType
      BY <2>1, LeaseMoves DEF CoordinatorsTyped
    <3> QED
      BY <3>1 DEF CoordinatorsTyped
  <2> QED
    BY <2>2 DEF CoordinatorsTyped
<1>2. SlotHeld'
  BY DEF SlotHeld, InSlot, Owning, Working, LeaseType, HealthType
<1>3. ActiveLease'
  BY DEF ActiveLease, Owning, Working, LeaseType, HealthType
<1>4. ShownLease'
  BY DEF ShownLease, Owning, Working, LeaseType, HealthType
<1>5. CoreOwned'
  BY DEF CoreOwned, LeaseType, HealthType
<1>6. Sealed'
  BY DEF Sealed, Owning, Working, LeaseType, HealthType
<1>7. AnswerIsOwn'
  BY DEF AnswerIsOwn, Owning, Working, LeaseType, HealthType
<1>8. ShowsNoMore
  BY DEF ShowsNoMore
<1>9. DesktopOnly'
  <2>1. op[o] \in LeaseType /\ op \in [Ops -> LeaseType]
    OBVIOUS
  <2>2. op'[o].pc = l /\ op'[o].at = op[o].at /\ \A p \in Ops : p # o => op'[p] = op[p]
    BY <2>1 DEF LeaseType
  <2> QED
    BY <2>2 DEF DesktopOnly
<1> QED
  BY <1>1, <1>2, <1>3, <1>4, <1>5, <1>6, <1>7, <1>8, <1>9

\* A lease that is over gives its place up: it leaves the slot if it was inside, is
\* not active any more, and an engine it leaves behind bars its coordinator.
LEMMA OwnerLeaves ==
  ASSUME ProbeInv, NEW o \in Ops, op[o].pc \in {"wait", "admit", "cleanup", "finish"},
         NEW r \in {"failed", "unavailable", "healthy"},
         r = "healthy" => op[o].result = "healthy",
         Moves(o, "done"),
         op[o].pc = "wait" => UNCHANGED permit,
         op[o].pc # "wait" => Releases(op[o].at),
         \/ op[o].cancelled /\ UNCHANGED <<active, health>>
         \/ Publish(o, r),
         UNCHANGED <<closed, exit>>,
         poisoned' \in [Coordinators -> BOOLEAN],
         core' \in [Coordinators -> [by : Ops \cup {NoOp}, child : BOOLEAN]],
         \A c \in Coordinators : core'[c] # NoCore /\ ~poisoned'[c] =>
           core'[c] = core[c] /\ ~poisoned[c] /\ core[c].by # o
  PROVE  ProbeInv' /\ ShowsNoMore
<1> USE Numerals DEF ProbeInv, CoordinatorsTyped, Moves, Releases
<1> DEFINE c == op[o].at
<1>0. /\ op[o] \in LeaseType /\ c \in Coordinators /\ health[c] \in HealthType
      /\ \A p \in Ops : op[p].at \in Coordinators
      /\ \A d \in Coordinators : health[d].op \in Ops \cup {NoOp}
  BY DEF LeaseType, HealthType
<1> DEFINE out == ~op[o].cancelled
<1>1. /\ active' = [active EXCEPT ![c] = IF out THEN NoOp ELSE @]
      /\ health' = [health EXCEPT ![c] = IF out THEN [@ EXCEPT !.outcome = r] ELSE @]
      /\ active'[c] # o
      /\ out => active[c] = o /\ health[c].op = o
  <2>1. CASE op[o].cancelled
    BY <1>0, <2>1 DEF Publish, ActiveLease
  <2>2. CASE ~op[o].cancelled
    <3>1. active[c] = o /\ health[c].op = o
      BY <1>0, <2>2 DEF ActiveLease, ShownLease
    <3> QED
      BY <1>0, <2>2, <3>1 DEF Publish
  <2> QED
    BY <2>1, <2>2
<1>2. /\ \A p \in Ops : p # o => op'[p] = op[p]
      /\ op'[o].pc = "done" /\ op'[o].at = c /\ op'[o].identity = op[o].identity
      /\ op'[o].cancelled = op[o].cancelled /\ op'[o].result = op[o].result
  BY <1>0 DEF LeaseType
<1>3. \A d \in Coordinators :
        /\ active'[d] # o
        /\ active'[d] # NoOp => active'[d] = active[d] /\ health'[d] = health[d]
        /\ active'[d] # active[d] => /\ active[d] = o /\ active'[d] = NoOp
                                       /\ health'[d].outcome = r
        /\ health'[d].op = health[d].op /\ health'[d].identity = health[d].identity
        /\ health'[d].outcome = health[d].outcome \/ (health'[d].outcome = r /\ health[d].op = o)
  <2>1. \A d \in Coordinators : active[d] = o => d = c
    BY <1>0 DEF ActiveLease
  <2> QED
    BY <1>0, <1>1, <2>1 DEF HealthType
<1>4. CoordinatorsTyped'
  <2>1. "done" \in Labels
    BY DEF Labels
  <2>2. op' \in [Ops -> LeaseType]
    BY <1>0, <2>1 DEF LeaseType
  <2>3. r \in Outcomes
    BY DEF Outcomes
  <2>4. health' \in [Coordinators -> HealthType]
    BY <1>0, <1>1, <2>3 DEF HealthType
  <2> QED
    BY <1>0, <1>1, <2>2, <2>4
<1> HIDE DEF out, Moves, Releases
<1>5. SlotHeld'
  BY <1>0 DEF SlotHeld, InSlot, Working, LeaseType, Moves, Releases
<1>6. ActiveLease'
  <2>1. ASSUME NEW d \in Coordinators, active'[d] # NoOp
        PROVE  LET l == op'[active'[d]] IN l.at = d /\ ~l.cancelled /\ l.pc \notin {"free", "done"}
    BY <1>0, <1>2, <1>3, <2>1 DEF ActiveLease
  <2>2. ASSUME NEW p \in Ops, op'[p].pc \notin {"free", "done"}, ~op'[p].cancelled
        PROVE  active'[op'[p].at] = p
    BY <1>0, <1>2, <1>3, <2>2 DEF ActiveLease
  <2>3. ASSUME NEW p \in Ops, op'[p].pc \in {"cleanup", "finish"}, op'[p].result = "none"
        PROVE  op'[p].cancelled
    BY <1>0, <1>2, <1>3, <2>3 DEF ActiveLease
  <2> QED
    BY <2>1, <2>2, <2>3 DEF ActiveLease
<1>7. ShownLease'
  BY <1>0, <1>2, <1>3 DEF ShownLease
<1>8. CoreOwned'
  BY <1>0, <1>2 DEF CoreOwned, Owning, Working
<1>9. Sealed'
  <2>1. \A d \in Coordinators : permit'[d] = permit[d] \/ (permit[d] = o /\ permit'[d] = NoOp)
    BY <1>0 DEF SlotHeld, InSlot, Releases
  <2> QED
    BY <1>0, <1>2, <1>3, <2>1 DEF Sealed
<1>10. AnswerIsOwn'
  <2> SUFFICES ASSUME NEW d \in Coordinators, health'[d].op # NoOp
               PROVE  LET h == health'[d] IN
                      /\ h.outcome = "checking" => active'[d] = h.op /\ op'[h.op].pc # "done"
                      /\ h.outcome = "healthy" => op'[h.op].pc = "done" /\ op'[h.op].result = "healthy"
                      /\ h.outcome = "cancelled" => op'[h.op].cancelled
    BY DEF AnswerIsOwn
  <2>1. ASSUME health'[d].outcome = "checking"
        PROVE  active'[d] = health'[d].op /\ op'[health'[d].op].pc # "done"
    BY <1>0, <1>2, <1>3, <2>1 DEF AnswerIsOwn
  <2>2. ASSUME health'[d].outcome = "healthy"
        PROVE  op'[health'[d].op].pc = "done" /\ op'[health'[d].op].result = "healthy"
    BY SMTT(60), <1>0, <1>2, <1>3, <2>2 DEF AnswerIsOwn
  <2>3. ASSUME health'[d].outcome = "cancelled"
        PROVE  op'[health'[d].op].cancelled
    BY SMTT(60), <1>0, <1>2, <1>3, <2>3 DEF AnswerIsOwn
  <2> QED
    BY <2>1, <2>2, <2>3
<1>11. ShowsNoMore
  BY <1>0, <1>3 DEF ShowsNoMore
<1>12. DesktopOnly'
  BY <1>0, <1>2 DEF DesktopOnly, DesktopSteps
<1> QED
  BY <1>4, <1>5, <1>6, <1>7, <1>8, <1>9, <1>10, <1>11, <1>12

\* A lease that only moves on inside the slot, or into it, and leaves the engine alone
\* unless it ends its cleanup.
LEMMA LeaseEnters ==
  ASSUME ProbeInv, NEW o \in Ops, Acquire(o)
  PROVE  ProbeInv' /\ ShowsNoMore
<1> USE Numerals DEF ProbeInv, CoordinatorsTyped, Acquire, Moves
<1>0. /\ op[o] \in LeaseType /\ \A p \in Ops : op[p].at \in Coordinators
      /\ "admit" \in Labels
  BY DEF LeaseType, Labels
<1>1. CoordinatorsTyped'
  <2>1. op' \in [Ops -> LeaseType]
    BY <1>0 DEF LeaseType
  <2> QED
    BY <1>0, <2>1
<1>2. SlotHeld'
  BY <1>0 DEF SlotHeld, InSlot, Working, LeaseType
<1>3. ActiveLease'
  BY <1>0 DEF ActiveLease, LeaseType
<1>4. ShownLease'
  BY <1>0 DEF ShownLease, LeaseType, HealthType
<1>5. CoreOwned'
  BY <1>0 DEF CoreOwned, Owning, Working, LeaseType
<1>6. Sealed'
  <2>1. exit[op[o].at] = "open"
    BY <1>0 DEF Sealed, ActiveLease
  <2> QED
    BY <1>0, <2>1 DEF Sealed, LeaseType
<1>7. AnswerIsOwn'
  BY <1>0 DEF AnswerIsOwn, LeaseType, HealthType
<1>8. ShowsNoMore
  BY DEF ShowsNoMore
<1>9. DesktopOnly'
  BY <1>0 DEF DesktopOnly, DesktopSteps, LeaseType
<1> QED
  BY <1>1, <1>2, <1>3, <1>4, <1>5, <1>6, <1>7, <1>8, <1>9

\* execute moves on from admission to its work, and from the cleanup to the answer.
LEMMA LeaseGoesOn ==
  ASSUME ProbeInv, NEW o \in Ops, NEW l \in {"work", "finish"},
         op[o].pc = IF l = "work" THEN "admit" ELSE "cleanup",
         Moves(o, l),
         core' = IF l = "work" THEN core ELSE [core EXCEPT ![op[o].at] = NoCore],
         UNCHANGED <<closed, active, health, permit, poisoned, exit>>
  PROVE  ProbeInv' /\ ShowsNoMore
<1> USE Numerals DEF ProbeInv, CoordinatorsTyped, Moves
<1>0. /\ op[o] \in LeaseType /\ \A p \in Ops : op[p].at \in Coordinators
      /\ l \in Labels
      /\ core' \in [Coordinators -> [by : Ops \cup {NoOp}, child : BOOLEAN]]
  BY DEF LeaseType, Labels, Working, NoCore
<1>1. CoordinatorsTyped'
  <2>1. op' \in [Ops -> LeaseType]
    BY <1>0 DEF LeaseType
  <2> QED
    BY <1>0, <2>1
<1>2. SlotHeld'
  BY <1>0 DEF SlotHeld, InSlot, Working, LeaseType
<1>3. ActiveLease'
  BY <1>0 DEF ActiveLease, LeaseType
<1>4. ShownLease'
  BY <1>0 DEF ShownLease, LeaseType, HealthType
<1>5. CoreOwned'
  <2>1. CASE l = "work"
    BY <1>0, <2>1 DEF CoreOwned, Owning, Working, LeaseType
  <2>2. CASE l = "finish"
    <3>1. core'[op[o].at] = NoCore
      BY <1>0, <2>2
    <3> QED
      BY <1>0, <2>2, <3>1 DEF CoreOwned, Owning, Working, LeaseType
  <2> QED
    BY <2>1, <2>2
<1>6. Sealed'
  <2>1. op'[o].at = op[o].at /\ op[o].pc \notin {"free", "wait", "done"}
    BY <1>0 DEF LeaseType
  <2> QED
    BY <1>0, <2>1 DEF Sealed
<1>7. AnswerIsOwn'
  BY <1>0 DEF AnswerIsOwn, LeaseType, HealthType
<1>8. ShowsNoMore
  BY DEF ShowsNoMore
<1>9. DesktopOnly'
  BY <1>0 DEF DesktopOnly, DesktopSteps, LeaseType
<1> QED
  BY <1>1, <1>2, <1>3, <1>4, <1>5, <1>6, <1>7, <1>8, <1>9

\* The active leases of some coordinators are cancelled, and no longer shown as being
\* checked.
LEMMA LeasesCancelled ==
  ASSUME ProbeInv, NEW C \in SUBSET Coordinators,
         op' = [o \in Ops |-> IF \E c \in C : o = active[c]
                              THEN [op[o] EXCEPT !.cancelled = TRUE] ELSE op[o]],
         active' = [c \in Coordinators |-> IF c \in C THEN NoOp ELSE active[c]],
         health' \in [Coordinators -> HealthType],
         \A c \in Coordinators :
           \/ health'[c] = health[c] /\ c \notin C
           \/ c \in C /\ health'[c] \in {CancelledHealth(c), NoHealth},
         UNCHANGED <<permit, poisoned, core>>,
         \/ UNCHANGED <<closed, exit>>
         \/ /\ C = Coordinators /\ exit = [c \in Coordinators |-> "open"]
            /\ closed' = [c \in Coordinators |-> TRUE]
            /\ exit' = [c \in Coordinators |-> "sealed"]
  PROVE  ProbeInv' /\ ShowsNoMore
<1> USE Numerals DEF ProbeInv
<1>0. /\ \A p \in Ops : op[p] \in LeaseType /\ op[p].at \in Coordinators
      /\ \A d \in Coordinators : /\ health[d] \in HealthType /\ health[d].op \in Ops \cup {NoOp}
                                 /\ active[d] \in Ops \cup {NoOp}
  BY DEF CoordinatorsTyped, LeaseType, HealthType
<1>1. \A p \in Ops :
        /\ op'[p].at = op[p].at /\ op'[p].pc = op[p].pc /\ op'[p].result = op[p].result
        /\ op'[p].cancelled <=> op[p].cancelled \/ \E c \in C : p = active[c]
        /\ op'[p] \in LeaseType
  BY <1>0 DEF LeaseType
<1>2. \A d \in Coordinators : active'[d] = IF d \in C THEN NoOp ELSE active[d]
  OBVIOUS
<1>3. \A d \in Coordinators : health'[d].op # NoOp =>
        /\ health'[d].op = health[d].op /\ health'[d].identity = health[d].identity
        /\ \/ health'[d].outcome = health[d].outcome /\ (d \in C => active[d] # health[d].op)
           \/ d \in C /\ health'[d].outcome = "cancelled" /\ active[d] = health[d].op
        /\ d \notin C => health'[d].outcome = health[d].outcome
  <2>1. ASSUME NEW d \in Coordinators, health'[d] = NoHealth
        PROVE  health'[d].op = NoOp
    BY <2>1 DEF NoHealth
  <2>2. ASSUME NEW d \in Coordinators, d \in C, health'[d] = CancelledHealth(d), active[d] # NoOp
        PROVE  /\ health'[d].op = health[d].op /\ health'[d].identity = health[d].identity
               /\ health'[d].outcome = "cancelled" /\ active[d] = health[d].op
    BY <1>0, <2>2 DEF CancelledHealth, ShownLease, HealthType
  <2>3. ASSUME NEW d \in Coordinators, d \in C, health'[d] = CancelledHealth(d), active[d] = NoOp
        PROVE  health'[d] = health[d]
    BY <2>3 DEF CancelledHealth
  <2> QED
    BY <2>1, <2>2, <2>3
<1>4. CoordinatorsTyped'
  <2>1. op' \in [Ops -> LeaseType]
    BY <1>1
  <2> QED
    BY <2>1 DEF CoordinatorsTyped
<1>5. SlotHeld'
  BY <1>1 DEF SlotHeld
<1>6. ActiveLease'
  <2>1. ASSUME NEW d \in Coordinators, active'[d] # NoOp
        PROVE  LET l == op'[active'[d]] IN l.at = d /\ ~l.cancelled /\ l.pc \notin {"free", "done"}
    BY <1>0, <1>1, <1>2, <2>1 DEF ActiveLease
  <2>2. ASSUME NEW p \in Ops, op'[p].pc \notin {"free", "done"}, ~op'[p].cancelled
        PROVE  active'[op'[p].at] = p
    BY <1>0, <1>1, <1>2, <2>2 DEF ActiveLease
  <2>3. ASSUME NEW p \in Ops, op'[p].pc \in {"cleanup", "finish"}, op'[p].result = "none"
        PROVE  op'[p].cancelled
    BY <1>0, <1>1, <2>3 DEF ActiveLease
  <2> QED
    BY <2>1, <2>2, <2>3 DEF ActiveLease
<1>7. ShownLease'
  BY <1>0, <1>1, <1>2, <1>3 DEF ShownLease
<1>8. CoreOwned'
  BY <1>1 DEF CoreOwned
<1>9. Sealed'
  BY <1>0, <1>1, <1>2 DEF Sealed, CoordinatorsTyped
<1>10. AnswerIsOwn'
  <2> SUFFICES ASSUME NEW d \in Coordinators, health'[d].op # NoOp
               PROVE  LET h == health'[d] IN
                      /\ h.outcome = "checking" => active'[d] = h.op /\ op'[h.op].pc # "done"
                      /\ h.outcome = "healthy" => op'[h.op].pc = "done" /\ op'[h.op].result = "healthy"
                      /\ h.outcome = "cancelled" => op'[h.op].cancelled
    BY DEF AnswerIsOwn
  <2>1. ASSUME health'[d].outcome = "checking"
        PROVE  active'[d] = health'[d].op /\ op'[health'[d].op].pc # "done"
    BY <1>0, <1>1, <1>2, <1>3, <2>1 DEF AnswerIsOwn
  <2>2. ASSUME health'[d].outcome = "healthy"
        PROVE  op'[health'[d].op].pc = "done" /\ op'[health'[d].op].result = "healthy"
    BY <1>0, <1>1, <1>3, <2>2 DEF AnswerIsOwn
  <2>3. ASSUME health'[d].outcome = "cancelled"
        PROVE  op'[health'[d].op].cancelled
    BY <1>0, <1>1, <1>3, <2>3 DEF AnswerIsOwn
  <2> QED
    BY <2>1, <2>2, <2>3
<1>11. ShowsNoMore
  BY <1>3 DEF ShowsNoMore
<1>12. DesktopOnly'
  BY <1>1 DEF DesktopOnly
<1> QED
  BY <1>4, <1>5, <1>6, <1>7, <1>8, <1>9, <1>10, <1>11, <1>12

\* A new lease takes a free id, is the active one, and is what is shown.
LEMMA LeaseTaken ==
  ASSUME ProbeInv, NEW c \in Coordinators, NEW i \in Nat, Lease(c, i)
  PROVE  /\ ProbeInv'
         /\ FreeOp \in Ops
         /\ health' = [health EXCEPT ![c] = [op |-> FreeOp, identity |-> i, outcome |-> "checking"]]
         /\ UNCHANGED exit
<1> USE Numerals DEF ProbeInv
<1> DEFINE n == FreeOp
           new == [at |-> c, identity |-> i, cancelled |-> FALSE, pc |-> "wait",
                   result |-> "none", ports |-> Attempts]
<1>0. /\ \A p \in Ops : op[p] \in LeaseType /\ op[p].at \in Coordinators
      /\ \A d \in Coordinators : /\ health[d] \in HealthType /\ health[d].op \in Ops \cup {NoOp}
                                 /\ active[d] \in Ops \cup {NoOp}
      /\ new \in LeaseType
  BY DEF CoordinatorsTyped, LeaseType, HealthType, Labels, Answers0
<1>1. n \in Ops /\ op[n].pc = "free"
  BY DEF Lease, FreeOps, FreeOp
<1>2. /\ op' = [Cancelled(c) EXCEPT ![n] = new]
      /\ active' = [active EXCEPT ![c] = n]
      /\ health' = [health EXCEPT ![c] = [op |-> n, identity |-> i, outcome |-> "checking"]]
      /\ UNCHANGED <<closed, permit, poisoned, core, exit>> /\ ~closed[c]
  BY DEF Lease, Admits
<1> HIDE DEF n
<1>3. /\ op'[n] = new
      /\ \A p \in Ops : p # n =>
           /\ op'[p].at = op[p].at /\ op'[p].pc = op[p].pc /\ op'[p].result = op[p].result
           /\ op'[p].cancelled <=> op[p].cancelled \/ p = active[c]
           /\ op'[p] \in LeaseType
  BY <1>0, <1>1, <1>2 DEF Cancelled, LeaseType
<1>4. /\ active'[c] = n /\ \A d \in Coordinators : d # c => active'[d] = active[d]
      /\ health'[c] = [op |-> n, identity |-> i, outcome |-> "checking"]
      /\ \A d \in Coordinators : d # c => health'[d] = health[d]
  BY <1>2 DEF CoordinatorsTyped
<1>5. CoordinatorsTyped'
  <2>1. op' \in [Ops -> LeaseType]
    <3>1. op' = [p \in Ops |-> op'[p]]
      BY <1>1, <1>2 DEF Cancelled
    <3> QED
      BY <1>0, <1>3, <3>1
  <2>2. health' \in [Coordinators -> HealthType]
    BY <1>0, <1>1, <1>2 DEF CoordinatorsTyped, HealthType, Outcomes
  <2> QED
    BY <1>1, <1>2, <2>1, <2>2 DEF CoordinatorsTyped
<1> HIDE DEF new
<1>6. new.at = c /\ new.identity = i /\ ~new.cancelled /\ new.pc = "wait" /\ new.result = "none"
  BY DEF new
<1>7. SlotHeld'
  BY <1>0, <1>1, <1>2, <1>3, <1>6 DEF SlotHeld, InSlot, Working
<1>8. ActiveLease'
  <2>1. ASSUME NEW d \in Coordinators, active'[d] # NoOp
        PROVE  LET l == op'[active'[d]] IN l.at = d /\ ~l.cancelled /\ l.pc \notin {"free", "done"}
    BY <1>0, <1>1, <1>3, <1>4, <1>6, <2>1 DEF ActiveLease
  <2>2. ASSUME NEW p \in Ops, op'[p].pc \notin {"free", "done"}, ~op'[p].cancelled
        PROVE  active'[op'[p].at] = p
    BY <1>0, <1>1, <1>3, <1>4, <1>6, <2>2 DEF ActiveLease
  <2>3. ASSUME NEW p \in Ops, op'[p].pc \in {"cleanup", "finish"}, op'[p].result = "none"
        PROVE  op'[p].cancelled
    BY <1>0, <1>3, <1>6, <2>3 DEF ActiveLease
  <2> QED
    BY <2>1, <2>2, <2>3 DEF ActiveLease
<1>9. ShownLease'
  BY <1>0, <1>1, <1>3, <1>4, <1>6 DEF ShownLease
<1>10. CoreOwned'
  BY <1>0, <1>1, <1>2, <1>3, <1>6 DEF CoreOwned, Owning, Working
<1>11. Sealed'
  BY <1>0, <1>1, <1>2, <1>3, <1>4, <1>6 DEF Sealed
<1>12. AnswerIsOwn'
  <2> SUFFICES ASSUME NEW d \in Coordinators, health'[d].op # NoOp
               PROVE  LET h == health'[d] IN
                      /\ h.outcome = "checking" => active'[d] = h.op /\ op'[h.op].pc # "done"
                      /\ h.outcome = "healthy" => op'[h.op].pc = "done" /\ op'[h.op].result = "healthy"
                      /\ h.outcome = "cancelled" => op'[h.op].cancelled
    BY DEF AnswerIsOwn
  <2>1. CASE d = c
    BY <1>3, <1>4, <1>6, <2>1
  <2>2. CASE d # c
    <3>1. health[d].op \in Ops /\ health[d].op # n
      BY <1>0, <1>1, <1>4, <2>2 DEF ShownLease
    <3> QED
      BY <1>3, <1>4, <2>2, <3>1 DEF AnswerIsOwn
  <2> QED
    BY <2>1, <2>2
<1>13. DesktopOnly'
  BY <1>3, <1>6 DEF DesktopOnly, DesktopSteps
<1> QED
  BY <1>1, <1>2, <1>5, <1>7, <1>8, <1>9, <1>10, <1>11, <1>12, <1>13 DEF n

\* Cancellation in its three forms.
LEMMA CancelStep ==
  ASSUME ProbeInv, NEW c \in Coordinators, Cancel(c)
  PROVE  ProbeInv' /\ ShowsNoMore /\ UNCHANGED exit
<1> DEFINE C == {c}
<1>1. /\ op' = [o \in Ops |-> IF \E d \in C : o = active[d]
                              THEN [op[o] EXCEPT !.cancelled = TRUE] ELSE op[o]]
      /\ active' = [d \in Coordinators |-> IF d \in C THEN NoOp ELSE active[d]]
      /\ health'[c] = CancelledHealth(c)
      /\ \A d \in Coordinators : d \notin C => health'[d] = health[d]
      /\ UNCHANGED <<closed, permit, poisoned, core, exit>>
  BY DEF Cancel, Cancelled, ProbeInv, CoordinatorsTyped
<1>2. health' \in [Coordinators -> HealthType]
  <2>1. CancelledHealth(c) \in HealthType
    BY DEF ProbeInv, CoordinatorsTyped, CancelledHealth, HealthType, Outcomes
  <2> QED
    BY <2>1 DEF Cancel, ProbeInv, CoordinatorsTyped
<1> HIDE DEF C
<1>3. C \in SUBSET Coordinators /\ \A d \in C : d = c
  BY DEF C
<1> QED
  BY <1>1, <1>2, <1>3, LeasesCancelled

\* cancel_active with no successor: the coordinator shows nothing afterwards.
LEMMA InvalidateStep ==
  ASSUME ProbeInv, NEW c \in Coordinators, Invalidate(c)
  PROVE  ProbeInv' /\ ShowsNoMore /\ UNCHANGED exit /\ health'[c].op = NoOp
<1> DEFINE C == {c}
<1>1. /\ op' = [o \in Ops |-> IF \E d \in C : o = active[d]
                              THEN [op[o] EXCEPT !.cancelled = TRUE] ELSE op[o]]
      /\ active' = [d \in Coordinators |-> IF d \in C THEN NoOp ELSE active[d]]
      /\ health'[c] = NoHealth
      /\ \A d \in Coordinators : d \notin C => health'[d] = health[d]
      /\ UNCHANGED <<closed, permit, poisoned, core, exit>>
  BY DEF Invalidate, Cancelled, ProbeInv, CoordinatorsTyped
<1>2. health' \in [Coordinators -> HealthType]
  <2>1. NoHealth \in HealthType
    BY DEF NoHealth, HealthType, Outcomes
  <2> QED
    BY <2>1 DEF Invalidate, ProbeInv, CoordinatorsTyped
<1> HIDE DEF C
<1>3. C \in SUBSET Coordinators /\ \A d \in C : d = c
  BY DEF C
<1>4. health'[c].op = NoOp
  BY <1>1 DEF NoHealth
<1> QED
  BY <1>1, <1>2, <1>3, <1>4, LeasesCancelled

\* The exit begins with the coordinator of the selected checks (shutdown).
LEMMA SealStep ==
  ASSUME ProbeInv, Seal
  PROVE  ProbeInv' /\ ShowsNoMore /\ exit'["selected"] = "sealed"
<1>1. health' \in [Coordinators -> HealthType]
  <2>1. \A c \in Coordinators : CancelledHealth(c) \in HealthType
    BY DEF ProbeInv, CoordinatorsTyped, CancelledHealth, HealthType, Outcomes
  <2> QED
    BY <2>1 DEF Seal
<1>2. ProbeInv' /\ ShowsNoMore
  BY <1>1, LeasesCancelled DEF Seal
<1> QED
  BY <1>2 DEF Seal, Coordinators

\* The steps of a probe.
LEMMA PutForm ==
  ASSUME CoordinatorsTyped, NEW o \in Ops, NEW l, NEW r
  PROVE  /\ Moves(o, l) => op' = Put(o, l, op[o].result, op[o].ports)
         /\ Ends(o, r) => op' = Put(o, "cleanup", r, op[o].ports)
<1>1. op[o] \in LeaseType /\ op \in [Ops -> LeaseType]
  BY DEF CoordinatorsTyped
<1>2. /\ [op[o] EXCEPT !.pc = "cleanup", !.result = r]
             = [op[o] EXCEPT !.pc = "cleanup", !.result = r, !.ports = op[o].ports]
      /\ [op[o] EXCEPT !.pc = l]
             = [op[o] EXCEPT !.pc = l, !.result = op[o].result, !.ports = op[o].ports]
  BY <1>1 DEF LeaseType
<1>3. ASSUME Moves(o, l) PROVE op' = [op EXCEPT ![o] = [op[o] EXCEPT !.pc = l]]
  BY <1>1, <1>3 DEF Moves
<1>4. ASSUME Ends(o, r) PROVE op' = [op EXCEPT ![o] = [op[o] EXCEPT !.pc = "cleanup", !.result = r]]
  BY <1>1, <1>4 DEF Ends
<1> QED
  BY <1>2, <1>3, <1>4 DEF Put

\* What a lease refers to.
LEMMA LeaseTyped ==
  ASSUME CoordinatorsTyped, NEW o \in Ops
  PROVE  op[o].result \in Answers0 /\ op[o].ports \in Nat /\ op[o].at \in Coordinators
<1>1. op[o] \in LeaseType
  BY DEF CoordinatorsTyped
<1> QED
  BY <1>1 DEF LeaseType

\* The owner moves on, or its work ends, while the engine stays as it is.
LEMMA OwnerStays ==
  ASSUME ProbeInv, NEW o \in Ops, op[o].pc \in Owning, NEW l \in Working, NEW r \in Answers0,
         r = "none" => op[o].cancelled,
         l \in DesktopSteps => op[o].at = "selected",
         Moves(o, l) \/ Ends(o, r),
         UNCHANGED <<closed, active, health, permit, poisoned, core, exit>>
  PROVE  ProbeInv' /\ ShowsNoMore
<1> DEFINE a == op[o].result  p == op[o].ports
<1>0. CoordinatorsTyped /\ l \in Owning /\ "cleanup" \in Owning \ DesktopSteps /\ l # "cleanup"
  BY DEF ProbeInv, Owning, Working, DesktopSteps
<1>1. a \in Answers0 /\ p \in Nat
  BY <1>0, LeaseTyped
<1>2. /\ core' \in [Coordinators -> [by : Ops \cup {NoOp}, child : BOOLEAN]]
      /\ \A c \in Coordinators : core'[c] \in {core[c], NoCore} \/ (c = op[o].at /\ core'[c].by = o)
  BY <1>0 DEF CoordinatorsTyped
<1>3. CASE Moves(o, l)
  <2>1. op' = Put(o, l, a, p)
    BY <1>0, <1>3, PutForm
  <2> QED
    BY <1>0, <1>1, <1>2, <2>1, OwnerMoves
<1>4. CASE Ends(o, r)
  <2>1. op' = Put(o, "cleanup", r, p)
    BY <1>0, <1>4, PutForm
  <2> QED
    BY <1>0, <1>1, <1>2, <2>1, OwnerMoves
<1> QED
  BY <1>3, <1>4

CoreType == [by : Ops \cup {NoOp}, child : BOOLEAN]

\* The owner moves on, or its work ends, with the engine created, changed or dropped.
LEMMA OwnerChangesCore ==
  ASSUME ProbeInv, NEW o \in Ops, op[o].pc \in Owning, op[o].at = "selected",
         NEW l \in Working, NEW k \in CoreType, k = NoCore \/ k.by = o,
         \/ Moves(o, l)
         \/ Ends(o, "unavailable")
         \/ \E n \in Nat : op' = [op EXCEPT ![o].pc = l, ![o].ports = n],
         core' = [core EXCEPT !["selected"] = k],
         UNCHANGED <<closed, active, health, permit, poisoned, exit>>
  PROVE  ProbeInv' /\ ShowsNoMore
<1> DEFINE a == op[o].result  p == op[o].ports
<1>0. CoordinatorsTyped /\ l \in Owning /\ "cleanup" \in Owning \ DesktopSteps /\ l # "cleanup"
  BY DEF ProbeInv, Owning, Working, DesktopSteps
<1>1. a \in Answers0 /\ p \in Nat /\ "unavailable" \in Answers0
  BY <1>0, LeaseTyped DEF Answers0
<1>2. /\ core' \in [Coordinators -> [by : Ops \cup {NoOp}, child : BOOLEAN]]
      /\ \A c \in Coordinators : core'[c] \in {core[c], NoCore} \/ (c = op[o].at /\ core'[c].by = o)
  <2>1. core \in [Coordinators -> CoreType]
    BY <1>0 DEF CoordinatorsTyped, CoreType
  <2>2. core' \in [Coordinators -> CoreType]
    BY <2>1
  <2>3. \A c \in Coordinators : core'[c] = IF c = "selected" THEN k ELSE core[c]
    BY <2>1
  <2> QED
    BY <2>2, <2>3 DEF CoreType
<1>3. CASE Moves(o, l)
  <2>1. op' = Put(o, l, a, p)
    BY <1>0, <1>3, PutForm
  <2> QED
    BY <1>0, <1>1, <1>2, <2>1, OwnerMoves
<1>4. CASE Ends(o, "unavailable")
  <2> DEFINE e == "cleanup"  r == "unavailable"
  <2>1. op' = Put(o, e, r, p) /\ e \in Owning /\ e \notin DesktopSteps /\ r \in Answers0 /\ r # "none"
    BY <1>0, <1>1, <1>4, PutForm
  <2> HIDE DEF e, r
  <2> QED
    BY <1>0, <1>1, <1>2, <2>1, OwnerMoves
<1>5. CASE \E n \in Nat : op' = [op EXCEPT ![o].pc = l, ![o].ports = n]
  <2>1. PICK n \in Nat : op' = [op EXCEPT ![o].pc = l, ![o].ports = n]
    BY <1>5
  <2>2. op' = Put(o, l, a, n)
    <3>1. op[o] \in LeaseType /\ op \in [Ops -> LeaseType]
      BY <1>0 DEF CoordinatorsTyped
    <3>2. op' = [op EXCEPT ![o] = [op[o] EXCEPT !.pc = l, !.ports = n]]
      BY <2>1, <3>1
    <3>3. [op[o] EXCEPT !.pc = l, !.ports = n] = [op[o] EXCEPT !.pc = l, !.result = a, !.ports = n]
      BY <3>1 DEF LeaseType
    <3> QED
      BY <3>2, <3>3 DEF Put
  <2> QED
    BY <1>0, <1>1, <1>2, <2>2, OwnerMoves
<1> QED
  BY <1>3, <1>4, <1>5

\* Every step of a probe keeps the invariant of the coordinators and shows nothing new.
LEMMA ExecuteSteps ==
  ASSUME ProbeInv, NEW o \in Ops, ExecuteStep(o)
  PROVE  ProbeInv' /\ ShowsNoMore /\ UNCHANGED exit
<1> DEFINE c == op[o].at
<1>0. /\ CoordinatorsTyped /\ op[o].result \in Answers0 /\ op[o].ports \in Nat
      /\ c \in Coordinators /\ core \in [Coordinators -> CoreType] /\ core[c] \in CoreType
      /\ core["selected"] \in CoreType
      /\ poisoned \in [Coordinators -> BOOLEAN]
  BY LeaseTyped DEF ProbeInv, CoordinatorsTyped, CoreType, Coordinators
<1>1. CASE WaitEnds(o)
  <2>1. \/ op[o].cancelled /\ UNCHANGED <<active, health>>
        \/ Publish(o, "failed")
    BY <1>1 DEF WaitEnds
  <2>2. \A d \in Coordinators : core'[d] # NoCore /\ ~poisoned'[d] =>
           core'[d] = core[d] /\ ~poisoned[d] /\ core[d].by # o
    BY <1>1 DEF WaitEnds, ProbeInv, CoreOwned, Owning, Working
  <2> QED
    BY <1>0, <1>1, <2>1, <2>2, OwnerLeaves DEF WaitEnds, CoreType
<1>2. CASE Acquire(o)
  BY <1>2, LeaseEnters DEF Acquire
<1>3. CASE Admit(o)
  <2>1. CASE ~op[o].cancelled /\ ~poisoned[c]
    BY <1>3, <2>1, LeaseGoesOn DEF Admit
  <2>2. CASE op[o].cancelled \/ poisoned[c]
    <3>1. \/ op[o].cancelled /\ UNCHANGED <<active, health>>
          \/ Publish(o, "unavailable")
      BY <1>3, <2>2 DEF Admit
    <3>2. \A d \in Coordinators : core'[d] # NoCore /\ ~poisoned'[d] =>
             core'[d] = core[d] /\ ~poisoned[d] /\ core[d].by # o
      BY <1>3 DEF Admit, ProbeInv, CoreOwned, Owning, Working
    <3>3. Moves(o, "done") /\ Releases(c) /\ UNCHANGED <<closed, poisoned, core, exit>>
      BY <1>3, <2>2 DEF Admit
    <3> QED
      BY <1>0, <1>3, <3>1, <3>2, <3>3, OwnerLeaves DEF Admit, CoreType
  <2> QED
    BY <2>1, <2>2
<1>4. CASE Interrupted(o)
  <2>1. PICK r \in Answers0 : Ends(o, r) /\ (r = "none" => op[o].cancelled)
    BY <1>4 DEF Interrupted, Answers0
  <2>2. op[o].pc \in Owning /\ "work" \in Working \ DesktopSteps
    BY <1>4 DEF Interrupted, Owning, Working, DesktopSteps
  <2> QED
    BY <1>4, <2>1, <2>2, OwnerStays DEF Interrupted
<1>5. CASE Cleanup(o)
  <2>1. CASE Moves(o, "finish") /\ core' = [core EXCEPT ![c] = NoCore]
              /\ UNCHANGED <<active, health, permit, poisoned>>
    BY <1>5, <2>1, LeaseGoesOn DEF Cleanup
  <2>2. CASE /\ poisoned' = [poisoned EXCEPT ![c] = TRUE]
             /\ Moves(o, "done") /\ Releases(c) /\ Publish(o, "unavailable")
             /\ core' \in {core, [core EXCEPT ![c].child = FALSE]}
    <3>1. core' \in [Coordinators -> CoreType] /\ poisoned' \in [Coordinators -> BOOLEAN]
      BY <1>0, <2>2 DEF CoreType
    <3>2. \A d \in Coordinators : core'[d] # NoCore /\ ~poisoned'[d] =>
             core'[d] = core[d] /\ ~poisoned[d] /\ core[d].by # o
      BY <1>0, <2>2 DEF ProbeInv, CoreOwned, CoreType
    <3> QED
      BY <1>0, <1>5, <2>2, <3>1, <3>2, OwnerLeaves DEF Cleanup, CoreType
  <2> QED
    BY <1>5, <2>1, <2>2 DEF Cleanup
<1>6. CASE FinishProbe(o)
  <2>1. PICK r \in {"failed", "unavailable", "healthy"} :
          /\ r = "healthy" => op[o].result = "healthy"
          /\ \/ op[o].cancelled /\ UNCHANGED <<active, health>>
             \/ Publish(o, r)
    <3>1. CASE op[o].result = "none"
      BY <1>6, <3>1 DEF FinishProbe, ProbeInv, ActiveLease
    <3>2. CASE op[o].result # "none"
      BY <1>0, <1>6, <3>2 DEF FinishProbe, Answers0
    <3> QED
      BY <3>1, <3>2
  <2>2. \A d \in Coordinators : core'[d] # NoCore /\ ~poisoned'[d] =>
           core'[d] = core[d] /\ ~poisoned[d] /\ core[d].by # o
    BY <1>6 DEF FinishProbe, ProbeInv, CoreOwned, Owning, Working
  <2> QED
    BY <1>0, <1>6, <2>1, <2>2, OwnerLeaves DEF FinishProbe, CoreType
<1>7. CASE CreateCore(o)
  <2>0. /\ op[o].pc \in Owning /\ "test" \in Working /\ "unavailable" \in Answers0
        /\ [by |-> o, child |-> FALSE] \in CoreType /\ [by |-> o, child |-> TRUE] \in CoreType
    BY <1>7 DEF CreateCore, Owning, Working, Answers0, CoreType
  <2>1. CASE Unavailable(o)
    BY <1>7, <2>0, <2>1, OwnerStays DEF CreateCore, Unavailable
  <2>2. CASE \E b \in BOOLEAN : core' = [core EXCEPT !["selected"] = [by |-> o, child |-> b]]
    BY <1>7, <2>0, <2>1, <2>2, OwnerChangesCore DEF CreateCore
  <2> QED
    BY <1>7, <2>1, <2>2 DEF CreateCore
<1>8. CASE RunCore(o) \/ AwaitReady(o)
  <2>0. /\ op[o].pc \in Owning /\ "ready" \in Working /\ "probe" \in Working /\ "work" \in Working
        /\ "unavailable" \in Answers0 /\ NoCore \in CoreType
        /\ [core["selected"] EXCEPT !.child = FALSE] \in CoreType
        /\ [core["selected"] EXCEPT !.child = FALSE].by = core["selected"].by
        /\ HoldsCore(o) /\ op[o].at = "selected"
    BY <1>0, <1>8 DEF RunCore, AwaitReady, Owning, Working, Answers0, CoreType, NoCore, ProbeInv,
                      DesktopOnly, DesktopSteps
  <2>1. CASE /\ UNCHANGED core
             /\ \/ Moves(o, "ready") \/ Moves(o, "probe") \/ Ends(o, "unavailable")
    BY <1>8, <2>0, <2>1, OwnerStays DEF RunCore, AwaitReady
  <2>2. CASE core' = [core EXCEPT !["selected"].child = FALSE] /\ Ends(o, "unavailable")
    <3>1. core' = [core EXCEPT !["selected"] = [core["selected"] EXCEPT !.child = FALSE]]
      BY <1>0, <2>2
    <3> QED
      BY <1>8, <2>0, <2>2, <3>1, OwnerChangesCore DEF RunCore, AwaitReady, HoldsCore
  <2>3. CASE core' = [core EXCEPT !["selected"] = NoCore] /\ Ends(o, "unavailable")
    BY <1>8, <2>0, <2>3, OwnerChangesCore DEF RunCore, AwaitReady
  <2>4. CASE /\ core' = [core EXCEPT !["selected"] = NoCore] /\ AwaitReady(o)
             /\ op' = [op EXCEPT ![o].pc = "work", ![o].ports = @ - 1] /\ op[o].ports > 1
    <3>1. op[o].ports - 1 \in Nat
      BY <1>0, <2>4
    <3>2. op' = [op EXCEPT ![o].pc = "work", ![o].ports = op[o].ports - 1]
      BY <1>0, <2>4 DEF CoordinatorsTyped, LeaseType
    <3> QED
      BY <2>0, <2>4, <3>1, <3>2, OwnerChangesCore DEF AwaitReady
  <2> QED
    BY <1>8, <2>1, <2>2, <2>3, <2>4 DEF RunCore, AwaitReady, Unavailable
<1>9. CASE ProbeTargets(o) \/ VerifyCore(o)
  <2>0. /\ op[o].pc \in Owning /\ op[o].at = "selected" /\ "verify" \in Working
        /\ {"unavailable", "healthy"} \subseteq Answers0
    BY <1>9 DEF ProbeTargets, VerifyCore, Owning, Working, Answers0, ProbeInv, DesktopOnly,
                DesktopSteps
  <2> QED
    BY <1>9, <2>0, OwnerStays DEF ProbeTargets, VerifyCore
<1>10. UNCHANGED exit
  BY DEF ExecuteStep, WaitEnds, Acquire, Admit, Interrupted, Cleanup, FinishProbe, CreateCore,
         RunCore, AwaitReady, ProbeTargets, VerifyCore
<1> QED
  BY <1>1, <1>2, <1>3, <1>4, <1>5, <1>6, <1>7, <1>8, <1>9, <1>10 DEF ExecuteStep

\* The shutdown keeps what is shown; only the shutdown of the commands drains.
LEMMA ShutdownSteps ==
  ASSUME ProbeInv, NEW c \in Coordinators, ShutdownStep(c)
  PROVE  /\ ProbeInv' /\ UNCHANGED health
         /\ exit'["selected"] = "drained" => exit["selected"] = "drained"
<1> USE Numerals DEF ProbeInv
<1>0. /\ CoordinatorsTyped
      /\ \A p \in Ops : op[p].at \in Coordinators
  BY DEF CoordinatorsTyped, LeaseType
<1>1. CASE DrainSlot(c)
  <2>1. CoordinatorsTyped'
    BY <1>0, <1>1 DEF CoordinatorsTyped, DrainSlot
  <2>2. SlotHeld'
    BY <1>0, <1>1 DEF SlotHeld, DrainSlot, CoordinatorsTyped
  <2>3. Sealed'
    <3>1. /\ exit' = [exit EXCEPT ![c] = "stopping"] /\ permit' = [permit EXCEPT ![c] = Exit]
          /\ exit[c] = "sealed" /\ permit[c] = NoOp /\ UNCHANGED <<closed, active, op>>
      BY <1>1 DEF DrainSlot
    <3>2. ASSUME NEW o \in Ops, op[o].at = c
          PROVE  op[o].pc \in {"free", "wait", "done"}
      <4>1. op[o].pc \in Labels \ InSlot
        BY <1>0, <3>1, <3>2 DEF SlotHeld, CoordinatorsTyped, LeaseType
      <4> QED
        BY <4>1 DEF Labels, InSlot
    <3> QED
      BY <1>0, <3>1, <3>2 DEF Sealed, CoordinatorsTyped
  <2> QED
    BY <1>1, <2>1, <2>2, <2>3
    DEF DrainSlot, ActiveLease, ShownLease, CoreOwned, DesktopOnly, AnswerIsOwn, CoordinatorsTyped
<1>2. CASE StopLeftover(c)
  <2>1. CoordinatorsTyped'
    <3>1. core' \in [Coordinators -> CoreType]
      <4>1. core \in [Coordinators -> CoreType] /\ NoCore \in CoreType
        BY <1>0 DEF CoordinatorsTyped, CoreType, NoCore
      <4> QED
        BY <1>2, <4>1 DEF StopLeftover
    <3>2. permit' \in [Coordinators -> Ops \cup {NoOp, Exit}]
      BY <1>0, <1>2 DEF CoordinatorsTyped, StopLeftover, Releases
    <3>3. exit' \in [Coordinators -> {"open", "sealed", "stopping", "stopped", "drained"}]
      BY <1>0, <1>2 DEF CoordinatorsTyped, StopLeftover
    <3> QED
      BY <1>0, <1>2, <3>1, <3>2, <3>3 DEF CoordinatorsTyped, StopLeftover, CoreType
  <2>2. SlotHeld'
    BY <1>0, <1>2 DEF SlotHeld, Sealed, StopLeftover, Releases, CoordinatorsTyped, InSlot, Working
  <2>3. Sealed'
    BY <1>0, <1>2 DEF Sealed, StopLeftover, Releases, CoordinatorsTyped
  <2>4. CoreOwned'
    <3>1. \A d \in Coordinators : core'[d] \in {core[d], NoCore}
      BY <1>0, <1>2 DEF StopLeftover, CoordinatorsTyped
    <3> QED
      BY <1>2, <3>1 DEF CoreOwned, StopLeftover
  <2> QED
    BY <1>0, <1>2, <2>1, <2>2, <2>3, <2>4
    DEF StopLeftover, ActiveLease, ShownLease, DesktopOnly, AnswerIsOwn, CoordinatorsTyped
<1> QED
  BY <1>0, <1>1, <1>2 DEF ShutdownStep, DrainSlot, StopLeftover, CoordinatorsTyped, Coordinators

-----------------------------------------------------------------------------
(* The steps of the session, the commands and the application.             *)

Kept == ProbeInv' /\ SessionTyped' /\ CommandHolds' /\ HealthIsCurrent'

\* What is shown for the session stays current while its identity stays.
LEMMA ShownStaysCurrent ==
  ASSUME IInv, ShowsNoMore, session'.identity = session.identity
  PROVE  HealthIsCurrent'
<1>1. "session" \in Coordinators
  BY DEF Coordinators
<1> QED
  BY <1>1 DEF IInv, ShowsNoMore, HealthIsCurrent, HasRun

\* What does not touch the command or the exit keeps what a command holds.
LEMMA CommandStays ==
  ASSUME IInv, UNCHANGED <<command, exit>>
  PROVE  CommandHolds'
  BY DEF IInv, CommandHolds

\* A new identity voids what was shown, whatever else changes in the record.
LEMMA Renewed ==
  ASSUME IInv, NEW s \in SessionType, Renew(s)
  PROVE  ProbeInv' /\ HealthIsCurrent' /\ UNCHANGED exit /\ session' \in SessionType /\ stamps' \in Nat
<1>1. "session" \in Coordinators /\ Invalidate("session")
  BY DEF Renew, Coordinators
<1>2. ProbeInv' /\ UNCHANGED exit /\ health'["session"].op = NoOp
  BY <1>1, InvalidateStep DEF IInv
<1>3. Fresh \in Nat
  BY DEF IInv, SessionTyped, Fresh
<1>4. session' \in SessionType /\ stamps' \in Nat
  BY <1>3 DEF Renew, SessionType
<1> QED
  BY <1>2, <1>4 DEF HealthIsCurrent

\* observe_network: a new network takes what was measured on the old one with it.
LEMMA EpochObserved ==
  ASSUME IInv, ObserveEpoch
  PROVE  ProbeInv' /\ HealthIsCurrent' /\ UNCHANGED exit /\ session' \in SessionType /\ stamps' \in Nat
<1>1. [session EXCEPT !.epoch = net, !.network = "unseen"] \in SessionType
  BY DEF IInv, SessionTyped, SessionType
<1> QED
  BY <1>1, Renewed DEF ObserveEpoch

\* The record of the session.
LEMMA RecordSteps ==
  ASSUME IInv, UNCHANGED limits,
         Accept \/ Retire \/ Target \/ Synchronize \/ MonitorEpoch \/ MonitorNetwork
  PROVE  Kept
<1>0. /\ ProbeInv /\ SessionTyped /\ "session" \in Coordinators
      /\ NoSession \in SessionType /\ Fresh \in Nat /\ session \in SessionType
  BY DEF IInv, SessionTyped, NoSession, SessionType, Fresh, Coordinators
<1>1. CASE Accept \/ Retire
  <2>1. Invalidate("session") /\ UNCHANGED <<net, catalog, mutating, command, seen>>
    BY <1>1 DEF Accept, Retire, catalogVars
  <2>2. ProbeInv' /\ UNCHANGED exit /\ HealthIsCurrent'
    BY <1>0, <2>1, InvalidateStep DEF HealthIsCurrent
  <2>3. /\ session' \in SessionType /\ stamps' \in Nat /\ engine' \in BOOLEAN
        /\ monitor' \in [pc : {"off", "loop", "discover"}, epoch : Nat]
    <3>1. CASE Accept
      <4>1. PICK wiring \in BOOLEAN :
              session' = [NoSession EXCEPT !.identity = Fresh, !.wiring = wiring]
        BY <3>1 DEF Accept
      <4>2. session' \in SessionType
        BY <1>0, <4>1 DEF SessionType
      <4> QED
        BY <1>0, <3>1, <4>2 DEF Accept
    <3>2. CASE Retire
      BY <1>0, <3>2 DEF Retire, SessionTyped
    <3> QED
      BY <1>1, <3>1, <3>2
  <2> QED
    BY <1>0, <2>1, <2>2, <2>3, CommandStays DEF Kept, SessionTyped
<1>2. CASE Target
  <2>1. PICK wiring \in BOOLEAN : Renew([session EXCEPT !.wiring = wiring])
    BY <1>2 DEF Target
  <2>2. [session EXCEPT !.wiring = wiring] \in SessionType
    BY <1>0 DEF SessionType
  <2>3. ProbeInv' /\ HealthIsCurrent' /\ UNCHANGED exit /\ session' \in SessionType /\ stamps' \in Nat
    BY <2>1, <2>2, Renewed
  <2> QED
    BY <1>0, <1>2, <2>3, CommandStays DEF Kept, SessionTyped, Target, catalogVars
<1>3. CASE Synchronize
  <2>1. ProbeInv' /\ HealthIsCurrent' /\ UNCHANGED exit /\ session' \in SessionType /\ stamps' \in Nat
    BY <1>3, EpochObserved DEF Synchronize
  <2> QED
    BY <1>0, <1>3, <2>1, CommandStays DEF Kept, SessionTyped, Synchronize, catalogVars
<1>4. ASSUME UNCHANGED <<session, stamps, probeVars>>
      PROVE  ProbeInv' /\ HealthIsCurrent' /\ UNCHANGED exit /\ session' \in SessionType /\ stamps' \in Nat
  <2>1. UNCHANGED <<closed, active, health, permit, poisoned, core, op, exit>>
    BY <1>4 DEF probeVars
  <2>2. ProbeInv'
    BY <1>0, <2>1 DEF ProbeInv, CoordinatorsTyped, SlotHeld, ActiveLease, ShownLease, CoreOwned,
                      DesktopOnly, Sealed, AnswerIsOwn
  <2>3. HealthIsCurrent'
    BY <1>4, <2>1 DEF IInv, HealthIsCurrent, HasRun
  <2> QED
    BY <1>0, <1>4, <2>1, <2>2, <2>3 DEF SessionTyped
<1>5. CASE MonitorEpoch
  <2>1. ProbeInv' /\ HealthIsCurrent' /\ UNCHANGED exit /\ session' \in SessionType /\ stamps' \in Nat
    BY <1>4, <1>5, EpochObserved DEF MonitorEpoch
  <2>2. monitor' \in [pc : {"off", "loop", "discover"}, epoch : Nat]
    BY <1>0, <1>5 DEF MonitorEpoch, SessionTyped
  <2> QED
    BY <1>0, <1>5, <2>1, <2>2, CommandStays DEF Kept, SessionTyped, MonitorEpoch, catalogVars
<1>6. CASE MonitorNetwork
  <2>1. ASSUME NEW found \in {"known", "unknown"}
        PROVE  [session EXCEPT !.network = found] \in SessionType
    BY <1>0 DEF SessionType
  <2>2. ProbeInv' /\ HealthIsCurrent' /\ UNCHANGED exit /\ session' \in SessionType /\ stamps' \in Nat
    <3>1. CASE UNCHANGED <<session, stamps, probeVars>>
      BY <1>4, <3>1
    <3>2. CASE \E found \in {"known", "unknown"} : Renew([session EXCEPT !.network = found])
      BY <2>1, <3>2, Renewed
    <3> QED
      BY <1>6, <3>1, <3>2 DEF MonitorNetwork
  <2>3. monitor' \in [pc : {"off", "loop", "discover"}, epoch : Nat]
    BY <1>0, <1>6 DEF MonitorNetwork, SessionTyped
  <2> QED
    BY <1>0, <1>6, <2>2, <2>3, CommandStays DEF Kept, SessionTyped, MonitorNetwork, catalogVars
<1> QED
  BY <1>1, <1>2, <1>3, <1>5, <1>6

\* The work of a probe of the session.
LEMMA ActiveSteps ==
  ASSUME IInv, UNCHANGED limits, NEW o \in Ops, ActiveWork(o)
  PROVE  Kept
<1> DEFINE Result == /\ ProbeInv' /\ HealthIsCurrent' /\ UNCHANGED exit
                     /\ session' \in SessionType /\ stamps' \in Nat
<1>0. /\ ProbeInv /\ SessionTyped /\ session \in SessionType /\ stamps \in Nat
      /\ {"unavailable", "healthy"} \subseteq Answers0 \ {"none"}
      /\ {"check", "refresh", "alive"} \subseteq Working \ DesktopSteps
  BY DEF IInv, SessionTyped, Answers0, Working, DesktopSteps
<1>1. op[o].pc \in Owning
  BY DEF ActiveWork, ActiveBegins, RefreshNetwork, CheckTargets, ActiveEnds, Owning, Working
<1>2. ASSUME NEW l \in {"check", "refresh", "alive"}, NEW r \in {"unavailable", "healthy"},
             Moves(o, l) \/ Ends(o, r),
             UNCHANGED <<closed, active, health, permit, poisoned, core, exit>>,
             session' \in SessionType, session'.identity = session.identity, UNCHANGED stamps
      PROVE  Result
  <2>1. l \in Working /\ l \notin DesktopSteps /\ r \in Answers0 /\ r # "none"
    BY <1>0
  <2>2. ProbeInv' /\ ShowsNoMore
    BY <1>0, <1>1, <1>2, <2>1, OwnerStays
  <2> QED
    BY <1>0, <1>2, <2>2, ShownStaysCurrent
<1>3. ASSUME ObserveEpoch PROVE Result
  BY <1>3, EpochObserved
<1>4. CASE ActiveBegins(o)
  <2>1. Result
    <3>1. CASE /\ UNCHANGED <<closed, active, health, permit, poisoned, core, exit, session, stamps>>
               /\ Ends(o, "unavailable") \/ Moves(o, "check") \/ Moves(o, "refresh")
      BY <1>0, <1>2, <3>1
    <3> QED
      BY <1>3, <1>4, <3>1 DEF ActiveBegins
  <2>2. seen' \in [Ops -> Nat]
    BY <1>0, <1>4 DEF ActiveBegins, SessionTyped, SessionType
  <2> QED
    BY <1>0, <1>4, <2>1, <2>2, CommandStays DEF Kept, SessionTyped, ActiveBegins, catalogVars
<1>5. CASE RefreshNetwork(o)
  <2>1. session' \in SessionType /\ session'.identity = session.identity
    BY <1>0, <1>5 DEF RefreshNetwork, SessionType
  <2>2. Result
    BY <1>0, <1>2, <1>5, <2>1 DEF RefreshNetwork
  <2> QED
    BY <1>0, <1>5, <2>2, CommandStays DEF Kept, SessionTyped, RefreshNetwork, catalogVars
<1>6. CASE CheckTargets(o)
  <2>1. Result
    BY <1>0, <1>2, <1>6 DEF CheckTargets, sessionVars
  <2> QED
    BY <1>0, <1>6, <2>1, CommandStays DEF Kept, SessionTyped, CheckTargets, catalogVars, sessionVars
<1>7. CASE ActiveEnds(o)
  <2>1. Result
    <3>1. CASE /\ UNCHANGED <<closed, active, health, permit, poisoned, core, exit, session, stamps>>
               /\ Ends(o, "unavailable") \/ Ends(o, "healthy")
      BY <1>0, <1>2, <3>1
    <3> QED
      BY <1>3, <1>7, <3>1 DEF ActiveEnds
  <2> QED
    BY <1>0, <1>7, <2>1, CommandStays DEF Kept, SessionTyped, ActiveEnds, catalogVars
<1> QED
  BY <1>4, <1>5, <1>6, <1>7 DEF ActiveWork

\* Without a step of a coordinator nothing of it changes.
LEMMA ProbeStays ==
  ASSUME IInv, UNCHANGED probeVars
  PROVE  ProbeInv' /\ ShowsNoMore /\ UNCHANGED exit
<1>1. UNCHANGED <<closed, active, health, permit, poisoned, core, op, exit>>
  BY DEF probeVars
<1> QED
  BY <1>1 DEF IInv, ProbeInv, CoordinatorsTyped, SlotHeld, ActiveLease, ShownLease, CoreOwned,
              DesktopOnly, Sealed, AnswerIsOwn, ShowsNoMore

\* A request of the session is about its present identity.
LEMMA RequestStep ==
  ASSUME IInv, UNCHANGED limits, RequestActive
  PROVE  Kept
<1>0. /\ ProbeInv /\ SessionTyped /\ "session" \in Coordinators /\ session.identity \in Nat
      /\ HasRun /\ Lease("session", session.identity)
      /\ UNCHANGED <<session, stamps, engine, monitor, seen, net, catalog, mutating, command>>
  BY DEF IInv, SessionTyped, SessionType, Coordinators, RequestActive, sessionVars, catalogVars
<1>1. /\ ProbeInv' /\ UNCHANGED exit
      /\ health' = [health EXCEPT !["session"] = [op |-> FreeOp, identity |-> session.identity,
                                                 outcome |-> "checking"]]
  BY <1>0, LeaseTaken
<1>2. HealthIsCurrent'
  <2>1. health'["session"].identity = session.identity
    BY <1>0, <1>1 DEF ProbeInv, CoordinatorsTyped
  <2> QED
    BY <1>0, <2>1 DEF HealthIsCurrent, HasRun
<1> QED
  BY <1>0, <1>1, <1>2, CommandStays DEF Kept, SessionTyped

\* The command that checks a selected profile.
LEMMA CommandSteps ==
  ASSUME IInv, UNCHANGED limits, CommandBegin \/ Resolve \/ Discover \/ CommandEnd
  PROVE  Kept
<1>0. /\ ProbeInv /\ SessionTyped /\ CommandHolds /\ HealthIsCurrent
      /\ {"session", "selected"} \subseteq Coordinators
      /\ UNCHANGED <<session, stamps, engine, monitor, seen, net, catalog, mutating>>
      /\ command \in CommandType /\ catalog \in Nat /\ net \in Nat
  BY DEF IInv, SessionTyped, Coordinators, CommandBegin, Resolve, Discover, CommandEnd, sessionVars,
         catalogVars
<1>1. ASSUME command' \in CommandType, CommandHolds', ProbeInv',
             ShowsNoMore \/ health'["session"] = health["session"]
      PROVE  Kept
  <2>1. HealthIsCurrent'
    BY <1>0, <1>1, ShownStaysCurrent DEF HealthIsCurrent, HasRun
  <2> QED
    BY <1>0, <1>1, <2>1 DEF Kept, SessionTyped
<1>2. ASSUME NEW answer \in Replies, Answers(answer), UNCHANGED exit
      PROVE  command' \in CommandType /\ CommandHolds'
  <2>1. command' \in CommandType /\ command'.pc = "idle"
    BY <1>0, <1>2 DEF Answers, CommandType
  <2> QED
    BY <2>1 DEF CommandHolds
<1>3. {"refused", "cancelled"} \subseteq Replies /\ Outcomes \subseteq Replies
  BY DEF Replies, Outcomes
<1>4. CASE CommandBegin
  <2>1. ProbeInv' /\ ShowsNoMore /\ UNCHANGED exit
    BY <1>4, ProbeStays DEF CommandBegin
  <2>2. command' \in CommandType
    <3>1. NoCommand \in CommandType /\ command.count + 1 \in Nat
      BY <1>0 DEF NoCommand, CommandType, Replies
    <3>2. CASE command' = [NoCommand EXCEPT !.pc = "resolve", !.count = command.count + 1]
      BY <3>1, <3>2 DEF CommandType
    <3>3. CASE command' = [NoCommand EXCEPT !.count = command.count + 1, !.answer = "cancelled"]
      BY <1>3, <3>1, <3>3 DEF CommandType
    <3> QED
      BY <1>4, <3>2, <3>3 DEF CommandBegin
  <2>3. CommandHolds'
    <3>1. CASE command'.pc = "idle"
      BY <3>1 DEF CommandHolds
    <3>2. CASE command'.pc # "idle"
      <4>1. ~closed["selected"] /\ command'.pc = "resolve" /\ command'.answer = "none"
        BY <1>4, <3>2 DEF CommandBegin, NoCommand
      <4>2. exit["selected"] = "open"
        BY <1>0, <4>1 DEF ProbeInv, Sealed
      <4> QED
        BY <2>1, <4>1, <4>2 DEF CommandHolds
    <3> QED
      BY <3>1, <3>2
  <2> QED
    BY <1>1, <2>1, <2>2, <2>3
<1>5. CASE Resolve
  <2>1. ProbeInv' /\ ShowsNoMore /\ UNCHANGED exit
    BY <1>5, ProbeStays DEF Resolve
  <2>2. command' \in CommandType /\ CommandHolds'
    <3>1. CASE Answers("refused")
      BY <1>2, <1>3, <2>1, <3>1
    <3>2. CASE command' = [command EXCEPT !.pc = "discover", !.config = catalog, !.catalog = catalog,
                                          !.net = net]
      <4>1. command' \in CommandType /\ command'.pc = "discover" /\ command'.answer = command.answer
            /\ command'.config = catalog /\ command'.catalog = catalog
        BY <1>0, <3>2 DEF CommandType
      <4> QED
        BY <1>0, <1>5, <2>1, <4>1 DEF CommandHolds, Resolve
    <3> QED
      BY <1>5, <3>1, <3>2 DEF Resolve
  <2> QED
    BY <1>1, <2>1, <2>2
<1>6. CASE Discover
  <2>1. CASE UNCHANGED probeVars /\ (Answers("refused") \/ Answers("cancelled"))
    <3>1. ProbeInv' /\ ShowsNoMore /\ UNCHANGED exit
      BY <2>1, ProbeStays
    <3>2. command' \in CommandType /\ CommandHolds'
      BY <1>2, <1>3, <2>1, <3>1
    <3> QED
      BY <1>1, <3>1, <3>2
  <2>2. CASE Lease("selected", command.net)
             /\ command' = [command EXCEPT !.pc = "execute", !.op = FreeOp]
    <3>1. /\ ProbeInv' /\ UNCHANGED exit /\ FreeOp \in Ops
          /\ health' = [health EXCEPT !["selected"] = [op |-> FreeOp, identity |-> command.net,
                                                      outcome |-> "checking"]]
      BY <1>0, <2>2, LeaseTaken DEF CommandType
    <3>2. health'["session"] = health["session"]
      BY <1>0, <3>1 DEF ProbeInv, CoordinatorsTyped
    <3>3. command' \in CommandType /\ command'.pc = "execute" /\ command'.op = FreeOp
          /\ command'.answer = command.answer /\ command'.config = command.config
          /\ command'.catalog = command.catalog
      BY <1>0, <2>2, <3>1 DEF CommandType
    <3>4. CommandHolds'
      BY <1>0, <1>6, <3>1, <3>3 DEF CommandHolds, Discover
    <3> QED
      BY <1>1, <3>1, <3>2, <3>3, <3>4
  <2> QED
    BY <1>6, <2>1, <2>2 DEF Discover
<1>7. CASE CommandEnd
  <2>1. ProbeInv' /\ ShowsNoMore /\ UNCHANGED exit
    BY <1>0, <1>7, ProbeStays, InvalidateStep DEF CommandEnd
  <2>2. health["selected"].outcome \in Replies
    BY <1>0, <1>3 DEF ProbeInv, CoordinatorsTyped, HealthType
  <2>3. command' \in CommandType /\ CommandHolds'
    BY <1>2, <1>3, <1>7, <2>1, <2>2 DEF CommandEnd
  <2> QED
    BY <1>1, <2>1, <2>3
<1> QED
  BY <1>4, <1>5, <1>6, <1>7

\* The world, the user's cancellation, the exit and the steps of a probe.
LEMMA OtherSteps ==
  ASSUME IInv, UNCHANGED limits,
         \/ NetworkChange \/ EngineDies \/ Mutation \/ ExitApp \/ DrainAdmission
         \/ \E c \in Coordinators : CancelProbe(c) \/ Drain(c)
         \/ \E o \in Ops : Execute(o)
  PROVE  Kept
<1>0. /\ ProbeInv /\ SessionTyped /\ CommandHolds /\ HealthIsCurrent
      /\ "session" \in Coordinators /\ "selected" \in Coordinators
  BY DEF IInv, Coordinators
<1>1. UNCHANGED <<session, stamps, monitor, seen, command>>
  BY DEF NetworkChange, EngineDies, Mutation, ExitApp, DrainAdmission, CancelProbe, Drain, Execute,
         sessionVars
<1>2. engine' \in BOOLEAN /\ net' \in Nat /\ catalog' \in Nat /\ mutating' \in BOOLEAN
  <2>0. engine \in BOOLEAN /\ net \in Nat /\ catalog \in Nat /\ mutating \in BOOLEAN
    BY <1>0 DEF SessionTyped
  <2>1. CASE NetworkChange \/ EngineDies
    <3>1. UNCHANGED <<catalog, mutating>> /\ (engine' = engine \/ engine' = FALSE)
      BY <2>1 DEF NetworkChange, EngineDies, sessionVars, catalogVars
    <3>2. net' = net \/ net' = net + 1
      BY <2>1 DEF NetworkChange, EngineDies
    <3>3. net' \in Nat /\ catalog' \in Nat
      BY <2>0, <3>1, <3>2
    <3>4. engine' \in BOOLEAN /\ mutating' \in BOOLEAN
      BY <2>0, <3>1
    <3> QED
      BY <3>3, <3>4
  <2>2. CASE Mutation
    <3>1. UNCHANGED <<net, engine>> /\ (mutating' = TRUE \/ mutating' = FALSE)
      BY <2>2 DEF Mutation, sessionVars
    <3>2. catalog' = catalog \/ catalog' = catalog + 1
      BY <2>2 DEF Mutation
    <3>3. net' \in Nat /\ catalog' \in Nat
      BY <2>0, <3>1, <3>2
    <3>4. engine' \in BOOLEAN /\ mutating' \in BOOLEAN
      BY <2>0, <3>1
    <3> QED
      BY <3>3, <3>4
  <2>3. CASE \/ ExitApp \/ DrainAdmission
             \/ \E c \in Coordinators : CancelProbe(c) \/ Drain(c)
             \/ \E o \in Ops : Execute(o)
    BY <2>0, <2>3 DEF ExitApp, DrainAdmission, CancelProbe, Drain, Execute, sessionVars, catalogVars
  <2> QED
    BY <2>1, <2>2, <2>3
<1>3. SessionTyped'
  BY <1>0, <1>1, <1>2 DEF SessionTyped
<1>4. ASSUME ProbeInv', ShowsNoMore,
             exit'["selected"] = "drained" => exit["selected"] = "drained" \/ command.pc = "idle"
      PROVE  Kept
  <2>1. HealthIsCurrent'
    BY <1>1, <1>4, ShownStaysCurrent
  <2>2. CommandHolds'
    BY <1>0, <1>1, <1>4 DEF CommandHolds
  <2> QED
    BY <1>3, <1>4, <2>1, <2>2 DEF Kept
<1>5. CASE NetworkChange \/ EngineDies \/ Mutation
  <2>1. UNCHANGED probeVars
    BY <1>5 DEF NetworkChange, EngineDies, Mutation
  <2> QED
    BY <1>4, <2>1, ProbeStays
<1>6. CASE ExitApp
  BY <1>0, <1>4, <1>6, SealStep DEF ExitApp
<1>7. CASE DrainAdmission
  <2>0. /\ exit["selected"] = "stopped" /\ command.pc = "idle"
        /\ exit' = [exit EXCEPT !["selected"] = "drained"]
        /\ UNCHANGED <<closed, active, health, permit, poisoned, core, op>>
        /\ exit \in [Coordinators -> {"open", "sealed", "stopping", "stopped", "drained"}]
    BY <1>0, <1>7 DEF DrainAdmission, ProbeInv, CoordinatorsTyped
  <2>1. CoordinatorsTyped'
    BY <1>0, <2>0 DEF ProbeInv, CoordinatorsTyped
  <2>2. Sealed'
    BY <1>0, <2>0 DEF ProbeInv, Sealed
  <2>3. ProbeInv' /\ ShowsNoMore
    BY <1>0, <2>0, <2>1, <2>2 DEF ProbeInv, SlotHeld, ActiveLease, ShownLease, CoreOwned,
                                   DesktopOnly, AnswerIsOwn, ShowsNoMore
  <2> QED
    BY <1>4, <2>0, <2>3
<1>8. ASSUME NEW c \in Coordinators, CancelProbe(c)
      PROVE  Kept
  BY <1>0, <1>4, <1>8, CancelStep DEF CancelProbe
<1>9. ASSUME NEW c \in Coordinators, Drain(c)
      PROVE  Kept
  <2>1. /\ ProbeInv' /\ UNCHANGED health
        /\ exit'["selected"] = "drained" => exit["selected"] = "drained"
    BY <1>0, <1>9, ShutdownSteps DEF Drain
  <2> QED
    BY <1>4, <2>1 DEF ShowsNoMore
<1>10. ASSUME NEW o \in Ops, Execute(o)
       PROVE  Kept
  BY <1>0, <1>4, <1>10, ExecuteSteps DEF Execute
<1> QED
  BY <1>5, <1>6, <1>7, <1>8, <1>9, <1>10

-----------------------------------------------------------------------------
(* Theorems.                                                               *)

\* No coordinator has done anything yet.
LEMMA InitInvariant == Init => IInv
<1> SUFFICES ASSUME Init PROVE IInv
  OBVIOUS
<1>1. /\ closed = [c \in Coordinators |-> FALSE] /\ active = [c \in Coordinators |-> NoOp]
      /\ health = [c \in Coordinators |-> NoHealth] /\ permit = [c \in Coordinators |-> NoOp]
      /\ poisoned = [c \in Coordinators |-> FALSE] /\ core = [c \in Coordinators |-> NoCore]
      /\ op = [o \in Ops |-> NoLease] /\ exit = [c \in Coordinators |-> "open"]
  BY DEF Init, ProbeInit
<1>2. /\ NoHealth \in HealthType /\ NoHealth.op = NoOp /\ NoCore \in CoreType
      /\ NoLease \in LeaseType /\ NoLease.pc = "free"
      /\ "session" \in Coordinators /\ "selected" \in Coordinators
  BY DEF NoHealth, HealthType, Outcomes, NoCore, CoreType, NoLease, LeaseType, Labels, Answers0,
         Coordinators
<1>3. CoordinatorsTyped
  BY <1>1, <1>2 DEF CoordinatorsTyped, CoreType
<1>4. SlotHeld /\ ActiveLease /\ ShownLease /\ CoreOwned /\ DesktopOnly /\ Sealed /\ AnswerIsOwn
  BY <1>1, <1>2, Numerals DEF SlotHeld, InSlot, Working, ActiveLease, ShownLease, CoreOwned,
     DesktopOnly, DesktopSteps, Sealed, AnswerIsOwn
<1>5. SessionTyped
  BY DEF Init, SessionTyped, NoSession, SessionType, NoMonitor, NoCommand, CommandType, Replies
<1>6. CommandHolds /\ HealthIsCurrent
  BY <1>1, <1>2 DEF Init, CommandHolds, NoCommand, HealthIsCurrent
<1> QED
  BY <1>3, <1>4, <1>5, <1>6 DEF IInv, ProbeInv

\* Every step keeps the invariant: the coordinators', the session's and the command's.
LEMMA StepInvariant == IInv /\ [Next]_vars => IInv'
<1> SUFFICES ASSUME IInv, [Next]_vars PROVE IInv'
  OBVIOUS
<1>1. CASE Next
  <2>1. Kept
    <3>1. CASE Accept \/ Retire \/ Target \/ MonitorEpoch \/ MonitorNetwork \/ Synchronize
      BY <1>1, <3>1, RecordSteps DEF Next
    <3>2. CASE RequestActive
      BY <1>1, <3>2, RequestStep DEF Next
    <3>3. CASE CommandBegin \/ Resolve \/ Discover \/ CommandEnd
      BY <1>1, <3>3, CommandSteps DEF Next
    <3>4. CASE \/ NetworkChange \/ EngineDies \/ Mutation \/ ExitApp \/ DrainAdmission
               \/ \E c \in Coordinators : CancelProbe(c) \/ Drain(c)
               \/ \E o \in Ops : Execute(o)
      BY <1>1, <3>4, OtherSteps DEF Next
    <3>5. CASE \E o \in Ops : ActiveWork(o)
      BY <1>1, <3>5, ActiveSteps DEF Next
    <3> QED
      BY <1>1, <3>1, <3>2, <3>3, <3>4, <3>5 DEF Next, Step, Task
  <2> QED
    BY <2>1 DEF Kept, IInv
<1>2. CASE UNCHANGED vars
  <2>1. UNCHANGED <<limits, probeVars, session, stamps, engine, monitor, seen, net, catalog, mutating,
                    command>>
    BY <1>2 DEF vars, sessionVars, catalogVars
  <2>2. ProbeInv' /\ ShowsNoMore /\ UNCHANGED exit
    BY <2>1, ProbeStays
  <2>3. SessionTyped' /\ CommandHolds' /\ HealthIsCurrent'
    BY <2>1, <2>2, ShownStaysCurrent, CommandStays DEF IInv, SessionTyped
  <2> QED
    BY <2>2, <2>3 DEF IInv
<1> QED
  BY <1>1, <1>2

\* The inductive invariant holds of every state.
THEOREM Invariance == Spec => []IInv
<1> QED
  BY InitInvariant, StepInvariant, PTL DEF Spec

\* Every variable of the coordinators, the session and the command keeps its type.
THEOREM TypeCorrect == Spec => []TypeOK
<1>1. IInv => TypeOK
  BY DEF IInv, ProbeInv, TypeOK
<1> QED
  BY <1>1, Invariance, PTL

\* The private engine of a probe belongs to the owner of the probe slot, or its
\* coordinator starts no other: no second engine beside one nobody proved dead.
THEOREM EngineOwned == Spec => []CoreHasOwner
<1>1. IInv => CoreHasOwner
  <2> SUFFICES ASSUME IInv, NEW c \in Coordinators, core[c] # NoCore, ~poisoned[c]
               PROVE  core[c].by = permit[c]
    BY DEF CoreHasOwner
  <2>1. core[c].by \in Ops /\ op[core[c].by].at = c /\ op[core[c].by].pc \in Owning
    BY DEF IInv, ProbeInv, CoreOwned
  <2> QED
    BY <2>1 DEF IInv, ProbeInv, SlotHeld, Owning, InSlot
<1> QED
  BY <1>1, Invariance, PTL

\* What a coordinator shows is the answer of the request it names, under every
\* order of requests, cancellations, timeouts and cleanups.
THEOREM AnswersOwn == Spec => []AnswerIsOwn
<1>1. IInv => AnswerIsOwn
  BY DEF IInv, ProbeInv
<1> QED
  BY <1>1, Invariance, PTL

\* What is shown for the session was measured for its present run, network and target.
THEOREM HealthCurrent == Spec => []HealthIsCurrent
<1>1. IInv => HealthIsCurrent
  BY DEF IInv
<1> QED
  BY <1>1, Invariance, PTL

\* After the shutdown nothing works, no engine runs that was not given up, and no
\* command is on its way.
THEOREM ExitIsClean == Spec => []ExitLeavesNothing
<1>1. IInv => ExitLeavesNothing
  <2> SUFFICES ASSUME IInv PROVE ExitLeavesNothing
    OBVIOUS
  <2>1. ASSUME NEW c \in Coordinators, exit[c] \in {"stopped", "drained"}
        PROVE  \A o \in Ops : op[o].at = c => op[o].pc \in {"free", "wait", "done"}
    BY <2>1 DEF IInv, ProbeInv, Sealed
  <2>2. ASSUME NEW c \in Coordinators, exit[c] \in {"stopped", "drained"}, core[c] # NoCore
        PROVE  poisoned[c]
    BY <2>1, <2>2 DEF IInv, ProbeInv, CoreOwned, Owning, Working
  <2>3. exit["selected"] = "drained" => command.pc = "idle"
    BY DEF IInv, CommandHolds
  <2> QED
    BY <2>1, <2>2, <2>3 DEF ExitLeavesNothing
<1> QED
  BY <1>1, Invariance, PTL

\* A profile answered healthy is, in that step, still the one that was checked.
THEOREM AnswersFresh == Spec => AnswerFresh
<1> DEFINE A == command.pc = "execute" /\ command'.answer = "healthy" => command.config = catalog
<1>1. IInv /\ [Next]_vars => [A]_vars
  <2> SUFFICES ASSUME IInv, Next, command.pc = "execute", command'.answer = "healthy"
               PROVE  command.config = catalog
    BY DEF vars
  <2>1. command.answer = "none" /\ command.config = command.catalog /\ command \in CommandType
    BY DEF IInv, CommandHolds, SessionTyped
  <2>2. command' # command
    BY <2>1
  <2>3. CommandEnd
    <3>1. CASE CommandBegin \/ Resolve \/ Discover
      BY <3>1 DEF CommandBegin, Resolve, Discover
    <3> QED
      BY <2>2, <3>1
      DEF Next, Step, Accept, Retire, Target, MonitorEpoch, MonitorNetwork, Synchronize, RequestActive,
          NetworkChange, EngineDies, Mutation, CancelProbe, Drain, ExitApp, DrainAdmission, Task,
          Execute, ActiveWork, ActiveBegins, RefreshNetwork, CheckTargets, ActiveEnds
  <2>4. \A x : Answers(x) => command'.answer = x
    BY <2>1 DEF Answers, CommandType
  <2> QED
    BY <2>1, <2>3, <2>4 DEF CommandEnd
<1> QED
  BY <1>1, Invariance, PTL DEF Spec, AnswerFresh
=============================================================================
