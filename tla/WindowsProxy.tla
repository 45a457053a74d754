----------------------------- MODULE WindowsProxy -----------------------------
(***************************************************************************)
(* The lease on the Windows system proxy: src-tauri/src/windows_proxy.rs,  *)
(* with its callers clear_system_proxy and apply_system_proxy of           *)
(* process.rs and the recovery at start and at exit of lib.rs.             *)
(*                                                                         *)
(* A setting is the triple (ProxyOverride, ProxyServer, ProxyEnable).      *)
(* Processes of one installation share its recovery journal, all processes *)
(* share one lock file, and the settings can be edited by anyone.  A step  *)
(* reads the triple, writes one value, or writes the journal; a process    *)
(* may die between any two of them, and any write may fail.                *)
(***************************************************************************)
EXTENDS Naturals

CONSTANTS
  Procs,        \* processes of the client
  Channels,     \* installations, each with a journal of its own
  Servers,      \* listener addresses a launch asks for
  Free,         \* nobody holds the lock file
  MaxLeases, MaxCrashes, MaxFailures, MaxEdits   \* bounds

\* Values of the registry: what the user had, what another application wrote.
Users == 0
Others == 1
NoServer == 0

ProxyAssumption ==
  /\ Free \notin Procs
  /\ Servers \subseteq Nat \ {Users, Others}
  /\ MaxLeases \in Nat /\ MaxCrashes \in Nat /\ MaxFailures \in Nat /\ MaxEdits \in Nat

VARIABLES
  settings,     \* Internet Settings
  owner,        \* installation -> its registry key: values before the lease, and "Lease"
  lock,         \* process that has the lock file open
  channel,      \* process -> installation
  held,         \* process -> instance_lock holds the file
  pc, goal,     \* process -> next step; what a restore is part of
  server,       \* process -> argument of apply
  work,         \* process -> locals: before, applied, phase, end, now
  leases, crashes, failures, edits,              \* what the bounds count
  user,         \* the last settings chosen by the user or another application
  claimed, late,  \* another application enabled its proxy; client writes since
  overlap       \* a lease was taken while another installation's journal existed

procVars == <<held, pc, goal, server, work>>
boundVars == <<leases, crashes, failures, edits>>
historyVars == <<user, claimed, late, overlap>>
vars == <<settings, owner, lock, channel, procVars, boundVars, historyVars>>

NoLease == [server |-> NoServer, bypass |-> Users, previous |-> NoServer, settled |-> FALSE]
NoKey == [key |-> FALSE, before |-> <<Users, Users, 0>>, lease |-> NoLease]
Idle == [before |-> <<Users, Users, 0>>, applied |-> <<Users, Users, 0>>,
         phase |-> 0, end |-> 0, now |-> <<Users, Users, 0>>]

Mine(p) == owner[channel[p]]
HasLease(k) == k.key /\ k.lease # NoLease

\* Lease::applied
Applied(lease, now) ==
  <<lease.bypass,
    IF lease.previous # NoServer /\ now[2] = lease.previous THEN lease.previous ELSE lease.server,
    1>>

\* phase_matches: the first `phase` values are the lease's, the others the user's.
PhaseMatches(now, before, applied, phase) ==
  \A i \in 1..3 : now[i] = IF i <= phase THEN applied[i] ELSE before[i]

Goto(p, l) == pc' = [pc EXCEPT ![p] = l]
\* The arguments of transition.
Transit(p, before, applied, phase, end) ==
  work' = [work EXCEPT ![p] = [before |-> before, applied |-> applied, phase |-> phase,
                               end |-> end, now |-> @.now]]

\* The lease as the journal records it.
Lease(from, bypass, previous, settled) ==
  [server |-> from, bypass |-> bypass, previous |-> previous, settled |-> settled]
SaveLease(p, lease) == owner' = [owner EXCEPT ![channel[p]].lease = lease]

\* A client writes value i; it may be writing over what another application just set.
WriteSetting(i, v) ==
  /\ settings' = [settings EXCEPT ![i] = v]
  /\ late' = IF claimed THEN late + 1 ELSE late
  /\ claimed' = (claimed /\ settings'[3] = 1)
  /\ UNCHANGED <<user, overlap>>

Init ==
  /\ settings \in {<<Users, Users, e>> : e \in 0..1}
  /\ user = settings
  /\ owner = [c \in Channels |-> NoKey]
  /\ lock = Free
  /\ channel \in [Procs -> Channels]
  /\ held = [p \in Procs |-> FALSE]
  /\ pc = [p \in Procs |-> "down"]
  /\ goal = [p \in Procs |-> "none"]
  /\ server = [p \in Procs |-> NoServer]
  /\ work = [p \in Procs |-> Idle]
  /\ leases = 0 /\ crashes = 0 /\ failures = 0 /\ edits = 0
  /\ claimed = FALSE /\ late = 0 /\ overlap = FALSE

-----------------------------------------------------------------------------
(* The end of an operation: the temporary lock is dropped, or becomes held. *)

Finish(p, keep) ==
  /\ Goto(p, "idle")
  /\ goal' = [goal EXCEPT ![p] = "none"]
  /\ held' = [held EXCEPT ![p] = keep]
  /\ lock' = IF keep THEN p ELSE Free
  /\ server' = [server EXCEPT ![p] = NoServer]
  /\ work' = [work EXCEPT ![p] = Idle]

\* What follows restore_locked: the rest of apply_locked, or the end.
AfterRestore(p, ok) ==
  \/ /\ goal[p] = "apply" /\ ok
     /\ Goto(p, "before")
     /\ UNCHANGED <<goal, held, lock, server, work>>
  \/ /\ goal[p] = "apply" /\ ~ok
     /\ Goto(p, "restore")
     /\ goal' = [goal EXCEPT ![p] = "undo"]
     /\ UNCHANGED <<held, lock, server, work>>
  \/ /\ goal[p] = "undo"
     /\ Finish(p, held[p])
  \/ /\ goal[p] = "release"
     /\ Finish(p, IF ok THEN FALSE ELSE held[p])

\* apply_locked returned an error: restore_locked, whose own error is ignored.
Undo(p) ==
  /\ Goto(p, "restore")
  /\ goal' = [goal EXCEPT ![p] = "undo"]
  /\ UNCHANGED <<held, lock, server, work>>

-----------------------------------------------------------------------------
(* apply                                                                   *)

\* The lock file is opened unless this process has it; another holder is a conflict.
BeginApply(p, s) ==
  /\ pc[p] = "idle"
  /\ lock \in {Free, p}
  /\ Goto(p, "read")
  /\ goal' = [goal EXCEPT ![p] = "apply"]
  /\ server' = [server EXCEPT ![p] = s]
  /\ lock' = p
  /\ UNCHANGED <<settings, owner, channel, held, work, boundVars, historyVars>>

\* apply_locked: an intact lease of ours is reused, any other journal undone first.
ReadLease(p) ==
  LET lease == Mine(p).lease
      ours == HasLease(Mine(p)) /\ lease.settled /\ settings = Applied(lease, settings)
  IN
  /\ pc[p] = "read"
  /\ \/ /\ ours /\ lease.server = server[p]
        /\ Finish(p, TRUE)
     \/ /\ ours /\ lease.server # server[p]
        /\ Goto(p, "announce")
        /\ work' = [work EXCEPT ![p].now = settings]
        /\ UNCHANGED <<goal, held, lock, server>>
     \/ /\ ~ours
        /\ Goto(p, IF Mine(p).key THEN "restore" ELSE "before")
        /\ UNCHANGED <<goal, held, lock, server, work>>
  /\ UNCHANGED <<settings, owner, channel, boundVars, historyVars>>

\* The switch of a live lease to another server: journal, check, write, journal.
AnnounceSwitch(p) ==
  /\ pc[p] = "announce"
  /\ SaveLease(p, Lease(server[p], Mine(p).lease.bypass, Mine(p).lease.server, FALSE))
  /\ Goto(p, "confirm")
  /\ UNCHANGED <<settings, lock, channel, held, goal, server, work, boundVars, historyVars>>

ConfirmSwitch(p) ==
  /\ pc[p] = "confirm"
  /\ \/ settings = work[p].now /\ Goto(p, "switch") /\ UNCHANGED <<held, goal, server, work, lock>>
     \/ settings # work[p].now /\ Undo(p)
  /\ UNCHANGED <<settings, owner, channel, boundVars, historyVars>>

WriteSwitch(p) ==
  /\ pc[p] = "switch"
  /\ WriteSetting(2, server[p])
  /\ Goto(p, "settle")
  /\ UNCHANGED <<owner, lock, channel, held, goal, server, work, boundVars>>

\* A fresh lease. Somebody else's enabled proxy is a conflict; otherwise the key is
\* created and the values in force are copied into it.
\* Bug: a proxy that is already on is taken over.
TakeAnyProxy(p) ==
  /\ pc[p] = "before"
  /\ owner' = [owner EXCEPT ![channel[p]] = [key |-> TRUE, before |-> settings, lease |-> NoLease]]
  /\ work' = [work EXCEPT ![p].before = settings]
  /\ Goto(p, "record")
  /\ overlap' = (overlap \/ \E c \in Channels \ {channel[p]} : HasLease(owner[c]))
  /\ UNCHANGED <<settings, lock, channel, held, goal, server, boundVars, user, claimed, late>>

CopyBefore(p) ==
  /\ pc[p] = "before"
  /\ \/ /\ settings[3] = 1
        /\ Undo(p)
        /\ UNCHANGED <<owner, overlap>>
     \/ /\ settings[3] = 0
        /\ owner' = [owner EXCEPT ![channel[p]] =
                       [key |-> TRUE, before |-> settings, lease |-> NoLease]]
        /\ work' = [work EXCEPT ![p].before = settings]
        /\ Goto(p, "record")
        /\ overlap' = (overlap \/ \E c \in Channels \ {channel[p]} : HasLease(owner[c]))
        /\ UNCHANGED <<held, goal, server, lock>>
  /\ UNCHANGED <<settings, channel, boundVars, user, claimed, late>>

\* The journal is written before the first setting; its bypass list is unique.
\* Bug: the settings are written first.
RecordNothing(p) ==
  /\ pc[p] = "record"
  /\ leases < MaxLeases
  /\ leases' = leases + 1
  /\ Transit(p, work[p].before, <<Others + leases', server[p], 1>>, 0, 3)
  /\ Goto(p, "check")
  /\ UNCHANGED <<settings, owner, lock, channel, held, goal, server, crashes, failures, edits,
                 historyVars>>

RecordLease(p) ==
  /\ pc[p] = "record"
  /\ leases < MaxLeases
  /\ leases' = leases + 1
  /\ LET lease == Lease(server[p], Others + leases', NoServer, FALSE)
     IN /\ SaveLease(p, lease)
        /\ Transit(p, work[p].before, Applied(lease, work[p].before), 0, 3)
  /\ Goto(p, "check")
  /\ UNCHANGED <<settings, lock, channel, held, goal, server, crashes, failures, edits,
                 historyVars>>

\* The last write of apply_locked: the lease is settled.
SettleLease(p) ==
  /\ pc[p] = "settle"
  /\ SaveLease(p, Lease(Mine(p).lease.server, Mine(p).lease.bypass, NoServer, TRUE))
  /\ Finish(p, TRUE)
  /\ UNCHANGED <<settings, channel, boundVars, historyVars>>

-----------------------------------------------------------------------------
(* transition: every value is compared before each write.                  *)

CheckPhase(p) ==
  LET w == work[p]
      matches == PhaseMatches(settings, w.before, w.applied, w.phase)
  IN
  /\ pc[p] = "check"
  /\ \/ /\ matches /\ w.phase # w.end
        /\ Goto(p, "write")
        /\ UNCHANGED <<goal, held, lock, server, work>>
     \/ /\ matches /\ w.phase = w.end
        /\ Goto(p, IF w.end = 3 THEN "settle" ELSE "delete")
        /\ UNCHANGED <<goal, held, lock, server, work>>
     \/ /\ ~matches /\ w.end = 3
        /\ Undo(p)
     \/ /\ ~matches /\ w.end = 0
        /\ Goto(p, "delete")
        /\ UNCHANGED <<goal, held, lock, server, work>>
  /\ UNCHANGED <<settings, owner, channel, boundVars, historyVars>>

\* Bug: the undo runs in the order of the installation.
WriteFirstToLast(p) ==
  LET w == work[p] IN
  /\ pc[p] = "write"
  /\ \/ /\ w.phase < w.end
        /\ WriteSetting(w.phase + 1, w.applied[w.phase + 1])
        /\ work' = [work EXCEPT ![p].phase = w.phase + 1]
     \/ /\ w.phase > w.end
        /\ WriteSetting(4 - w.phase, w.before[4 - w.phase])
        /\ work' = [work EXCEPT ![p].phase = w.phase - 1]
  /\ Goto(p, "check")
  /\ UNCHANGED <<owner, lock, channel, held, goal, server, boundVars>>

WriteValue(p) ==
  LET w == work[p] IN
  /\ pc[p] = "write"
  /\ \/ /\ w.phase < w.end
        /\ WriteSetting(w.phase + 1, w.applied[w.phase + 1])
        /\ work' = [work EXCEPT ![p].phase = w.phase + 1]
     \/ /\ w.phase > w.end
        /\ WriteSetting(w.phase, w.before[w.phase])
        /\ work' = [work EXCEPT ![p].phase = w.phase - 1]
  /\ Goto(p, "check")
  /\ UNCHANGED <<owner, lock, channel, held, goal, server, boundVars>>

-----------------------------------------------------------------------------
(* restore_locked and release                                              *)

\* clear_system_proxy, at start (a process that was down), on stop and at exit. An
\* idle release only drops the lock; another holder's lease is left alone.
BeginRelease(p) ==
  /\ pc[p] \in {"idle", "down"}
  /\ \/ /\ ~Mine(p).key
        /\ Goto(p, "idle")
        /\ held' = [held EXCEPT ![p] = FALSE]
        /\ lock' = IF lock = p THEN Free ELSE lock
        /\ UNCHANGED goal
     \/ /\ Mine(p).key /\ lock \in {Free, p}
        /\ Goto(p, "restore")
        /\ goal' = [goal EXCEPT ![p] = "release"]
        /\ lock' = p
        /\ UNCHANGED held
     \/ /\ Mine(p).key /\ lock \notin {Free, p} /\ pc[p] = "down"
        /\ Goto(p, "idle")
        /\ UNCHANGED <<goal, held, lock>>
  /\ UNCHANGED <<settings, owner, channel, server, work, boundVars, historyVars>>

\* The phase the settings are in: 3 if the lease is settled, else the highest that fits.
Phases(k) ==
  {n \in 1..3 : /\ ~k.lease.settled \/ n = 3
                /\ PhaseMatches(settings, k.before, Applied(k.lease, settings), n)}

HighestOf(S) == CHOOSE n \in S : \A m \in S : m <= n

ReadJournal(p) ==
  LET k == Mine(p) IN
  /\ pc[p] = "restore"
  /\ \/ /\ ~k.key
        /\ AfterRestore(p, TRUE)
     \/ /\ HasLease(k) /\ Phases(k) # {}
        /\ Transit(p, k.before, Applied(k.lease, settings), HighestOf(Phases(k)), 0)
        /\ Goto(p, "unsettle")
        /\ UNCHANGED <<goal, held, lock, server>>
     \/ /\ k.key /\ ~(HasLease(k) /\ Phases(k) # {})
        /\ Goto(p, "delete")
        /\ UNCHANGED <<goal, held, lock, server, work>>
  /\ UNCHANGED <<settings, owner, channel, boundVars, historyVars>>

UnsettleLease(p) ==
  /\ pc[p] = "unsettle"
  /\ SaveLease(p, Lease(Mine(p).lease.server, Mine(p).lease.bypass, Mine(p).lease.previous, FALSE))
  /\ Goto(p, "check")
  /\ UNCHANGED <<settings, lock, channel, held, goal, server, work, boundVars, historyVars>>

DeleteKey(p) ==
  /\ pc[p] = "delete"
  /\ owner' = [owner EXCEPT ![channel[p]] = NoKey]
  /\ AfterRestore(p, TRUE)
  /\ UNCHANGED <<settings, channel, boundVars, historyVars>>

-----------------------------------------------------------------------------
(* Faults and other programs                                               *)

Writing == {"announce", "switch", "record", "settle", "write", "unsettle", "delete"}

Undoing(p) == pc[p] \in {"unsettle", "delete"} \/ (pc[p] = "write" /\ work[p].end = 0)

\* A registry call fails before it changes anything. In restore_locked the error ends
\* the restore, elsewhere it ends apply_locked.
Fail(p) ==
  /\ pc[p] \in Writing /\ failures < MaxFailures
  /\ failures' = failures + 1
  /\ \/ Undoing(p) /\ AfterRestore(p, FALSE)
     \/ ~Undoing(p) /\ Undo(p)
  /\ UNCHANGED <<settings, owner, channel, leases, crashes, edits, historyVars>>

\* The process dies: the system closes its lock file, the registry stays.
Crash(p) ==
  /\ pc[p] # "down" /\ crashes < MaxCrashes
  /\ crashes' = crashes + 1
  /\ Goto(p, "down")
  /\ goal' = [goal EXCEPT ![p] = "none"]
  /\ held' = [held EXCEPT ![p] = FALSE]
  /\ lock' = IF lock = p THEN Free ELSE lock
  /\ server' = [server EXCEPT ![p] = NoServer]
  /\ work' = [work EXCEPT ![p] = Idle]
  /\ UNCHANGED <<settings, owner, channel, leases, failures, edits, historyVars>>

\* The user or another application: its own proxy, the bypass list, or the switch.
Edit ==
  /\ edits < MaxEdits
  /\ edits' = edits + 1
  /\ settings' \in {<<Others, Others, 1>>, [settings EXCEPT ![1] = Others],
                    [settings EXCEPT ![3] = 0]}
  /\ user' = settings'
  /\ claimed' = (settings' = <<Others, Others, 1>>)
  /\ late' = 0
  /\ UNCHANGED <<owner, lock, channel, procVars, leases, crashes, failures, overlap>>

Step(p) ==
  \/ ReadLease(p) \/ AnnounceSwitch(p) \/ ConfirmSwitch(p) \/ WriteSwitch(p)
  \/ CopyBefore(p) \/ RecordLease(p) \/ SettleLease(p)
  \/ CheckPhase(p) \/ WriteValue(p)
  \/ ReadJournal(p) \/ UnsettleLease(p) \/ DeleteKey(p)

Next ==
  \/ \E p \in Procs : Step(p) \/ BeginRelease(p) \/ Fail(p) \/ Crash(p)
  \/ \E p \in Procs, s \in Servers : BeginApply(p, s)
  \/ Edit

Spec == Init /\ [][Next]_vars

-----------------------------------------------------------------------------
(* Properties                                                              *)

\* The settings the installations' journals account for: a chain of phases back to the user's.
Recovers(k) == HasLease(k) /\ Phases(k) # {}

\* Journal first: whatever died or failed on the way, settings that are not the user's
\* are at a phase of a journal that holds the user's values, so that a process started
\* now can undo them; with no journal left, the user has them back. Two cases are
\* excluded: another program edited the settings, and an installation took its lease
\* over the half removed one of another installation.
AlwaysRecoverable ==
  edits = 0 /\ ~overlap /\ settings # user =>
    \E c \in Channels : Recovers(owner[c]) /\ owner[c].before = user

\* An enabled listener is complete: whenever the proxy of a client is on, the bypass
\* list, which holds the mark of the lease, is the same client's ("Stamp the bypass list first.
\* Enable the listener last. Undo in reverse order").
EnabledIsComplete ==
  edits = 0 /\ settings[3] = 1 /\ settings # user =>
    \E c \in Channels : HasLease(owner[c]) /\ settings = Applied(owner[c].lease, settings)

\* A foreign edit relinquishes the lease: of a proxy another application has enabled the
\* clients overwrite at most the one value whose check came before the edit.
ForeignProxyKept == late <= 1

=============================================================================
