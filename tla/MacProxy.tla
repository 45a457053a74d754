------------------------------- MODULE MacProxy -------------------------------
(***************************************************************************)
(* The lease on the macOS service proxies: src-tauri/src/macos_proxy.rs.   *)
(*                                                                         *)
(* Every network service has one proxy facility of each kind.  The client  *)
(* turns them on one networksetup call at a time and journals what it is   *)
(* about to own first.  Processes of one installation share the journal,   *)
(* all processes share one advisory lock.  A process may die between any   *)
(* two calls, any call may fail, and anybody can change a facility.        *)
(***************************************************************************)
EXTENDS Naturals, Sequences, SequencesExt

CONSTANTS
  Procs,        \* processes of the client
  Channels,     \* installations, each with a journal of its own
  Services,     \* the services networksetup lists, a sequence
  Kinds,        \* KINDS, a sequence
  Ports,        \* loopback endpoints a launch asks for
  Foreign,      \* an endpoint of another program
  Free,         \* nobody holds the lock
  MaxCrashes, MaxFailures, MaxEdits, MaxApplies   \* bounds

MacAssumption ==
  /\ Free \notin Procs /\ Foreign \notin Ports
  /\ Services \in Seq(ToSet(Services)) /\ Kinds \in Seq(ToSet(Kinds))
  /\ MaxCrashes \in Nat /\ MaxFailures \in Nat /\ MaxEdits \in Nat /\ MaxApplies \in Nat

VARIABLES
  facility,     \* <<service, kind>> -> [on, endpoint]
  taken,        \* endpoints some other program listens on
  journal,      \* installation -> entries of network-service-proxies.json, in no order
  lock,         \* process that has the advisory lock
  channel,      \* process -> installation
  held,         \* process -> MacProxy::held
  pc, goal,     \* process -> next step; what a restore is part of
  work,         \* process -> locals of apply, restore and clear
  crashes, failures, edits, applies,   \* what the bounds count
  foreign,      \* <<service, kind>> -> "none", or enabled by another program: "unseen", "seen"
  forfeited,    \* entries forgotten because their endpoint was in use
  stolen        \* the client wrote to a service whose foreign facility it had seen

procVars == <<held, pc, goal, work>>
boundVars == <<crashes, failures, edits, applies>>
historyVars == <<foreign, forfeited, stolen>>
vars == <<facility, taken, journal, lock, channel, procVars, boundVars, historyVars>>

ServiceSet == ToSet(Services)
Facilities == ServiceSet \X ToSet(Kinds)
Off == [on |-> FALSE, endpoint |-> Foreign]
Entry(f, e) == [at |-> f, endpoint |-> e]
NoEntry == Entry(<<>>, Foreign)
Idle == [owned |-> {}, kept |-> {}, entry |-> NoEntry, stale |-> FALSE, failed |-> FALSE,
         port |-> Foreign, services |-> <<>>, kinds |-> <<>>, attempted |-> FALSE]

Goto(p, l) == pc' = [pc EXCEPT ![p] = l]
Mine(p) == journal[channel[p]]
Save(p, entries) == journal' = [journal EXCEPT ![channel[p]] = entries]

\* networksetup writes a facility; S is what must not be
\* another program's by now.
Write(f, value, S) ==
  /\ facility' = [facility EXCEPT ![f] = value]
  /\ foreign' = [foreign EXCEPT ![f] = "none"]
  /\ stolen' = (stolen \/ \E g \in S : foreign[g] = "seen")
  /\ UNCHANGED forfeited

AllOf(s) == {<<s, k>> : k \in ToSet(Kinds)}

\* networksetup reports a facility that another program may have enabled.
Look(S) ==
  /\ foreign' = [f \in Facilities |->
                   IF f \in S /\ foreign[f] = "unseen" THEN "seen" ELSE foreign[f]]
  /\ UNCHANGED stolen

Init ==
  /\ facility \in [Facilities -> {Off}]
  /\ taken = {}
  /\ journal = [c \in Channels |-> {}]
  /\ lock = Free
  /\ channel \in [Procs -> Channels]
  /\ held = [p \in Procs |-> FALSE]
  /\ pc = [p \in Procs |-> "down"]
  /\ goal = [p \in Procs |-> "none"]
  /\ work = [p \in Procs |-> Idle]
  /\ crashes = 0 /\ failures = 0 /\ edits = 0 /\ applies = 0
  /\ foreign = [f \in Facilities |-> "none"]
  /\ forfeited = {} /\ stolen = FALSE

Finish(p, keep) ==
  /\ Goto(p, "idle")
  /\ goal' = [goal EXCEPT ![p] = "none"]
  /\ held' = [held EXCEPT ![p] = keep]
  /\ lock' = IF keep THEN p ELSE Free
  /\ work' = [work EXCEPT ![p] = Idle]

-----------------------------------------------------------------------------
(* restore                                                                 *)

StartRestore(p, why, owned, stale) ==
  /\ Goto(p, "restore")
  /\ goal' = [goal EXCEPT ![p] = why]
  /\ work' = [work EXCEPT ![p] =
                [@ EXCEPT !.owned = owned, !.kept = {}, !.stale = stale, !.failed = FALSE]]

\* retain: an entry is dropped, or kept because its facility was not reverted.
Forget(p, entry) ==
  work' = [work EXCEPT ![p] = [@ EXCEPT !.owned = work[p].owned \ {entry}, !.entry = NoEntry]]
Keep(p, entry) ==
  work' = [work EXCEPT ![p] = [@ EXCEPT !.owned = work[p].owned \ {entry},
                                        !.kept = work[p].kept \cup {entry},
                                        !.entry = NoEntry, !.failed = TRUE]]

\* An entry is turned off only if its facility still has its endpoint and, after a
\* crash, nobody listens there.
RestoreEntry(p, entry) ==
  LET ours == facility[entry.at] = [on |-> TRUE, endpoint |-> entry.endpoint]
      inUse == work[p].stale /\ entry.endpoint \in taken
  IN
  /\ pc[p] = "restore"
  /\ Look({entry.at})
  /\ \/ /\ ours /\ ~inUse
        /\ Goto(p, "off")
        /\ work' = [work EXCEPT ![p].entry = entry]
        /\ UNCHANGED forfeited
     \/ /\ ours /\ inUse
        /\ Forget(p, entry)
        /\ forfeited' = forfeited \cup {entry}
        /\ UNCHANGED pc
     \/ /\ ~ours
        /\ Forget(p, entry)
        /\ UNCHANGED <<pc, forfeited>>
  /\ UNCHANGED <<facility, taken, journal, lock, channel, held, goal, boundVars>>

TurnOff(p) ==
  /\ pc[p] = "off"
  /\ LET f == work[p].entry.at
     IN Write(f, [facility[f] EXCEPT !.on = FALSE], {f})
  /\ Forget(p, work[p].entry)
  /\ Goto(p, "restore")
  /\ UNCHANGED <<taken, journal, lock, channel, held, goal, boundVars>>

\* What apply and clear do with the result of restore.
AfterRestore(p, failed) ==
  \/ /\ goal[p] = "fresh" /\ ~failed
     /\ Goto(p, "list")
     /\ goal' = [goal EXCEPT ![p] = "apply"]
     /\ work' = [work EXCEPT ![p].owned = work[p].kept]
     /\ UNCHANGED <<held, lock>>
  \/ /\ goal[p] = "fresh" /\ failed
     /\ Finish(p, FALSE)
  \/ /\ goal[p] = "rollback"
     /\ Finish(p, work[p].kept # {})
  \/ /\ goal[p] = "clear"
     /\ Finish(p, held[p] /\ work[p].kept # {})

SaveRestored(p) ==
  /\ pc[p] = "restore" /\ work[p].owned = {}
  /\ Save(p, work[p].kept)
  /\ AfterRestore(p, work[p].failed)
  /\ UNCHANGED <<facility, taken, channel, boundVars, historyVars>>

-----------------------------------------------------------------------------
(* apply                                                                   *)

BeginApply(p, port) ==
  /\ pc[p] = "idle" /\ applies < MaxApplies
  /\ applies' = applies + 1
  /\ lock \in {Free, p} /\ lock' = p
  /\ \/ /\ ~held[p]
        /\ Goto(p, "restore")
        /\ goal' = [goal EXCEPT ![p] = "fresh"]
     \/ /\ held[p]
        /\ Goto(p, "list")
        /\ goal' = [goal EXCEPT ![p] = "apply"]
  /\ work' = [work EXCEPT ![p] = [Idle EXCEPT !.owned = Mine(p), !.stale = ~held[p],
                                              !.port = port]]
  /\ UNCHANGED <<facility, taken, journal, channel, held, crashes, failures, edits, historyVars>>

ListServices(p) ==
  /\ pc[p] = "list"
  /\ work' = [work EXCEPT ![p].services = Services]
  /\ Goto(p, "service")
  /\ UNCHANGED <<facility, taken, journal, lock, channel, held, goal, boundVars, historyVars>>

\* A service is left alone unless each of its facilities is off or ours.
Usable(p, f) ==
  ~facility[f].on \/ Entry(f, facility[f].endpoint) \in work[p].owned

InspectService(p) ==
  LET s == Head(work[p].services)
      usable == \A k \in ToSet(Kinds) : Usable(p, <<s, k>>)
  IN
  /\ pc[p] = "service" /\ work[p].services # <<>>
  /\ Look(AllOf(s))
  /\ \/ ~usable /\ work' = [work EXCEPT ![p].services = Tail(@)] /\ UNCHANGED pc
     \/ usable /\ work' = [work EXCEPT ![p].kinds = Kinds] /\ Goto(p, "claim")
  /\ UNCHANGED <<facility, taken, journal, lock, channel, held, goal, boundVars, forfeited>>

Target(p) == <<Head(work[p].services), Head(work[p].kinds)>>

\* Bug: the entry is saved only once the facility is on.
ClaimLater(p) ==
  /\ pc[p] = "claim" /\ work[p].kinds # <<>>
  /\ work' = [work EXCEPT ![p] = [@ EXCEPT !.attempted = TRUE,
                                           !.owned = work[p].owned
                                                       \cup {Entry(Target(p), work[p].port)}]]
  /\ Goto(p, "set")
  /\ UNCHANGED <<facility, taken, journal, lock, channel, held, goal, boundVars, historyVars>>

\* The entry is journaled before the facility is touched; the old endpoint stays too.
ClaimFacility(p) ==
  LET entry == Entry(Target(p), work[p].port)
      owned == work[p].owned \cup {entry}
  IN
  /\ pc[p] = "claim" /\ work[p].kinds # <<>>
  /\ work' = [work EXCEPT ![p] = [@ EXCEPT !.attempted = TRUE, !.owned = owned]]
  /\ IF entry \in work[p].owned THEN UNCHANGED journal ELSE Save(p, owned)
  /\ Goto(p, "set")
  /\ UNCHANGED <<facility, taken, lock, channel, held, goal, boundVars, historyVars>>

\* -set<kind> stores the endpoint and enables it; -set<kind>state on follows.
SetEndpoint(p) ==
  /\ pc[p] = "set"
  /\ Write(Target(p), [on |-> TRUE, endpoint |-> work[p].port], AllOf(Target(p)[1]))
  /\ Goto(p, "on")
  /\ UNCHANGED <<taken, journal, lock, channel, held, goal, work, boundVars>>

SetOn(p) ==
  /\ pc[p] = "on"
  /\ Write(Target(p), [facility[Target(p)] EXCEPT !.on = TRUE], AllOf(Target(p)[1]))
  /\ Goto(p, "settle")
  /\ UNCHANGED <<taken, journal, lock, channel, held, goal, work, boundVars>>

\* Entries of this facility with another endpoint are dropped and the journal saved.
SettleFacility(p) ==
  LET owned == {o \in work[p].owned : o.at # Target(p) \/ o.endpoint = work[p].port}
  IN
  /\ pc[p] = "settle"
  /\ Save(p, owned)
  /\ work' = [work EXCEPT ![p] = [@ EXCEPT !.owned = owned, !.kinds = Tail(work[p].kinds)]]
  /\ Goto(p, "claim")
  /\ UNCHANGED <<facility, taken, lock, channel, held, goal, boundVars, historyVars>>

ServiceDone(p) ==
  /\ pc[p] = "claim" /\ work[p].kinds = <<>>
  /\ work' = [work EXCEPT ![p].services = Tail(@)]
  /\ Goto(p, "service")
  /\ UNCHANGED <<facility, taken, journal, lock, channel, held, goal, boundVars, historyVars>>

\* The end of apply, also without a usable service: what is owned is kept, with the lock.
EndApply(p) ==
  /\ pc[p] = "service" /\ work[p].services = <<>>
  /\ Finish(p, work[p].owned # {})
  /\ UNCHANGED <<facility, taken, journal, channel, boundVars, historyVars>>

-----------------------------------------------------------------------------
(* clear                                                                   *)

\* At start (initialize, a process that was down), on stop and at exit.
BeginClear(p) ==
  /\ pc[p] \in {"idle", "down"}
  /\ \/ /\ Mine(p) = {}
        /\ Goto(p, "idle")
        /\ held' = [held EXCEPT ![p] = FALSE]
        /\ lock' = IF held[p] THEN Free ELSE lock
        /\ UNCHANGED <<goal, work>>
     \/ /\ Mine(p) # {} /\ lock \in {Free, p}
        /\ lock' = p
        /\ StartRestore(p, "clear", Mine(p), ~held[p])
        /\ UNCHANGED held
     \/ /\ Mine(p) # {} /\ lock \notin {Free, p} /\ pc[p] = "down"
        /\ Goto(p, "idle")
        /\ UNCHANGED <<held, lock, goal, work>>
  /\ UNCHANGED <<facility, taken, journal, channel, boundVars, historyVars>>

-----------------------------------------------------------------------------
(* Faults and other programs                                               *)

\* A failed apply rolls back what it attempted.
FailApply(p) ==
  \/ /\ work[p].attempted
     /\ StartRestore(p, "rollback", work[p].owned, FALSE)
     /\ UNCHANGED <<held, lock>>
  \/ /\ ~work[p].attempted
     /\ Finish(p, work[p].owned # {})

\* A networksetup call or the save of a journal fails. A failed save leaves the entry of
\* apply in memory, and a failed restore keeps the entry it could not revert.
Fail(p) ==
  /\ failures < MaxFailures
  /\ failures' = failures + 1
  /\ \/ /\ pc[p] \in {"list", "set", "on", "settle"}
        /\ FailApply(p)
     \/ /\ pc[p] = "claim" /\ work[p].kinds # <<>>
        /\ LET entry == Entry(Target(p), work[p].port)
           IN /\ entry \notin work[p].owned
              /\ StartRestore(p, "rollback", work[p].owned \cup {entry}, FALSE)
        /\ UNCHANGED <<held, lock>>
     \/ /\ \/ pc[p] = "off" /\ Keep(p, work[p].entry)
           \/ pc[p] = "restore" /\ \E entry \in work[p].owned : Keep(p, entry)
        /\ Goto(p, "restore")
        /\ UNCHANGED <<goal, held, lock>>
     \/ /\ pc[p] = "restore" /\ work[p].owned = {}
        /\ AfterRestore(p, TRUE)
  /\ UNCHANGED <<facility, taken, journal, channel, crashes, edits, applies, historyVars>>

\* The process dies: the system drops its lock, the journal stays.
Crash(p) ==
  /\ pc[p] # "down" /\ crashes < MaxCrashes
  /\ crashes' = crashes + 1
  /\ Goto(p, "down")
  /\ goal' = [goal EXCEPT ![p] = "none"]
  /\ held' = [held EXCEPT ![p] = FALSE]
  /\ lock' = IF lock = p THEN Free ELSE lock
  /\ work' = [work EXCEPT ![p] = Idle]
  /\ UNCHANGED <<facility, taken, journal, channel, failures, edits, applies, historyVars>>

\* Another program enables its own proxy, turns one off, or listens on one of the ports.
Edit ==
  /\ edits < MaxEdits
  /\ edits' = edits + 1
  /\ \/ \E f \in Facilities :
          /\ facility' = [facility EXCEPT ![f] = [on |-> TRUE, endpoint |-> Foreign]]
          /\ foreign' = [foreign EXCEPT ![f] = "unseen"]
          /\ UNCHANGED taken
     \/ \E f \in Facilities :
          /\ facility' = [facility EXCEPT ![f].on = FALSE]
          /\ foreign' = [foreign EXCEPT ![f] = "none"]
          /\ UNCHANGED taken
     \/ \E e \in Ports :
          /\ taken' = taken \cup {e}
          /\ UNCHANGED <<facility, foreign>>
  /\ UNCHANGED <<journal, lock, channel, procVars, crashes, failures, applies, forfeited, stolen>>

Step(p) ==
  \/ \E entry \in work[p].owned : RestoreEntry(p, entry)
  \/ TurnOff(p) \/ SaveRestored(p)
  \/ ListServices(p) \/ InspectService(p) \/ ClaimFacility(p) \/ SetEndpoint(p) \/ SetOn(p)
  \/ SettleFacility(p) \/ ServiceDone(p) \/ EndApply(p)

Next ==
  \/ \E p \in Procs : Step(p) \/ BeginClear(p) \/ Fail(p) \/ Crash(p)
  \/ \E p \in Procs, e \in Ports : BeginApply(p, e)
  \/ Edit

Spec == Init /\ [][Next]_vars

-----------------------------------------------------------------------------
(* Properties                                                              *)

\* Journal first: a facility that is on with an endpoint of the client is recorded in a
\* journal, where a restart finds it, whatever died or failed; except for the endpoints
\* a restart found in use by somebody else (vacant_loopback).
OwnedIsJournaled ==
  \A f \in Facilities :
    facility[f].on /\ facility[f].endpoint \in Ports =>
      LET entry == Entry(f, facility[f].endpoint)
      IN entry \in forfeited \/ \E c \in Channels : entry \in journal[c]

\* The client enables nothing on a service where it has seen the facility of another
\* program on, and never turns that facility off ("An enabled foreign facility protects the entire
\* service").
ForeignServiceKept == ~stolen
=============================================================================
