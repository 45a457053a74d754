----------------------------- MODULE SystemProxy -----------------------------
(***************************************************************************)
(* The operating system's proxy settings as a client of either desktop     *)
(* platform leases them: apply_system_proxy and clear_system_proxy of      *)
(* process.rs are compiled to windows_proxy.rs or to macos_proxy.rs, and   *)
(* lib.rs recovers the lease at start and releases it at exit.  One        *)
(* behaviour is on one platform; both share the processes, their lock and  *)
(* the faults.                                                             *)
(***************************************************************************)
EXTENDS Naturals, Sequences

CONSTANTS
  Procs, Channels, Free, MaxCrashes, MaxFailures, MaxEdits,
  Servers, MaxLeases,                            \* Windows
  Services, Kinds, Ports, Foreign, MaxApplies    \* macOS

VARIABLES
  platform,
  lock, channel, held, pc, goal, work, crashes, failures, edits,
  settings, owner, server, leases, user, claimed, late, overlap,
  facility, taken, journal, applies, foreign, forfeited, stolen

Win == INSTANCE WindowsProxy
Mac == INSTANCE MacProxy

ASSUME LeaseAssumption == Win!ProxyAssumption /\ Mac!MacAssumption

windowsVars == <<settings, owner, server, leases, user, claimed, late, overlap>>
macVars == <<facility, taken, journal, applies, foreign, forfeited, stolen>>
sharedVars == <<lock, channel, held, pc, goal, work, crashes, failures, edits>>
vars == <<platform, sharedVars, windowsVars, macVars>>

Init ==
  \/ /\ platform = "windows"
     /\ Win!Init
     /\ facility = 0 /\ taken = 0 /\ journal = 0 /\ applies = 0
     /\ foreign = 0 /\ forfeited = 0 /\ stolen = 0
  \/ /\ platform = "macos"
     /\ Mac!Init
     /\ settings = 0 /\ owner = 0 /\ server = 0 /\ leases = 0
     /\ user = 0 /\ claimed = 0 /\ late = 0 /\ overlap = 0

WindowsStep == platform = "windows" /\ Win!Next /\ UNCHANGED <<platform, macVars>>
MacStep == platform = "macos" /\ Mac!Next /\ UNCHANGED <<platform, windowsVars>>

Next == WindowsStep \/ MacStep

Spec == Init /\ [][Next]_vars

-----------------------------------------------------------------------------
(* Properties: those of the two leases, each on its platform.              *)

\* On Windows the user's settings can be recovered at any time (windows_proxy.rs,
\* restore_locked; the journal is written before the settings).
AlwaysRecoverable == platform = "windows" => Win!AlwaysRecoverable

\* On Windows the proxy is never on with somebody else's bypass list (transition).
EnabledIsComplete == platform = "windows" => Win!EnabledIsComplete

\* The proxy of another application is left alone: on Windows at most one write lands on
\* one it has just enabled (transition re-checks every value before each write), on
\* macOS no service is touched where one was seen (MacProxy::apply).
ForeignProxyKept ==
  IF platform = "windows" THEN Win!ForeignProxyKept ELSE Mac!ForeignServiceKept

\* On macOS every facility the client turned on is in a journal (MacProxy::apply).
OwnedIsJournaled == platform = "macos" => Mac!OwnedIsJournaled

=============================================================================
