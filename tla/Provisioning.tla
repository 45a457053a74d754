----------------------------- MODULE Provisioning -----------------------------
(***************************************************************************)
(* What a connection needs on disk and who replaces it: attempts of Xray   *)
(* profiles provision the routing data (GeoData) before they write their   *)
(* configuration file (RuntimeFiles), attempts of sing-box profiles run    *)
(* the binary an update may be replacing (CoreUpdate), and an update of    *)
(* the client (AppUpdate) ends the process under all of them.              *)
(***************************************************************************)
EXTENDS Naturals, Sequences, FiniteSets

CONSTANTS
  Attempts, Nobody, Missing, Unreadable, Stable, Current, Here,
  Releases, CoreReleases, Expected, Feeds,
  Installs, OldCore,   \* installations found at first, and the binary one may have
  MaxFaults, MaxTasks, MaxCrashes        \* bounds

VARIABLES
  files, backup, geo, at, cached, pair, disturbed,
  disk, copies, leases, holder, phase, unseen, newest, activeRun, current, live,
  snapshot, rec, checked,
  dest, previous, core, candidate, found,
  shown, agreed, base, app, installer, bundle, aside, running, platform,
  faults,
  engine,       \* attempt -> the engine of its profile, chosen when it begins
  path,         \* attempt -> where it located the sing-box binary
  tasks, crashes   \* attempts and updates begun; ends of the process

Geo == INSTANCE GeoData
Files == INSTANCE RuntimeFiles
Core == INSTANCE CoreUpdate
App == INSTANCE AppUpdate

ASSUME ProvisioningAssumption ==
  /\ Geo!GeoAssumption /\ MaxTasks \in Nat /\ MaxCrashes \in Nat
  /\ Nobody \notin Attempts /\ Missing \notin {"plain", "wired", "partial"}
  /\ Current # Missing /\ \A i \in Installs : i.core \in {Missing, OldCore}

\* What the publisher signs is of the version its manifest gives it: the signature does
\* not say which, the code takes the manifest's word (app_update.rs, install_app_update).
ASSUME PublisherAssumption ==
  \A f \in Feeds : \A h \in DOMAIN f.entry :
    f.entry[h].signature = f.entry[h].artifact => f.entry[h].artifact = f.version

geoOnly == <<files, backup, geo, at, cached, pair, disturbed>>
coreOnly == <<dest, previous, core, candidate, found>>
appOnly == <<shown, agreed, base, app, installer, bundle, aside, running, platform>>
fileOnly == <<disk, copies, leases, holder, phase, unseen, newest, activeRun, current, live,
              snapshot, rec, checked>>
ownVars == <<engine, path, tasks, crashes>>
vars == <<geoOnly, fileOnly, coreOnly, appOnly, faults, ownVars>>

Init ==
  /\ \E i \in Installs :
       /\ Geo!GeoInit(IF i.pair = Missing THEN Geo!NoFiles ELSE Geo!Installed(i.pair))
       /\ Core!CoreInit(i.core)
       /\ App!AppInit(i.platform)
  /\ Files!FilesInit
  /\ engine = [a \in Attempts |-> "singbox"] /\ path = [a \in Attempts |-> "bundled"]
  /\ tasks = 0 /\ crashes = 0

Task == running # Missing /\ tasks < MaxTasks /\ tasks' = tasks + 1

-----------------------------------------------------------------------------
BeginAttempt(a) ==
  /\ Task /\ Files!Begin(a)
  /\ \E e \in {"singbox", "xray"} : engine' = [engine EXCEPT ![a] = e]
  /\ UNCHANGED <<geoOnly, coreOnly, appOnly, faults, path, crashes>>

\* xray::geodata::ensure, awaited before the configuration is written.
Provision(a) ==
  /\ phase[a] = "prepare" /\ engine[a] = "xray"
  /\ Geo!GeoStep(a)
  /\ UNCHANGED <<fileOnly, coreOnly, appOnly, ownVars>>

\* Without routing data the command ends with a profile check issue.
Unprovisioned(a) ==
  /\ phase[a] = "prepare" /\ geo[a] = "refused"
  /\ phase' = [phase EXCEPT ![a] = "ended"]
  /\ UNCHANGED <<disk, copies, leases, holder, unseen, newest, activeRun, current, live,
                 snapshot, rec, checked>>
  /\ UNCHANGED <<geoOnly, coreOnly, appOnly, faults, ownVars>>

\* locate_binary and write_runtime_config; Xray's binary is always the bundled one.
Prepare(a) ==
  /\ engine[a] = "xray" => geo[a] = "served"
  /\ path' = [path EXCEPT ![a] = IF engine[a] = "singbox" THEN Core!Located ELSE "bundled"]
  /\ Files!WriteConfig(a)
  /\ UNCHANGED <<geoOnly, coreOnly, appOnly, faults, engine, tasks, crashes>>

\* The file at the located path is there when it is executed.
Present(a) == path[a] = "bundled" \/ dest # Missing

Launch ==
  /\ \/ \E a \in Attempts : Files!Attempt(a, Present(a))
     \/ Files!EngineStep
     \/ snapshot # Files!NoSnapshot /\ Files!Respawn(Present(snapshot.of))
  /\ UNCHANGED <<geoOnly, coreOnly, appOnly, faults, ownVars>>

BeginCoreUpdate ==
  /\ Task /\ Core!FetchRelease
  /\ UNCHANGED <<geoOnly, disk, copies, leases, holder, phase, unseen, rec, checked,
                 appOnly, engine, path, crashes>>

UpdateCore ==
  /\ rec.step = "idle"                  \* ProcessManager::stop waits for the gate
  /\ Core!CoreStep
  /\ UNCHANGED <<geoOnly, disk, copies, leases, holder, phase, unseen, rec, checked,
                 appOnly, ownVars>>

BeginAppUpdate ==
  /\ Task /\ App!CheckUpdate
  /\ UNCHANGED <<geoOnly, fileOnly, coreOnly, engine, path, crashes>>

UpdateApp ==
  /\ App!Agree \/ App!FetchManifest \/ App!DownloadArtifact \/ App!Helper
  /\ UNCHANGED <<geoOnly, fileOnly, coreOnly, ownVars>>

\* Everything that lived in the process is gone; lib.rs sweeps when it starts again,
\* before anything else reads the directory.
Forget ==
  /\ Geo!GeoForget /\ Files!FilesForget /\ Core!CoreForget
  /\ path' = [a \in Attempts |-> "bundled"] /\ engine' = [a \in Attempts |-> "singbox"]
  /\ UNCHANGED tasks

ExitForInstaller == App!SpawnInstaller /\ Forget /\ UNCHANGED crashes

Crash ==
  /\ running # Missing /\ crashes < MaxCrashes /\ crashes' = crashes + 1
  /\ App!AppForget /\ Forget

Restart ==
  /\ App!StartAgain
  /\ UNCHANGED <<geoOnly, fileOnly, coreOnly, ownVars>>

Next ==
  \/ \E a \in Attempts : BeginAttempt(a) \/ Provision(a) \/ Unprovisioned(a) \/ Prepare(a)
  \/ Launch
  \/ BeginCoreUpdate \/ UpdateCore
  \/ BeginAppUpdate \/ UpdateApp \/ ExitForInstaller
  \/ Crash \/ Restart

Spec == Init /\ [][Next]_vars

-----------------------------------------------------------------------------
(* Properties.                                                             *)

\* An attempt told to use the routing data finds a complete verified pair, whatever an
\* earlier attempt or process left on disk, unless one of its own renames failed or
\* another attempt was changing the files (geodata.rs, ensure and install_pair).
ServedIsComplete == [][Geo!ServesComplete]_vars

\* The same without a condition, as docs/xray-geodata-provenance.md states it: a stale
\* pair stays usable when a refresh fails, a partial one is never active.
AlwaysComplete == [][Geo!AlwaysComplete]_vars

\* No sweep removes the file of a launch under way or of a live engine
\* (commands.rs, cleanup_runtime_configs; preflight.rs, ConfigLease).
ConfigKept == Files!ConfigKept

\* An engine is launched only from a file that the core's own check accepted, also by
\* the fallback and by recovery (commands.rs, start_checked_ready_profile).
LaunchedIsChecked == [][Files!LaunchedIsChecked]_vars

\* A binary that does not report its release's version is never where an engine could
\* be started from, not even between the renames (updates.rs, install_verified_release).
CoreIsProbed == dest \in {Missing, OldCore} \cup {Core!Normal(r.tag) : r \in CoreReleases}

\* A failed update leaves the binary it found (updates.rs, rollback).
FailureKeepsCore == [][Core!FailureKeepsCore]_vars

\* The client is the one asked or the newer one the user agreed to, and it is there when
\* the replacement is over (app_update.rs, install_app_update and its script).
OldOrAgreed == App!OldOrAgreed
=============================================================================
