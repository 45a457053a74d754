-------------------------- MODULE Provisioning_proofs --------------------------
(***************************************************************************)
(* What is on disk is safe to use at every step: proofs about Provisioning *)
(* for every number of attempts, every answer of the servers and every     *)
(* bound.  The four parts share only the faults and, with CoreUpdate, the  *)
(* process manager, so that each has an inductive invariant of its own and *)
(* keeps it through the steps of the others.                               *)
(***************************************************************************)
EXTENDS Provisioning, TLAPS

-----------------------------------------------------------------------------
(* The binary of sing-box.                                                 *)

Versions == {Missing, OldCore} \cup {Core!Normal(r.tag) : r \in CoreReleases}

\* Whatever is in one of the three places is the binary found or a release's that has
\* answered its probe.
Probed == dest \in Versions /\ previous \in Versions /\ candidate.binary \in Versions

\* Where the binary the update found is at each step, and that a step back to it needs
\* an operation that failed.
Backed ==
  /\ core \in {"copy", "clear", "out"} => dest = found
  /\ core = "in" => dest = Missing /\ previous = found
  /\ core \in {"probe", "rollback"} => previous = found
  /\ core = "restore" => dest = Missing /\ previous = found
  /\ core \in {"rollback", "restore"} => faults > 0

CoreInv == Probed /\ Backed /\ faults \in Nat

\* A step that leaves the binaries alone.
LEMMA CoreStays ==
  ASSUME CoreInv, UNCHANGED coreOnly, faults' \in Nat, faults' >= faults
  PROVE  CoreInv'
BY DEF CoreInv, Probed, Backed, coreOnly, Versions

\* A candidate is a binary that reported the version of its release.
LEMMA CandidateProbed ==
  ASSUME NEW r \in CoreReleases, NEW e
  PROVE  Core!Candidate(r, e).binary \in Versions
BY DEF Core!Candidate, Core!NoCandidate, Versions

\* A release that is fetched is only a candidate.
LEMMA FetchKeepsCore == CoreInv /\ Core!FetchRelease => CoreInv'
<1> SUFFICES ASSUME CoreInv, Core!FetchRelease PROVE CoreInv'
  OBVIOUS
<1>1. PICK r \in CoreReleases, e \in Expected :
        candidate' = Core!Candidate(r, e) /\ core' \in {"failed", "stop"}
  BY DEF Core!FetchRelease
<1>2. candidate'.binary \in Versions
  BY <1>1, CandidateProbed
<1> QED
  BY <1>1, <1>2 DEF CoreInv, Probed, Backed, Core!FetchRelease, Versions

\* The renames, the probe and the rollback of install_verified_release.
LEMMA StepKeepsCore == CoreInv /\ Core!CoreStep => CoreInv'
<1> SUFFICES ASSUME CoreInv, Core!CoreStep PROVE CoreInv'
  OBVIOUS
<1> USE DEF CoreInv, Probed, Backed, Versions, Core!Goes, Core!Gives, Core!Fails
<1>1. CASE Core!StopEngine
  BY <1>1 DEF Core!StopEngine
<1>2. CASE Core!StillStopped
  BY <1>2 DEF Core!StillStopped
<1>3. CASE Core!CopyBeside
  BY <1>3 DEF Core!CopyBeside
<1>4. CASE Core!ClearPrevious
  BY <1>4 DEF Core!ClearPrevious
<1>5. CASE Core!MoveOut
  BY <1>5 DEF Core!MoveOut
<1>6. CASE Core!MoveIn
  BY <1>6 DEF Core!MoveIn
<1>7. CASE Core!ProbeInstalled
  BY <1>7 DEF Core!ProbeInstalled
<1>8. CASE Core!RemoveNew
  BY <1>8 DEF Core!RemoveNew
<1>9. CASE Core!MoveBack
  BY <1>9 DEF Core!MoveBack
<1> QED
  BY <1>1, <1>2, <1>3, <1>4, <1>5, <1>6, <1>7, <1>8, <1>9 DEF Core!CoreStep

\* A process that ends leaves the binaries where they are.
LEMMA ForgetKeepsCore == CoreInv /\ Core!CoreForget /\ UNCHANGED faults => CoreInv'
BY DEF CoreInv, Probed, Backed, Versions, Core!CoreForget, Core!NoCandidate

\* An operation of the routing data or of the client fails at most once more.
LEMMA GeoFaults ==
  ASSUME NEW a \in Attempts, Geo!GeoStep(a)
  PROVE  UNCHANGED faults \/ faults' = faults + 1
<1> USE DEF Geo!Fault, Geo!Broken, Geo!Smooth
<1>1. CASE Geo!Ensure(a)
  BY <1>1, Zenon DEF Geo!Ensure
<1>2. CASE Geo!FetchPair(a)
  BY <1>2, Zenon DEF Geo!FetchPair
<1>3. CASE Geo!WriteTemporaries(a)
  BY <1>3, Zenon DEF Geo!WriteTemporaries
<1>4. CASE Geo!MoveAway(a)
  BY <1>4, Zenon DEF Geo!MoveAway
<1>5. CASE Geo!MoveAwayFails(a)
  BY <1>5, Zenon DEF Geo!MoveAwayFails
<1>6. CASE Geo!Place(a)
  BY <1>6, Zenon DEF Geo!Place
<1>7. CASE Geo!DropBackups(a)
  BY <1>7, Zenon DEF Geo!DropBackups
<1>8. CASE Geo!RemoveTarget(a)
  BY <1>8, Zenon DEF Geo!RemoveTarget
<1>9. CASE Geo!RestoreBackup(a)
  BY <1>9, Zenon DEF Geo!RestoreBackup
<1> QED
  BY <1>1, <1>2, <1>3, <1>4, <1>5, <1>6, <1>7, <1>8, <1>9, Zenon DEF Geo!GeoStep

\* The client update moves no binary; at most it uses up a fault.
LEMMA AppFaults ==
  ASSUME BeginAppUpdate \/ UpdateApp \/ ExitForInstaller
  PROVE  UNCHANGED faults \/ faults' = faults + 1
<1> USE DEF App!Step, App!Stumbles
<1>1. CASE BeginAppUpdate
  BY <1>1 DEF BeginAppUpdate, App!CheckUpdate
<1>2. CASE ExitForInstaller
  BY <1>2 DEF ExitForInstaller, App!SpawnInstaller
<1>3. CASE App!Agree \/ App!FetchManifest \/ App!DownloadArtifact
  BY <1>3 DEF App!Agree, App!FetchManifest, App!DownloadArtifact
<1>4. CASE App!Helper
  BY <1>4 DEF App!Helper, App!Setup, App!HelperCopies, App!HelperMovesOut, App!HelperMovesIn,
     App!HelperDetaches, App!HelperRollsBack
<1> QED
  BY <1>1, <1>2, <1>3, <1>4 DEF UpdateApp

\* At first the binary found is in its place.
LEMMA InitCore == Init => CoreInv
BY ProvisioningAssumption DEF Init, Core!CoreInit, Geo!GeoInit, CoreInv, Probed, Backed, Versions,
   Core!NoCandidate

\* Every step of the system keeps the binaries where the invariant says.
LEMMA NextCore == CoreInv /\ [Next]_vars => CoreInv'
<1> SUFFICES ASSUME CoreInv, [Next]_vars PROVE CoreInv'
  OBVIOUS
<1>0. faults \in Nat
  BY DEF CoreInv
<1>1. ASSUME NEW a \in Attempts, BeginAttempt(a) \/ Unprovisioned(a) \/ Prepare(a) PROVE CoreInv'
  BY <1>0, <1>1, CoreStays DEF BeginAttempt, Unprovisioned, Prepare, coreOnly
<1>2. ASSUME NEW a \in Attempts, Provision(a) PROVE CoreInv'
  <2>1. UNCHANGED coreOnly /\ (UNCHANGED faults \/ faults' = faults + 1)
    BY <1>2, GeoFaults DEF Provision
  <2> QED
    BY <1>0, <2>1, CoreStays
<1>3. CASE Launch
  BY <1>0, <1>3, CoreStays DEF Launch
<1>4. CASE BeginCoreUpdate
  BY <1>4, FetchKeepsCore DEF BeginCoreUpdate
<1>5. CASE UpdateCore
  BY <1>5, StepKeepsCore DEF UpdateCore
<1>6. CASE BeginAppUpdate \/ UpdateApp
  <2>1. UNCHANGED coreOnly /\ (UNCHANGED faults \/ faults' = faults + 1)
    BY <1>6, AppFaults DEF BeginAppUpdate, UpdateApp
  <2> QED
    BY <1>0, <2>1, CoreStays
<1>7. CASE ExitForInstaller \/ Crash
  <2>1. Core!CoreForget /\ Geo!GeoForget
    BY <1>7 DEF ExitForInstaller, Crash, Forget
  <2>2. UNCHANGED faults
    BY <2>1 DEF Geo!GeoForget
  <2> QED
    BY <2>1, <2>2, ForgetKeepsCore
<1>8. CASE Restart
  BY <1>0, <1>8, CoreStays DEF Restart, App!StartAgain
<1>9. CASE UNCHANGED vars
  BY <1>0, <1>9, CoreStays DEF vars
<1> QED
  BY <1>1, <1>2, <1>3, <1>4, <1>5, <1>6, <1>7, <1>8, <1>9 DEF Next

\* The binaries are where the invariant says, and each was probed or found.
THEOREM CoreHolds == Spec => []CoreInv
BY InitCore, NextCore, PTL DEF Spec

\* A binary that does not report its release's version is never where an engine could be
\* started from, at no point between the renames (updates.rs, install_verified_release).
THEOREM InstalledIsProbed == Spec => []CoreIsProbed
<1>1. CoreInv => CoreIsProbed
  BY DEF CoreInv, Probed, CoreIsProbed, Versions
<1> QED
  BY <1>1, CoreHolds, PTL

\* An update that fails leaves the binary it found, unless the rename that restores it
\* fails as well (updates.rs, rollback).
THEOREM FailureKeepsBinary == Spec => FailureKeepsCore
<1>1. CoreInv /\ [Next]_vars => [Core!FailureKeepsCore]_vars
  <2> SUFFICES ASSUME CoreInv, Next, core \notin {"idle", "stop", "again", "failed"},
                      core' = "failed", faults' <= 1
               PROVE  dest' = found
    BY DEF Core!FailureKeepsCore
  <2>1. CASE UpdateCore
    <3> USE DEF CoreInv, Backed, Core!Goes, Core!Gives, Core!Fails
    <3>1. CASE Core!CopyBeside \/ Core!ClearPrevious \/ Core!MoveOut
      BY <3>1 DEF Core!CopyBeside, Core!ClearPrevious, Core!MoveOut
    <3>2. CASE Core!MoveBack
      BY <3>2 DEF Core!MoveBack
    <3> QED
      BY <2>1, <3>1, <3>2 DEF UpdateCore, Core!CoreStep, Core!StopEngine, Core!StillStopped,
         Core!MoveIn, Core!ProbeInstalled, Core!RemoveNew
  <2>2. CASE BeginCoreUpdate
    BY <2>2 DEF BeginCoreUpdate, Core!FetchRelease
  <2>3. CASE ExitForInstaller \/ Crash
    BY <2>3 DEF ExitForInstaller, Crash, Forget, Core!CoreForget
  <2> QED
    BY <2>1, <2>2, <2>3 DEF Next, BeginAttempt, Provision, Unprovisioned, Prepare, Launch,
       BeginAppUpdate, UpdateApp, Restart, coreOnly
<1> QED
  BY <1>1, CoreHolds, PTL DEF Spec, FailureKeepsCore

-----------------------------------------------------------------------------
(* The client.                                                             *)

\* What is offered is newer than the client that offers it, and goes with it.
Offering ==
  /\ shown # Missing => running # Missing /\ App!Newer(shown, running)
  /\ agreed # Missing => App!Newer(agreed, base)
  /\ app # "idle" => agreed # Missing
  /\ base # Missing

\* The client that runs while no helper changes what is installed is the installed one,
\* and the one that asks is the one asked.
Asked ==
  /\ app \in {"idle", "fetch", "download", "spawn"} /\ running # Missing => running = bundle
  /\ app \in {"fetch", "download", "spawn"} => running # Missing /\ running = base

\* The entry taken is of the version agreed to, and the installer verified is too.
Taken ==
  /\ app = "download" /\ installer.signature = installer.artifact =>
       installer.artifact = agreed
  /\ app \in {"spawn", "setup", "mount", "out", "in"} => installer.artifact = agreed

\* Where the two clients are at each step of the helper.
Replaced ==
  /\ app \in {"fetch", "download", "spawn", "setup", "mount", "out"} => bundle = base
  /\ app \in {"in", "detach", "undo"} => aside = base
  /\ app = "detach" => bundle = agreed

AppInv == Offering /\ Asked /\ Taken /\ Replaced /\ OldOrAgreed

\* A step of another part leaves the client update alone.
LEMMA AppStays ==
  ASSUME AppInv, UNCHANGED appOnly
  PROVE  AppInv'
BY DEF AppInv, Offering, Asked, Taken, Replaced, OldOrAgreed, App!OldOrAgreed, appOnly

\* At first the client is the one installed.
LEMMA InitApp == Init => AppInv
BY ProvisioningAssumption DEF Init, App!AppInit, AppInv, Offering, Asked, Taken, Replaced, OldOrAgreed,
   App!OldOrAgreed

\* The entry accepted for an installation is of the version agreed to.
LEMMA ManifestKeepsApp == AppInv /\ App!FetchManifest => AppInv'
<1> SUFFICES ASSUME AppInv, App!FetchManifest PROVE AppInv'
  OBVIOUS
<1> USE DEF AppInv, Offering, Asked, Taken, Replaced, OldOrAgreed, App!OldOrAgreed
<1>1. PICK f \in Feeds :
        IF App!Accepted(f) THEN installer' = f.entry[platform] /\ App!Step("download")
                           ELSE UNCHANGED installer /\ App!Step("idle")
  BY DEF App!FetchManifest
<1>2. /\ app = "fetch"
      /\ UNCHANGED <<shown, agreed, base, bundle, aside, running, platform>>
  BY DEF App!FetchManifest
<1>3. CASE App!Accepted(f)
  <2>1. platform \in DOMAIN f.entry /\ f.version = agreed
    BY <1>2, <1>3 DEF App!Accepted, App!Offered, App!Installable, App!EnsureExpected
  <2>2. installer'.signature = installer'.artifact => installer'.artifact = agreed
    BY <1>1, <1>3, <2>1, PublisherAssumption
  <2> QED
    BY <1>1, <1>2, <1>3, <2>2 DEF App!Step
<1>4. CASE ~App!Accepted(f)
  BY <1>1, <1>2, <1>4 DEF App!Step
<1> QED
  BY <1>3, <1>4

\* Every step of the client update, and a start after it.
LEMMA StepKeepsApp ==
  ASSUME AppInv,
         \/ App!CheckUpdate \/ App!Agree \/ App!DownloadArtifact \/ App!SpawnInstaller
         \/ App!Helper \/ App!AppForget \/ App!StartAgain
  PROVE  AppInv'
<1> USE DEF AppInv, Offering, Asked, Taken, Replaced, OldOrAgreed, App!OldOrAgreed, App!Step
<1>1. CASE App!CheckUpdate
  BY <1>1 DEF App!CheckUpdate, App!Offered, App!Running
<1>2. CASE App!Agree
  BY <1>2 DEF App!Agree, App!Running
<1>3. CASE App!DownloadArtifact
  BY <1>3 DEF App!DownloadArtifact
<1>4. CASE App!SpawnInstaller
  BY <1>4 DEF App!SpawnInstaller
<1>5. CASE App!Setup
  BY <1>5 DEF App!Setup
<1>6. CASE App!HelperCopies
  BY <1>6 DEF App!HelperCopies
<1>7. CASE App!HelperMovesOut
  BY <1>7 DEF App!HelperMovesOut
<1>8. CASE App!HelperMovesIn
  BY <1>8 DEF App!HelperMovesIn
<1>9. CASE App!HelperDetaches
  BY <1>9 DEF App!HelperDetaches
<1>10. CASE App!HelperRollsBack
  BY <1>10 DEF App!HelperRollsBack
<1>11. CASE App!AppForget
  BY <1>11 DEF App!AppForget
<1>12. CASE App!StartAgain
  BY <1>12 DEF App!StartAgain, App!Running
<1> QED
  BY <1>1, <1>2, <1>3, <1>4, <1>5, <1>6, <1>7, <1>8, <1>9, <1>10, <1>11, <1>12 DEF App!Helper

\* Every step of the system keeps the client the old or the agreed one.
LEMMA NextApp == AppInv /\ [Next]_vars => AppInv'
<1> SUFFICES ASSUME AppInv, [Next]_vars PROVE AppInv'
  OBVIOUS
<1>1. CASE BeginAppUpdate \/ ExitForInstaller \/ Crash \/ Restart
  BY <1>1, StepKeepsApp DEF BeginAppUpdate, ExitForInstaller, Crash, Restart
<1>2. CASE UpdateApp
  BY <1>2, StepKeepsApp, ManifestKeepsApp DEF UpdateApp
<1>3. CASE UNCHANGED appOnly
  BY <1>3, AppStays
<1> QED
  BY <1>1, <1>2, <1>3 DEF Next, BeginAttempt, Provision, Unprovisioned, Prepare, Launch,
     BeginCoreUpdate, UpdateCore, vars

\* The client is the one asked or the newer one the user agreed to, and it is there when
\* the replacement is over, unless the rollback failed as well (app_update.rs,
\* install_app_update and spawn_installer_and_exit).
THEOREM ClientIsAgreed == Spec => []OldOrAgreed
<1>1. AppInv => OldOrAgreed
  BY DEF AppInv
<1> QED
  BY <1>1, InitApp, NextApp, PTL DEF Spec

-----------------------------------------------------------------------------
(* The routing data.                                                       *)

GeoSteps == {"new", "fetch", "write", "backup", "place", "drop", "undo", "restore",
             "served", "refused"}
FileNames == {"geoip", "geosite", "state"}

GeoTyped ==
  /\ files = [n \in FileNames |-> files[n]] /\ backup = [n \in FileNames |-> backup[n]]
  /\ geo \in [Attempts -> GeoSteps] /\ at \in [Attempts -> 1..3]
  /\ disturbed \in [Attempts -> BOOLEAN] /\ cached \in [Attempts -> BOOLEAN]
  /\ pair = [a \in Attempts |-> pair[a]]

\* Until an attempt changes the files itself, what it found complete is complete.
FoundWhole(a) == geo[a] \in {"fetch", "write"} /\ cached[a] /\ ~disturbed[a] => Geo!Whole

\* An attempt installs a verified pair, file by file.
Verified(a) == geo[a] \in {"write", "backup", "place", "drop"} => pair[a] # Missing
Placed(a) ==
  ~disturbed[a] =>
    /\ geo[a] = "place" =>
         \A i \in 1..3 : i < at[a] => files[Geo!Names[i]] = Geo!Installed(pair[a])[Geo!Names[i]]
    /\ geo[a] = "drop" => files = Geo!Installed(pair[a])

\* Only a rename that failed is rolled back.
RolledBack(a) == geo[a] \in {"undo", "restore"} => disturbed[a]

Sound(a) == FoundWhole(a) /\ Verified(a) /\ Placed(a) /\ RolledBack(a)

GeoInv == GeoTyped /\ \A a \in Attempts : Sound(a)

\* The three files of the routing data, in the order of the renames.
LEMMA NamesAre ==
  /\ Geo!Names = <<"geoip", "geosite", "state">> /\ Len(Geo!Names) = 3
  /\ \A i \in 1..3 : Geo!Names[i] \in FileNames
  /\ Geo!ToSet(Geo!Names) = FileNames /\ Geo!ToSet(Geo!Data) = {"geoip", "geosite"}
<1>1. Geo!Names = <<"geoip", "geosite", "state">>
  BY DEF Geo!Names
<1>2. DOMAIN Geo!Names = 1..3 /\ DOMAIN Geo!Data = 1..2
  BY <1>1 DEF Geo!Data
<1> QED
  BY <1>1, <1>2 DEF Geo!Data, Geo!ToSet, FileNames

\* What the reader of the state file finds complete is the pair the state file names.
LEMMA CompleteIsWhole == GeoTyped /\ Geo!Complete => Geo!Whole
BY NamesAre DEF GeoTyped, Geo!Complete, Geo!Whole, Geo!Installed, FileNames

\* A pair installed file by file is whole.
LEMMA InstalledIsWhole ==
  ASSUME NEW p, p # Missing, files = Geo!Installed(p)
  PROVE  Geo!Whole
BY NamesAre DEF Geo!Whole, Geo!Installed, FileNames

\* A step of another part leaves the routing data alone.
LEMMA GeoStays ==
  ASSUME GeoInv, UNCHANGED geoOnly
  PROVE  GeoInv'
BY DEF GeoInv, GeoTyped, Sound, FoundWhole, Verified, Placed, RolledBack, geoOnly, Geo!Whole

\* At first the directory holds a whole pair or nothing.
LEMMA InitGeo == Init => GeoInv
<1> SUFFICES ASSUME Init PROVE GeoInv
  OBVIOUS
<1>1. PICK i \in Installs :
        Geo!GeoInit(IF i.pair = Missing THEN Geo!NoFiles ELSE Geo!Installed(i.pair))
  BY DEF Init
<1>2. /\ files = Geo!NoFiles \/ files = Geo!Installed(i.pair)
      /\ backup = Geo!NoFiles
  BY <1>1 DEF Geo!GeoInit
<1>3. files = [n \in FileNames |-> files[n]] /\ backup = [n \in FileNames |-> backup[n]]
  BY <1>2, NamesAre DEF Geo!NoFiles, Geo!Installed
<1>4. /\ geo = [a \in Attempts |-> "new"] /\ at = [a \in Attempts |-> 1]
      /\ cached = [a \in Attempts |-> FALSE] /\ disturbed = [a \in Attempts |-> FALSE]
      /\ pair = [a \in Attempts |-> Missing]
  BY <1>1 DEF Geo!GeoInit
<1>5. GeoTyped
  BY <1>3, <1>4 DEF GeoTyped, GeoSteps
<1> QED
  BY <1>4, <1>5 DEF GeoInv, Sound, FoundWhole, Verified, Placed, RolledBack

\* Who changes the files disturbs every other attempt that is under way.
LEMMA Disturbs ==
  ASSUME GeoTyped, NEW a \in Attempts, Geo!Smooth(a) \/ Geo!Broken(a)
  PROVE  /\ disturbed' \in [Attempts -> BOOLEAN]
         /\ \A b \in Attempts : disturbed[b] => disturbed'[b]
         /\ \A b \in Attempts \ {a} : geo[b] \notin Geo!GeoIdle => disturbed'[b]
         /\ Geo!Broken(a) => disturbed'[a]
<1>1. CASE Geo!Smooth(a)
  BY <1>1 DEF GeoTyped, Geo!Smooth, Geo!Broken, Geo!Interrupted
<1>2. CASE Geo!Broken(a)
  BY <1>2 DEF GeoTyped, Geo!Broken, Geo!Interrupted
<1> QED
  BY <1>1, <1>2

\* A loop over the three files moves to the next one or, after the last, to its next step.
LEMMA Loops ==
  ASSUME GeoTyped, NEW a \in Attempts, NEW step \in GeoSteps, Geo!Loop(a, step)
  PROVE  /\ at' \in [Attempts -> 1..3] /\ geo' \in [Attempts -> GeoSteps]
         /\ \A b \in Attempts \ {a} : at'[b] = at[b] /\ geo'[b] = geo[b]
         /\ \/ at[a] < 3 /\ at'[a] = at[a] + 1 /\ geo'[a] = geo[a]
            \/ at[a] = 3 /\ at'[a] = 1 /\ geo'[a] = step
BY NamesAre DEF GeoTyped, Geo!Loop, Geo!GoTo

\* What holds of another attempt goes on holding: either the files are as they were or it
\* has been disturbed.
LEMMA OthersSound ==
  ASSUME GeoInv, NEW b \in Attempts, geo'[b] = geo[b], at'[b] = at[b],
         cached'[b] = cached[b], pair'[b] = pair[b], disturbed[b] => disturbed'[b],
         UNCHANGED files \/ (geo[b] \notin Geo!GeoIdle => disturbed'[b])
  PROVE  Sound(b)'
<1>1. CASE UNCHANGED files
  BY <1>1 DEF GeoInv, Sound, FoundWhole, Verified, Placed, RolledBack, Geo!Whole
<1>2. CASE geo[b] \notin Geo!GeoIdle => disturbed'[b]
  BY <1>2 DEF GeoInv, Sound, FoundWhole, Verified, Placed, RolledBack, Geo!GeoIdle
<1> QED
  BY <1>1, <1>2

\* What is left of a step of a, once it has kept the types and what holds of a.
LEMMA StepSound ==
  ASSUME GeoInv, NEW a \in Attempts, GeoTyped', Sound(a)',
         \A b \in Attempts \ {a} :
           geo'[b] = geo[b] /\ at'[b] = at[b] /\ cached'[b] = cached[b] /\ pair'[b] = pair[b],
         UNCHANGED <<files, disturbed>> \/ Geo!Smooth(a) \/ Geo!Broken(a)
  PROVE  GeoInv'
<1>1. ASSUME NEW b \in Attempts \ {a} PROVE Sound(b)'
  <2>1. CASE UNCHANGED <<files, disturbed>>
    BY <2>1, OthersSound
  <2>2. CASE Geo!Smooth(a) \/ Geo!Broken(a)
    BY <2>2, Disturbs, OthersSound DEF GeoInv
  <2> QED
    BY <2>1, <2>2
<1> QED
  BY <1>1 DEF GeoInv

\* ensure: the cached pair is served, or a release is looked up.
LEMMA EnsureSound ==
  ASSUME GeoInv, NEW a \in Attempts, Geo!Ensure(a)
  PROVE  GeoInv'
<1>1. /\ UNCHANGED <<files, backup, at, pair, disturbed>>
      /\ cached' = [cached EXCEPT ![a] = Geo!Complete]
      /\ geo' = [geo EXCEPT ![a] = "served"] \/ geo' = [geo EXCEPT ![a] = "fetch"]
  BY DEF Geo!Ensure, Geo!GoTo
<1>2. Geo!Complete \in BOOLEAN
  BY DEF Geo!Complete
<1>3. GeoTyped'
  <2>1. cached' \in [Attempts -> BOOLEAN] /\ geo' \in [Attempts -> GeoSteps]
    BY <1>1, <1>2 DEF GeoInv, GeoTyped, GeoSteps
  <2> QED
    BY <1>1, <2>1 DEF GeoInv, GeoTyped
<1>4. geo'[a] \in {"served", "fetch"} /\ (cached'[a] => Geo!Complete)
  BY <1>1 DEF GeoInv, GeoTyped
<1>5. cached'[a] => Geo!Whole'
  BY <1>1, <1>4, CompleteIsWhole DEF GeoInv, Geo!Whole
<1>6. Sound(a)'
  BY <1>4, <1>5 DEF Sound, FoundWhole, Verified, Placed, RolledBack
<1> QED
  BY <1>1, <1>3, <1>6, StepSound DEF GeoInv, GeoTyped

\* The release is fetched and verified.
LEMMA FetchSound ==
  ASSUME GeoInv, NEW a \in Attempts, Geo!FetchPair(a)
  PROVE  GeoInv'
<1>1. PICK r \in Releases :
        /\ pair' = [pair EXCEPT ![a] = Geo!ReleasePair(r)]
        /\ IF Geo!ReleasePair(r) = Missing THEN Geo!Answer(a, FALSE) ELSE Geo!GoTo(a, "write")
  BY DEF Geo!FetchPair
<1>2. geo[a] = "fetch" /\ UNCHANGED <<files, backup, at, cached, faults, disturbed>>
  BY DEF Geo!FetchPair
<1>3. \E s \in {"served", "refused", "write"} : geo' = [geo EXCEPT ![a] = s]
  BY <1>1 DEF Geo!Answer, Geo!GoTo
<1>4. GeoTyped'
  BY <1>1, <1>2, <1>3 DEF GeoInv, GeoTyped, GeoSteps
<1>5. geo'[a] \in {"served", "refused", "write"} /\ (geo'[a] = "write" => pair'[a] # Missing)
  BY <1>1, <1>3 DEF GeoInv, GeoTyped, Geo!Answer, Geo!GoTo
<1>6. Sound(a)'
  BY <1>2, <1>5 DEF GeoInv, Sound, FoundWhole, Verified, Placed, RolledBack, Geo!Whole
<1> QED
  BY <1>1, <1>2, <1>3, <1>4, <1>6, StepSound DEF GeoInv, GeoTyped

\* The verified pair is written beside the one in use.
LEMMA WriteSound ==
  ASSUME GeoInv, NEW a \in Attempts, Geo!WriteTemporaries(a)
  PROVE  GeoInv'
<1>1. geo[a] = "write" /\ UNCHANGED <<files, backup, at, cached, pair, disturbed>>
  BY DEF Geo!WriteTemporaries
<1>2. \E s \in {"served", "refused", "backup"} : geo' = [geo EXCEPT ![a] = s]
  BY DEF Geo!WriteTemporaries, Geo!Answer, Geo!GoTo
<1>3. GeoTyped'
  BY <1>1, <1>2 DEF GeoInv, GeoTyped, GeoSteps
<1>4. Sound(a)'
  BY <1>1, <1>2 DEF GeoInv, GeoTyped, Sound, FoundWhole, Verified, Placed, RolledBack
<1> QED
  BY <1>1, <1>2, <1>3, <1>4, StepSound DEF GeoInv, GeoTyped

\* A file in use is moved aside, or the rename fails and the rollback begins.
LEMMA MoveAwaySound ==
  ASSUME GeoInv, NEW a \in Attempts, Geo!MoveAway(a) \/ Geo!MoveAwayFails(a)
  PROVE  GeoInv'
<1> DEFINE n == Geo!Names[at[a]]
<1>0. n \in FileNames
  BY NamesAre DEF GeoInv, GeoTyped
<1>1. CASE Geo!MoveAway(a)
  <2>1. /\ geo[a] = "backup" /\ UNCHANGED <<cached, pair>>
        /\ backup' = [backup EXCEPT ![n] = files[n]] /\ files' = [files EXCEPT ![n] = Missing]
        /\ Geo!Loop(a, "place") /\ Geo!Smooth(a)
    BY <1>1 DEF Geo!MoveAway
  <2>2. GeoTyped'
    BY <1>0, <2>1, Loops, Disturbs DEF GeoInv, GeoTyped, GeoSteps
  <2>3. geo'[a] = "backup" \/ (geo'[a] = "place" /\ at'[a] = 1)
    BY <2>1, Loops DEF GeoInv, GeoSteps
  <2>4. Sound(a)'
    BY <2>1, <2>3 DEF GeoInv, Sound, FoundWhole, Verified, Placed, RolledBack
  <2> QED
    BY <2>1, <2>2, <2>4, Loops, StepSound DEF GeoInv, GeoSteps
<1>2. CASE Geo!MoveAwayFails(a)
  <2>1. /\ UNCHANGED <<files, cached, pair>> /\ backup' = [backup EXCEPT ![n] = Missing]
        /\ geo' = [geo EXCEPT ![a] = "undo"] /\ at' = [at EXCEPT ![a] = 1] /\ Geo!Broken(a)
    BY <1>2 DEF Geo!MoveAwayFails, Geo!GoTo
  <2>2. GeoTyped'
    BY <1>0, <2>1, Disturbs, SMTT(30) DEF GeoInv, GeoTyped, GeoSteps
  <2>3. geo'[a] = "undo" /\ disturbed'[a]
    BY <2>1, Disturbs DEF GeoInv, GeoTyped
  <2>4. Sound(a)'
    BY <2>3 DEF Sound, FoundWhole, Verified, Placed, RolledBack
  <2> QED
    BY <2>1, <2>2, <2>4, StepSound DEF GeoInv, GeoTyped
<1> QED
  BY <1>1, <1>2

\* A new file takes its place.
LEMMA PlaceSound ==
  ASSUME GeoInv, NEW a \in Attempts, Geo!Place(a)
  PROVE  GeoInv'
<1> DEFINE n == Geo!Names[at[a]]
<1>0. n \in FileNames
  BY NamesAre DEF GeoInv, GeoTyped
<1>1. geo[a] = "place" /\ UNCHANGED <<backup, cached, pair>>
  BY DEF Geo!Place
<1>2. CASE /\ files' = [files EXCEPT ![n] = Geo!Installed(pair[a])[n]]
           /\ Geo!Loop(a, "drop") /\ Geo!Smooth(a)
  <2>1. GeoTyped'
    BY <1>0, <1>1, <1>2, Loops, Disturbs DEF GeoInv, GeoTyped, GeoSteps
  <2>2. /\ \/ at[a] < 3 /\ at'[a] = at[a] + 1 /\ geo'[a] = "place"
           \/ at[a] = 3 /\ geo'[a] = "drop"
        /\ at[a] \in 1..3 /\ pair'[a] = pair[a] /\ pair[a] # Missing
    BY <1>1, <1>2, Loops DEF GeoInv, GeoTyped, GeoSteps, Sound, Verified
  <2>3. ASSUME ~disturbed'[a] PROVE Placed(a)'
    <3>1. \A i \in 1..3 : i < at[a] =>
            files[Geo!Names[i]] = Geo!Installed(pair[a])[Geo!Names[i]]
      BY <1>1, <1>2, <2>3, Disturbs DEF GeoInv, Sound, Placed
    <3>2. \A i \in 1..3 : i <= at[a] =>
            files'[Geo!Names[i]] = Geo!Installed(pair[a])[Geo!Names[i]]
      BY <1>0, <1>2, <2>2, <3>1 DEF GeoInv, GeoTyped
    <3>3. CASE geo'[a] = "place"
      BY <2>2, <3>2, <3>3 DEF Placed
    <3>4. CASE geo'[a] = "drop"
      <4>1. \A m \in FileNames : files'[m] = Geo!Installed(pair[a])[m]
        BY <2>2, <3>2, <3>4, NamesAre DEF FileNames
      <4>2. files' = Geo!Installed(pair[a])
        BY <2>1, <4>1, NamesAre DEF GeoTyped, Geo!Installed
      <4> QED
        BY <2>2, <3>4, <4>2 DEF Placed
    <3> QED
      BY <2>2, <3>3, <3>4
  <2>4. Sound(a)'
    BY <2>2, <2>3 DEF Sound, FoundWhole, Verified, Placed, RolledBack
  <2> QED
    BY <1>1, <1>2, <2>1, <2>4, Loops, StepSound DEF GeoInv, GeoSteps
<1>3. CASE /\ Geo!GoTo(a, "undo") /\ at' = [at EXCEPT ![a] = 1] /\ Geo!Broken(a)
           /\ UNCHANGED files
  <2>1. geo' = [geo EXCEPT ![a] = "undo"]
    BY <1>3 DEF Geo!GoTo
  <2>2. GeoTyped'
    BY <1>1, <1>3, <2>1, Disturbs DEF GeoInv, GeoTyped, GeoSteps
  <2>3. geo'[a] = "undo" /\ disturbed'[a]
    BY <1>3, <2>1, Disturbs DEF GeoInv, GeoTyped
  <2>4. Sound(a)'
    BY <2>3 DEF Sound, FoundWhole, Verified, Placed, RolledBack
  <2> QED
    BY <1>1, <1>3, <2>1, <2>2, <2>4, StepSound DEF GeoInv, GeoTyped
<1> QED
  BY <1>2, <1>3 DEF Geo!Place

\* The files moved aside are removed.
LEMMA DropSound ==
  ASSUME GeoInv, NEW a \in Attempts, Geo!DropBackups(a)
  PROVE  GeoInv'
<1>1. /\ UNCHANGED <<files, at, cached, pair>> /\ backup' = Geo!NoFiles /\ Geo!Smooth(a)
      /\ geo' = [geo EXCEPT ![a] = "served"]
  BY DEF Geo!DropBackups, Geo!Answer, Geo!GoTo
<1>2. GeoTyped'
  <2>1. backup' = [n \in FileNames |-> backup'[n]]
    BY <1>1, NamesAre DEF Geo!NoFiles
  <2> QED
    BY <1>1, <2>1, Disturbs DEF GeoInv, GeoTyped, GeoSteps
<1>3. Sound(a)'
  BY <1>1 DEF GeoInv, GeoTyped, Sound, FoundWhole, Verified, Placed, RolledBack
<1> QED
  BY <1>1, <1>2, <1>3, StepSound DEF GeoInv, GeoTyped

\* The steps of a rollback: whatever they do to the files, the attempt is disturbed.
LEMMA UndoSound ==
  ASSUME GeoInv, NEW a \in Attempts, Geo!RemoveTarget(a) \/ Geo!RestoreBackup(a)
  PROVE  GeoInv'
<1> DEFINE n == Geo!Names[at[a]]
<1>0. n \in FileNames /\ at[a] \in 1..3 /\ Len(Geo!Names) = 3
  BY NamesAre DEF GeoInv, GeoTyped
<1>1. /\ UNCHANGED <<cached, pair>> /\ (Geo!Smooth(a) \/ Geo!Broken(a))
      /\ geo[a] \in {"undo", "restore"}
      /\ files' \in {files, [files EXCEPT ![n] = Missing], [files EXCEPT ![n] = backup[n]]}
      /\ backup' \in {backup, [backup EXCEPT ![n] = Missing]}
  BY DEF Geo!RemoveTarget, Geo!RestoreBackup
<1>2. /\ at' \in [Attempts -> 1..3] /\ geo' \in [Attempts -> GeoSteps]
      /\ \A b \in Attempts \ {a} : at'[b] = at[b] /\ geo'[b] = geo[b]
      /\ geo'[a] \in {"undo", "restore", "served", "refused"}
  <2>1. CASE Geo!RemoveTarget(a)
    <3>1. geo[a] = "undo" /\ Geo!Loop(a, "restore")
      BY <2>1 DEF Geo!RemoveTarget
    <3> QED
      BY <3>1, Loops DEF GeoInv, GeoSteps
  <2>2. CASE Geo!RestoreBackup(a)
    <3>1. geo[a] = "restore"
      BY <2>2 DEF Geo!RestoreBackup
    <3>2. \/ at[a] < 3 /\ at' = [at EXCEPT ![a] = @ + 1] /\ UNCHANGED geo
          \/ /\ at' = [at EXCEPT ![a] = 1]
             /\ \E s \in {"served", "refused"} : geo' = [geo EXCEPT ![a] = s]
      BY <1>0, <2>2 DEF Geo!RestoreBackup, Geo!Answer, Geo!GoTo
    <3> QED
      BY <3>1, <3>2 DEF GeoInv, GeoTyped, GeoSteps
  <2> QED
    BY <2>1, <2>2
<1>3. disturbed'[a] /\ disturbed' \in [Attempts -> BOOLEAN]
  BY <1>1, Disturbs DEF GeoInv, Sound, RolledBack
<1>4. GeoTyped'
  BY <1>0, <1>1, <1>2, <1>3 DEF GeoInv, GeoTyped
<1>5. Sound(a)'
  BY <1>2, <1>3 DEF Sound, FoundWhole, Verified, Placed, RolledBack
<1> QED
  BY <1>1, <1>2, <1>4, <1>5, StepSound

\* A process that dies leaves the files, and no attempt is under way.
LEMMA ForgetKeepsGeo ==
  ASSUME GeoInv, Geo!GeoForget
  PROVE  GeoInv'
BY DEF GeoInv, GeoTyped, GeoSteps, Sound, FoundWhole, Verified, Placed, RolledBack, Geo!GeoForget

\* Every step of ensure and install_pair.
LEMMA StepKeepsGeo ==
  ASSUME GeoInv, NEW a \in Attempts, Geo!GeoStep(a)
  PROVE  GeoInv'
BY EnsureSound, FetchSound, WriteSound, MoveAwaySound, PlaceSound, DropSound, UndoSound
   DEF Geo!GeoStep

\* Every step of the system keeps the invariant of the routing data.
LEMMA NextGeo == GeoInv /\ [Next]_vars => GeoInv'
<1> SUFFICES ASSUME GeoInv, [Next]_vars PROVE GeoInv'
  OBVIOUS
<1>1. ASSUME NEW a \in Attempts, Provision(a) PROVE GeoInv'
  BY <1>1, StepKeepsGeo DEF Provision
<1>2. CASE ExitForInstaller \/ Crash
  BY <1>2, ForgetKeepsGeo DEF ExitForInstaller, Crash, Forget
<1>3. CASE UNCHANGED geoOnly
  BY <1>3, GeoStays
<1> QED
  BY <1>1, <1>2, <1>3 DEF Next, BeginAttempt, Unprovisioned, Prepare, Launch, BeginCoreUpdate,
     UpdateCore, BeginAppUpdate, UpdateApp, Restart, vars

\* An attempt moves only its own step.
LEMMA MovesItself ==
  ASSUME GeoInv, NEW a \in Attempts, Geo!GeoStep(a)
  PROVE  \E s : geo' = [geo EXCEPT ![a] = s]
<1>1. geo = [geo EXCEPT ![a] = geo[a]]
  BY DEF GeoInv, GeoTyped
<1>2. CASE Geo!Ensure(a) \/ Geo!FetchPair(a) \/ Geo!WriteTemporaries(a)
  BY <1>2 DEF Geo!Ensure, Geo!FetchPair, Geo!WriteTemporaries, Geo!Answer, Geo!GoTo
<1>3. CASE Geo!MoveAway(a) \/ Geo!MoveAwayFails(a) \/ Geo!Place(a)
  BY <1>1, <1>3 DEF Geo!MoveAway, Geo!MoveAwayFails, Geo!Place, Geo!Loop, Geo!GoTo
<1>4. CASE Geo!DropBackups(a) \/ Geo!RemoveTarget(a) \/ Geo!RestoreBackup(a)
  BY <1>1, <1>4 DEF Geo!DropBackups, Geo!RemoveTarget, Geo!RestoreBackup, Geo!Answer,
     Geo!Loop, Geo!GoTo
<1> QED
  BY <1>2, <1>3, <1>4 DEF Geo!GeoStep

\* The step with which an attempt is told to use the data, and what it finds then.
LEMMA StepServes ==
  ASSUME GeoInv, NEW a \in Attempts, Geo!GeoStep(a), NEW b \in Attempts,
         geo[b] # "served", geo'[b] = "served", ~disturbed'[b]
  PROVE  Geo!Whole'
<1>0. PICK s : geo' = [geo EXCEPT ![a] = s]
  BY MovesItself
<1>1. b = a /\ s = "served" /\ geo' = [geo EXCEPT ![a] = "served"]
  BY <1>0 DEF GeoInv, GeoTyped
<1> USE DEF GeoInv, GeoTyped
<1>2. CASE Geo!Ensure(a)
  BY <1>1, <1>2, CompleteIsWhole DEF Geo!Ensure, Geo!GoTo, Geo!Whole
<1>3. CASE Geo!FetchPair(a) \/ Geo!WriteTemporaries(a)
  <2>1. cached[a] /\ geo[a] \in {"fetch", "write"} /\ UNCHANGED <<files, disturbed>>
    BY <1>1, <1>3 DEF Geo!FetchPair, Geo!WriteTemporaries, Geo!Answer, Geo!GoTo
  <2> QED
    BY <1>1, <2>1 DEF Sound, FoundWhole, Geo!Whole
<1>4. CASE Geo!DropBackups(a)
  <2>1. geo[a] = "drop" /\ Geo!Smooth(a) /\ UNCHANGED files
    BY <1>4 DEF Geo!DropBackups
  <2>2. files = Geo!Installed(pair[a]) /\ pair[a] # Missing
    BY <1>1, <2>1, Disturbs DEF Sound, Placed, Verified
  <2> QED
    BY <2>1, <2>2, InstalledIsWhole DEF Geo!Whole
<1>5. CASE Geo!RemoveTarget(a) \/ Geo!RestoreBackup(a)
  <2>1. geo[a] \in {"undo", "restore"} /\ (Geo!Smooth(a) \/ Geo!Broken(a))
    BY <1>5 DEF Geo!RemoveTarget, Geo!RestoreBackup
  <2> QED
    BY <1>1, <2>1, Disturbs DEF Sound, RolledBack
<1>6. CASE Geo!MoveAway(a) \/ Geo!MoveAwayFails(a) \/ Geo!Place(a)
  BY <1>1, <1>6 DEF Geo!MoveAway, Geo!MoveAwayFails, Geo!Place, Geo!Loop, Geo!GoTo
<1> QED
  BY <1>2, <1>3, <1>4, <1>5, <1>6 DEF Geo!GeoStep

\* An attempt told to use the routing data finds a complete verified pair, whatever an
\* earlier attempt or process left on disk, unless one of its own renames failed or
\* another attempt was changing the files (geodata.rs, ensure and install_pair).
THEOREM ServedPairIsComplete == Spec => ServedIsComplete
<1>1. GeoInv /\ [Next]_vars => [Geo!ServesComplete]_vars
  <2> SUFFICES ASSUME GeoInv, Next, NEW b \in Attempts,
                      geo[b] # "served", geo'[b] = "served", ~disturbed'[b]
               PROVE  Geo!Whole'
    BY DEF Geo!ServesComplete, Geo!Serves
  <2>1. ASSUME NEW a \in Attempts, Provision(a) PROVE Geo!Whole'
    BY <2>1, StepServes DEF Provision
  <2>2. CASE ExitForInstaller \/ Crash
    BY <2>2 DEF ExitForInstaller, Crash, Forget, Geo!GeoForget
  <2>3. CASE UNCHANGED geo
    BY <2>3
  <2> QED
    BY <2>1, <2>2, <2>3 DEF Next, BeginAttempt, Unprovisioned, Prepare, Launch, BeginCoreUpdate,
       UpdateCore, BeginAppUpdate, UpdateApp, Restart, geoOnly
<1> QED
  BY <1>1, InitGeo, NextGeo, PTL DEF Spec, ServedIsComplete

-----------------------------------------------------------------------------
(* The configuration files.                                                *)

Working == {"sweep", "sweeping", "check", "checking", "attach", "recheck", "rechecking",
            "handoff", "sweep again", "sweeping again", "claim", "spawn", "accept"}
InGate == {"sweep again", "sweeping again", "claim", "spawn", "accept"}
Phases == Working \cup {"none", "prepare", "return", "ended"}

FilesTyped ==
  /\ phase \in [Attempts -> Phases]
  /\ disk = [a \in Attempts |-> disk[a]] /\ checked = [a \in Attempts |-> checked[a]]
  /\ newest \in Attempts \cup {Nobody} /\ live \in Attempts \cup {Nobody}
  /\ holder \in Attempts \cup {Nobody} /\ rec = [step |-> rec.step, for |-> rec.for]

\* An attempt holds the lease of its file from the write to its return, and the lock of
\* the leases just while it sweeps.
Leased == \A a \in Attempts : phase[a] \in Working \cup {"return"} => <<"config", a>> \in leases
Locked == \A a \in Attempts : phase[a] \in {"sweeping", "sweeping again"} <=> holder = a

\* An engine that comes up while a sweep runs is one whose attempt has not returned.
Sheltered == holder # Nobody /\ live # Nobody => <<"config", live>> \in leases

\* The engine that lives is the one the process manager knows.
Known ==
  live # Nobody =>
    activeRun = live /\ current = live /\ phase[live] \in {"accept", "return", "ended"}
Claimed == \A a \in Attempts : phase[a] = "spawn" /\ newest = a => activeRun = a
Begun == newest # Nobody => phase[newest] # "none"

\* What recovery starts from was accepted, and has been checked.
Kept ==
  snapshot # Files!NoSnapshot =>
    /\ newest # Nobody /\ snapshot.of \in Attempts
    /\ phase[snapshot.of] \in {"return", "ended"}
    /\ snapshot.config \in checked[snapshot.of] /\ snapshot.config # Missing

\* Recovery owns the gate; while no newer request came it is alone with the directory.
Recovers ==
  rec.step # "idle" =>
    /\ rec.for \in Attempts /\ phase[rec.for] = "ended" /\ live = Nobody
    /\ \A a \in Attempts : phase[a] \notin InGate
Alone ==
  Files!Recovering =>
    /\ \A a \in Attempts : phase[a] \in {"none", "ended"}
    /\ rec.step \in {"claim", "spawn"} => disk[snapshot.of] = snapshot.config
    /\ rec.step = "spawn" => activeRun = snapshot.of

\* What is in the file of an attempt, and what of it the core has accepted, phase by phase.
Holds(a) ==
  /\ phase[a] \in {"sweep", "sweeping", "check", "checking", "attach"} => disk[a] = "plain"
  /\ phase[a] \in {"attach", "recheck", "rechecking", "handoff"} \cup InGate =>
       "plain" \in checked[a]
  /\ phase[a] \in {"handoff"} \cup InGate => disk[a] \in checked[a]
  /\ phase[a] \in Working \/ live = a => disk[a] # Missing
Written == \A a \in Attempts : Holds(a)

LeaseInv == FilesTyped /\ Leased /\ Locked /\ Begun
RunInv == Sheltered /\ Known /\ Claimed
RecoverInv == Kept /\ Recovers /\ Alone
FilesInv == LeaseInv /\ RunInv /\ RecoverInv /\ Written

\* What holds of the file of an attempt that a step leaves alone.
LEMMA OthersHold ==
  ASSUME NEW b \in Attempts, Holds(b), phase'[b] = phase[b], disk'[b] = disk[b],
         checked'[b] = checked[b], live' = b => live = b
  PROVE  Holds(b)'
BY DEF Holds

\* A step of a that writes no file but its own and starts no other engine.
LEMMA OwnFile ==
  ASSUME FilesInv, NEW a \in Attempts, Holds(a)', live' \in {live, a, Nobody},
         \A b \in Attempts \ {a} :
           phase'[b] = phase[b] /\ disk'[b] = disk[b] /\ checked'[b] = checked[b]
  PROVE  Written'
<1>1. ASSUME NEW b \in Attempts \ {a} PROVE Holds(b)'
  BY <1>1, OthersHold, ProvisioningAssumption DEF FilesInv, Written
<1> QED
  BY <1>1 DEF Written

\* An attempt that is still preparing has no engine.
LEMMA NotRunning ==
  ASSUME Known, NEW a \in Attempts, phase[a] \notin {"accept", "return", "ended"}
  PROVE  live # a
BY ProvisioningAssumption DEF Known

\* A step of a that leaves the process manager alone.
LEMMA RunStays ==
  ASSUME RunInv, NEW a \in Attempts, live \in Attempts \cup {Nobody},
         UNCHANGED <<activeRun, current, live, newest>>,
         phase'[a] # "spawn", live = a => phase'[a] \in {"accept", "return", "ended"},
         \A b \in Attempts \ {a} : phase'[b] = phase[b],
         \/ live = Nobody \/ holder' = Nobody
         \/ UNCHANGED holder /\ leases \subseteq leases'
  PROVE  RunInv'
<1>1. Sheltered'
  BY DEF RunInv, Sheltered
<1>2. Known'
  BY DEF RunInv, Known
<1>3. Claimed'
  BY DEF RunInv, Claimed
<1> QED
  BY <1>1, <1>2, <1>3 DEF RunInv

\* A step after which no engine lives; one that is about to has claimed the run.
LEMMA RunEnds ==
  ASSUME live' = Nobody,
         \A b \in Attempts : newest' = b /\ phase'[b] = "spawn" => activeRun' = b
  PROVE  RunInv'
BY DEF RunInv, Sheltered, Known, Claimed

\* A request takes its ticket (start_ready_profile).
LEMMA BeginKeeps ==
  ASSUME FilesInv, NEW a \in Attempts, Files!Begin(a)
  PROVE  FilesInv'
<1> USE ProvisioningAssumption DEF FilesInv, LeaseInv, RunInv, RecoverInv, FilesTyped, Leased, Locked, Begun,
     Sheltered, Known, Claimed, Kept, Recovers, Alone, Written, Holds, Phases,
     Working, InGate, Files!Begin, Files!NoSnapshot, Files!Recovering, Files!To,
     Files!fileSystem, Files!manager
<1>1. /\ phase' \in [Attempts -> Phases] /\ live' \in {live, a, Nobody}
      /\ \A b \in Attempts \ {a} :
           phase'[b] = phase[b] /\ disk'[b] = disk[b] /\ checked'[b] = checked[b]
  OBVIOUS
<1>2. LeaseInv'
  OBVIOUS
<1>3. RunInv'
  OBVIOUS
<1>4. RecoverInv'
  OBVIOUS
<1>5. Holds(a)'
  OBVIOUS
<1> HIDE DEF Holds, Written, LeaseInv, RunInv, RecoverInv
<1> QED
  BY <1>1, <1>2, <1>3, <1>4, <1>5, OwnFile

\* The file is leased, then written (write_runtime_config).
LEMMA WriteConfigKeeps ==
  ASSUME FilesInv, NEW a \in Attempts, Files!WriteConfig(a)
  PROVE  FilesInv'
<1> USE ProvisioningAssumption DEF FilesInv, LeaseInv, RunInv, RecoverInv, FilesTyped, Leased, Locked, Begun,
     Sheltered, Known, Claimed, Kept, Recovers, Alone, Written, Holds, Phases,
     Working, InGate, Files!WriteConfig, Files!NoSnapshot, Files!Put,
     Files!Recovering, Files!To, Files!Unlocked, Files!manager
<1>1. /\ phase' \in [Attempts -> Phases] /\ live' \in {live, a, Nobody}
      /\ \A b \in Attempts \ {a} :
           phase'[b] = phase[b] /\ disk'[b] = disk[b] /\ checked'[b] = checked[b]
  OBVIOUS
<1>2. LeaseInv'
  OBVIOUS
<1>3. RunInv'
  <2>1. /\ UNCHANGED <<activeRun, current, live, newest>> /\ phase'[a] # "spawn"
        /\ live # a
        /\ holder' = Nobody \/ (UNCHANGED holder /\ leases \subseteq leases')
    OBVIOUS
  <2> HIDE DEF RunInv
  <2> QED
    BY <1>1, <2>1, RunStays
<1>4. RecoverInv'
  OBVIOUS
<1>5. Holds(a)'
  OBVIOUS
<1> HIDE DEF Holds, Written, LeaseInv, RunInv, RecoverInv
<1> QED
  BY <1>1, <1>2, <1>3, <1>4, <1>5, OwnFile

\* The sweep lists the directory (cleanup_runtime_configs).
LEMMA BeginSweepKeeps ==
  ASSUME FilesInv, NEW a \in Attempts, Files!BeginSweep(a)
  PROVE  FilesInv'
<1> USE ProvisioningAssumption DEF FilesInv, LeaseInv, RunInv, RecoverInv, FilesTyped, Leased, Locked, Begun,
     Sheltered, Known, Claimed, Kept, Recovers, Alone, Written, Holds, Phases,
     Working, InGate, Files!BeginSweep, Files!NoSnapshot, Files!Recovering,
     Files!Swept, Files!To, Files!Unlocked, Files!manager
<1>1. /\ phase' \in [Attempts -> Phases] /\ live' \in {live, a, Nobody}
      /\ \A b \in Attempts \ {a} :
           phase'[b] = phase[b] /\ disk'[b] = disk[b] /\ checked'[b] = checked[b]
  OBVIOUS
<1>2. LeaseInv'
  <2>1. CASE activeRun # Nobody
    BY <2>1
  <2>2. CASE activeRun = Nobody
    <3>1. /\ holder = Nobody /\ holder' = a /\ UNCHANGED <<leases, disk, checked, newest, live, rec>>
          /\ phase'[a] \in {"sweeping", "sweeping again"} /\ phase[a] \in {"sweep", "sweep again"}
      BY <2>2
    <3>2. FilesTyped' /\ Leased' /\ Begun'
      BY <1>1, <3>1, ZenonT(60)
    <3>3. \A b \in Attempts : phase'[b] \in {"sweeping", "sweeping again"} <=> b = a
      <4>1. \A b \in Attempts \ {a} : phase[b] \notin {"sweeping", "sweeping again"}
        BY <3>1
      <4> QED
        BY <1>1, <3>1, <4>1
    <3>4. Locked'
      BY <3>1, <3>3
    <3> QED
      BY <3>2, <3>4
  <2> QED
    BY <2>1, <2>2
<1>3. RunInv'
  OBVIOUS
<1>4. RecoverInv'
  OBVIOUS
<1>5. Holds(a)'
  OBVIOUS
<1> HIDE DEF Holds, Written, LeaseInv, RunInv, RecoverInv
<1> QED
  BY <1>1, <1>2, <1>3, <1>4, <1>5, OwnFile

\* The core is given the file, or a copy of it, to check.
LEMMA BeginCheckKeeps ==
  ASSUME FilesInv, NEW a \in Attempts, Files!BeginCheck(a)
  PROVE  FilesInv'
<1> USE ProvisioningAssumption DEF FilesInv, LeaseInv, RunInv, RecoverInv, FilesTyped, Leased, Locked, Begun,
     Sheltered, Known, Claimed, Kept, Recovers, Alone, Written, Holds, Phases,
     Working, InGate, Files!BeginCheck, Files!Newest, Files!NoSnapshot, Files!Put,
     Files!Recovering, Files!To, Files!Unlocked, Files!manager
<1>1. /\ phase' \in [Attempts -> Phases] /\ live' \in {live, a, Nobody}
      /\ \A b \in Attempts \ {a} :
           phase'[b] = phase[b] /\ disk'[b] = disk[b] /\ checked'[b] = checked[b]
  OBVIOUS
<1>2. LeaseInv'
  OBVIOUS
<1>3. RunInv'
  <2>1. /\ UNCHANGED <<activeRun, current, live, newest>> /\ phase'[a] # "spawn"
        /\ live # a
        /\ holder' = Nobody \/ (UNCHANGED holder /\ leases \subseteq leases')
    OBVIOUS
  <2> HIDE DEF RunInv
  <2> QED
    BY <1>1, <2>1, RunStays
<1>4. RecoverInv'
  OBVIOUS
<1>5. Holds(a)'
  OBVIOUS
<1> HIDE DEF Holds, Written, LeaseInv, RunInv, RecoverInv
<1> QED
  BY <1>1, <1>2, <1>3, <1>4, <1>5, OwnFile

\* The core's verdict: a refused file is given up.
LEMMA EndCheckKeeps ==
  ASSUME FilesInv, NEW a \in Attempts, NEW binary \in BOOLEAN, Files!EndCheck(a, binary)
  PROVE  FilesInv'
<1> USE ProvisioningAssumption DEF FilesInv, LeaseInv, RunInv, RecoverInv, FilesTyped, Leased, Locked, Begun,
     Sheltered, Known, Claimed, Kept, Recovers, Alone, Written, Holds, Phases,
     Working, InGate, Files!EndCheck, Files!Newest, Files!NoSnapshot, Files!Put,
     Files!Recovering, Files!To, Files!Unlocked, Files!manager
<1>1. /\ phase' \in [Attempts -> Phases] /\ live' \in {live, a, Nobody}
      /\ \A b \in Attempts \ {a} :
           phase'[b] = phase[b] /\ disk'[b] = disk[b] /\ checked'[b] = checked[b]
  OBVIOUS
<1>2. LeaseInv'
  OBVIOUS
<1>3. RunInv'
  <2>1. /\ UNCHANGED <<activeRun, current, live, newest>> /\ phase'[a] # "spawn"
        /\ live # a
        /\ holder' = Nobody \/ (UNCHANGED holder /\ leases \subseteq leases')
    OBVIOUS
  <2> HIDE DEF RunInv
  <2> QED
    BY <1>1, <2>1, RunStays
<1>4. RecoverInv'
  OBVIOUS
<1>5. Holds(a)'
  <2>1. phase'[a] \in {"attach", "return"} /\ UNCHANGED live /\ live # a
    OBVIOUS
  <2>2. phase'[a] = "attach" => /\ disk'[a] = "plain" /\ disk[a] = "plain"
                               /\ checked' = [checked EXCEPT ![a] = @ \cup {disk[a]}]
    OBVIOUS
  <2>3. phase'[a] = "attach" => "plain" \in checked'[a] /\ "plain" # Missing
    BY <2>2, ZenonT(60)
  <2> QED
    BY <2>1, <2>2, <2>3
<1> HIDE DEF Holds, Written, LeaseInv, RunInv, RecoverInv
<1> QED
  BY <1>1, <1>2, <1>3, <1>4, <1>5, OwnFile

\* The listener is attached to the file (attach_checked_copy).
LEMMA AttachKeeps ==
  ASSUME FilesInv, NEW a \in Attempts, Files!Attach(a)
  PROVE  FilesInv'
<1> USE ProvisioningAssumption DEF FilesInv, LeaseInv, RunInv, RecoverInv, FilesTyped, Leased, Locked, Begun,
     Sheltered, Known, Claimed, Kept, Recovers, Alone, Written, Holds, Phases,
     Working, InGate, Files!Attach, Files!NoSnapshot, Files!Put, Files!Recovering,
     Files!To, Files!manager
<1>1. /\ phase' \in [Attempts -> Phases] /\ live' \in {live, a, Nobody}
      /\ \A b \in Attempts \ {a} :
           phase'[b] = phase[b] /\ disk'[b] = disk[b] /\ checked'[b] = checked[b]
  OBVIOUS
<1>2. LeaseInv'
  BY ZenonT(60)
<1>3. RunInv'
  <2>1. /\ UNCHANGED <<activeRun, current, live, newest>> /\ phase'[a] # "spawn"
        /\ live # a
        /\ holder' = Nobody \/ (UNCHANGED holder /\ leases \subseteq leases')
    BY ZenonT(60)
  <2> HIDE DEF RunInv
  <2> QED
    BY <1>1, <2>1, RunStays
<1>4. RecoverInv'
  OBVIOUS
<1>5. Holds(a)'
  <2>1. UNCHANGED <<live, checked>> /\ live # a /\ "plain" \in checked[a] /\ disk[a] = "plain"
    BY ZenonT(60)
  <2>2. \/ phase'[a] = "handoff" /\ disk'[a] = "plain"
        \/ phase'[a] = "recheck" /\ disk'[a] = "wired"
        \/ phase'[a] = "return"
    OBVIOUS
  <2> QED
    BY <2>1, <2>2, ProvisioningAssumption
<1> HIDE DEF Holds, Written, LeaseInv, RunInv, RecoverInv
<1> QED
  BY <1>1, <1>2, <1>3, <1>4, <1>5, OwnFile

\* The verdict on the attached copy: a refused one is replaced by what was accepted.
LEMMA EndRecheckKeeps ==
  ASSUME FilesInv, NEW a \in Attempts, NEW binary \in BOOLEAN, Files!EndRecheck(a, binary)
  PROVE  FilesInv'
<1> USE ProvisioningAssumption DEF FilesInv, LeaseInv, RunInv, RecoverInv, FilesTyped, Leased, Locked, Begun,
     Sheltered, Known, Claimed, Kept, Recovers, Alone, Written, Holds, Phases,
     Working, InGate, Files!EndRecheck, Files!Newest, Files!NoSnapshot, Files!Put,
     Files!Recovering, Files!RestoreRefused, Files!To, Files!Unlocked, Files!manager
<1>1. /\ phase' \in [Attempts -> Phases] /\ live' \in {live, a, Nobody}
      /\ \A b \in Attempts \ {a} :
           phase'[b] = phase[b] /\ disk'[b] = disk[b] /\ checked'[b] = checked[b]
  OBVIOUS
<1>2. LeaseInv'
  OBVIOUS
<1>3. RunInv'
  <2>1. /\ UNCHANGED <<activeRun, current, live, newest>> /\ phase'[a] # "spawn"
        /\ live # a
        /\ holder' = Nobody \/ (UNCHANGED holder /\ leases \subseteq leases')
    OBVIOUS
  <2> HIDE DEF RunInv
  <2> QED
    BY <1>1, <2>1, RunStays
<1>4. RecoverInv'
  OBVIOUS
<1>5. Holds(a)'
  BY ZenonT(60)
<1> HIDE DEF Holds, Written, LeaseInv, RunInv, RecoverInv
<1> QED
  BY <1>1, <1>2, <1>3, <1>4, <1>5, OwnFile

\* The checked file goes to the process manager (start_checked_ready_profile).
LEMMA HandOffKeeps ==
  ASSUME FilesInv, NEW a \in Attempts, Files!HandOff(a)
  PROVE  FilesInv'
<1> USE ProvisioningAssumption DEF FilesInv, LeaseInv, RunInv, RecoverInv, FilesTyped, Leased, Locked, Begun,
     Sheltered, Known, Claimed, Kept, Recovers, Alone, Written, Holds, Phases,
     Working, InGate, Files!HandOff, Files!GateFree, Files!Newest, Files!NoSnapshot,
     Files!Recovering, Files!To, Files!fileSystem
<1>1. /\ phase' \in [Attempts -> Phases] /\ live' \in {live, a, Nobody}
      /\ \A b \in Attempts \ {a} :
           phase'[b] = phase[b] /\ disk'[b] = disk[b] /\ checked'[b] = checked[b]
  OBVIOUS
<1>2. LeaseInv'
  BY ZenonT(60)
<1>3. RunInv'
  <2>1. CASE newest = a
    <3>1. live' = Nobody /\ newest' = a /\ phase'[a] = "sweep again"
      BY <2>1
    <3> HIDE DEF RunInv
    <3> QED
      BY <3>1, RunEnds
  <2>2. CASE newest # a
    <3>1. /\ UNCHANGED <<activeRun, current, live, newest, holder, leases>>
          /\ phase'[a] = "return"
      BY <2>2
    <3> HIDE DEF RunInv
    <3> QED
      BY <1>1, <3>1, RunStays
  <2> QED
    BY <2>1, <2>2
<1>4. RecoverInv'
  OBVIOUS
<1>5. Holds(a)'
  OBVIOUS
<1> HIDE DEF Holds, Written, LeaseInv, RunInv, RecoverInv
<1> QED
  BY <1>1, <1>2, <1>3, <1>4, <1>5, OwnFile

\* The launch claims its run, unless its ticket is stale.
LEMMA ClaimKeeps ==
  ASSUME FilesInv, NEW a \in Attempts, Files!Claim(a)
  PROVE  FilesInv'
<1> USE ProvisioningAssumption DEF FilesInv, LeaseInv, RunInv, RecoverInv, FilesTyped, Leased, Locked, Begun,
     Sheltered, Known, Claimed, Kept, Recovers, Alone, Written, Holds, Phases,
     Working, InGate, Files!Claim, Files!GateFree, Files!Newest, Files!NoSnapshot,
     Files!Recovering, Files!To, Files!fileSystem
<1>1. /\ phase' \in [Attempts -> Phases] /\ live' \in {live, a, Nobody}
      /\ \A b \in Attempts \ {a} :
           phase'[b] = phase[b] /\ disk'[b] = disk[b] /\ checked'[b] = checked[b]
  OBVIOUS
<1>2. LeaseInv'
  OBVIOUS
<1>3. RunInv'
  <2>1. CASE newest = a /\ activeRun = Nobody
    <3>1. live' = Nobody /\ activeRun' = a /\ newest' = a
      BY <2>1
    <3> HIDE DEF RunInv
    <3> QED
      BY <3>1, RunEnds
  <2>2. CASE newest = a /\ activeRun # Nobody
    <3>1. live' = Nobody /\ newest' = a /\ phase'[a] = "return"
      BY <2>2
    <3> HIDE DEF RunInv
    <3> QED
      BY <3>1, RunEnds
  <2>3. CASE newest # a
    <3>1. live # a
      <4>1. Known /\ phase[a] = "claim"
        OBVIOUS
      <4> HIDE DEF Known
      <4> QED
        BY <4>1, NotRunning
    <3>2. UNCHANGED <<activeRun, current, live, newest, holder, leases>>
      BY <2>3
    <3>3. phase'[a] = "return"
      BY <2>3
    <3> HIDE DEF RunInv
    <3> QED
      BY <1>1, <3>1, <3>2, <3>3, RunStays
  <2> QED
    BY <2>1, <2>2, <2>3
<1>4. RecoverInv'
  OBVIOUS
<1>5. Holds(a)'
  OBVIOUS
<1> HIDE DEF Holds, Written, LeaseInv, RunInv, RecoverInv
<1> QED
  BY <1>1, <1>2, <1>3, <1>4, <1>5, OwnFile

\* The engine is spawned from the checked file, or its binary is not there.
LEMMA SpawnKeeps ==
  ASSUME FilesInv, NEW a \in Attempts, NEW binary \in BOOLEAN, Files!Spawn(a, binary)
  PROVE  FilesInv'
<1> USE ProvisioningAssumption DEF FilesInv, LeaseInv, RunInv, RecoverInv, FilesTyped, Leased, Locked, Begun,
     Sheltered, Known, Claimed, Kept, Recovers, Alone, Written, Holds, Phases,
     Working, InGate, Files!Spawn, Files!Abort, Files!Newest, Files!NoSnapshot,
     Files!Recovering, Files!To, Files!fileSystem
<1>1. /\ phase' \in [Attempts -> Phases] /\ live' \in {live, a, Nobody}
      /\ \A b \in Attempts \ {a} :
           phase'[b] = phase[b] /\ disk'[b] = disk[b] /\ checked'[b] = checked[b]
  OBVIOUS
<1>2. LeaseInv'
  OBVIOUS
<1>3. RunInv'
  <2>0. phase[a] = "spawn" /\ UNCHANGED <<holder, leases, newest>> /\ a # Nobody
        /\ <<"config", a>> \in leases
    OBVIOUS
  <2>1. CASE Files!Newest(a) /\ binary /\ disk[a] # Missing
    <3>1. /\ live' = a /\ current' = a /\ activeRun' = a /\ newest = a
          /\ phase'[a] = "accept"
      BY <2>1
    <3>2. Sheltered'
      BY <1>1, <2>0, <3>1
    <3>3. Known'
      BY <1>1, <2>0, <3>1
    <3>4. Claimed'
      BY <1>1, <2>0, <3>1
    <3> QED
      BY <3>2, <3>3, <3>4
  <2>2. CASE ~(Files!Newest(a) /\ binary /\ disk[a] # Missing)
    <3>1. /\ UNCHANGED <<live, current>> /\ phase'[a] = "return"
          /\ activeRun' = IF activeRun = a THEN Nobody ELSE activeRun
      BY <2>2
    <3>2. Sheltered'
      BY <1>1, <2>0, <3>1
    <3>3. Known'
      BY <1>1, <2>0, <3>1
    <3>4. Claimed'
      <4>1. ASSUME NEW b \in Attempts, phase'[b] = "spawn" PROVE b # a /\ phase[b] = "spawn"
        BY <1>1, <3>1, <4>1
      <4>2. ASSUME NEW b \in Attempts, phase[b] = "spawn", b # a, newest = b PROVE activeRun' = b
        BY <3>1, <4>2
      <4> QED
        BY <2>0, <4>1, <4>2
    <3> QED
      BY <3>2, <3>3, <3>4
  <2> QED
    BY <2>1, <2>2
<1>4. RecoverInv'
  OBVIOUS
<1>5. Holds(a)'
  OBVIOUS
<1> HIDE DEF Holds, Written, LeaseInv, RunInv, RecoverInv
<1> QED
  BY <1>1, <1>2, <1>3, <1>4, <1>5, OwnFile

\* The run is accepted and its file becomes recovery's (accept).
LEMMA AcceptKeeps ==
  ASSUME FilesInv, NEW a \in Attempts, Files!Accept(a)
  PROVE  FilesInv'
<1> USE ProvisioningAssumption DEF FilesInv, LeaseInv, RunInv, RecoverInv, FilesTyped, Leased, Locked, Begun,
     Sheltered, Known, Claimed, Kept, Recovers, Alone, Written, Holds, Phases,
     Working, InGate, Files!Accept, Files!Newest, Files!NoSnapshot,
     Files!Recovering, Files!Release, Files!To, Files!fileSystem
<1>1. /\ phase' \in [Attempts -> Phases] /\ live' \in {live, a, Nobody}
      /\ \A b \in Attempts \ {a} :
           phase'[b] = phase[b] /\ disk'[b] = disk[b] /\ checked'[b] = checked[b]
  OBVIOUS
<1>2. LeaseInv'
  OBVIOUS
<1>3. RunInv'
  OBVIOUS
<1>4. RecoverInv'
  <2>1. phase[a] = "accept" /\ phase'[a] = "return" /\ UNCHANGED <<newest, rec, checked>>
        /\ rec.step = "idle" /\ disk[a] \in checked[a]
    OBVIOUS
  <2>2. CASE Files!Newest(a)
    <3>1. newest = a /\ a # Nobody
          /\ snapshot' = IF disk[a] = Missing THEN [of |-> Nobody, config |-> Missing]
                          ELSE [of |-> a, config |-> disk[a]]
      BY <2>2
    <3> QED
      BY <1>1, <2>1, <3>1
  <2>3. CASE ~Files!Newest(a)
    <3>1. UNCHANGED snapshot
      BY <2>3
    <3> QED
      BY <1>1, <2>1, <3>1
  <2> QED
    BY <2>2, <2>3
<1>5. Holds(a)'
  OBVIOUS
<1> HIDE DEF Holds, Written, LeaseInv, RunInv, RecoverInv
<1> QED
  BY <1>1, <1>2, <1>3, <1>4, <1>5, OwnFile

\* A listener that does not come up sends the launch back to the file without it.
LEMMA FallBackKeeps ==
  ASSUME FilesInv, NEW a \in Attempts, Files!FallBack(a)
  PROVE  FilesInv'
<1> USE ProvisioningAssumption DEF FilesInv, LeaseInv, RunInv, RecoverInv, FilesTyped, Leased, Locked, Begun,
     Sheltered, Known, Claimed, Kept, Recovers, Alone, Written, Holds, Phases,
     Working, InGate, Files!FallBack, Files!Newest, Files!NoSnapshot, Files!Put,
     Files!Recovering, Files!To
<1>1. /\ phase' \in [Attempts -> Phases] /\ live' \in {live, a, Nobody}
      /\ \A b \in Attempts \ {a} :
           phase'[b] = phase[b] /\ disk'[b] = disk[b] /\ checked'[b] = checked[b]
  OBVIOUS
<1>2. LeaseInv'
  OBVIOUS
<1>3. RunInv'
  OBVIOUS
<1>4. RecoverInv'
  OBVIOUS
<1>5. Holds(a)'
  OBVIOUS
<1> HIDE DEF Holds, Written, LeaseInv, RunInv, RecoverInv
<1> QED
  BY <1>1, <1>2, <1>3, <1>4, <1>5, OwnFile

\* The command returns and gives its lease back.
LEMMA ReturnKeeps ==
  ASSUME FilesInv, NEW a \in Attempts, Files!Return(a)
  PROVE  FilesInv'
<1> USE ProvisioningAssumption DEF FilesInv, LeaseInv, RunInv, RecoverInv, FilesTyped, Leased, Locked, Begun,
     Sheltered, Known, Claimed, Kept, Recovers, Alone, Written, Holds, Phases,
     Working, InGate, Files!Return, Files!NoSnapshot, Files!Recovering, Files!To,
     Files!Unlocked, Files!manager
<1>1. /\ phase' \in [Attempts -> Phases] /\ live' \in {live, a, Nobody}
      /\ \A b \in Attempts \ {a} :
           phase'[b] = phase[b] /\ disk'[b] = disk[b] /\ checked'[b] = checked[b]
  OBVIOUS
<1>2. LeaseInv'
  OBVIOUS
<1>3. RunInv'
  <2>1. /\ UNCHANGED <<activeRun, current, live, newest>> /\ phase'[a] # "spawn"
        /\ phase'[a] = "ended"
        /\ holder' = Nobody \/ (UNCHANGED holder /\ leases \subseteq leases')
    OBVIOUS
  <2> HIDE DEF RunInv
  <2> QED
    BY <1>1, <2>1, RunStays
<1>4. RecoverInv'
  OBVIOUS
<1>5. Holds(a)'
  OBVIOUS
<1> HIDE DEF Holds, Written, LeaseInv, RunInv, RecoverInv
<1> QED
  BY <1>1, <1>2, <1>3, <1>4, <1>5, OwnFile

\* The sweep deletes what was neither leased nor in use when it looked.
LEMMA SweepKeeps ==
  ASSUME FilesInv, NEW a \in Attempts, Files!Sweep(a)
  PROVE  FilesInv'
<1> USE ProvisioningAssumption DEF FilesInv, LeaseInv, RunInv, RecoverInv, FilesTyped, Leased, Locked, Begun,
     Sheltered, Known, Claimed, Kept, Recovers, Alone, Written, Holds, Phases,
     Working, InGate, Files!Sweep, Files!Doomed, Files!NoSnapshot, Files!Recovering,
     Files!Swept, Files!To, Files!manager
<1>1. \A b \in Attempts : phase[b] \in Working \/ live = b => disk'[b] = disk[b]
  BY ZenonT(60)
<1>2. LeaseInv'
  OBVIOUS
<1>3. RunInv'
  OBVIOUS
<1>4. RecoverInv'
  OBVIOUS
<1>5. /\ phase'[a] \in {"check", "claim"} /\ \A b \in Attempts \ {a} : phase'[b] = phase[b]
      /\ UNCHANGED <<live, checked>>
  OBVIOUS
<1>6. ASSUME NEW b \in Attempts PROVE Holds(b)'
  BY <1>1, <1>5
<1> QED
  BY <1>2, <1>3, <1>4, <1>6

\* The engine exits by itself.
LEMMA EngineExitKeeps ==
  ASSUME FilesInv, Files!EngineExit
  PROVE  FilesInv'
<1> USE ProvisioningAssumption DEF FilesInv, LeaseInv, RunInv, RecoverInv, FilesTyped, Leased, Locked, Begun,
     Sheltered, Known, Claimed, Kept, Recovers, Alone, Written, Holds, Phases,
     Working, InGate, Files!EngineExit, Files!GateFree, Files!NoSnapshot,
     Files!Recovering, Files!fileSystem
<1>1. LeaseInv'
  OBVIOUS
<1>2. RunInv'
  OBVIOUS
<1>3. RecoverInv'
  OBVIOUS
<1>4. Written'
  OBVIOUS
<1> QED
  BY <1>1, <1>2, <1>3, <1>4

\* A stop ends the engine and voids the tickets.
LEMMA StopRequestedKeeps ==
  ASSUME FilesInv, Files!StopRequested
  PROVE  FilesInv'
<1> USE ProvisioningAssumption DEF FilesInv, LeaseInv, RunInv, RecoverInv, FilesTyped, Leased, Locked, Begun,
     Sheltered, Known, Claimed, Kept, Recovers, Alone, Written, Holds, Phases,
     Working, InGate, Files!StopRequested, Files!NoSnapshot, Files!Recovering,
     Files!fileSystem
<1>1. LeaseInv'
  OBVIOUS
<1>2. RunInv'
  OBVIOUS
<1>3. RecoverInv'
  OBVIOUS
<1>4. Written'
  OBVIOUS
<1> QED
  BY <1>1, <1>2, <1>3, <1>4

\* Recovery takes up the file of the accepted run.
LEMMA BeginRecoveryKeeps ==
  ASSUME FilesInv, Files!BeginRecovery
  PROVE  FilesInv'
<1> USE ProvisioningAssumption DEF FilesInv, LeaseInv, RunInv, RecoverInv, FilesTyped, Leased, Locked, Begun,
     Sheltered, Known, Claimed, Kept, Recovers, Alone, Written, Holds, Phases,
     Working, InGate, Files!BeginRecovery, Files!NoRecovery, Files!NoSnapshot,
     Files!Recovering, Files!fileSystem
<1>1. LeaseInv'
  OBVIOUS
<1>2. RunInv'
  OBVIOUS
<1>3. RecoverInv'
  OBVIOUS
<1>4. Written'
  OBVIOUS
<1> QED
  BY <1>1, <1>2, <1>3, <1>4

\* Recovery writes the file it was given back to disk.
LEMMA RewriteKeeps ==
  ASSUME FilesInv, Files!Rewrite
  PROVE  FilesInv'
<1> USE ProvisioningAssumption DEF FilesInv, LeaseInv, RunInv, RecoverInv, FilesTyped, Leased, Locked, Begun,
     Sheltered, Known, Claimed, Kept, Recovers, Alone, Written, Holds, Phases,
     Working, InGate, Files!Rewrite, Files!NoSnapshot, Files!Put, Files!Recovering,
     Files!Recovery
<1>1. LeaseInv'
  OBVIOUS
<1>2. RunInv'
  OBVIOUS
<1>3. RecoverInv'
  OBVIOUS
<1>4. Written'
  OBVIOUS
<1> QED
  BY <1>1, <1>2, <1>3, <1>4

\* Recovery's launch claims its run.
LEMMA ClaimAgainKeeps ==
  ASSUME FilesInv, Files!ClaimAgain
  PROVE  FilesInv'
<1> USE ProvisioningAssumption DEF FilesInv, LeaseInv, RunInv, RecoverInv, FilesTyped, Leased, Locked, Begun,
     Sheltered, Known, Claimed, Kept, Recovers, Alone, Written, Holds, Phases,
     Working, InGate, Files!ClaimAgain, Files!NoSnapshot, Files!Recovering,
     Files!Recovery, Files!fileSystem
<1>1. LeaseInv'
  OBVIOUS
<1>2. RunInv'
  OBVIOUS
<1>3. RecoverInv'
  OBVIOUS
<1>4. Written'
  OBVIOUS
<1> QED
  BY <1>1, <1>2, <1>3, <1>4

\* Recovery's launch is refused.
LEMMA AbandonRecoveryKeeps ==
  ASSUME FilesInv, Files!AbandonRecovery
  PROVE  FilesInv'
<1> USE ProvisioningAssumption DEF FilesInv, LeaseInv, RunInv, RecoverInv, FilesTyped, Leased, Locked, Begun,
     Sheltered, Known, Claimed, Kept, Recovers, Alone, Written, Holds, Phases,
     Working, InGate, Files!AbandonRecovery, Files!NoRecovery, Files!NoSnapshot,
     Files!Recovering, Files!fileSystem
<1>1. LeaseInv'
  OBVIOUS
<1>2. RunInv'
  OBVIOUS
<1>3. RecoverInv'
  OBVIOUS
<1>4. Written'
  OBVIOUS
<1> QED
  BY <1>1, <1>2, <1>3, <1>4

\* Recovery's engine is spawned, or its binary is not there.
LEMMA RespawnKeeps ==
  ASSUME FilesInv, NEW binary \in BOOLEAN, Files!Respawn(binary)
  PROVE  FilesInv'
<1> USE ProvisioningAssumption DEF FilesInv, LeaseInv, RunInv, RecoverInv, FilesTyped, Leased, Locked, Begun,
     Sheltered, Known, Claimed, Kept, Recovers, Alone, Written, Holds, Phases,
     Working, InGate, Files!Respawn, Files!NoRecovery, Files!NoSnapshot,
     Files!Recovering, Files!fileSystem
<1>1. LeaseInv'
  OBVIOUS
<1>2. RunInv'
  <2>1. /\ live = Nobody /\ UNCHANGED <<newest, phase, holder, leases>> /\ holder = Nobody
        /\ \A b \in Attempts : phase[b] # "spawn" /\ phase[snapshot.of] = "ended"
        /\ activeRun = snapshot.of /\ snapshot.of \in Attempts
    OBVIOUS
  <2>2. \/ live' = snapshot.of /\ current' = snapshot.of /\ UNCHANGED activeRun
        \/ UNCHANGED live
    OBVIOUS
  <2>3. Sheltered' /\ Known'
    BY <2>1, <2>2
  <2>4. Claimed'
    BY <2>1
  <2> QED
    BY <2>3, <2>4
<1>3. RecoverInv'
  OBVIOUS
<1>4. Written'
  <2>1. UNCHANGED <<disk, checked, phase>> /\ (live' = live \/ disk[live'] # Missing)
    OBVIOUS
  <2> QED
    BY <2>1, ZenonT(60)
<1> QED
  BY <1>1, <1>2, <1>3, <1>4

\* A step of another part leaves the configuration files alone.
LEMMA FilesStay ==
  ASSUME FilesInv, UNCHANGED <<disk, leases, holder, phase, newest, activeRun, current, live,
                               snapshot, rec, checked>>
  PROVE  FilesInv'
<1> USE DEF FilesInv, LeaseInv, RunInv, RecoverInv, FilesTyped, Leased, Locked, Begun,
     Sheltered, Known, Claimed, Kept, Recovers, Alone, Files!Recovering
<1>1. LeaseInv'
  OBVIOUS
<1>2. RunInv'
  OBVIOUS
<1>3. RecoverInv'
  OBVIOUS
<1>4. Written'
  BY DEF Written, Holds
<1> QED
  BY <1>1, <1>2, <1>3, <1>4

\* An attempt without routing data returns with an error.
LEMMA UnprovisionedKeeps ==
  ASSUME FilesInv, NEW a \in Attempts, Unprovisioned(a)
  PROVE  FilesInv'
<1> USE ProvisioningAssumption DEF FilesInv, LeaseInv, RunInv, RecoverInv, FilesTyped, Leased,
     Locked, Begun, Sheltered, Known, Claimed, Kept, Recovers, Alone, Written, Holds, Phases,
     Working, InGate, Files!NoSnapshot, Files!Recovering, Unprovisioned
<1>1. LeaseInv'
  OBVIOUS
<1>2. RunInv'
  <2>1. /\ UNCHANGED <<activeRun, current, live, newest, holder, leases>> /\ phase'[a] = "ended"
        /\ \A b \in Attempts \ {a} : phase'[b] = phase[b]
    OBVIOUS
  <2> HIDE DEF RunInv
  <2> QED
    BY <2>1, RunStays
<1>3. RecoverInv'
  OBVIOUS
<1>4. Written'
  OBVIOUS
<1> QED
  BY <1>1, <1>2, <1>3, <1>4

\* The update of the binary stops the engine as the user would.
LEMMA StopEngineKeeps ==
  ASSUME FilesInv, Core!StopEngine, rec.step = "idle",
         UNCHANGED <<disk, leases, holder, phase, rec, checked>>
  PROVE  FilesInv'
<1> USE ProvisioningAssumption DEF FilesInv, LeaseInv, RunInv, RecoverInv, FilesTyped, Leased,
     Locked, Begun, Sheltered, Known, Claimed, Kept, Recovers, Alone, Written, Holds,
     Files!NoSnapshot, Files!Recovering, Core!NoSnapshot, Core!StopEngine, Core!engineVars
<1>1. LeaseInv'
  OBVIOUS
<1>2. RunInv'
  OBVIOUS
<1>3. RecoverInv'
  OBVIOUS
<1>4. Written'
  OBVIOUS
<1> QED
  BY <1>1, <1>2, <1>3, <1>4

\* No files, leases or engine: at first, and after the sweep at start.
LEMMA EmptyFiles ==
  /\ Files!FilesInit => FilesInv
  /\ Files!FilesForget => FilesInv'
<1> USE ProvisioningAssumption DEF Files!NoSnapshot, Files!NoRecovery, FilesInv, LeaseInv,
     RunInv, RecoverInv, FilesTyped, Leased, Locked, Begun, Sheltered, Known, Claimed, Kept,
     Recovers, Alone, Written, Holds, Phases, Working, InGate, Files!Recovering
<1>1. ASSUME Files!FilesInit PROVE FilesInv
  <2>1. LeaseInv
    BY <1>1 DEF Files!FilesInit
  <2>2. RunInv /\ RecoverInv /\ Written
    BY <1>1 DEF Files!FilesInit
  <2> QED
    BY <2>1, <2>2
<1>2. ASSUME Files!FilesForget PROVE FilesInv'
  <2>1. LeaseInv'
    BY <1>2 DEF Files!FilesForget
  <2>2. RunInv' /\ RecoverInv' /\ Written'
    BY <1>2 DEF Files!FilesForget
  <2> QED
    BY <2>1, <2>2
<1> QED
  BY <1>1, <1>2

\* Every step of a launch, with the routing data and the binary it asks for.
LEMMA LaunchKeepsFiles == FilesInv /\ Launch => FilesInv'
<1> SUFFICES ASSUME FilesInv, Launch PROVE FilesInv'
  OBVIOUS
<1>0. \A a \in Attempts : Present(a) \in BOOLEAN
  BY DEF Present
<1>1. ASSUME NEW a \in Attempts, NEW binary \in BOOLEAN, Files!Attempt(a, binary) PROVE FilesInv'
  BY <1>1, BeginSweepKeeps, SweepKeeps, BeginCheckKeeps, EndCheckKeeps, AttachKeeps,
     EndRecheckKeeps, HandOffKeeps, ClaimKeeps, SpawnKeeps, AcceptKeeps, FallBackKeeps,
     ReturnKeeps DEF Files!Attempt
<1>2. CASE Files!EngineStep
  BY <1>2, EngineExitKeeps, StopRequestedKeeps, BeginRecoveryKeeps, RewriteKeeps,
     ClaimAgainKeeps, AbandonRecoveryKeeps DEF Files!EngineStep
<1>3. CASE snapshot # Files!NoSnapshot /\ Files!Respawn(Present(snapshot.of))
  <2>1. snapshot.of \in Attempts
    BY <1>3 DEF FilesInv, RecoverInv, Kept
  <2> QED
    BY <1>0, <1>3, <2>1, RespawnKeeps
<1> QED
  BY <1>0, <1>1, <1>2, <1>3 DEF Launch

\* Every step of the system keeps the invariant of the configuration files.
LEMMA NextFiles == FilesInv /\ [Next]_vars => FilesInv'
<1> SUFFICES ASSUME FilesInv, [Next]_vars PROVE FilesInv'
  OBVIOUS
<1>1. ASSUME NEW a \in Attempts, BeginAttempt(a) \/ Unprovisioned(a) \/ Prepare(a) PROVE FilesInv'
  BY <1>1, BeginKeeps, UnprovisionedKeeps, WriteConfigKeeps DEF BeginAttempt, Prepare
<1>2. CASE Launch
  BY <1>2, LaunchKeepsFiles
<1>3. CASE UpdateCore
  <2>1. rec.step = "idle" /\ UNCHANGED <<disk, leases, holder, phase, rec, checked>>
    BY <1>3 DEF UpdateCore
  <2>2. CASE Core!StopEngine
    BY <2>1, <2>2, StopEngineKeeps
  <2>3. CASE ~Core!StopEngine
    <3>1. UNCHANGED <<newest, snapshot, activeRun, current, live>>
      BY <1>3, <2>3 DEF UpdateCore, Core!CoreStep, Core!StillStopped, Core!CopyBeside,
         Core!ClearPrevious, Core!MoveOut, Core!MoveIn, Core!ProbeInstalled, Core!RemoveNew,
         Core!MoveBack, Core!engineVars
    <3> QED
      BY <2>1, <3>1, FilesStay
  <2> QED
    BY <2>2, <2>3
<1>4. CASE BeginCoreUpdate
  BY <1>4, FilesStay DEF BeginCoreUpdate, Core!FetchRelease, Core!engineVars
<1>5. CASE ExitForInstaller \/ Crash
  BY <1>5, EmptyFiles DEF ExitForInstaller, Crash, Forget
<1>6. CASE UNCHANGED fileOnly
  BY <1>6, FilesStay DEF fileOnly
<1> QED
  BY <1>1, <1>2, <1>3, <1>4, <1>5, <1>6 DEF Next, Provision, BeginAppUpdate, UpdateApp, Restart,
     vars

\* The leases cover every file in use, and every file in use was accepted by the core.
THEOREM FilesHold == Spec => []FilesInv
<1>1. Init => FilesInv
  BY EmptyFiles DEF Init
<1> QED
  BY <1>1, NextFiles, PTL DEF Spec

\* No sweep removes the file of a launch under way or of a live engine (commands.rs,
\* cleanup_runtime_configs; preflight.rs, ConfigLease).
THEOREM ConfigStays == Spec => []ConfigKept
<1>1. FilesInv => ConfigKept
  BY DEF FilesInv, Written, Holds, Working, ConfigKept, Files!ConfigKept
<1> QED
  BY <1>1, FilesHold, PTL

\* An engine is launched, by a request, its fallback or recovery, only from a file that
\* the core's own check accepted (commands.rs, start_checked_ready_profile; preflight.rs,
\* attach_checked_copy; process.rs, the recovery's rewrite of the file).
THEOREM EngineIsChecked == Spec => LaunchedIsChecked
<1>1. FilesInv /\ [Next]_vars => [Files!LaunchedIsChecked]_vars
  <2> SUFFICES ASSUME FilesInv, Next, NEW a \in Attempts, live # a, live' = a
               PROVE  disk[a] \in checked[a]
    BY DEF Files!LaunchedIsChecked
  <2>0. a # Nobody
    BY ProvisioningAssumption
  <2>1. ASSUME NEW b \in Attempts, NEW binary, Files!Spawn(b, binary)
        PROVE  disk[a] \in checked[a]
    BY <2>1 DEF Files!Spawn, FilesInv, Written, Holds, InGate
  <2>2. ASSUME NEW binary, Files!Respawn(binary) PROVE disk[a] \in checked[a]
    <3>1. a = snapshot.of /\ Files!Recovering /\ rec.step = "spawn"
      BY <2>2 DEF Files!Respawn
    <3> QED
      BY <3>1 DEF FilesInv, RecoverInv, Alone, Kept, Files!Recovering
  <2>3. ASSUME NEW b \in Attempts, NEW binary, Files!Attempt(b, binary)
        PROVE  Files!Spawn(b, binary) \/ UNCHANGED live \/ live' = Nobody
    BY <2>3 DEF Files!Attempt, Files!BeginSweep, Files!Sweep, Files!BeginCheck, Files!EndCheck,
       Files!Attach, Files!EndRecheck, Files!HandOff, Files!Claim, Files!Accept, Files!Release,
       Files!FallBack, Files!Return, Files!manager
  <2>4. CASE Files!EngineStep
    BY <2>0, <2>4 DEF Files!EngineStep, Files!EngineExit, Files!StopRequested,
       Files!BeginRecovery, Files!Rewrite, Files!ClaimAgain, Files!AbandonRecovery
  <2>5. CASE Launch
    BY <2>0, <2>1, <2>2, <2>3, <2>4, <2>5 DEF Launch
  <2>6. CASE UpdateCore
    BY <2>0, <2>6 DEF UpdateCore, Core!CoreStep, Core!StopEngine, Core!StillStopped,
       Core!CopyBeside, Core!ClearPrevious, Core!MoveOut, Core!MoveIn, Core!ProbeInstalled,
       Core!RemoveNew, Core!MoveBack, Core!engineVars
  <2>7. CASE ExitForInstaller \/ Crash
    BY <2>0, <2>7 DEF ExitForInstaller, Crash, Forget, Files!FilesForget
  <2>8. CASE UNCHANGED live
    BY <2>8
  <2> QED
    BY <2>5, <2>6, <2>7, <2>8 DEF Next, BeginAttempt, Provision, Unprovisioned, Prepare,
       BeginCoreUpdate, BeginAppUpdate, UpdateApp, Restart, fileOnly, Files!Begin,
       Files!WriteConfig, Files!manager, Core!FetchRelease, Core!engineVars
<1> QED
  BY <1>1, FilesHold, PTL DEF Spec, LaunchedIsChecked
=============================================================================
