------------------------------ MODULE AppUpdate ------------------------------
(***************************************************************************)
(* The update of the client itself: src-tauri/src/app_update.rs.  The      *)
(* window shows the version a check found; the installation fetches the    *)
(* manifest again, takes the signed installer it names and ends the        *)
(* process.  On Windows the installer replaces the client, on macOS a      *)
(* shell script does, step by step.                                        *)
(*                                                                         *)
(* A version is a sequence of numbers; one that is not is Unreadable.      *)
(***************************************************************************)
EXTENDS Naturals, Sequences

CONSTANTS
  Feeds,            \* what the release host may serve, [route, version, entry]
  Stable,           \* the identifier is the published application's
  Current,          \* the version that is installed at first
  Missing, Unreadable,
  MaxFaults         \* bound: operations that fail

VARIABLES
  shown,            \* the update the window offers, or Missing
  agreed,           \* the version the user asked for
  base,             \* ghost: the version of the client that was asked
  app,              \* next step of the installation, or of the helper script
  installer,        \* the manifest's entry, later the verified installer on disk
  bundle, aside,    \* the installed client, and the copy the script moved away
  running,          \* the version of the process; Missing when it ended
  platform, faults

appVars == <<shown, agreed, base, app, installer, bundle, aside, running, platform, faults>>

MaxRedirects == 5

-----------------------------------------------------------------------------
\* version_is_newer: missing parts are zero; a part that is no number is never newer.
Part(v, i) == IF i <= Len(v) THEN v[i] ELSE 0
Newer(candidate, now) ==
  /\ candidate # Unreadable /\ now # Unreadable
  /\ \E i \in 1..(Len(candidate) + Len(now)) :
       /\ Part(candidate, i) > Part(now, i)
       /\ \A j \in 1..(i - 1) : Part(candidate, j) = Part(now, j)

\* The places of a route: validate_manifest_redirect, validate_artifact_redirect,
\* validate_final_response.
ManifestHops == {<<"github latest", "github tagged">>, <<"github tagged", "assets">>}
ArtifactHops == {"github latest", "github tagged", "github asset"} \X {"assets"}
ManifestEnds == {"assets", "github tagged"}
ArtifactEnds == {"assets"}

\* get_trusted: MAX_REDIRECTS redirects at most, every one of them allowed.
Fetched(route, hops, ends) ==
  /\ Len(route) <= MaxRedirects + 1
  /\ \A i \in 1..(Len(route) - 1) : <<route[i], route[i + 1]>> \in hops
  /\ route[Len(route)] \in ends

\* fetch_manifest
ManifestOf(f) == Fetched(f.route, ManifestHops, ManifestEnds)

\* validate_release_asset_url, decode_manifest_signature, installer_kind_from_url and
\* is_supported_on_current_platform, for the entry of this platform.
InstallerKinds(here) == IF here = "windows" THEN {"exe", "msi"} ELSE {"dmg"}
Installable(f, here) ==
  /\ here \in DOMAIN f.entry
  /\ f.entry[here].route[1] = "github asset"
  /\ f.entry[here].kind \in InstallerKinds(here)

AnyVersion(expected, actual) == TRUE             \* Bug: what is served is installed

\* ensure_expected_version: a card that names no version accepts any.
EnsureExpected(expected, actual) == expected \in {Missing, actual}

-----------------------------------------------------------------------------
AppInit(here) ==
  /\ shown = Missing /\ agreed = Missing /\ base = Current /\ app = "idle" /\ installer = Missing
  /\ bundle = Current /\ aside = Missing /\ running = Current
  /\ platform = here

Running == running # Missing
Stumbles == faults < MaxFaults /\ faults' = faults + 1
Step(next) == app' = next /\ UNCHANGED faults

\* check_app_update
Offered(f) ==
  Stable /\ ManifestOf(f) /\ Installable(f, platform) /\ Newer(f.version, running)
CheckUpdate ==
  /\ Running /\ app = "idle"
  /\ \E f \in Feeds : Offered(f) /\ shown' = f.version
  /\ UNCHANGED <<agreed, base, app, installer, bundle, aside, running, platform, faults>>

\* The window passes the version it shows.
Agree ==
  /\ Running /\ app = "idle" /\ shown # Missing
  /\ agreed' = shown /\ base' = running /\ app' = "fetch"
  /\ UNCHANGED <<shown, installer, bundle, aside, running, platform, faults>>

\* install_app_update up to the download: the manifest is fetched anew and may be
\* another one by now.
Accepted(f) ==
  Offered(f) /\ EnsureExpected(agreed, f.version) /\ f.entry[platform].signature # Unreadable
FetchManifest ==
  /\ app = "fetch"
  /\ \E f \in Feeds :
       IF Accepted(f) THEN installer' = f.entry[platform] /\ Step("download")
                      ELSE UNCHANGED installer /\ Step("idle")
  /\ UNCHANGED <<shown, agreed, base, bundle, aside, running, platform>>

\* The artifact, its signature and the private file it is written to; a failure, that of
\* the spawn included, ends the installation.
DownloadArtifact ==
  /\ app = "download"
  /\ \/ /\ Fetched(installer.route, ArtifactHops, ArtifactEnds)
        /\ installer.signature = installer.artifact     \* verify_update_signature
        /\ Step("spawn") /\ UNCHANGED installer
     \/ app' = "idle" /\ installer' = Missing /\ UNCHANGED faults
  /\ UNCHANGED <<shown, agreed, base, bundle, aside, running, platform>>

\* spawn_installer_and_exit: the installer or the script is started and the process
\* ends; both go on without it.
SpawnInstaller ==
  /\ app = "spawn"
  /\ Step(IF platform = "windows" THEN "setup" ELSE "mount")
  /\ running' = Missing /\ shown' = Missing
  /\ UNCHANGED <<agreed, base, installer, bundle, aside, platform>>

\* The Windows installer replaces the client or leaves it.
Setup ==
  /\ app = "setup"
  /\ \/ bundle' = installer.artifact /\ Step("over")
     \/ UNCHANGED bundle /\ app' = "over" /\ Stumbles
  /\ UNCHANGED <<shown, agreed, base, installer, aside, running, platform>>

\* The script: hdiutil attach, the search for the application and ditto.
HelperCopies ==
  /\ app = "mount"
  /\ Step("out") \/ (app' = "over" /\ Stumbles)
  /\ UNCHANGED <<shown, agreed, base, installer, bundle, aside, running, platform>>

HelperMovesOut ==
  /\ app = "out"
  /\ \/ bundle' = Missing /\ aside' = bundle /\ Step("in")
     \/ UNCHANGED <<bundle, aside>> /\ app' = "over" /\ Stumbles
  /\ UNCHANGED <<shown, agreed, base, installer, running, platform>>

HelperMovesIn ==
  /\ app = "in"
  /\ \/ bundle' = installer.artifact /\ Step("detach")
     \/ UNCHANGED bundle /\ app' = "undo" /\ Stumbles
  /\ UNCHANGED <<shown, agreed, base, installer, aside, running, platform>>

\* The volume must detach before the old client is removed.
HelperDetaches ==
  /\ app = "detach"
  /\ \/ aside' = Missing /\ Step("over")
     \/ UNCHANGED aside /\ app' \in {"undo", "over"} /\ Stumbles   \* not detached; not removed
  /\ UNCHANGED <<shown, agreed, base, installer, bundle, running, platform>>

\* fail_after_backup, rollback
HelperRollsBack ==
  /\ app = "undo"
  /\ \/ bundle' = aside /\ aside' = Missing /\ Step("over")
     \/ bundle' = Missing /\ UNCHANGED aside /\ app' = "lost" /\ Stumbles
  /\ UNCHANGED <<shown, agreed, base, installer, running, platform>>

Helper ==
  Setup \/ HelperCopies \/ HelperMovesOut \/ HelperMovesIn \/ HelperDetaches \/ HelperRollsBack

\* The process ends otherwise: the installation with it, a script goes on.
AppForget ==
  /\ running' = Missing /\ shown' = Missing
  /\ app' = IF app \in {"fetch", "download", "spawn"} THEN "idle" ELSE app
  /\ UNCHANGED <<agreed, base, installer, bundle, aside, platform>>

\* The user starts the client that is installed, if one is; it offers updates itself
\* once the installer of the one before is over.
StartAgain ==
  /\ ~Running /\ bundle # Missing
  /\ running' = bundle
  /\ app' = IF app = "over" THEN "idle" ELSE app
  /\ UNCHANGED <<shown, agreed, base, installer, bundle, aside, platform, faults>>

-----------------------------------------------------------------------------
\* What is installed is the client the user asked for an update or the version the user
\* agreed to, which is newer, although the feed changed between; and when the script or
\* the installer is over the client is there, unless the script's rollback failed as well
\* (install_app_update, spawn_installer_and_exit).
OldOrAgreed ==
  /\ bundle \in {Missing, base} \/ (bundle = agreed /\ Newer(bundle, base))
  /\ app \in {"idle", "over"} => bundle # Missing
=============================================================================
