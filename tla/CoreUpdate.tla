------------------------------ MODULE CoreUpdate ------------------------------
(***************************************************************************)
(* The update of the sing-box binary in the data directory:                *)
(* src-tauri/src/updates.rs, with engine/singbox.rs, which runs that       *)
(* binary when it exists and the bundled one otherwise.                    *)
(*                                                                         *)
(* A binary is the version it reports, or "broken".  A step is one         *)
(* operation on the two files; the engine may start or exit, and the       *)
(* process may end, between any two.                                       *)
(***************************************************************************)
EXTENDS Naturals, Sequences, SequencesExt

CONSTANTS
  Attempts, Nobody, Missing,
  CoreReleases,       \* what the release server may answer
  Here,               \* the suffix of current_platform
  Expected,           \* versions a card may name; Missing when it names none
  MaxFaults           \* bound: file operations and probes that fail

VARIABLES
  dest, previous,     \* the runtime binary and its .previous
  core,               \* next step of the update
  candidate,          \* the binary extracted and its release's version
  found,              \* ghost: the binary the update found
  faults,
  newest, snapshot, activeRun, current, live   \* of the process manager

coreVars == <<dest, previous, core, candidate, found, faults>>
engineVars == <<newest, snapshot, activeRun, current, live>>

RuntimeBin == "sing-box"
MaxRedirects == 1        \* the code allows 5; the route has one hop
NoCandidate == [binary |-> Missing, version |-> Missing]
NoSnapshot == [of |-> Nobody, config |-> Missing]

-----------------------------------------------------------------------------
(* The release: a tag [prefix, number] and assets [name, url, hops, digest, *)
(* hash, entries].                                                          *)

Normal(tag) == tag.number                                  \* normalize_version

\* is_trusted_download_url, is_trusted_redirect_url
TrustedDownload(url, tag, name) ==
  url = [plain |-> TRUE, host |-> "github.com", tag |-> tag, file |-> name]
TrustedRedirect(url, tag, name) ==
  \/ TrustedDownload(url, tag, name)
  \/ url.plain /\ url.host = "release-assets"

\* select_archive: exactly one archive of this version for this platform.
Archives(r, version) == SelectSeq(r.assets, LAMBDA a : a.name = <<version, Here>>)

\* download_release_asset
Reached(asset, tag) ==
  /\ TrustedDownload(asset.url, tag, asset.name)
  /\ Len(asset.hops) <= MaxRedirects
  /\ \A i \in DOMAIN asset.hops : TrustedRedirect(asset.hops[i], tag, asset.name)

\* asset_sha256_digest, hashes_match: a digest that cannot be read is no digest, and
\* without one nothing is compared.
DigestHolds(asset) == asset.digest \in {"absent", "malformed", asset.hash}

\* extract_singbox_archive: every path is safe and exactly one is the binary.
Extracted(entries) ==
  LET bins == SelectSeq(entries, LAMBDA e : e.name = RuntimeBin)
  IN IF (\A i \in DOMAIN entries : entries[i].safe) /\ Len(bins) = 1
     THEN bins[1].binary ELSE Missing

\* Bug: the candidate is taken without its probe
CandidateUnprobed(r, expected) ==
  LET version == Normal(r.tag)
      archives == Archives(r, version)
      binary == Extracted(archives[1].entries)
  IN IF /\ expected \in {Missing, version} /\ Len(archives) = 1
        /\ Reached(archives[1], r.tag) /\ DigestHolds(archives[1]) /\ binary # Missing
     THEN [binary |-> binary, version |-> version] ELSE NoCandidate

\* bind_expected_version, and install_verified_release up to the candidate's probe.
Candidate(r, expected) ==
  LET version == Normal(r.tag)
      archives == Archives(r, version)
      binary == Extracted(archives[1].entries)
  IN IF /\ expected \in {Missing, version}
        /\ Len(archives) = 1
        /\ Reached(archives[1], r.tag) /\ DigestHolds(archives[1])
        /\ binary = version                                 \* probe_binary_version
     THEN [binary |-> binary, version |-> version]
     ELSE NoCandidate

-----------------------------------------------------------------------------
CoreInit(start) ==
  /\ dest = start /\ previous = Missing
  /\ core = "idle" /\ candidate = NoCandidate /\ found = start

Fails == faults < MaxFaults /\ faults' = faults + 1
Goes(step) == core' = step /\ UNCHANGED faults
Gives == core' = "failed" /\ Fails

\* locate_binary: the path is chosen here, the file is run later.
Located == IF dest # Missing THEN "runtime" ELSE "bundled"

FetchRelease ==
  /\ core = "idle"
  /\ \E r \in CoreReleases, e \in Expected :
       /\ candidate' = Candidate(r, e)
       /\ core' = IF Candidate(r, e) = NoCandidate THEN "failed" ELSE "stop"
  /\ UNCHANGED <<dest, previous, found, faults, engineVars>>

\* An engine that runs is stopped as the user would stop it; a stop that fails ends
\* the update.
StopEngine ==
  /\ core = "stop"
  /\ \/ live = Nobody /\ Goes("again") /\ UNCHANGED engineVars
     \/ /\ live # Nobody /\ Goes("again")
        /\ newest' = Nobody /\ snapshot' = NoSnapshot
        /\ activeRun' = Nobody /\ current' = Nobody /\ live' = Nobody
     \/ live # Nobody /\ Gives /\ newest' = Nobody /\ snapshot' = NoSnapshot
        /\ UNCHANGED <<activeRun, current, live>>
  /\ UNCHANGED <<dest, previous, candidate, found>>

StillStopped ==
  /\ core = "again"
  /\ Goes(IF live = Nobody THEN "copy" ELSE "failed")
  /\ found' = dest
  /\ UNCHANGED <<dest, previous, candidate, engineVars>>

\* The copy beside the target; then a backup that a crash left is removed.
CopyBeside ==
  /\ core = "copy"
  /\ Goes("clear") \/ Gives
  /\ UNCHANGED <<dest, previous, candidate, found, engineVars>>

ClearPrevious ==
  /\ core = "clear"
  /\ \/ previous' = Missing /\ Goes("out")
     \/ previous # Missing /\ Gives /\ UNCHANGED previous
  /\ UNCHANGED <<dest, candidate, found, engineVars>>

MoveOut ==
  /\ core = "out"
  /\ \/ dest' = Missing /\ previous' = dest /\ Goes("in")
     \/ dest # Missing /\ Gives /\ UNCHANGED <<dest, previous>>
  /\ UNCHANGED <<candidate, found, engineVars>>

MoveInOrGive ==                     \* Bug: a failed rename ends the update
  /\ core = "in"
  /\ \/ dest' = candidate.binary /\ Goes("probe")
     \/ Gives /\ UNCHANGED dest
  /\ UNCHANGED previous
  /\ UNCHANGED <<candidate, found, engineVars>>

\* A failed rename leaves the backup to be moved back, an error of which is ignored.
MoveIn ==
  /\ core = "in"
  /\ \/ dest' = candidate.binary /\ Goes("probe")
     \/ core' = "restore" /\ Fails /\ UNCHANGED dest
  /\ UNCHANGED previous
  /\ UNCHANGED <<candidate, found, engineVars>>

\* A version that differs, or a probe that cannot be run, rolls back; this very binary
\* has answered the candidate's probe.
ProbeInstalled ==
  /\ core = "probe"
  /\ \/ dest = candidate.version /\ Goes("done") /\ previous' = Missing
     \/ core' = "rollback" /\ Fails /\ UNCHANGED previous
  /\ UNCHANGED <<dest, candidate, found, engineVars>>

\* rollback: the new binary is removed, the backup is moved back if there is one.
RemoveNew ==
  /\ core = "rollback"
  /\ dest' = Missing /\ Goes("restore")
  /\ UNCHANGED <<previous, candidate, found, engineVars>>

MoveBack ==
  /\ core = "restore"
  /\ \/ dest' = previous /\ previous' = Missing /\ Goes("failed")
     \/ previous # Missing /\ Gives /\ UNCHANGED <<dest, previous>>
  /\ UNCHANGED <<candidate, found, engineVars>>

CoreStep ==
  \/ StopEngine \/ StillStopped \/ CopyBeside \/ ClearPrevious \/ MoveOut \/ MoveIn
  \/ ProbeInstalled \/ RemoveNew \/ MoveBack

\* The process ends between two operations.
CoreForget ==
  /\ core' = "idle" /\ candidate' = NoCandidate /\ found' = dest
  /\ UNCHANGED <<dest, previous>>

-----------------------------------------------------------------------------
\* An update that fails leaves the binary it found, whichever step failed, unless the
\* rename that restores it fails as well (install_verified_release, rollback).
FailureKeepsCore ==
  core \notin {"idle", "stop", "again"} /\ core # "failed" /\ core' = "failed" /\ faults' <= 1
    => dest' = found
=============================================================================
