------------------------------- MODULE GeoData -------------------------------
(***************************************************************************)
(* Xray's routing data on disk: src-tauri/src/engine/xray/geodata.rs.      *)
(* `ensure` reuses a young verified pair, fetches the latest release       *)
(* otherwise and installs it by renaming three files; it falls back to the *)
(* pair it found when the refresh fails.                                   *)
(*                                                                         *)
(* A file is its digest.  One step is one rename or one removal (a removal *)
(* of a backup goes with the rename it prepares), so that another attempt, *)
(* a failure or the end of the process may come between any two.           *)
(***************************************************************************)
EXTENDS Naturals, Sequences, SequencesExt

CONSTANTS
  Attempts,     \* connection attempts of Xray profiles
  Releases,     \* what the release server may answer
  Missing,      \* no file, no pair
  MaxFaults     \* bound: file operations that fail

GeoAssumption == MaxFaults \in Nat

VARIABLES
  files, backup,     \* geoip.dat, geosite.dat, state.json and their .previous
  geo,               \* attempt -> next step of ensure
  at,                \* attempt -> index of the loop over the files
  cached, pair,      \* attempt -> a complete pair was found; the pair fetched
  faults,            \* file operations that failed
  disturbed          \* attempt -> a rename of its own failed, or another attempt
                     \* changed the files meanwhile

geoVars == <<files, backup, geo, at, cached, pair, faults, disturbed>>

Data == <<"geoip", "geosite">>
Names == <<"geoip", "geosite", "state">>
Assets == Data \o <<"geoip.sha256sum", "geosite.sha256sum">>
MaxAsset == 1                                         \* MAX_ASSET_BYTES

-----------------------------------------------------------------------------
(* The release: assets are records [name, size, url], bodies what the      *)
(* download of an asset gives.                                             *)

\* is_trusted_release_asset_url
TrustedAsset(url, tag, name) ==
  url = [plain |-> TRUE, host |-> "github.com", tag |-> tag, file |-> name]

Listed(r, name) ==
  LET found == SelectSeq(r.assets, LAMBDA a : a.name = name)
  IN Len(found) = 1 /\ found[1].size <= MaxAsset /\ TrustedAsset(found[1].url, r.tag, name)

\* download_bounded: the limit holds for what arrives, not for what was listed.
Bounded(r, name) == r.body[name].size <= MaxAsset

\* parse_checksum: lines of words; only a line of two words can be an entry.
ParseChecksum(lines, name) ==
  LET entries == SelectSeq(lines, LAMBDA w : Len(w) = 2 /\ w[2] = name)
  IN IF Len(entries) = 1 /\ entries[1][1] # "malformed" THEN entries[1][1] ELSE Missing

Digest(r, name) == ParseChecksum(r.body[name \o ".sha256sum"].lines, name)

\* fetch_release_pair
ReleasePair(r) ==
  IF /\ \A n \in ToSet(Assets) : Listed(r, n) /\ Bounded(r, n)
     /\ \A n \in ToSet(Data) : r.body[n].digest = Digest(r, n)
  THEN [n \in ToSet(Data) |-> r.body[n].digest]
  ELSE Missing

-----------------------------------------------------------------------------
NoFiles == [n \in ToSet(Names) |-> Missing]
Installed(p) == [n \in ToSet(Names) |-> IF n = "state" THEN p ELSE p[n]]

\* Bug: the state file alone vouches for the pair
CompleteByState == files.state # Missing

\* has_complete_pair, read_cached_state
Complete ==
  files.state # Missing /\ \A n \in ToSet(Data) : files[n] = files.state[n]

GeoIdle == {"new", "served", "refused"}
Interrupted(a) == [b \in Attempts |-> disturbed[b] \/ (b # a /\ geo[b] \notin GeoIdle)]
Fault == faults < MaxFaults /\ faults' = faults + 1
Broken(a) == Fault /\ disturbed' = [Interrupted(a) EXCEPT ![a] = TRUE]
Smooth(a) == UNCHANGED faults /\ disturbed' = Interrupted(a)
GoTo(a, step) == geo' = [geo EXCEPT ![a] = step]
\* The next file of a loop, or the next loop.
Loop(a, step) ==
  IF at[a] < Len(Names) THEN at' = [at EXCEPT ![a] = @ + 1] /\ UNCHANGED geo
                        ELSE at' = [at EXCEPT ![a] = 1] /\ GoTo(a, step)

GeoInit(start) ==
  /\ files = start /\ backup = NoFiles
  /\ geo = [a \in Attempts |-> "new"]
  /\ at = [a \in Attempts |-> 1]
  /\ cached = [a \in Attempts |-> FALSE]
  /\ pair = [a \in Attempts |-> Missing]
  /\ faults = 0
  /\ disturbed = [a \in Attempts |-> FALSE]

\* The answer of ensure once the refresh has ended.
Answer(a, refreshed) == GoTo(a, IF refreshed \/ cached[a] THEN "served" ELSE "refused")

\* ensure up to refresh_decision: the age is the wall clock's, so anything.
Ensure(a) ==
  /\ geo[a] = "new"
  /\ cached' = [cached EXCEPT ![a] = Complete]
  /\ \E young \in BOOLEAN : GoTo(a, IF Complete /\ young THEN "served" ELSE "fetch")
  /\ UNCHANGED <<files, backup, at, pair, faults, disturbed>>

\* A release that is not a verified pair fails like a network that does not answer.
FetchPair(a) ==
  /\ geo[a] = "fetch"
  /\ \E r \in Releases :
       /\ pair' = [pair EXCEPT ![a] = ReleasePair(r)]
       /\ IF ReleasePair(r) = Missing THEN Answer(a, FALSE) ELSE GoTo(a, "write")
  /\ UNCHANGED <<files, backup, at, cached, faults, disturbed>>

\* install_pair up to the renames: the names of the temporary files are its own.
WriteTemporaries(a) ==
  /\ geo[a] = "write"
  /\ \/ GoTo(a, "backup") /\ UNCHANGED faults
     \/ Answer(a, FALSE) /\ Fault
  /\ UNCHANGED <<files, backup, at, cached, pair, disturbed>>

MoveAway(a) ==
  LET n == Names[at[a]] IN
  /\ geo[a] = "backup"
  /\ backup' = [backup EXCEPT ![n] = files[n]]
  /\ files' = [files EXCEPT ![n] = Missing]
  /\ Loop(a, "place") /\ Smooth(a)
  /\ UNCHANGED <<cached, pair>>

MoveAwayFails(a) ==
  LET n == Names[at[a]] IN
  /\ geo[a] = "backup" /\ files[n] # Missing
  /\ backup' = [backup EXCEPT ![n] = Missing]
  /\ GoTo(a, "undo") /\ at' = [at EXCEPT ![a] = 1] /\ Broken(a)
  /\ UNCHANGED <<files, cached, pair>>

Place(a) ==
  LET n == Names[at[a]] IN
  /\ geo[a] = "place"
  /\ \/ files' = [files EXCEPT ![n] = Installed(pair[a])[n]] /\ Loop(a, "drop") /\ Smooth(a)
     \/ GoTo(a, "undo") /\ at' = [at EXCEPT ![a] = 1] /\ Broken(a) /\ UNCHANGED files
  /\ UNCHANGED <<backup, cached, pair>>

DropBackups(a) ==
  /\ geo[a] = "drop"
  /\ backup' = NoFiles
  /\ Answer(a, TRUE) /\ Smooth(a)
  /\ UNCHANGED <<files, at, cached, pair>>

\* The rollback: every target is removed, moved away or not, and every backup
\* that exists is moved back, whichever attempt wrote it; errors are ignored.
RemoveTarget(a) ==
  LET n == Names[at[a]] IN
  /\ geo[a] = "undo"
  /\ \/ files' = [files EXCEPT ![n] = Missing] /\ Smooth(a)
     \/ files[n] # Missing /\ Broken(a) /\ UNCHANGED files
  /\ Loop(a, "restore")
  /\ UNCHANGED <<backup, cached, pair>>

RestoreBackup(a) ==
  LET n == Names[at[a]] IN
  /\ geo[a] = "restore"
  /\ \/ /\ backup[n] # Missing
        /\ files' = [files EXCEPT ![n] = backup[n]]
        /\ backup' = [backup EXCEPT ![n] = Missing]
        /\ Smooth(a)
     \/ backup[n] = Missing /\ Smooth(a) /\ UNCHANGED <<files, backup>>
     \/ backup[n] # Missing /\ Broken(a) /\ UNCHANGED <<files, backup>>
  /\ IF at[a] < Len(Names)
     THEN at' = [at EXCEPT ![a] = @ + 1] /\ UNCHANGED geo
     ELSE at' = [at EXCEPT ![a] = 1] /\ Answer(a, FALSE)
  /\ UNCHANGED <<cached, pair>>

GeoStep(a) ==
  \/ Ensure(a) \/ FetchPair(a) \/ WriteTemporaries(a) \/ MoveAway(a) \/ MoveAwayFails(a)
  \/ Place(a) \/ DropBackups(a) \/ RemoveTarget(a) \/ RestoreBackup(a)

\* The process ends: the files stay as they are, the attempts are gone.
GeoForget ==
  /\ geo' = [a \in Attempts |-> "new"]
  /\ at' = [a \in Attempts |-> 1]
  /\ cached' = [a \in Attempts |-> FALSE]
  /\ pair' = [a \in Attempts |-> Missing]
  /\ disturbed' = [a \in Attempts |-> FALSE]
  /\ UNCHANGED <<files, backup, faults>>

-----------------------------------------------------------------------------
Serves(a) == geo[a] # "served" /\ geo'[a] = "served"
Whole == files.state # Missing /\ files = Installed(files.state)

\* An attempt that is told to use the data finds a complete verified pair in the
\* directory, whatever an earlier attempt or an earlier process left behind, if no
\* rename of its own failed and no other attempt changed the files meanwhile
\* (ensure; has_complete_pair; state.json is moved last).
ServesComplete == \A a \in Attempts : Serves(a) /\ ~disturbed'[a] => Whole'

\* The same without the condition, as the provenance document states it.
AlwaysComplete == \A a \in Attempts : Serves(a) => Whole'
=============================================================================
