----------------------------- MODULE RuntimeFiles -----------------------------
(***************************************************************************)
(* The configuration files of a launch in the runtime directory:           *)
(* commands.rs writes, sweeps and hands them over, config/preflight.rs     *)
(* leases them and runs the core's check on a copy, active_config.rs       *)
(* replaces the file by one with a diagnostic listener, and process.rs     *)
(* spawns the engine from the file and writes it again when it recovers.   *)
(*                                                                         *)
(* Every attempt has a file of its own (a fresh UUID), so the attempt      *)
(* names it.  The sweep is in two steps, what it reads and what it         *)
(* deletes, with the lock of the leases held in between.                   *)
(***************************************************************************)
EXTENDS Naturals

CONSTANTS
  Attempts,     \* connection attempts
  Nobody,       \* no attempt, no run
  Missing       \* no file

VARIABLES
  disk,         \* attempt -> its file: Missing, "plain", "wired", or "partial" after a failed write
  copies,       \* attempts whose check copy is on disk
  leases,       \* leased_config_paths: <<"config", a>>, <<"check", a>>
  holder,       \* the attempt that sweeps with that lock held
  phase,        \* attempt -> next step of its command
  unseen,       \* attempt -> files its sweep will delete unless they are leased
  newest,       \* attempt with the newest ticket; Nobody after a stop
  activeRun, current,  \* active_run_id and current_config of the process manager
  live,         \* attempt whose engine process is alive
  snapshot,     \* [of, config]: the accepted launch and the bytes kept of its file
  rec,          \* [step, for]: the recovery launch and the ticket it started under
  checked       \* attempt -> contents of its file the core has accepted

fileVars == <<disk, copies, leases, holder, phase, unseen, newest, activeRun, current,
              live, snapshot, rec, checked>>
fileSystem == <<disk, copies, leases, holder, unseen>>
manager == <<activeRun, current, live, snapshot, rec>>

NoSnapshot == [of |-> Nobody, config |-> Missing]
NoRecovery == [step |-> "idle", for |-> Nobody]
GateFree == rec.step = "idle"     \* recovery keeps the transition gate to its end

FilesInit ==
  /\ disk = [a \in Attempts |-> Missing] /\ copies = {} /\ leases = {}
  /\ holder = Nobody /\ unseen = [a \in Attempts |-> {}]
  /\ phase = [a \in Attempts |-> "none"] /\ newest = Nobody
  /\ activeRun = Nobody /\ current = Nobody /\ live = Nobody
  /\ snapshot = NoSnapshot /\ rec = NoRecovery
  /\ checked = [a \in Attempts |-> {}]

To(a, step) == phase' = [phase EXCEPT ![a] = step]
Put(a, content) == disk' = [disk EXCEPT ![a] = content]
Newest(a) == newest = a
Unlocked == holder = Nobody

-----------------------------------------------------------------------------
(* The command of an attempt.                                              *)

\* begin_ready_profile_check: the newest ticket, before anything is prepared.
Begin(a) ==
  /\ phase[a] = "none"
  /\ newest' = a /\ To(a, "prepare")
  /\ UNCHANGED <<fileSystem, manager, checked>>

\* write_runtime_config, up to its sweep.  A failed write may leave a part of the
\* file; the lease goes with the error.
WriteConfig(a) ==
  /\ phase[a] = "prepare" /\ Unlocked
  /\ \/ Put(a, "plain") /\ leases' = leases \cup {<<"config", a>>} /\ To(a, "sweep")
     \/ Put(a, "partial") /\ To(a, "ended") /\ UNCHANGED leases
     \/ To(a, "ended") /\ UNCHANGED <<disk, leases>>
  /\ UNCHANGED <<copies, holder, unseen, newest, manager, checked>>

Swept(a) == IF phase[a] \in {"sweep", "sweeping"} THEN "check" ELSE "claim"

\* cleanup_runtime_configs up to the directory: the lock of the leases, then the
\* active run, then the paths in use; a busy mutex hides current_config.
BeginSweep(a) ==
  /\ phase[a] \in {"sweep", "sweep again"} /\ Unlocked
  /\ IF activeRun # Nobody
     THEN To(a, Swept(a)) /\ UNCHANGED <<holder, unseen>>
     ELSE /\ holder' = a
          /\ \E seen \in {{}, {current}} :
               unseen' = [unseen EXCEPT ![a] = Attempts \ (seen \cup {a})]
          /\ To(a, IF phase[a] = "sweep" THEN "sweeping" ELSE "sweeping again")
  /\ UNCHANGED <<disk, copies, leases, newest, manager, checked>>

DoomedLeased(a, b) == b \in unseen[a]                \* Bug: the leases are not asked

\* cleanup_runtime_files: what neither an engine uses nor an attempt has leased.
Doomed(a, b) == b \in unseen[a] /\ <<"config", b>> \notin leases
Sweep(a) ==
  /\ phase[a] \in {"sweeping", "sweeping again"}
  /\ disk' = [b \in Attempts |-> IF Doomed(a, b) THEN Missing ELSE disk[b]]
  /\ copies' = {b \in copies : <<"check", b>> \in leases}
  /\ holder' = Nobody /\ unseen' = [unseen EXCEPT ![a] = {}]
  /\ To(a, Swept(a))
  /\ UNCHANGED <<leases, newest, manager, checked>>

\* start_checked_ready_profile, its first test; validate_config, CheckConfig::new.
BeginCheck(a) ==
  /\ phase[a] \in {"check", "recheck"} /\ Unlocked
  /\ IF ~Newest(a) /\ phase[a] = "check"
     THEN Put(a, Missing) /\ To(a, "return") /\ UNCHANGED <<copies, leases>>
     ELSE /\ copies' = copies \cup {a} /\ leases' = leases \cup {<<"check", a>>}
          /\ To(a, IF phase[a] = "check" THEN "checking" ELSE "rechecking")
          /\ UNCHANGED disk
  /\ UNCHANGED <<holder, unseen, newest, manager, checked>>

\* run_check answers or times out; the copy is removed and its lease dropped.
EndCheck(a, binary) ==
  /\ phase[a] = "checking" /\ Unlocked
  /\ copies' = copies \ {a} /\ leases' = leases \ {<<"check", a>>}
  /\ \E accepted \in {FALSE, binary /\ disk[a] # Missing} :
       /\ checked' = IF accepted THEN [checked EXCEPT ![a] = @ \cup {disk[a]}] ELSE checked
       /\ IF accepted /\ Newest(a) THEN To(a, "attach") /\ UNCHANGED disk
                                   ELSE To(a, "return") /\ Put(a, Missing)
  /\ UNCHANGED <<holder, unseen, newest, manager>>

\* attach_checked_copy_with_writer up to its check: no listener for this profile,
\* the wired copy written, or a failed write undone (or not: the start ends).
Attach(a) ==
  /\ phase[a] = "attach"
  /\ \/ To(a, "handoff") /\ UNCHANGED disk
     \/ Put(a, "wired") /\ To(a, "recheck")
     \/ Put(a, "partial") /\ To(a, "return")
  /\ UNCHANGED <<copies, leases, holder, unseen, newest, manager, checked>>

RestoreNothing(a) == UNCHANGED disk                  \* Bug: the refused copy stays

\* A refused copy is replaced by the original.
RestoreRefused(a) == disk' = [disk EXCEPT ![a] = "plain"]

EndRecheck(a, binary) ==
  /\ phase[a] = "rechecking" /\ Unlocked
  /\ copies' = copies \ {a} /\ leases' = leases \ {<<"check", a>>}
  /\ \/ /\ binary /\ disk[a] # Missing
        /\ checked' = [checked EXCEPT ![a] = @ \cup {disk[a]}]
        /\ IF Newest(a) THEN To(a, "handoff") /\ UNCHANGED disk
                        ELSE To(a, "return") /\ Put(a, Missing)
     \/ /\ IF Newest(a) THEN To(a, "handoff") /\ RestoreRefused(a)
                        ELSE To(a, "return") /\ Put(a, Missing)
        /\ UNCHANGED checked
     \/ Put(a, "partial") /\ To(a, "return") /\ UNCHANGED checked
  /\ UNCHANGED <<holder, unseen, newest, manager>>

\* The engine that runs is stopped only for the newest attempt; a superseded one
\* leaves its file to the next sweep.
HandOff(a) ==
  /\ phase[a] = "handoff" /\ GateFree
  /\ IF Newest(a)
     THEN To(a, "sweep again") /\ activeRun' = Nobody /\ current' = Nobody /\ live' = Nobody
     ELSE To(a, "return") /\ UNCHANGED <<activeRun, current, live>>
  /\ UNCHANGED <<fileSystem, newest, snapshot, rec, checked>>

\* start_profile_checked_with_app claims the run; reset_after_profile_check on an
\* error, for the newest attempt only.
Claim(a) ==
  /\ phase[a] = "claim" /\ GateFree
  /\ IF Newest(a) /\ activeRun = Nobody
     THEN activeRun' = a /\ To(a, "spawn") /\ UNCHANGED <<current, live>>
     ELSE /\ To(a, "return")
          /\ IF Newest(a) THEN activeRun' = Nobody /\ current' = Nobody /\ live' = Nobody
                          ELSE UNCHANGED <<activeRun, current, live>>
  /\ UNCHANGED <<fileSystem, newest, snapshot, rec, checked>>

\* abort_start gives the run back, only its own.
Abort(a) == activeRun' = IF activeRun = a THEN Nobody ELSE activeRun

\* spawn_main_child: the engine reads the file as it is now.
Spawn(a, binary) ==
  /\ phase[a] = "spawn"
  /\ IF Newest(a) /\ binary /\ disk[a] # Missing
     THEN current' = a /\ live' = a /\ To(a, "accept") /\ UNCHANGED activeRun
     ELSE To(a, "return") /\ Abort(a) /\ UNCHANGED <<current, live>>
  /\ UNCHANGED <<fileSystem, newest, snapshot, rec, checked>>

Release(a) == IF activeRun = a THEN activeRun' = Nobody /\ current' = Nobody /\ live' = Nobody
                               ELSE UNCHANGED <<activeRun, current, live>>

\* The launch is accepted with the bytes of its file; superseded it is stopped.
Accept(a) ==
  /\ phase[a] = "accept"
  /\ IF Newest(a)
     THEN /\ snapshot' = IF disk[a] = Missing THEN NoSnapshot ELSE [of |-> a, config |-> disk[a]]
          /\ UNCHANGED <<activeRun, current, live>>
     ELSE Release(a) /\ UNCHANGED snapshot
  /\ To(a, "return")
  /\ UNCHANGED <<fileSystem, newest, rec, checked>>

\* The listener did not come up: one launch from the original, restored first.  The
\* code keeps the gate up to that spawn, the model lets other steps come between.
FallBack(a) ==
  /\ phase[a] = "accept" /\ Newest(a) /\ live = a /\ disk[a] = "wired"
  /\ live' = Nobody /\ activeRun' = Nobody /\ current' = Nobody
  /\ Put(a, "plain") /\ To(a, "claim")
  /\ UNCHANGED <<copies, leases, holder, unseen, newest, snapshot, rec, checked>>

\* The command returns and drops the lease of its file.
Return(a) ==
  /\ phase[a] = "return" /\ Unlocked
  /\ leases' = leases \ {<<"config", a>>} /\ To(a, "ended")
  /\ UNCHANGED <<disk, copies, holder, unseen, newest, manager, checked>>

\* `binary`: the engine's binary is where the attempt located it.
Attempt(a, binary) ==
  \/ BeginSweep(a) \/ Sweep(a) \/ BeginCheck(a) \/ EndCheck(a, binary) \/ Attach(a)
  \/ EndRecheck(a, binary) \/ HandOff(a) \/ Claim(a) \/ Spawn(a, binary) \/ Accept(a)
  \/ FallBack(a) \/ Return(a)

-----------------------------------------------------------------------------
(* The engine and its recovery.                                            *)

\* finalize_exit: the engine crashed, or a stop reached it in the gate.
EngineExit ==
  /\ live # Nobody /\ GateFree
  /\ live' = Nobody /\ activeRun' = Nobody /\ current' = Nobody
  /\ UNCHANGED <<fileSystem, phase, newest, snapshot, rec, checked>>

\* What a stop does before the gate: the ticket and the accepted launch.
StopRequested ==
  /\ newest # Nobody
  /\ newest' = Nobody /\ snapshot' = NoSnapshot
  /\ UNCHANGED <<fileSystem, phase, activeRun, current, live, rec, checked>>

\* start_profile_for_recovery: stop, write the file again from the snapshot, claim
\* the run, spawn; each step only while no newer request came.
Recovering == rec.step # "idle" /\ rec.for = newest /\ snapshot # NoSnapshot
Recovery(step) == rec' = [rec EXCEPT !.step = step]

BeginRecovery ==
  /\ rec = NoRecovery /\ snapshot # NoSnapshot
  /\ \A a \in Attempts : phase[a] \in {"none", "ended"}
  /\ rec' = [step |-> "write", for |-> newest]
  /\ live' = Nobody /\ activeRun' = Nobody /\ current' = Nobody
  /\ UNCHANGED <<fileSystem, phase, newest, snapshot, checked>>

Rewrite ==
  /\ Recovering /\ rec.step = "write"
  /\ Put(snapshot.of, snapshot.config) /\ Recovery("claim")
  /\ UNCHANGED <<copies, leases, holder, unseen, phase, newest, activeRun, current, live,
                 snapshot, checked>>

ClaimAgain ==
  /\ Recovering /\ rec.step = "claim" /\ activeRun = Nobody
  /\ activeRun' = snapshot.of /\ Recovery("spawn")
  /\ UNCHANGED <<fileSystem, phase, newest, current, live, snapshot, checked>>

Respawn(binary) ==
  /\ Recovering /\ rec.step = "spawn"
  /\ IF binary /\ disk[snapshot.of] # Missing
     THEN live' = snapshot.of /\ current' = snapshot.of /\ UNCHANGED activeRun
     ELSE activeRun' = Nobody /\ UNCHANGED <<live, current>>
  /\ rec' = NoRecovery
  /\ UNCHANGED <<fileSystem, phase, newest, snapshot, checked>>

\* A newer request: abort_start gives the run back.
AbandonRecovery ==
  /\ rec.step # "idle" /\ ~Recovering
  /\ rec' = NoRecovery /\ activeRun' = Nobody
  /\ UNCHANGED <<fileSystem, phase, newest, current, live, snapshot, checked>>

EngineStep ==
  EngineExit \/ StopRequested \/ BeginRecovery \/ Rewrite \/ ClaimAgain \/ AbandonRecovery

\* The process ends and starts again: lib.rs sweeps the whole directory, with no
\* lease and no run, before the first command.
FilesForget ==
  /\ disk' = [a \in Attempts |-> Missing] /\ copies' = {} /\ leases' = {}
  /\ holder' = Nobody /\ unseen' = [a \in Attempts |-> {}]
  /\ phase' = [a \in Attempts |-> "none"] /\ newest' = Nobody
  /\ activeRun' = Nobody /\ current' = Nobody /\ live' = Nobody
  /\ snapshot' = NoSnapshot /\ rec' = NoRecovery
  /\ checked' = [a \in Attempts |-> {}]

-----------------------------------------------------------------------------
\* The file of an attempt between the write and the spawn, and the file of an engine
\* that lives, are on disk: no other attempt's sweep removes them (leased_config_paths;
\* cleanup_runtime_configs locks the leases before it looks at the active run).
ConfigKept ==
  \A a \in Attempts :
    \/ live = a
    \/ phase[a] \in {"sweep", "sweeping", "check", "checking", "attach", "recheck", "rechecking",
                    "sweep again", "sweeping again", "claim", "spawn", "accept"}
    => disk[a] # Missing

\* An engine is launched, by a request, its fallback or recovery, from a file the core
\* accepted (start_checked_ready_profile; attach_checked_copy; restore_original).
LaunchedIsChecked ==
  \A a \in Attempts : live # a /\ live' = a => disk[a] \in checked[a]
=============================================================================
