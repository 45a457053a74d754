-------------------------- MODULE SystemProxy_proofs --------------------------
(***************************************************************************)
(* What is proved of the two system proxy leases (SystemProxy, with        *)
(* WindowsProxy as Win and MacProxy as Mac), for any processes,            *)
(* installations, listeners, network services and bounds.                  *)
(*                                                                         *)
(* On either platform the argument starts from the lock: a process that is *)
(* in the middle of an operation, or keeps a lease, has it, so between two *)
(* of its steps only the user and other applications act.                  *)
(***************************************************************************)
EXTENDS SystemProxy, TLAPS

Busy(p) == pc[p] \notin {"down", "idle"}

\* The lock belongs to whoever is in an operation or keeps a lease.
Exclusive == \A p \in Procs : Busy(p) \/ held[p] => lock = p

-----------------------------------------------------------------------------
(* Windows: what the registry, the journals and the locals hold.           *)

Triples == [1..3 -> Nat]
Leases == [server : Nat, bypass : Nat, previous : Nat, settled : BOOLEAN]
Keys == [key : BOOLEAN, before : Triples, lease : Leases]
Locals == [before : Triples, applied : Triples, phase : 0..3, end : {0, 3}, now : Triples]

WinSteps ==
  {"down", "idle", "read", "announce", "confirm", "switch", "settle", "before", "record",
   "check", "write", "restore", "unsettle", "delete"}
Goals == {"none", "apply", "undo", "release"}

WinTyped ==
  /\ settings \in Triples /\ settings[3] \in {0, 1} /\ user \in Triples
  /\ owner \in [Channels -> Keys]
  /\ channel \in [Procs -> Channels] /\ held \in [Procs -> BOOLEAN]
  /\ pc \in [Procs -> WinSteps] /\ goal \in [Procs -> Goals]
  /\ server \in [Procs -> Nat] /\ work \in [Procs -> Locals]
  /\ leases \in Nat /\ edits \in Nat /\ late \in Nat
  /\ claimed \in BOOLEAN /\ overlap \in BOOLEAN

\* A journal holds the values of a time when no proxy was on, and a lease of its own mark.
Sound(k) ==
  /\ k.before[3] = 0
  /\ Win!HasLease(k) =>
       /\ k.lease.bypass > Win!Others /\ k.lease.server \in Servers
       /\ k.lease.previous # Win!NoServer => k.lease.previous \in Servers
       /\ k.lease.settled => k.lease.previous = Win!NoServer

KeysSound == \A c \in Channels : Sound(owner[c])

Mine(p) == owner[channel[p]]

\* An apply carries the listener it was called with.
Asked ==
  \A p \in Procs :
    /\ pc[p] \in {"read", "announce", "confirm", "switch", "before", "record"} => goal[p] = "apply"
    /\ goal[p] = "apply" => server[p] \in Servers

\* A fresh lease: the key is made for the values in force, then the lease put into it.
Opening(p) ==
  /\ pc[p] = "before" => ~Mine(p).key
  /\ pc[p] = "record" =>
       Mine(p).key /\ ~Win!HasLease(Mine(p)) /\ Mine(p).before = work[p].before

\* The server a lease puts in place, or the one a switch is about to replace.
Server(lease) ==
  {lease.server} \cup (IF lease.previous = Win!NoServer THEN {} ELSE {lease.previous})

\* A transition works on the journal: its two ends are those of the lease.
Moving(p) ==
  LET w == work[p]
      lease == Mine(p).lease
  IN
  pc[p] \in {"check", "write", "unsettle"} =>
    /\ Win!HasLease(Mine(p)) /\ w.before = Mine(p).before
    /\ w.applied[1] = lease.bypass /\ w.applied[2] \in Server(lease) /\ w.applied[3] = 1
    /\ w.end = 3 => lease.previous = Win!NoServer
    /\ pc[p] = "unsettle" => w.end = 0 /\ w.phase # 0
    /\ pc[p] # "unsettle" => ~lease.settled
    /\ pc[p] = "write" => w.phase # w.end

\* A switch starts from an intact lease.
Switching(p) ==
  LET lease == Mine(p).lease IN
  /\ pc[p] \in {"announce", "confirm", "switch", "settle"} => Win!HasLease(Mine(p))
  /\ pc[p] \in {"announce", "confirm"} => work[p].now[1] > Win!Others /\ work[p].now[2] \in Servers
  /\ pc[p] = "announce" => lease.settled
  /\ pc[p] \in {"confirm", "switch"} => lease.server = server[p]

Journaled == \A p \in Procs : Opening(p) /\ Moving(p) /\ Switching(p)

\* Nobody else edits: the settings are what the step before left.
Settings(p) ==
  /\ pc[p] = "record" => settings = work[p].before
  /\ pc[p] \in {"check", "write", "unsettle"} =>
       Win!PhaseMatches(settings, work[p].before, work[p].applied, work[p].phase)
  /\ pc[p] \in {"announce", "confirm", "switch"} =>
       settings = Win!Applied(Mine(p).lease, settings)
  /\ pc[p] = "settle" =>
       settings = <<Mine(p).lease.bypass, Mine(p).lease.server, 1>>
  /\ pc[p] = "delete" /\ Win!Recovers(Mine(p)) => settings = Mine(p).before
Undisturbed == edits = 0 => \A p \in Procs : Settings(p)

\* Without overlap one installation at a time has a lease, over the user's settings.
Single ==
  edits = 0 /\ ~overlap =>
    /\ \A c, d \in Channels : Win!HasLease(owner[c]) /\ Win!HasLease(owner[d]) => c = d
    /\ \A c \in Channels : Win!HasLease(owner[c]) => owner[c].before = user
    /\ \A p \in Procs : pc[p] = "record" => \A c \in Channels : ~Win!HasLease(owner[c])

\* What another application has enabled: one value at most has been written over, and by
\* the only write that was already checked.
Claimed ==
  /\ claimed =>
       /\ settings[3] = 1
       /\ late = 0 => settings[1] = Win!Others /\ settings[2] = Win!Others
       /\ late # 0 => /\ settings[1] = Win!Others \/ settings[2] = Win!Others
                      /\ \A p \in Procs : pc[p] \notin {"write", "switch"}
  /\ late \in {0, 1}

WinInv ==
  /\ WinTyped /\ Exclusive /\ KeysSound /\ Asked /\ Journaled
  /\ Undisturbed /\ Win!EnabledIsComplete /\ Single /\ Win!AlwaysRecoverable
  /\ Claimed

\* Three values make a triple of settings.
LEMMA TripleIn ==
  ASSUME NEW a \in Nat, NEW b \in Nat, NEW c \in Nat
  PROVE  <<a, b, c>> \in Triples
BY DEF Triples

\* A triple is known by its values.
LEMMA TripleIs ==
  ASSUME NEW s \in Triples, NEW a, NEW b, NEW c
  PROVE  s = <<a, b, c>> <=> s[1] = a /\ s[2] = b /\ s[3] = c
BY DEF Triples

\* Triples with the same values are the same.
LEMMA SameTriple ==
  ASSUME NEW s \in Triples, NEW t \in Triples, s[1] = t[1], s[2] = t[2], s[3] = t[3]
  PROVE  s = t
BY DEF Triples

\* One value of a triple is set.
LEMMA TripleSet ==
  ASSUME NEW s \in Triples, NEW i \in 1..3, NEW v \in Nat
  PROVE  /\ [s EXCEPT ![i] = v] \in Triples
         /\ \A j \in 1..3 : [s EXCEPT ![i] = v][j] = IF j = i THEN v ELSE s[j]
BY DEF Triples

-----------------------------------------------------------------------------
(* Windows: types, and the lock.                                           *)

USE DEF Win!NoServer, Win!Others, Win!Users

\* A step of one process.
Acts(p) ==
  \/ Win!Step(p) \/ Win!BeginRelease(p) \/ Win!Fail(p) \/ Win!Crash(p)
  \/ \E s \in Servers : Win!BeginApply(p, s)

\* The lock is no process, and a listener is neither absent nor another program's.
LEMMA WinConstants ==
  /\ Free \notin Procs /\ Servers \subseteq Nat \ {0, 1}
BY LeaseAssumption DEF Win!ProxyAssumption

\* The named values are of their types.
LEMMA NamedTyped ==
  /\ Win!NoLease \in Leases /\ Win!NoKey \in Keys /\ Win!Idle \in Locals
  /\ Win!NoKey.before[3] = 0 /\ ~Win!NoKey.key
BY TripleIn DEF Win!NoLease, Win!NoKey, Win!Idle, Leases, Keys, Locals

\* What a lease puts in the settings (Lease::applied).
LEMMA AppliedTyped ==
  ASSUME NEW lease \in Leases, NEW now \in Triples
  PROVE  /\ Win!Applied(lease, now) \in Triples
         /\ Win!Applied(lease, now)[1] = lease.bypass
         /\ Win!Applied(lease, now)[2] =
              IF lease.previous # Win!NoServer /\ now[2] = lease.previous THEN lease.previous
                                                                      ELSE lease.server
         /\ Win!Applied(lease, now)[3] = 1
BY TripleIn DEF Win!Applied, Leases, Triples

\* One value is written.
LEMMA WriteTyped ==
  ASSUME WinTyped, NEW i \in 1..3, NEW v \in Nat, i = 3 => v \in {0, 1}, Win!WriteSetting(i, v)
  PROVE  /\ settings' \in Triples /\ settings'[3] \in {0, 1}
         /\ user' \in Triples /\ late' \in Nat /\ claimed' \in BOOLEAN /\ overlap' \in BOOLEAN
<1>1. claimed' \in BOOLEAN
  BY DEF Win!WriteSetting
<1>2. late' \in Nat
  BY DEF WinTyped, Win!WriteSetting
<1>3. settings' = [settings EXCEPT ![i] = v] /\ settings \in Triples /\ settings[3] \in {0, 1}
  BY DEF WinTyped, Win!WriteSetting
<1>4. settings' \in Triples /\ settings'[3] = IF i = 3 THEN v ELSE settings[3]
  BY <1>3 DEF Triples
<1> QED
  BY <1>1, <1>2, <1>4 DEF WinTyped, Win!WriteSetting

\* The process variables after a step of p.
ProcsTyped ==
  /\ channel \in [Procs -> Channels] /\ held \in [Procs -> BOOLEAN]
  /\ pc \in [Procs -> WinSteps] /\ goal \in [Procs -> Goals]
  /\ server \in [Procs -> Nat] /\ work \in [Procs -> Locals]

\* An operation ends.
LEMMA FinishTyped ==
  ASSUME ProcsTyped, NEW p \in Procs, NEW keep \in BOOLEAN, UNCHANGED channel, Win!Finish(p, keep)
  PROVE  ProcsTyped'
BY NamedTyped DEF ProcsTyped, Win!Finish, Win!Goto, WinSteps, Goals

\* A failed apply turns to its undoing.
LEMMA UndoTyped ==
  ASSUME ProcsTyped, NEW p \in Procs, UNCHANGED channel, Win!Undo(p)
  PROVE  ProcsTyped'
BY DEF ProcsTyped, Win!Undo, Win!Goto, WinSteps, Goals

\* A restore ends and its caller goes on.
LEMMA RestoreTyped ==
  ASSUME ProcsTyped, NEW p \in Procs, NEW ok \in BOOLEAN, UNCHANGED channel,
         Win!AfterRestore(p, ok)
  PROVE  ProcsTyped'
<1>1. CASE Win!Finish(p, held[p])
  BY <1>1, FinishTyped DEF ProcsTyped
<1>2. CASE Win!Finish(p, IF ok THEN FALSE ELSE held[p])
  <2>1. (IF ok THEN FALSE ELSE held[p]) \in BOOLEAN
    BY DEF ProcsTyped
  <2> QED
    BY <1>2, <2>1, FinishTyped
<1>3. CASE goal[p] = "apply"
  BY <1>3 DEF ProcsTyped, Win!AfterRestore, Win!Goto, WinSteps, Goals
<1> QED
  BY <1>1, <1>2, <1>3 DEF Win!AfterRestore

\* The highest phase is one of them.
LEMMA Highest ==
  ASSUME NEW S \in SUBSET (1..3), S # {}
  PROVE  Win!HighestOf(S) \in S
<1>1. \E n \in S : \A m \in S : m <= n
  <2>1. CASE 3 \in S
    BY <2>1
  <2>2. CASE 3 \notin S /\ 2 \in S
    BY <2>2
  <2>3. CASE 3 \notin S /\ 2 \notin S
    <3>1. \A n \in S : n = 1 /\ n <= 1
      BY <2>3
    <3>2. 1 \in S
      BY <3>1
    <3> QED
      BY <3>1, <3>2
  <2> QED
    BY <2>1, <2>2, <2>3
<1> QED
  BY <1>1 DEF Win!HighestOf

\* A transition gets its two triples and its way.
LEMMA TransitTyped ==
  ASSUME ProcsTyped, NEW p \in Procs, NEW before \in Triples, NEW applied \in Triples,
         NEW phase \in 0..3, NEW end \in {0, 3}, Win!Transit(p, before, applied, phase, end)
  PROVE  work' \in [Procs -> Locals]
BY DEF ProcsTyped, Win!Transit, Locals

\* The registry, its history and the bounds after a step.
RegistryTyped ==
  /\ settings \in Triples /\ settings[3] \in {0, 1} /\ user \in Triples
  /\ owner \in [Channels -> Keys]
  /\ leases \in Nat /\ edits \in Nat /\ late \in Nat
  /\ claimed \in BOOLEAN /\ overlap \in BOOLEAN

\* The types in two halves: what is a process's own, and the registry.
LEMMA WinTypedIs == WinTyped <=> ProcsTyped /\ RegistryTyped
BY DEF WinTyped, ProcsTyped, RegistryTyped

\* Every step keeps the types of what is a process's own.
LEMMA StepProcsTyped ==
  ASSUME WinTyped, NEW p \in Procs, Acts(p)
  PROVE  ProcsTyped'
<1> USE WinTypedIs, WinConstants
<1>1. CASE Win!ReadLease(p)
  <2>1. [work EXCEPT ![p].now = settings] \in [Procs -> Locals]
    BY DEF WinTyped, Locals
  <2> QED
    BY <1>1, <2>1, FinishTyped DEF WinTyped, Win!ReadLease, ProcsTyped, Win!Goto, WinSteps
<1>2. CASE Win!AnnounceSwitch(p)
  BY <1>2 DEF Win!AnnounceSwitch, ProcsTyped, Win!Goto, WinSteps
<1>3. CASE Win!ConfirmSwitch(p)
  BY <1>3, UndoTyped DEF Win!ConfirmSwitch, ProcsTyped, Win!Goto, WinSteps
<1>4. CASE Win!WriteSwitch(p)
  BY <1>4 DEF Win!WriteSwitch, ProcsTyped, Win!Goto, WinSteps
<1>5. CASE Win!CopyBefore(p)
  <2>1. [work EXCEPT ![p].before = settings] \in [Procs -> Locals]
    BY DEF WinTyped, Locals
  <2> QED
    BY <1>5, <2>1, UndoTyped DEF Win!CopyBefore, ProcsTyped, Win!Goto, WinSteps
<1>6. CASE Win!RecordLease(p)
  <2> DEFINE lease == Win!Lease(server[p], 1 + leases', 0, FALSE)
  <2>1. lease \in Leases
    BY <1>6 DEF Win!RecordLease, Win!Lease, Leases, WinTyped
  <2>2. work[p].before \in Triples /\ Win!Applied(lease, work[p].before) \in Triples
    BY <2>1, AppliedTyped DEF WinTyped, Locals
  <2>3. Win!Transit(p, work[p].before, Win!Applied(lease, work[p].before), 0, 3)
    BY <1>6 DEF Win!RecordLease
  <2> HIDE DEF lease
  <2>4. work' \in [Procs -> Locals]
    BY <2>2, <2>3, TransitTyped
  <2> QED
    BY <1>6, <2>4 DEF Win!RecordLease, ProcsTyped, Win!Goto, WinSteps
<1>7. CASE Win!SettleLease(p)
  BY <1>7, FinishTyped DEF Win!SettleLease
<1>8. CASE Win!CheckPhase(p)
  BY <1>8, UndoTyped DEF Win!CheckPhase, ProcsTyped, Win!Goto, WinSteps
<1>9. CASE Win!WriteValue(p)
  <2>1. /\ work[p].phase < work[p].end =>
             [work EXCEPT ![p].phase = work[p].phase + 1] \in [Procs -> Locals]
        /\ work[p].phase > work[p].end =>
             [work EXCEPT ![p].phase = work[p].phase - 1] \in [Procs -> Locals]
    BY DEF WinTyped, Locals
  <2> QED
    BY <1>9, <2>1 DEF Win!WriteValue, ProcsTyped, Win!Goto, WinSteps
<1>10. CASE Win!ReadJournal(p)
  <2>1. CASE Win!HasLease(Win!Mine(p)) /\ Win!Phases(Win!Mine(p)) # {}
    <3> DEFINE k == Win!Mine(p)
               n == Win!HighestOf(Win!Phases(k))
    <3>1. k \in Keys /\ k.lease \in Leases /\ k.before \in Triples
      BY DEF WinTyped, Win!Mine, Keys
    <3>2. Win!Phases(k) \subseteq 1..3 /\ Win!Phases(k) # {}
      BY <2>1 DEF Win!Phases
    <3>3. n \in 1..3
      BY <3>2, Highest
    <3>4. Win!Applied(k.lease, settings) \in Triples
      BY <3>1, AppliedTyped DEF WinTyped
    <3> HIDE DEF n
    <3>5. k.key
      BY <2>1 DEF Win!HasLease
    <3>6. /\ Win!Transit(p, k.before, Win!Applied(k.lease, settings), n, 0)
          /\ Win!Goto(p, "unsettle") /\ UNCHANGED <<goal, held, lock, server, channel>>
      BY <1>10, <2>1, <3>5 DEF Win!ReadJournal, n
    <3> QED
      BY <3>1, <3>3, <3>4, <3>6, TransitTyped DEF ProcsTyped, Win!Goto, WinSteps
  <2>2. CASE ~(Win!HasLease(Win!Mine(p)) /\ Win!Phases(Win!Mine(p)) # {})
    BY <1>10, <2>2, RestoreTyped DEF Win!ReadJournal, ProcsTyped, Win!Goto, WinSteps
  <2> QED
    BY <2>1, <2>2
<1>11. CASE Win!UnsettleLease(p)
  BY <1>11 DEF Win!UnsettleLease, ProcsTyped, Win!Goto, WinSteps
<1>12. CASE Win!DeleteKey(p)
  BY <1>12, RestoreTyped DEF Win!DeleteKey
<1>13. CASE Win!BeginRelease(p)
  BY <1>13 DEF Win!BeginRelease, ProcsTyped, Win!Goto, WinSteps, Goals
<1>14. CASE Win!Fail(p)
  BY <1>14, RestoreTyped, UndoTyped DEF Win!Fail
<1>15. CASE Win!Crash(p)
  BY <1>15, NamedTyped DEF Win!Crash, ProcsTyped, Win!Goto, WinSteps, Goals
<1>16. ASSUME NEW s \in Servers, Win!BeginApply(p, s) PROVE ProcsTyped'
  BY <1>16 DEF Win!BeginApply, ProcsTyped, Win!Goto, WinSteps, Goals
<1> QED
  BY <1>1, <1>2, <1>3, <1>4, <1>5, <1>6, <1>7, <1>8, <1>9, <1>10, <1>11, <1>12, <1>13, <1>14,
     <1>15, <1>16 DEF Acts, Win!Step

\* The journal of a process's installation.
LEMMA MineTyped ==
  ASSUME WinTyped, NEW p \in Procs
  PROVE  /\ Win!Mine(p) = Mine(p) /\ Mine(p) \in Keys /\ Mine(p).lease \in Leases
         /\ Mine(p).before \in Triples /\ channel[p] \in Channels
BY DEF WinTyped, Win!Mine, Mine, Keys

\* The lease in the journal of the installation of p is saved, and nothing else of it.
SavedAs(p, s, b, q, settled) ==
  /\ channel' = channel /\ \A c \in Channels \ {channel[p]} : owner'[c] = owner[c]
  /\ Mine(p)'.key = Mine(p).key /\ Mine(p)'.before = Mine(p).before
  /\ Mine(p)'.lease.server = s /\ Mine(p)'.lease.bypass = b
  /\ Mine(p)'.lease.previous = q /\ Mine(p)'.lease.settled = settled
  /\ Mine(p)' \in Keys /\ owner' \in [Channels -> Keys]

\* A journal is saved; those of the other installations stay.
LEMMA Saved ==
  ASSUME WinTyped, NEW p \in Procs, NEW s \in Nat, NEW b \in Nat, NEW q \in Nat,
         NEW settled \in BOOLEAN, Win!SaveLease(p, Win!Lease(s, b, q, settled)), UNCHANGED channel
  PROVE  SavedAs(p, s, b, q, settled)
BY DEF Win!SaveLease, Win!Lease, WinTyped, Keys, Leases, Mine, SavedAs

\* The lease each of the four saves records.
LEMMA Saves ==
  ASSUME WinTyped, NEW p \in Procs
  PROVE  LET lease == Mine(p).lease IN
         /\ Win!AnnounceSwitch(p) => SavedAs(p, server[p], lease.bypass, lease.server, FALSE)
         /\ Win!RecordLease(p) => SavedAs(p, server[p], leases + 2, 0, FALSE)
         /\ Win!SettleLease(p) => SavedAs(p, lease.server, lease.bypass, 0, TRUE)
         /\ Win!UnsettleLease(p) =>
              SavedAs(p, lease.server, lease.bypass, lease.previous, FALSE)
<1>1. /\ Mine(p).lease.server \in Nat /\ Mine(p).lease.bypass \in Nat
      /\ Mine(p).lease.previous \in Nat /\ server[p] \in Nat /\ leases + 2 \in Nat
  BY MineTyped DEF Leases, WinTyped
<1>2. ASSUME Win!AnnounceSwitch(p)
      PROVE  SavedAs(p, server[p], Mine(p).lease.bypass, Mine(p).lease.server, FALSE)
  BY <1>1, <1>2, MineTyped, Saved DEF Win!AnnounceSwitch
<1>3. ASSUME Win!RecordLease(p)
      PROVE  SavedAs(p, server[p], leases + 2, 0, FALSE)
  <2>1. 1 + leases' = leases + 2
    BY <1>3 DEF Win!RecordLease, WinTyped
  <2>2. Win!SaveLease(p, Win!Lease(server[p], 1 + leases', 0, FALSE)) /\ UNCHANGED channel
    BY <1>3 DEF Win!RecordLease
  <2> QED
    BY <1>1, <2>1, <2>2, Saved
<1>4. ASSUME Win!SettleLease(p)
      PROVE  SavedAs(p, Mine(p).lease.server, Mine(p).lease.bypass, 0, TRUE)
  BY <1>1, <1>4, MineTyped, Saved DEF Win!SettleLease
<1>5. ASSUME Win!UnsettleLease(p)
      PROVE  SavedAs(p, Mine(p).lease.server, Mine(p).lease.bypass, Mine(p).lease.previous, FALSE)
  BY <1>1, <1>5, MineTyped, Saved DEF Win!UnsettleLease
<1> QED
  BY <1>2, <1>3, <1>4, <1>5

\* What a transition writes, and where.
LEMMA WrittenIs ==
  ASSUME WinTyped, KeysSound, Journaled, NEW p \in Procs, Win!WriteValue(p)
  PROVE  LET w == work[p] IN
         /\ w \in Locals /\ w.before[3] = 0 /\ w.applied[3] = 1
         /\ \/ /\ w.end = 3 /\ w.phase \in 0..2
               /\ Win!WriteSetting(w.phase + 1, w.applied[w.phase + 1])
               /\ work' = [work EXCEPT ![p].phase = w.phase + 1]
            \/ /\ w.end = 0 /\ w.phase \in 1..3
               /\ Win!WriteSetting(w.phase, w.before[w.phase])
               /\ work' = [work EXCEPT ![p].phase = w.phase - 1]
<1> USE MineTyped
<1>1. pc[p] = "write" /\ Moving(p) /\ Sound(Mine(p))
  BY DEF Win!WriteValue, Journaled, KeysSound, Mine
<1>2. /\ work[p] \in Locals /\ work[p].phase \in 0..3 /\ work[p].end \in {0, 3}
      /\ work[p].before[3] = 0 /\ work[p].applied[3] = 1 /\ work[p].phase # work[p].end
  BY <1>1 DEF Moving, Sound, WinTyped, Locals
<1> QED
  BY <1>2 DEF Win!WriteValue

\* A transition writes one value, of the lease or of the settings before it.
LEMMA WritesOne ==
  ASSUME WinTyped, KeysSound, Journaled, NEW p \in Procs, Win!WriteValue(p)
  PROVE  \E i \in 1..3, v \in Nat : (i = 3 => v \in {0, 1}) /\ Win!WriteSetting(i, v)
<1> DEFINE w == work[p]
<1>1. w.before \in Triples /\ w.applied \in Triples /\ w.before[3] = 0 /\ w.applied[3] = 1
  BY WrittenIs DEF Locals
<1>2. /\ \A n \in 1..3 : w.before[n] \in Nat /\ w.applied[n] \in Nat
      /\ \A n \in 0..2 : n + 1 \in 1..3
  BY <1>1 DEF Triples
<1>3. CASE w.phase \in 0..2 /\ Win!WriteSetting(w.phase + 1, w.applied[w.phase + 1])
  BY <1>1, <1>2, <1>3
<1>4. CASE w.phase \in 1..3 /\ Win!WriteSetting(w.phase, w.before[w.phase])
  BY <1>1, <1>2, <1>4
<1> QED
  BY <1>3, <1>4, WrittenIs

\* Every step keeps the types of the registry.
LEMMA StepRegistryTyped ==
  ASSUME WinTyped, KeysSound, Journaled, NEW p \in Procs, Acts(p)
  PROVE  RegistryTyped'
<1> USE WinTypedIs, WinConstants, MineTyped
<1>a. RegistryTyped
  OBVIOUS
<1>1. CASE Win!ReadLease(p)
  BY <1>1, <1>a DEF Win!ReadLease, RegistryTyped, Win!boundVars, Win!historyVars
<1>2. CASE Win!AnnounceSwitch(p)
  <2>1. owner' \in [Channels -> Keys]
    BY <1>2, Saves DEF SavedAs
  <2> QED
    BY <1>2, <1>a, <2>1 DEF Win!AnnounceSwitch, RegistryTyped, Win!boundVars, Win!historyVars
<1>3. CASE Win!ConfirmSwitch(p)
  BY <1>3, <1>a DEF Win!ConfirmSwitch, RegistryTyped, Win!boundVars, Win!historyVars
<1>4. CASE Win!WriteSwitch(p)
  <2>1. server[p] \in Nat /\ Win!WriteSetting(2, server[p])
    BY <1>4 DEF WinTyped, Win!WriteSwitch
  <2> QED
    BY <1>4, <2>1, <1>a, WriteTyped DEF Win!WriteSwitch, RegistryTyped, Win!boundVars
<1>5. CASE Win!CopyBefore(p)
  <2>1. [key |-> TRUE, before |-> settings, lease |-> Win!NoLease] \in Keys
    BY NamedTyped DEF Keys, WinTyped
  <2>2. owner' \in [Channels -> Keys]
    BY <1>5, <2>1, <1>a DEF Win!CopyBefore, RegistryTyped
  <2>3. overlap' \in BOOLEAN
    BY <1>5, <1>a DEF Win!CopyBefore, RegistryTyped
  <2> QED
    BY <1>5, <2>2, <2>3, <1>a DEF Win!CopyBefore, RegistryTyped, Win!boundVars
<1>6. CASE Win!RecordLease(p)
  <2>1. owner' \in [Channels -> Keys]
    BY <1>6, Saves DEF SavedAs
  <2> QED
    BY <1>6, <1>a, <2>1 DEF Win!RecordLease, RegistryTyped, Win!historyVars
<1>7. CASE Win!SettleLease(p)
  <2>1. owner' \in [Channels -> Keys]
    BY <1>7, Saves DEF SavedAs
  <2> QED
    BY <1>7, <1>a, <2>1 DEF Win!SettleLease, RegistryTyped, Win!boundVars, Win!historyVars
<1>8. CASE Win!CheckPhase(p)
  BY <1>8, <1>a DEF Win!CheckPhase, RegistryTyped, Win!boundVars, Win!historyVars
<1>9. CASE Win!WriteValue(p)
  <2>1. UNCHANGED <<owner, leases, edits>>
    BY <1>9 DEF Win!WriteValue, Win!boundVars
  <2>4. \E i \in 1..3, v \in Nat : (i = 3 => v \in {0, 1}) /\ Win!WriteSetting(i, v)
    BY <1>9, WritesOne
  <2> QED
    BY <2>1, <2>4, <1>a, WriteTyped DEF RegistryTyped
<1>10. CASE Win!ReadJournal(p)
  BY <1>10, <1>a DEF Win!ReadJournal, RegistryTyped, Win!boundVars, Win!historyVars
<1>11. CASE Win!UnsettleLease(p)
  <2>1. owner' \in [Channels -> Keys]
    BY <1>11, Saves DEF SavedAs
  <2> QED
    BY <1>11, <1>a, <2>1 DEF Win!UnsettleLease, RegistryTyped, Win!boundVars, Win!historyVars
<1>12. CASE Win!DeleteKey(p)
  BY <1>12, <1>a, NamedTyped DEF Win!DeleteKey, RegistryTyped, Win!boundVars, Win!historyVars
<1>13. CASE Win!BeginRelease(p)
  BY <1>13, <1>a DEF Win!BeginRelease, RegistryTyped, Win!boundVars, Win!historyVars
<1>14. CASE Win!Fail(p)
  BY <1>14, <1>a DEF Win!Fail, RegistryTyped, Win!historyVars
<1>15. CASE Win!Crash(p)
  BY <1>15, <1>a DEF Win!Crash, RegistryTyped, Win!historyVars
<1>16. ASSUME NEW s \in Servers, Win!BeginApply(p, s) PROVE RegistryTyped'
  BY <1>16, <1>a DEF Win!BeginApply, RegistryTyped, Win!boundVars, Win!historyVars
<1> QED
  BY <1>1, <1>2, <1>3, <1>4, <1>5, <1>6, <1>7, <1>8, <1>9, <1>10, <1>11, <1>12, <1>13, <1>14,
     <1>15, <1>16 DEF Acts, Win!Step

\* A step of p is nobody else's, and changes the settings or a journal under the lock.
Own(p) ==
  /\ \A q \in Procs \ {p} : /\ pc'[q] = pc[q] /\ goal'[q] = goal[q] /\ held'[q] = held[q]
                            /\ server'[q] = server[q] /\ work'[q] = work[q]
  /\ UNCHANGED <<channel, edits, user>>
  /\ Busy(p) \/ UNCHANGED <<settings, owner, claimed, late, overlap>>

\* An operation's end is the process's own.
LEMMA FinishOwn ==
  ASSUME WinTyped, NEW p \in Procs, NEW keep, Win!Finish(p, keep)
  PROVE  \A q \in Procs \ {p} : /\ pc'[q] = pc[q] /\ goal'[q] = goal[q] /\ held'[q] = held[q]
                                /\ server'[q] = server[q] /\ work'[q] = work[q]
BY DEF WinTyped, Win!Finish, Win!Goto

\* An undoing's start is the process's own.
LEMMA UndoOwn ==
  ASSUME WinTyped, NEW p \in Procs, Win!Undo(p)
  PROVE  \A q \in Procs \ {p} : /\ pc'[q] = pc[q] /\ goal'[q] = goal[q] /\ held'[q] = held[q]
                                /\ server'[q] = server[q] /\ work'[q] = work[q]
BY DEF WinTyped, Win!Undo, Win!Goto

\* A restore's end is the process's own.
LEMMA RestoreOwn ==
  ASSUME WinTyped, NEW p \in Procs, NEW ok, Win!AfterRestore(p, ok)
  PROVE  \A q \in Procs \ {p} : /\ pc'[q] = pc[q] /\ goal'[q] = goal[q] /\ held'[q] = held[q]
                                /\ server'[q] = server[q] /\ work'[q] = work[q]
<1>1. CASE \E keep : Win!Finish(p, keep)
  BY <1>1, FinishOwn
<1>2. CASE goal[p] = "apply"
  BY <1>2 DEF WinTyped, Win!AfterRestore, Win!Goto
<1> QED
  BY <1>1, <1>2 DEF Win!AfterRestore

\* A step of a process leaves what is the others' own.
LEMMA StepOwn ==
  ASSUME WinTyped, NEW p \in Procs, Acts(p)
  PROVE  Own(p)
<1> USE FinishOwn, UndoOwn, RestoreOwn
    DEF Own, Busy, Win!boundVars, Win!historyVars, Win!Goto, Win!WriteSetting
<1>1. CASE Win!ReadLease(p)
  BY <1>1 DEF WinTyped, Win!ReadLease
<1>2. CASE Win!AnnounceSwitch(p)
  BY <1>2 DEF WinTyped, Win!AnnounceSwitch
<1>3. CASE Win!ConfirmSwitch(p)
  BY <1>3 DEF WinTyped, Win!ConfirmSwitch
<1>4. CASE Win!WriteSwitch(p)
  BY <1>4 DEF WinTyped, Win!WriteSwitch
<1>5. CASE Win!CopyBefore(p)
  BY <1>5 DEF WinTyped, Win!CopyBefore
<1>6. CASE Win!RecordLease(p)
  BY <1>6 DEF WinTyped, Win!RecordLease, Win!Transit
<1>7. CASE Win!SettleLease(p)
  BY <1>7 DEF Win!SettleLease
<1>8. CASE Win!CheckPhase(p)
  BY <1>8 DEF WinTyped, Win!CheckPhase
<1>9. CASE Win!WriteValue(p)
  BY <1>9 DEF WinTyped, Win!WriteValue
<1>10. CASE Win!ReadJournal(p)
  BY <1>10 DEF WinTyped, Win!ReadJournal, Win!Transit
<1>11. CASE Win!UnsettleLease(p)
  BY <1>11 DEF WinTyped, Win!UnsettleLease
<1>12. CASE Win!DeleteKey(p)
  BY <1>12 DEF Win!DeleteKey
<1>13. CASE Win!BeginRelease(p)
  BY <1>13 DEF WinTyped, Win!BeginRelease
<1>14. CASE Win!Fail(p)
  BY <1>14 DEF Win!Fail
<1>15. CASE Win!Crash(p)
  BY <1>15 DEF WinTyped, Win!Crash
<1>16. ASSUME NEW s \in Servers, Win!BeginApply(p, s) PROVE Own(p)
  BY <1>16 DEF WinTyped, Win!BeginApply
<1> QED
  BY <1>1, <1>2, <1>3, <1>4, <1>5, <1>6, <1>7, <1>8, <1>9, <1>10, <1>11, <1>12, <1>13, <1>14,
     <1>15, <1>16 DEF Acts, Win!Step

\* Nobody else is in an operation while p is.
LEMMA OthersIdle ==
  ASSUME Exclusive, NEW p \in Procs, Busy(p)
  PROVE  \A q \in Procs \ {p} : ~Busy(q)
BY DEF Exclusive

\* Every step keeps the lock with the process at work or with a lease.
LEMMA StepExclusive ==
  ASSUME WinTyped, Exclusive, NEW p \in Procs, Acts(p)
  PROVE  Exclusive'
<1>1. /\ pc' \in [Procs -> WinSteps] /\ held' \in [Procs -> BOOLEAN]
      /\ \A q \in Procs \ {p} : pc'[q] = pc[q] /\ held'[q] = held[q]
  BY StepProcsTyped, StepOwn DEF ProcsTyped, Own
<1>2. \/ /\ lock \in {Free, p}
         /\ lock' \in {Free, p}
         /\ (pc'[p] \in {"down", "idle"} /\ ~held'[p]) \/ lock' = p
      \/ lock' = lock /\ pc'[p] \in {"down", "idle"} /\ ~held'[p]
  <2> USE DEF Exclusive, Busy, Win!Goto, Win!Finish, Win!Undo, Win!AfterRestore
  <2>1. CASE Win!ReadLease(p)
    BY <2>1 DEF WinTyped, Win!ReadLease
  <2>2. CASE Win!AnnounceSwitch(p)
    BY <2>2 DEF WinTyped, Win!AnnounceSwitch
  <2>3. CASE Win!ConfirmSwitch(p)
    BY <2>3 DEF WinTyped, Win!ConfirmSwitch
  <2>4. CASE Win!WriteSwitch(p)
    BY <2>4 DEF WinTyped, Win!WriteSwitch
  <2>5. CASE Win!CopyBefore(p)
    BY <2>5 DEF WinTyped, Win!CopyBefore
  <2>6. CASE Win!RecordLease(p)
    BY <2>6 DEF WinTyped, Win!RecordLease
  <2>7. CASE Win!SettleLease(p)
    BY <2>7 DEF WinTyped, Win!SettleLease
  <2>8. CASE Win!CheckPhase(p)
    BY <2>8 DEF WinTyped, Win!CheckPhase
  <2>9. CASE Win!WriteValue(p)
    BY <2>9 DEF WinTyped, Win!WriteValue
  <2>10. CASE Win!ReadJournal(p)
    BY <2>10 DEF WinTyped, Win!ReadJournal
  <2>11. CASE Win!UnsettleLease(p)
    BY <2>11 DEF WinTyped, Win!UnsettleLease
  <2>12. CASE Win!DeleteKey(p)
    BY <2>12 DEF WinTyped, Win!DeleteKey
  <2>13. CASE Win!BeginRelease(p)
    BY <2>13 DEF WinTyped, Win!BeginRelease
  <2>14. CASE Win!Fail(p)
    BY <2>14 DEF WinTyped, Win!Fail, Win!Writing
  <2>15. CASE Win!Crash(p)
    BY <2>15 DEF WinTyped, Win!Crash
  <2>16. ASSUME NEW s \in Servers, Win!BeginApply(p, s)
         PROVE  lock \in {Free, p} /\ lock' = p
    BY <2>16 DEF Win!BeginApply
  <2> QED
    BY <2>1, <2>2, <2>3, <2>4, <2>5, <2>6, <2>7, <2>8, <2>9, <2>10, <2>11, <2>12, <2>13, <2>14,
       <2>15, <2>16 DEF Acts, Win!Step
<1> QED
  BY <1>1, <1>2, WinConstants DEF Exclusive, Busy

-----------------------------------------------------------------------------
(* Windows: the journal and the operation that works on it.                *)

\* A step leaves the other processes where their journals have them.
LEMMA OthersJournaled ==
  ASSUME WinTyped, Exclusive, NEW p \in Procs, Own(p), NEW q \in Procs \ {p},
         Opening(q), Moving(q), Switching(q)
  PROVE  Opening(q)' /\ Moving(q)' /\ Switching(q)'
<1>1. CASE Busy(p)
  <2>1. ~Busy(q) /\ pc'[q] = pc[q]
    BY <1>1, OthersIdle DEF Own
  <2> QED
    BY <2>1 DEF Busy, Opening, Moving, Switching
<1>2. CASE UNCHANGED owner
  <2>1. Mine(q)' = Mine(q) /\ pc'[q] = pc[q] /\ work'[q] = work[q] /\ server'[q] = server[q]
    BY <1>2 DEF Own, Mine
  <2> QED
    BY <2>1 DEF Opening, Moving, Switching, Win!HasLease, Win!NoLease, Server
<1> QED
  BY <1>1, <1>2 DEF Own

\* A lease in force has a mark of its own and a listener.
LEMMA LeaseMarked ==
  ASSUME NEW k \in Keys, Sound(k), Win!HasLease(k)
  PROVE  /\ k.key /\ k.lease \in Leases /\ k.lease.bypass > Win!Others
         /\ k.lease.server \in Servers
BY DEF Sound, Win!HasLease, Keys

\* A lease with a mark of its own is one.
LEMMA MarkedIsLease ==
  ASSUME NEW k \in Keys, k.key, k.lease.bypass > Win!Others
  PROVE  Win!HasLease(k)
BY DEF Win!HasLease, Win!NoLease, Keys, Leases

\* Every step keeps the listener that an apply was asked for.
LEMMA StepAsked ==
  ASSUME WinTyped, Asked, NEW p \in Procs, Acts(p)
  PROVE  Asked'
<1>1. Own(p) /\ ProcsTyped'
  BY StepOwn, StepProcsTyped
<1>2. /\ pc'[p] \in {"read", "announce", "confirm", "switch", "before", "record"} => goal'[p] = "apply"
      /\ goal'[p] = "apply" => server'[p] \in Servers
  <2> USE DEF Asked, WinTyped, Win!Goto, Win!Finish, Win!Undo, Win!AfterRestore
  <2>1. CASE Win!ReadLease(p)
    BY <2>1 DEF Win!ReadLease
  <2>2. CASE Win!AnnounceSwitch(p)
    BY <2>2 DEF Win!AnnounceSwitch
  <2>3. CASE Win!ConfirmSwitch(p)
    BY <2>3 DEF Win!ConfirmSwitch
  <2>4. CASE Win!WriteSwitch(p)
    BY <2>4 DEF Win!WriteSwitch
  <2>5. CASE Win!CopyBefore(p)
    BY <2>5 DEF Win!CopyBefore
  <2>6. CASE Win!RecordLease(p)
    BY <2>6 DEF Win!RecordLease
  <2>7. CASE Win!SettleLease(p)
    BY <2>7 DEF Win!SettleLease
  <2>8. CASE Win!CheckPhase(p)
    BY <2>8 DEF Win!CheckPhase
  <2>9. CASE Win!WriteValue(p)
    BY <2>9 DEF Win!WriteValue
  <2>10. CASE Win!ReadJournal(p)
    BY <2>10 DEF Win!ReadJournal
  <2>11. CASE Win!UnsettleLease(p)
    BY <2>11 DEF Win!UnsettleLease
  <2>12. CASE Win!DeleteKey(p)
    BY <2>12 DEF Win!DeleteKey
  <2>13. CASE Win!BeginRelease(p)
    BY <2>13 DEF Win!BeginRelease
  <2>14. CASE Win!Fail(p)
    BY <2>14 DEF Win!Fail
  <2>15. CASE Win!Crash(p)
    BY <2>15 DEF Win!Crash
  <2>16. ASSUME NEW s \in Servers, Win!BeginApply(p, s)
         PROVE  goal'[p] = "apply" /\ server'[p] \in Servers
    BY <2>16 DEF Win!BeginApply
  <2> QED
    BY <2>1, <2>2, <2>3, <2>4, <2>5, <2>6, <2>7, <2>8, <2>9, <2>10, <2>11, <2>12, <2>13, <2>14,
       <2>15, <2>16 DEF Acts, Win!Step
<1> QED
  BY <1>1, <1>2 DEF Asked, Own

\* Every step keeps the journals sound: what is saved holds the values of a time without a proxy.
LEMMA StepSound ==
  ASSUME WinTyped, KeysSound, Asked, Journaled, NEW p \in Procs, Acts(p)
  PROVE  KeysSound'
<1> USE MineTyped, WinConstants
<1>1. Own(p) /\ owner' \in [Channels -> Keys] /\ Sound(Mine(p)) /\ Opening(p) /\ Moving(p)
      /\ Switching(p) /\ channel' = channel
  BY StepOwn, StepRegistryTyped DEF Own, RegistryTyped, KeysSound, Mine, Journaled
<1>2. CASE UNCHANGED owner
  BY <1>2 DEF KeysSound
<1> SUFFICES ASSUME ~UNCHANGED owner
             PROVE  /\ Sound(Mine(p))'
                    /\ \A c \in Channels \ {channel[p]} : owner'[c] = owner[c]
  BY <1>1, <1>2 DEF KeysSound, Mine
<1>3. CASE Win!AnnounceSwitch(p)
  <2>1. server[p] \in Servers /\ Win!HasLease(Mine(p))
    BY <1>1, <1>3 DEF Asked, Switching, Win!AnnounceSwitch
  <2> QED
    BY <1>1, <1>3, <2>1, Saves DEF SavedAs, Sound, WinTyped
<1>4. CASE Win!CopyBefore(p)
  BY <1>1, <1>4 DEF WinTyped, Win!CopyBefore, Win!HasLease, Mine, Sound
<1>5. CASE Win!RecordLease(p)
  <2>1. server[p] \in Servers /\ leases + 2 > 1
    BY <1>5 DEF Asked, Win!RecordLease, WinTyped
  <2>2. SavedAs(p, server[p], leases + 2, 0, FALSE)
    BY <1>5, Saves
  <2> QED
    BY <1>1, <2>1, <2>2 DEF SavedAs, Sound
<1>6. CASE Win!SettleLease(p)
  <2>1. Win!HasLease(Mine(p))
    BY <1>1, <1>6 DEF Switching, Win!SettleLease
  <2> QED
    BY <1>1, <1>6, <2>1, Saves DEF SavedAs, Sound, WinTyped
<1>7. CASE Win!UnsettleLease(p)
  <2>1. Win!HasLease(Mine(p))
    BY <1>1, <1>7 DEF Moving, Win!UnsettleLease
  <2> QED
    BY <1>1, <1>7, <2>1, Saves DEF SavedAs, Sound, WinTyped
<1>8. CASE Win!DeleteKey(p)
  BY <1>1, <1>8, NamedTyped DEF WinTyped, Win!DeleteKey, Win!HasLease, Mine, Sound
<1> QED
  BY <1>3, <1>4, <1>5, <1>6, <1>7, <1>8
     DEF Acts, Win!Step, Win!ReadLease, Win!ConfirmSwitch, Win!WriteSwitch, Win!CheckPhase,
         Win!WriteValue, Win!ReadJournal, Win!BeginRelease, Win!Fail, Win!Crash, Win!BeginApply

\* What may follow a restore: the rest of an apply, another restore, or the end.
LEMMA RestoreGoes ==
  ASSUME WinTyped, NEW p \in Procs, NEW ok,
         \/ Win!AfterRestore(p, ok) \/ Win!Undo(p) \/ \E keep : Win!Finish(p, keep)
  PROVE  pc'[p] \in {"before", "restore", "idle"}
BY DEF WinTyped, Win!AfterRestore, Win!Undo, Win!Finish, Win!Goto

\* What the steps that move an operation on leave of the journal, by the next step.
LEMMA StepJournaled ==
  ASSUME WinTyped, KeysSound, Asked, Journaled, NEW p \in Procs, Acts(p)
  PROVE  Opening(p)' /\ Moving(p)' /\ Switching(p)'
<1> USE MineTyped, WinConstants
<1>1. Own(p) /\ ProcsTyped' /\ Sound(Mine(p)) /\ Opening(p) /\ Moving(p) /\ Switching(p)
      /\ channel' = channel /\ WinTyped
  BY StepOwn, StepProcsTyped DEF Own, KeysSound, Mine, Journaled, WinTyped
<1>2. CASE pc'[p] \in {"down", "idle", "read", "restore", "delete"}
  BY <1>2 DEF Opening, Moving, Switching
<1>3. CASE Win!ReadLease(p)
  <2>1. CASE pc'[p] = "before"
    BY <1>1, <1>3, <2>1 DEF Win!ReadLease, Opening, Moving, Switching, Mine, WinTyped, Win!Goto,
       Win!Finish
  <2>2. CASE pc'[p] = "announce"
    <3>1. /\ Win!HasLease(Mine(p)) /\ Mine(p).lease.settled
          /\ settings = Win!Applied(Mine(p).lease, settings)
          /\ work' = [work EXCEPT ![p].now = settings] /\ UNCHANGED <<owner, server>>
      BY <1>1, <1>3, <2>2 DEF Win!ReadLease, WinTyped, Win!Goto, Win!Finish
    <3>2. settings[1] > Win!Others /\ settings[2] \in Servers
      BY <1>1, <3>1, AppliedTyped DEF WinTyped, Sound
    <3>3. work'[p].now = settings
      BY <1>1, <3>1 DEF WinTyped, Locals
    <3> QED
      BY <1>1, <2>2, <3>1, <3>2, <3>3 DEF Opening, Moving, Switching, Mine
  <2> QED
    BY <1>1, <1>2, <1>3, <2>1, <2>2 DEF Win!ReadLease, WinTyped, Win!Goto, Win!Finish
<1>4. CASE Win!AnnounceSwitch(p)
  <2>1. SavedAs(p, server[p], Mine(p).lease.bypass, Mine(p).lease.server, FALSE)
    BY <1>4, Saves
  <2>2. pc[p] = "announce" /\ pc'[p] = "confirm" /\ UNCHANGED <<work, server>>
    BY <1>4 DEF Win!AnnounceSwitch, WinTyped, Win!Goto
  <2>3. Win!HasLease(Mine(p)')
    BY <1>1, <2>1, <2>2, MarkedIsLease, LeaseMarked DEF SavedAs, Switching
  <2> QED
    BY <1>1, <2>1, <2>2, <2>3 DEF SavedAs, Opening, Moving, Switching, Win!HasLease, Win!NoLease
<1>5. CASE Win!ConfirmSwitch(p)
  BY <1>1, <1>2, <1>5 DEF Win!ConfirmSwitch, WinTyped, Win!Goto, Win!Undo, Opening, Moving,
     Switching, Mine, Win!HasLease, Win!NoLease
<1>6. CASE Win!WriteSwitch(p)
  BY <1>1, <1>6 DEF Win!WriteSwitch, WinTyped, Win!Goto, Opening, Moving, Switching, Mine,
     Win!HasLease, Win!NoLease
<1>7. CASE Win!CopyBefore(p)
  <2>1. CASE pc'[p] = "record"
    <3>1. /\ Mine(p)' = [key |-> TRUE, before |-> settings, lease |-> Win!NoLease]
          /\ work' = [work EXCEPT ![p].before = settings]
      BY <1>1, <1>7, <2>1 DEF Win!CopyBefore, WinTyped, Win!Goto, Win!Undo, Mine
    <3>2. work'[p].before = settings
      BY <1>1, <3>1 DEF WinTyped, Locals
    <3> QED
      BY <2>1, <3>1, <3>2 DEF Opening, Moving, Switching, Win!HasLease
  <2> QED
    BY <1>1, <1>2, <1>7, <2>1 DEF Win!CopyBefore, WinTyped, Win!Goto, Win!Undo
<1>8. CASE Win!RecordLease(p)
  <2> DEFINE lease == Win!Lease(server[p], 1 + leases', 0, FALSE)
  <2>1. SavedAs(p, server[p], leases + 2, 0, FALSE)
    BY <1>8, Saves
  <2>2. /\ pc[p] = "record" /\ pc'[p] = "check" /\ server[p] \in Servers
        /\ Win!Transit(p, work[p].before, Win!Applied(lease, work[p].before), 0, 3)
        /\ leases' = leases + 1
    BY <1>8 DEF Win!RecordLease, WinTyped, Win!Goto, Asked
  <2>3. Win!HasLease(Mine(p)')
    <3>1. leases + 2 > 1
      BY DEF WinTyped
    <3> QED
      BY <1>1, <2>1, <2>2, <3>1, MarkedIsLease DEF SavedAs, Opening
  <2>4. lease \in Leases /\ work[p].before \in Triples
    BY <2>2 DEF Win!Lease, Leases, WinTyped, Locals
  <2>5. /\ lease.bypass = leases + 2 /\ lease.server = server[p] /\ lease.previous = 0
    BY <2>2 DEF Win!Lease, WinTyped
  <2> HIDE DEF lease
  <2>6. /\ work'[p].before = Mine(p).before /\ work'[p].applied[1] = leases + 2
        /\ work'[p].applied[2] = server[p] /\ work'[p].applied[3] = 1
        /\ work'[p].phase = 0 /\ work'[p].end = 3
    BY <1>1, <2>2, <2>4, <2>5, AppliedTyped DEF Win!Transit, WinTyped, Opening
  <2> QED
    BY <1>1, <2>1, <2>2, <2>3, <2>6 DEF SavedAs, Opening, Moving, Switching, Server
<1>9. CASE Win!SettleLease(p)
  BY <1>2, <1>9 DEF Win!SettleLease, Win!Finish, Win!Goto, WinTyped
<1>10. CASE Win!CheckPhase(p)
  <2>1. CASE pc'[p] \in {"write", "settle"}
    BY <1>1, <1>10, <2>1 DEF Win!CheckPhase, WinTyped, Win!Goto, Win!Undo, Opening, Moving,
       Switching, Mine, Win!HasLease, Win!NoLease
  <2> QED
    BY <1>2, <1>10, <2>1 DEF Win!CheckPhase, WinTyped, Win!Goto, Win!Undo
<1>11. CASE Win!WriteValue(p)
  <2>1. pc[p] = "write" /\ pc'[p] = "check" /\ UNCHANGED owner
    BY <1>11 DEF Win!WriteValue, WinTyped, Win!Goto
  <2>2. /\ work'[p].before = work[p].before /\ work'[p].applied = work[p].applied
        /\ work'[p].end = work[p].end
    BY <1>11, WrittenIs DEF WinTyped, Locals
  <2> QED
    BY <1>1, <2>1, <2>2 DEF Opening, Moving, Switching, Mine, Win!HasLease, Win!NoLease, Server
<1>12. CASE Win!ReadJournal(p)
  <2> DEFINE k == Mine(p)
             n == Win!HighestOf(Win!Phases(k))
  <2>1. CASE pc'[p] = "unsettle"
    <3>1. /\ Win!HasLease(k) /\ Win!Phases(k) # {} /\ pc[p] = "restore" /\ UNCHANGED owner
          /\ Win!Transit(p, k.before, Win!Applied(k.lease, settings), n, 0)
      BY <1>1, <1>12, <2>1 DEF Win!ReadJournal, WinTyped, Win!Goto, Win!AfterRestore, Win!Finish
    <3>2. Win!Phases(k) \subseteq 1..3
      BY DEF Win!Phases
    <3>3. n \in 1..3
      BY <3>1, <3>2, Highest
    <3> HIDE DEF n
    <3>4. /\ work'[p].before = k.before /\ work'[p].applied = Win!Applied(k.lease, settings)
          /\ work'[p].phase = n /\ work'[p].end = 0
      BY <3>1 DEF Win!Transit, WinTyped
    <3>5. /\ Win!Applied(k.lease, settings)[1] = k.lease.bypass
          /\ Win!Applied(k.lease, settings)[3] = 1
          /\ Win!Applied(k.lease, settings)[2] \in Server(k.lease)
      BY <1>1, AppliedTyped DEF WinTyped, Server
    <3> QED
      BY <1>1, <2>1, <3>1, <3>3, <3>4, <3>5 DEF Opening, Moving, Switching, Mine
  <2>2. CASE pc'[p] = "before"
    <3>1. ~k.key /\ UNCHANGED owner
      BY <1>1, <1>12, <2>2 DEF Win!ReadJournal, WinTyped, Win!Goto, Win!AfterRestore, Win!Finish
    <3> QED
      BY <1>1, <2>2, <3>1 DEF Opening, Moving, Switching, Mine
  <2> QED
    BY <1>2, <1>12, <2>1, <2>2, RestoreGoes DEF Win!ReadJournal, WinTyped, Win!Goto
<1>13. CASE Win!UnsettleLease(p)
  <2>1. SavedAs(p, Mine(p).lease.server, Mine(p).lease.bypass, Mine(p).lease.previous, FALSE)
    BY <1>13, Saves
  <2>2. pc[p] = "unsettle" /\ pc'[p] = "check" /\ UNCHANGED <<work, server>>
    BY <1>13 DEF Win!UnsettleLease, WinTyped, Win!Goto
  <2>3. Win!HasLease(Mine(p)')
    BY <1>1, <2>1, <2>2, MarkedIsLease, LeaseMarked DEF SavedAs, Moving
  <2> QED
    BY <1>1, <2>1, <2>2, <2>3 DEF SavedAs, Opening, Moving, Switching, Server
<1>14. CASE Win!DeleteKey(p)
  <2>1. CASE pc'[p] = "before"
    <3>1. ~Mine(p)'.key
      BY <1>1, <1>14, NamedTyped DEF Win!DeleteKey, WinTyped, Mine
    <3> QED
      BY <1>1, <2>1, <3>1 DEF Opening, Moving, Switching, Mine
  <2> QED
    BY <1>2, <1>14, <2>1, RestoreGoes DEF Win!DeleteKey
<1>15. CASE Win!BeginRelease(p)
  BY <1>2, <1>15 DEF Win!BeginRelease, WinTyped, Win!Goto
<1>16. CASE Win!Fail(p)
  <2>1. pc'[p] # "before"
    BY <1>16 DEF Win!Fail, WinTyped, Win!AfterRestore, Win!Undo, Win!Finish, Win!Goto
  <2> QED
    BY <1>2, <1>16, <2>1, RestoreGoes DEF Win!Fail
<1>17. CASE Win!Crash(p)
  BY <1>2, <1>17 DEF Win!Crash, WinTyped, Win!Goto
<1>18. ASSUME NEW s \in Servers, Win!BeginApply(p, s) PROVE pc'[p] = "read"
  BY <1>18 DEF Win!BeginApply, WinTyped, Win!Goto
<1> QED
  BY <1>2, <1>3, <1>4, <1>5, <1>6, <1>7, <1>8, <1>9, <1>10, <1>11, <1>12, <1>13, <1>14, <1>15,
     <1>16, <1>17, <1>18 DEF Acts, Win!Step

-----------------------------------------------------------------------------
(* Windows: the settings, as long as nobody edits them.                    *)

\* Each of the three values as a number; PhaseMatches and Applied value by value.
LEMMA MatchesIs ==
  ASSUME NEW now, NEW before, NEW applied, NEW n \in 0..3
  PROVE  Win!PhaseMatches(now, before, applied, n) <=>
           /\ now[1] = IF n >= 1 THEN applied[1] ELSE before[1]
           /\ now[2] = IF n >= 2 THEN applied[2] ELSE before[2]
           /\ now[3] = IF n >= 3 THEN applied[3] ELSE before[3]
BY DEF Win!PhaseMatches

\* The settings are at phase n of the journal k.
At(k, n) == Win!PhaseMatches(settings, k.before, Win!Applied(k.lease, settings), n)

\* A journal accounts for the settings when they are at one of its phases.
LEMMA RecoversIs ==
  ASSUME NEW k
  PROVE  Win!Recovers(k) <=>
           Win!HasLease(k) /\ \E n \in 1..3 : (~k.lease.settled \/ n = 3) /\ At(k, n)
BY DEF Win!Recovers, Win!Phases, At

\* What a setting is after a write.
LEMMA WriteIs ==
  ASSUME WinTyped, NEW i \in 1..3, NEW v, Win!WriteSetting(i, v)
  PROVE  \A j \in 1..3 : settings'[j] = IF j = i THEN v ELSE settings[j]
BY DEF WinTyped, Win!WriteSetting, Triples

\* Another process finds the settings as it left them.
LEMMA OthersUndisturbed ==
  ASSUME WinTyped, Exclusive, NEW p \in Procs, Own(p), NEW q \in Procs \ {p}, Settings(q)
  PROVE  Settings(q)'
<1>1. CASE Busy(p)
  <2>1. ~Busy(q) /\ pc'[q] = pc[q]
    BY <1>1, OthersIdle DEF Own
  <2> QED
    BY <2>1 DEF Busy, Settings
<1>2. CASE UNCHANGED <<settings, owner>>
  <2>1. Mine(q)' = Mine(q) /\ pc'[q] = pc[q] /\ work'[q] = work[q] /\ UNCHANGED settings
    BY <1>2 DEF Own, Mine
  <2>2. Win!Recovers(Mine(q))' <=> Win!Recovers(Mine(q))
    BY <2>1 DEF Win!Recovers, Win!HasLease, Win!NoLease, Win!Phases, Win!PhaseMatches, Win!Applied
  <2> QED
    BY <2>1, <2>2 DEF Settings, Win!PhaseMatches, Win!Applied
<1> QED
  BY <1>1, <1>2 DEF Own

\* Every step keeps the settings at the phase the process believes, as nobody else writes.
LEMMA StepUndisturbed ==
  ASSUME WinTyped, KeysSound, Asked, Journaled, NEW p \in Procs, Acts(p), Settings(p)
  PROVE  Settings(p)'
<1> USE MineTyped, WinConstants
<1>1. Own(p) /\ WinTyped /\ Sound(Mine(p)) /\ Opening(p) /\ Moving(p) /\ Switching(p)
      /\ channel' = channel /\ settings \in Triples
  BY StepOwn DEF Own, KeysSound, Mine, Journaled, WinTyped
<1>2. CASE pc'[p] \in {"down", "idle", "read", "before", "restore"}
  BY <1>2 DEF Settings
<1>3. CASE Win!ReadLease(p)
  <2>1. CASE pc'[p] = "announce"
    <3>1. /\ settings = Win!Applied(Mine(p).lease, settings) /\ UNCHANGED <<owner, settings>>
      BY <1>1, <1>3, <2>1 DEF Win!ReadLease, WinTyped, Win!Goto, Win!Finish
    <3> QED
      BY <1>1, <2>1, <3>1 DEF Settings, Mine
  <2> QED
    BY <1>1, <1>2, <1>3, <2>1 DEF Win!ReadLease, WinTyped, Win!Goto, Win!Finish
<1>4. CASE Win!AnnounceSwitch(p)
  <2>1. SavedAs(p, server[p], Mine(p).lease.bypass, Mine(p).lease.server, FALSE)
    BY <1>4, Saves
  <2>2. pc[p] = "announce" /\ pc'[p] = "confirm" /\ UNCHANGED settings
    BY <1>4 DEF Win!AnnounceSwitch, WinTyped, Win!Goto, Win!historyVars
  <2>3. /\ settings[1] = Mine(p).lease.bypass /\ settings[3] = 1
        /\ settings[2] = Mine(p).lease.server /\ Mine(p).lease.server # 0
    <3>1. Win!HasLease(Mine(p)) /\ Mine(p).lease.settled
      BY <1>1, <2>2 DEF Switching
    <3>2. settings = Win!Applied(Mine(p).lease, settings) /\ Mine(p).lease.previous = 0
      BY <1>1, <2>2, <3>1 DEF Settings, Sound
    <3> QED
      BY <1>1, <3>1, <3>2, AppliedTyped, LeaseMarked
  <2>4. Mine(p)'.lease \in Leases
    BY <2>1 DEF SavedAs, Keys
  <2>5. settings = Win!Applied(Mine(p)'.lease, settings)
    <3> DEFINE new == Win!Applied(Mine(p)'.lease, settings)
    <3>1. new \in Triples /\ new[1] = settings[1] /\ new[2] = settings[2] /\ new[3] = settings[3]
      BY <1>1, <2>1, <2>3, <2>4, AppliedTyped DEF SavedAs
    <3> HIDE DEF new
    <3>2. settings = new
      BY <1>1, <3>1, SameTriple
    <3> QED
      BY <3>2 DEF new
  <2> QED
    BY <2>2, <2>5 DEF Settings, Win!Applied
<1>5. CASE Win!ConfirmSwitch(p)
  <2>1. CASE pc'[p] = "switch"
    <3>1. pc[p] = "confirm" /\ UNCHANGED <<owner, settings>>
      BY <1>1, <1>5, <2>1 DEF Win!ConfirmSwitch, WinTyped, Win!historyVars
    <3> QED
      BY <1>1, <2>1, <3>1 DEF Settings, Mine
  <2> QED
    BY <1>2, <1>5, <2>1 DEF Win!ConfirmSwitch, WinTyped, Win!Goto, Win!Undo
<1>6. CASE Win!WriteSwitch(p)
  <2>1. /\ pc[p] = "switch" /\ pc'[p] = "settle" /\ UNCHANGED owner
        /\ Win!WriteSetting(2, server[p])
    BY <1>6 DEF Win!WriteSwitch, WinTyped, Win!Goto
  <2>2. /\ settings[1] = Mine(p).lease.bypass /\ settings[3] = 1 /\ Mine(p).lease.server = server[p]
    BY <1>1, <2>1, AppliedTyped DEF Settings, Switching
  <2>3. /\ settings'[1] = settings[1] /\ settings'[2] = server[p] /\ settings'[3] = settings[3]
        /\ settings' \in Triples
    <3>1. server[p] \in Nat
      BY DEF WinTyped
    <3>2. \A j \in 1..3 : settings'[j] = IF j = 2 THEN server[p] ELSE settings[j]
      BY <2>1, WriteIs
    <3> QED
      BY <2>1, <3>1, <3>2, WriteTyped
  <2>4. settings' = <<Mine(p).lease.bypass, Mine(p).lease.server, 1>>
    BY <2>2, <2>3, TripleIs
  <2>5. Mine(p)' = Mine(p)
    BY <1>1, <2>1 DEF Mine
  <2> QED
    BY <2>1, <2>4, <2>5 DEF Settings
<1>7. CASE Win!CopyBefore(p)
  <2>1. CASE pc'[p] = "record"
    <3>1. work' = [work EXCEPT ![p].before = settings] /\ UNCHANGED settings
      BY <1>7, <2>1 DEF Win!CopyBefore, WinTyped, Win!Goto, Win!Undo
    <3>2. work'[p].before = settings
      BY <1>1, <3>1 DEF WinTyped, Locals
    <3> QED
      BY <2>1, <3>1, <3>2 DEF Settings
  <2> QED
    BY <1>2, <1>7, <2>1 DEF Win!CopyBefore, WinTyped, Win!Goto, Win!Undo
<1>8. CASE Win!RecordLease(p)
  <2>1. /\ pc[p] = "record" /\ pc'[p] = "check" /\ UNCHANGED settings
        /\ work'[p].before = work[p].before /\ work'[p].phase = 0
    BY <1>8 DEF Win!RecordLease, WinTyped, Win!Goto, Win!Transit, Win!historyVars
  <2>2. settings = work[p].before
    BY <2>1 DEF Settings
  <2> QED
    BY <2>1, <2>2 DEF Settings, Win!PhaseMatches
<1>9. CASE Win!SettleLease(p)
  BY <1>2, <1>9 DEF Win!SettleLease, Win!Finish, Win!Goto, WinTyped
<1>10. CASE Win!CheckPhase(p)
  <2> DEFINE w == work[p]
  <2>0. /\ pc[p] = "check" /\ UNCHANGED <<owner, settings>>
        /\ Win!PhaseMatches(settings, w.before, w.applied, w.phase)
    BY <1>10 DEF Win!CheckPhase, Settings, Win!historyVars
  <2>a. /\ w \in Locals /\ w.before \in Triples /\ w.applied \in Triples /\ w.phase \in 0..3
        /\ w.before = Mine(p).before /\ w.applied[1] = Mine(p).lease.bypass /\ w.applied[3] = 1
    BY <1>1, <2>0 DEF WinTyped, Locals, Moving
  <2>1. CASE pc'[p] = "write"
    <3>1. UNCHANGED work
      BY <1>10, <2>1 DEF Win!CheckPhase, WinTyped, Win!Goto, Win!Undo
    <3> QED
      BY <2>0, <2>1, <3>1 DEF Settings
  <2>2. CASE pc'[p] = "settle"
    <3>1. w.end = 3 /\ w.phase = 3
      BY <1>10, <2>0, <2>2 DEF Win!CheckPhase, WinTyped, Win!Goto, Win!Undo
    <3>2. w.applied[2] = Mine(p).lease.server
      BY <1>1, <2>0, <3>1 DEF Moving, Server
    <3>3. /\ settings[1] = Mine(p).lease.bypass /\ settings[2] = Mine(p).lease.server
          /\ settings[3] = 1
      BY <2>0, <2>a, <3>1, <3>2, MatchesIs
    <3> QED
      BY <1>1, <2>0, <2>2, <3>3, TripleIs DEF Settings, Mine
  <2>3. CASE pc'[p] = "delete"
    <3>1. w.phase = 0
      BY <1>1, <1>10, <2>0, <2>3 DEF Win!CheckPhase, WinTyped, Win!Goto, Win!Undo, Moving, Locals
    <3>2. settings = Mine(p).before
      BY <1>1, <2>0, <2>a, <3>1, MatchesIs, SameTriple
    <3> QED
      BY <1>1, <2>0, <2>3, <3>2 DEF Settings, Mine
  <2> QED
    BY <1>2, <1>10, <2>1, <2>2, <2>3 DEF Win!CheckPhase, WinTyped, Win!Goto, Win!Undo
<1>11. CASE Win!WriteValue(p)
  <2> DEFINE w == work[p]
  <2>1. pc[p] = "write" /\ pc'[p] = "check"
    BY <1>11 DEF Win!WriteValue, WinTyped, Win!Goto
  <2>2. /\ work'[p].before = w.before /\ work'[p].applied = w.applied
        /\ \/ /\ w.phase \in 0..2 /\ work'[p].phase = w.phase + 1
              /\ Win!WriteSetting(w.phase + 1, w.applied[w.phase + 1])
           \/ /\ w.phase \in 1..3 /\ work'[p].phase = w.phase - 1
              /\ Win!WriteSetting(w.phase, w.before[w.phase])
    BY <1>11, WrittenIs DEF WinTyped, Locals
  <2>3. Win!PhaseMatches(settings, w.before, w.applied, w.phase)
    BY <2>1 DEF Settings
  <2> SUFFICES Win!PhaseMatches(settings', w.before, w.applied, work'[p].phase)
    BY <2>1, <2>2 DEF Settings, Win!PhaseMatches
  <2>4. CASE /\ w.phase \in 0..2 /\ work'[p].phase = w.phase + 1
             /\ Win!WriteSetting(w.phase + 1, w.applied[w.phase + 1])
    <3>1. w.phase + 1 \in 1..3
      BY <2>4
    <3>2. \A j \in 1..3 :
            settings'[j] = IF j = w.phase + 1 THEN w.applied[w.phase + 1] ELSE settings[j]
      BY <2>4, <3>1, WriteIs
    <3> QED
      BY <2>3, <2>4, <3>2 DEF Win!PhaseMatches
  <2>5. CASE /\ w.phase \in 1..3 /\ work'[p].phase = w.phase - 1
             /\ Win!WriteSetting(w.phase, w.before[w.phase])
    <3>1. \A j \in 1..3 :
            settings'[j] = IF j = w.phase THEN w.before[w.phase] ELSE settings[j]
      BY <2>5, WriteIs
    <3> QED
      BY <2>3, <2>5, <3>1 DEF Win!PhaseMatches
  <2> QED
    BY <2>2, <2>4, <2>5
<1>12. CASE Win!ReadJournal(p)
  <2> DEFINE k == Mine(p)
             n == Win!HighestOf(Win!Phases(k))
  <2>0. UNCHANGED <<owner, settings>> /\ Mine(p)' = Mine(p)
    BY <1>1, <1>12 DEF Win!ReadJournal, Win!historyVars, Mine
  <2>1. CASE pc'[p] = "unsettle"
    <3>1. /\ Win!Phases(k) # {}
          /\ Win!Transit(p, k.before, Win!Applied(k.lease, settings), n, 0)
      BY <1>1, <1>12, <2>1 DEF Win!ReadJournal, WinTyped, Win!Goto, Win!AfterRestore, Win!Finish
    <3>2. Win!Phases(k) \subseteq 1..3
      BY DEF Win!Phases
    <3>3. n \in Win!Phases(k)
      BY <3>1, <3>2, Highest
    <3>4. At(k, n)
      BY <3>3 DEF Win!Phases, At
    <3> HIDE DEF n
    <3>5. /\ work'[p].before = k.before /\ work'[p].applied = Win!Applied(k.lease, settings)
          /\ work'[p].phase = n
      BY <3>1 DEF Win!Transit, WinTyped
    <3> QED
      BY <2>0, <2>1, <3>4, <3>5 DEF Settings, At
  <2>2. CASE pc'[p] = "delete"
    <3>1. ~Win!Recovers(k)
      BY <1>1, <1>12, <2>2 DEF Win!ReadJournal, WinTyped, Win!Goto, Win!AfterRestore, Win!Finish,
         Win!Recovers, Win!HasLease
    <3>2. ~Win!Recovers(Mine(p))'
      BY <2>0, <3>1
         DEF Win!Recovers, Win!HasLease, Win!NoLease, Win!Phases, Win!PhaseMatches, Win!Applied
    <3> QED
      BY <2>2, <3>2 DEF Settings
  <2> QED
    BY <1>2, <1>12, <2>1, <2>2, RestoreGoes DEF Win!ReadJournal, WinTyped, Win!Goto
<1>13. CASE Win!UnsettleLease(p)
  BY <1>13 DEF Win!UnsettleLease, WinTyped, Win!Goto, Settings, Win!historyVars
<1>14. CASE Win!DeleteKey(p)
  BY <1>2, <1>14, RestoreGoes DEF Win!DeleteKey
<1>15. CASE Win!BeginRelease(p)
  BY <1>2, <1>15 DEF Win!BeginRelease, WinTyped, Win!Goto
<1>16. CASE Win!Fail(p)
  BY <1>2, <1>16, RestoreGoes DEF Win!Fail
<1>17. CASE Win!Crash(p)
  BY <1>2, <1>17 DEF Win!Crash, WinTyped, Win!Goto
<1>18. ASSUME NEW s \in Servers, Win!BeginApply(p, s) PROVE pc'[p] = "read"
  BY <1>18 DEF Win!BeginApply, WinTyped, Win!Goto
<1> QED
  BY <1>2, <1>3, <1>4, <1>5, <1>6, <1>7, <1>8, <1>9, <1>10, <1>11, <1>12, <1>13, <1>14, <1>15,
     <1>16, <1>17, <1>18 DEF Acts, Win!Step

\* A proxy is on as the lease in k has it; a restore of k finds the phase it is at.
EnabledBy(k, now) == Win!HasLease(k) /\ now = Win!Applied(k.lease, now)
RecoversAt(k, now) ==
  Win!HasLease(k) /\ \E n \in 1..3 : /\ ~k.lease.settled \/ n = 3
                                     /\ Win!PhaseMatches(now, k.before, Win!Applied(k.lease, now), n)

CompleteNow ==
  settings[3] = 1 /\ settings # user => \E c \in Channels : EnabledBy(owner[c], settings)
RecoverableNow ==
  settings # user =>
    \E c \in Channels : RecoversAt(owner[c], settings) /\ owner[c].before = user

\* The properties, said of settings that no other program edited.
LEMMA NowIs ==
  ASSUME edits = 0, edits' = 0
  PROVE  /\ CompleteNow <=> Win!EnabledIsComplete
         /\ CompleteNow' <=> Win!EnabledIsComplete'
         /\ ~overlap => (RecoverableNow <=> Win!AlwaysRecoverable)
         /\ ~overlap' => (RecoverableNow' <=> Win!AlwaysRecoverable')
         /\ \A c \in Channels : RecoversAt(owner[c], settings) <=> Win!Recovers(owner[c])
BY DEF CompleteNow, RecoverableNow, EnabledBy, RecoversAt, Win!EnabledIsComplete,
       Win!AlwaysRecoverable, Win!Recovers, Win!Phases

\* A lease that is on is at a phase of its journal.
LEMMA EnabledRecovers ==
  ASSUME NEW k, NEW now, EnabledBy(k, now)
  PROVE  RecoversAt(k, now)
<1>1. Win!PhaseMatches(now, k.before, Win!Applied(k.lease, now), 3)
  BY DEF EnabledBy, Win!PhaseMatches
<1> QED
  BY <1>1 DEF EnabledBy, RecoversAt

\* The settings in the middle of a transition: at a phase of its lease, or the user's.
LEMMA MovingRecovers ==
  ASSUME NEW k \in Keys, Win!HasLease(k), NEW now \in Triples, NEW applied \in Triples,
         NEW n \in 0..3, Win!PhaseMatches(now, k.before, applied, n),
         applied[1] = k.lease.bypass, applied[2] \in Server(k.lease), applied[3] = 1
  PROVE  /\ n = 0 => now = k.before
         /\ n = 3 => EnabledBy(k, now)
         /\ n # 0 /\ ~k.lease.settled => RecoversAt(k, now)
<1> DEFINE mine == Win!Applied(k.lease, now)
<1>1. k.lease \in Leases /\ k.before \in Triples
  BY DEF Keys
<1>2. /\ mine \in Triples /\ mine[1] = k.lease.bypass /\ mine[3] = 1
      /\ mine[2] = IF k.lease.previous # 0 /\ now[2] = k.lease.previous THEN k.lease.previous
                                                                       ELSE k.lease.server
  BY <1>1, AppliedTyped
<1> HIDE DEF mine
<1>3. n >= 2 => now[2] = mine[2]
  BY <1>2, MatchesIs DEF Server
<1>4. n = 0 => now = k.before
  BY <1>1, MatchesIs, SameTriple
<1>5. n = 3 => now = mine
  BY <1>2, <1>3, MatchesIs, SameTriple
<1>6. Win!PhaseMatches(now, k.before, mine, n)
  BY <1>2, <1>3, MatchesIs
<1>7. n # 0 => n \in 1..3
  OBVIOUS
<1> QED
  BY <1>4, <1>5, <1>6, <1>7 DEF EnabledBy, RecoversAt, mine

\* A lease saved with the values it has is in force as before.
LEMMA SameLease ==
  ASSUME NEW k, NEW l, NEW now, EnabledBy(k, now), Win!HasLease(l),
         l.lease.bypass = k.lease.bypass, l.lease.server = k.lease.server,
         l.lease.previous = k.lease.previous
  PROVE  EnabledBy(l, now)
BY DEF EnabledBy, Win!Applied

\* What a step does to the journals and to the settings while nobody edits them.
Others(p) == \A c \in Channels \ {channel[p]} : owner'[c] = owner[c]
Looks(p) == UNCHANGED <<owner, settings, overlap>> /\ pc'[p] # "record"
Works(p) ==
  /\ Others(p) /\ UNCHANGED overlap /\ pc'[p] # "record"
  /\ Win!HasLease(Mine(p)) /\ Win!HasLease(Mine(p)') /\ Mine(p)'.before = Mine(p).before
  /\ settings' = Mine(p)'.before \/ RecoversAt(Mine(p)', settings')
  /\ settings'[3] = 1 => EnabledBy(Mine(p)', settings')
Opens(p) ==
  /\ Others(p) /\ UNCHANGED settings /\ settings[3] = 0
  /\ ~Win!HasLease(Mine(p)) /\ ~Win!HasLease(Mine(p)')
  /\ ~overlap' => ~overlap /\ \A c \in Channels \ {channel[p]} : ~Win!HasLease(owner[c])
Records(p) ==
  /\ Others(p) /\ UNCHANGED <<settings, overlap>> /\ settings[3] = 0
  /\ pc[p] = "record" /\ pc'[p] # "record"
  /\ settings = Mine(p).before /\ Mine(p)'.before = Mine(p).before
Deletes(p) ==
  /\ Others(p) /\ UNCHANGED <<settings, overlap>> /\ pc'[p] # "record"
  /\ ~Win!HasLease(Mine(p)')
  /\ RecoversAt(Mine(p), settings) => settings = Mine(p).before

\* What a step does to settings and journals, in five kinds.
LEMMA Effects ==
  ASSUME WinTyped, KeysSound, Asked, Journaled, NEW p \in Procs, Acts(p), Settings(p)
  PROVE  Looks(p) \/ Works(p) \/ Opens(p) \/ Records(p) \/ Deletes(p)
<1> USE MineTyped, WinConstants
<1>1. Own(p) /\ WinTyped /\ Sound(Mine(p)) /\ Opening(p) /\ Moving(p) /\ Switching(p)
      /\ channel' = channel /\ settings \in Triples /\ Mine(p) \in Keys
  BY StepOwn DEF Own, KeysSound, Mine, Journaled, WinTyped
<1>2. Opening(p)' /\ Moving(p)' /\ Switching(p)' /\ Settings(p)'
  BY StepJournaled, StepUndisturbed
<1>3. ProcsTyped' /\ RegistryTyped' /\ Sound(Mine(p))' /\ Mine(p)' \in Keys
  BY <1>1, StepProcsTyped, StepRegistryTyped, StepSound
     DEF KeysSound, ProcsTyped, RegistryTyped, Mine
<1>4. CASE Win!AnnounceSwitch(p) \/ Win!SettleLease(p) \/ Win!WriteSwitch(p)
  <2>1. Others(p) /\ UNCHANGED overlap /\ Mine(p)'.before = Mine(p).before
    <3>1. CASE Win!AnnounceSwitch(p)
      BY <1>1, <3>1, Saves DEF SavedAs, Others, Win!AnnounceSwitch, Win!historyVars
    <3>2. CASE Win!SettleLease(p)
      BY <1>1, <3>2, Saves DEF SavedAs, Others, Win!SettleLease, Win!historyVars
    <3>3. CASE Win!WriteSwitch(p)
      BY <1>1, <3>3 DEF Others, Win!WriteSwitch, Win!WriteSetting, Mine
    <3> QED
      BY <1>4, <3>1, <3>2, <3>3
  <2>2. pc[p] \in {"announce", "settle", "switch"} /\ pc'[p] \in {"confirm", "settle", "idle"}
    BY <1>1, <1>4
       DEF Win!AnnounceSwitch, Win!SettleLease, Win!WriteSwitch, Win!Finish, Win!Goto, WinTyped
  <2>3. Win!HasLease(Mine(p))
    BY <1>1, <2>2 DEF Switching
  <2>4. EnabledBy(Mine(p)', settings')
    <3>1. CASE Win!AnnounceSwitch(p)
      <4>1. pc'[p] = "confirm"
        BY <1>1, <3>1 DEF Win!AnnounceSwitch, Win!Goto, WinTyped
      <4>2. /\ settings' = Win!Applied(Mine(p)'.lease, settings')
            /\ Win!HasLease(Mine(p)')
        BY <1>2, <4>1 DEF Settings, Switching, Win!Applied, Win!HasLease, Win!NoLease
      <4> QED
        BY <4>2 DEF EnabledBy
    <3>2. CASE Win!WriteSwitch(p)
      <4>1. pc'[p] = "settle"
        BY <1>1, <3>2 DEF Win!WriteSwitch, Win!Goto, WinTyped
      <4>2. /\ settings' = <<Mine(p)'.lease.bypass, Mine(p)'.lease.server, 1>>
            /\ Win!HasLease(Mine(p)')
        BY <1>2, <4>1 DEF Settings, Switching, Win!HasLease, Win!NoLease
      <4> QED
        BY <4>2 DEF EnabledBy, Win!Applied
    <3>3. CASE Win!SettleLease(p)
      <4>1. SavedAs(p, Mine(p).lease.server, Mine(p).lease.bypass, 0, TRUE)
        BY <3>3, Saves
      <4>2. pc[p] = "settle" /\ UNCHANGED settings
        BY <3>3 DEF Win!SettleLease, Win!historyVars
      <4>3. settings' = <<Mine(p)'.lease.bypass, Mine(p)'.lease.server, 1>>
        BY <4>1, <4>2 DEF Settings, SavedAs
      <4>4. Win!HasLease(Mine(p)')
        BY <1>1, <1>3, <2>3, <4>1, LeaseMarked, MarkedIsLease DEF SavedAs
      <4>5. Mine(p)'.lease.previous = 0
        BY <4>1 DEF SavedAs
      <4> QED
        BY <4>3, <4>4, <4>5 DEF EnabledBy, Win!Applied
    <3> QED
      BY <1>4, <3>1, <3>2, <3>3
  <2> QED
    BY <2>1, <2>2, <2>3, <2>4, EnabledRecovers DEF Works, EnabledBy
<1>5. CASE Win!UnsettleLease(p) \/ Win!WriteValue(p)
  <2>1. Others(p) /\ UNCHANGED overlap /\ Mine(p)'.before = Mine(p).before
    <3>1. CASE Win!UnsettleLease(p)
      BY <1>1, <3>1, Saves DEF SavedAs, Others, Win!UnsettleLease, Win!historyVars
    <3>2. CASE Win!WriteValue(p)
      BY <1>1, <3>2 DEF Others, Win!WriteValue, Win!WriteSetting, Mine
    <3> QED
      BY <1>5, <3>1, <3>2
  <2>2. pc[p] \in {"unsettle", "write"} /\ pc'[p] = "check"
    BY <1>1, <1>5 DEF Win!UnsettleLease, Win!WriteValue, Win!Goto, WinTyped
  <2>3. Win!HasLease(Mine(p))
    BY <1>1, <2>2 DEF Moving
  <2> DEFINE k == Mine(p)'
             w == work'[p]
             now == settings'
  <2>4. /\ Win!HasLease(k) /\ w.before = k.before /\ w.applied[1] = k.lease.bypass
        /\ w.applied[2] \in Server(k.lease) /\ w.applied[3] = 1 /\ ~k.lease.settled
    BY <1>2, <2>2 DEF Moving, Win!HasLease, Win!NoLease, Server
  <2>5. Win!PhaseMatches(now, w.before, w.applied, w.phase)
    BY <1>2, <2>2 DEF Settings, Win!PhaseMatches
  <2>6. /\ k \in Keys /\ now \in Triples /\ w.applied \in Triples /\ w.phase \in 0..3
        /\ k.before[3] = 0
    BY <1>3 DEF RegistryTyped, ProcsTyped, Locals, Sound
  <2> HIDE DEF k, w, now
  <2>7. now[3] = 1 => w.phase = 3
    BY <2>4, <2>5, <2>6, MatchesIs
  <2>8. /\ now = k.before \/ RecoversAt(k, now)
        /\ now[3] = 1 => EnabledBy(k, now)
    BY <2>4, <2>5, <2>6, <2>7, MovingRecovers
  <2> QED
    BY <2>1, <2>2, <2>3, <2>4, <2>8 DEF Works, k, now
<1>6. CASE Win!CopyBefore(p) /\ pc'[p] = "record"
  <2>1. /\ settings[3] = 0 /\ UNCHANGED settings /\ ~Mine(p).key
        /\ owner' = [owner EXCEPT ![channel[p]] =
                       [key |-> TRUE, before |-> settings, lease |-> Win!NoLease]]
        /\ overlap' = (overlap \/ \E c \in Channels \ {channel[p]} : Win!HasLease(owner[c]))
    BY <1>1, <1>6 DEF Win!CopyBefore, Win!Undo, Win!Goto, WinTyped, Opening
  <2>2. Others(p) /\ Mine(p)'.lease = Win!NoLease
    BY <1>1, <2>1 DEF Others, Mine, WinTyped
  <2> QED
    BY <2>1, <2>2 DEF Opens, Win!HasLease
<1>7. CASE Win!RecordLease(p)
  <2>1. SavedAs(p, server[p], leases + 2, 0, FALSE)
    BY <1>7, Saves
  <2>2. /\ pc[p] = "record" /\ pc'[p] = "check" /\ UNCHANGED <<settings, overlap>>
        /\ settings = Mine(p).before /\ Mine(p).before[3] = 0
    BY <1>1, <1>7 DEF Win!RecordLease, Win!Goto, Win!historyVars, WinTyped, Settings, Opening, Sound
  <2> QED
    BY <2>1, <2>2 DEF Records, SavedAs, Others
<1>8. CASE Win!DeleteKey(p)
  <2>1. /\ pc[p] = "delete" /\ UNCHANGED <<settings, overlap>>
        /\ owner' = [owner EXCEPT ![channel[p]] = Win!NoKey]
    BY <1>8 DEF Win!DeleteKey, Win!historyVars
  <2>2. Others(p) /\ ~Mine(p)'.key
    BY <1>1, <2>1, NamedTyped DEF Others, Mine, WinTyped
  <2>3. RecoversAt(Mine(p), settings) => settings = Mine(p).before
    BY <2>1 DEF Settings, RecoversAt, Win!Recovers, Win!Phases
  <2>4. pc'[p] # "record"
    BY <1>8, RestoreGoes DEF Win!DeleteKey
  <2> QED
    BY <2>1, <2>2, <2>3, <2>4 DEF Deletes, Win!HasLease
<1>9. CASE pc'[p] # "record" /\ UNCHANGED <<owner, settings, overlap>>
  BY <1>9 DEF Looks
<1>10. ASSUME \/ Win!ReadLease(p) \/ Win!ConfirmSwitch(p) \/ Win!CheckPhase(p) \/ Win!ReadJournal(p)
              \/ Win!BeginRelease(p) \/ Win!Fail(p) \/ Win!Crash(p)
              \/ (Win!CopyBefore(p) /\ pc'[p] # "record")
              \/ \E s \in Servers : Win!BeginApply(p, s)
       PROVE  pc'[p] # "record" /\ UNCHANGED <<owner, settings, overlap>>
  <2> USE <1>1 DEF WinTyped, Win!Goto, Win!Undo, Win!Finish, Win!AfterRestore, Win!historyVars
  <2>1. CASE Win!ReadLease(p)
    BY <2>1 DEF Win!ReadLease
  <2>2. CASE Win!ConfirmSwitch(p)
    BY <2>2 DEF Win!ConfirmSwitch
  <2>3. CASE Win!CheckPhase(p)
    BY <2>3 DEF Win!CheckPhase
  <2>4. CASE Win!ReadJournal(p)
    BY <2>4 DEF Win!ReadJournal
  <2>5. CASE Win!BeginRelease(p)
    BY <2>5 DEF Win!BeginRelease
  <2>6. CASE Win!Fail(p)
    BY <2>6 DEF Win!Fail
  <2>7. CASE Win!Crash(p)
    BY <2>7 DEF Win!Crash
  <2>8. CASE Win!CopyBefore(p) /\ pc'[p] # "record"
    BY <2>8 DEF Win!CopyBefore
  <2>9. ASSUME NEW s \in Servers, Win!BeginApply(p, s)
        PROVE  pc'[p] # "record" /\ UNCHANGED <<owner, settings, overlap>>
    BY <2>9 DEF Win!BeginApply
  <2> QED
    BY <1>10, <2>1, <2>2, <2>3, <2>4, <2>5, <2>6, <2>7, <2>8, <2>9
<1> QED
  BY <1>4, <1>5, <1>6, <1>7, <1>8, <1>9, <1>10 DEF Acts, Win!Step

\* Every kind of step keeps an enabled listener complete.
LEMMA StepComplete ==
  ASSUME WinTyped, KeysSound, NEW p \in Procs, Own(p), CompleteNow,
         Looks(p) \/ Works(p) \/ Opens(p) \/ Records(p) \/ Deletes(p)
  PROVE  CompleteNow'
<1> SUFFICES ASSUME settings'[3] = 1, settings' # user
             PROVE  \E c \in Channels : EnabledBy(owner'[c], settings')
  BY DEF CompleteNow, Own
<1>1. channel[p] \in Channels /\ Mine(p)' = owner'[channel[p]] /\ Sound(Mine(p))
      /\ Mine(p) = owner[channel[p]]
  BY DEF WinTyped, Mine, Own, KeysSound
<1>2. CASE Works(p)
  BY <1>1, <1>2 DEF Works
<1>3. CASE Looks(p)
  BY <1>3 DEF Looks, CompleteNow
<1>4. CASE Deletes(p)
  <2>1. PICK c \in Channels : EnabledBy(owner[c], settings)
    BY <1>4 DEF Deletes, CompleteNow
  <2>2. c # channel[p]
    BY <1>1, <1>4, <2>1, EnabledRecovers DEF Deletes, Sound
  <2> QED
    BY <1>4, <2>1, <2>2 DEF Deletes, Others
<1>5. CASE Opens(p) \/ Records(p)
  BY <1>5 DEF Opens, Records
<1> QED
  BY <1>2, <1>3, <1>4, <1>5

\* Single and AlwaysRecoverable without their conditions.
SingleNow ==
  /\ \A c, d \in Channels : Win!HasLease(owner[c]) /\ Win!HasLease(owner[d]) => c = d
  /\ \A c \in Channels : Win!HasLease(owner[c]) => owner[c].before = user
  /\ \A p \in Procs : pc[p] = "record" => \A c \in Channels : ~Win!HasLease(owner[c])

\* Every kind of step keeps the one journal that accounts for the settings.
LEMMA StepSingle ==
  ASSUME WinTyped, Exclusive, NEW p \in Procs, Own(p), ~overlap', SingleNow, RecoverableNow,
         Looks(p) \/ Works(p) \/ Opens(p) \/ Records(p) \/ Deletes(p)
  PROVE  SingleNow' /\ RecoverableNow'
<1>1. /\ channel[p] \in Channels /\ Mine(p)' = owner'[channel[p]] /\ Mine(p) = owner[channel[p]]
      /\ UNCHANGED user
  BY DEF WinTyped, Mine, Own
<1>2. ASSUME NEW q \in Procs \ {p}, pc'[q] = "record"
      PROVE  pc[q] = "record" /\ UNCHANGED owner
  BY <1>2, OthersIdle DEF Own, Busy
<1>3. CASE Looks(p)
  <2>1. UNCHANGED <<owner, settings>> /\ pc'[p] # "record"
    BY <1>3 DEF Looks
  <2>2. \A q \in Procs : pc'[q] = "record" => pc[q] = "record"
    BY <1>2, <2>1
  <2> QED
    BY <1>1, <2>1, <2>2 DEF SingleNow, RecoverableNow, RecoversAt, Win!HasLease, Win!NoLease,
       Win!PhaseMatches, Win!Applied
<1>4. CASE Works(p)
  <2>1. \A c \in Channels : /\ Win!HasLease(owner'[c]) <=> Win!HasLease(owner[c])
                            /\ owner'[c].before = owner[c].before
    BY <1>1, <1>4 DEF Works, Others
  <2>2. SingleNow'
    <3>1. ASSUME NEW q \in Procs, pc'[q] = "record", NEW c \in Channels
          PROVE  ~Win!HasLease(owner'[c])
      <4>1. q # p
        BY <1>4, <3>1 DEF Works
      <4>2. pc[q] = "record"
        BY <1>2, <3>1, <4>1
      <4> QED
        BY <2>1, <4>2 DEF SingleNow
    <3>2. \A q \in Procs : pc'[q] = "record" => \A c \in Channels : ~Win!HasLease(owner'[c])
      BY <3>1
    <3> QED
      BY <1>1, <2>1, <3>2 DEF SingleNow, Win!HasLease, Win!NoLease
  <2>3. RecoverableNow'
    <3>1. Mine(p)'.before = user
      BY <1>1, <1>4 DEF Works, SingleNow
    <3> QED
      BY <1>1, <1>4, <3>1 DEF Works, RecoverableNow
  <2> QED
    BY <2>2, <2>3
<1>5. CASE Opens(p)
  <2>1. /\ \A c \in Channels : ~Win!HasLease(owner'[c]) /\ ~Win!HasLease(owner[c])
        /\ UNCHANGED settings
    BY <1>1, <1>5 DEF Opens, Others
  <2>2. settings = user
    BY <2>1 DEF RecoverableNow, RecoversAt
  <2> QED
    BY <1>1, <2>1, <2>2 DEF SingleNow, RecoverableNow, Win!HasLease, Win!NoLease
<1>6. CASE Records(p)
  <2>1. \A c \in Channels : ~Win!HasLease(owner[c])
    BY <1>6 DEF Records, SingleNow
  <2>2. settings = user /\ UNCHANGED settings
    BY <1>6, <2>1 DEF Records, RecoverableNow, RecoversAt
  <2>3. \A c \in Channels : Win!HasLease(owner'[c]) => c = channel[p] /\ owner'[c].before = user
    BY <1>1, <1>6, <2>1, <2>2 DEF Records, Others
  <2>4. \A q \in Procs : pc'[q] = "record" => \A c \in Channels : ~Win!HasLease(owner'[c])
    BY <1>2, <1>6, <2>1 DEF Records
  <2> QED
    BY <1>1, <2>2, <2>3, <2>4 DEF SingleNow, RecoverableNow, Win!HasLease, Win!NoLease
<1>7. CASE Deletes(p)
  <2>1. \A c \in Channels : Win!HasLease(owner'[c]) => Win!HasLease(owner[c]) /\ owner'[c] = owner[c]
    BY <1>1, <1>7 DEF Deletes, Others
  <2>2. \A q \in Procs : pc'[q] = "record" => \A c \in Channels : ~Win!HasLease(owner'[c])
    BY <1>2, <1>7, <2>1 DEF Deletes, SingleNow
  <2>3. SingleNow'
    BY <1>1, <2>1, <2>2 DEF SingleNow, Win!HasLease, Win!NoLease
  <2>4. ASSUME settings' # user
        PROVE  \E c \in Channels : RecoversAt(owner'[c], settings') /\ owner'[c].before = user
    <3>1. PICK c \in Channels : RecoversAt(owner[c], settings) /\ owner[c].before = user
      BY <1>7, <2>4 DEF Deletes, RecoverableNow
    <3>2. c # channel[p]
      BY <1>1, <1>7, <2>4, <3>1 DEF Deletes
    <3> QED
      BY <1>7, <3>1, <3>2 DEF Deletes, Others
  <2> QED
    BY <1>1, <2>3, <2>4 DEF RecoverableNow
<1> QED
  BY <1>3, <1>4, <1>5, <1>6, <1>7

\* A process that sees what another application enabled does not write.
LEMMA StepClaimed ==
  ASSUME WinTyped, Exclusive, KeysSound, Asked, Journaled, NEW p \in Procs, Acts(p), Claimed
  PROVE  Claimed'
<1> USE MineTyped, WinConstants
<1>1. Own(p) /\ WinTyped /\ Sound(Mine(p)) /\ Moving(p) /\ Switching(p) /\ ProcsTyped'
      /\ settings \in Triples
  BY StepOwn, StepProcsTyped DEF Own, KeysSound, Mine, Journaled, WinTyped
<1>2. CASE Win!WriteValue(p) \/ Win!WriteSwitch(p)
  <2>1. \E i \in 1..3, v \in Nat : (i = 3 => v \in {0, 1}) /\ Win!WriteSetting(i, v)
    <3>1. CASE Win!WriteSwitch(p)
      BY <3>1 DEF WinTyped, Win!WriteSwitch
    <3>2. CASE Win!WriteValue(p)
      BY <3>2, WritesOne
    <3> QED
      BY <1>2, <3>1, <3>2
  <2>2. PICK i \in 1..3, v \in Nat : (i = 3 => v \in {0, 1}) /\ Win!WriteSetting(i, v)
    BY <2>1
  <2>3. /\ \A j \in 1..3 : settings'[j] = IF j = i THEN v ELSE settings[j]
        /\ late' = (IF claimed THEN late + 1 ELSE late)
        /\ claimed' <=> claimed /\ settings'[3] = 1
    BY <2>2, WriteIs DEF Win!WriteSetting
  <2>4. pc[p] \in {"write", "switch"} /\ pc'[p] \in {"check", "settle"} /\ Busy(p)
    BY <1>1, <1>2 DEF Win!WriteValue, Win!WriteSwitch, Win!Goto, Busy, WinTyped
  <2>5. \A q \in Procs : pc'[q] \notin {"write", "switch"}
    <3>1. \A q \in Procs \ {p} : ~Busy(q) /\ pc'[q] = pc[q]
      BY <1>1, <2>4, OthersIdle DEF Own
    <3> QED
      BY <2>4, <3>1 DEF Busy
  <2>6. claimed => late = 0 /\ settings[1] = 1 /\ settings[2] = 1
    BY <2>4 DEF Claimed
  <2>7. claimed => settings'[1] = 1 \/ settings'[2] = 1
    BY <2>3, <2>6
  <2> QED
    BY <2>3, <2>5, <2>6, <2>7 DEF Claimed
<1>3. CASE /\ UNCHANGED <<settings, claimed, late>>
           /\ claimed => pc'[p] \notin {"write", "switch"} \/ pc'[p] = pc[p]
  <2>1. claimed => \A q \in Procs : pc'[q] \notin {"write", "switch"} \/ pc'[q] = pc[q]
    BY <1>1, <1>3 DEF Own
  <2> QED
    BY <1>3, <2>1 DEF Claimed
<1>4. CASE Win!CheckPhase(p)
  <2>1. UNCHANGED <<settings, claimed, late>> /\ pc[p] = "check"
    BY <1>4 DEF Win!CheckPhase, Win!historyVars
  <2>2. claimed => ~Win!PhaseMatches(settings, work[p].before, work[p].applied, work[p].phase)
    <3>1. /\ work[p].before[3] = 0 /\ work[p].applied[1] # 1 /\ work[p].applied[2] # 1
          /\ work[p].phase \in 0..3
      BY <1>1, <2>1 DEF Moving, Sound, Server, WinTyped, Locals
    <3> QED
      BY <3>1, MatchesIs DEF Claimed
  <2>3. claimed => pc'[p] # "write" /\ pc'[p] # "switch"
    BY <1>1, <1>4, <2>2 DEF Win!CheckPhase, Win!Goto, Win!Undo, WinTyped
  <2> QED
    BY <1>3, <2>1, <2>3
<1>5. CASE Win!ConfirmSwitch(p)
  <2>1. UNCHANGED <<settings, claimed, late>> /\ pc[p] = "confirm"
    BY <1>5 DEF Win!ConfirmSwitch, Win!historyVars
  <2>2. claimed => settings # work[p].now
    BY <1>1, <2>1 DEF Switching, Claimed
  <2>3. claimed => pc'[p] # "write" /\ pc'[p] # "switch"
    BY <1>1, <1>5, <2>2 DEF Win!ConfirmSwitch, Win!Goto, Win!Undo, WinTyped
  <2> QED
    BY <1>3, <2>1, <2>3
<1>6. ASSUME \/ Win!ReadLease(p) \/ Win!AnnounceSwitch(p) \/ Win!CopyBefore(p)
             \/ Win!RecordLease(p) \/ Win!SettleLease(p) \/ Win!ReadJournal(p)
             \/ Win!UnsettleLease(p) \/ Win!DeleteKey(p) \/ Win!BeginRelease(p)
             \/ Win!Fail(p) \/ Win!Crash(p) \/ \E s \in Servers : Win!BeginApply(p, s)
      PROVE  UNCHANGED <<settings, claimed, late>> /\ pc'[p] \notin {"write", "switch"}
  <2> USE <1>1 DEF WinTyped, Win!Goto, Win!Undo, Win!Finish, Win!AfterRestore, Win!historyVars
  <2>1. CASE Win!ReadLease(p)
    BY <2>1 DEF Win!ReadLease
  <2>2. CASE Win!AnnounceSwitch(p)
    BY <2>2 DEF Win!AnnounceSwitch
  <2>3. CASE Win!CopyBefore(p)
    BY <2>3 DEF Win!CopyBefore
  <2>4. CASE Win!RecordLease(p)
    BY <2>4 DEF Win!RecordLease
  <2>5. CASE Win!SettleLease(p)
    BY <2>5 DEF Win!SettleLease
  <2>6. CASE Win!ReadJournal(p)
    BY <2>6 DEF Win!ReadJournal
  <2>7. CASE Win!UnsettleLease(p)
    BY <2>7 DEF Win!UnsettleLease
  <2>8. CASE Win!DeleteKey(p)
    BY <2>8 DEF Win!DeleteKey
  <2>9. CASE Win!BeginRelease(p)
    BY <2>9 DEF Win!BeginRelease
  <2>10. CASE Win!Fail(p)
    BY <2>10 DEF Win!Fail
  <2>11. CASE Win!Crash(p)
    BY <2>11 DEF Win!Crash
  <2>12. ASSUME NEW s \in Servers, Win!BeginApply(p, s)
         PROVE  UNCHANGED <<settings, claimed, late>> /\ pc'[p] \notin {"write", "switch"}
    BY <2>12 DEF Win!BeginApply
  <2> QED
    BY <1>6, <2>1, <2>2, <2>3, <2>4, <2>5, <2>6, <2>7, <2>8, <2>9, <2>10, <2>11, <2>12
<1> QED
  BY <1>2, <1>3, <1>4, <1>5, <1>6 DEF Acts, Win!Step

-----------------------------------------------------------------------------
(* Windows: the invariant.                                                 *)

\* A process's step keeps the invariant.
LEMMA WinProcStep ==
  ASSUME WinInv, NEW p \in Procs, Acts(p)
  PROVE  WinInv'
<1>1. /\ WinTyped /\ Exclusive /\ KeysSound /\ Asked /\ Journaled /\ Undisturbed /\ Claimed
      /\ Win!EnabledIsComplete /\ Single /\ Win!AlwaysRecoverable
  BY DEF WinInv
<1>2. /\ WinTyped' /\ Exclusive' /\ KeysSound' /\ Asked' /\ Claimed' /\ Own(p)
  BY <1>1, StepProcsTyped, StepRegistryTyped, StepExclusive, StepSound, StepAsked, StepClaimed,
     StepOwn DEF WinTyped, ProcsTyped, RegistryTyped
<1>3. Journaled'
  BY <1>1, <1>2, StepJournaled, OthersJournaled DEF Journaled
<1>4. UNCHANGED edits
  BY <1>2 DEF Own
<1>5. ASSUME edits = 0
      PROVE  /\ \A q \in Procs : Settings(q)'
             /\ CompleteNow'
             /\ ~overlap' => SingleNow' /\ RecoverableNow'
  <2>1. \A q \in Procs : Settings(q)
    BY <1>1, <1>5 DEF Undisturbed
  <2>2. Looks(p) \/ Works(p) \/ Opens(p) \/ Records(p) \/ Deletes(p)
    BY <1>1, <2>1, Effects
  <2>3. \A q \in Procs : Settings(q)'
    BY <1>1, <1>2, <2>1, StepUndisturbed, OthersUndisturbed
  <2>4. CompleteNow /\ (~overlap => SingleNow /\ RecoverableNow)
    BY <1>1, <1>4, <1>5, NowIs DEF Single, SingleNow
  <2>5. ~overlap' => ~overlap
    BY <2>2 DEF Looks, Works, Opens, Records, Deletes
  <2> QED
    BY <1>1, <1>2, <2>2, <2>3, <2>4, <2>5, StepComplete, StepSingle
<1>6. Undisturbed'
  BY <1>4, <1>5 DEF Undisturbed
<1>7. Single'
  BY <1>4, <1>5 DEF Single, SingleNow
<1>8. Win!EnabledIsComplete' /\ Win!AlwaysRecoverable'
  BY <1>4, <1>5 DEF CompleteNow, RecoverableNow, EnabledBy, RecoversAt, Win!EnabledIsComplete,
     Win!AlwaysRecoverable, Win!Recovers, Win!Phases
<1> QED
  BY <1>2, <1>3, <1>6, <1>7, <1>8 DEF WinInv

\* After an edit only what the locks, the journals and the locals say is left of it.
LEMMA WinEdit ==
  ASSUME WinInv, Win!Edit
  PROVE  WinInv'
<1> USE DEF WinInv, Win!Edit, Win!procVars
<1>1. WinTyped'
  BY TripleIn, TripleSet DEF WinTyped
<1>2. Exclusive' /\ KeysSound' /\ Asked'
  BY DEF Exclusive, Busy, KeysSound, Sound, Asked, Win!HasLease, Win!NoLease
<1>3. Journaled'
  BY DEF Journaled, Opening, Moving, Switching, Mine, Server, Win!HasLease, Win!NoLease
<1>4. edits' # 0
  BY DEF WinTyped
<1>5. Undisturbed' /\ Single' /\ Win!EnabledIsComplete' /\ Win!AlwaysRecoverable'
  BY <1>4 DEF Undisturbed, Single, Win!EnabledIsComplete, Win!AlwaysRecoverable
<1>6. Claimed'
  <2>1. claimed' => settings' = <<1, 1, 1>>
    BY Zenon
  <2>2. claimed' => settings'[1] = 1 /\ settings'[2] = 1 /\ settings'[3] = 1
    BY <2>1
  <2> QED
    BY <2>2 DEF Claimed
<1> QED
  BY <1>1, <1>2, <1>3, <1>5, <1>6

\* At first there is no journal and the settings are the user's.
LEMMA WinInit ==
  ASSUME Win!Init
  PROVE  WinInv
<1>1. /\ settings \in Triples /\ settings[3] \in {0, 1} /\ user = settings
      /\ owner = [c \in Channels |-> Win!NoKey] /\ channel \in [Procs -> Channels]
      /\ held = [p \in Procs |-> FALSE] /\ pc = [p \in Procs |-> "down"]
      /\ goal = [p \in Procs |-> "none"] /\ server = [p \in Procs |-> 0]
      /\ work = [p \in Procs |-> Win!Idle]
      /\ leases = 0 /\ edits = 0 /\ claimed = FALSE /\ late = 0 /\ overlap = FALSE
  <2>1. PICK e \in 0..1 : settings = <<0, 0, e>>
    BY DEF Win!Init
  <2>2. settings \in Triples /\ settings[3] \in {0, 1}
    BY <2>1, TripleIn
  <2> QED
    BY <2>2 DEF Win!Init
<1>2. WinTyped
  BY <1>1, NamedTyped DEF WinTyped, WinSteps, Goals
<1>3. Exclusive /\ Asked /\ Claimed
  BY <1>1 DEF Exclusive, Busy, Asked, Claimed
<1>4. \A c \in Channels : ~Win!HasLease(owner[c]) /\ owner[c].before[3] = 0
  BY <1>1, NamedTyped DEF Win!HasLease
<1>5. KeysSound /\ Single
  BY <1>1, <1>4 DEF KeysSound, Sound, Single
<1>6. Journaled /\ Undisturbed
  BY <1>1 DEF Journaled, Opening, Moving, Switching, Undisturbed, Settings
<1>7. Win!EnabledIsComplete /\ Win!AlwaysRecoverable
  BY <1>1 DEF Win!EnabledIsComplete, Win!AlwaysRecoverable
<1> QED
  BY <1>2, <1>3, <1>5, <1>6, <1>7 DEF WinInv

\* Every step on Windows, the edits of other programs included, keeps the invariant.
LEMMA WinNext ==
  ASSUME WinInv, Win!Next
  PROVE  WinInv'
BY WinProcStep, WinEdit DEF Win!Next, Acts

-----------------------------------------------------------------------------
(* macOS: the facilities, the journals and the locals.                     *)

KindSet == Mac!ToSet(Kinds)
Entries == [at : Mac!Facilities, endpoint : Ports]
MacLocals ==
  [owned : SUBSET Entries, kept : SUBSET Entries, entry : Entries \cup {Mac!NoEntry},
   stale : BOOLEAN, failed : BOOLEAN, port : Ports \cup {Foreign},
   services : Seq(Mac!ServiceSet), kinds : Seq(KindSet), attempted : BOOLEAN]

MacSteps ==
  {"down", "idle", "restore", "off", "list", "service", "claim", "set", "on", "settle"}
MacGoals == {"none", "fresh", "apply", "rollback", "clear"}

MacTyped ==
  /\ facility \in [Mac!Facilities -> [on : BOOLEAN, endpoint : Ports \cup {Foreign}]]
  /\ foreign \in [Mac!Facilities -> {"none", "unseen", "seen"}]
  /\ journal \in [Channels -> SUBSET Entries]
  /\ channel \in [Procs -> Channels] /\ held \in [Procs -> BOOLEAN]
  /\ pc \in [Procs -> MacSteps] /\ goal \in [Procs -> MacGoals]
  /\ work \in [Procs -> MacLocals]

\* The steps that work on the facilities of one service, and on one of them.
InService(p) == pc[p] \in {"claim", "set", "on", "settle"}
InFacility(p) == pc[p] \in {"set", "on", "settle"}

\* An apply knows its port, service and kind; a restore the entry it is at.
Ready(p) ==
  /\ goal[p] = "fresh" \/ pc[p] \in {"list", "service"} \/ InService(p) => work[p].port \in Ports
  /\ InService(p) => work[p].services # <<>>
  /\ InFacility(p) => work[p].kinds # <<>>
  /\ pc[p] = "off" => work[p].entry \in work[p].owned
Prepared == \A p \in Procs : Ready(p)

\* What another program has enabled carries its endpoint, and where the client is at
\* work it has seen none of that.
ForeignLooks ==
  \A f \in Mac!Facilities : foreign[f] # "none" => facility[f] = [on |-> TRUE, endpoint |-> Foreign]
Clear(p) ==
  /\ InService(p) => \A g \in Mac!AllOf(Head(work[p].services)) : foreign[g] # "seen"
  /\ pc[p] = "off" => foreign[work[p].entry.at] # "seen"
Unseen == \A p \in Procs : Clear(p)

\* The entry a facility that the client turned on should have.
Ours(f) == facility[f].on /\ facility[f].endpoint \in Ports
OwnEntry(f) == Mac!Entry(f, facility[f].endpoint)

\* What a process works on is what its journal holds: an apply owns exactly that, and
\* a restore has not lost any facility that is still on.
Covers(p) ==
  /\ pc[p] \in {"list", "service"} \/ InService(p) => work[p].owned = Mac!Mine(p)
  /\ InFacility(p) => Mac!Entry(Mac!Target(p), work[p].port) \in Mac!Mine(p)
  /\ pc[p] \in {"on", "settle"} => facility[Mac!Target(p)].endpoint \in {work[p].port, Foreign}
  /\ pc[p] \in {"restore", "off"} =>
       \A f \in Mac!Facilities :
         Ours(f) /\ OwnEntry(f) \in Mac!Mine(p) =>
           OwnEntry(f) \in work[p].owned \cup work[p].kept \cup forfeited
Covered == \A p \in Procs : Covers(p)

MacInv ==
  /\ MacTyped /\ Exclusive /\ Prepared /\ ForeignLooks /\ Unseen /\ Covered
  /\ Mac!ForeignServiceKept /\ Mac!OwnedIsJournaled

MacActs(p) ==
  \/ Mac!Step(p) \/ Mac!BeginClear(p) \/ Mac!Fail(p) \/ Mac!Crash(p)
  \/ \E e \in Ports : Mac!BeginApply(p, e)

\* The lock is no process, and another program's endpoint no port of the client.
LEMMA MacConstants ==
  /\ Free \notin Procs /\ Foreign \notin Ports
  /\ Services \in Seq(Mac!ServiceSet) /\ Kinds \in Seq(KindSet)
BY LeaseAssumption DEF Mac!MacAssumption, Mac!ServiceSet, KindSet

\* The head and the rest of a list that is not empty.
LEMMA Ends ==
  ASSUME NEW S, NEW s \in Seq(S), s # <<>>
  PROVE  Head(s) \in S /\ Tail(s) \in Seq(S)
OBVIOUS

\* The locals after each kind of change.
LEMMA IdleTyped == Mac!Idle \in MacLocals /\ Mac!Idle.kinds = <<>> /\ Mac!Idle.owned = {}
BY DEF Mac!Idle, MacLocals

\* A restore starts over the entries it is given.
LEMMA StartRestoreIs ==
  ASSUME MacTyped, NEW p \in Procs, NEW why, NEW owned \in SUBSET Entries, NEW stale \in BOOLEAN,
         Mac!StartRestore(p, why, owned, stale)
  PROVE  /\ work' \in [Procs -> MacLocals]
         /\ pc' = [pc EXCEPT ![p] = "restore"] /\ goal' = [goal EXCEPT ![p] = why]
         /\ work'[p].owned = owned /\ work'[p].kept = {} /\ work'[p].port = work[p].port
         /\ \A q \in Procs \ {p} : work'[q] = work[q]
BY DEF MacTyped, Mac!StartRestore, Mac!Goto, MacLocals

\* An entry is dropped from a restore.
LEMMA ForgetIs ==
  ASSUME MacTyped, NEW p \in Procs, NEW entry \in Entries, Mac!Forget(p, entry)
  PROVE  /\ work' \in [Procs -> MacLocals]
         /\ work'[p].owned = work[p].owned \ {entry} /\ work'[p].kept = work[p].kept
         /\ work'[p].port = work[p].port
         /\ \A q \in Procs \ {p} : work'[q] = work[q]
<1> DEFINE w == work[p]
           v == [w EXCEPT !.owned = w.owned \ {entry}, !.entry = Mac!NoEntry]
<1>1. w \in MacLocals
  BY DEF MacTyped
<1>2. v \in MacLocals /\ v.owned = w.owned \ {entry} /\ v.kept = w.kept /\ v.port = w.port
  <2>1. w.owned \ {entry} \in SUBSET Entries
    BY <1>1 DEF MacLocals
  <2> QED
    BY <1>1, <2>1 DEF MacLocals
<1>3. work' = [work EXCEPT ![p] = v]
  BY DEF Mac!Forget
<1> HIDE DEF v
<1> QED
  BY <1>2, <1>3 DEF MacTyped

\* An entry is kept by a restore.
LEMMA KeepIs ==
  ASSUME MacTyped, NEW p \in Procs, NEW entry \in Entries, Mac!Keep(p, entry)
  PROVE  /\ work' \in [Procs -> MacLocals]
         /\ work'[p].owned = work[p].owned \ {entry} /\ work'[p].kept = work[p].kept \cup {entry}
         /\ work'[p].port = work[p].port
         /\ \A q \in Procs \ {p} : work'[q] = work[q]
<1> DEFINE w == work[p]
           v == [w EXCEPT !.owned = w.owned \ {entry}, !.kept = w.kept \cup {entry},
                          !.entry = Mac!NoEntry, !.failed = TRUE]
<1>1. w \in MacLocals
  BY DEF MacTyped
<1>2. /\ v \in MacLocals /\ v.owned = w.owned \ {entry} /\ v.kept = w.kept \cup {entry}
      /\ v.port = w.port
  <2>1. w.owned \ {entry} \in SUBSET Entries /\ w.kept \cup {entry} \in SUBSET Entries
    BY <1>1 DEF MacLocals
  <2> QED
    BY <1>1, <2>1 DEF MacLocals
<1>3. work' = [work EXCEPT ![p] = v]
  BY DEF Mac!Keep
<1> HIDE DEF v
<1> QED
  BY <1>2, <1>3 DEF MacTyped

\* An apply starts from the journal.
LEMMA BeginApplyIs ==
  ASSUME MacTyped, NEW p \in Procs, NEW port \in Ports, Mac!BeginApply(p, port)
  PROVE  /\ work' \in [Procs -> MacLocals]
         /\ work'[p].owned = Mac!Mine(p) /\ work'[p].kept = {} /\ work'[p].port = port
         /\ \A q \in Procs \ {p} : work'[q] = work[q]
<1> DEFINE v == [Mac!Idle EXCEPT !.owned = Mac!Mine(p), !.stale = ~held[p], !.port = port]
<1>1. Mac!Mine(p) \in SUBSET Entries
  BY DEF MacTyped, Mac!Mine
<1>2. v \in MacLocals /\ v.owned = Mac!Mine(p) /\ v.kept = {} /\ v.port = port
  <2>1. (~held[p]) \in BOOLEAN
    OBVIOUS
  <2>2. Mac!Idle.kept = {}
    BY DEF Mac!Idle
  <2> QED
    BY <1>1, <2>1, <2>2, IdleTyped DEF MacLocals
<1>3. work' = [work EXCEPT ![p] = v]
  BY DEF Mac!BeginApply
<1> HIDE DEF v
<1> QED
  BY <1>2, <1>3 DEF MacTyped

\* One service or kind after the other.
LEMMA TargetIn ==
  ASSUME MacTyped, NEW p \in Procs, work[p].services # <<>>, work[p].kinds # <<>>
  PROVE  /\ Mac!Target(p) \in Mac!Facilities /\ Mac!Target(p)[1] = Head(work[p].services)
         /\ Mac!Target(p) \in Mac!AllOf(Mac!Target(p)[1])
<1>1. work[p].services \in Seq(Mac!ServiceSet) /\ work[p].kinds \in Seq(KindSet)
  BY DEF MacTyped, MacLocals
<1>2. Head(work[p].services) \in Mac!ServiceSet /\ Head(work[p].kinds) \in KindSet
  BY <1>1, Ends
<1> QED
  BY <1>2 DEF Mac!Target, Mac!Facilities, Mac!AllOf, KindSet

\* An entry is claimed.
LEMMA ClaimIs ==
  ASSUME MacTyped, NEW p \in Procs, NEW owned \in SUBSET Entries,
         work' = [work EXCEPT ![p] = [@ EXCEPT !.attempted = TRUE, !.owned = owned]]
  PROVE  /\ work' \in [Procs -> MacLocals]
         /\ work'[p].owned = owned /\ work'[p].port = work[p].port
         /\ work'[p].services = work[p].services /\ work'[p].kinds = work[p].kinds
         /\ \A q \in Procs \ {p} : work'[q] = work[q]
BY DEF MacTyped, MacLocals

\* A facility is settled and the next kind follows.
LEMMA SettleIs ==
  ASSUME MacTyped, NEW p \in Procs, NEW owned \in SUBSET Entries, work[p].kinds # <<>>,
         work' = [work EXCEPT ![p] = [@ EXCEPT !.owned = owned, !.kinds = Tail(work[p].kinds)]]
  PROVE  /\ work' \in [Procs -> MacLocals]
         /\ work'[p].owned = owned /\ work'[p].port = work[p].port
         /\ work'[p].services = work[p].services
         /\ \A q \in Procs \ {p} : work'[q] = work[q]
<1> DEFINE w == work[p]
           v == [w EXCEPT !.owned = owned, !.kinds = Tail(w.kinds)]
<1>1. w \in MacLocals /\ Tail(w.kinds) \in Seq(KindSet)
  BY Ends DEF MacTyped, MacLocals
<1>2. v \in MacLocals /\ v.owned = owned /\ v.port = w.port /\ v.services = w.services
  BY <1>1 DEF MacLocals
<1>3. work' = [work EXCEPT ![p] = v]
  OBVIOUS
<1> HIDE DEF v
<1> QED
  BY <1>2, <1>3 DEF MacTyped

-----------------------------------------------------------------------------
(* macOS: the locals of a step.                                            *)

MacProcs ==
  /\ channel \in [Procs -> Channels] /\ held \in [Procs -> BOOLEAN]
  /\ pc \in [Procs -> MacSteps] /\ goal \in [Procs -> MacGoals]
  /\ work \in [Procs -> MacLocals]

Same(p) ==
  \A q \in Procs \ {p} : /\ pc'[q] = pc[q] /\ goal'[q] = goal[q] /\ held'[q] = held[q]
                         /\ work'[q] = work[q]

\* An operation ends.
LEMMA MacFinish ==
  ASSUME MacTyped, NEW p \in Procs, NEW keep \in BOOLEAN, UNCHANGED channel, Mac!Finish(p, keep)
  PROVE  MacProcs' /\ Same(p) /\ pc'[p] = "idle" /\ goal'[p] = "none"
BY IdleTyped DEF MacTyped, MacProcs, Same, Mac!Finish, Mac!Goto, MacSteps, MacGoals

\* After a restore comes the end, or the rest of an apply that owns what was kept.
LEMMA MacRestored ==
  ASSUME MacTyped, NEW p \in Procs, NEW failed \in BOOLEAN, UNCHANGED channel,
         Mac!AfterRestore(p, failed)
  PROVE  /\ MacProcs' /\ Same(p)
         /\ \/ pc'[p] = "idle" /\ goal'[p] = "none"
            \/ /\ pc'[p] = "list" /\ goal'[p] = "apply" /\ goal[p] = "fresh" /\ ~failed
               /\ work'[p].owned = work[p].kept /\ work'[p].port = work[p].port
<1>1. CASE goal[p] = "fresh" /\ ~failed
  <2> DEFINE w == [work[p] EXCEPT !.owned = work[p].kept]
  <2>1. w \in MacLocals /\ w.owned = work[p].kept /\ w.port = work[p].port
    BY DEF MacTyped, MacLocals
  <2>2. /\ work' = [work EXCEPT ![p] = w] /\ pc' = [pc EXCEPT ![p] = "list"]
        /\ goal' = [goal EXCEPT ![p] = "apply"] /\ UNCHANGED held
    BY <1>1 DEF Mac!AfterRestore, Mac!Goto
  <2> HIDE DEF w
  <2> QED
    BY <1>1, <2>1, <2>2 DEF MacTyped, MacProcs, Same, MacSteps, MacGoals
<1>2. CASE ~(goal[p] = "fresh" /\ ~failed)
  <2>1. \E keep \in BOOLEAN : Mac!Finish(p, keep)
    <3>1. (held[p] /\ work[p].kept # {}) \in BOOLEAN /\ (work[p].kept # {}) \in BOOLEAN
      OBVIOUS
    <3> QED
      BY <1>2, <3>1 DEF Mac!AfterRestore
  <2> QED
    BY <2>1, MacFinish
<1> QED
  BY <1>1, <1>2

\* A failed apply ends, or turns to its rollback.
LEMMA MacFailApply ==
  ASSUME MacTyped, NEW p \in Procs, UNCHANGED channel, Mac!FailApply(p)
  PROVE  /\ MacProcs' /\ Same(p)
         /\ \/ pc'[p] = "idle" /\ goal'[p] = "none"
            \/ /\ pc'[p] = "restore" /\ goal'[p] = "rollback"
               /\ work'[p].owned = work[p].owned /\ work'[p].kept = {}
<1>1. CASE Mac!StartRestore(p, "rollback", work[p].owned, FALSE) /\ UNCHANGED held
  <2>1. work[p].owned \in SUBSET Entries
    BY DEF MacTyped, MacLocals
  <2>2. /\ work' \in [Procs -> MacLocals] /\ \A q \in Procs \ {p} : work'[q] = work[q]
        /\ work'[p].owned = work[p].owned /\ work'[p].kept = {}
        /\ pc' = [pc EXCEPT ![p] = "restore"] /\ goal' = [goal EXCEPT ![p] = "rollback"]
    BY <1>1, <2>1, StartRestoreIs
  <2> QED
    BY <1>1, <2>2 DEF MacTyped, MacProcs, Same, MacSteps, MacGoals
<1>2. CASE Mac!Finish(p, work[p].owned # {})
  BY <1>2, MacFinish
<1> QED
  BY <1>1, <1>2 DEF Mac!FailApply

\* What the failure of a step leaves: nothing that was owned is dropped.
LEMMA MacFail ==
  ASSUME MacTyped, Prepared, NEW p \in Procs, Mac!Fail(p)
  PROVE  /\ MacProcs' /\ Same(p) /\ Busy(p)
         /\ UNCHANGED <<facility, journal, foreign, forfeited, stolen>>
         /\ \/ pc'[p] = "idle" /\ goal'[p] = "none"
            \/ /\ pc'[p] = "restore" /\ goal'[p] = "rollback"
               /\ pc[p] \in {"list"} \/ InService(p)
               /\ work[p].owned \subseteq work'[p].owned
            \/ /\ pc'[p] = "restore" /\ pc[p] \in {"restore", "off"} /\ goal'[p] = goal[p]
               /\ work[p].owned \subseteq work'[p].owned \cup work'[p].kept
               /\ work[p].kept \subseteq work'[p].kept /\ work'[p].port = work[p].port
<1>0. UNCHANGED <<channel, facility, journal, foreign, forfeited, stolen>>
  BY DEF Mac!Fail, Mac!historyVars
<1>1. CASE pc[p] \in {"list", "set", "on", "settle"} /\ Mac!FailApply(p)
  BY <1>0, <1>1, MacFailApply DEF Busy, InService
<1>2. CASE /\ pc[p] = "claim" /\ work[p].kinds # <<>> /\ UNCHANGED held
           /\ Mac!StartRestore(p, "rollback",
                work[p].owned \cup {Mac!Entry(Mac!Target(p), work[p].port)}, FALSE)
  <2>1. work[p].port \in Ports /\ work[p].services # <<>>
    BY <1>2 DEF Prepared, Ready, InService
  <2>2. work[p].owned \cup {Mac!Entry(Mac!Target(p), work[p].port)} \in SUBSET Entries
    BY <1>2, <2>1, TargetIn DEF MacTyped, MacLocals, Mac!Entry, Entries
  <2>3. /\ work' \in [Procs -> MacLocals] /\ \A q \in Procs \ {p} : work'[q] = work[q]
        /\ work[p].owned \subseteq work'[p].owned
        /\ pc' = [pc EXCEPT ![p] = "restore"] /\ goal' = [goal EXCEPT ![p] = "rollback"]
    BY <1>2, <2>2, StartRestoreIs
  <2> QED
    BY <1>0, <1>2, <2>3 DEF MacTyped, MacProcs, Same, MacSteps, MacGoals, Busy, InService
<1>3. ASSUME NEW entry \in work[p].owned, Mac!Keep(p, entry), pc[p] \in {"restore", "off"},
             pc' = [pc EXCEPT ![p] = "restore"], UNCHANGED <<goal, held>>
      PROVE  /\ MacProcs' /\ Same(p) /\ Busy(p)
             /\ pc'[p] = "restore" /\ goal'[p] = goal[p]
             /\ work[p].owned \subseteq work'[p].owned \cup work'[p].kept
             /\ work[p].kept \subseteq work'[p].kept /\ work'[p].port = work[p].port
  <2>1. entry \in Entries
    BY <1>3 DEF MacTyped, MacLocals
  <2> QED
    BY <1>0, <1>3, <2>1, KeepIs DEF MacTyped, MacProcs, Same, MacSteps, Busy
<1>4. CASE pc[p] = "restore" /\ Mac!AfterRestore(p, TRUE)
  BY <1>0, <1>4, MacRestored DEF Busy
<1>5. \/ pc[p] \in {"list", "set", "on", "settle"} /\ Mac!FailApply(p)
      \/ /\ pc[p] = "claim" /\ work[p].kinds # <<>> /\ UNCHANGED held
         /\ Mac!StartRestore(p, "rollback",
              work[p].owned \cup {Mac!Entry(Mac!Target(p), work[p].port)}, FALSE)
      \/ /\ pc[p] \in {"restore", "off"} /\ pc' = [pc EXCEPT ![p] = "restore"]
         /\ UNCHANGED <<goal, held>>
         /\ \E entry \in work[p].owned : Mac!Keep(p, entry)
      \/ pc[p] = "restore" /\ Mac!AfterRestore(p, TRUE)
  <2>1. pc[p] = "off" => work[p].entry \in work[p].owned
    BY DEF Prepared, Ready
  <2> QED
    BY <2>1 DEF Mac!Fail, Mac!Goto
<1> QED
  BY <1>0, <1>1, <1>2, <1>3, <1>4, <1>5

\* A step of p is p's own, and changes what is shared only in the middle of an operation.
MacOwn(p) ==
  /\ Same(p) /\ UNCHANGED <<channel, edits>>
  /\ Busy(p) \/ UNCHANGED <<facility, journal, foreign, forfeited, stolen>>

\* What a change of one local leaves.
LEMMA LookedAt ==
  ASSUME MacTyped, NEW p \in Procs, NEW w \in MacLocals, work' = [work EXCEPT ![p] = w]
  PROVE  /\ work' \in [Procs -> MacLocals] /\ work'[p] = w
         /\ \A q \in Procs \ {p} : work'[q] = work[q]
BY DEF MacTyped

\* A service is done or left alone, and the next one follows.
LEMMA NextService ==
  ASSUME MacTyped, NEW p \in Procs, work[p].services # <<>>,
         work' = [work EXCEPT ![p].services = Tail(@)]
  PROVE  /\ work' \in [Procs -> MacLocals]
         /\ work'[p].owned = work[p].owned /\ work'[p].port = work[p].port
         /\ \A q \in Procs \ {p} : work'[q] = work[q]
<1> DEFINE w == [work[p] EXCEPT !.services = Tail(work[p].services)]
<1>1. w \in MacLocals /\ w.owned = work[p].owned /\ w.port = work[p].port
  BY Ends DEF MacTyped, MacLocals
<1>2. work' = [work EXCEPT ![p] = w]
  OBVIOUS
<1> HIDE DEF w
<1> QED
  BY <1>1, <1>2, LookedAt

\* Every step keeps the types of what is a process's own, and its plan in order.
LEMMA MacStepProcs ==
  ASSUME MacTyped, Prepared, NEW p \in Procs, MacActs(p)
  PROVE  MacProcs' /\ MacOwn(p) /\ Ready(p)'
<1> USE MacConstants
<1>0. Ready(p) /\ MacProcs /\ work[p] \in MacLocals
  BY DEF Prepared, MacProcs, MacTyped
<1>1. ASSUME NEW entry \in work[p].owned, Mac!RestoreEntry(p, entry)
      PROVE  MacProcs' /\ MacOwn(p) /\ Ready(p)'
  <2>1. entry \in Entries
    BY <1>0 DEF MacLocals
  <2>2. pc[p] = "restore" /\ UNCHANGED <<channel, edits, held, goal>>
    BY <1>1 DEF Mac!RestoreEntry, Mac!boundVars
  <2>3. CASE Mac!Forget(p, entry) /\ UNCHANGED pc
    <3>1. /\ work' \in [Procs -> MacLocals] /\ work'[p].port = work[p].port
          /\ \A q \in Procs \ {p} : work'[q] = work[q]
      BY <2>1, <2>3, ForgetIs
    <3> QED
      BY <1>0, <2>2, <2>3, <3>1 DEF MacProcs, MacOwn, Same, Busy, Ready, InService, InFacility
  <2>4. CASE Mac!Goto(p, "off") /\ work' = [work EXCEPT ![p].entry = entry]
    <3> DEFINE w == [work[p] EXCEPT !.entry = entry]
    <3>1. /\ w \in MacLocals /\ w.port = work[p].port /\ w.entry = entry
          /\ w.owned = work[p].owned
      BY <1>0, <2>1 DEF MacLocals
    <3>2. work' = [work EXCEPT ![p] = w]
      BY <2>4
    <3> HIDE DEF w
    <3>3. /\ work' \in [Procs -> MacLocals] /\ work'[p] = w
          /\ \A q \in Procs \ {p} : work'[q] = work[q]
      BY <3>1, <3>2, LookedAt
    <3> QED
      BY <1>0, <1>1, <2>2, <2>4, <3>1, <3>3
         DEF MacProcs, MacOwn, Same, Busy, Ready, InService, InFacility, Mac!Goto, MacSteps
  <2> QED
    BY <1>1, <2>3, <2>4 DEF Mac!RestoreEntry
<1>2. CASE Mac!TurnOff(p)
  <2>1. /\ work[p].entry \in Entries /\ pc[p] = "off" /\ Mac!Forget(p, work[p].entry)
        /\ UNCHANGED <<channel, edits, held, goal>> /\ pc' = [pc EXCEPT ![p] = "restore"]
    BY <1>0, <1>2 DEF Mac!TurnOff, Ready, MacLocals, Mac!boundVars, Mac!Goto
  <2>2. /\ work' \in [Procs -> MacLocals] /\ work'[p].port = work[p].port
        /\ \A q \in Procs \ {p} : work'[q] = work[q]
    BY <2>1, ForgetIs
  <2> QED
    BY <1>0, <2>1, <2>2
       DEF MacProcs, MacOwn, Same, Busy, Ready, InService, InFacility, MacSteps
<1>3. CASE Mac!SaveRestored(p)
  <2>1. /\ pc[p] = "restore" /\ Mac!AfterRestore(p, work[p].failed)
        /\ UNCHANGED <<channel, edits>> /\ work[p].failed \in BOOLEAN
    BY <1>0, <1>3 DEF Mac!SaveRestored, Mac!boundVars, MacLocals
  <2>2. /\ MacProcs' /\ Same(p)
        /\ \/ pc'[p] = "idle" /\ goal'[p] = "none"
           \/ pc'[p] = "list" /\ goal'[p] = "apply" /\ goal[p] = "fresh"
              /\ work'[p].port = work[p].port
    BY <2>1, MacRestored
  <2> QED
    BY <1>0, <2>1, <2>2 DEF MacOwn, Busy, Ready, InService, InFacility
<1>4. CASE Mac!ListServices(p)
  <2> DEFINE w == [work[p] EXCEPT !.services = Services]
  <2>1. w \in MacLocals /\ w.port = work[p].port
    BY <1>0 DEF MacLocals
  <2>2. /\ work' = [work EXCEPT ![p] = w] /\ pc[p] = "list" /\ pc' = [pc EXCEPT ![p] = "service"]
        /\ UNCHANGED <<channel, edits, held, goal>>
    BY <1>4 DEF Mac!ListServices, Mac!boundVars, Mac!Goto
  <2> HIDE DEF w
  <2>3. /\ work' \in [Procs -> MacLocals] /\ work'[p] = w
        /\ \A q \in Procs \ {p} : work'[q] = work[q]
    BY <2>1, <2>2, LookedAt
  <2> QED
    BY <1>0, <2>1, <2>2, <2>3
       DEF MacProcs, MacOwn, Same, Busy, Ready, InService, InFacility, MacSteps
<1>5. CASE Mac!InspectService(p)
  <2>1. pc[p] = "service" /\ work[p].services # <<>> /\ UNCHANGED <<channel, edits, held, goal>>
    BY <1>5 DEF Mac!InspectService, Mac!boundVars
  <2>2. CASE work' = [work EXCEPT ![p].services = Tail(@)] /\ UNCHANGED pc
    <3>1. /\ work' \in [Procs -> MacLocals] /\ work'[p].port = work[p].port
          /\ \A q \in Procs \ {p} : work'[q] = work[q]
      BY <2>1, <2>2, NextService
    <3> QED
      BY <1>0, <2>1, <2>2, <3>1
         DEF MacProcs, MacOwn, Same, Busy, Ready, InService, InFacility
  <2>3. CASE work' = [work EXCEPT ![p].kinds = Kinds] /\ Mac!Goto(p, "claim")
    <3> DEFINE w == [work[p] EXCEPT !.kinds = Kinds]
    <3>1. w \in MacLocals /\ w.port = work[p].port /\ w.services = work[p].services
      BY <1>0 DEF MacLocals
    <3>2. work' = [work EXCEPT ![p] = w] /\ pc' = [pc EXCEPT ![p] = "claim"]
      BY <2>3 DEF Mac!Goto
    <3> HIDE DEF w
    <3>3. /\ work' \in [Procs -> MacLocals] /\ work'[p] = w
          /\ \A q \in Procs \ {p} : work'[q] = work[q]
      BY <3>1, <3>2, LookedAt
    <3> QED
      BY <1>0, <2>1, <3>1, <3>2, <3>3
         DEF MacProcs, MacOwn, Same, Busy, Ready, InService, InFacility, MacSteps
  <2> QED
    BY <1>5, <2>2, <2>3 DEF Mac!InspectService
<1>6. CASE Mac!ClaimFacility(p)
  <2> DEFINE owned == work[p].owned \cup {Mac!Entry(Mac!Target(p), work[p].port)}
  <2>1. /\ pc[p] = "claim" /\ work[p].kinds # <<>> /\ UNCHANGED <<channel, edits, held, goal>>
        /\ work' = [work EXCEPT ![p] = [@ EXCEPT !.attempted = TRUE, !.owned = owned]]
        /\ pc' = [pc EXCEPT ![p] = "set"]
    BY <1>6 DEF Mac!ClaimFacility, Mac!boundVars, Mac!Goto
  <2>2. work[p].port \in Ports /\ work[p].services # <<>>
    BY <1>0, <2>1 DEF Ready, InService
  <2>3. owned \in SUBSET Entries
    BY <1>0, <2>1, <2>2, TargetIn DEF MacLocals, Mac!Entry, Entries
  <2> HIDE DEF owned
  <2>4. /\ work' \in [Procs -> MacLocals] /\ work'[p].port = work[p].port
        /\ work'[p].services = work[p].services /\ work'[p].kinds = work[p].kinds
        /\ \A q \in Procs \ {p} : work'[q] = work[q]
    BY <2>1, <2>3, ClaimIs
  <2> QED
    BY <1>0, <2>1, <2>2, <2>4
       DEF MacProcs, MacOwn, Same, Busy, Ready, InService, InFacility, MacSteps
<1>7. CASE Mac!SetEndpoint(p) \/ Mac!SetOn(p)
  <2>1. /\ InFacility(p) /\ UNCHANGED <<channel, edits, held, goal, work>>
        /\ pc' = [pc EXCEPT ![p] = "on"] \/ pc' = [pc EXCEPT ![p] = "settle"]
    BY <1>7 DEF Mac!SetEndpoint, Mac!SetOn, Mac!boundVars, Mac!Goto, InFacility
  <2> QED
    BY <1>0, <2>1 DEF MacProcs, MacOwn, Same, Busy, Ready, InService, InFacility, MacSteps
<1>8. CASE Mac!SettleFacility(p)
  <2> DEFINE owned == {o \in work[p].owned : o.at # Mac!Target(p) \/ o.endpoint = work[p].port}
  <2>1. /\ pc[p] = "settle" /\ UNCHANGED <<channel, edits, held, goal>>
        /\ work' = [work EXCEPT ![p] = [@ EXCEPT !.owned = owned, !.kinds = Tail(work[p].kinds)]]
        /\ pc' = [pc EXCEPT ![p] = "claim"]
    BY <1>8 DEF Mac!SettleFacility, Mac!boundVars, Mac!Goto
  <2>2. work[p].kinds # <<>>
    BY <1>0, <2>1 DEF Ready, InFacility
  <2>3. owned \in SUBSET Entries
    BY <1>0 DEF MacLocals
  <2> HIDE DEF owned
  <2>4. /\ work' \in [Procs -> MacLocals] /\ work'[p].port = work[p].port
        /\ work'[p].services = work[p].services
        /\ \A q \in Procs \ {p} : work'[q] = work[q]
    BY <2>1, <2>2, <2>3, SettleIs
  <2> QED
    BY <1>0, <2>1, <2>4
       DEF MacProcs, MacOwn, Same, Busy, Ready, InService, InFacility, MacSteps
<1>9. CASE Mac!ServiceDone(p)
  <2>1. /\ pc[p] = "claim" /\ UNCHANGED <<channel, edits, held, goal>>
        /\ work' = [work EXCEPT ![p].services = Tail(@)] /\ pc' = [pc EXCEPT ![p] = "service"]
    BY <1>9 DEF Mac!ServiceDone, Mac!boundVars, Mac!Goto
  <2>2. /\ work' \in [Procs -> MacLocals] /\ work'[p].port = work[p].port
        /\ \A q \in Procs \ {p} : work'[q] = work[q]
    BY <1>0, <2>1, NextService DEF Ready, InService
  <2> QED
    BY <1>0, <2>1, <2>2
       DEF MacProcs, MacOwn, Same, Busy, Ready, InService, InFacility, MacSteps
<1>10. CASE Mac!EndApply(p)
  <2>1. /\ pc[p] = "service" /\ UNCHANGED <<channel, edits>>
        /\ Mac!Finish(p, work[p].owned # {})
    BY <1>10 DEF Mac!EndApply, Mac!boundVars
  <2> QED
    BY <2>1, MacFinish DEF MacOwn, Busy, Ready, InService, InFacility
<1>11. CASE Mac!BeginClear(p)
  <2>1. pc[p] \in {"idle", "down"}
        /\ UNCHANGED <<channel, edits, facility, journal, foreign, forfeited, stolen>>
    BY <1>11 DEF Mac!BeginClear, Mac!boundVars, Mac!historyVars
  <2>2. CASE pc' = [pc EXCEPT ![p] = "idle"] /\ UNCHANGED <<goal, work>>
             /\ (UNCHANGED held \/ held' = [held EXCEPT ![p] = FALSE])
    BY <1>0, <2>1, <2>2 DEF MacProcs, MacOwn, Same, Ready, InService, InFacility, MacSteps
  <2>3. CASE Mac!StartRestore(p, "clear", Mac!Mine(p), ~held[p]) /\ UNCHANGED held
    <3>1. Mac!Mine(p) \in SUBSET Entries /\ (~held[p]) \in BOOLEAN
      BY DEF MacTyped, Mac!Mine
    <3>2. /\ work' \in [Procs -> MacLocals] /\ \A q \in Procs \ {p} : work'[q] = work[q]
          /\ pc' = [pc EXCEPT ![p] = "restore"] /\ goal' = [goal EXCEPT ![p] = "clear"]
      BY <2>3, <3>1, StartRestoreIs
    <3> QED
      BY <1>0, <2>1, <2>3, <3>2
         DEF MacProcs, MacOwn, Same, Ready, InService, InFacility, MacSteps, MacGoals
  <2> QED
    BY <1>11, <2>2, <2>3 DEF Mac!BeginClear, Mac!Goto
<1>12. CASE Mac!Fail(p)
  <2>1. UNCHANGED <<channel, edits>>
    BY <1>12 DEF Mac!Fail
  <2>2. MacProcs' /\ MacOwn(p)
    BY <1>12, <2>1, MacFail DEF MacOwn
  <2>3. Ready(p)'
    BY <1>0, <1>12, MacFail DEF Ready, InService, InFacility
  <2> QED
    BY <2>2, <2>3
<1>13. CASE Mac!Crash(p)
  <2>1. /\ UNCHANGED <<channel, edits>> /\ UNCHANGED <<facility, journal, foreign, forfeited, stolen>>
        /\ pc' = [pc EXCEPT ![p] = "down"] /\ goal' = [goal EXCEPT ![p] = "none"]
        /\ held' = [held EXCEPT ![p] = FALSE] /\ work' = [work EXCEPT ![p] = Mac!Idle]
    BY <1>13 DEF Mac!Crash, Mac!historyVars, Mac!Goto
  <2> QED
    BY <1>0, <2>1, IdleTyped
       DEF MacProcs, MacOwn, Same, Ready, InService, InFacility, MacSteps, MacGoals
<1>14. ASSUME NEW e \in Ports, Mac!BeginApply(p, e)
       PROVE  MacProcs' /\ MacOwn(p) /\ Ready(p)'
  <2>1. /\ pc[p] = "idle" /\ UNCHANGED <<channel, edits, held>>
        /\ UNCHANGED <<facility, journal, foreign, forfeited, stolen>>
        /\ \/ pc' = [pc EXCEPT ![p] = "restore"] /\ goal' = [goal EXCEPT ![p] = "fresh"]
           \/ pc' = [pc EXCEPT ![p] = "list"] /\ goal' = [goal EXCEPT ![p] = "apply"]
    BY <1>14 DEF Mac!BeginApply, Mac!historyVars, Mac!Goto
  <2>2. /\ work' \in [Procs -> MacLocals] /\ work'[p].port = e
        /\ \A q \in Procs \ {p} : work'[q] = work[q]
    BY <1>14, BeginApplyIs
  <2> QED
    BY <1>0, <2>1, <2>2
       DEF MacProcs, MacOwn, Same, Ready, InService, InFacility, MacSteps, MacGoals
<1> QED
  BY <1>1, <1>2, <1>3, <1>4, <1>5, <1>6, <1>7, <1>8, <1>9, <1>10, <1>11, <1>12, <1>13, <1>14
     DEF MacActs, Mac!Step

-----------------------------------------------------------------------------
(* macOS: the lock, the facilities and the journals.                       *)

\* Every step keeps the lock with the process at work or with a lease.
LEMMA MacStepExclusive ==
  ASSUME MacTyped, Exclusive, Prepared, NEW p \in Procs, MacActs(p)
  PROVE  Exclusive'
<1>1. \/ /\ lock \in {Free, p}
         /\ lock' \in {Free, p}
         /\ (pc'[p] \in {"down", "idle"} /\ ~held'[p]) \/ lock' = p
      \/ lock' = lock /\ pc'[p] \in {"down", "idle"} /\ ~held'[p]
  <2> USE DEF Exclusive, Busy, Mac!Goto, Mac!Finish, Mac!AfterRestore, MacTyped
  <2>1. ASSUME NEW entry \in work[p].owned, Mac!RestoreEntry(p, entry)
        PROVE  lock = p /\ lock' = p
    BY <2>1 DEF Mac!RestoreEntry
  <2>2. CASE Mac!TurnOff(p)
    BY <2>2 DEF Mac!TurnOff
  <2>3. CASE Mac!SaveRestored(p)
    BY <2>3 DEF Mac!SaveRestored
  <2>4. CASE Mac!ListServices(p)
    BY <2>4 DEF Mac!ListServices
  <2>5. CASE Mac!InspectService(p)
    BY <2>5 DEF Mac!InspectService
  <2>6. CASE Mac!ClaimFacility(p)
    BY <2>6 DEF Mac!ClaimFacility
  <2>7. CASE Mac!SetEndpoint(p) \/ Mac!SetOn(p)
    BY <2>7 DEF Mac!SetEndpoint, Mac!SetOn
  <2>8. CASE Mac!SettleFacility(p)
    BY <2>8 DEF Mac!SettleFacility
  <2>9. CASE Mac!ServiceDone(p)
    BY <2>9 DEF Mac!ServiceDone
  <2>10. CASE Mac!EndApply(p)
    BY <2>10 DEF Mac!EndApply
  <2>11. CASE Mac!BeginClear(p)
    BY <2>11 DEF Mac!BeginClear, Mac!StartRestore
  <2>12. CASE Mac!Fail(p)
    BY <2>12 DEF Mac!Fail, Mac!FailApply, Mac!StartRestore
  <2>13. CASE Mac!Crash(p)
    BY <2>13 DEF Mac!Crash
  <2>14. ASSUME NEW e \in Ports, Mac!BeginApply(p, e)
         PROVE  lock \in {Free, p} /\ lock' = p
    BY <2>14 DEF Mac!BeginApply
  <2> QED
    BY <2>1, <2>2, <2>3, <2>4, <2>5, <2>6, <2>7, <2>8, <2>9, <2>10, <2>11, <2>12, <2>13, <2>14
       DEF MacActs, Mac!Step
<1>2. \A q \in Procs \ {p} : pc'[q] = pc[q] /\ held'[q] = held[q]
  BY MacStepProcs DEF MacOwn, Same
<1> QED
  BY <1>1, <1>2, MacConstants DEF Exclusive, Busy

\* One facility is written, or looks are taken.
LEMMA MacWriteIs ==
  ASSUME MacTyped, ForeignLooks, NEW f \in Mac!Facilities, NEW on \in BOOLEAN,
         NEW e \in Ports \cup {Foreign}, NEW S,
         Mac!Write(f, [on |-> on, endpoint |-> e], S)
  PROVE  /\ facility' \in [Mac!Facilities -> [on : BOOLEAN, endpoint : Ports \cup {Foreign}]]
         /\ foreign' \in [Mac!Facilities -> {"none", "unseen", "seen"}]
         /\ facility'[f] = [on |-> on, endpoint |-> e] /\ foreign'[f] = "none"
         /\ \A g \in Mac!Facilities \ {f} : facility'[g] = facility[g] /\ foreign'[g] = foreign[g]
         /\ ForeignLooks'
BY DEF MacTyped, ForeignLooks, Mac!Write

\* The state of a facility that is turned on or off.
LEMMA FacilityIs ==
  ASSUME MacTyped, NEW f \in Mac!Facilities, NEW on \in BOOLEAN
  PROVE  /\ [facility[f] EXCEPT !.on = on] = [on |-> on, endpoint |-> facility[f].endpoint]
         /\ facility[f].endpoint \in Ports \cup {Foreign}
BY DEF MacTyped

\* A facility is read: another program's is now a seen one.
LEMMA LookIs ==
  ASSUME MacTyped, ForeignLooks, NEW S, Mac!Look(S), UNCHANGED facility
  PROVE  /\ foreign' \in [Mac!Facilities -> {"none", "unseen", "seen"}]
         /\ \A g \in Mac!Facilities : foreign'[g] = "none" <=> foreign[g] = "none"
         /\ ForeignLooks' /\ UNCHANGED stolen
BY DEF MacTyped, ForeignLooks, Mac!Look

\* The writes to a facility: a restore turns off the one of its entry, an apply turns
\* on the one it is at.
LEMMA MacWrites ==
  ASSUME MacTyped, Prepared, ForeignLooks, NEW p \in Procs,
         Mac!TurnOff(p) \/ Mac!SetEndpoint(p) \/ Mac!SetOn(p)
  PROVE  \E f \in Mac!Facilities, on \in BOOLEAN, e \in Ports \cup {Foreign} :
           /\ \/ /\ Mac!TurnOff(p) /\ f = work[p].entry.at /\ ~on /\ e = facility[f].endpoint
                 /\ Mac!Write(f, [on |-> on, endpoint |-> e], {f})
              \/ /\ Mac!SetEndpoint(p) /\ f = Mac!Target(p) /\ on /\ e = work[p].port
                 /\ Mac!Write(f, [on |-> on, endpoint |-> e], Mac!AllOf(f[1]))
              \/ /\ Mac!SetOn(p) /\ f = Mac!Target(p) /\ on /\ e = facility[f].endpoint
                 /\ Mac!Write(f, [on |-> on, endpoint |-> e], Mac!AllOf(f[1]))
           /\ UNCHANGED <<journal, forfeited>>
<1>0. Ready(p) /\ work[p] \in MacLocals
  BY DEF Prepared, MacTyped
<1>1. CASE Mac!TurnOff(p)
  <2> DEFINE f == work[p].entry.at
  <2>1. /\ pc[p] = "off" /\ Mac!Write(f, [facility[f] EXCEPT !.on = FALSE], {f})
        /\ UNCHANGED journal
    BY <1>1 DEF Mac!TurnOff
  <2>2. f \in Mac!Facilities
    BY <1>0, <2>1 DEF Ready, MacLocals, Entries
  <2>3. UNCHANGED forfeited
    BY <2>1 DEF Mac!Write
  <2> HIDE DEF f
  <2> QED
    BY <1>1, <2>1, <2>2, <2>3, FacilityIs DEF f
<1>2. CASE Mac!SetEndpoint(p) \/ Mac!SetOn(p)
  <2> DEFINE f == Mac!Target(p)
  <2>1. InFacility(p) /\ UNCHANGED <<journal, forfeited>>
    BY <1>2 DEF Mac!SetEndpoint, Mac!SetOn, InFacility, Mac!Write
  <2>2. f \in Mac!Facilities /\ work[p].port \in Ports
    BY <1>0, <2>1, TargetIn DEF Ready, InFacility, InService
  <2>3. CASE Mac!SetEndpoint(p)
    <3>1. Mac!Write(f, [on |-> TRUE, endpoint |-> work[p].port], Mac!AllOf(f[1]))
      BY <2>3 DEF Mac!SetEndpoint
    <3> QED
      BY <2>1, <2>2, <2>3, <3>1
  <2>4. CASE Mac!SetOn(p)
    <3>1. Mac!Write(f, [facility[f] EXCEPT !.on = TRUE], Mac!AllOf(f[1]))
      BY <2>4 DEF Mac!SetOn
    <3> HIDE DEF f
    <3> QED
      BY <2>1, <2>2, <2>4, <3>1, FacilityIs DEF f
  <2> QED
    BY <1>2, <2>3, <2>4
<1> QED
  BY <1>1, <1>2

\* A journal is saved; those of the other installations stay.
LEMMA SaveIs ==
  ASSUME MacTyped, NEW p \in Procs, NEW entries \in SUBSET Entries, Mac!Save(p, entries)
  PROVE  /\ journal' \in [Channels -> SUBSET Entries] /\ journal'[channel[p]] = entries
         /\ \A c \in Channels \ {channel[p]} : journal'[c] = journal[c]
BY DEF MacTyped, Mac!Save

\* The steps that write neither a facility nor a journal.
LEMMA MacReads ==
  ASSUME NEW p \in Procs,
         \/ Mac!ListServices(p) \/ Mac!ServiceDone(p) \/ Mac!EndApply(p) \/ Mac!BeginClear(p)
         \/ Mac!Fail(p) \/ Mac!Crash(p) \/ \E e \in Ports : Mac!BeginApply(p, e)
  PROVE  UNCHANGED <<facility, journal, foreign, forfeited, stolen>>
BY DEF Mac!ListServices, Mac!ServiceDone, Mac!EndApply, Mac!BeginClear, Mac!Fail, Mac!Crash,
       Mac!BeginApply, Mac!historyVars

\* The steps that look, and those that save a journal.
LEMMA MacLooks ==
  ASSUME NEW p \in Procs,
         Mac!InspectService(p) \/ \E entry \in work[p].owned : Mac!RestoreEntry(p, entry)
  PROVE  /\ \E S : Mac!Look(S)
         /\ UNCHANGED <<facility, journal>>
<1>1. CASE Mac!InspectService(p)
  BY <1>1 DEF Mac!InspectService
<1>2. ASSUME NEW entry \in work[p].owned, Mac!RestoreEntry(p, entry)
      PROVE  (\E S : Mac!Look(S)) /\ UNCHANGED <<facility, journal>>
  BY <1>2 DEF Mac!RestoreEntry
<1> QED
  BY <1>1, <1>2

\* The three steps that save a journal write no facility.
LEMMA MacSaves ==
  ASSUME MacTyped, Prepared, NEW p \in Procs,
         Mac!SaveRestored(p) \/ Mac!ClaimFacility(p) \/ Mac!SettleFacility(p)
  PROVE  /\ journal' \in [Channels -> SUBSET Entries]
         /\ \A c \in Channels \ {channel[p]} : journal'[c] = journal[c]
         /\ UNCHANGED <<facility, foreign, forfeited, stolen>>
<1>0. work[p] \in MacLocals
  BY DEF MacTyped
<1>1. CASE Mac!SaveRestored(p)
  <2>1. work[p].kept \in SUBSET Entries
    BY <1>0 DEF MacLocals
  <2> QED
    BY <1>1, <2>1, SaveIs DEF Mac!SaveRestored, Mac!historyVars
<1>2. CASE Mac!ClaimFacility(p)
  <2> DEFINE owned == work[p].owned \cup {Mac!Entry(Mac!Target(p), work[p].port)}
  <2>1. pc[p] = "claim" /\ work[p].kinds # <<>> /\ (UNCHANGED journal \/ Mac!Save(p, owned))
        /\ UNCHANGED <<facility, foreign, forfeited, stolen>>
    BY <1>2 DEF Mac!ClaimFacility, Mac!historyVars
  <2>2. work[p].port \in Ports /\ work[p].services # <<>>
    BY <2>1 DEF Prepared, Ready, InService
  <2>3. owned \in SUBSET Entries
    BY <1>0, <2>1, <2>2, TargetIn DEF MacLocals, Mac!Entry, Entries
  <2> HIDE DEF owned
  <2>4. UNCHANGED journal => journal' \in [Channels -> SUBSET Entries]
    BY DEF MacTyped
  <2> QED
    BY <2>1, <2>3, <2>4, SaveIs
<1>3. CASE Mac!SettleFacility(p)
  <2> DEFINE owned == {o \in work[p].owned : o.at # Mac!Target(p) \/ o.endpoint = work[p].port}
  <2>1. owned \in SUBSET Entries
    BY <1>0 DEF MacLocals
  <2>2. Mac!Save(p, owned) /\ UNCHANGED <<facility, foreign, forfeited, stolen>>
    BY <1>3 DEF Mac!SettleFacility, Mac!historyVars
  <2> HIDE DEF owned
  <2> QED
    BY <2>1, <2>2, SaveIs
<1> QED
  BY <1>1, <1>2, <1>3

\* The steps of a process.
LEMMA MacCases ==
  ASSUME NEW p \in Procs, MacActs(p)
  PROVE  \/ Mac!TurnOff(p) \/ Mac!SetEndpoint(p) \/ Mac!SetOn(p)
         \/ Mac!InspectService(p) \/ \E entry \in work[p].owned : Mac!RestoreEntry(p, entry)
         \/ Mac!SaveRestored(p) \/ Mac!ClaimFacility(p) \/ Mac!SettleFacility(p)
         \/ Mac!ListServices(p) \/ Mac!ServiceDone(p) \/ Mac!EndApply(p) \/ Mac!BeginClear(p)
         \/ Mac!Fail(p) \/ Mac!Crash(p) \/ \E e \in Ports : Mac!BeginApply(p, e)
BY DEF MacActs, Mac!Step

\* Every step keeps the types of facilities and journals, and what was seen.
LEMMA MacStepWorld ==
  ASSUME MacTyped, Prepared, ForeignLooks, NEW p \in Procs, MacActs(p)
  PROVE  MacTyped' /\ ForeignLooks'
<1>1. MacProcs'
  BY MacStepProcs
<1>2. /\ facility' \in [Mac!Facilities -> [on : BOOLEAN, endpoint : Ports \cup {Foreign}]]
      /\ foreign' \in [Mac!Facilities -> {"none", "unseen", "seen"}]
      /\ journal' \in [Channels -> SUBSET Entries]
      /\ ForeignLooks'
  <2>0. /\ facility \in [Mac!Facilities -> [on : BOOLEAN, endpoint : Ports \cup {Foreign}]]
        /\ foreign \in [Mac!Facilities -> {"none", "unseen", "seen"}]
        /\ journal \in [Channels -> SUBSET Entries]
    BY DEF MacTyped
  <2>1. CASE Mac!TurnOff(p) \/ Mac!SetEndpoint(p) \/ Mac!SetOn(p)
    BY <2>0, <2>1, MacWrites, MacWriteIs
  <2>2. CASE Mac!InspectService(p) \/ \E entry \in work[p].owned : Mac!RestoreEntry(p, entry)
    BY <2>0, <2>2, MacLooks, LookIs
  <2>3. CASE Mac!SaveRestored(p) \/ Mac!ClaimFacility(p) \/ Mac!SettleFacility(p)
    <3>1. journal' \in [Channels -> SUBSET Entries] /\ UNCHANGED <<facility, foreign>>
      BY <2>3, MacSaves
    <3> QED
      BY <2>0, <3>1 DEF ForeignLooks
  <2>4. CASE UNCHANGED <<facility, journal, foreign>>
    BY <2>0, <2>4 DEF ForeignLooks
  <2> QED
    BY <2>1, <2>2, <2>3, <2>4, MacCases, MacReads
<1> QED
  BY <1>1, <1>2 DEF MacTyped, MacProcs

\* A step leaves the other processes where they are.
LEMMA MacOthers ==
  ASSUME MacTyped, Exclusive, NEW p \in Procs, MacOwn(p), NEW q \in Procs \ {p},
         Ready(q), Clear(q), Covers(q)
  PROVE  Ready(q)' /\ Clear(q)' /\ Covers(q)'
<1>0. /\ pc'[q] = pc[q] /\ goal'[q] = goal[q] /\ work'[q] = work[q]
      /\ UNCHANGED channel
  BY DEF MacOwn, Same
<1>1. Ready(q)'
  BY <1>0 DEF Ready, InService, InFacility
<1>2. CASE Busy(p)
  <2>1. ~Busy(q)
    BY <1>2, OthersIdle
  <2> QED
    BY <1>0, <1>1, <2>1 DEF Busy, Clear, Covers, InService, InFacility
<1>3. CASE UNCHANGED <<facility, journal, foreign, forfeited>>
  <2>1. Mac!Mine(q)' = Mac!Mine(q) /\ Mac!Target(q)' = Mac!Target(q)
    BY <1>0, <1>3 DEF Mac!Mine, Mac!Target
  <2> QED
    BY <1>0, <1>1, <1>3, <2>1 DEF Clear, Covers, InService, InFacility, Ours, OwnEntry
<1> QED
  BY <1>2, <1>3 DEF MacOwn

\* Where an apply is at work, and what a restore turns off, is nobody else's.
LEMMA MacStepClear ==
  ASSUME MacTyped, Prepared, ForeignLooks, NEW p \in Procs, MacActs(p), Clear(p), ~stolen
  PROVE  Clear(p)' /\ ~stolen'
<1>0. Ready(p) /\ work[p] \in MacLocals
  BY DEF Prepared, MacTyped
<1>1. ASSUME pc'[p] \notin {"off", "claim", "set", "on", "settle"} PROVE Clear(p)'
  BY <1>1 DEF Clear, InService
<1>2. CASE Mac!TurnOff(p) \/ Mac!SetEndpoint(p) \/ Mac!SetOn(p)
  <2>1. PICK f \in Mac!Facilities, on \in BOOLEAN, e \in Ports \cup {Foreign} :
           \/ /\ Mac!TurnOff(p) /\ f = work[p].entry.at
              /\ Mac!Write(f, [on |-> on, endpoint |-> e], {f})
           \/ /\ Mac!SetEndpoint(p) \/ Mac!SetOn(p)
              /\ f = Mac!Target(p) /\ Mac!Write(f, [on |-> on, endpoint |-> e], Mac!AllOf(f[1]))
    BY <1>2, MacWrites
  <2>2. \A g \in Mac!Facilities : foreign'[g] = "seen" => foreign[g] = "seen"
    BY <2>1, MacWriteIs
  <2>3. CASE Mac!TurnOff(p)
    <3>1. pc[p] = "off" /\ pc'[p] = "restore"
      BY <2>3 DEF Mac!TurnOff, Mac!Goto, MacTyped
    <3>2. foreign[work[p].entry.at] # "seen"
      BY <3>1 DEF Clear
    <3>3. ~(Mac!SetEndpoint(p) \/ Mac!SetOn(p))
      BY <3>1 DEF Mac!SetEndpoint, Mac!SetOn
    <3>4. Mac!Write(f, [on |-> on, endpoint |-> e], {f}) /\ f = work[p].entry.at
      BY <2>1, <3>3
    <3>5. stolen' = (stolen \/ \E g \in {f} : foreign[g] = "seen")
      BY <3>4 DEF Mac!Write
    <3> QED
      BY <1>1, <3>1, <3>2, <3>4, <3>5
  <2>4. CASE Mac!SetEndpoint(p) \/ Mac!SetOn(p)
    <3>1. InFacility(p) /\ InService(p) /\ UNCHANGED work /\ pc'[p] \in {"on", "settle"}
          /\ ~Mac!TurnOff(p)
      BY <2>4 DEF Mac!SetEndpoint, Mac!SetOn, Mac!TurnOff, Mac!Goto, MacTyped, InFacility, InService
    <3>2. f[1] = Head(work[p].services) /\ work[p].services # <<>>
      BY <1>0, <2>1, <3>1, TargetIn DEF Ready
    <3>3. \A g \in Mac!AllOf(f[1]) : foreign[g] # "seen" /\ g \in Mac!Facilities
      <4>1. f[1] \in Mac!ServiceSet
        BY <1>0, <3>2, Ends DEF MacLocals
      <4> QED
        BY <3>1, <3>2, <4>1 DEF Clear, Mac!AllOf, Mac!Facilities
    <3>4. stolen' = (stolen \/ \E g \in Mac!AllOf(f[1]) : foreign[g] = "seen")
      BY <2>1, <3>1 DEF Mac!Write
    <3>5. ~stolen'
      BY <3>3, <3>4
    <3>6. Clear(p)'
      BY <2>2, <3>1, <3>2, <3>3 DEF Clear
    <3> QED
      BY <3>5, <3>6
  <2> QED
    BY <1>2, <2>3, <2>4
<1>3. CASE Mac!InspectService(p)
  <2>1. pc[p] = "service" /\ work[p].services # <<>> /\ UNCHANGED <<facility, stolen>>
        /\ Mac!Look(Mac!AllOf(Head(work[p].services)))
    BY <1>3 DEF Mac!InspectService, Mac!Look
  <2>2. CASE UNCHANGED pc
    BY <1>1, <2>1, <2>2
  <2>3. CASE /\ \A k \in Mac!ToSet(Kinds) : Mac!Usable(p, <<Head(work[p].services), k>>)
             /\ work' = [work EXCEPT ![p].kinds = Kinds] /\ Mac!Goto(p, "claim")
    <3>1. work'[p].services = work[p].services /\ pc'[p] = "claim"
      BY <1>0, <2>3 DEF Mac!Goto, MacTyped, MacLocals
    <3>2. ASSUME NEW g \in Mac!AllOf(Head(work[p].services)) PROVE foreign'[g] # "seen"
      <4>1. Head(work[p].services) \in Mac!ServiceSet
        BY <1>0, <2>1, Ends DEF MacLocals
      <4>2. g \in Mac!Facilities /\ Mac!Usable(p, g)
        BY <2>3, <3>2, <4>1 DEF Mac!AllOf, Mac!Facilities
      <4>3. foreign[g] = "none"
        <5>1. work[p].owned \subseteq Entries
          BY <1>0 DEF MacLocals
        <5>2. Mac!Entry(g, Foreign) \notin work[p].owned
          BY <5>1, MacConstants DEF Entries, Mac!Entry
        <5> QED
          BY <4>2, <5>2 DEF ForeignLooks, Mac!Usable, MacTyped
      <4>4. foreign'[g] = "none" <=> foreign[g] = "none"
        BY <2>1, <4>2, LookIs
      <4> QED
        BY <4>3, <4>4
    <3> QED
      BY <2>1, <3>1, <3>2 DEF Clear
  <2> QED
    BY <1>3, <2>2, <2>3 DEF Mac!InspectService
<1>4. ASSUME NEW entry \in work[p].owned, Mac!RestoreEntry(p, entry)
      PROVE  Clear(p)' /\ ~stolen'
  <2>1. pc[p] = "restore" /\ UNCHANGED <<facility, stolen>> /\ Mac!Look({entry.at})
    BY <1>4 DEF Mac!RestoreEntry, Mac!Look
  <2>2. entry \in Entries /\ entry.at \in Mac!Facilities /\ entry.endpoint \in Ports
    BY <1>0 DEF MacLocals, Entries
  <2>3. CASE UNCHANGED pc
    BY <1>1, <2>1, <2>3
  <2>4. CASE /\ facility[entry.at] = [on |-> TRUE, endpoint |-> entry.endpoint]
             /\ Mac!Goto(p, "off") /\ work' = [work EXCEPT ![p].entry = entry]
    <3>1. work'[p].entry = entry /\ pc'[p] = "off"
      BY <1>0, <2>4 DEF Mac!Goto, MacTyped, MacLocals
    <3>2. foreign[entry.at] = "none"
      BY <2>2, <2>4, MacConstants DEF ForeignLooks
    <3>3. foreign'[entry.at] = "none"
      BY <2>1, <2>2, <3>2, LookIs
    <3> QED
      BY <2>1, <3>1, <3>3 DEF Clear, InService
  <2> QED
    BY <1>4, <2>3, <2>4 DEF Mac!RestoreEntry
<1>5. CASE Mac!ClaimFacility(p) \/ Mac!SettleFacility(p)
  <2>1. InService(p) /\ pc'[p] \in {"claim", "set"} /\ UNCHANGED <<foreign, stolen>>
    BY <1>5 DEF Mac!ClaimFacility, Mac!SettleFacility, Mac!historyVars, Mac!Goto, MacTyped, InService
  <2>2. work'[p].services = work[p].services
    <3>1. CASE Mac!ClaimFacility(p)
      BY <3>1 DEF Mac!ClaimFacility, MacTyped, MacLocals
    <3>2. CASE Mac!SettleFacility(p)
      BY <3>2 DEF Mac!SettleFacility, MacTyped, MacLocals
    <3> QED
      BY <1>5, <3>1, <3>2
  <2> QED
    BY <2>1, <2>2 DEF Clear
<1>6. CASE Mac!SaveRestored(p)
  <2>1. Mac!AfterRestore(p, work[p].failed) /\ UNCHANGED <<stolen, channel>>
        /\ work[p].failed \in BOOLEAN
    BY <1>0, <1>6 DEF Mac!SaveRestored, Mac!historyVars, MacLocals
  <2> QED
    BY <1>1, <2>1, MacRestored
<1>7. CASE \/ Mac!ListServices(p) \/ Mac!ServiceDone(p) \/ Mac!EndApply(p) \/ Mac!BeginClear(p)
           \/ Mac!Fail(p) \/ Mac!Crash(p) \/ \E e \in Ports : Mac!BeginApply(p, e)
  <2>1. UNCHANGED stolen
    BY <1>7, MacReads
  <2>2. pc'[p] \notin {"off", "claim", "set", "on", "settle"}
    <3>1. CASE Mac!Fail(p)
      BY <3>1, MacFail
    <3>2. CASE \/ Mac!ListServices(p) \/ Mac!ServiceDone(p) \/ Mac!EndApply(p) \/ Mac!Crash(p)
               \/ \E e \in Ports : Mac!BeginApply(p, e)
      BY <3>2 DEF Mac!ListServices, Mac!ServiceDone, Mac!EndApply, Mac!Crash, Mac!BeginApply,
                  Mac!Finish, Mac!Goto, MacTyped
    <3>3. CASE Mac!BeginClear(p)
      BY <3>3 DEF Mac!BeginClear, Mac!StartRestore, Mac!Goto, MacTyped
    <3> QED
      BY <1>7, <3>1, <3>2, <3>3
  <2> QED
    BY <1>1, <2>1, <2>2
<1> QED
  BY <1>2, <1>3, <1>4, <1>5, <1>6, <1>7, MacCases

\* The property, facility by facility.
LEMMA JournaledIs ==
  Mac!OwnedIsJournaled <=>
    \A f \in Mac!Facilities :
      Ours(f) => OwnEntry(f) \in forfeited \/ \E c \in Channels : OwnEntry(f) \in journal[c]
BY DEF Mac!OwnedIsJournaled, Ours, OwnEntry

\* An entry of a facility that is on is that of no other facility.
LEMMA OwnEntryIs ==
  ASSUME MacTyped, NEW f \in Mac!Facilities
  PROVE  /\ OwnEntry(f).at = f /\ OwnEntry(f).endpoint = facility[f].endpoint
         /\ Ours(f) => facility[f] = [on |-> TRUE, endpoint |-> OwnEntry(f).endpoint]
BY DEF MacTyped, OwnEntry, Ours, Mac!Entry

\* What a save of this process's journal keeps.
LEMMA SaveKeeps ==
  ASSUME MacTyped, NEW p \in Procs, Mac!OwnedIsJournaled, UNCHANGED <<facility, forfeited>>,
         \A c \in Channels \ {channel[p]} : journal'[c] = journal[c],
         \A f \in Mac!Facilities : Ours(f) /\ OwnEntry(f) \in journal[channel[p]] =>
                                     OwnEntry(f) \in journal'[channel[p]] \cup forfeited
  PROVE  Mac!OwnedIsJournaled'
<1>1. channel[p] \in Channels
  BY DEF MacTyped
<1>2. ASSUME NEW f \in Mac!Facilities, Ours(f)
      PROVE  OwnEntry(f) \in forfeited \/ \E c \in Channels : OwnEntry(f) \in journal'[c]
  <2>1. OwnEntry(f) \in forfeited \/ \E c \in Channels : OwnEntry(f) \in journal[c]
    BY <1>2, JournaledIs
  <2> QED
    BY <1>1, <1>2, <2>1
<1> QED
  BY <1>2 DEF Mac!OwnedIsJournaled, Ours, OwnEntry

\* Every step keeps an entry for each facility that the client turned on.
LEMMA MacStepCovers ==
  ASSUME MacTyped, Prepared, ForeignLooks, NEW p \in Procs, MacActs(p), Covers(p),
         Mac!OwnedIsJournaled
  PROVE  Covers(p)' /\ Mac!OwnedIsJournaled'
<1>0. /\ Ready(p) /\ work[p] \in MacLocals /\ UNCHANGED channel /\ channel[p] \in Channels
      /\ Mac!Mine(p) = journal[channel[p]] /\ Mac!Mine(p)' = journal'[channel[p]]
      /\ MacProcs' /\ MacTyped'
  BY MacStepProcs, MacStepWorld DEF Prepared, MacTyped, MacOwn, Mac!Mine
<1>1. ASSUME pc'[p] \notin {"restore", "off", "list", "service", "claim", "set", "on", "settle"}
      PROVE  Covers(p)'
  BY <1>1 DEF Covers, InService, InFacility
<1>2. CASE Mac!TurnOff(p)
  <2> DEFINE f == work[p].entry.at
  <2>1. /\ pc[p] = "off" /\ pc'[p] = "restore" /\ Mac!Forget(p, work[p].entry)
        /\ Mac!Write(f, [facility[f] EXCEPT !.on = FALSE], {f}) /\ UNCHANGED <<journal, forfeited>>
    BY <1>2 DEF Mac!TurnOff, Mac!Goto, Mac!Write, MacTyped
  <2>2. work[p].entry \in Entries /\ f \in Mac!Facilities
    BY <1>0, <2>1 DEF Ready, MacLocals, Entries
  <2>3. work'[p].owned = work[p].owned \ {work[p].entry} /\ work'[p].kept = work[p].kept
    BY <2>1, <2>2, ForgetIs
  <2>4. ~facility'[f].on /\ \A g \in Mac!Facilities \ {f} : facility'[g] = facility[g]
    <3>1. facility' = [facility EXCEPT ![f] = [facility[f] EXCEPT !.on = FALSE]]
      BY <2>1 DEF Mac!Write
    <3> HIDE DEF f
    <3>2. facility'[f].on = FALSE
      BY <2>2, <3>1, FacilityIs DEF MacTyped
    <3> QED
      BY <2>2, <3>1, <3>2 DEF MacTyped
  <2>5. ASSUME NEW g \in Mac!Facilities, Ours(g)'
        PROVE  Ours(g) /\ OwnEntry(g)' = OwnEntry(g) /\ OwnEntry(g) # work[p].entry
    <3>1. g # f
      BY <2>4, <2>5 DEF Ours
    <3> QED
      BY <2>4, <2>5, <3>1, OwnEntryIs DEF Ours, OwnEntry
  <2>6. Mac!OwnedIsJournaled'
    BY <2>1, <2>5 DEF Mac!OwnedIsJournaled, Ours, OwnEntry
  <2>7. Covers(p)'
    BY <1>0, <2>1, <2>3, <2>5 DEF Covers, InService, InFacility
  <2> QED
    BY <2>6, <2>7
<1>3. CASE Mac!SetEndpoint(p) \/ Mac!SetOn(p)
  <2> DEFINE f == Mac!Target(p)
  <2>1. /\ InFacility(p) /\ InService(p) /\ UNCHANGED <<work, journal, forfeited>>
        /\ pc'[p] \in {"on", "settle"} /\ ~Mac!TurnOff(p)
    BY <1>3 DEF Mac!SetEndpoint, Mac!SetOn, Mac!TurnOff, Mac!Goto, Mac!Write, MacTyped,
                InFacility, InService
  <2>2. /\ f \in Mac!Facilities /\ work[p].port \in Ports
        /\ Mac!Entry(f, work[p].port) \in journal[channel[p]]
        /\ work[p].owned = journal[channel[p]]
    BY <1>0, <2>1, TargetIn DEF Ready, Covers
  <2>3. /\ facility'[f].endpoint \in {work[p].port, Foreign}
        /\ \A g \in Mac!Facilities \ {f} : facility'[g] = facility[g]
    <3>1. PICK e \in Ports \cup {Foreign}, on \in BOOLEAN :
             /\ Mac!Write(f, [on |-> on, endpoint |-> e], Mac!AllOf(f[1]))
             /\ \/ Mac!SetEndpoint(p) /\ e = work[p].port
                \/ Mac!SetOn(p) /\ e = facility[f].endpoint
      BY <1>3, <2>1, MacWrites
    <3>2. e \in {work[p].port, Foreign}
      BY <3>1 DEF Covers, Mac!SetOn
    <3> HIDE DEF f
    <3> QED
      BY <2>2, <3>1, <3>2, MacWriteIs
  <2>4. ASSUME NEW g \in Mac!Facilities, Ours(g)'
        PROVE  OwnEntry(g)' \in forfeited \/ \E c \in Channels : OwnEntry(g)' \in journal[c]
    <3>1. CASE g = f
      <4>1. facility'[g].endpoint = work[p].port
        BY <2>3, <2>4, <3>1, MacConstants DEF Ours
      <4> QED
        BY <1>0, <2>2, <3>1, <4>1 DEF OwnEntry
    <3>2. CASE g # f
      <4>1. Ours(g) /\ OwnEntry(g)' = OwnEntry(g)
        BY <2>3, <2>4, <3>2 DEF Ours, OwnEntry
      <4> QED
        BY <4>1, JournaledIs
    <3> QED
      BY <3>1, <3>2
  <2>5. Mac!OwnedIsJournaled'
    BY <2>1, <2>4 DEF Mac!OwnedIsJournaled, Ours, OwnEntry
  <2>6. Mac!Target(p)' = f
    BY <2>1 DEF Mac!Target
  <2>7. Covers(p)'
    BY <1>0, <2>1, <2>2, <2>3, <2>6 DEF Covers, InService, InFacility
  <2> QED
    BY <2>5, <2>7
<1>4. CASE Mac!InspectService(p)
  <2>1. pc[p] = "service" /\ pc'[p] \in {"service", "claim"}
        /\ UNCHANGED <<facility, journal, forfeited>>
    BY <1>4 DEF Mac!InspectService, Mac!Goto, MacTyped
  <2>2. work'[p].owned = work[p].owned
    BY <1>0, <1>4 DEF Mac!InspectService, MacTyped, MacLocals
  <2>3. Covers(p)'
    BY <1>0, <2>1, <2>2 DEF Covers, InService, InFacility
  <2> QED
    BY <2>1, <2>3 DEF Mac!OwnedIsJournaled
<1>5. ASSUME NEW entry \in work[p].owned, Mac!RestoreEntry(p, entry)
      PROVE  Covers(p)' /\ Mac!OwnedIsJournaled'
  <2>1. /\ pc[p] = "restore" /\ pc'[p] \in {"restore", "off"} /\ UNCHANGED <<facility, journal>>
        /\ forfeited \subseteq forfeited'
    BY <1>5 DEF Mac!RestoreEntry, Mac!Goto, MacTyped
  <2>2. Mac!OwnedIsJournaled'
    BY <2>1 DEF Mac!OwnedIsJournaled
  <2>3. ASSUME NEW f \in Mac!Facilities, Ours(f), OwnEntry(f) \in Mac!Mine(p)
        PROVE  OwnEntry(f) \in work'[p].owned \cup work'[p].kept \cup forfeited'
    <3>1. OwnEntry(f) \in work[p].owned \cup work[p].kept \cup forfeited
      BY <2>1, <2>3 DEF Covers
    <3>2. entry \in Entries
      BY <1>0 DEF MacLocals
    <3>3. CASE Mac!Forget(p, entry) /\ entry \in forfeited'
      <4>1. work'[p].owned = work[p].owned \ {entry} /\ work'[p].kept = work[p].kept
        BY <3>2, <3>3, ForgetIs
      <4> QED
        BY <2>1, <3>1, <3>3, <4>1
    <3>4. CASE /\ Mac!Forget(p, entry)
               /\ facility[entry.at] # [on |-> TRUE, endpoint |-> entry.endpoint]
      <4>1. work'[p].owned = work[p].owned \ {entry} /\ work'[p].kept = work[p].kept
        BY <3>2, <3>4, ForgetIs
      <4>2. OwnEntry(f) # entry
        BY <2>3, <3>4, OwnEntryIs
      <4> QED
        BY <2>1, <3>1, <4>1, <4>2
    <3>5. CASE work' = [work EXCEPT ![p].entry = entry]
      <4>1. work'[p].owned = work[p].owned /\ work'[p].kept = work[p].kept
        BY <1>0, <3>5 DEF MacTyped, MacLocals
      <4> QED
        BY <2>1, <3>1, <4>1
    <3> QED
      BY <1>5, <3>3, <3>4, <3>5 DEF Mac!RestoreEntry
  <2>4. Covers(p)'
    BY <1>0, <2>1, <2>3 DEF Covers, InService, InFacility, Ours, OwnEntry
  <2> QED
    BY <2>2, <2>4
<1>6. CASE Mac!SaveRestored(p)
  <2>1. /\ pc[p] = "restore" /\ work[p].owned = {} /\ Mac!Save(p, work[p].kept)
        /\ Mac!AfterRestore(p, work[p].failed) /\ work[p].failed \in BOOLEAN
        /\ UNCHANGED <<facility, forfeited>>
    BY <1>0, <1>6 DEF Mac!SaveRestored, Mac!historyVars, MacLocals
  <2>2. /\ journal'[channel[p]] = work[p].kept
        /\ \A c \in Channels \ {channel[p]} : journal'[c] = journal[c]
    BY <1>0, <2>1, SaveIs DEF MacLocals
  <2>3. Mac!OwnedIsJournaled'
    BY <1>0, <2>1, <2>2, SaveKeeps DEF Covers
  <2>4. pc'[p] = "idle" \/ (pc'[p] = "list" /\ work'[p].owned = work[p].kept)
    BY <1>0, <2>1, MacRestored
  <2>5. Covers(p)'
    BY <1>0, <1>1, <2>2, <2>4 DEF Covers, InService, InFacility
  <2> QED
    BY <2>3, <2>5
<1>7. CASE Mac!ClaimFacility(p)
  <2> DEFINE entry == Mac!Entry(Mac!Target(p), work[p].port)
             owned == work[p].owned \cup {entry}
  <2>1. /\ pc[p] = "claim" /\ pc'[p] = "set" /\ work[p].kinds # <<>>
        /\ IF entry \in work[p].owned THEN UNCHANGED journal ELSE Mac!Save(p, owned)
        /\ work' = [work EXCEPT ![p] = [@ EXCEPT !.attempted = TRUE, !.owned = owned]]
        /\ UNCHANGED <<facility, forfeited>>
    BY <1>7 DEF Mac!ClaimFacility, Mac!historyVars, Mac!Goto, MacTyped
  <2>2. work[p].port \in Ports /\ work[p].services # <<>> /\ work[p].owned = journal[channel[p]]
    BY <1>0, <2>1 DEF Ready, InService, Covers
  <2>3. owned \in SUBSET Entries
    BY <1>0, <2>1, <2>2, TargetIn DEF MacLocals, Mac!Entry, Entries
  <2>4. /\ work'[p].owned = owned /\ work'[p].port = work[p].port
        /\ work'[p].services = work[p].services /\ work'[p].kinds = work[p].kinds
    <3> HIDE DEF owned
    <3> QED
      BY <2>1, <2>3, ClaimIs
  <2>5. /\ journal'[channel[p]] = owned
        /\ \A c \in Channels \ {channel[p]} : journal'[c] = journal[c]
    <3>1. CASE entry \in work[p].owned
      BY <2>1, <2>2, <3>1
    <3>2. CASE entry \notin work[p].owned
      <4>1. Mac!Save(p, owned)
        BY <2>1, <3>2
      <4> HIDE DEF owned
      <4> QED
        BY <2>3, <4>1, SaveIs
    <3> QED
      BY <3>1, <3>2
  <2>6. Mac!OwnedIsJournaled'
    BY <2>1, <2>2, <2>5, SaveKeeps
  <2>7. Mac!Target(p)' = Mac!Target(p)
    BY <2>4 DEF Mac!Target
  <2>8. Covers(p)'
    BY <1>0, <2>1, <2>4, <2>5, <2>7 DEF Covers, InService, InFacility
  <2> QED
    BY <2>6, <2>8
<1>8. CASE Mac!SettleFacility(p)
  <2> DEFINE f == Mac!Target(p)
             owned == {o \in work[p].owned : o.at # f \/ o.endpoint = work[p].port}
  <2>1. /\ pc[p] = "settle" /\ pc'[p] = "claim" /\ Mac!Save(p, owned)
        /\ work' = [work EXCEPT ![p] = [@ EXCEPT !.owned = owned, !.kinds = Tail(work[p].kinds)]]
        /\ UNCHANGED <<facility, forfeited>>
    BY <1>8 DEF Mac!SettleFacility, Mac!historyVars, Mac!Goto, MacTyped
  <2>2. /\ work[p].kinds # <<>> /\ facility[f].endpoint \in {work[p].port, Foreign}
        /\ work[p].owned = journal[channel[p]]
    BY <1>0, <2>1 DEF Ready, InFacility, InService, Covers
  <2>3. owned \in SUBSET Entries
    BY <1>0 DEF MacLocals
  <2>4. ASSUME NEW g \in Mac!Facilities, Ours(g), OwnEntry(g) \in journal[channel[p]]
        PROVE  OwnEntry(g) \in owned
    <3>1. OwnEntry(g) \in work[p].owned /\ OwnEntry(g).at = g
          /\ OwnEntry(g).endpoint = facility[g].endpoint /\ facility[g].endpoint \in Ports
      BY <2>2, <2>4, OwnEntryIs DEF Ours
    <3>2. g = f => OwnEntry(g).endpoint = work[p].port
      BY <2>2, <3>1, MacConstants
    <3> HIDE DEF f
    <3> QED
      BY <3>1, <3>2
  <2> HIDE DEF owned, f
  <2>5. work'[p].owned = owned
    BY <2>1, <2>2, <2>3, SettleIs
  <2>6. /\ journal'[channel[p]] = owned
        /\ \A c \in Channels \ {channel[p]} : journal'[c] = journal[c]
    BY <2>1, <2>3, SaveIs
  <2>7. Mac!OwnedIsJournaled'
    BY <2>1, <2>4, <2>6, SaveKeeps
  <2>8. Covers(p)'
    BY <1>0, <2>1, <2>5, <2>6 DEF Covers, InService, InFacility
  <2> QED
    BY <2>7, <2>8
<1>9. CASE \/ Mac!ListServices(p) \/ Mac!ServiceDone(p) \/ Mac!EndApply(p) \/ Mac!BeginClear(p)
           \/ Mac!Fail(p) \/ Mac!Crash(p) \/ \E e \in Ports : Mac!BeginApply(p, e)
  <2>1. UNCHANGED <<facility, journal, forfeited>>
    BY <1>9, MacReads
  <2> SUFFICES Covers(p)'
    BY <2>1 DEF Mac!OwnedIsJournaled
  <2>3. ASSUME pc'[p] = "restore", Mac!Mine(p) \subseteq work'[p].owned
        PROVE  Covers(p)'
    BY <1>0, <2>1, <2>3 DEF Covers, InService, InFacility
  <2>4. ASSUME pc'[p] \in {"list", "service"}, work'[p].owned = Mac!Mine(p)
        PROVE  Covers(p)'
    BY <1>0, <2>1, <2>4 DEF Covers, InService, InFacility
  <2>5. CASE Mac!ListServices(p) \/ Mac!ServiceDone(p)
    <3>1. pc[p] \in {"list", "claim"} /\ pc'[p] = "service"
      BY <2>5 DEF Mac!ListServices, Mac!ServiceDone, Mac!Goto, MacTyped
    <3>2. work'[p].owned = work[p].owned
      <4>1. CASE Mac!ListServices(p)
        BY <1>0, <4>1 DEF Mac!ListServices, MacTyped, MacLocals
      <4>2. CASE Mac!ServiceDone(p)
        BY <1>0, <4>2 DEF Mac!ServiceDone, MacTyped, MacLocals
      <4> QED
        BY <2>5, <4>1, <4>2
    <3> QED
      BY <2>4, <3>1, <3>2 DEF Covers, InService
  <2>6. CASE Mac!EndApply(p) \/ Mac!Crash(p)
    <3>1. pc'[p] \in {"idle", "down"}
      BY <2>6 DEF Mac!EndApply, Mac!Crash, Mac!Finish, Mac!Goto, MacTyped
    <3> QED
      BY <1>1, <3>1
  <2>7. CASE Mac!BeginClear(p)
    <3>1. CASE Mac!Goto(p, "idle")
      BY <1>1, <3>1 DEF Mac!Goto, MacTyped
    <3>2. CASE Mac!StartRestore(p, "clear", Mac!Mine(p), ~held[p])
      <4>1. Mac!Mine(p) \in SUBSET Entries /\ (~held[p]) \in BOOLEAN
        BY DEF MacTyped, Mac!Mine
      <4>2. pc' = [pc EXCEPT ![p] = "restore"] /\ work'[p].owned = Mac!Mine(p)
        BY <3>2, <4>1, StartRestoreIs
      <4> QED
        BY <2>3, <4>2 DEF MacTyped
    <3> QED
      BY <2>7, <3>1, <3>2 DEF Mac!BeginClear
  <2>8. CASE Mac!Fail(p)
    <3>1. CASE pc'[p] = "idle"
      BY <1>1, <3>1
    <3>2. CASE /\ pc'[p] = "restore"
               /\ pc[p] \in {"list"} \/ InService(p)
               /\ work[p].owned \subseteq work'[p].owned
      <4>1. work[p].owned = Mac!Mine(p)
        BY <3>2 DEF Covers
      <4> QED
        BY <2>3, <3>2, <4>1
    <3>3. CASE /\ pc'[p] = "restore" /\ pc[p] \in {"restore", "off"}
               /\ work[p].owned \subseteq work'[p].owned \cup work'[p].kept
               /\ work[p].kept \subseteq work'[p].kept
      <4>1. ASSUME NEW f \in Mac!Facilities, Ours(f), OwnEntry(f) \in Mac!Mine(p)
            PROVE  OwnEntry(f) \in work'[p].owned \cup work'[p].kept \cup forfeited
        <5>1. OwnEntry(f) \in work[p].owned \cup work[p].kept \cup forfeited
          BY <3>3, <4>1 DEF Covers
        <5> QED
          BY <3>3, <5>1
      <4> QED
        BY <1>0, <2>1, <3>3, <4>1 DEF Covers, InService, InFacility, Ours, OwnEntry
    <3> QED
      BY <2>8, <3>1, <3>2, <3>3, MacFail
  <2>9. ASSUME NEW e \in Ports, Mac!BeginApply(p, e)
        PROVE  Covers(p)'
    <3>1. work'[p].owned = Mac!Mine(p)
      BY <2>9, BeginApplyIs
    <3>2. pc'[p] \in {"restore", "list"}
      BY <2>9 DEF Mac!BeginApply, Mac!Goto, MacTyped
    <3> QED
      BY <2>3, <2>4, <3>1, <3>2
  <2> QED
    BY <1>9, <2>5, <2>6, <2>7, <2>8, <2>9
<1> QED
  BY <1>2, <1>3, <1>4, <1>5, <1>6, <1>7, <1>8, <1>9, MacCases

-----------------------------------------------------------------------------
(* macOS: the invariant.                                                   *)

\* The invariant, process by process.
LEMMA MacInvIs ==
  MacInv <=> /\ MacTyped /\ Exclusive /\ ForeignLooks /\ ~stolen /\ Mac!OwnedIsJournaled
             /\ \A p \in Procs : Ready(p) /\ Clear(p) /\ Covers(p)
BY DEF MacInv, Prepared, Unseen, Covered, Mac!ForeignServiceKept

\* Every step of a process keeps the invariant.
LEMMA MacProcStep ==
  ASSUME MacInv, NEW p \in Procs, MacActs(p)
  PROVE  MacInv'
<1>1. /\ MacTyped /\ Exclusive /\ Prepared /\ ForeignLooks /\ ~stolen /\ Mac!OwnedIsJournaled
      /\ \A q \in Procs : Ready(q) /\ Clear(q) /\ Covers(q)
  BY MacInvIs DEF MacInv
<1>2. /\ MacTyped' /\ ForeignLooks' /\ Exclusive' /\ MacOwn(p)
      /\ Ready(p)' /\ Clear(p)' /\ Covers(p)' /\ ~stolen' /\ Mac!OwnedIsJournaled'
  BY <1>1, MacStepProcs, MacStepWorld, MacStepExclusive, MacStepClear, MacStepCovers
<1>3. \A q \in Procs \ {p} : Ready(q)' /\ Clear(q)' /\ Covers(q)'
  BY <1>1, <1>2, MacOthers
<1>4. \A q \in Procs : Ready(q)' /\ Clear(q)' /\ Covers(q)'
  BY <1>2, <1>3
<1> QED
  BY <1>2, <1>4 DEF MacInv, Prepared, Unseen, Covered, Mac!ForeignServiceKept

\* Another program enables a facility or turns one off, or listens on a port.
LEMMA MacEdit ==
  ASSUME MacInv, Mac!Edit
  PROVE  MacInv'
<1>1. /\ MacTyped /\ Exclusive /\ ForeignLooks /\ ~stolen /\ Mac!OwnedIsJournaled
      /\ \A q \in Procs : Ready(q) /\ Clear(q) /\ Covers(q)
  BY MacInvIs
<1>2. UNCHANGED <<journal, lock, channel, held, pc, goal, work, forfeited, stolen>>
  BY DEF Mac!Edit, Mac!procVars
<1>3. \/ UNCHANGED <<facility, foreign>>
      \/ \E f \in Mac!Facilities :
           /\ \/ facility' = [facility EXCEPT ![f] = [on |-> TRUE, endpoint |-> Foreign]]
                 /\ foreign' = [foreign EXCEPT ![f] = "unseen"]
              \/ facility' = [facility EXCEPT ![f].on = FALSE]
                 /\ foreign' = [foreign EXCEPT ![f] = "none"]
  BY DEF Mac!Edit
<1> DEFINE FacilityTyped ==
             /\ facility' \in [Mac!Facilities -> [on : BOOLEAN, endpoint : Ports \cup {Foreign}]]
             /\ foreign' \in [Mac!Facilities -> {"none", "unseen", "seen"}]
           Edited ==
             \A g \in Mac!Facilities :
               /\ foreign'[g] = "seen" => foreign[g] = "seen"
               /\ facility'[g].endpoint \in {facility[g].endpoint, Foreign}
               /\ facility'[g].on /\ facility'[g].endpoint \in Ports => facility'[g] = facility[g]
<1>4. FacilityTyped /\ Edited /\ ForeignLooks'
  <2>1. CASE UNCHANGED <<facility, foreign>>
    BY <1>1, <2>1 DEF MacTyped, ForeignLooks
  <2>2. ASSUME NEW f \in Mac!Facilities, NEW v \in [on : BOOLEAN, endpoint : Ports \cup {Foreign}],
               NEW w \in {"none", "unseen"}, facility' = [facility EXCEPT ![f] = v],
               foreign' = [foreign EXCEPT ![f] = w],
               \/ v = [on |-> TRUE, endpoint |-> Foreign]
               \/ ~v.on /\ v.endpoint = facility[f].endpoint /\ w = "none"
        PROVE  FacilityTyped /\ Edited /\ ForeignLooks'
    <3>1. FacilityTyped
      BY <1>1, <2>2 DEF MacTyped
    <3>2. Edited
      BY <1>1, <2>2, MacConstants DEF MacTyped
    <3>3. ForeignLooks'
      BY <1>1, <2>2 DEF MacTyped, ForeignLooks
    <3> QED
      BY <3>1, <3>2, <3>3
  <2> HIDE DEF FacilityTyped, Edited
  <2>3. ASSUME NEW f \in Mac!Facilities
        PROVE  /\ [on |-> TRUE, endpoint |-> Foreign] \in [on : BOOLEAN, endpoint : Ports \cup {Foreign}]
               /\ [facility[f] EXCEPT !.on = FALSE] \in [on : BOOLEAN, endpoint : Ports \cup {Foreign}]
               /\ ~[facility[f] EXCEPT !.on = FALSE].on
               /\ [facility[f] EXCEPT !.on = FALSE].endpoint = facility[f].endpoint
    BY <1>1 DEF MacTyped
  <2>4. ASSUME NEW f \in Mac!Facilities,
               facility' = [facility EXCEPT ![f] = [on |-> TRUE, endpoint |-> Foreign]],
               foreign' = [foreign EXCEPT ![f] = "unseen"]
        PROVE  FacilityTyped /\ Edited /\ ForeignLooks'
    BY <2>2, <2>3, <2>4
  <2>5. ASSUME NEW f \in Mac!Facilities,
               facility' = [facility EXCEPT ![f] = [facility[f] EXCEPT !.on = FALSE]],
               foreign' = [foreign EXCEPT ![f] = "none"]
        PROVE  FacilityTyped /\ Edited /\ ForeignLooks'
    BY <2>2, <2>3, <2>5
  <2> QED
    BY <1>3, <2>1, <2>4, <2>5
<1>5. MacTyped' /\ Exclusive' /\ ~stolen'
  BY <1>1, <1>2, <1>4 DEF MacTyped, Exclusive, Busy
<1>6. Mac!OwnedIsJournaled'
  BY <1>1, <1>2, <1>4 DEF Mac!OwnedIsJournaled, Ours
<1>7. ASSUME NEW p \in Procs
      PROVE  Ready(p)' /\ Clear(p)' /\ Covers(p)'
  <2>1. Ready(p)'
    BY <1>1, <1>2 DEF Ready, InService, InFacility
  <2>2. work[p] \in MacLocals /\ Ready(p)
    BY <1>1 DEF MacTyped
  <2>3. Clear(p)'
    <3>1. pc[p] = "off" => work[p].entry.at \in Mac!Facilities
      BY <2>2 DEF Ready, MacLocals, Entries
    <3>2. InService(p) => \A g \in Mac!AllOf(Head(work[p].services)) : g \in Mac!Facilities
      BY <2>2, Ends DEF Ready, MacLocals, Mac!AllOf, Mac!Facilities
    <3> QED
      BY <1>1, <1>2, <1>4, <3>1, <3>2 DEF Clear, InService
  <2>4. Covers(p)'
    <3>1. Mac!Mine(p)' = Mac!Mine(p) /\ Mac!Target(p)' = Mac!Target(p)
      BY <1>2 DEF Mac!Mine, Mac!Target
    <3>2. InFacility(p) => Mac!Target(p) \in Mac!Facilities
      BY <1>1, <2>2, TargetIn DEF Ready, InFacility, InService
    <3>3. pc[p] \in {"on", "settle"} =>
            facility'[Mac!Target(p)].endpoint \in {work[p].port, Foreign}
      BY <1>1, <1>4, <3>2 DEF Covers, InFacility
    <3>4. ASSUME NEW f \in Mac!Facilities, Ours(f)'
          PROVE  Ours(f) /\ OwnEntry(f)' = OwnEntry(f)
      BY <1>4, <3>4 DEF Ours, OwnEntry
    <3> QED
      BY <1>1, <1>2, <3>1, <3>3, <3>4 DEF Covers, InService, InFacility
  <2> QED
    BY <2>1, <2>3, <2>4
<1> QED
  BY <1>4, <1>5, <1>6, <1>7 DEF MacInv, Prepared, Unseen, Covered, Mac!ForeignServiceKept

\* At first every facility is off and no journal exists.
LEMMA MacInit ==
  ASSUME Mac!Init
  PROVE  MacInv
<1>1. /\ facility \in [Mac!Facilities -> {Mac!Off}] /\ journal = [c \in Channels |-> {}]
      /\ channel \in [Procs -> Channels] /\ held = [p \in Procs |-> FALSE]
      /\ pc = [p \in Procs |-> "down"] /\ goal = [p \in Procs |-> "none"]
      /\ work = [p \in Procs |-> Mac!Idle] /\ foreign = [f \in Mac!Facilities |-> "none"]
      /\ stolen = FALSE
  BY DEF Mac!Init
<1>2. MacTyped
  <2>1. Mac!Off \in [on : BOOLEAN, endpoint : Ports \cup {Foreign}]
    BY DEF Mac!Off
  <2>2. facility \in [Mac!Facilities -> [on : BOOLEAN, endpoint : Ports \cup {Foreign}]]
    BY <1>1, <2>1
  <2>3. /\ foreign \in [Mac!Facilities -> {"none", "unseen", "seen"}]
        /\ journal \in [Channels -> SUBSET Entries] /\ held \in [Procs -> BOOLEAN]
    BY <1>1
  <2>4. pc \in [Procs -> MacSteps] /\ goal \in [Procs -> MacGoals]
    BY <1>1 DEF MacSteps, MacGoals
  <2>5. work \in [Procs -> MacLocals]
    BY <1>1, IdleTyped
  <2> QED
    BY <1>1, <2>2, <2>3, <2>4, <2>5 DEF MacTyped
<1>3. Exclusive /\ ForeignLooks
  BY <1>1 DEF Exclusive, Busy, ForeignLooks
<1>4. Mac!OwnedIsJournaled
  BY <1>1 DEF Mac!OwnedIsJournaled, Mac!Off
<1>5. Prepared /\ Unseen /\ Covered
  BY <1>1 DEF Prepared, Unseen, Covered, Ready, Clear, Covers, InService, InFacility
<1> QED
  BY <1>1, <1>2, <1>3, <1>4, <1>5 DEF MacInv, Mac!ForeignServiceKept

\* Every step on macOS, the edits of other programs included, keeps the invariant.
LEMMA MacNext ==
  ASSUME MacInv, Mac!Next
  PROVE  MacInv'
BY MacProcStep, MacEdit DEF Mac!Next, MacActs

-----------------------------------------------------------------------------
(* Both platforms.                                                         *)

\* One behaviour is on one platform, whose invariant it keeps.
Inv ==
  /\ platform \in {"windows", "macos"}
  /\ platform = "windows" => WinInv
  /\ platform = "macos" => MacInv

\* On either platform the inductive invariant of its lease holds of every state.
THEOREM Invariance == Spec => []Inv
<1>1. Init => Inv
  BY WinInit, MacInit DEF Init, Inv
<1>2. Inv /\ [Next]_vars => Inv'
  <2> SUFFICES ASSUME Inv, [Next]_vars PROVE Inv'
    OBVIOUS
  <2>1. CASE WindowsStep
    BY <2>1, WinNext DEF Inv, WindowsStep
  <2>2. CASE MacStep
    <3>1. platform = "macos" /\ Mac!Next /\ platform' = platform
      BY <2>2 DEF MacStep
    <3> QED
      BY <3>1, MacNext DEF Inv
  <2>3. CASE UNCHANGED vars
    <3>1. UNCHANGED <<platform, lock, channel, held, pc, goal, work, edits, settings, owner, server,
                      leases, user, claimed, late, overlap, facility, journal, foreign, forfeited,
                      stolen>>
      BY <2>3 DEF vars, sharedVars, windowsVars, macVars
    <3>2. WinInv => WinInv'
      BY <3>1 DEF WinInv, WinTyped, Exclusive, Busy, KeysSound, Sound, Asked, Journaled, Opening,
         Moving, Switching, Server, Mine, Undisturbed, Settings, Single, Claimed,
         Win!EnabledIsComplete, Win!AlwaysRecoverable, Win!Recovers, Win!Phases, Win!HasLease,
         Win!NoLease, Win!PhaseMatches, Win!Applied
    <3>3. MacInv => MacInv'
      BY <3>1 DEF MacInv, MacTyped, Exclusive, Busy, Prepared, Ready, ForeignLooks, Unseen, Clear,
         Covered, Covers, InService, InFacility, Ours, OwnEntry, Mac!Mine, Mac!Target,
         Mac!OwnedIsJournaled, Mac!ForeignServiceKept
    <3> QED
      BY <3>1, <3>2, <3>3 DEF Inv
  <2> QED
    BY <2>1, <2>2, <2>3 DEF Next
<1> QED
  BY <1>1, <1>2, PTL DEF Spec

\* On Windows, whatever fails or dies, settings that are not the user's are at a phase of
\* a journal that holds the user's (apply_locked and restore_locked of windows_proxy.rs:
\* the journal comes first, and every phase undoes the one before).
THEOREM LeaseIsRecoverable == Spec => []AlwaysRecoverable
<1>1. Inv => AlwaysRecoverable
  BY DEF Inv, WinInv, AlwaysRecoverable
<1> QED
  BY <1>1, Invariance, PTL

\* On Windows a proxy that is on has the bypass list of its own lease (transition stamps
\* the bypass list first and enables the listener last).
THEOREM ListenerIsComplete == Spec => []EnabledIsComplete
<1>1. Inv => EnabledIsComplete
  BY DEF Inv, WinInv, EnabledIsComplete
<1> QED
  BY <1>1, Invariance, PTL

\* Of another application's proxy the client overwrites at most the one value whose check
\* came before the edit (transition of windows_proxy.rs), and on macOS nothing that it has
\* seen (MacProxy::apply and restore of macos_proxy.rs).
THEOREM OthersProxyKept == Spec => []ForeignProxyKept
<1>1. Inv => ForeignProxyKept
  <2>1. WinInv => Win!ForeignProxyKept
    BY DEF WinInv, Claimed, Win!ForeignProxyKept
  <2> QED
    BY <2>1 DEF Inv, MacInv, ForeignProxyKept
<1> QED
  BY <1>1, Invariance, PTL

\* On macOS every facility the client turned on is in a journal, where a restart finds it
\* (MacProxy::apply saves the entry before it calls networksetup).
THEOREM TurnedOnIsJournaled == Spec => []OwnedIsJournaled
<1>1. Inv => OwnedIsJournaled
  BY DEF Inv, MacInv, OwnedIsJournaled
<1> QED
  BY <1>1, Invariance, PTL

=============================================================================
