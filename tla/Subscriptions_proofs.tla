------------------------ MODULE Subscriptions_proofs ------------------------
(***************************************************************************)
(* Proofs about Subscriptions: that the stored list changes by one command *)
(* at a time whatever overlaps, that nothing removed returns, that every   *)
(* selection exists, and that a launch uses what is stored.                *)
(***************************************************************************)
EXTENDS Subscriptions, SequenceTheorems, TLAPS

-----------------------------------------------------------------------------
(* The inductive invariant.                                                *)

PCs == {"idle", "write", "rewrite", "identity", "create", "describe", "input", "request",
        "check", "read", "commit", "resolve", "handoff", "launch"}
Tracks ==
    [pc : PCs, op : {"none", "show", "add", "refresh", "migrate"},
     base : Seq(Records), next : Seq(Records), removed : SUBSET Nat,
     record : Records, cand : Records,
     answer : [kind : Kinds, size : Nat, title : Texts],
     input : Nat, ident : Nat, seen : [auto : Nat, custom : Nat],
     change : {"get", "pin", "clear", "reset"}, ticket : Nat, id : Nat, content : Nat]

\* Every variable has its type; the clock of ids and times only goes on.
TypeOK ==
    /\ edition \in {"desktop", "android"}
    /\ file \in Seq(Records)
    /\ hwid \in [auto : Nat, custom : Nat]
    /\ lock \in Tasks \union {Nobody}
    /\ gate \in [writer : Tasks \union {Nobody}, readers : SUBSET Tasks]
    /\ epoch \in Nat
    /\ task \in [Tasks -> Tracks]
    /\ given \in Nat
    /\ fresh \in Nat /\ fresh >= FirstId
    /\ gone \in SUBSET Nat

\* What a task at a program counter is doing.
Flow(w) ==
    /\ w.pc \in {"idle", "write", "resolve", "handoff", "launch"} => w.op = "none"
    /\ w.pc = "rewrite" => w.op = "show" /\ w.change # "get"
    /\ w.pc \in {"identity", "create"} => w.op \in {"show", "add", "refresh", "migrate"}
    /\ w.pc = "describe" => w.op = "refresh"
    /\ w.pc = "input" => w.op = "migrate"
    /\ w.pc \in {"check", "read"} => w.op \in {"add", "refresh"} /\ w.answer \in Payloads
    /\ w.pc \in {"request", "commit"} => w.op \in {"add", "refresh", "migrate"}

\* Who holds the lock and the gate.
Holds(t) ==
    /\ task[t].pc \in {"rewrite", "identity", "create"} /\ task[t].op = "show" => lock = t
    /\ task[t].pc = "write" => lock = t /\ gate.writer = t
    /\ task[t].pc = "launch" => t \in gate.readers
Gates ==
    /\ gate.readers # {} => gate.writer = Nobody
    /\ gate.writer # Nobody => lock = gate.writer /\ task[gate.writer].pc = "write"

\* An answer that was read for the record r.
Answered(r, new) == Promise!ByProvider(r, new) /\ Consistent(new) /\ new.stamp < fresh

\* An add has an id that nobody else has, and compares with a list it has seen.
Adds(w) ==
    w.op = "add" =>
        /\ w.record.id >= FirstId /\ w.record.id < fresh /\ w.record.stamp < fresh
        /\ w.record.id \notin Ids(file) \union gone
        /\ Sound(w.base, fresh)
        /\ w.pc = "commit" =>
              w.cand.id = w.record.id /\ Consistent(w.cand) /\ w.cand.stamp < fresh

\* A refresh has a newer answer for the record it has copied.
Refreshes(w) ==
    w.op = "refresh" =>
        /\ w.record.id < fresh /\ w.record.stamp < fresh
        /\ w.pc = "commit" => Answered(w.record, w.cand)

\* A migration extends the list it has copied by inputs it did not find there; a
\* legacy id that was removed since is one that list had.
Migrates(w) ==
    w.op = "migrate" =>
        /\ Sound(w.base, fresh) /\ Sound(w.next, fresh) /\ w.input >= 1
        /\ Len(w.next) >= Len(w.base) /\ SubSeq(w.next, 1, Len(w.base)) = w.base
        /\ Ids(w.next) \subseteq Ids(w.base) \union LegacyIds
        /\ (Ids(file) \union gone) \intersect LegacyIds \subseteq Ids(w.base)
        /\ w.pc \notin {"input", "commit"} =>
              w.record.id \in LegacyIds \ Ids(w.next) /\ w.record.stamp < fresh

\* A staged list is one step of the promise away from the file, and brings nothing back.
Staged(w) ==
    w.pc = "write" =>
        /\ Sound(w.next, fresh)
        /\ w.next = file \/ Promise!Added(file, w.next) \/ Promise!Removed(file, w.next)
             \/ Promise!Changed(file, w.next)
        /\ w.removed \subseteq Ids(file)
        /\ Ids(w.next) \intersect (gone \union w.removed) = {}
        /\ \A u \in Tasks : task[u].op = "add" => task[u].record.id \notin Ids(w.next)
        /\ (\E u \in Tasks : task[u].op = "migrate") =>
              Ids(w.next) \intersect LegacyIds \subseteq Ids(file)

\* The record a check has copied is the one stored.
Current(w) == Has(file, w.id) /\ file[Position(file, w.id)].stamp = w.content

\* A ticket that is still good was drawn before no change.
Checks(w) ==
    /\ w.ticket <= epoch
    /\ w.pc = "handoff" /\ w.ticket = epoch => gate.writer = Nobody /\ Current(w)
    /\ w.pc = "launch" => Current(w)

\* Two commands in progress do not own the same thing.
Alone ==
    \A t, u \in Tasks : t # u =>
        /\ task[t].op = "add" /\ task[u].op = "add" => task[t].record.id # task[u].record.id
        /\ ~ (task[t].op = "migrate" /\ task[u].op = "migrate")

Stores == Sound(file, fresh) /\ gone \intersect Ids(file) = {} /\ \A id \in gone : id < fresh

TaskOK(t) ==
    /\ Flow(task[t]) /\ Holds(t) /\ Checks(task[t])
    /\ Adds(task[t]) /\ Refreshes(task[t]) /\ Migrates(task[t]) /\ Staged(task[t])

IInv == TypeOK /\ Stores /\ Gates /\ Alone /\ \A t \in Tasks : TaskOK(t)
-----------------------------------------------------------------------------
(* Lists of records.                                                       *)

\* An id that is stored has a position, and the record there has that id.
LEMMA PositionOf ==
  ASSUME NEW list, NEW id, Has(list, id)
  PROVE  Position(list, id) \in DOMAIN list /\ list[Position(list, id)].id = id
  BY DEF Has, Position

\* A list that could be written before one time could be before a later one.
LEMMA SoundLater ==
  ASSUME NEW list, NEW a \in Nat, NEW b \in Nat, a <= b, Sound(list, a)
  PROVE  Sound(list, b)
<1> DEFINE n == Len(list)
<1>1. list \in Seq(Records) /\ DOMAIN list = 1..n /\ \A i \in DOMAIN list : list[i] \in Records
  BY DEF Sound
<1>2. \A i \in DOMAIN list : list[i].id \in Nat /\ list[i].stamp \in Nat
  BY <1>1 DEF Records
<1> QED
  BY <1>1, <1>2 DEF Sound

\* A record replaced by a consistent one of the same id leaves a sound list.
LEMMA SoundReplace ==
  ASSUME NEW list, NEW time \in Nat, Sound(list, time),
         NEW i \in DOMAIN list, NEW r \in Records,
         Consistent(r), r.id = list[i].id, r.stamp < time
  PROVE  /\ Sound([list EXCEPT ![i] = r], time)
         /\ Ids([list EXCEPT ![i] = r]) = Ids(list)
         /\ DOMAIN [list EXCEPT ![i] = r] = DOMAIN list
<1> DEFINE new == [list EXCEPT ![i] = r]
<1>1. list \in Seq(Records) /\ DOMAIN list = 1..Len(list)
  BY DEF Sound
<1>2. new \in Seq(Records) /\ DOMAIN new = DOMAIN list
  BY <1>1
<1>3. \A j \in DOMAIN list : new[j] = IF j = i THEN r ELSE list[j]
  BY <1>1
<1>4. \A j \in DOMAIN list : new[j].id = list[j].id
  BY <1>3
<1> HIDE DEF new
<1>5. Ids(new) = Ids(list)
  BY <1>2, <1>4 DEF Ids
<1>6. Sound(new, time)
  BY <1>2, <1>3, <1>4 DEF Sound
<1> QED
  BY <1>2, <1>5, <1>6 DEF new

\* retain: what is left is sound, and one id is gone.
LEMMA SoundRemove ==
  ASSUME NEW list, NEW time \in Nat, Sound(list, time), NEW i \in DOMAIN list
  PROVE  /\ Sound(RemoveAt(list, i), time)
         /\ Ids(RemoveAt(list, i)) = Ids(list) \ {list[i].id}
<1> DEFINE new == RemoveAt(list, i)  n == Len(list)
<1>1. list \in Seq(Records) /\ DOMAIN list = 1..n /\ n \in Nat /\ i \in 1..n
  BY DEF Sound
<1>2. new = SubSeq(list, 1, i - 1) \o SubSeq(list, i + 1, n)
  BY DEF RemoveAt
<1>3. /\ SubSeq(list, 1, i - 1) \in Seq(Records) /\ Len(SubSeq(list, 1, i - 1)) = i - 1
      /\ \A j \in 1..(i - 1) : SubSeq(list, 1, i - 1)[j] = list[j]
  BY <1>1
<1>4. /\ SubSeq(list, i + 1, n) \in Seq(Records) /\ Len(SubSeq(list, i + 1, n)) = n - i
      /\ \A j \in 1..(n - i) : SubSeq(list, i + 1, n)[j] = list[i + j]
  BY <1>1
<1>5. /\ new \in Seq(Records) /\ Len(new) = n - 1 /\ DOMAIN new = 1..(n - 1)
      /\ \A j \in 1..(n - 1) : new[j] = IF j < i THEN list[j] ELSE list[j + 1]
  <2> DEFINE a == SubSeq(list, 1, i - 1)  b == SubSeq(list, i + 1, n)
  <2>1. a \in Seq(Records) /\ b \in Seq(Records) /\ Len(a) = i - 1 /\ Len(b) = n - i
    BY <1>3, <1>4
  <2>2. \A j \in 1..(i - 1) : a[j] = list[j]
    BY <1>3
  <2>3. \A j \in 1..(n - i) : b[j] = list[i + j]
    BY <1>4
  <2>4. new = a \o b
    BY <1>2
  <2> HIDE DEF new, a, b, n
  <2>5. new \in Seq(Records) /\ Len(new) = n - 1 /\ DOMAIN new = 1..(n - 1)
    <3>1. a \o b \in Seq(Records) /\ Len(a \o b) = Len(a) + Len(b)
      BY <2>1, ConcatProperties, Zenon
    <3>2. new \in Seq(Records) /\ Len(new) = n - 1
      BY <1>1, <2>1, <2>4, <3>1
    <3> QED
      BY <3>2, LenProperties
  <2>6. \A j \in 1..(n - 1) : new[j] = IF j <= i - 1 THEN a[j] ELSE b[j - (i - 1)]
    BY <1>1, <2>1, <2>4
  <2>7. ASSUME NEW j \in 1..(n - 1), ~ (j < i)
        PROVE  new[j] = list[j + 1]
    <3>1. j - (i - 1) \in 1..(n - i) /\ i + (j - (i - 1)) = j + 1 /\ ~ (j <= i - 1)
      BY <1>1, <2>7
    <3> QED
      BY <2>3, <2>6, <3>1
  <2>8. ASSUME NEW j \in 1..(n - 1), j < i
        PROVE  new[j] = list[j]
    <3>1. j \in 1..(i - 1) /\ j <= i - 1
      BY <1>1, <2>8
    <3> QED
      BY <2>2, <2>6, <3>1
  <2> QED
    BY <2>5, <2>7, <2>8
<1> HIDE DEF new
<1>6. \A j \in DOMAIN new : \E k \in DOMAIN list : k # i /\ new[j] = list[k]
  BY <1>1, <1>5
<1>7. \A k \in DOMAIN list : k # i => \E j \in DOMAIN new : new[j] = list[k]
  <2> SUFFICES ASSUME NEW k \in DOMAIN list, k # i PROVE \E j \in DOMAIN new : new[j] = list[k]
    OBVIOUS
  <2>1. CASE k < i
    BY <1>1, <1>5, <2>1
  <2>2. CASE k > i
    <3>1. k - 1 \in 1..(n - 1) /\ (k - 1) + 1 = k /\ ~ (k - 1 < i)
      BY <1>1, <2>2
    <3> QED
      BY <1>5, <3>1
  <2> QED
    BY <1>1, <2>1, <2>2
<1>8. ASSUME NEW j \in DOMAIN new, NEW k \in DOMAIN new, new[j].id = new[k].id
      PROVE  j = k
  <2> DEFINE at(m) == IF m < i THEN m ELSE m + 1
  <2>1. at(j) \in DOMAIN list /\ at(k) \in DOMAIN list
    BY <1>1, <1>5
  <2>2. new[j] = list[at(j)] /\ new[k] = list[at(k)]
    BY <1>5
  <2>3. at(j) = at(k)
    BY <1>8, <2>1, <2>2 DEF Sound
  <2> QED
    BY <1>1, <1>5, <2>3
<1>9. Sound(new, time)
  BY <1>5, <1>6, <1>8 DEF Sound
<1>10. \A k \in DOMAIN list : list[k].id = list[i].id => k = i
  BY DEF Sound
<1>11. Ids(new) = Ids(list) \ {list[i].id}
  BY <1>6, <1>7, <1>10 DEF Ids
<1> QED
  BY <1>9, <1>11 DEF new

\* push: a record with a new id leaves a sound list, which begins with the old one.
LEMMA SoundAppend ==
  ASSUME NEW list, NEW time \in Nat, Sound(list, time), NEW r \in Records,
         Consistent(r), r.id \notin Ids(list), r.id < time, r.stamp < time
  PROVE  /\ Sound(Append(list, r), time)
         /\ Ids(Append(list, r)) = Ids(list) \union {r.id}
         /\ Len(Append(list, r)) = Len(list) + 1
         /\ \A k \in 0..Len(list) : SubSeq(Append(list, r), 1, k) = SubSeq(list, 1, k)
<1> DEFINE new == Append(list, r)  n == Len(list)
<1>1. list \in Seq(Records) /\ DOMAIN list = 1..n /\ n \in Nat
  BY DEF Sound
<1>2. /\ new \in Seq(Records) /\ Len(new) = n + 1 /\ DOMAIN new = 1..(n + 1)
      /\ \A j \in 1..n : new[j] = list[j]
      /\ new[n + 1] = r
  BY <1>1
<1>3. \A k \in 0..n : SubSeq(new, 1, k) = SubSeq(list, 1, k)
  BY <1>1, <1>2
<1> HIDE DEF new
<1>4. \A j \in DOMAIN new : j \in DOMAIN list \/ j = n + 1
  BY <1>1, <1>2
<1>5. Ids(new) = Ids(list) \union {r.id}
  <2>1. \A j \in DOMAIN list : j \in DOMAIN new
    BY <1>1, <1>2
  <2>2. n + 1 \in DOMAIN new
    BY <1>1, <1>2
  <2> QED
    BY <1>1, <1>2, <1>4, <2>1, <2>2 DEF Ids
<1>6. \A j, k \in DOMAIN new : new[j].id = new[k].id => j = k
  BY <1>1, <1>2, <1>4 DEF Sound, Ids
<1>7. \A j \in DOMAIN new : Consistent(new[j]) /\ new[j].id < time /\ new[j].stamp < time
  BY <1>1, <1>2, <1>4 DEF Sound
<1>8. Sound(new, time)
  BY <1>2, <1>6, <1>7 DEF Sound
<1> QED
  BY <1>2, <1>3, <1>5, <1>8 DEF new

\* What a refresh makes of a record: the provider's part is new and consistent.
LEMMA CandidateIs ==
  ASSUME NEW r \in Records, NEW p \in Payloads, NEW time \in Nat, r.stamp < time
  PROVE  /\ Candidate(r, p, time) \in Records
         /\ Candidate(r, p, time).id = r.id /\ Candidate(r, p, time).stamp = time
         /\ Consistent(Candidate(r, p, time))
         /\ Promise!ByProvider(r, Candidate(r, p, time))
<1> DEFINE c == Candidate(r, p, time)
           name == FallbackName(r, p.title)
           active == IF p.kind = "links" THEN 0 ELSE StableSelection(r.active, p.size)
           children == IF p.kind = "links" THEN 0 ELSE p.size
           links == IF p.kind = "links" THEN p.size ELSE 0
<1>1. p.kind \in Kinds /\ p.size \in Nat \ {0} /\ p.title \in Texts
  BY SubscriptionsAssumption
<1>2. name \in Texts /\ (r.userNamed => name = r.name)
  BY <1>1, SubscriptionsAssumption DEF FallbackName, DecodeTitle, Records
<1>3. active \in Nat /\ children \in Nat /\ links \in Nat
  BY <1>1 DEF StableSelection, Records
<1>4. /\ p.kind # "links" => active \in 1..children /\ links = 0
      /\ p.kind = "links" => active = 0 /\ children = 0
      /\ r.active \in 1..children => active = r.active
  BY <1>1 DEF StableSelection, Records
<1>5. c = [id |-> r.id, url |-> r.url, name |-> name, userNamed |-> r.userNamed,
           interval |-> r.interval, kind |-> p.kind, active |-> active, children |-> children,
           links |-> links, title |-> p.title, stamp |-> time]
  BY DEF Candidate, Records
<1> HIDE DEF c, name, active, children, links
<1>6. c \in Records
  BY <1>1, <1>2, <1>3, <1>5 DEF Records
<1>7. Consistent(c)
  BY <1>1, <1>4, <1>5 DEF Consistent, Kinds
<1>8. Promise!ByProvider(r, c)
  BY <1>2, <1>4, <1>5 DEF Promise!ByProvider, Promise!OwnedByUser
<1> QED
  BY <1>5, <1>6, <1>7, <1>8 DEF c

\* A command's first locals are well typed; Nobody runs none; legacy ids are old ones.
LEMMA Values ==
  /\ NoRecord \in Records /\ Idle \in Tracks /\ Nobody \notin Tasks
  /\ \A id \in LegacyIds : id \in Nat /\ id < FirstId
<1>1. NoRecord \in Records
  BY SubscriptionsAssumption DEF NoRecord, NewRecord, Records
<1>2. Idle \in Tracks
  BY <1>1, SubscriptionsAssumption DEF Idle, Tracks, PCs, NoAnswer, NoId, Kinds
<1>3. \A i \in DOMAIN Legacy : Legacy[i] \in [id : 1 .. (FirstId - 1), url : Texts]
  <2>1. Legacy \in Seq([id : 1 .. (FirstId - 1), url : Texts])
    BY SubscriptionsAssumption
  <2>2. DOMAIN Legacy = 1..Len(Legacy)
    BY <2>1, LenProperties
  <2> QED
    BY <2>1, <2>2, ElementOfSeq
<1>4. \A id \in LegacyIds : id \in Nat /\ id < FirstId
  BY <1>3 DEF LegacyIds, FirstId
<1> QED
  BY <1>1, <1>2, <1>4, SubscriptionsAssumption

-----------------------------------------------------------------------------
(* Steps that leave the file and the catalog alone.                        *)

Becomes(t) == task' = [task EXCEPT ![t] = task'[t]]

\* The lock is taken by a task that found it free, or given back by its holder.
LockStep(t) ==
    \/ lock' = lock
    \/ lock = Nobody /\ lock' = t
    \/ lock = t /\ lock' = Nobody

\* Only a new id makes an owner.
OwnerStep(t) ==
    /\ task'[t].op = "add" =>
          \/ task[t].op = "add" /\ task'[t].record.id = task[t].record.id
          \/ task'[t].record.id = fresh /\ fresh' = fresh + 1
    /\ task'[t].op = "migrate" => task[t].op = "migrate"

Quiet(t) ==
    /\ Becomes(t) /\ LockStep(t) /\ OwnerStep(t)
    /\ edition' = edition /\ file' = file /\ gone' = gone /\ epoch' = epoch /\ gate' = gate
    /\ fresh' = fresh \/ fresh' = fresh + 1
    /\ hwid' \in [auto : Nat, custom : Nat] /\ given' \in Nat
    /\ task[t].pc # "write" /\ task'[t].pc # "write"
    /\ task'[t] \in Tracks
    /\ TaskOK(t)'

\* A step of one task leaves the locals of the others.
LEMMA Others ==
  ASSUME TypeOK, NEW t \in Tasks, Becomes(t), NEW u \in Tasks, u # t
  PROVE  task'[u] = task[u]
  BY DEF TypeOK, Becomes

\* The source of ids and times only goes on.
LEMMA Clock ==
  ASSUME TypeOK, fresh' = fresh \/ fresh' = fresh + 1
  PROVE  fresh' \in Nat /\ fresh' >= FirstId /\ fresh <= fresh' /\ FirstId \in Nat
         /\ \A n \in Nat : n < fresh => n < fresh'
<1>1. fresh \in Nat /\ fresh' \in Nat /\ fresh >= FirstId /\ FirstId = 10 /\ fresh <= fresh'
  BY DEF TypeOK, FirstId
<1>2. \A n \in Nat : n < fresh => n < fresh'
  BY <1>1
<1> QED
  BY <1>1, <1>2

\* A sound list stays one as the clock goes on.
LEMMA SoundClock ==
  ASSUME TypeOK, fresh' = fresh \/ fresh' = fresh + 1, NEW list, Sound(list, fresh)
  PROVE  Sound(list, fresh')
<1>1. fresh \in Nat /\ fresh' \in Nat /\ fresh <= fresh'
  BY DEF TypeOK
<1> QED
  BY <1>1, SoundLater

\* What another task knows of its own locals stays true.
LEMMA OwnsLater ==
  ASSUME TypeOK, NEW t \in Tasks, Becomes(t), NEW u \in Tasks, u # t,
         file' = file, gone' = gone, fresh' = fresh \/ fresh' = fresh + 1
  PROVE  /\ Flow(task[u]) => Flow(task[u])'
         /\ Adds(task[u]) => Adds(task[u])'
         /\ Refreshes(task[u]) => Refreshes(task[u])'
         /\ Migrates(task[u]) => Migrates(task[u])'
<1>1. task'[u] = task[u] /\ task[u] \in Tracks
  BY Others DEF TypeOK
<1>2. /\ task[u].record.id \in Nat /\ task[u].record.stamp \in Nat
      /\ task[u].cand.stamp \in Nat
  BY <1>1 DEF Tracks, Records
<1>3. Flow(task[u]) => Flow(task[u])'
  BY <1>1 DEF Flow
<1>4. Adds(task[u]) => Adds(task[u])'
  BY <1>1, <1>2, Clock, SoundClock DEF Adds
<1>5. Refreshes(task[u]) => Refreshes(task[u])'
  BY <1>1, <1>2, Clock DEF Refreshes, Answered
<1>6. Migrates(task[u]) => Migrates(task[u])'
  <2> SUFFICES ASSUME Migrates(task[u]), task[u].op = "migrate" PROVE Migrates(task[u])'
    BY <1>1 DEF Migrates
  <2>1. Sound(task[u].base, fresh) /\ Sound(task[u].next, fresh)
    BY DEF Migrates
  <2>2. Sound(task[u].base, fresh') /\ Sound(task[u].next, fresh')
    BY <2>1, SoundClock
  <2> QED
    BY <1>1, <1>2, <2>2, Clock DEF Migrates
<1> QED
  BY <1>3, <1>4, <1>5, <1>6

\* A quiet step keeps the invariant: what t knows is its own affair.
LEMMA QuietKeeps ==
  ASSUME IInv, NEW t \in Tasks, Quiet(t)
  PROVE  IInv'
<1>1. TypeOK /\ Stores /\ Gates /\ Alone /\ (\A u \in Tasks : TaskOK(u)) /\ Becomes(t)
  BY DEF IInv, Quiet
<1>2. fresh' = fresh \/ fresh' = fresh + 1
  BY DEF Quiet
<1>3. lock' \in Tasks \union {Nobody}
  BY <1>1 DEF TypeOK, Quiet, LockStep
<1>4. task' \in [Tasks -> Tracks]
  BY <1>1 DEF TypeOK, Quiet, Becomes
<1>5. TypeOK'
  BY <1>1, <1>2, <1>3, <1>4, Clock DEF TypeOK, Quiet
<1>6. Stores'
  <2>1. file' = file /\ gone' = gone /\ Sound(file, fresh) /\ gone \in SUBSET Nat
    BY <1>1 DEF Stores, TypeOK, Quiet
  <2>2. Sound(file, fresh')
    BY <1>1, <1>2, <2>1, SoundClock
  <2> QED
    BY <1>1, <1>2, <2>1, <2>2, Clock DEF Stores
<1>7. Gates'
  <2>1. gate' = gate /\ (lock' # lock => lock = Nobody \/ lock = t) /\ task[t].pc # "write"
    BY DEF Quiet, LockStep
  <2>2. gate.writer # Nobody => gate.writer \in Tasks
    BY <1>1 DEF TypeOK
  <2>3. gate.writer # Nobody => gate.writer # t /\ lock' = lock
    BY <1>1, <2>1 DEF Gates
  <2> QED
    BY <1>1, <2>1, <2>2, <2>3, Others DEF Gates
<1>8. Alone'
  <2> SUFFICES ASSUME NEW a \in Tasks, NEW b \in Tasks, a # b
               PROVE  /\ task'[a].op = "add" /\ task'[b].op = "add"
                             => task'[a].record.id # task'[b].record.id
                      /\ ~ (task'[a].op = "migrate" /\ task'[b].op = "migrate")
    BY DEF Alone
  <2>1. OwnerStep(t)
    BY DEF Quiet
  <2>2. \A u \in Tasks : task[u].op = "add" => task[u].record.id # fresh
    <3> SUFFICES ASSUME NEW u \in Tasks, task[u].op = "add"
                 PROVE  task[u].record.id # fresh
      OBVIOUS
    <3>1. task[u].record.id \in Nat /\ fresh \in Nat /\ task[u].record.id < fresh
      BY <1>1 DEF TaskOK, Adds, TypeOK, Tracks, Records
    <3> QED
      BY <3>1
  <2>3. CASE a = t
    BY <1>1, <2>1, <2>2, <2>3, Others DEF Alone, OwnerStep
  <2>4. CASE b = t
    BY <1>1, <2>1, <2>2, <2>4, Others DEF Alone, OwnerStep
  <2>5. CASE a # t /\ b # t
    BY <1>1, <2>5, Others DEF Alone
  <2> QED
    BY <2>3, <2>4, <2>5
<1>9. ASSUME NEW u \in Tasks
      PROVE  TaskOK(u)'
  <2>1. CASE u = t
    BY <2>1 DEF Quiet
  <2>2. CASE u # t
    <3>1. task'[u] = task[u] /\ TaskOK(u)
      BY <1>1, <2>2, Others
    <3>2. /\ file' = file /\ gone' = gone /\ epoch' = epoch /\ gate' = gate
      BY DEF Quiet
    <3>3. Flow(task[u])' /\ Adds(task[u])' /\ Refreshes(task[u])' /\ Migrates(task[u])'
      BY <1>1, <1>2, <2>2, <3>1, <3>2, OwnsLater DEF TaskOK
    <3>4. Holds(u)'
      <4>1. lock = u => lock' = u
        BY <2>2, Values DEF Quiet, LockStep
      <4> QED
        BY <3>1, <3>2, <4>1 DEF TaskOK, Holds
    <3>5. Checks(task[u])'
      BY <3>1, <3>2 DEF TaskOK, Checks, Current
    <3>6. Staged(task[u])'
      <4> SUFFICES ASSUME task[u].pc = "write" PROVE Staged(task[u])'
        BY <3>1 DEF Staged
      <4>1. Sound(task[u].next, fresh) /\ Staged(task[u])
        BY <3>1 DEF TaskOK, Staged
      <4>2. fresh \notin Ids(task[u].next)
        BY <4>1, <1>1 DEF Sound, Ids, TypeOK
      <4>3. ASSUME NEW v \in Tasks, task'[v].op = "add"
            PROVE  task'[v].record.id \notin Ids(task[u].next)
        <5>1. CASE v = t
          BY <4>1, <4>2, <4>3, <5>1 DEF Quiet, OwnerStep, Staged
        <5>2. CASE v # t
          BY <4>1, <4>3, <5>2, <1>1, Others DEF Staged
        <5> QED
          BY <5>1, <5>2
      <4>4. ASSUME NEW v \in Tasks, task'[v].op = "migrate"
            PROVE  task[v].op = "migrate"
        BY <1>1, <4>4, Others DEF Quiet, OwnerStep
      <4>5. Sound(task[u].next, fresh')
        BY <1>1, <1>2, <4>1, SoundClock
      <4> QED
        BY <3>1, <3>2, <4>1, <4>3, <4>4, <4>5 DEF Staged
    <3> QED
      BY <3>3, <3>4, <3>5, <3>6 DEF TaskOK
  <2> QED
    BY <2>1, <2>2
<1> QED
  BY <1>5, <1>6, <1>7, <1>8, <1>9 DEF IInv

-----------------------------------------------------------------------------
(* Each of them is such a step.                                            *)

Still == given' \in Nat /\ edition' = edition

\* What the invariant says of a task that takes a step.
LEMMA Parts ==
  ASSUME IInv, NEW t \in Tasks
  PROVE  /\ TypeOK /\ Stores /\ Gates /\ Alone /\ TaskOK(t) /\ task[t] \in Tracks
         /\ fresh \in Nat /\ fresh >= FirstId /\ FirstId = 10 /\ epoch \in Nat
         /\ t # Nobody
  BY Values DEF IInv, TypeOK, FirstId

\* An assignment to a task's locals.
LEMMA Assigned ==
  ASSUME TypeOK, NEW t \in Tasks, NEW w, task' = [task EXCEPT ![t] = w]
  PROVE  task'[t] = w /\ Becomes(t)
  BY DEF TypeOK, Becomes

\* A task that fetches nothing owns nothing.
LEMMA PlainOK ==
  ASSUME NEW t \in Tasks, task'[t].op \in {"none", "show"},
         task'[t].pc \notin {"write", "handoff", "launch"},
         Flow(task[t])', Holds(t)', task'[t].ticket <= epoch'
  PROVE  TaskOK(t)'
  BY DEF TaskOK, Checks, Adds, Refreshes, Migrates, Staged

\* The locals a command begins with, and what a step of it changes.
LEMMA ShowBegins ==
  ASSUME NEW v, v = [Idle EXCEPT !.pc = "identity", !.op = "show"]
  PROVE  /\ v \in Tracks /\ v.pc = "identity" /\ v.op = "show" /\ v.ticket = 0
  BY Values DEF Idle, Tracks, PCs

Kept(w, v) ==
    /\ v.op = w.op /\ v.record = w.record /\ v.base = w.base /\ v.next = w.next
    /\ v.ticket = w.ticket /\ (v.input = w.input \/ v.input = w.input + 1)

\* A task that only moves on keeps its locals.
LEMMA Moves ==
  ASSUME NEW w \in Tracks, NEW v, NEW pc \in PCs, v = [w EXCEPT !.pc = pc]
  PROVE  /\ v \in Tracks /\ v.pc = pc /\ Kept(w, v) /\ v.answer = w.answer /\ v.id = w.id
         /\ v.content = w.content /\ v.cand = w.cand
  BY DEF Tracks, PCs, Kept

\* A task that moves on with an id for get_or_create keeps its other locals.
LEMMA MovesIdentity ==
  ASSUME NEW w \in Tracks, NEW v, NEW pc \in PCs, NEW n \in Nat,
         v = [w EXCEPT !.pc = pc, !.ident = n]
  PROVE  v \in Tracks /\ v.pc = pc /\ Kept(w, v)
  BY DEF Tracks, PCs, Kept

\* A command that goes on with the same locals keeps what it knows.
LEMMA GoesOn ==
  ASSUME IInv, NEW t \in Tasks, Becomes(t), Kept(task[t], task'[t]),
         file' = file, gone' = gone, epoch' = epoch, gate' = gate,
         fresh' = fresh \/ fresh' = fresh + 1,
         task'[t].pc \notin {"write", "launch", "handoff"},
         task'[t].pc = "commit" => task'[t].op = "migrate",
         task[t].pc \in {"input", "commit"} => task'[t].pc \in {"input", "commit"},
         Flow(task[t])', Holds(t)'
  PROVE  TaskOK(t)' /\ OwnerStep(t)
<1>1. TypeOK /\ TaskOK(t) /\ task[t] \in Tracks /\ fresh \in Nat
  BY Parts
<1>2. /\ task[t].record.id \in Nat /\ task[t].record.stamp \in Nat
      /\ Sound(task[t].base, fresh) => Sound(task[t].base, fresh')
      /\ Sound(task[t].next, fresh) => Sound(task[t].next, fresh')
  BY <1>1, SoundClock DEF Tracks, Records
<1>3. Staged(task[t])' /\ Checks(task[t])'
  BY <1>1 DEF Staged, Checks, TaskOK, Kept
<1>4. Adds(task[t])'
  BY <1>1, <1>2 DEF Adds, TaskOK, Kept
<1>5. Refreshes(task[t])'
  BY <1>1, <1>2 DEF Refreshes, TaskOK, Kept
<1>6. Migrates(task[t])'
  <2>1. task[t].input \in Nat
        /\ (task'[t].input = task[t].input \/ task'[t].input = task[t].input + 1)
    BY <1>1 DEF Tracks, Kept
  <2>2. task[t].input >= 1 => task'[t].input >= 1
    BY <2>1
  <2> QED
    BY <1>1, <1>2, <2>2 DEF Migrates, TaskOK, Kept
<1> QED
  BY <1>3, <1>4, <1>5, <1>6 DEF TaskOK, OwnerStep, Kept

\* A command that returns an error, or has nothing to do.
LEMMA EndQuiet ==
  ASSUME IInv, NEW t \in Tasks, End(t), Still, task[t].pc # "write"
  PROVE  Quiet(t)
<1>1. TypeOK /\ epoch \in Nat
  BY Parts
<1>2. task'[t] = Idle /\ Becomes(t)
  BY <1>1, Assigned DEF End, Become
<1>3. Flow(task[t])' /\ Holds(t)'
  BY <1>2 DEF Flow, Holds, Idle
<1>4. TaskOK(t)'
  BY <1>1, <1>2, <1>3, PlainOK DEF Idle, End
<1>5. OwnerStep(t) /\ LockStep(t)
  BY <1>2 DEF OwnerStep, LockStep, End, Idle
<1>6. fresh' = fresh /\ edition' = edition /\ file' = file /\ gone' = gone /\ epoch' = epoch
      /\ gate' = gate /\ hwid' \in [auto : Nat, custom : Nat]
  BY <1>1 DEF End, Still, TypeOK
<1>7. task'[t] \in Tracks /\ task'[t].pc # "write"
  BY <1>2, Values DEF Idle
<1> QED
  BY <1>2, <1>4, <1>5, <1>6, <1>7 DEF Quiet, Still

\* set_hwid_override, reset_hwid and get_hwid take the lock.
LEMMA BeginHwidQuiet ==
  ASSUME IInv, NEW t \in Tasks, NEW change \in {"get", "pin", "clear", "reset"},
         BeginHwid(t, change), Still, task[t].pc = "idle"
  PROVE  Quiet(t)
<1>1. TypeOK /\ epoch \in Nat
  BY Parts
<1>2. Becomes(t)
  BY <1>1, Assigned DEF BeginHwid, Become
<1>3. /\ task'[t].op = "show" /\ task'[t].pc \in {"identity", "rewrite"} /\ task'[t].ticket = 0
      /\ task'[t].pc = "rewrite" => task'[t].change # "get"
      /\ task'[t] \in Tracks
  <2>1. hwid \in [auto : Nat, custom : Nat]
    BY <1>1 DEF TypeOK
  <2>2. CASE change = "get"
    <3>1. task'[t] = [Idle EXCEPT !.pc = "identity", !.op = "show"]
      BY <1>1, <2>2, Assigned DEF BeginHwid, Become
    <3>2. task'[t] \in Tracks /\ task'[t].pc = "identity" /\ task'[t].op = "show"
          /\ task'[t].ticket = 0
      BY <3>1, ShowBegins, Zenon
    <3> QED
      BY <3>2
  <2>3. CASE change # "get"
    <3>1. task'[t] = [Idle EXCEPT !.pc = "rewrite", !.op = "show", !.seen = hwid, !.change = change]
      BY <1>1, <2>3, Assigned DEF BeginHwid, Become
    <3>2. /\ task'[t].pc = "rewrite" /\ task'[t].op = "show" /\ task'[t].ticket = 0
          /\ task'[t].change = change
      BY <3>1 DEF Idle
    <3>3. task'[t] \in Tracks
      BY <2>1, <3>1, Values DEF Idle, Tracks, PCs
    <3> QED
      BY <2>3, <3>2, <3>3
  <2> QED
    BY <2>2, <2>3
<1>4. Flow(task[t])' /\ Holds(t)'
  BY <1>3 DEF Flow, Holds, BeginHwid
<1>5. TaskOK(t)'
  <2>1. epoch' = epoch
    BY DEF BeginHwid
  <2> QED
    BY <1>1, <1>3, <1>4, <2>1, PlainOK
<1>6. OwnerStep(t) /\ LockStep(t)
  BY <1>3 DEF OwnerStep, LockStep, BeginHwid
<1> QED
  BY <1>1, <1>2, <1>3, <1>5, <1>6 DEF Quiet, Still, BeginHwid, TypeOK

\* The hardware id file is written from what was read.
LEMMA RewriteQuiet ==
  ASSUME IInv, NEW t \in Tasks, Rewrite(t), Still
  PROVE  Quiet(t)
<1>1. TypeOK /\ epoch \in Nat /\ fresh \in Nat /\ TaskOK(t) /\ task[t] \in Tracks
  BY Parts
<1>2. Becomes(t) /\ task'[t] = [Idle EXCEPT !.pc = "identity", !.op = "show"]
  BY <1>1, Assigned DEF Rewrite, Become
<1>3. lock = t
  BY <1>1 DEF TaskOK, Holds, Flow, Rewrite
<1>4. Flow(task[t])' /\ Holds(t)'
  BY <1>2, <1>3 DEF Flow, Holds, Idle, Rewrite
<1>5. TaskOK(t)'
  <2>1. task'[t].op = "show" /\ task'[t].pc = "identity" /\ task'[t].ticket = 0 /\ epoch' = epoch
    BY <1>2 DEF Idle, Rewrite
  <2> QED
    BY <1>1, <1>4, <2>1, PlainOK
<1>6. OwnerStep(t) /\ LockStep(t)
  BY <1>2 DEF OwnerStep, LockStep, Rewrite, Idle
<1>7. task'[t] \in Tracks
  BY <1>2, ShowBegins
<1>8. hwid' \in [auto : Nat, custom : Nat]
  <2>1. task[t].seen \in [auto : Nat, custom : Nat]
        /\ task[t].change \in {"get", "pin", "clear", "reset"}
    BY <1>1 DEF Tracks
  <2>2. task[t].change # "get"
    BY <1>1 DEF TaskOK, Flow, Rewrite
  <2> QED
    BY <1>1, <2>1, <2>2 DEF Rewrite, Rewritten, Pinned
<1> QED
  BY <1>2, <1>5, <1>6, <1>7, <1>8 DEF Quiet, Still, Rewrite, Idle

\* The id is known, or made: the task goes on or is done.
LEMMA IdentifiedQuiet ==
  ASSUME IInv, NEW t \in Tasks, Identified(t), Still, task[t].pc \in {"identity", "create"},
         file' = file, gone' = gone, epoch' = epoch, gate' = gate, fresh' = fresh,
         hwid' \in [auto : Nat, custom : Nat]
  PROVE  Quiet(t)
<1>1. TypeOK /\ epoch \in Nat /\ fresh \in Nat /\ TaskOK(t) /\ task[t] \in Tracks
  BY Parts
<1>2. CASE task[t].op = "show"
  <2>1. Becomes(t) /\ task'[t] = Idle
    BY <1>1, <1>2, Assigned DEF Identified, Become
  <2>2. lock = t /\ lock' = Nobody
    BY <1>1, <1>2 DEF TaskOK, Holds, Identified
  <2>3. Flow(task[t])' /\ Holds(t)'
    BY <2>1 DEF Flow, Holds, Idle
  <2>4. TaskOK(t)'
    BY <1>1, <2>1, <2>3, PlainOK DEF Idle
  <2>5. OwnerStep(t) /\ LockStep(t)
    BY <2>1, <2>2 DEF OwnerStep, LockStep, Idle
  <2> QED
    BY <2>1, <2>4, <2>5, Values DEF Quiet, Still, Idle
<1>3. CASE task[t].op # "show"
  <2>1. Becomes(t) /\ task'[t] = [task[t] EXCEPT !.pc = "request", !.ident = 0]
    BY <1>1, <1>3, Assigned DEF Identified, Become
  <2>2. task[t].op \in {"add", "refresh", "migrate"}
    BY <1>1, <1>3 DEF TaskOK, Flow
  <2>3. task'[t] \in Tracks /\ task'[t].pc = "request" /\ Kept(task[t], task'[t])
    BY <1>1, <2>1, MovesIdentity DEF PCs
  <2>4. Flow(task[t])' /\ Holds(t)'
    BY <2>2, <2>3 DEF Flow, Holds, Kept
  <2>5. TaskOK(t)' /\ OwnerStep(t)
    BY <2>1, <2>3, <2>4, GoesOn
  <2>6. LockStep(t)
    BY <1>3 DEF LockStep, Identified
  <2> QED
    BY <2>1, <2>3, <2>5, <2>6 DEF Quiet, Still
<1> QED
  BY <1>2, <1>3

\* get_or_create finds an id, or makes one.
LEMMA ReadIdentityQuiet ==
  ASSUME IInv, NEW t \in Tasks, ReadIdentity(t), Still
  PROVE  Quiet(t)
<1>1. TypeOK /\ epoch \in Nat /\ fresh \in Nat /\ TaskOK(t) /\ task[t] \in Tracks
  BY Parts
<1>2. CASE Identified(t) /\ fresh' = fresh
  BY <1>1, <1>2, IdentifiedQuiet DEF ReadIdentity, TypeOK
<1>3. CASE /\ Become(t, [task[t] EXCEPT !.pc = "create", !.ident = fresh])
           /\ fresh' = fresh + 1 /\ lock' = lock
  <2>1. Becomes(t) /\ task'[t] = [task[t] EXCEPT !.pc = "create", !.ident = fresh]
    BY <1>1, <1>3, Assigned DEF Become
  <2>2. task'[t] \in Tracks /\ task'[t].pc = "create" /\ Kept(task[t], task'[t])
    BY <1>1, <2>1, MovesIdentity DEF PCs
  <2>3. /\ file' = file /\ gone' = gone /\ epoch' = epoch /\ gate' = gate /\ hwid' = hwid
        /\ task[t].pc = "identity"
    BY DEF ReadIdentity
  <2>4. Flow(task[t])' /\ Holds(t)'
    BY <1>1, <1>3, <2>2, <2>3 DEF Flow, Holds, Kept, TaskOK
  <2>5. TaskOK(t)' /\ OwnerStep(t)
    BY <1>3, <2>1, <2>2, <2>3, <2>4, GoesOn
  <2>6. LockStep(t)
    BY <1>3 DEF LockStep
  <2> QED
    BY <1>1, <1>3, <2>1, <2>2, <2>3, <2>5, <2>6 DEF Quiet, Still, TypeOK
<1> QED
  BY <1>2, <1>3 DEF ReadIdentity

\* get_or_create writes the id it has made.
LEMMA CreateIdentityQuiet ==
  ASSUME IInv, NEW t \in Tasks, CreateIdentity(t), Still
  PROVE  Quiet(t)
<1>1. task[t] \in Tracks
  BY Parts
<1>2. hwid' \in [auto : Nat, custom : Nat]
  BY <1>1 DEF CreateIdentity, Tracks
<1> QED
  BY <1>2, IdentifiedQuiet DEF CreateIdentity

\* A profile check draws its ticket from the epoch.
LEMMA BeginCheckQuiet ==
  ASSUME IInv, NEW t \in Tasks, BeginCheck(t), Still, task[t].pc = "idle"
  PROVE  Quiet(t)
<1>1. TypeOK /\ epoch \in Nat
  BY Parts
<1>2. Becomes(t) /\ task'[t] = [Idle EXCEPT !.pc = "resolve", !.ticket = epoch]
  BY <1>1, Assigned DEF BeginCheck, Become
<1>3. task'[t].pc = "resolve" /\ task'[t].op = "none" /\ task'[t].ticket = epoch
  BY <1>2 DEF Idle
<1>4. task'[t] \in Tracks
  BY <1>1, <1>2, Values DEF Idle, Tracks, PCs
<1>5. Flow(task[t])' /\ Holds(t)'
  BY <1>3 DEF Flow, Holds
<1>6. epoch' = epoch
  BY DEF BeginCheck
<1>7. TaskOK(t)'
  BY <1>1, <1>3, <1>5, <1>6, PlainOK
<1> QED
  BY <1>1, <1>2, <1>3, <1>4, <1>7 DEF Quiet, Still, BeginCheck, OwnerStep, LockStep, TypeOK

\* Android describes the id in a locked section of its own.
LEMMA DescribeQuiet ==
  ASSUME IInv, NEW t \in Tasks, Describe(t), Still
  PROVE  Quiet(t)
<1>1. TypeOK /\ TaskOK(t) /\ task[t] \in Tracks
  BY Parts
<1>2. Becomes(t) /\ task'[t] = [task[t] EXCEPT !.pc = "identity"]
  BY <1>1, Assigned DEF Describe, Become
<1>3. task'[t] \in Tracks /\ task'[t].pc = "identity" /\ Kept(task[t], task'[t])
  BY <1>1, <1>2, Moves DEF PCs
<1>4. Flow(task[t])' /\ Holds(t)'
  BY <1>1, <1>3 DEF Flow, Holds, Kept, TaskOK, Describe
<1>5. TaskOK(t)' /\ OwnerStep(t)
  BY <1>2, <1>3, <1>4, GoesOn DEF Describe
<1> QED
  BY <1>1, <1>2, <1>3, <1>5 DEF Quiet, Still, Describe, LockStep, TypeOK

\* add_with_fetched_body looks for the url, and takes nothing along.
LEMMA CheckUrlQuiet ==
  ASSUME IInv, NEW t \in Tasks, CheckUrl(t), Still
  PROVE  Quiet(t)
<1>1. TypeOK /\ TaskOK(t) /\ task[t] \in Tracks
  BY Parts
<1>2. CASE End(t)
  BY <1>2, EndQuiet DEF CheckUrl
<1>3. CASE ~ End(t)
  <2>1. Becomes(t) /\ task'[t] = [task[t] EXCEPT !.pc = "read"]
    BY <1>1, <1>3, Assigned DEF CheckUrl, Become
  <2>2. /\ task'[t] \in Tracks /\ task'[t].pc = "read" /\ Kept(task[t], task'[t])
        /\ task'[t].answer = task[t].answer
    BY <1>1, <2>1, Moves DEF PCs
  <2>3. Flow(task[t])' /\ Holds(t)'
    BY <1>1, <2>2 DEF Flow, Holds, Kept, TaskOK, CheckUrl
  <2>4. UNCHANGED <<file, hwid, lock, gate, epoch, fresh, gone>> /\ task[t].pc = "check"
    BY <1>3 DEF CheckUrl
  <2>5. TaskOK(t)' /\ OwnerStep(t)
    BY <2>1, <2>2, <2>3, <2>4, GoesOn
  <2> QED
    BY <1>1, <2>1, <2>2, <2>4, <2>5 DEF Quiet, Still, LockStep, TypeOK
<1> QED
  BY <1>2, <1>3

\* A refresh copies a record that is stored: it is older than the clock.
LEMMA BeginRefreshQuiet ==
  ASSUME IInv, NEW t \in Tasks, NEW id, BeginRefresh(t, id), Still, task[t].pc = "idle"
  PROVE  Quiet(t)
<1>1. TypeOK /\ Stores /\ fresh \in Nat
  BY Parts
<1>2. CASE End(t)
  BY <1>2, EndQuiet
<1>3. CASE ~ End(t)
  <2> DEFINE r == file[Position(file, id)]
             pc == IF edition = "desktop" THEN "identity" ELSE "describe"
  <2>1. Has(file, id) /\ UNCHANGED <<file, hwid, lock, gate, epoch, fresh, gone>>
    BY <1>3 DEF BeginRefresh
  <2>2. r \in Records /\ r.id < fresh /\ r.stamp < fresh
    <3>1. Position(file, id) \in DOMAIN file
      BY <2>1, PositionOf
    <3>2. file \in Seq(Records) /\ DOMAIN file = 1..Len(file)
      BY <1>1, LenProperties DEF TypeOK
    <3> QED
      BY <1>1, <3>1, <3>2, ElementOfSeq DEF Stores, Sound
  <2>3. Becomes(t) /\ task'[t] = [Idle EXCEPT !.pc = pc, !.op = "refresh", !.record = r]
    BY <1>1, <1>3, Assigned DEF BeginRefresh, Become
  <2> HIDE DEF r
  <2>4. /\ task'[t].pc \in {"identity", "describe"} /\ task'[t].op = "refresh"
        /\ task'[t].record = r /\ task'[t].ticket = 0
    BY <2>3 DEF Idle
  <2>5. task'[t] \in Tracks
    <3>1. pc \in PCs
      BY DEF PCs
    <3> HIDE DEF pc
    <3> QED
      BY <2>2, <2>3, <3>1, Values DEF Idle, Tracks
  <2>6. Flow(task[t])' /\ Holds(t)' /\ Staged(task[t])' /\ Adds(task[t])' /\ Migrates(task[t])'
    BY <2>4 DEF Flow, Holds, Staged, Adds, Migrates
  <2>7. Refreshes(task[t])' /\ Checks(task[t])'
    BY <1>1, <2>1, <2>2, <2>4 DEF Refreshes, Checks, TypeOK
  <2> QED
    BY <1>1, <2>1, <2>3, <2>4, <2>5, <2>6, <2>7 DEF Quiet, Still, LockStep, OwnerStep, TypeOK, TaskOK
<1> QED
  BY <1>2, <1>3

\* The locals of an add on the desktop, which has seen the list.
LEMMA AddBegins ==
  ASSUME NEW v, NEW base \in Seq(Records), NEW r \in Records,
         v = [Idle EXCEPT !.pc = "identity", !.op = "add", !.base = base, !.record = r]
  PROVE  /\ v \in Tracks /\ v.pc = "identity" /\ v.op = "add" /\ v.record = r
         /\ v.base = base /\ v.ticket = 0
  BY Values DEF Idle, Tracks, PCs

\* The locals of an add on Android, which has not.
LEMMA EmptyAddBegins ==
  ASSUME NEW v, NEW r \in Records,
         v = [Idle EXCEPT !.pc = "identity", !.op = "add", !.record = r]
  PROVE  /\ v \in Tracks /\ v.pc = "identity" /\ v.op = "add" /\ v.record = r
         /\ v.base = <<>> /\ v.ticket = 0
  BY Values DEF Idle, Tracks, PCs

\* An add draws an id that no record, no other add and no removed record has.
LEMMA BeginAddQuiet ==
  ASSUME IInv, NEW t \in Tasks, NEW url \in Urls, NEW name \in Names, BeginAdd(t, url, name), Still,
         task[t].pc = "idle"
  PROVE  Quiet(t)
<1> DEFINE r == NewRecord(fresh, url, name)
<1>1. TypeOK /\ Stores /\ fresh \in Nat /\ fresh >= FirstId /\ FirstId = 10 /\ epoch \in Nat
  BY Parts
<1>2. r \in Records /\ r.id = fresh /\ r.stamp = 0
  BY <1>1, SubscriptionsAssumption DEF NewRecord, Records
<1>3. fresh \notin Ids(file) \union gone
  BY <1>1 DEF Stores, Sound, Ids
<1>4. Sound(file, fresh + 1) /\ Sound(<<>>, fresh + 1) /\ file \in Seq(Records)
  <2>1. Sound(file, fresh)
    BY <1>1 DEF Stores
  <2>2. <<>> \in Seq(Records) /\ DOMAIN <<>> = {}
    BY EmptySeq
  <2> QED
    BY <1>1, <2>1, <2>2, SoundLater DEF TypeOK, Sound
<1>5. /\ file' = file /\ hwid' = hwid /\ gate' = gate /\ epoch' = epoch /\ gone' = gone
      /\ fresh' = fresh + 1
      /\ lock = Nobody /\ (lock' = lock \/ lock' = t)
  BY DEF BeginAdd
<1> HIDE DEF r
<1>6. CASE task' = [task EXCEPT ![t] = Idle] /\ lock' = lock
  <2>1. Becomes(t) /\ task'[t] = Idle
    BY <1>1, <1>6, Assigned
  <2>2. Flow(task[t])' /\ Holds(t)'
    BY <2>1 DEF Flow, Holds, Idle
  <2>3. TaskOK(t)'
    BY <1>1, <1>5, <2>1, <2>2, PlainOK DEF Idle
  <2> QED
    BY <1>1, <1>5, <1>6, <2>1, <2>3, Values DEF Quiet, Still, LockStep, OwnerStep, TypeOK, Idle
<1>7. ASSUME NEW base \in {file, <<>>}, NEW v,
             \/ v = [Idle EXCEPT !.pc = "identity", !.op = "add", !.base = base, !.record = r]
             \/ v = [Idle EXCEPT !.pc = "identity", !.op = "add", !.record = r] /\ base = <<>>,
             task' = [task EXCEPT ![t] = v]
      PROVE  Quiet(t)
  <2>1. base \in Seq(Records) /\ Sound(base, fresh')
    BY <1>4, <1>5 DEF Sound
  <2>2. Becomes(t) /\ task'[t] = v
    BY <1>1, <1>7, Assigned
  <2>3. /\ v \in Tracks /\ v.pc = "identity" /\ v.op = "add" /\ v.record = r
        /\ v.base = base /\ v.ticket = 0
    <3>1. CASE v = [Idle EXCEPT !.pc = "identity", !.op = "add", !.base = base, !.record = r]
      <4>1. r \in Records
        BY <1>2
      <4>2. base \in Seq(Records)
        BY <2>1
      <4> QED
        BY <3>1, <4>1, <4>2, Values DEF Idle, Tracks, PCs
    <3>2. CASE v = [Idle EXCEPT !.pc = "identity", !.op = "add", !.record = r] /\ base = <<>>
      BY <1>2, <3>2, EmptyAddBegins, Zenon
    <3> QED
      BY <1>7, <3>1, <3>2
  <2>5. /\ Flow(task[t])' /\ Holds(t)' /\ Staged(task[t])' /\ Refreshes(task[t])'
        /\ Migrates(task[t])'
    BY <2>2, <2>3 DEF Flow, Holds, Staged, Refreshes, Migrates
  <2>6. Adds(task[t])'
    BY <1>1, <1>2, <1>3, <1>5, <2>1, <2>2, <2>3 DEF Adds
  <2>7. Checks(task[t])'
    BY <1>1, <1>5, <2>2, <2>3 DEF Checks
  <2> QED
    BY <1>1, <1>2, <1>5, <2>2, <2>3, <2>5, <2>6, <2>7
    DEF Quiet, Still, LockStep, OwnerStep, TypeOK, TaskOK
<1>8. CASE edition = "desktop"
  BY <1>6, <1>7, <1>8 DEF BeginAdd, Become, r
<1>9. CASE edition # "desktop"
  BY <1>7, <1>9 DEF BeginAdd, Become, r
<1> QED
  BY <1>8, <1>9

\* resolve_child_profile copies the record that is stored, under the lock.
LEMMA ResolveQuiet ==
  ASSUME IInv, NEW t \in Tasks, NEW id, NEW key, Resolve(t, id, key), Still, id \in Nat
  PROVE  Quiet(t)
<1>1. TypeOK /\ Stores /\ Gates /\ TaskOK(t) /\ task[t] \in Tracks /\ epoch \in Nat
  BY Parts
<1>2. CASE End(t)
  BY <1>2, EndQuiet DEF Resolve
<1>3. CASE ~ End(t)
  <2> DEFINE stamp == file[Position(file, id)].stamp
  <2>1. /\ Has(file, id) /\ UNCHANGED <<file, hwid, lock, gate, epoch, fresh, gone>>
        /\ task[t].pc = "resolve" /\ lock = Nobody
    BY <1>3 DEF Resolve
  <2>2. stamp \in Nat
    <3>1. Position(file, id) \in DOMAIN file
      BY <2>1, PositionOf
    <3>2. file \in Seq(Records) /\ DOMAIN file = 1..Len(file)
      BY <1>1, LenProperties DEF TypeOK
    <3>3. file[Position(file, id)] \in Records
      BY <3>1, <3>2, ElementOfSeq
    <3> QED
      BY <3>3 DEF Records
  <2>3. Becomes(t) /\ task'[t] = [task[t] EXCEPT !.pc = "handoff", !.id = id, !.content = stamp]
    BY <1>1, <1>3, Assigned DEF Resolve, Become
  <2>4. Has(file, id) /\ stamp = file[Position(file, id)].stamp
    BY <2>1
  <2> HIDE DEF stamp
  <2>5. /\ task'[t].pc = "handoff" /\ task'[t].op = task[t].op /\ task'[t].ticket = task[t].ticket
        /\ task'[t].id = id /\ task'[t].content = stamp
    BY <1>1, <2>3 DEF Tracks
  <2>6. task'[t] \in Tracks
    BY <1>1, <2>2, <2>3 DEF Tracks, PCs
  <2>7. task[t].op = "none" /\ gate.writer = Nobody
    BY <1>1, <2>1 DEF TaskOK, Flow, Gates
  <2>8. /\ Flow(task[t])' /\ Holds(t)' /\ Staged(task[t])' /\ Adds(task[t])'
        /\ Refreshes(task[t])' /\ Migrates(task[t])'
    BY <2>5, <2>7 DEF Flow, Holds, Staged, Adds, Refreshes, Migrates
  <2>9. Checks(task[t])'
    BY <1>1, <2>1, <2>4, <2>5, <2>7 DEF Checks, Current, TaskOK
  <2> QED
    BY <1>1, <2>1, <2>3, <2>5, <2>6, <2>7, <2>8, <2>9
    DEF Quiet, Still, LockStep, OwnerStep, TypeOK, TaskOK
<1> QED
  BY <1>2, <1>3

\* migrate_legacy takes an input whose id its list does not have, or is done.
LEMMA NextInputQuiet ==
  ASSUME IInv, NEW t \in Tasks, NextInput(t), Still
  PROVE  Quiet(t)
<1> DEFINE w == task[t]  l == Legacy[w.input]  r == NewRecord(l.id, l.url, "Subscription")
<1>1. TypeOK /\ TaskOK(t) /\ w \in Tracks /\ fresh \in Nat /\ fresh >= FirstId /\ FirstId = 10
      /\ epoch \in Nat
  BY Parts
<1>2. /\ UNCHANGED <<file, hwid, lock, gate, epoch, fresh, gone>>
      /\ w.pc = "input" /\ w.op = "migrate"
  BY <1>1 DEF NextInput, TaskOK, Flow
<1>3. CASE task' = [task EXCEPT ![t] = [w EXCEPT !.pc = "commit"]]
  <2>1. Becomes(t) /\ task'[t] = [w EXCEPT !.pc = "commit"]
    BY <1>1, <1>3, Assigned
  <2>2. task'[t] \in Tracks /\ task'[t].pc = "commit" /\ Kept(w, task'[t])
    BY <1>1, <2>1, Moves DEF PCs
  <2>3. Flow(task[t])' /\ Holds(t)' /\ task'[t].op = "migrate"
    BY <1>2, <2>2 DEF Flow, Holds, Kept
  <2>4. TaskOK(t)' /\ OwnerStep(t)
    BY <1>2, <2>1, <2>2, <2>3, GoesOn
  <2> QED
    BY <1>1, <1>2, <2>1, <2>2, <2>4 DEF Quiet, Still, LockStep, TypeOK
<1>4. CASE task' = [task EXCEPT ![t] = [w EXCEPT !.input = w.input + 1]]
  <2>1. Becomes(t) /\ task'[t] = [w EXCEPT !.input = w.input + 1]
    BY <1>1, <1>4, Assigned
  <2>2. task'[t].pc = "input" /\ Kept(w, task'[t])
    BY <1>1, <1>2, <2>1 DEF Tracks, Kept
  <2>3. task'[t] \in Tracks
    <3>1. w.input + 1 \in Nat
      BY <1>1 DEF Tracks
    <3> QED
      BY <1>1, <2>1, <3>1 DEF Tracks
  <2>4. Flow(task[t])' /\ Holds(t)' /\ task'[t].op = "migrate"
    BY <1>2, <2>2 DEF Flow, Holds, Kept
  <2>5. TaskOK(t)' /\ OwnerStep(t)
    BY <1>2, <2>1, <2>2, <2>4, GoesOn
  <2> QED
    BY <1>1, <1>2, <2>1, <2>2, <2>3, <2>5 DEF Quiet, Still, LockStep, TypeOK
<1>5. CASE /\ w.input \in 1..Len(Legacy) /\ ~ Has(w.next, l.id)
           /\ task' = [task EXCEPT ![t] = [w EXCEPT !.pc = "identity", !.record = r]]
  <2>1. Becomes(t) /\ task'[t] = [w EXCEPT !.pc = "identity", !.record = r]
    BY <1>1, <1>5, Assigned
  <2>2. l.id \in LegacyIds /\ l.id \in Nat /\ l.url \in Texts
    <3>1. Legacy \in Seq([id : 1 .. (FirstId - 1), url : Texts])
      BY SubscriptionsAssumption
    <3>2. DOMAIN Legacy = 1..Len(Legacy) /\ l \in [id : 1 .. (FirstId - 1), url : Texts]
      BY <1>5, <3>1, LenProperties, ElementOfSeq
    <3> QED
      BY <1>1, <1>5, <3>2 DEF LegacyIds
  <2>3. r \in Records /\ r.id = l.id /\ r.stamp = 0
    BY <2>2, SubscriptionsAssumption DEF NewRecord, Records
  <2> HIDE DEF r, l
  <2>4. /\ task'[t].pc = "identity" /\ task'[t].op = w.op /\ task'[t].base = w.base
        /\ task'[t].next = w.next /\ task'[t].record = r /\ task'[t].ticket = w.ticket
        /\ task'[t].input = w.input
    BY <1>1, <2>1 DEF Tracks
  <2>5. task'[t] \in Tracks
    BY <1>1, <2>1, <2>3 DEF Tracks, PCs
  <2>6. /\ Flow(task[t])' /\ Holds(t)' /\ Staged(task[t])' /\ Adds(task[t])'
        /\ Refreshes(task[t])'
    BY <1>2, <2>4 DEF Flow, Holds, Staged, Adds, Refreshes
  <2>7. Checks(task[t])'
    BY <1>1, <1>2, <2>4 DEF Checks, TaskOK
  <2>8. l.id \in LegacyIds \ Ids(w.next)
    BY <1>5, <2>2 DEF Has, Ids
  <2>9. Migrates(task[t])'
    BY <1>1, <1>2, <2>3, <2>4, <2>8 DEF Migrates, TaskOK
  <2> QED
    BY <1>1, <1>2, <2>1, <2>4, <2>5, <2>6, <2>7, <2>9
    DEF Quiet, Still, LockStep, OwnerStep, TypeOK, TaskOK
<1>6. w.input \in Nat /\ w.input # 0
  BY <1>1, <1>2 DEF Tracks, TaskOK, Migrates
<1>7. Len(Legacy) \in Nat
  BY SubscriptionsAssumption, LenProperties
<1> QED
  BY <1>3, <1>4, <1>5, <1>6, <1>7 DEF NextInput, Become

\* What the answer p makes of the record of t, at the time it arrives.
LEMMA AnswerIs ==
  ASSUME IInv, NEW r \in Records, r.stamp < fresh, NEW p \in Payloads, NEW c,
         c = Candidate(r, p, fresh), fresh' = fresh + 1
  PROVE  /\ c \in Records /\ c.id = r.id /\ c.stamp < fresh' /\ Consistent(c)
         /\ Promise!ByProvider(r, c)
<1>1. fresh \in Nat
  BY DEF IInv, TypeOK
<1> QED
  BY <1>1, CandidateIs

\* An answer makes a candidate, or extends the list of a migration.
LEMMA AnswerQuiet ==
  ASSUME IInv, NEW t \in Tasks, NEW p \in Payloads, Answer(t, p), Still
  PROVE  Quiet(t)
<1> DEFINE w == task[t]  c == Candidate(w.record, p, fresh)
<1>1. /\ TypeOK /\ TaskOK(t) /\ w \in Tracks /\ fresh \in Nat /\ fresh >= FirstId
      /\ FirstId = 10 /\ epoch \in Nat
  BY Parts
<1>2. /\ UNCHANGED <<file, hwid, lock, gate, epoch, gone>> /\ fresh' = fresh + 1
      /\ w.pc = "request" /\ w.op \in {"add", "refresh", "migrate"}
  BY <1>1 DEF Answer, TaskOK, Flow
<1>3. w.record \in Records /\ w.record.id \in Nat /\ w.record.stamp \in Nat /\ w.record.stamp < fresh
  BY <1>1, <1>2 DEF Tracks, Records, TaskOK, Adds, Refreshes, Migrates
<1>4. /\ c \in Records /\ c.id = w.record.id /\ c.stamp < fresh + 1 /\ Consistent(c)
      /\ Promise!ByProvider(w.record, c)
  BY <1>2, <1>3, AnswerIs
<1>5. /\ Sound(w.base, fresh) => Sound(w.base, fresh + 1)
      /\ Sound(w.next, fresh) => Sound(w.next, fresh + 1)
  BY <1>1, SoundLater
<1>6. edition \in {"desktop", "android"}
  BY <1>1 DEF TypeOK
<1> HIDE DEF c
<1>7. CASE w.op # "migrate" /\ edition = "desktop"
  <2>1. task' = [task EXCEPT ![t] = [w EXCEPT !.pc = "commit", !.cand = c]]
    BY <1>7 DEF Answer, Become, c
  <2>2. Becomes(t) /\ task'[t] = [w EXCEPT !.pc = "commit", !.cand = c]
    BY <1>1, <2>1, Assigned
  <2>3. task'[t] \in Tracks /\ task'[t].pc = "commit" /\ task'[t].cand = c /\ Kept(w, task'[t])
    BY <1>1, <1>4, <2>2 DEF Tracks, PCs, Kept
  <2>4. /\ Flow(task[t])' /\ Holds(t)' /\ Staged(task[t])' /\ Migrates(task[t])'
    BY <1>2, <1>7, <2>3 DEF Flow, Holds, Staged, Migrates, Kept
  <2>5. Checks(task[t])'
    BY <1>1, <1>2, <2>3 DEF Checks, TaskOK, Kept
  <2>6. Adds(task[t])'
    BY <1>1, <1>2, <1>3, <1>4, <1>5, <2>3 DEF Adds, TaskOK, Kept
  <2>7. Refreshes(task[t])'
    BY <1>1, <1>2, <1>3, <1>4, <2>3 DEF Refreshes, Answered, TaskOK, Kept
  <2> QED
    BY <1>1, <1>2, <1>7, <2>2, <2>3, <2>4, <2>5, <2>6, <2>7
    DEF Quiet, Still, LockStep, OwnerStep, TypeOK, TaskOK, Kept
<1>8. CASE w.op # "migrate" /\ edition = "android"
  <2> DEFINE pc == IF w.op = "add" THEN "check" ELSE "read"
  <2>1. task' = [task EXCEPT ![t] = [w EXCEPT !.pc = pc, !.answer = p]]
    BY <1>8 DEF Answer, Become
  <2>2. pc \in {"check", "read"}
    OBVIOUS
  <2> HIDE DEF pc
  <2>3. Becomes(t) /\ task'[t] = [w EXCEPT !.pc = pc, !.answer = p]
    BY <1>1, <2>1, Assigned
  <2>4. task'[t] \in Tracks /\ task'[t].pc = pc /\ task'[t].answer = p /\ Kept(w, task'[t])
    <3>1. p \in [kind : Kinds, size : Nat, title : Texts]
      BY SubscriptionsAssumption
    <3>2. pc \in PCs
      BY <2>2 DEF PCs
    <3>3. task'[t] \in Tracks
      BY <1>1, <2>3, <3>1, <3>2 DEF Tracks
    <3> QED
      BY <1>1, <2>3, <3>3 DEF Tracks, Kept
  <2>5. Flow(task[t])' /\ Holds(t)' /\ task'[t].op # "migrate"
    BY <1>2, <1>8, <2>2, <2>4 DEF Flow, Holds, Kept
  <2>6. TaskOK(t)' /\ OwnerStep(t)
    BY <1>2, <2>2, <2>3, <2>4, <2>5, GoesOn
  <2> QED
    BY <1>1, <1>2, <2>2, <2>3, <2>4, <2>6 DEF Quiet, Still, LockStep, TypeOK
<1>9. CASE w.op = "migrate"
  <2> DEFINE next == Append(w.next, c)
  <2>1. task' = [task EXCEPT ![t] = [w EXCEPT !.pc = "input", !.input = w.input + 1,
                                              !.record = NoRecord, !.next = next]]
    BY <1>9 DEF Answer, Become, c
  <2>2. /\ Sound(w.base, fresh + 1) /\ Sound(w.next, fresh + 1)
        /\ w.record.id \in LegacyIds /\ w.record.id \notin Ids(w.next)
        /\ w.record.id < fresh + 1 /\ w.input >= 1 /\ w.input \in Nat
        /\ Len(w.next) >= Len(w.base) /\ SubSeq(w.next, 1, Len(w.base)) = w.base
        /\ Ids(w.next) \subseteq Ids(w.base) \union LegacyIds
        /\ (Ids(file) \union gone) \intersect LegacyIds \subseteq Ids(w.base)
    <3>1. Migrates(w) /\ w.input \in Nat
      BY <1>1 DEF TaskOK, Tracks
    <3>2. w.record.id < fresh + 1
      BY <1>1, <1>2, <1>3, <1>9, <3>1, Values DEF Migrates
    <3> QED
      BY <1>2, <1>5, <1>9, <3>1, <3>2 DEF Migrates
  <2>3. /\ Sound(next, fresh + 1) /\ Ids(next) = Ids(w.next) \union {w.record.id}
        /\ Len(next) = Len(w.next) + 1
        /\ \A k \in 0..Len(w.next) : SubSeq(next, 1, k) = SubSeq(w.next, 1, k)
    BY <1>1, <1>3, <1>4, <2>2, SoundAppend
  <2>4. Len(w.next) \in Nat /\ Len(w.base) \in Nat /\ next \in Seq(Records)
    BY <2>2, <2>3, LenProperties DEF Sound
  <2> HIDE DEF next
  <2>5. Becomes(t) /\ task'[t] = [w EXCEPT !.pc = "input", !.input = w.input + 1,
                                           !.record = NoRecord, !.next = next]
    BY <1>1, <2>1, Assigned
  <2>6. /\ task'[t] \in Tracks /\ task'[t].pc = "input" /\ task'[t].op = w.op
        /\ task'[t].base = w.base /\ task'[t].next = next /\ task'[t].ticket = w.ticket
        /\ task'[t].input = w.input + 1
    <3>1. NoRecord \in Records /\ w.input + 1 \in Nat
      BY <2>2, Values
    <3>2. task'[t] \in Tracks
      BY <1>1, <2>4, <2>5, <3>1 DEF Tracks, PCs
    <3> QED
      BY <1>1, <2>5, <3>2 DEF Tracks
  <2>7. SubSeq(next, 1, Len(w.base)) = w.base /\ Len(next) >= Len(w.base) /\ w.input + 1 >= 1
    BY <2>2, <2>3, <2>4
  <2>8. Migrates(task[t])'
    BY <1>2, <2>2, <2>3, <2>6, <2>7 DEF Migrates
  <2>9. /\ Flow(task[t])' /\ Holds(t)' /\ Staged(task[t])' /\ Adds(task[t])' /\ Refreshes(task[t])'
    BY <1>9, <2>6 DEF Flow, Holds, Staged, Adds, Refreshes
  <2>10. Checks(task[t])'
    BY <1>1, <1>2, <2>6 DEF Checks, TaskOK
  <2> QED
    BY <1>1, <1>2, <1>9, <2>5, <2>6, <2>8, <2>9, <2>10
    DEF Quiet, Still, LockStep, OwnerStep, TypeOK, TaskOK
<1> QED
  BY <1>6, <1>7, <1>8, <1>9

\* Android takes the list or the record only when the body is there.
LEMMA ReadAgainQuiet ==
  ASSUME IInv, NEW t \in Tasks, ReadAgain(t), Still
  PROVE  Quiet(t)
<1> DEFINE w == task[t]
           r == IF w.op = "add" THEN w.record ELSE file[Position(file, w.record.id)]
           c == Candidate(r, w.answer, fresh)
           base == IF w.op = "add" THEN file ELSE <<>>
<1>1. /\ TypeOK /\ Stores /\ TaskOK(t) /\ w \in Tracks /\ fresh \in Nat /\ fresh >= FirstId
      /\ FirstId = 10 /\ epoch \in Nat
  BY Parts
<1>2. CASE End(t)
  BY <1>2, EndQuiet DEF ReadAgain
<1>3. CASE ~ End(t)
  <2>1. /\ UNCHANGED <<file, hwid, lock, gate, epoch, gone>> /\ fresh' = fresh + 1
        /\ w.pc = "read" /\ w.op \in {"add", "refresh"} /\ w.answer \in Payloads
        /\ w.op = "refresh" => Has(file, w.record.id)
    BY <1>1, <1>3 DEF ReadAgain, TaskOK, Flow
  <2>2. task' = [task EXCEPT ![t] = [w EXCEPT !.pc = "commit", !.record = r, !.answer = NoAnswer,
                                              !.base = base, !.cand = c]]
    BY <1>3 DEF ReadAgain, Become
  <2>3. r \in Records /\ r.id < fresh /\ r.stamp < fresh
    <3>1. CASE w.op = "add"
      BY <1>1, <3>1 DEF TaskOK, Adds, Tracks
    <3>2. CASE w.op = "refresh"
      <4>1. Position(file, w.record.id) \in DOMAIN file
        BY <2>1, <3>2, PositionOf
      <4>2. file \in Seq(Records) /\ DOMAIN file = 1..Len(file)
        BY <1>1, LenProperties DEF TypeOK
      <4>3. r = file[Position(file, w.record.id)]
        BY <3>2
      <4> QED
        BY <1>1, <4>1, <4>2, <4>3, ElementOfSeq DEF Stores, Sound
    <3> QED
      BY <2>1, <3>1, <3>2
  <2>4. w.op = "add" => r = w.record /\ base = file
    OBVIOUS
  <2>5. base \in Seq(Records) /\ Sound(base, fresh + 1)
    <3>1. <<>> \in Seq(Records) /\ DOMAIN <<>> = {}
      BY EmptySeq
    <3>2. Sound(file, fresh + 1) /\ Sound(<<>>, fresh + 1)
      BY <1>1, <3>1, SoundLater DEF Stores, Sound
    <3> QED
      BY <1>1, <3>1, <3>2 DEF TypeOK
  <2> HIDE DEF r, base
  <2>6. /\ c \in Records /\ c.id = r.id /\ c.stamp < fresh + 1 /\ Consistent(c)
        /\ Promise!ByProvider(r, c)
    BY <2>1, <2>3, AnswerIs
  <2>7. r.id \in Nat /\ r.stamp \in Nat /\ r.id < fresh + 1 /\ r.stamp < fresh + 1
    BY <1>1, <2>3 DEF Records
  <2> HIDE DEF c
  <2>8. Becomes(t) /\ task'[t] = [w EXCEPT !.pc = "commit", !.record = r, !.answer = NoAnswer,
                                           !.base = base, !.cand = c]
    BY <1>1, <2>2, Assigned
  <2>9. /\ task'[t] \in Tracks /\ task'[t].pc = "commit" /\ task'[t].op = w.op
        /\ task'[t].record = r /\ task'[t].base = base /\ task'[t].cand = c
        /\ task'[t].ticket = w.ticket
    <3>1. NoAnswer \in [kind : Kinds, size : Nat, title : Texts]
      BY SubscriptionsAssumption DEF NoAnswer, Kinds
    <3>2. r \in Records /\ base \in Seq(Records) /\ c \in Records
      BY <2>3, <2>5, <2>6
    <3>3. task'[t] \in Tracks
      BY <1>1, <2>8, <3>1, <3>2 DEF Tracks, PCs
    <3> QED
      BY <1>1, <2>8, <3>3 DEF Tracks
  <2>10. /\ Flow(task[t])' /\ Holds(t)' /\ Staged(task[t])' /\ Migrates(task[t])'
    BY <2>1, <2>9 DEF Flow, Holds, Staged, Migrates
  <2>11. Checks(task[t])'
    BY <1>1, <2>1, <2>9 DEF Checks, TaskOK
  <2>12. Adds(task[t])'
    BY <1>1, <2>1, <2>4, <2>5, <2>6, <2>7, <2>9 DEF Adds, TaskOK
  <2>13. Refreshes(task[t])'
    BY <2>1, <2>6, <2>7, <2>9 DEF Refreshes, Answered
  <2> QED
    BY <1>1, <2>1, <2>4, <2>8, <2>9, <2>10, <2>11, <2>12, <2>13
    DEF Quiet, Still, LockStep, OwnerStep, TypeOK, TaskOK
<1> QED
  BY <1>2, <1>3

-----------------------------------------------------------------------------
(* A change is staged: by an edit, or by the end of a fetch.               *)

\* What Staged wants of a list before the task that computed it holds the gate.
Ready(t, next, removed) ==
    /\ Sound(next, fresh)
    /\ next = file \/ Promise!Added(file, next) \/ Promise!Removed(file, next)
         \/ Promise!Changed(file, next)
    /\ removed \subseteq Ids(file)
    /\ Ids(next) \intersect (gone \union removed) = {}
    /\ \A u \in Tasks \ {t} : task[u].op = "add" => task[u].record.id \notin Ids(next)
    /\ (\E u \in Tasks \ {t} : task[u].op = "migrate") =>
          Ids(next) \intersect LegacyIds \subseteq Ids(file)

\* What the invariant says of the file.
LEMMA Typed ==
  ASSUME IInv
  PROVE  /\ file \in Seq(Records) /\ DOMAIN file = 1..Len(file) /\ Len(file) \in Nat
         /\ \A i \in DOMAIN file : file[i] \in Records
         /\ Ids(file) \subseteq Nat
         /\ Sound(file, fresh) /\ gone \intersect Ids(file) = {}
<1>1. file \in Seq(Records) /\ DOMAIN file = 1..Len(file) /\ Len(file) \in Nat
  BY LenProperties DEF IInv, TypeOK
<1>2. \A i \in DOMAIN file : file[i] \in Records
  BY <1>1, ElementOfSeq
<1>3. Ids(file) \subseteq Nat
  BY <1>2 DEF Ids, Records
<1> QED
  BY <1>1, <1>2, <1>3 DEF IInv, Stores

\* replace_all up to the file: a list that is ready may be staged, or is refused.
LEMMA StageKeeps ==
  ASSUME IInv, NEW t \in Tasks, NEW next, NEW removed, Ready(t, next, removed),
         Stage(t, next, removed), lock = Nobody, task[t].pc # "write", Still
  PROVE  IInv'
<1>1. TypeOK /\ Stores /\ Gates /\ Alone /\ TaskOK(t) /\ epoch \in Nat /\ t # Nobody
  BY Parts
<1>2. \A u \in Tasks : TaskOK(u)
  BY DEF IInv
<1>3. CASE End(t)
  BY <1>3, EndQuiet, QuietKeeps
<1>4. CASE ~ End(t)
  <2>1. /\ gate.writer = Nobody /\ gate.readers = {} /\ gate' = [gate EXCEPT !.writer = t]
        /\ epoch' = epoch + 1 /\ lock' = t /\ UNCHANGED <<file, hwid, fresh, gone>>
        /\ task' = [task EXCEPT ![t] = [Idle EXCEPT !.pc = "write", !.next = next, !.removed = removed]]
    BY <1>4 DEF Stage, Open, Become
  <2>2. gate'.writer = t /\ gate'.readers = {}
        /\ gate' \in [writer : Tasks \union {Nobody}, readers : SUBSET Tasks]
    BY <1>1, <2>1 DEF TypeOK
  <2>3. Becomes(t) /\ task'[t] = [Idle EXCEPT !.pc = "write", !.next = next, !.removed = removed]
    BY <1>1, <2>1, Assigned
  <2>4. /\ task'[t].pc = "write" /\ task'[t].op = "none" /\ task'[t].next = next
        /\ task'[t].removed = removed /\ task'[t].ticket = 0
    BY <2>3 DEF Idle
  <2>5. task'[t] \in Tracks
    <3>1. next \in Seq(Records) /\ removed \in SUBSET Nat
      BY Typed DEF Ready, Sound
    <3> QED
      BY <2>3, <3>1, Values DEF Tracks, PCs
  <2>6. \A u \in Tasks : u # t => task'[u] = task[u]
    BY <1>1, <2>3, Others
  <2>7. TypeOK'
    <3>1. task' \in [Tasks -> Tracks]
      BY <1>1, <2>3, <2>5 DEF TypeOK, Becomes
    <3> QED
      BY <1>1, <2>1, <2>2, <3>1 DEF TypeOK, Still
  <2>8. Stores'
    BY <1>1, <2>1 DEF Stores
  <2>9. Gates'
    BY <2>1, <2>2, <2>4 DEF Gates
  <2>10. Alone'
    BY <1>1, <2>4, <2>6 DEF Alone
  <2>11. TaskOK(t)'
    <3>1. /\ Flow(task[t])' /\ Holds(t)' /\ Adds(task[t])' /\ Refreshes(task[t])'
          /\ Migrates(task[t])'
      BY <2>1, <2>2, <2>4 DEF Flow, Holds, Adds, Refreshes, Migrates
    <3>2. Checks(task[t])'
      BY <1>1, <2>1, <2>4 DEF Checks
    <3>3. \A u \in Tasks : task'[u].op = "add" => task'[u].record.id \notin Ids(next)
      BY <2>4, <2>6 DEF Ready
    <3>4. (\E u \in Tasks : task'[u].op = "migrate") =>
             Ids(next) \intersect LegacyIds \subseteq Ids(file)
      BY <2>4, <2>6 DEF Ready
    <3>5. Staged(task[t])'
      BY <2>1, <2>4, <3>3, <3>4 DEF Staged, Ready
    <3> QED
      BY <3>1, <3>2, <3>5 DEF TaskOK
  <2>12. ASSUME NEW u \in Tasks, u # t
         PROVE  TaskOK(u)'
    <3>1. task'[u] = task[u] /\ TaskOK(u)
      BY <1>2, <2>6, <2>12
    <3>2. Flow(task[u])' /\ Adds(task[u])' /\ Refreshes(task[u])' /\ Migrates(task[u])'
      BY <1>1, <2>1, <2>3, <2>12, <3>1, OwnsLater DEF TaskOK
    <3>3. task[u].pc # "write" /\ Holds(u)'
      BY <1>1, <2>1, <3>1, Values DEF TaskOK, Holds
    <3>4. task[u].ticket \in Nat
      BY <1>1 DEF TypeOK, Tracks
    <3>5. Checks(task[u])'
      <4>1. task[u].pc # "launch"
        BY <2>1, <3>1 DEF TaskOK, Holds
      <4>2. task[u].ticket <= epoch
        BY <3>1 DEF TaskOK, Checks
      <4>3. task[u].ticket <= epoch' /\ task[u].ticket # epoch'
        BY <1>1, <2>1, <3>4, <4>2
      <4> QED
        BY <3>1, <4>1, <4>3 DEF Checks
    <3>6. Staged(task[u])'
      BY <3>1, <3>3 DEF Staged
    <3> QED
      BY <3>2, <3>3, <3>5, <3>6 DEF TaskOK
  <2> QED
    BY <2>7, <2>8, <2>9, <2>10, <2>11, <2>12 DEF IInv
<1> QED
  BY <1>3, <1>4

\* A record is replaced by one of the same id that the user or the provider may make of it.
LEMMA ReplaceReady ==
  ASSUME IInv, NEW t \in Tasks, NEW i \in DOMAIN file, NEW r \in Records, Consistent(r),
         r.id = file[i].id, r.stamp < fresh,
         Promise!ByUser(file[i], r) \/ Promise!ByProvider(file[i], r)
  PROVE  Ready(t, [file EXCEPT ![i] = r], {})
<1> DEFINE next == [file EXCEPT ![i] = r]
<1>1. TypeOK /\ Stores /\ fresh \in Nat
  BY Parts
<1>2. /\ file \in Seq(Records) /\ Sound(file, fresh) /\ gone \intersect Ids(file) = {}
      /\ \A u \in Tasks : TaskOK(u)
  BY Typed DEF IInv
<1>3. Sound(next, fresh) /\ Ids(next) = Ids(file)
  BY <1>1, <1>2, SoundReplace
<1>4. next[i] = r
  BY <1>2
<1> HIDE DEF next
<1>5. next = [file EXCEPT ![i] = next[i]]
  BY <1>4 DEF next
<1>6. Promise!Changed(file, next)
  BY <1>4, <1>5 DEF Promise!Changed
<1>7. \A u \in Tasks : task[u].op = "add" => task[u].record.id \notin Ids(next)
  BY <1>2, <1>3 DEF TaskOK, Adds
<1>8. Ready(t, next, {})
  BY <1>2, <1>3, <1>6, <1>7 DEF Ready
<1> QED
  BY <1>8 DEF next

\* The list without one record is one step of the promise from the file.
LEMMA DiscardReady ==
  ASSUME IInv, NEW t \in Tasks, NEW i \in DOMAIN file
  PROVE  Ready(t, RemoveAt(file, i), {file[i].id})
<1> DEFINE next == RemoveAt(file, i)
<1>1. TypeOK /\ Stores /\ fresh \in Nat
  BY Parts
<1>2. /\ file \in Seq(Records) /\ Sound(file, fresh) /\ gone \intersect Ids(file) = {}
      /\ \A u \in Tasks : TaskOK(u)
  BY Typed DEF IInv
<1>3. Sound(next, fresh) /\ Ids(next) = Ids(file) \ {file[i].id}
  BY <1>1, <1>2, SoundRemove
<1>4. Promise!Removed(file, next)
  BY DEF Promise!Removed, RemoveAt
<1> HIDE DEF next
<1>5. file[i].id \in Ids(file)
  BY DEF Ids
<1>6. \A u \in Tasks : task[u].op = "add" => task[u].record.id \notin Ids(next)
  BY <1>2, <1>3 DEF TaskOK, Adds
<1>7. Ready(t, next, {file[i].id})
  BY <1>2, <1>3, <1>4, <1>5, <1>6 DEF Ready
<1> QED
  BY <1>7 DEF next

\* remove, rename, set_interval and select_child load, change and store under one lock.
LEMMA EditKeeps ==
  ASSUME IInv, NEW t \in Tasks, NEW id, Edit(t, id), task[t].pc = "idle", Still
  PROVE  IInv'
<1> DEFINE i == Position(file, id)  r == file[i]
<1>1. lock = Nobody
  BY DEF Edit
<1>2. CASE End(t)
  BY <1>2, EndQuiet, QuietKeeps
<1>3. CASE Has(file, id) /\ ~ End(t)
  <2>1. i \in DOMAIN file /\ r.id = id
    BY <1>3, PositionOf
  <2>2. r \in Records /\ Consistent(r) /\ r.stamp < fresh
    BY <2>1, Typed DEF Sound
  <2>3. ASSUME NEW new \in Records, Consistent(new), new.id = r.id, new.stamp = r.stamp,
               Promise!ByUser(r, new), Replace(t, id, new)
        PROVE  IInv'
    <3>1. Ready(t, [file EXCEPT ![i] = new], {})
      BY <2>1, <2>2, <2>3, ReplaceReady
    <3> QED
      BY <1>1, <2>3, <3>1, StageKeeps DEF Replace
  <2>4. CASE Discard(t, id)
    BY <1>1, <2>1, <2>4, DiscardReady, StageKeeps DEF Discard
  <2> HIDE DEF i, r
  <2>5. CASE SetInterval(t, id)
    <3> DEFINE new == [r EXCEPT !.interval = 15]
    <3>1. new \in Records /\ new.id = r.id /\ new.stamp = r.stamp /\ Consistent(new)
      BY <2>2 DEF Records, Consistent
    <3>2. Promise!ByUser(r, new)
      BY <2>2 DEF Records, Promise!ByUser, Promise!OwnedByProvider
    <3>3. Replace(t, id, new)
      BY <2>5 DEF SetInterval, r, i
    <3> QED
      BY <2>3, <3>1, <3>2, <3>3
  <2>6. ASSUME NEW name \in Names, Rename(t, id, name)
        PROVE  IInv'
    <3> DEFINE new == [r EXCEPT !.name = name, !.userNamed = TRUE]
    <3>1. name \in Texts
      BY SubscriptionsAssumption
    <3>2. new \in Records
      BY <2>2, <3>1 DEF Records
    <3>3. new.id = r.id /\ new.stamp = r.stamp /\ Consistent(new)
      BY <2>2 DEF Records, Consistent
    <3>4. Promise!ByUser(r, new)
      BY <2>2 DEF Records, Promise!ByUser, Promise!OwnedByProvider
    <3>5. Replace(t, id, new)
      BY <2>6 DEF Rename, r, i
    <3> QED
      BY <2>3, <3>2, <3>3, <3>4, <3>5
  <2>7. ASSUME NEW key \in Keys, SelectChild(t, id, key)
        PROVE  IInv'
    <3> DEFINE new == [r EXCEPT !.active = key]
    <3>1. key \in 1..r.children /\ Replace(t, id, new)
      BY <1>3, <2>7 DEF SelectChild, r, i
    <3>2. new \in Records /\ new.id = r.id /\ new.stamp = r.stamp
      BY <2>2, <3>1 DEF Records
    <3>3. Consistent(new)
      BY <2>2, <3>1 DEF Records, Consistent
    <3>4. Promise!ByUser(r, new)
      BY <2>2, <3>1 DEF Records, Promise!ByUser, Promise!OwnedByProvider
    <3> QED
      BY <2>3, <3>1, <3>2, <3>3, <3>4
  <2> QED
    BY <1>3, <2>4, <2>5, <2>6, <2>7 DEF Edit
<1> QED
  BY <1>2, <1>3 DEF Edit

\* An add that finds the list as it was appends a record that nobody has.
LEMMA AddReady ==
  ASSUME IInv, NEW t \in Tasks, task[t].op = "add", task[t].pc = "commit", file = task[t].base
  PROVE  Ready(t, Append(file, task[t].cand), {})
<1> DEFINE c == task[t].cand  next == Append(file, c)
<1>1. /\ TypeOK /\ Stores /\ Alone /\ TaskOK(t) /\ task[t] \in Tracks /\ fresh \in Nat
      /\ FirstId = 10
  BY Parts
<1>2. /\ file \in Seq(Records) /\ Sound(file, fresh) /\ gone \intersect Ids(file) = {}
      /\ \A u \in Tasks : TaskOK(u)
  BY Typed DEF IInv
<1>3. /\ c \in Records /\ Consistent(c) /\ c.stamp < fresh /\ c.id = task[t].record.id
      /\ c.id < fresh /\ c.id >= FirstId /\ c.id \notin Ids(file) \union gone
  BY <1>1 DEF TaskOK, Adds, Tracks
<1> HIDE DEF c
<1>4. /\ Sound(next, fresh) /\ Ids(next) = Ids(file) \union {c.id} /\ Len(next) = Len(file) + 1
      /\ \A k \in 0..Len(file) : SubSeq(next, 1, k) = SubSeq(file, 1, k)
  BY <1>1, <1>2, <1>3, SoundAppend
<1>5. Len(file) \in Nat /\ SubSeq(file, 1, Len(file)) = file
  BY <1>2, LenProperties, SubSeqFull
<1> HIDE DEF next
<1>6. SubSeq(next, 1, Len(file)) = file /\ Len(next) > Len(file)
  BY <1>4, <1>5
<1>7. Promise!Added(file, next)
  BY <1>4, <1>6 DEF Promise!Added, Sound
<1>8. \A u \in Tasks \ {t} : task[u].op = "add" => task[u].record.id \notin Ids(next)
  BY <1>1, <1>2, <1>3, <1>4 DEF TaskOK, Adds, Alone
<1>9. c.id \notin LegacyIds
  <2>1. c.id \in Nat
    BY <1>3 DEF Records
  <2> QED
    BY <1>1, <1>3, <2>1, Values
<1>10. Ready(t, next, {})
  BY <1>2, <1>3, <1>4, <1>7, <1>8, <1>9 DEF Ready
<1> QED
  BY <1>10 DEF next, c

\* A migration that finds the list as it was extends it; nothing it adds was removed.
LEMMA MigrateReady ==
  ASSUME IInv, NEW t \in Tasks, task[t].op = "migrate", task[t].pc = "commit", file = task[t].base
  PROVE  Ready(t, task[t].next, {})
<1> DEFINE next == task[t].next
<1>1. /\ TypeOK /\ Stores /\ Alone /\ TaskOK(t) /\ task[t] \in Tracks /\ fresh \in Nat
      /\ FirstId = 10
  BY Parts
<1>2. /\ file \in Seq(Records) /\ Sound(file, fresh) /\ gone \intersect Ids(file) = {}
      /\ \A u \in Tasks : TaskOK(u)
  BY Typed DEF IInv
<1>3. /\ Sound(next, fresh) /\ Len(next) >= Len(file) /\ SubSeq(next, 1, Len(file)) = file
      /\ Ids(next) \subseteq Ids(file) \union LegacyIds
      /\ (Ids(file) \union gone) \intersect LegacyIds \subseteq Ids(file)
  BY <1>1 DEF TaskOK, Migrates
<1> HIDE DEF next
<1>4. next \in Seq(Records) /\ Len(next) \in Nat /\ Len(file) \in Nat
  BY <1>2, <1>3, LenProperties DEF Sound
<1>5. next = file \/ Promise!Added(file, next)
  <2>1. CASE Len(next) = Len(file)
    <3>1. SubSeq(next, 1, Len(next)) = next
      BY <1>4, SubSeqFull
    <3> QED
      BY <1>3, <2>1, <3>1
  <2>2. CASE Len(next) > Len(file)
    BY <1>3, <2>2 DEF Promise!Added, Sound
  <2> QED
    BY <1>3, <1>4, <2>1, <2>2
<1>6. Ids(next) \intersect gone = {}
  BY <1>2, <1>3
<1>7. ASSUME NEW u \in Tasks, task[u].op = "add"
      PROVE  task[u].record.id \notin Ids(next)
  <2>1. task[u].record.id \in Nat
    BY <1>1 DEF TypeOK, Tracks, Records
  <2>2. task[u].record.id \notin Ids(file) /\ task[u].record.id >= FirstId
    BY <1>2, <1>7 DEF TaskOK, Adds
  <2>3. task[u].record.id \notin LegacyIds
    BY <1>1, <2>1, <2>2, Values
  <2> QED
    BY <1>3, <2>2, <2>3
<1>8. \A u \in Tasks \ {t} : task[u].op # "migrate"
  BY <1>1 DEF Alone
<1>9. Ready(t, next, {})
  BY <1>3, <1>5, <1>6, <1>7, <1>8 DEF Ready
<1> QED
  BY <1>9 DEF next

\* The commits of add, refresh and migrate_legacy compare before they store.
LEMMA CommitKeeps ==
  ASSUME IInv, NEW t \in Tasks, Commit(t), Still
  PROVE  IInv'
<1> DEFINE w == task[t]
<1>1. TaskOK(t) /\ w \in Tracks
  BY Parts
<1>2. w.pc = "commit" /\ lock = Nobody /\ w.op \in {"add", "refresh", "migrate"}
  BY <1>1 DEF Commit, TaskOK, Flow
<1>3. CASE End(t)
  BY <1>2, <1>3, EndQuiet, QuietKeeps
<1>4. CASE Unchanged(w) /\ Stage(t, Result(w), {})
  <2>1. Ready(t, Result(w), {})
    <3>1. CASE w.op = "add"
      BY <1>2, <1>4, <3>1, AddReady DEF Unchanged, Result
    <3>2. CASE w.op = "migrate"
      BY <1>2, <1>4, <3>2, MigrateReady DEF Unchanged, Result
    <3>3. CASE w.op = "refresh"
      <4> DEFINE i == Position(file, w.record.id)
      <4>1. i \in DOMAIN file /\ file[i] = w.record
        BY <1>4, <3>3, PositionOf DEF Unchanged
      <4>2. /\ w.cand \in Records /\ Consistent(w.cand) /\ w.cand.stamp < fresh
            /\ Promise!ByProvider(w.record, w.cand)
        BY <1>1, <1>2, <3>3 DEF TaskOK, Refreshes, Answered, Tracks
      <4>3. w.cand.id = w.record.id
        BY <4>2 DEF Promise!ByProvider, Promise!OwnedByUser
      <4>4. Result(w) = [file EXCEPT ![i] = w.cand]
        BY <3>3 DEF Result
      <4> HIDE DEF i
      <4> QED
        BY <4>1, <4>2, <4>3, <4>4, ReplaceReady
    <3> QED
      BY <1>2, <3>1, <3>2, <3>3
  <2> QED
    BY <1>2, <1>4, <2>1, StageKeeps
<1> QED
  BY <1>3, <1>4 DEF Commit

-----------------------------------------------------------------------------
(* The steps that touch the file, the history or the catalog.              *)

\* Only the holder of the lock has a list to write.
LEMMA OneWriter ==
  ASSUME IInv, NEW t \in Tasks, NEW u \in Tasks, t # u, task[t].pc = "write"
  PROVE  task[u].pc # "write" /\ task[u].pc # "launch"
<1>1. TaskOK(t) /\ TaskOK(u) /\ Gates /\ t # Nobody
  BY Parts
<1>2. lock = t /\ gate.writer = t
  BY <1>1 DEF TaskOK, Holds
<1> QED
  BY <1>1, <1>2 DEF TaskOK, Holds, Gates

\* The rename of the file, or its failure: the staged list is now the file or forgotten.
LEMMA WriteKeeps ==
  ASSUME IInv, NEW t \in Tasks, Write(t), Still
  PROVE  IInv'
<1> DEFINE w == task[t]
<1>1. /\ TypeOK /\ Stores /\ Gates /\ Alone /\ TaskOK(t) /\ w \in Tracks /\ t # Nobody
      /\ fresh \in Nat
  BY Parts
<1>2. \A u \in Tasks : TaskOK(u)
  BY DEF IInv
<1>3. /\ gate' = [gate EXCEPT !.writer = Nobody] /\ lock' = Nobody
      /\ hwid' = hwid /\ epoch' = epoch /\ fresh' = fresh /\ w.pc = "write"
  BY DEF Write
<1>4. Becomes(t) /\ task'[t] = Idle
  BY <1>1, Assigned DEF Write, Become
<1>5. Staged(w) /\ lock = t /\ gate.writer = t
  BY <1>1, <1>3 DEF TaskOK, Holds
<1>6. (file' = file /\ gone' = gone) \/ (file' = w.next /\ gone' = gone \union w.removed)
  BY DEF Write
<1>7. Sound(file', fresh) /\ file' \in Seq(Records)
  BY <1>1, <1>3, <1>5, <1>6 DEF Stores, Staged, Sound
<1>8. gone' \subseteq gone \union Ids(file) /\ gone' \intersect Ids(file') = {}
  BY <1>1, <1>3, <1>5, <1>6 DEF Stores, Staged
<1>9. Ids(file) \subseteq Nat /\ \A id \in Ids(file) : id < fresh
  BY Typed DEF Sound, Ids
<1>10. \A u \in Tasks : u # t => task'[u] = task[u]
  BY <1>1, <1>4, Others
<1>11. gate'.writer = Nobody /\ gate'.readers = gate.readers
       /\ gate' \in [writer : Tasks \union {Nobody}, readers : SUBSET Tasks]
  BY <1>1, <1>3 DEF TypeOK
<1>12. TypeOK'
  <2>1. task' \in [Tasks -> Tracks]
    BY <1>1, <1>4, Values DEF TypeOK, Becomes
  <2>2. gone' \in SUBSET Nat
    BY <1>1, <1>8, <1>9 DEF TypeOK
  <2> QED
    BY <1>1, <1>3, <1>7, <1>11, <2>1, <2>2 DEF TypeOK, Still
<1>13. Stores'
  BY <1>1, <1>3, <1>7, <1>8, <1>9 DEF Stores
<1>14. Gates'
  BY <1>11 DEF Gates
<1>15. Alone'
  BY <1>1, <1>4, <1>10 DEF Alone, Idle
<1>16. TaskOK(t)'
  <2>1. Flow(task[t])' /\ Holds(t)'
    BY <1>4 DEF Flow, Holds, Idle
  <2>2. epoch' \in Nat
    BY <1>1, <1>3 DEF TypeOK
  <2> QED
    BY <1>4, <2>1, <2>2, PlainOK DEF Idle
<1>17. ASSUME NEW u \in Tasks, u # t
       PROVE  TaskOK(u)'
  <2>1. task'[u] = task[u] /\ TaskOK(u) /\ task[u].pc # "write" /\ task[u].pc # "launch"
    BY <1>2, <1>3, <1>10, <1>17, OneWriter
  <2>2. Flow(task[u])' /\ Staged(task[u])'
    BY <2>1 DEF TaskOK, Flow, Staged
  <2>3. Holds(u)'
    BY <1>5, <1>17, <2>1 DEF TaskOK, Holds
  <2>4. Checks(task[u])'
    BY <1>1, <1>3, <1>5, <2>1 DEF TaskOK, Checks
  <2>5. Adds(task[u])'
    <3>1. task[u].op = "add" => task[u].record.id \notin Ids(file') \union gone'
      <4>1. task[u].op = "add" =>
              /\ task[u].record.id \notin Ids(file) \union gone
              /\ task[u].record.id \notin Ids(w.next)
        BY <1>3, <1>5, <2>1 DEF TaskOK, Adds, Staged
      <4> QED
        BY <1>6, <1>8, <4>1
    <3> QED
      BY <1>3, <2>1, <3>1 DEF TaskOK, Adds
  <2>6. Refreshes(task[u])'
    BY <1>3, <2>1 DEF TaskOK, Refreshes, Answered
  <2>7. Migrates(task[u])'
    <3>1. task[u].op = "migrate" =>
             (Ids(file') \union gone') \intersect LegacyIds \subseteq Ids(task[u].base)
      <4>1. task[u].op = "migrate" =>
              /\ (Ids(file) \union gone) \intersect LegacyIds \subseteq Ids(task[u].base)
              /\ Ids(w.next) \intersect LegacyIds \subseteq Ids(file)
        BY <1>3, <1>5, <2>1 DEF TaskOK, Migrates, Staged
      <4> QED
        BY <1>6, <1>8, <4>1
    <3> QED
      BY <1>3, <2>1, <3>1 DEF TaskOK, Migrates
  <2> QED
    BY <2>2, <2>3, <2>4, <2>5, <2>6, <2>7 DEF TaskOK
<1> QED
  BY <1>12, <1>13, <1>14, <1>15, <1>16, <1>17 DEF IInv

\* A migration copies the list, so that it knows which legacy ids were removed before.
LEMMA BeginMigrateKeeps ==
  ASSUME IInv, NEW t \in Tasks, BeginMigrate(t), Still, task[t].pc = "idle"
  PROVE  IInv'
<1>1. /\ TypeOK /\ Stores /\ Gates /\ Alone /\ TaskOK(t) /\ t # Nobody /\ epoch \in Nat
  BY Parts
<1>2. \A u \in Tasks : TaskOK(u) /\ task[u].op # "migrate"
  BY DEF IInv, BeginMigrate
<1>3. /\ UNCHANGED <<file, hwid, lock, gate, epoch, fresh>> /\ gone' = gone \ LegacyIds
      /\ lock = Nobody
  BY DEF BeginMigrate
<1>4. Becomes(t) /\ task'[t] = [Idle EXCEPT !.pc = "input", !.op = "migrate", !.base = file,
                                           !.next = file, !.input = 1]
  BY <1>1, Assigned DEF BeginMigrate, Become
<1>5. /\ task'[t].pc = "input" /\ task'[t].op = "migrate" /\ task'[t].base = file
      /\ task'[t].next = file /\ task'[t].input = 1 /\ task'[t].ticket = 0
  BY <1>4 DEF Idle
<1>6. task'[t] \in Tracks
  <2>1. file \in Seq(Records)
    BY <1>1 DEF TypeOK
  <2>2. [Idle EXCEPT !.pc = "input", !.op = "migrate", !.base = file, !.next = file, !.input = 1]
           \in Tracks
    BY <2>1, Values DEF Tracks, PCs
  <2> QED
    BY <1>4, <2>2
<1>7. \A u \in Tasks : u # t => task'[u] = task[u]
  BY <1>1, <1>4, Others
<1>8. TypeOK'
  <2>1. task' \in [Tasks -> Tracks]
    BY <1>1, <1>4, <1>6 DEF TypeOK, Becomes
  <2> QED
    BY <1>1, <1>3, <2>1 DEF TypeOK, Still
<1>9. Stores'
  BY <1>1, <1>3 DEF Stores
<1>10. \A u \in Tasks : task[u].pc # "write"
  BY <1>2, <1>3, Values DEF TaskOK, Holds
<1>11. Gates'
  BY <1>1, <1>3, <1>10 DEF Gates, TypeOK
<1>12. Alone'
  BY <1>1, <1>2, <1>5, <1>7 DEF Alone
<1>13. TaskOK(t)'
  <2>1. /\ Flow(task[t])' /\ Holds(t)' /\ Adds(task[t])' /\ Refreshes(task[t])'
        /\ Staged(task[t])'
    BY <1>5 DEF Flow, Holds, Adds, Refreshes, Staged
  <2>2. Checks(task[t])'
    BY <1>1, <1>3, <1>5 DEF Checks
  <2>3. SubSeq(file, 1, Len(file)) = file /\ Len(file) \in Nat
    BY Typed, SubSeqFull
  <2>4. Migrates(task[t])'
    BY <1>1, <1>3, <1>5, <2>3 DEF Migrates, Stores
  <2> QED
    BY <2>1, <2>2, <2>4 DEF TaskOK
<1>14. ASSUME NEW u \in Tasks, u # t
       PROVE  TaskOK(u)'
  <2>1. task'[u] = task[u] /\ TaskOK(u) /\ task[u].pc # "write" /\ task[u].op # "migrate"
    BY <1>2, <1>7, <1>10, <1>14
  <2>2. /\ Flow(task[u])' /\ Holds(u)' /\ Staged(task[u])' /\ Migrates(task[u])'
    BY <1>3, <2>1 DEF TaskOK, Flow, Holds, Staged, Migrates
  <2>3. Checks(task[u])'
    BY <1>3, <2>1 DEF TaskOK, Checks, Current
  <2>4. Adds(task[u])' /\ Refreshes(task[u])'
    BY <1>3, <2>1 DEF TaskOK, Adds, Refreshes, Answered
  <2> QED
    BY <2>1, <2>2, <2>3, <2>4 DEF TaskOK
<1> QED
  BY <1>8, <1>9, <1>11, <1>12, <1>13, <1>14 DEF IInv

\* A step that changes the gate's readers or the epoch, and no list.
LEMMA CatalogKeeps ==
  ASSUME IInv, NEW t \in Tasks, Still, Becomes(t), task'[t] \in Tracks, TaskOK(t)',
         task'[t].op = "none", task'[t].pc # "write", task[t].pc # "write",
         UNCHANGED <<file, hwid, lock, fresh, gone>>,
         gate' \in [writer : Tasks \union {Nobody}, readers : SUBSET Tasks],
         gate'.writer = gate.writer,
         gate'.readers # {} => gate.writer = Nobody,
         \A u \in Tasks : u # t /\ u \in gate.readers => u \in gate'.readers,
         epoch' = epoch \/ epoch' = epoch + 1
  PROVE  IInv'
<1>1. TypeOK /\ Stores /\ Gates /\ Alone /\ TaskOK(t) /\ t # Nobody /\ epoch \in Nat
  BY Parts
<1>2. \A u \in Tasks : TaskOK(u)
  BY DEF IInv
<1>3. \A u \in Tasks : u # t => task'[u] = task[u]
  BY <1>1, Others
<1>4. TypeOK'
  <2>1. task' \in [Tasks -> Tracks]
    BY <1>1 DEF TypeOK, Becomes
  <2> QED
    BY <1>1, <2>1 DEF TypeOK, Still
<1>5. Stores'
  BY <1>1 DEF Stores
<1>6. Gates'
  BY <1>1, <1>3 DEF Gates, TypeOK
<1>7. Alone'
  BY <1>1, <1>3 DEF Alone
<1>8. ASSUME NEW u \in Tasks, u # t
      PROVE  TaskOK(u)'
  <2>1. task'[u] = task[u] /\ TaskOK(u)
    BY <1>2, <1>3, <1>8
  <2>2. Flow(task[u])' /\ Adds(task[u])' /\ Refreshes(task[u])' /\ Migrates(task[u])'
    BY <1>1, <1>8, <2>1, OwnsLater DEF TaskOK
  <2>3. Holds(u)'
    BY <1>8, <2>1 DEF TaskOK, Holds
  <2>4. task[u].ticket \in Nat
    BY <1>1 DEF TypeOK, Tracks
  <2>5. task[u].ticket <= epoch /\ task[u].ticket <= epoch'
        /\ (task[u].ticket = epoch' => epoch' = epoch)
    BY <1>1, <2>1, <2>4 DEF TaskOK, Checks
  <2>6. Checks(task[u])'
    BY <2>1, <2>5 DEF TaskOK, Checks, Current
  <2>7. Staged(task[u])'
    <3>1. \A v \in Tasks : task'[v].op = "add" => task[v].op = "add" /\ task'[v] = task[v]
      BY <1>3
    <3>2. \A v \in Tasks : task'[v].op = "migrate" => task[v].op = "migrate"
      BY <1>3
    <3> QED
      BY <2>1, <3>1, <3>2 DEF TaskOK, Staged
  <2> QED
    BY <2>2, <2>3, <2>6, <2>7 DEF TaskOK
<1> QED
  BY <1>4, <1>5, <1>6, <1>7, <1>8 DEF IInv

\* A launch takes the handoff when no writer holds the gate, and looks at its ticket.
LEMMA TakeHandoffKeeps ==
  ASSUME IInv, NEW t \in Tasks, TakeHandoff(t), Still
  PROVE  IInv'
<1>1. /\ TypeOK /\ Gates /\ TaskOK(t) /\ task[t] \in Tracks
  BY Parts
<1>2. CASE End(t)
  BY <1>2, EndQuiet, QuietKeeps DEF TakeHandoff
<1>3. CASE ~ End(t)
  <2>1. /\ task[t].pc = "handoff" /\ gate.writer = Nobody /\ task[t].ticket = epoch
        /\ gate' = [gate EXCEPT !.readers = gate.readers \union {t}]
        /\ UNCHANGED <<file, hwid, lock, epoch, fresh, gone>>
    BY <1>3 DEF TakeHandoff
  <2>2. Becomes(t) /\ task'[t] = [task[t] EXCEPT !.pc = "launch"]
    BY <1>1, <1>3, Assigned DEF TakeHandoff, Become
  <2>3. /\ task'[t] \in Tracks /\ task'[t].pc = "launch" /\ Kept(task[t], task'[t])
        /\ task'[t].id = task[t].id /\ task'[t].content = task[t].content
    BY <1>1, <2>2, Moves DEF PCs
  <2>4. /\ gate'.writer = gate.writer /\ gate'.readers = gate.readers \union {t}
        /\ gate' \in [writer : Tasks \union {Nobody}, readers : SUBSET Tasks]
    BY <1>1, <2>1 DEF TypeOK
  <2>5. task'[t].op = "none"
    BY <1>1, <2>1, <2>3 DEF TaskOK, Flow, Kept
  <2>6. TaskOK(t)'
    <3>1. /\ Flow(task[t])' /\ Holds(t)' /\ Adds(task[t])' /\ Refreshes(task[t])'
          /\ Migrates(task[t])' /\ Staged(task[t])'
      BY <2>3, <2>4, <2>5 DEF Flow, Holds, Adds, Refreshes, Migrates, Staged
    <3>2. Checks(task[t])'
      BY <1>1, <2>1, <2>3 DEF TaskOK, Checks, Current, Kept
    <3> QED
      BY <3>1, <3>2 DEF TaskOK
  <2> QED
    BY <2>1, <2>2, <2>3, <2>4, <2>5, <2>6, CatalogKeeps
<1> QED
  BY <1>2, <1>3

\* A launch that is over gives the handoff back.
LEMMA LaunchedKeeps ==
  ASSUME IInv, NEW t \in Tasks, Launched(t), Still
  PROVE  IInv'
<1>1. TypeOK /\ Gates /\ TaskOK(t) /\ epoch \in Nat
  BY Parts
<1>2. /\ task[t].pc = "launch" /\ gate' = [gate EXCEPT !.readers = gate.readers \ {t}]
      /\ UNCHANGED <<file, hwid, lock, epoch, fresh, gone>>
  BY DEF Launched
<1>3. Becomes(t) /\ task'[t] = Idle
  BY <1>1, Assigned DEF Launched, Become
<1>4. /\ gate'.writer = gate.writer /\ gate'.readers = gate.readers \ {t}
      /\ gate' \in [writer : Tasks \union {Nobody}, readers : SUBSET Tasks]
  BY <1>1, <1>2 DEF TypeOK
<1>5. gate.writer = Nobody
  BY <1>1, <1>2 DEF TaskOK, Holds, Gates
<1>6. Flow(task[t])' /\ Holds(t)'
  BY <1>3 DEF Flow, Holds, Idle
<1>7. TaskOK(t)'
  BY <1>1, <1>2, <1>3, <1>6, PlainOK DEF Idle
<1>8. task'[t] \in Tracks /\ task'[t].op = "none" /\ task'[t].pc = "idle"
  BY <1>3, Values DEF Idle
<1> QED
  BY <1>2, <1>3, <1>4, <1>5, <1>7, <1>8, CatalogKeeps

\* invalidate_profile_preparations moves the epoch, and no list.
LEMMA InvalidateKeeps ==
  ASSUME IInv, NEW t \in Tasks, Invalidate(t), Still, task[t].pc = "idle"
  PROVE  IInv'
<1>1. TypeOK /\ epoch \in Nat
  BY Parts
<1>2. CASE End(t)
  BY <1>2, EndQuiet, QuietKeeps
<1>3. CASE ~ End(t)
  <2>1. /\ gate.writer = Nobody /\ gate.readers = {} /\ gate' = gate /\ epoch' = epoch + 1
        /\ UNCHANGED <<file, hwid, lock, fresh, gone>>
    BY <1>3 DEF Invalidate, Open
  <2>2. Becomes(t) /\ task'[t] = Idle
    BY <1>1, <1>3, Assigned DEF Invalidate, Become
  <2>3. Flow(task[t])' /\ Holds(t)'
    BY <2>2 DEF Flow, Holds, Idle
  <2>4. TaskOK(t)'
    BY <1>1, <2>1, <2>2, <2>3, PlainOK DEF Idle
  <2>5. task'[t] \in Tracks /\ task'[t].op = "none" /\ task'[t].pc = "idle"
    BY <2>2, Values DEF Idle
  <2>6. gate' \in [writer : Tasks \union {Nobody}, readers : SUBSET Tasks]
    BY <1>1, <2>1 DEF TypeOK
  <2> QED
    BY <2>1, <2>2, <2>4, <2>5, <2>6, CatalogKeeps
<1> QED
  BY <1>2, <1>3

-----------------------------------------------------------------------------
(* The theorems.                                                           *)

\* Every command may begin.
LEMMA StartKeeps ==
  ASSUME IInv, NEW t \in Tasks, NEW c \in Commands, Start(t, c), Still
  PROVE  IInv'
<1>1. task[t].pc = "idle"
  BY DEF Start
<1>2. ASSUME NEW url \in Urls, NEW name \in Names, BeginAdd(t, url, name) PROVE IInv'
  BY <1>1, <1>2, BeginAddQuiet, QuietKeeps
<1>3. ASSUME NEW id \in Known, BeginRefresh(t, id) PROVE IInv'
  BY <1>1, <1>3, BeginRefreshQuiet, QuietKeeps
<1>4. ASSUME NEW id \in Known, Edit(t, id) PROVE IInv'
  BY <1>1, <1>4, EditKeeps
<1>5. CASE BeginMigrate(t)
  BY <1>1, <1>5, BeginMigrateKeeps
<1>6. ASSUME NEW change \in {"get", "pin", "clear", "reset"}, BeginHwid(t, change) PROVE IInv'
  BY <1>1, <1>6, BeginHwidQuiet, QuietKeeps
<1>7. CASE BeginCheck(t)
  BY <1>1, <1>7, BeginCheckQuiet, QuietKeeps
<1>8. CASE Invalidate(t)
  BY <1>1, <1>8, InvalidateKeeps
<1> QED
  BY <1>2, <1>3, <1>4, <1>5, <1>6, <1>7, <1>8 DEF Start

\* Every step of a command that has begun.
LEMMA StepKeeps ==
  ASSUME IInv, NEW t \in Tasks, Step(t), Still
  PROVE  IInv'
<1>1. CASE Write(t)
  BY <1>1, WriteKeeps
<1>2. CASE Rewrite(t)
  BY <1>2, RewriteQuiet, QuietKeeps
<1>3. CASE ReadIdentity(t)
  BY <1>3, ReadIdentityQuiet, QuietKeeps
<1>4. CASE CreateIdentity(t)
  BY <1>4, CreateIdentityQuiet, QuietKeeps
<1>5. CASE HwidFails(t)
  BY <1>5, EndQuiet, QuietKeeps DEF HwidFails
<1>6. CASE Describe(t)
  BY <1>6, DescribeQuiet, QuietKeeps
<1>7. CASE NextInput(t)
  BY <1>7, NextInputQuiet, QuietKeeps
<1>8. ASSUME NEW p \in Payloads, Answer(t, p) PROVE IInv'
  BY <1>8, AnswerQuiet, QuietKeeps
<1>9. CASE FetchFails(t)
  BY <1>9, EndQuiet, QuietKeeps DEF FetchFails
<1>10. CASE CheckUrl(t)
  BY <1>10, CheckUrlQuiet, QuietKeeps
<1>11. CASE ReadAgain(t)
  BY <1>11, ReadAgainQuiet, QuietKeeps
<1>12. CASE Commit(t)
  BY <1>12, CommitKeeps
<1>13. ASSUME NEW id \in Known, NEW key \in Keys, Resolve(t, id, key) PROVE IInv'
  <2>1. id \in Nat
    BY Typed DEF Known, Stored, IInv, TypeOK
  <2> QED
    BY <1>13, <2>1, ResolveQuiet, QuietKeeps
<1>14. CASE TakeHandoff(t)
  BY <1>14, TakeHandoffKeeps
<1>15. CASE Launched(t)
  BY <1>15, LaunchedKeeps
<1> QED
  BY <1>1, <1>2, <1>3, <1>4, <1>5, <1>6, <1>7, <1>8, <1>9, <1>10, <1>11, <1>12, <1>13, <1>14, <1>15
  DEF Step

\* At first an earlier session's list is stored and nothing runs.
LEMMA InitHolds ==
  ASSUME Init
  PROVE  IInv
<1>1. edition \in {"desktop", "android"} /\ Sound(file, FirstId) /\ FirstId = 10
  BY SubscriptionsAssumption DEF Init, FirstId
<1>2. Idle \in Tracks /\ \A t \in Tasks : task[t] = Idle
  BY Values DEF Init
<1>3. TypeOK
  <2>1. hwid \in [auto : Nat, custom : Nat]
    <3>1. hwid \in [auto : InitialAutos, custom : {0}]
      BY DEF Init
    <3>2. InitialAutos \subseteq Nat
      BY SubscriptionsAssumption
    <3>3. /\ hwid.auto \in InitialAutos /\ hwid.custom = 0
          /\ hwid = [auto |-> hwid.auto, custom |-> hwid.custom]
      BY <3>1
    <3> QED
      BY <3>2, <3>3
  <2>2. gate \in [writer : Tasks \union {Nobody}, readers : SUBSET Tasks]
    BY DEF Init
  <2>3. task \in [Tasks -> Tracks]
    BY <1>2 DEF Init
  <2>4. file \in Seq(Records)
    BY <1>1 DEF Sound
  <2> QED
    BY <1>1, <2>1, <2>2, <2>3, <2>4 DEF Init, TypeOK
<1>4. Stores /\ Gates /\ Alone
  BY <1>1, <1>2 DEF Init, Stores, Gates, Alone, Idle
<1>5. \A t \in Tasks : TaskOK(t)
  BY <1>1, <1>2 DEF Init, TaskOK, Flow, Holds, Checks, Adds, Refreshes, Migrates, Staged, Idle
<1> QED
  BY <1>3, <1>4, <1>5 DEF IInv

\* Every step of the service keeps the invariant.
LEMMA NextKeeps ==
  ASSUME IInv, [Next]_vars
  PROVE  IInv'
<1>1. CASE Next
  <2>1. PICK t \in Tasks :
          \/ (\E c \in Commands : Start(t, c)) /\ given' = given + 1
          \/ Step(t) /\ given' = given
    BY <1>1 DEF Next
  <2>2. Still
    BY <1>1, <2>1 DEF Still, Next, IInv, TypeOK
  <2> QED
    BY <2>1, <2>2, StartKeeps, StepKeeps
<1>2. CASE UNCHANGED vars
  BY <1>2 DEF vars, IInv, TypeOK, Stores, Gates, Alone, TaskOK, Flow, Holds, Checks, Current, Adds,
      Refreshes, Answered, Migrates, Staged
<1> QED
  BY <1>1, <1>2

\* The inductive invariant holds of every state, in both editions and for any number of
\* commands at once.
THEOREM Invariance == Spec => []IInv
  BY InitHolds, NextKeeps, PTL DEF Spec

\* Every variable keeps its type.
THEOREM TypeCorrect == Spec => []TypeOK
<1>1. IInv => TypeOK
  BY DEF IInv
<1> QED
  BY <1>1, Invariance, PTL

\* remove is final: no add, refresh or migration that had seen the record, in whatever
\* order they fetch and commit, stores it again.
THEOREM RemovedStaysGone == Spec => []GoneStaysGone
<1>1. IInv => GoneStaysGone
  BY DEF IInv, Stores, GoneStaysGone, Stored
<1> QED
  BY <1>1, Invariance, PTL

\* stable_selection and the cleared fields: after every answer and every edit a stored
\* bundle has selected a child it has, and a list of links has none.
THEOREM SelectionIsValid == Spec => []SelectionValid
<1>1. IInv => SelectionValid
  BY DEF IInv, Stores, Sound, SelectionValid
<1> QED
  BY <1>1, Invariance, PTL

\* The epoch moves before the file, and no writer is let in while a launch holds the
\* handoff: what start_checked_ready_profile launches is what is stored.
THEOREM LaunchedIsStored == Spec => []LaunchIsCurrent
<1>1. IInv => LaunchIsCurrent
  BY DEF IInv, TaskOK, Checks, Current, LaunchIsCurrent
<1> QED
  BY <1>1, Invariance, PTL

\* Every step is one of the promise's, or leaves the list alone.
LEMMA StepImplements ==
  ASSUME IInv, [Next]_vars
  PROVE  [Promise!Next]_file
<1>1. CASE \E t \in Tasks : Write(t)
  <2>1. PICK t \in Tasks : Write(t)
    BY <1>1
  <2>2. Staged(task[t]) /\ task[t].pc = "write"
    BY <2>1 DEF IInv, TaskOK, Write
  <2>3. file' = file \/ file' = task[t].next
    BY <2>1 DEF Write
  <2> QED
    BY <2>2, <2>3 DEF Staged, Promise!Next
<1>2. CASE ~ \E t \in Tasks : Write(t)
  <2> SUFFICES ASSUME Next PROVE file' = file
    BY DEF vars
  <2>1. PICK t \in Tasks : (\E c \in Commands : Start(t, c)) \/ Step(t)
    BY DEF Next
  <2> USE DEF Stage, End, Replace
  <2>2. CASE \E c \in Commands : Start(t, c)
    BY <2>2 DEF Start, BeginAdd, BeginRefresh, BeginMigrate, BeginHwid, BeginCheck, Invalidate, Edit,
        Discard, SetInterval, Rename, SelectChild
  <2>3. CASE Step(t)
    BY <1>2, <2>3 DEF Step, Rewrite, ReadIdentity, CreateIdentity, HwidFails, Describe, NextInput,
        Answer, FetchFails, CheckUrl, ReadAgain, Commit, Resolve, TakeHandoff, Launched
  <2> QED
    BY <2>1, <2>2, <2>3
<1> QED
  BY <1>1, <1>2

\* The service implements SubscriptionList: whatever overlaps, the file changes as if
\* each command ran alone on the list as it is, and a failed write changes nothing.
THEOREM Implements == Spec => OneAtATime
<1>1. Init => Promise!Init
  BY DEF Init, Promise!Init
<1>2. IInv /\ [Next]_vars => [Promise!Next]_file
  BY StepImplements
<1> QED
  BY <1>1, <1>2, Invariance, PTL DEF Spec, OneAtATime, Promise!Spec
=============================================================================
