--------------------------- MODULE Subscriptions ---------------------------
(***************************************************************************)
(* The subscription service: the stored list of subscriptions, the         *)
(* commands that edit it, the fetches that run without its lock, the       *)
(* hardware id sent with them, and the profile checks that read the list   *)
(* while it changes.                                                       *)
(*                                                                         *)
(* The two editions share the store and differ in the service: the desktop *)
(* (subscriptions/service.rs) fetches inside a command, Android            *)
(* (subscriptions_android/service.rs, commands_android.rs) fetches first   *)
(* through Kotlin and hands the body in.  `edition` is chosen at Init.     *)
(*                                                                         *)
(* A record is reduced to what the service compares and rewrites.  The     *)
(* children of a bundle and the links of a list are counted: their keys    *)
(* are positional ("index-N"), and `stamp`, the time of the last success,  *)
(* stands for their content.  A number 0 is Rust's None.                   *)
(***************************************************************************)
EXTENDS Naturals, SequencesExt

CONSTANTS
    Editions,     \* "desktop", "android"
    Tasks,        \* commands that can be in progress at once
    Urls,         \* subscription addresses
    Legacy,       \* sequence of [id, url]: what a release before v1.3.1 kept
    Names,        \* names a user types
    Payloads,     \* answers of a provider: [kind, size, title]
    Texts,        \* what urls, names and titles are made of
    Keys,         \* keys of children and links that a window sends
    InitialFiles, \* lists of records an earlier session left
    InitialAutos, \* automatic hardware ids it left, 0 for a fresh install
    Commands,     \* the commands that may be given
    MaxCommands   \* bound: how many are given

VARIABLES
    edition,
    file,     \* the records on disk, in order
    hwid,     \* the hardware id file: [auto, custom]
    lock,     \* holder of SubscriptionService::lock, or Nobody
    gate,     \* the catalog's gate: [writer, readers]
    epoch,    \* the catalog's epoch
    task,     \* what each task is doing
    given,    \* commands given so far
    fresh,    \* source of new ids, times and hardware ids
    gone      \* history: ids the user removed

vars == <<edition, file, hwid, lock, gate, epoch, task, given, fresh, gone>>

Nobody == "nobody"
Pinned == 9             \* the override a user pastes
Untitled == ""          \* no title, no name
FirstId == 10           \* smaller ids and times are what an earlier session left

-----------------------------------------------------------------------------
(* Records. *)

Kinds == {"links", "singbox", "xray"}
Records ==
    [id : Nat, url : Texts, name : Texts, userNamed : BOOLEAN, interval : Nat,
     kind : Kinds \union {"auto"}, active : Nat, children : Nat, links : Nat,
     title : Texts, stamp : Nat]

\* A record as add and migrate_legacy create it, before its first fetch.
NewRecord(id, url, name) ==
    [id |-> id, url |-> url, name |-> name, userNamed |-> FALSE, interval |-> 60,
     kind |-> "auto", active |-> 0, children |-> 0, links |-> 0, title |-> Untitled,
     stamp |-> 0]
NoRecord == NewRecord(0, Untitled, Untitled)

\* A bundle has a selected child that it contains, a list of links has none, and nothing
\* that an answer of the other kind left is kept.
Consistent(r) ==
    /\ r.kind \in Kinds
    /\ r.kind = "links" => r.children = 0 /\ r.active = 0
    /\ r.kind # "links" => r.links = 0 /\ r.active \in 1..r.children

Ids(list) == {list[i].id : i \in DOMAIN list}
LegacyIds == {Legacy[i].id : i \in DOMAIN Legacy}
Has(list, id) == \E i \in DOMAIN list : list[i].id = id
Position(list, id) == CHOOSE i \in DOMAIN list : list[i].id = id
UrlTaken(list, url) == \E i \in DOMAIN list : list[i].url = url

\* decode_provider_title: a title may arrive in base64.
DecodeTitle(title) == IF title = "base64:plain" THEN "plain" ELSE title

\* apply_provider_title_fallback: only a placeholder, or a name that is an
\* encoded title of an older release, is replaced by the provider's title.
\* Android keeps no user_named flag.
FallbackName(r, title) ==
    IF /\ ~ r.userNamed
       /\ title # Untitled
       /\ r.name = "Subscription" \/ (r.title = title /\ r.name = title)
    THEN DecodeTitle(title) ELSE r.name

\* Bug: the old key is kept without a look at the new children.
KeepSelection(active, children) == IF active = 0 THEN 1 ELSE active

\* stable_selection: keep the key while a child has it, else take the first.
StableSelection(active, children) ==
    IF active \in 1..children THEN active ELSE 1

\* prepare_candidate after the fetch / classify_with_body: the record that the
\* payload turns r into.
Candidate(r, p, time) ==
    LET named == [r EXCEPT !.title = p.title, !.name = FallbackName(r, p.title),
                           !.stamp = time, !.kind = p.kind]
    IN IF p.kind = "links"
       THEN [named EXCEPT !.children = 0, !.active = 0, !.links = p.size]
       ELSE [named EXCEPT !.children = p.size, !.links = 0,
                          !.active = StableSelection(r.active, p.size)]

\* A list the service can have written before `time`.
Sound(list, time) ==
    /\ list \in Seq(Records)
    /\ \A i \in DOMAIN list :
          Consistent(list[i]) /\ list[i].id < time /\ list[i].stamp < time
    /\ \A i, j \in DOMAIN list : list[i].id = list[j].id => i = j

ASSUME SubscriptionsAssumption ==
    /\ Editions \subseteq {"desktop", "android"} /\ Editions # {}
    /\ Nobody \notin Tasks
    /\ {Untitled, "Subscription", "plain"} \union Urls \union Names \subseteq Texts
    /\ Legacy \in Seq([id : 1 .. (FirstId - 1), url : Texts])
    /\ Payloads \subseteq [kind : Kinds, size : Nat \ {0}, title : Texts]
    /\ \A list \in InitialFiles : Sound(list, FirstId)
    /\ InitialAutos \subseteq Nat
    /\ MaxCommands \in Nat

-----------------------------------------------------------------------------
(* The catalog: its gate, the write of the file and its outcome. *)

\* A command's locals.
NoAnswer == [kind |-> "links", size |-> 0, title |-> Untitled]
NoId == [auto |-> 0, custom |-> 0]
Idle ==
    [pc |-> "idle", op |-> "none", base |-> <<>>, next |-> <<>>, removed |-> {},
     record |-> NoRecord, cand |-> NoRecord, answer |-> NoAnswer, input |-> 0,
     ident |-> 0, seen |-> NoId, change |-> "get", ticket |-> 0, id |-> 0, content |-> 0]

Become(t, state) == task' = [task EXCEPT ![t] = state]

\* A command ends with an error, or has nothing more to do.
End(t) ==
    /\ Become(t, Idle)
    /\ lock' = IF lock = t THEN Nobody ELSE lock
    /\ UNCHANGED <<file, hwid, gate, epoch, fresh, gone>>

\* Bug: a launch that holds the handoff does not refuse a change.
OpenToWriters == gate.writer = Nobody

\* SourceCatalog::mutation: try the gate, then move the epoch.
Open == gate.writer = Nobody /\ gate.readers = {}

\* replace_all as far as the file: the gate is refused when a launch holds the
\* handoff; the epoch moves before the file does.  removed is for the history.
Stage(t, next, removed) ==
    \/ /\ Open
       /\ gate' = [gate EXCEPT !.writer = t]
       /\ epoch' = epoch + 1
       /\ lock' = t
       /\ Become(t, [Idle EXCEPT !.pc = "write", !.next = next, !.removed = removed])
       /\ UNCHANGED <<file, hwid, fresh, gone>>
    \/ ~ Open /\ End(t)

\* The temporary file is renamed over the old one, or something before that
\* fails and the old one stays; gate and lock are released either way.
Write(t) ==
    /\ task[t].pc = "write"
    /\ \/ file' = task[t].next /\ gone' = gone \union task[t].removed
       \/ UNCHANGED <<file, gone>>
    /\ gate' = [gate EXCEPT !.writer = Nobody]
    /\ lock' = Nobody
    /\ Become(t, Idle)
    /\ UNCHANGED <<hwid, epoch, fresh>>

-----------------------------------------------------------------------------
(* Edits: one locked section that loads, changes and stores. *)

Replace(t, id, record) == Stage(t, [file EXCEPT ![Position(file, id)] = record], {})

\* retain(id differs): no two records have an id in common.
Discard(t, id) == Stage(t, RemoveAt(file, Position(file, id)), {id})

SetInterval(t, id) == Replace(t, id, [file[Position(file, id)] EXCEPT !.interval = 15])

\* A rename also marks the name as the user's.  Android has none.
Rename(t, id, name) ==
    /\ edition = "desktop"
    /\ Replace(t, id, [file[Position(file, id)] EXCEPT !.name = name, !.userNamed = TRUE])

\* select_child, set_active_child: refused for a child the record does not have.  Android
\* answers a selection on a list as if it were done.
SelectChild(t, id, key) ==
    \/ key \in 1..file[Position(file, id)].children
       /\ Replace(t, id, [file[Position(file, id)] EXCEPT !.active = key])
    \/ key \notin 1..file[Position(file, id)].children /\ End(t)

Edit(t, id) ==
    /\ lock = Nobody
    /\ \/ ~ Has(file, id) /\ End(t)
       \/ /\ Has(file, id)
          /\ \/ Discard(t, id) \/ SetInterval(t, id)
             \/ \E name \in Names : Rename(t, id, name)
             \/ \E key \in Keys : SelectChild(t, id, key)

-----------------------------------------------------------------------------
(* The hardware id: HwidStore, whose file is read and written in two steps. *)

Effective(h) == IF h.custom # 0 THEN h.custom ELSE h.auto

\* set_hwid_override, reset_hwid and get_hwid hold the service's lock; they end
\* by describing the id to the user.
BeginHwid(t, change) ==
    /\ lock = Nobody
    /\ lock' = t
    /\ Become(t, IF change = "get"
                 THEN [Idle EXCEPT !.pc = "identity", !.op = "show"]
                 ELSE [Idle EXCEPT !.pc = "rewrite", !.op = "show", !.seen = hwid,
                                   !.change = change])
    /\ UNCHANGED <<file, hwid, gate, epoch, fresh, gone>>

\* reset replaces the automatic id only; set_custom makes one when there is none.
Rewritten(h, change) ==
    CASE change = "reset" -> [h EXCEPT !.auto = fresh]
      [] change = "pin"   -> [auto |-> IF h.auto = 0 THEN fresh ELSE h.auto, custom |-> Pinned]
      [] change = "clear" -> [auto |-> IF h.auto = 0 THEN fresh ELSE h.auto, custom |-> 0]

Rewrite(t) ==
    /\ task[t].pc = "rewrite"
    /\ hwid' = Rewritten(task[t].seen, task[t].change)
    /\ fresh' = fresh + 1
    /\ Become(t, [Idle EXCEPT !.pc = "identity", !.op = "show"])
    /\ UNCHANGED <<file, lock, gate, epoch, gone>>

\* Where a task goes once get_or_create has returned the id.
Identified(t) ==
    IF task[t].op = "show"
    THEN /\ lock' = Nobody
         /\ Become(t, Idle)
    ELSE /\ Become(t, [task[t] EXCEPT !.pc = "request", !.ident = 0])
         /\ lock' = IF lock = t THEN Nobody ELSE lock

\* get_or_create: a fetch of the desktop, and a migration, call it without the
\* lock; the Android fetch describes the id under it.
ReadIdentity(t) ==
    /\ task[t].pc = "identity"
    /\ \/ /\ Effective(hwid) # 0
          /\ Identified(t)
          /\ fresh' = fresh
       \/ /\ Effective(hwid) = 0
          /\ Become(t, [task[t] EXCEPT !.pc = "create", !.ident = fresh])
          /\ fresh' = fresh + 1
          /\ UNCHANGED lock
    /\ UNCHANGED <<file, hwid, gate, epoch, gone>>

\* The file is written from what was read: no override, the new id.
CreateIdentity(t) ==
    /\ task[t].pc = "create"
    /\ hwid' = [auto |-> task[t].ident, custom |-> 0]
    /\ Identified(t)
    /\ UNCHANGED <<file, gate, epoch, fresh, gone>>

\* A write of the id file that fails ends the command.
HwidFails(t) == task[t].pc \in {"rewrite", "create"} /\ End(t)

-----------------------------------------------------------------------------
(* add, refresh and migrate_legacy: a locked look at the list, a fetch without *)
(* the lock, and a locked commit that compares. *)

\* The desktop's add looks at the list before it fetches.
BeginAdd(t, url, name) ==
    IF edition = "desktop"
    THEN /\ lock = Nobody
         /\ IF UrlTaken(file, url) THEN Become(t, Idle)
            ELSE Become(t, [Idle EXCEPT !.pc = "identity", !.op = "add", !.base = file,
                                        !.record = NewRecord(fresh, url, name)])
         /\ fresh' = fresh + 1
         /\ UNCHANGED <<file, hwid, lock, gate, epoch, gone>>
    ELSE /\ lock = Nobody
         /\ lock' = t
         /\ fresh' = fresh + 1
         /\ Become(t, [Idle EXCEPT !.pc = "identity", !.op = "add",
                                   !.record = NewRecord(fresh, url, name)])
         /\ UNCHANGED <<file, hwid, gate, epoch, gone>>

\* refresh takes a copy of the record; Android takes its url, and then the id.
BeginRefresh(t, id) ==
    /\ lock = Nobody
    /\ \/ ~ Has(file, id) /\ End(t)
       \/ /\ Has(file, id)
          /\ Become(t, [Idle EXCEPT !.pc = IF edition = "desktop" THEN "identity" ELSE "describe",
                                    !.op = "refresh", !.record = file[Position(file, id)]])
          /\ UNCHANGED <<file, hwid, lock, gate, epoch, fresh, gone>>

\* describe_hwid before the Android fetch, in a locked section of its own.
Describe(t) ==
    /\ task[t].pc = "describe" /\ lock = Nobody
    /\ lock' = t
    /\ Become(t, [task[t] EXCEPT !.pc = "identity"])
    /\ UNCHANGED <<file, hwid, gate, epoch, fresh, gone>>

\* migrate_legacy copies the list; its inputs are fetched one after the other,
\* those whose id or url is already there are passed over.  The window calls it
\* once, when it loads: no two at a time.
BeginMigrate(t) ==
    /\ lock = Nobody
    /\ \A u \in Tasks : task[u].op # "migrate"
    /\ gone' = gone \ LegacyIds
    /\ Become(t, [Idle EXCEPT !.pc = "input", !.op = "migrate", !.base = file, !.next = file,
                              !.input = 1])
    /\ UNCHANGED <<file, hwid, lock, gate, epoch, fresh>>

NextInput(t) ==
    LET me == task[t] IN
    /\ me.pc = "input"
    /\ IF me.input > Len(Legacy) THEN Become(t, [me EXCEPT !.pc = "commit"])
       ELSE LET l == Legacy[me.input] IN
            IF Has(me.next, l.id) \/ UrlTaken(me.next, l.url)
            THEN Become(t, [me EXCEPT !.input = me.input + 1])
            ELSE Become(t, [me EXCEPT !.pc = "identity",
                                      !.record = NewRecord(l.id, l.url, "Subscription")])
    /\ UNCHANGED <<file, hwid, lock, gate, epoch, fresh, gone>>

\* The provider answers, or the fetch or the reading of its payload fails.
Answer(t, p) ==
    LET me == task[t] IN
    /\ me.pc = "request"
    /\ fresh' = fresh + 1
    /\ CASE me.op = "migrate" ->
              Become(t, [me EXCEPT !.pc = "input", !.input = me.input + 1, !.record = NoRecord,
                                   !.next = Append(me.next, Candidate(me.record, p, fresh))])
         [] me.op # "migrate" /\ edition = "desktop" ->
              Become(t, [me EXCEPT !.pc = "commit", !.cand = Candidate(me.record, p, fresh)])
         [] me.op # "migrate" /\ edition = "android" ->
              Become(t, [me EXCEPT !.pc = IF me.op = "add" THEN "check" ELSE "read",
                                   !.answer = p])
    /\ UNCHANGED <<file, hwid, lock, gate, epoch, gone>>

FetchFails(t) == task[t].pc = "request" /\ End(t)

\* add_with_fetched_body: the url is looked for in one locked section ...
CheckUrl(t) ==
    /\ task[t].pc = "check" /\ lock = Nobody
    /\ \/ UrlTaken(file, task[t].record.url) /\ End(t)
       \/ /\ ~ UrlTaken(file, task[t].record.url)
          /\ Become(t, [task[t] EXCEPT !.pc = "read"])
          /\ UNCHANGED <<file, hwid, lock, gate, epoch, fresh, gone>>

\* ... and the list to compare with is taken in the next one.  refresh takes
\* the record only now.  The body is classified at once.
ReadAgain(t) ==
    LET me == task[t] IN
    /\ me.pc = "read" /\ lock = Nobody
    /\ \/ me.op = "refresh" /\ ~ Has(file, me.record.id) /\ End(t)
       \/ /\ me.op = "refresh" => Has(file, me.record.id)
          /\ LET r == IF me.op = "add" THEN me.record
                      ELSE file[Position(file, me.record.id)]
             IN Become(t, [me EXCEPT !.pc = "commit", !.record = r, !.answer = NoAnswer,
                                     !.base = IF me.op = "add" THEN file ELSE <<>>,
                                     !.cand = Candidate(r, me.answer, fresh)])
          /\ fresh' = fresh + 1
          /\ UNCHANGED <<file, hwid, lock, gate, epoch, gone>>

\* Bug: a refresh replaces whatever record the id has now.
UnchangedId(me) ==
    IF me.op = "refresh" THEN Has(file, me.record.id) ELSE file = me.base

\* Bug: only a refresh compares; an add or a migration stores its list.
UnchangedRecord(me) ==
    me.op = "refresh" =>
        Has(file, me.record.id) /\ file[Position(file, me.record.id)] = me.record

\* The compare that makes a fetch without the lock safe: an add or a migration
\* wants the whole list as it was, a refresh its own record.
Unchanged(me) ==
    IF me.op = "refresh"
    THEN Has(file, me.record.id) /\ file[Position(file, me.record.id)] = me.record
    ELSE file = me.base

Result(me) ==
    CASE me.op = "add"     -> Append(me.base, me.cand)
      [] me.op = "migrate" -> me.next
      [] me.op = "refresh" -> [file EXCEPT ![Position(file, me.record.id)] = me.cand]

\* add, commit_refresh / refresh and migrate_legacy end.
Commit(t) ==
    LET me == task[t] IN
    /\ me.pc = "commit" /\ lock = Nobody
    /\ \/ ~ Unchanged(me) /\ End(t)
       \/ /\ Unchanged(me)
          /\ Stage(t, Result(me), {})

-----------------------------------------------------------------------------
(* Readers: a stored profile on its way to a launch. *)

\* start_ready_profile / prepare_connection: the ticket holds the epoch, then
\* the child's configuration is copied under the lock.
BeginCheck(t) ==
    /\ Become(t, [Idle EXCEPT !.pc = "resolve", !.ticket = epoch])
    /\ UNCHANGED <<file, hwid, lock, gate, epoch, fresh, gone>>

\* resolve_child_profile, resolve_link_refs, get_active_child_config: a key that
\* is no longer there is refused.
Resolve(t, id, key) ==
    /\ task[t].pc = "resolve" /\ lock = Nobody
    /\ \/ /\ Has(file, id)
          /\ LET r == file[Position(file, id)] IN
             /\ key \in 1..(r.children + r.links)
             /\ Become(t, [task[t] EXCEPT !.pc = "handoff", !.id = id, !.content = r.stamp])
          /\ UNCHANGED <<file, hwid, lock, gate, epoch, fresh, gone>>
       \/ /\ ~ Has(file, id)
          /\ End(t)

\* start_checked_ready_profile, after the engine has judged the configuration:
\* take the handoff, then look at the ticket once more.
TakeHandoff(t) ==
    /\ task[t].pc = "handoff"
    /\ gate.writer = Nobody
    /\ \/ /\ task[t].ticket = epoch
          /\ gate' = [gate EXCEPT !.readers = @ \union {t}]
          /\ Become(t, [task[t] EXCEPT !.pc = "launch"])
          /\ UNCHANGED <<file, hwid, lock, epoch, fresh, gone>>
       \/ task[t].ticket # epoch /\ End(t)

\* The launch is over and the handoff dropped.
Launched(t) ==
    /\ task[t].pc = "launch"
    /\ gate' = [gate EXCEPT !.readers = @ \ {t}]
    /\ Become(t, Idle)
    /\ UNCHANGED <<file, hwid, lock, epoch, fresh, gone>>

\* invalidate_profile_preparations: a change outside the file moves the epoch.
Invalidate(t) ==
    \/ Open /\ epoch' = epoch + 1 /\ Become(t, Idle)
       /\ UNCHANGED <<file, hwid, lock, gate, fresh, gone>>
    \/ ~ Open /\ End(t)

-----------------------------------------------------------------------------
Init ==
    /\ edition \in Editions
    /\ file \in InitialFiles
    /\ hwid \in [auto : InitialAutos, custom : {0}]
    /\ lock = Nobody
    /\ gate = [writer |-> Nobody, readers |-> {}]
    /\ epoch = 1
    /\ task = [t \in Tasks |-> Idle]
    /\ given = 0
    /\ fresh = FirstId
    /\ gone = {}

Stored == Ids(file)

\* Ids a window may still show: what is stored and what was removed.
Known == Stored \union gone

\* The user, the refresh timer of the window or the recovery gives a command.
Start(t, c) ==
    /\ task[t].pc = "idle"
    /\ given < MaxCommands
    /\ \/ c = "add" /\ \E url \in Urls, name \in Names : BeginAdd(t, url, name)
       \/ c = "refresh" /\ \E id \in Known : BeginRefresh(t, id)
       \/ c = "edit" /\ \E id \in Known : Edit(t, id)
       \/ c = "migrate" /\ BeginMigrate(t)
       \/ c = "hwid" /\ \E change \in {"get", "pin", "clear", "reset"} : BeginHwid(t, change)
       \/ c = "check" /\ BeginCheck(t)
       \/ c = "invalidate" /\ Invalidate(t)

Step(t) ==
    \/ Write(t)
    \/ Rewrite(t) \/ ReadIdentity(t) \/ CreateIdentity(t) \/ HwidFails(t)
    \/ Describe(t) \/ NextInput(t)
    \/ \E p \in Payloads : Answer(t, p)
    \/ FetchFails(t) \/ CheckUrl(t) \/ ReadAgain(t) \/ Commit(t)
    \/ \E id \in Known, key \in Keys : Resolve(t, id, key)
    \/ TakeHandoff(t) \/ Launched(t)

Next ==
    /\ \E t \in Tasks :
          \/ (\E c \in Commands : Start(t, c)) /\ given' = given + 1
          \/ Step(t) /\ given' = given
    /\ edition' = edition

Spec == Init /\ [][Next]_vars

-----------------------------------------------------------------------------
(* Properties. *)

\* A subscription the user removed is not brought back by a fetch, an add or a
\* migration that started before.
GoneStaysGone == gone \intersect Stored = {}

\* A bundle always has a selected child it contains, a list of links has none,
\* and what an answer of the other kind left is cleared.
SelectionValid == \A i \in DOMAIN file : Consistent(file[i])

\* While a launch holds the handoff, the profile it checked is still the one
\* stored: the epoch moves before the file, and the file cannot move under it.
LaunchIsCurrent ==
    \A t \in Tasks :
        task[t].pc = "launch" =>
            Has(file, task[t].id)
            /\ file[Position(file, task[t].id)].stamp = task[t].content

\* The service implements the list that is changed by one command at a time:
\* no step of any interleaving stores a list computed from an older one.
Promise == INSTANCE SubscriptionList WITH list <- file
OneAtATime == Promise!Spec
=============================================================================
