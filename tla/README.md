# Cloakwire, modelled in TLA+

Cloakwire is a desktop and Android VPN client: a Tauri backend in Rust drives
one engine process (sing-box or Xray), the system proxy and a background
recovery loop; a React window and, on Android, Kotlin services are its clients.
This directory holds TLA+ models of the backend's core logic, the TLC
configurations that check them and the TLAPS proofs about them.

Paths below are relative to `src/src-tauri/src` unless they begin with `src/`.

## 1. The system

### Components, their state and operations

| component | code | state | operations | promises |
|---|---|---|---|---|
| engine lifecycle | `process.rs` | transition permit, child slot, status, run counter and active run, pending start, two ticket epochs | start, stop, reset, exit watcher, reaper of abandoned starts, apply proxy | one engine at a time, every engine process accounted for, Stop wins, a failed start leaves nothing behind, the proxy ends with the run |
| commands | `commands.rs`, `commands_android.rs` | none of their own | begin a ticket, preflight, launch, stop, reset, select, proxy calls | the newest request wins |
| recovery intent | `recovery/intent.rs`, `recovery/coordinator.rs` | epoch, network and wake generation, setting, pending manual requests, accepted snapshot, manual ticket | issue and invalidate tokens, accept a run | nothing is accepted for a voided token or ticket |
| recovery policy | `recovery/policy.rs` | due time, floor, failures, attempts, stable since, in flight, exhausted | event, cancel, next, observe, attempt finished or abandoned | three launches between two full budgets, delays kept, budget full again only after stability |
| recovery loop | `recovery/coordinator.rs`, `event_filter.rs` | locals of one task; phase and issue shown | watch the network, gather evidence, restart | restart only on evidence, from one network; a dead engine is retried or given up visibly |
| source catalog | `diagnostics/sources.rs` | epoch, reader-writer gate | handoff, mutation | a launch never uses a profile that changed after its ticket |
| session diagnostics | `diagnostics/active.rs`, `active_config.rs` | the observed run, session, network epoch | accept, retire, clear, refresh, probe, monitor | a report belongs to the run and network it names |
| probe coordinator | `diagnostics/coordinator.rs`, `owned_core.rs`, `desktop.rs`, `selected.rs` | active lease, one private engine, cleanup flag | begin, supersede, cancel, finish, shutdown | one private engine, cleaned up before the next |
| system proxy leases | `windows_proxy.rs`, `macos_proxy.rs` | journal on disk, the user's own settings | apply, restore, recover at start | the user's proxy comes back, crash or not |
| subscriptions | `subscriptions/`, `subscriptions_android/`, `subscriptions/hwid.rs` | stored sources, hardware id | add, refresh, rename, select, remove, migrate | a refresh never resurrects or overwrites an edit |
| classification and parsers | `subscriptions/classify.rs`, `parser/` | none | answer to payload, link to node | what is usable is kept, what is not is refused as a whole or entry by entry |
| configuration generation | `config/`, `xray/`, `xray_config.rs` | none | build from links, merge into a provider's configuration | the user's rules decide, nothing dangles, nothing leaves past the tunnel |
| runtime files | `commands.rs`, `config/preflight.rs` | leased files | write, check a copy, wire, restore, sweep | an engine runs a file its core accepted, no file is swept under it |
| routing data | `engine/xray/geodata.rs` | three files and their backups | ensure, install, roll back | a launch finds a complete verified pair |
| updates | `app_update.rs`, `updates.rs` | staged download, renamed binaries | check, download, verify, install | only a verified file is installed, a failure keeps the old one |
| Android service | `src/src-tauri/gen/android/.../vpn/*.kt` | the same roles, in Kotlin, with leases that survive the process | | the same promises |
| window | `src/src/App.tsx`, hooks | request generations | order the commands, gate late answers | a late answer never overwrites a newer one |
| engine adapters, traffic, tray, kill switch | `engine/`, `traffic.rs`, `tray.rs`, `killswitch/` | little or none | command lines, I/O, calls to the system | |

`PROJECT.json` lists every component with its sources and its status.

### How they interact

A command begins by taking a *ticket* (`begin_manual_profile_check`,
`stop_with`): under the recovery mutex it bumps the ready-check epoch and voids
recovery's tokens. It then does slow work without any lock (it provisions
routing data, generates the configuration, writes it to a leased file and has
the core check it, reading the catalog) and queues for the *transition permit*,
a semaphore of one. Inside, each stage re-tests the ticket. A launch that has a
diagnostic listener leaves the permit while the listener comes up and takes it
again; if its future is dropped meanwhile, a guard spawns a task that disposes
of the child. When the engine runs, the coordinator accepts the run under its
mutex, against the ticket. The exit watcher polls the child slot every 3 s
without the permit and finalizes under it. The recovery loop captures a *token*
(intent epoch, network, run, wake count), gathers evidence over several awaits,
some of it from the probe coordinators, and asks the lifecycle to restart; the
launch tests the token at each stage instead of a ticket. Network and power
callbacks only bump two generation counters. A change of a stored profile takes
the catalog's write gate and bumps its epoch, which voids tickets and probe
leases taken before.

What is hard here: the many awaits between a check and its use, the readiness
window outside the permit, the watcher that takes the slot outside it, kills
that nobody waits for, the bookkeeping of a retry budget that user commands
cancel half way, fetches that end after the list they started from has changed,
sequences of registry writes, `networksetup` calls and renames that a crash or
a failure may cut anywhere, and rules that are translated between three rule
languages with different matchers.

## 2. The modules

| module | models |
|---|---|
| `EngineOwnership` | abstract: what the lifecycle promises of engine processes |
| `ProcessManager` | the engine lifecycle, the commands that drive it, the intent half of recovery; implements `EngineOwnership` |
| `RecoveryPolicy` | `policy.rs`: one operator per method, from policy to policy |
| `RecoveryCoordinator` | the recovery loop with intent, policy and a coarse engine |
| `WindowsProxy`, `MacProxy` | the two proxy leases, one value or one call at a time |
| `SystemProxy` | composes them: one platform per behaviour, shared processes, lock and faults |
| `ProbeCoordinator` | a probe coordinator and its private engine |
| `Probes` | two of them, with the session's record, the catalog, the network generation, the command that checks a profile and the exit |
| `SubscriptionList` | abstract: what the subscription service promises of the stored list |
| `Subscriptions` | the service with its fetches, lock and gate; implements `SubscriptionList` |
| `RoutingRules` | the user's rules and how a core reads a list of rules |
| `ProfileContent` | classification of an answer, entries and nodes |
| `SingboxConfig`, `XrayConfig` | the two generated configurations |
| `ProfilePipeline` | composes them: from the answer to the configuration a core gets |
| `RuntimeFiles` | the configuration files of launches: lease, check, wiring, sweep, recovery's copy |
| `GeoData` | the routing data on disk, rename by rename |
| `CoreUpdate`, `AppUpdate` | the update of the sing-box binary and of the client |
| `Provisioning` | composes these four: what a launch needs on disk and who replaces it |
| `MCProcessManager`, `MCRecoveryCoordinator`, `MCSystemProxy`, `MCProbes`, `MCSubscriptions`, `MCProfilePipeline`, `MCProvisioning` | the instances for TLC |
| `ProcessManager_proofs`, `Launches_proofs` | proofs about the lifecycle: its engines, then the outcomes of its launches, the proxy, and that it implements `EngineOwnership` |
| `RecoveryCoordinator_proofs` | contracts of the policy's methods, proofs about the loop |
| `Probes_proofs`, `SystemProxy_proofs`, `Provisioning_proofs` | proofs about the three compositions (section 4) |
| `Subscriptions_proofs` | proofs about the subscription service, and that it implements `SubscriptionList` |
| `ProfilePipeline_proofs` | proofs about the generated configurations: filters and searches of lists, then each property |

In every module a definition whose comment begins with `Bug:` is a plausible
mistake in the definition after it. No specification uses one; `PROJECT.json`
pairs each with the property that fails under it.

### ProcessManager and EngineOwnership

Every task is an actor with a program counter: each request of `Reqs` runs one
command; `Rec` is the recovery loop; the watcher and the reapers have their own
state. A step is what runs between two points where another task can be
observed: an await on a lock, the permit or a process. Labels follow
`start_spec_with_check`: `lgate` (queueing), `lphysical`, `lrecheck` (recovery
only), `lclaim` (status and run counter), `lwire` (listener and last check),
`lspawn`, `lready`/`lregate`/`lunready` (readiness window), `lrespawn`
(fallback), `lfinal`, `lproxy`, `laccept`.

| variable | code |
|---|---|
| `live`, `orphans` | engine processes that exist; those whose handle was dropped (`kill_on_drop`) |
| `proxy`, `proxyStuck` | the run the system proxy was applied for; whether clearing it failed |
| `slot`, `status`, `active`, `nextRun`, `pending` | `child`, `status`, `active_run_id`, `next_run_id`, `pending_diagnostic_start` |
| `gate` | owner of the transition semaphore |
| `readyEpoch`, `catalogFresh` | `ready_check_epoch`; whether `ready_catalog_epoch` equals the catalog's epoch |
| `epoch`, `enabled`, `accepted`, `accProxy`, `manualTicket`, `deadProven` | `Intent` and `State` of the coordinator |
| `woken` | a wake generation newer than the intent's |
| `startup`, `victim`, `ret`, `tok` | locals: `startup_epoch`, the child being stopped, where a stop returns to, the token |

Abstractions. `pending_manual` is not stored: it is the number of requests whose
guard is alive (`Guarded`). Catalog epochs are one flag. A child that exited
stays in the slot until someone takes it, as in the code. Stop's retirement of
the observed session and its intent change are one step (no await between
them). Inside the permit, a reset, a discard and a reaper are one step: every
other writer of that state waits for the permit or tests the pending mark. The
permit of a launch is released at acceptance, though the code holds it while it
starts telemetry and traffic tasks; no modelled state changes there. Errors of
`try_wait`, logs, DNS, kill switch, traffic and the auxiliary child (no
production caller) are left out.

`EngineOwnership` is the promise, without permit, tickets, tokens, watcher or
reapers: four variables (the engines the program owns, those killed without
waiting, whether the user's newest request was a stop that returned, the runs
accepted so far) and six steps. A request ends a halt; a spawn needs no halt and
no owned engine, and brings a run that was never accepted and is not one that
is dying; only the owned engine is accepted; a process ends; an engine is
killed without waiting; a stop returns when no engine is owned. The mapping
takes `live \ orphans` for the owned engines, `orphans` for the dying ones,
`acceptedRuns`, and "some stop or reset returned and holds the newest ticket"
for the halt.

### RecoveryPolicy and RecoveryCoordinator

The code compares stored instants with the clock. The policy keeps instants as
distances from now instead: `due` and `floor` count down to 0, `since` counts
up to `Stable`, and `Age` moves them. The failure count stops at 2, the only
value it is compared with.

A step of the loop is what runs between two awaits of it: `Look`, `ReadPath`
(`discover().await`), `Capture` (the token), `Decide` (after the await of
`recovery_engine_dead`), the stages of `evidence()`, and the launch as
`RestartRefused`, `RestartBegin` (`mark_restarting`), then `RestartFailed` or
`RestartAccepted`. Critical sections with no await between them are joined.
The engine is `alive`, `exited` (nobody noticed), `gone` (finalized) or `none`.
At most one manual request is pending at a time. The window sends the stored
setting when it starts, before any command, so `Init` has it either way. The
network generation is always available (the native watcher started). `SlowLoop` lets time pass between
the capture of a token and the decision, which the code cannot exclude.

History variables, which no guard and no variable of the code reads: `started`
counts launches since the budget was last full, `rest`, `quiet` and `calm` the
time since the last one ended, since the last event and since the policy last
learnt anything but health (a failed probe, inconclusive evidence, a failed
launch); `proof` is the run whose probes failed in this pass, on which network
generation, how often, and whether the candidate then passed there.

### WindowsProxy, MacProxy and SystemProxy

A process of the client belongs to an installation (`channel`), which has a
journal of its own; all processes share one lock file (`lock`, `held`).

Windows: `settings` is the triple (`ProxyOverride`, `ProxyServer`,
`ProxyEnable`), `owner` the installation's journal. Apply writes the journal and
then the three values, a restore the three values in reverse and then the
journal; `transition` reads all three before each write and gives up when they
are not at the phase it expects. Each read and each write is a step, so that a
crash, a failing write or an edit by another program falls between any two.
macOS: `facility` is the state of one proxy kind on one service, changed by one
`networksetup` call (a step); `journal` is the set of endpoints the client owns,
saved before each call (a restore takes its entries in any order, the code in the
order of the file); the loopback port of an entry found at start may be in
use by somebody else (`forfeited`).

Both have the callers of `process.rs` and `lib.rs`: apply, clear, recovery at
start, release at exit. The history variables `user` (the last settings somebody
else chose), `late` (client writes over a proxy another program enabled) and
`stolen` serve the properties only. The encoding of the lease in the registry
value and of the journal file is left out: a journal is read back as written or
is absent.

### ProbeCoordinator and Probes

A lease (`op`) goes through the steps of `execute`: waiting for the probe slot,
starting a private engine (`CreateCore` reserves it before the spawn, `RunCore`,
`AwaitReady`, with another port on failure), the targets, verification, cleanup
within its budget, publication. Cancellation sets a flag that the await in
progress sees, and the cleanup still runs before the slot is released. A
cleanup that does not end sets `poisoned`. `Probes` adds the session's record
under its mutex, the monitor task, the reads of the network that are awaited,
`probe_desktop_profile` with its handoff, and the exit, which shuts both
coordinators down. Identities are fresh numbers for the uuids. What an HTTP
exchange is classified as is an answer.

### Subscriptions and SubscriptionList

Tasks are commands in progress; a step ends where the code awaits the fetch, the
lock or the catalog's gate. A record keeps what the service compares and
rewrites (id, address, name and whether the user chose it, interval, kind,
selection, how many children and links, the provider's title, the time of its
last success); positions stand for the positional keys of children. A task has
the locals of every command in one record: the list it has seen (`base`), the one
it will store (`next`), the record and the candidate made of it. The edits
(`Discard`, `SetInterval`, `Rename`, `SelectChild`) load, change and stage the
list in one locked section; `Stage` is `replace_all` as far as the file, `Write`
its rename, or its failure. An earlier session left a list that the service can
have written (`Sound`). The window starts a migration once, so no two overlap; a
legacy id removed before it begins may come back, as the code has nothing to
know it by. The two
editions share the store: the desktop fetches inside the command, on Android
Kotlin fetches first and hands the body in. Saving fails or is atomic, as
`write_atomic` renames.

`SubscriptionList` is the promise: the stored list changes one command at a
time, an edit never touches what the provider owns, a refresh never touches what
the user owns, removals remove. The refinement mapping is `list <- file`, the
property `OneAtATime`. It cannot see fetches, locks, the gate or failed writes,
and these are what could break it. `Added`, `Removed` and `Changed` relate two
lists, so that the proof can say of a staged list what the promise says of a
step.

### RoutingRules, ProfileContent, SingboxConfig, XrayConfig, ProfilePipeline

These are operators; `ProfilePipeline` has a state only to walk from the answer
(`Import`) to a prepared configuration (`PrepareLinks`, `PrepareSingbox`,
`PrepareXray`), refusing where the code does. Its properties do not look at the
shape of the configuration but at what it *decides*: `Decision` and
`DnsDecision` read a list of rules the way a core does, first match, and are
evaluated for every connection of `Traffic`, an application, site, address and
port each. That is the definition the generated rules are compared with. How a
core reads rules is external to `src/` and modelled from the keys the code
emits. A filter of a list is the set of positions it keeps (`At`), the first rule
that applies the least position of those that do: what a proof can speak of
without recursion.

`stage` is where the walk is, `stored` what `classify_payload` returned,
`config` the prepared configuration with `from`, the provider's part that it was
merged into (`None` for links), and the two ports given to the system proxy.
`SettingsAssumption` and `BodiesAssumption` say that lists are lists, that an
item of a JSON answer marked for one engine has that engine's parts
(`IsSingbox`, `IsXray`), and that a provider uses up none of the three tags that
`Fresh` tries for each of the program's DNS servers; the code counts on for ever
(`config/ready.rs:132`).

Four properties have premises that the code does not establish, and name them.
TLC finds a property violated when one of `EndsOutside`, `ChainsEnd`,
`AllChainable` and `LeftLoose` is dropped from it, and section 3 lists those that
are disagreements with the code's own words.

- `EndsOutside`: a provider without an outbound `proxy` whose `final` is `direct`
  or `block`. `resolve_proxy_target` then takes that for the tunnel, and an
  application picked for the tunnel goes direct. `UserDecides` says where it goes
  in every case, and that this is in the tunnel short of `EndsOutside`;
  `DnsFollowsRoute` excepts it in its first half.
- `ChainsEnd` and `AllChainable`: `DialsProtected` speaks of every outbound of a
  protocol that opens connections (all but `Silent`). A provider's own chains
  must lead somewhere and not in a circle, as `normalize_bundle` keeps a chain
  that is there, whatever it names; and the provider must not dial with a
  protocol outside `Chainable`, which the code leaves unchained. Tags must tell
  the outbounds apart, or Xray refuses the configuration; that premise serves the
  proof, no provider of the run needs it.
- `LeftLoose`: `NothingDangles` leaves out the names that the provider left
  undefined, or that a user's own rule put into a configuration built from links,
  where nothing looks them up, and `auto` when no link is left to build from
  (`NoNode`). A provider's SOCKS listener stays where the provider put it.

The connections that `UserDecides` and `DnsFollowsRoute` speak of are `Ordinary`:
not the shared DNS service, not to port 53, not to the local network, for which
the first rules of every route are meant.

`ProfileContent.Classify` keeps the order of the attempts (links, JSON, YAML),
the refusals of a whole answer and the dropping of an entry. Percent, base64 and
JSON decoding are what the entries are the result of.

### RuntimeFiles, GeoData, CoreUpdate, AppUpdate, Provisioning

A file is its digest, its content class (`plain`, `wired`, `partial`) or the
version it reports; a step is one rename, one removal, one write or one answer
of a server. `Provisioning` gives every attempt an engine: one of an Xray
profile runs `GeoData` before it writes its file, one of a sing-box profile runs
the binary that `CoreUpdate` may be replacing; `AppUpdate` ends the process
under all of them. `RuntimeFiles` has the engine coarsely (`live`, `activeRun`,
`current`): the lifecycle itself is `ProcessManager`'s. After a crash the
directory is swept before anything reads it, as in `lib.rs`.

Abstractions. A feed answers arbitrarily at each read, so that a check and the
installation may see different manifests; the artifact of a manifest is the
version it names. `CoreUpdate` has one redirect where the code allows five (the
loop does the same at each). `base` is the client the user was asked in: a client that is
started again after its update is the old one of the next. The Windows installer is one step, the macOS helper
script one step a command. `FallBack`, the answer of `ensure` after a failed
refresh, is looser than the code: any failure may lead to it.

## 3. The runs

| run | module | states | what it asks |
|---|---|---|---|
| `commands` | `ProcessManager` | 6.6 million | safety of the lifecycle |
| `liveness` | `ProcessManager` | 237 thousand | commands return, crashes are noticed |
| `budget` | `RecoveryCoordinator` | 8.4 million | budget, delays and evidence of recovery |
| `retried` | `RecoveryCoordinator` | 1.0 million | a dead engine is retried |
| `proxy` | `SystemProxy` | 5.7 million | the two proxy leases under crashes |
| `checks` | `Probes` | 5.1 million | answers and private engines |
| `store` | `Subscriptions` | 990 thousand | the refinement, and edits against fetches |
| `configs` | `ProfilePipeline` | 2.5 million | what a prepared configuration decides |
| `updates` | `Provisioning` | 2.3 million | files, renames and rollbacks |
| `blip`, `ports`, `geodata` | | | end in a violation, below |

Symmetry of interchangeable model values is used in `commands`, `proxy`, `store`
and `updates`, which check no liveness.

`commands`: two requests of any kind (a checked start, a direct start, stop,
reset, select), one reconnect, one wake, two changes of the setting and one of
the catalog; engines exit at any time, clearing the proxy may fail. Two requests
and the recovery loop are enough for every pair of actors inside and outside the
permit. The window's own proxy calls are left out here because the code breaks
`ProxyFollowsEngine` with them (see *window* below).

- `EngineOwned`: every engine process is in the slot, held by the task stopping
  it, or was killed.
- `OwnershipKept`: the lifecycle implements `EngineOwnership`. None is spawned
  beside another except one already killed without waiting (by reset or a
  timed-out discard), nothing but the owned engine is accepted, and a stop does
  not return before its engine is gone.
- `StopWins`: once the newest request is a stop or reset that returned, no
  engine is left or comes back.
- `RunningWasAccepted`, `NewestAccepts`: no superseded launch or reconnect
  leaves an engine running or is accepted.
- `FailureLeavesNoEngine`: a failed launch leaves none.
- `ProxyFollowsEngine`: between transitions the proxy points to the active run,
  unless the system refused to clear it.
- `RecoveryStopsItsOwn`: recovery never takes down another run than the one
  whose token it holds, or its own launch.

`liveness`: two requests (a checked start, with the window's clear of the proxy
behind it, a select or a stop), recovery switched on at any moment and one
reconnect, which waits for the permit and holds it like any launch; engines exit
at any time. Under fairness `RequestsEnd` (every command returns) and
`CrashIsNoticed` (no run stays the active one without an engine, whoever has its
child: a watcher that empties the slot and does not finalize would break it).

`budget`: two retries, two commands and one report of the operating system of
any kind, failing network reads, a slow loop, the setting on or off at first.
`OneAttempt`: the policy waits for an attempt exactly while the loop carries one
out, also when commands interrupt it at any stage; `BudgetRespected` counts
launches, `BackoffKept` keeps the delays, `StableBeforeReset` is the condition of
a full budget (no launch, no event, and nothing learnt but health, for the whole
interval), `RestartIsLicensed` the evidence a running engine is replaced on: two
failed probes of that run and a healthy candidate in one pass, on the network
that is still there. All three read the history variables, never the policy's
own timers and counts.
Timers of one and two units order all the events of the code's 2, 5, 15 and
60 s; `MaxRuns` is above the retries, so that the budget ends first. The code has
three retries; a schedule of any length is covered by the proofs.

`retried`: `DeadEngineRetried` under fairness, with one report of any kind and
two commands. Its constants leave out four ways in which the property fails or
is not meant: two path changes (run `blip`), a report of no matter while evidence
is gathered (*raw report*, below; `RawAnytime` lets it come at any other moment
only), turning the setting off and on during an attempt (*toggle*, below), and a
rejected manual request, which cancels pending work by design
(`rejected_manual_candidate_preserves_snapshot_but_cancels_work`). Network reads
do not fail in it: one that always fails keeps recovery waiting for ever.

`proxy`: two processes of the same or of two installations, two crashes, one
failing operation, one edit by another program, two leases on Windows; on macOS
two services with two kinds each and two ports.

- `AlwaysRecoverable`: whatever died or failed, settings that are not the user's
  are at a phase of a journal that holds the user's values. Two cases are
  excluded by name, and are real: another program edited the settings while they
  were leased, and an installation took its lease over the half removed one of
  another (`overlap`), after which both journals hold values of the other.
- `EnabledIsComplete`: the proxy is never on with a bypass list that is not the
  lease's.
- `ForeignProxyKept`: of a proxy another program enabled, Windows clients
  overwrite at most the one value whose check came before; on macOS they enable
  nothing on a service where they have seen one.
- `OwnedIsJournaled`: a macOS facility that the client turned on is in a journal.

`checks`: two leases over the session's and the selected checks, two ports, one
network change; either three identities of the session or one catalog change
and two commands. Two leases are enough for one check and the one that supersedes it.

- `CoreHasOwner`: a private engine belongs to the holder of the probe slot, or
  its coordinator works no more.
- `AnswerIsOwn`, `HealthIsCurrent`: what is shown was measured by the lease and
  for the run and network it is shown for.
- `AnswerFresh`: a profile answered healthy was the stored one at that moment.
- `ExitLeavesNothing`: after the exit barrier no lease works and no private
  engine runs, unless its death could not be proved.

`store`: three commands, two at a time, over an empty list or one bundle of two
children, with one subscription of an old release to migrate; answers are a list
of links and bundles of one and two. `OneAtATime` is the refinement;
`GoneStaysGone`: nothing brings a removed subscription back; `SelectionValid`: a
bundle has a selected child that it contains, and nothing of another kind is
left over; `LaunchIsCurrent`: while a launch holds the handoff, the profile it
checked is the one stored.

`configs`: every combination of the answers, settings and editions in
`MCProfilePipeline`, with at most two entries to a payload. The inputs are
chosen for the branches of the code:

- links: a duplicate of a node, empty names, xhttp, which the phone writes as
  HTTP/2; an entry without an address, one with port 0; a vmess entry without a tag, reality without its keys, hysteria2 with
  `salamander`; a placeholder server `0.0.0.0` and an unknown scheme; a missing
  host; more entries than the cap; none. The same fields arrive as YAML entries.
- sing-box documents: a plain one; one whose tags `direct` and `proxy` clash
  with the program's own and whose DNS server takes the tag `cloakwire-local` and
  resolves its own name there; one that ends with direct access and has no
  `proxy` (`EndsOutside`); one without DNS; one with duplicate tags; one whose `final` names nothing.
- Xray documents: a plain one; an http listener on all addresses, a blackhole
  and an API; two SOCKS listeners, a blank dialer, a chain in the place Xray
  does not read and a balancer `proxy`; the tag `cloakwire-block` taken; the tag
  `protected` taken, with an API on all addresses; an outbound without a tag; two
  http listeners; a first outbound of protocol wireguard; a dns outbound with a
  chain to nowhere; a SOCKS listener on another address with two dialers that name
  each other in the two places for a chain.
- JSON arrays that mix kinds, hold an outbound only, an outbound and an entry
  marked as unsupported or that entry alone, nothing, or too many.
- rules (every list of at most two of eleven): a site, an application, an
  address, ports and a range, reject, `block`, sniff, a disabled rule, one with
  an empty matcher; applications picked for direct access and for the tunnel;
  each of the four final outbounds, own remote DNS, with and without HTTPS; a
  picked server that may be among the nodes or not.
- connections: two applications and the shared DNS service, two sites, three
  addresses, three ports.

It checks `DnsFollowsRoute` (on Windows no query leaves the tunnel for a site
whose connections the rules send into it), `UserDecides` (an application picked
for direct access goes direct, one picked for the tunnel into the tunnel, and
the provider's rules overrule none of the user's), `NothingWidened` (a
rule translated to Xray applies to nothing the user did not mean),
`DialsProtected` (on Android every dial chain ends at the protected dialer) and
`NothingDangles` (no name the program puts in is undefined, be it an outbound of a
rule, group, default, dialer or DNS server or a DNS server that another asks, and
the ports given to the system proxy are listeners of the configuration). Their
exceptions are in section 2.

`updates`: two attempts, two tasks in one process life, one crash, two failing
operations, one updater of each kind, from an installation with an old pair and
core on Windows or an empty one on macOS.

- `ServedIsComplete`: a launch told to use the routing data finds a complete
  verified pair, unless a rename of its own failed or another attempt was
  changing the files. The two exceptions are what `geodata` and concurrent
  `ensure` calls do.
- `ConfigKept`: no sweep removes the file of a launch under way or of a live
  engine. `LaunchedIsChecked`: an engine starts only from contents its core
  accepted, also after a restored wiring and in recovery.
- `CoreIsProbed`: a binary that does not report its release's version is never
  at the path engines start from. `FailureKeepsCore`: a failed update leaves the
  binary it found.
- `OldOrAgreed`: the client is the old one or a newer one that the user agreed
  to, and it is there when the replacement is over.

### Runs that end in a violation

| run | property | what happens |
|---|---|---|
| `blip` | `DeadEngineRetried` | The path goes away and returns while the loop gathers evidence. The evidence is void, the due time was consumed, the loop sees the same path as before: nothing is due again. `event_filter.rs:35` tests that `changed_path_loss_return_and_wake_are_not_lost`. |
| `ports` | `LinksImported` | The parsers replace the scheme of a link by `http://`; `url.port()` is `None` for the default port of that scheme, so a vless, trojan, tuic or hysteria2 link to port 80 is refused as having no port (`parser/vless.rs:27`). |
| `geodata` | `AlwaysComplete` | One rename of the backup loop fails; the rollback removes all three targets, also those not yet moved aside (`engine/xray/geodata.rs:297`), and `ensure` serves the directory all the same because a pair was found before. |

### Disagreements without a run

These were met while modelling. The first eight were found by TLC in variants of
the runs above; the bounds or a named premise leave them out there, and the notes of
some hazards in `PROJECT.json` point here.

- *newstart*. A start A waits for its listener outside the permit. Start B takes
  the newest ticket, enters and finds status Starting: refused as already
  running (`process.rs:575`). A then finds its ticket stale: cancelled. No engine
  runs; the comment at `process.rs:636` says a new start wins.
- *window*. The window starts an engine, the engine exits and its run is
  finalized, then the window's `apply_system_proxy` runs (`commands.rs:1239`,
  `process.rs:1343`), which has no test of the run: the proxy stays on with no
  engine.
- *toggle*. The setting goes off and on while an attempt is approved but not
  begun: the event is dropped because of the attempt (`policy.rs:65`), the
  attempt is then given back (`coordinator.rs:155-161`). The phase stays
  "waiting" and nothing is due; the test
  `started_completion_survives_disable_or_rejected_manual_request`
  (`coordinator.rs:846`) covers an attempt that has begun, not this one.
- *raw report*. The engine dies, the loop consumes the due time and gathers
  evidence; a callback that names no other path (the dead engine's own TUN going
  away, say) bumps the generation. The evidence is void (`coordinator.rs:439`,
  `490`) or the launch is refused (`physical_matches`), no attempt is spent, so no
  heartbeat follows, and `PhysicalEvents` sees the same path: nothing is due and
  the dead engine is never retried. `event_filter.rs:1` says such notifications
  do not constitute a change. TLC finds it in `retried` with `RawAnytime` set.
- *terminal*. The heartbeat reports "checking" without an issue
  (`coordinator.rs:652`) and so erases a permission failure; the next answer
  shows `retry_exhausted`, against the test at `coordinator.rs:770`.
- *a provider that ends direct*. For a configuration without an outbound `proxy`
  and with `"final": "direct"`, `resolve_proxy_target` (`config/ready.rs:220`)
  answers `direct`: applications picked for the tunnel, and every rule to `proxy`,
  go past it without a word, although the error there speaks of "no usable proxy
  outbound". On Windows the program's remote DNS server gets `direct` for its
  detour, which the comment at `config/mod.rs:286-291` says sing-box rejects.
  TLC finds the first in `configs` without the premise `EndsOutside`.
- *unchained protocols*. The comment at `xray_config.rs:37` counts those that
  "open remote sockets themselves and therefore must chain"; Xray's wireguard and
  hysteria are not in the list and leave past the protected dialer. TLC finds it
  in `configs` without the premise `AllChainable`.
- *empty list*. A JSON list that holds only entries marked `unsupported` is
  stored as links; `Config::build` leaves out the group `auto` and names it as the
  default of `proxy` (`config/mod.rs:225-263`), which sing-box refuses. The test
  `empty_profiles_yields_valid_skeleton` (`config/mod.rs:1327`) builds that
  configuration and does not look at the default. TLC finds it in `configs`
  without `NoNode`.
- *xhttp*. The comment at `xray_config.rs:314` says that `outbound_to_xray`
  answers `None` for xhttp; the code maps it to HTTP/2 (`xray_config.rs:446-460`)
  and says so there. The model follows the code.
- *duplicate address on Android*. `subscriptions_android/service.rs:233-249`
  looks for a duplicate under one lock and appends under the next: two adds of
  one address are both stored, against the comment there. `SubscriptionList`
  therefore does not promise that addresses are distinct.
- *hardware id*. `get_or_create` (`subscriptions/hwid.rs:38`) is called without
  the service's lock: two first calls may create two ids, and the one shown need
  not be the one that was sent.
- *YAML*. The comment at `subscriptions/classify.rs:140-148` says that an entry
  without a required field becomes `Unsupported`, for the window to show; it is
  dropped instead. YAML lists have no cap and their
  placeholder servers are kept. Clash trojan and hysteria2 entries without
  `tls: true` become nodes without TLS.
- *Xray from links*. `link_config` drops nodes it cannot express (hysteria2, tuic,
  an empty address, port 0) without a word.

### Fairness

`ProcessManager`: the permit is tokio's `Semaphore`, which serves waiters in
order, hence strong fairness for the tasks that queue for it; tasks are
scheduled; a killed process exits. Nothing obliges a user to act, an engine to
die or a client to abandon its launch. `RecoveryCoordinator`: the loop is a task
of its own whose awaits have deadlines (weak fairness), commands return, exits
are noticed by the watcher, and time passes (strong fairness, as the loop
sleeps in every pass). The other specifications state safety only, and may stop
at any point, as a process may.

## 4. The proofs

Every theorem holds for all values of the constants that satisfy the named
assumptions of its modules: sets of tasks, processes, leases or attempts of any
size and any bounds. The bounds of section 3 are TLC's only.

### The lifecycle: `ProcessManager_proofs`

From `ActorAssumption` alone (the recovery loop is not a request and the mark of
a free permit is neither):

| theorem | states |
|---|---|
| `StopIsFinal` | `StopWins` |
| `NoEngineIsLost` | `EngineOwned` |
| `SpawnsAlone` | `SpawnAlone`, an action property that `OwnershipKept` contains |
| `SlotHoldsActiveRun` | `SlotIsActive`: the child in the slot is the active run's |
| `PendingIsOwned` | `PendingHasOwner`: the mark that blinds the watcher never outlives its launch and reaper |
| `TypeCorrect` | `TypeOK` |

The last three are parts of the inductive invariant; TLC no longer repeats them.

None of these is inductive. The invariant `IInv` adds

- `GateHeld`: the permit belongs to the one task whose label is inside it. All
  the exclusion in the rest comes from here.
- `RunsInOrder`, `RunsDistinct`: run identifiers are not reused, and no two
  launches have the same.
- `VictimHeld`, `BeforeSpawn`: while a task stops a child, and from the claim of a
  run to its spawn, the slot is empty; in the second case the run is the active
  one and not the watcher's.
- `WhileReadying`: outside the permit a launch that is still the active one has
  its child in the slot under the pending mark, or another task is stopping that
  child. This is what the readiness window rests on: the watcher cannot have
  taken the child, and a launch that finds itself current has an engine.
- `WatchHolds`, `OrphansInactive`: the watcher holds a dead run, and a process
  left to `kill_on_drop` is not the active run's.
- `StopOrder`: tickets are issued in order, one to a request; while a stop holds
  the newest one nothing is accepted, and after it was in the permit the slot
  stays empty and nobody else gets in. `StopWins` follows with `GateHeld`.

The proof has one lemma for each action. Steps of the same kind (a task that
moves on outside the permit, one that takes the child, one that gives up, a
reset, a discarded launch) share a lemma, and what the fragments `Discard`,
`Finalize`, `ResetAll` and `TakeChild` do is stated once.

### The outcomes of launches: `Launches_proofs`

On top of `IInv`:

| theorem | states |
|---|---|
| `RunningIsAccepted` | `RunningWasAccepted` |
| `FailureIsClean` | `FailureLeavesNoEngine` |
| `NewestIsAccepted` | `NewestAccepts`, an action property |
| `RecoveryKeepsOthers` | `RecoveryStopsItsOwn`, an action property |
| `ProxyFollows` | `ProxyFollowsEngine`, if `BackendProxy` |
| `OwnershipHolds` | `OwnershipKept`: the refinement of `EngineOwnership` |

`ProxyFollows` has the hypothesis `BackendProxy`: the system proxy is applied by
a checked start, by recovery and by the command that clears it, and not by the
window in a call of its own. Without it the property is false (*window*,
section 3). The others have no hypothesis. `Outcomes` adds to `IInv`:

- `EndIsActive`: a launch past its readiness window is the active run's.
- `ManualIsNewest`: a ticket that the intent would still accept is the newest.
- `RunningKnown`, `FailedGone`: the two invariants themselves, said of every state
  and not only between transitions: a running engine that is not accepted yet
  belongs to a launch at its last two steps.
- `TokenHolds`: while recovery's token is current and its launch has not begun to
  stop anything, no request is pending and the slot is empty or holds the
  token's run. It is the intent's epoch that makes this so: a request which
  begins voids the token, also between recovery's checks.

`ProxyInv` adds that a stopped engine has no active run (but for a fallback
before its spawn), that a run which a reaper disposes of or a launch may still
discard never had the proxy, and the property without its condition.

`OwnershipHolds` needs one more invariant, `FreshRuns`: no accepted run is above
the run counter, and the run of a launch in progress is not accepted yet, so a
spawn never brings back an accepted identity. The rest follows from `IInv`. The
steps are sorted twice: by what they do to processes (`Ends`, `Drops`, `Same`, or
the spawn) and by what they do to the halt (`HaltedStays`: only the return of the
newest stop brings it, `BeginsAnew`: only a new request ends it). Whoever holds
the permit knows there is no halt (`HolderNotHalted`, from `StopOrder`), which is
why a launch may spawn and accept there; and with the permit free or in the hands
of a task that stops nothing, the only owned engine is the active run's in the
slot (`OwnedIsSlot`), which is why a stop that finds the slot empty may return.

### The recovery loop: `RecoveryCoordinator_proofs`

For every retry schedule and every value of the other constants that satisfies
`TimeAssumption` (the delays are natural numbers, the schedule a non-empty
sequence of positive ones) and `RecoveryAssumption` (the bounds are natural
numbers and the horizon of the clocks covers the delays):

| theorem | states |
|---|---|
| `OneAttemptAtATime` | `OneAttempt` |
| `LaunchesBounded` | `BudgetRespected`: at most `Len(Retry)` launches between two full budgets |
| `LaunchesCounted` | `AttemptsCounted`: the launches are the attempts counted, less one approved and not begun |
| `BackoffIsKept` | `BackoffKept`, an action property |
| `BudgetNeedsStability` | `StableBeforeReset`, an action property |
| `RestartsAreLicensed` | `RestartIsLicensed`, an action property |
| `TypeCorrect` | `TypeOK` |

`BudgetRespected` is not inductive: it bounds a history variable by the length
of a sequence, and nothing in it ties that variable to the policy. The inductive
invariant `IInv` adds, in this order:

- `TokenInUse`: a loop that holds a token names an accepted run and an intent
  epoch that is not newer than the current one. So once a command has moved the
  epoch on, the token stays void, whatever happens before the loop looks at it.
- `AttemptStage`: an attempt in the stage before the launch is not started, and
  is the one of the loop's token as long as that token is not void; in the
  launch it is the loop's and started. Without it the end of a launch might
  close an attempt of another token, or a cancelled one twice.
- `OneAttempt`: the policy has an attempt in flight exactly while the loop
  carries one out, so none is approved twice or given back twice.
- `AttemptsCounted`: the launches since a full budget are the attempts the
  policy counted, less the one approved and not begun.
- `WithinBudget`: the policy never counts more attempts than the schedule has.

The three action properties compare the policy's timers, which count down, with
history variables, which count up. `TInv` says that what a timer has left and
what has passed make up the delay:

- `TimersKept`: no launch or event lies in the time that counts as stable; the
  first attempt is due no earlier than a debounce after the last event
  (`Elapsed`); after n launches the floor and the time since the last one are at
  least the n+1st delay (`Waited`), and no event lowers the floor.
- `Approved`: an attempt that was approved has waited to the end, and the policy
  has not given up.
- `ProbedInTime`: a pass that gathers evidence with a current token began after
  the debounce.
- `Evidence`: the network a launch compares with is the one captured first.
- `Agreed`: the policy's switch is the intent's.

`BudgetNeedsStability` and `RestartsAreLicensed` need `HInv` beside it:

- `Calm`: nothing but health lies in the time that counts as stable; what the
  policy observes with a current token ends that time, since the token's intent
  is switched on and the policy with it.
- `Licence`: what the pass has shown, stage by stage. At the probes nothing or
  one failure of the token's run, at the candidate two, before a launch two and
  the candidate, all on the generation of the evidence; before a launch it is
  asked only while the token's epoch is the current one and the engine is alive,
  which a dead engine's evidence excludes.
- `RunAgreed`: while there is an accepted run no other has an engine, so the
  engine that is replaced is the one the token names.

The step is split by action. The policy's methods are used through the lemmas of
the module's first part (`EventKeeps`, `AbandonKeeps`, `FinishedKeeps`,
`ObserveKeeps` and the others state what a method keeps of the typing, of the
attempts and of `in_flight`; `EventTimers`, `ObserveTimers` and the like what it
does to the timers), so that the proof of the loop rests on their contracts and
not on their bodies.

### Probes: `Probes_proofs`

From `ProbeAssumption` (there is at least one attempt at a port) and
`ProbesAssumption` (the limits are natural numbers), for any number of leases:

| theorem | states |
|---|---|
| `EngineOwned` | `CoreHasOwner` |
| `AnswersOwn` | `AnswerIsOwn` |
| `HealthCurrent` | `HealthIsCurrent` |
| `ExitIsClean` | `ExitLeavesNothing` |
| `AnswersFresh` | `AnswerFresh`, an action property |
| `TypeCorrect` | `TypeOK` |

- `SlotHeld`: the probe slot belongs to the lease whose step is inside it, as the
  permit above.
- `ActiveLease`: a lease that is neither over nor cancelled is the active one of
  its coordinator, so that whoever supersedes or invalidates it also cancels it;
  one without a result at its end was cancelled.
- `ShownLease`: what a coordinator shows is its active lease, being checked, or
  a lease that is over.
- `CoreOwned`: from creation to cleanup a private engine has an owner inside the
  slot, unless the coordinator is poisoned.
- `Sealed`: closing, sealing and draining go in this order, and after the drain
  no lease is in the slot. `ExitLeavesNothing` follows with `CoreOwned`.
- `CommandHolds`: the command that checks a profile has no answer while it works
  and carries the epoch of the configuration that it took: an answer is given
  under the handoff, where the epoch is compared once more.

`HealthIsCurrent` needs that every step which gives the session a new identity
also clears what is shown (`InvalidateStep`, `EpochObserved`), and that no other
step shows anything new (`ShowsNoMore`).

### The proxy leases: `SystemProxy_proofs`

From `LeaseAssumption` (the mark of a free lock is no process; the values of the
client, the user and other programs differ; services and kinds are lists), for
any number of processes, installations, listeners, services, crashes, failures
and edits:

| theorem | states |
|---|---|
| `LeaseIsRecoverable` | `AlwaysRecoverable` (Windows) |
| `ListenerIsComplete` | `EnabledIsComplete` (Windows) |
| `OthersProxyKept` | `ForeignProxyKept` (both) |
| `TurnedOnIsJournaled` | `OwnedIsJournaled` (macOS) |
| `Invariance` | `Inv`: the inductive invariant of the platform |

Both arguments start from `Exclusive`: a process in the middle of an operation,
or with a lease, has the lock. Between two of its steps only other programs
write. A crash gives the lock up but leaves settings and journals, so everything
that a successor relies on has to be said of these, not of a process.

Windows (`WinInv`):

- `KeysSound`: a journal holds the values of a time without a proxy, a lease a
  mark above every value of others, and a settled lease no second server.
- `Journaled`: what a process has in its locals is what its journal says: a
  transition moves between the two ends of the lease (`Moving`), a switch starts
  from an intact one (`Switching`), a fresh lease is written into a key that has
  none (`Opening`).
- `Undisturbed`: without edits, the settings are at the phase that the process
  believes. It is what makes the check before each write succeed.
- `Single`: without edits and overlap one installation at a time has a lease,
  and its journal holds the user's values. Recoverability is not inductive
  without it: a second journal could describe settings that are the first's.
- `Claimed`: of a proxy another program enabled, nothing was written over as long
  as `late` is 0, and after the one late write no process is past its check.

A step of a process is one of five kinds (lemma `Effects`): it reads, writes one
value between two neighbouring phases of its lease, opens a key, records a lease
over the same settings, or deletes a key whose values are back. The three
properties are proved of the kinds, not of the actions.

macOS (`MacInv`):

- `Prepared`: an apply knows its port, service and kind, a restore the entry it
  is at.
- `ForeignLooks`, `Unseen`: what another program enabled carries its endpoint,
  and where the client is at work it has seen none of that.
- `Covered`: an apply's list is its journal, and the entry of the facility that it
  changes is in it; a restore has, among what it has still to do, what it keeps
  and what it forfeited, every entry of a facility that is on. So saving the
  list that remains loses nothing.

### What is on disk: `Provisioning_proofs`

From `ProvisioningAssumption` (a missing file is no content or version) and
`PublisherAssumption`: an artifact that verifies under the publisher's key is of
the version its manifest gives it. The signature does not say which version it
is of; `install_app_update` takes the manifest's word, and so does the theorem.

| theorem | states | invariant |
|---|---|---|
| `InstalledIsProbed` | `CoreIsProbed` | `CoreInv` |
| `FailureKeepsBinary` | `FailureKeepsCore`, an action property | `CoreInv` |
| `ClientIsAgreed` | `OldOrAgreed` | `AppInv` |
| `ServedPairIsComplete` | `ServedIsComplete`, an action property | `GeoInv` |
| `ConfigStays` | `ConfigKept` | `FilesInv` |
| `EngineIsChecked` | `LaunchedIsChecked`, an action property | `FilesInv` |

The four parts share the faults and, with the core update, the process manager;
each has an invariant of its own and keeps it through the steps of the others.

- `CoreInv` (`Probed`, `Backed`): whatever is in one of the three places was found
  or has answered its probe, and at each step the binary found is where the
  rollback looks for it, which begins only after a failure.
- `AppInv` (`Offering`, `Asked`, `Taken`, `Replaced`): what was agreed to is newer
  than the client it was shown in; the installer past verification is of that
  version; during the helper's renames one of two places holds the old client.
- `GeoInv` (`FoundWhole`, `Verified`, `Placed`, `RolledBack`): an attempt nobody
  disturbed finds the pair whole until it changes it itself, and has put the
  verified files in place up to the one it is at.
- `FilesInv`: `Leased` and `Locked` (a lease from the write to the return, the
  lock of the leases while one sweeps), `Sheltered` (an engine that comes up
  while a sweep runs still has its lease: without it a sweep that saw no run
  could delete the file of a live engine), `Known`, `Claimed`, the states of
  recovery (`Kept`, `Recovers`, `Alone`) and `Holds`, which says phase by phase
  what is in the file and what of it the core has accepted.

### The stored subscriptions: `Subscriptions_proofs`

From `SubscriptionsAssumption` (an earlier session left a list the service can
have written, its ids and times and those of an old release are older than this
session's, the answers are of the kinds the classifier returns and not empty),
for both editions, any number of commands at once, of addresses, answers and
legacy subscriptions:

| theorem | states |
|---|---|
| `Implements` | `OneAtATime`: the refinement of `SubscriptionList` |
| `RemovedStaysGone` | `GoneStaysGone` |
| `SelectionIsValid` | `SelectionValid` |
| `LaunchedIsStored` | `LaunchIsCurrent` |
| `TypeCorrect`, `Invariance` | `TypeOK`; the inductive invariant `IInv` |

None of the four follows from the state of the file alone: what will be stored
lies in the locals of the commands, and what they compare it with may be old.
`IInv` says what each command still knows:

- `Stores`: the file is `Sound`: distinct ids, consistent records, nothing newer
  than the clock; nothing removed is in it.
- `Gates`, `Holds`: a writer at the gate holds the service's lock and is the only
  one; it and the launches exclude each other.
- `Staged`: the list a writer is about to rename over the file is one step of the
  promise from the file *as it is*. The refinement rests on this: the list was
  ready when its task took lock and gate (lemmas `ReplaceReady`, `DiscardReady`,
  `AddReady`, `MigrateReady`) and nobody changes the file before they are
  released. It brings back nothing removed, and holds no id that an add in
  progress has drawn.
- `Adds`, `Alone`: the id of an add is nobody else's, neither a record's, a
  removed one's, nor another add's.
- `Refreshes`: a candidate is what the provider may make of the record that was
  copied. That this record is still the stored one is what the comparison at the
  commit adds.
- `Migrates`: what a migration will store extends the list it has seen by legacy
  ids that are not in it; of the legacy ids, those that are stored or were removed
  since are in that list. So when it commits with the file unchanged it brings
  back nothing.
- `Checks`: a ticket is never ahead of the epoch; one that equals it was drawn
  before no change, so the record copied is the one stored and no writer is in.
  The epoch moves before the file does, which makes this inductive.

Most steps are quiet (lemma `QuietKeeps`): they change one task's locals, and no
file, gate or epoch. The others stage a list (`StageKeeps`), write it
(`WriteKeeps`), begin a migration, or move the epoch or the gate's readers
(`CatalogKeeps`). The lists themselves are in the lemmas `SoundReplace`,
`SoundRemove` and `SoundAppend`.

### The generated configurations: `ProfilePipeline_proofs`

From `SettingsAssumption`, `BodiesAssumption` and `MaxItemsAssumption` (section 2),
for lists of rules, outbounds, servers and links of any length, any connections
and any ports:

| theorem | states |
|---|---|
| `UserDecidesAlways` | `UserDecides` |
| `DnsFollows` | `DnsFollowsRoute` |
| `NothingWidens` | `NothingWidened` |
| `NothingEverDangles` | `NothingDangles` |
| `DialsAlwaysProtected` | `DialsProtected` |
| `Invariance` | the inductive invariant `IInv` |

`IInv` is small: `stored` is what `Classify` made of the answer, and a
configuration that is ready is `LinksPrepared`, `SingboxPrepared` or
`XrayPrepared`, one preparation of it with the settings as they are. The five
properties follow from that alone; the work is in what the operators compute.

- *Lists.* What a filter keeps is numbered by `InOrder`, whose k-th element is the
  one with k - 1 elements of the set before it. That there is exactly one
  (`RankTaken`, `BelowGrows`) needs induction over the length. The library's
  induction theorems cannot be used, as their parameter is an operator; `Numbers`
  says the same of a set, and follows from the well-foundedness of the order on
  numbers (`Least`). `AtIs`, `ConcatIs`, `ConcatRange`, `FirstExists` and
  `ConcatDecides` are the contracts that the rest uses.
- *`UserDecides`.* `TargetIs`, `MergedTags` and `BuiltOutbounds` find what stands
  for the tunnel among the outbounds. `RouteIs` gives the place of the rules for picked applications,
  `OpeningMisses` says that no ordinary connection meets a rule before them,
  `FirstHit` that they then decide. `OwnDecision`: what the program's part of a
  merged list decides, the whole list decides.
- *`DnsFollowsRoute`.* `WindowsSay` reads `windows_dns_rules` as a decision: the
  first projected rule, else the tunnel behind a barrier, else what comes after.
  `ProjectedMeet`: a rule that was projected meets a query exactly when it meets
  each connection of that application to that site. `NoTunnelFirst` is the heart: a
  rule that a connection hits, before any barrier, and that no query rule stands
  for, leads past the tunnel. So a direct query rule is never the first for a
  connection that an earlier rule sends into the tunnel (`LocalOnlyPast`).
  `FreshAre` keeps the provider's servers apart from the program's two.
- *`NothingWidened`.* `TranslatedMatches`: with `port_range` written over `port`, a
  translated rule matches less, never more. `BlockIs`: there is a blackhole under
  the tag that rejected connections get.
- *`NothingDangles`.* One lemma a configuration (`BuiltNames`, `MergedNames`,
  `LinkNames`, `MergedXrayNames`) lists the names in it, and `Listening` finds the
  listener of each port among what `ensure_managed_http_inbound` keeps or adds.
- *`DialsProtected`.* A chain may be as long as the provider likes, so its end is
  stated as a closure (`EndsProtected`): every set of tags that the chain stays in
  has the protected one. `PhoneProtected` takes such a set without it and finds
  dialing outbounds in it that the provider chained in a circle, against
  `ChainsEnd`; `TagsTell` says that a tag names one position.

### What is only model-checked

Every invariant and action property of the passing runs is proved. Liveness
(`RequestsEnd`, `CrashIsNoticed`, `DeadEngineRetried`) is left to TLC: fairness and
ENABLED are out of this prover's reach.

## 5. What is not modelled

`PROJECT.json` gives the reason for each component. In short:

- *Release tools*, the *kill switch*, the *engine adapters'* command lines and
  the *tray* compute text or call the operating system at fixed points.
- *Traffic and statistics streams* poll an engine and emit events; each ends
  with its run and changes no state that another part reads.
- *Android VPN service, recovery and probes* (Kotlin) are second implementations
  of modelled parts on the Android life cycle, with leases that survive the
  process; they need modules of their own. Reading them for this inventory
  found three places worth a closer look in
  `src/src-tauri/gen/android/.../vpn/CloakwireVpnService.kt`: a newer preparation
  tears down a start that is under way (47-48, 540-541) and can leave the state
  "starting"; a replacement of the recovery engine (390-426) that a pause aborts
  can leave "running" with a dead engine; one that fails at the tun2socks check
  leaves a live engine behind.
- *Of the lifecycle*: the auxiliary child, which no production code starts, log
  and telemetry tasks, and the DNS of the tunnel that is set 500 ms after a
  launch without another look at the run (`set_tun_dns_from_config`).
- *Of the recovery loop*: it sees the lifecycle as one coarse state, joined to
  `ProcessManager` by the tokens and the acceptance proof, which both model. The
  fallback of recovery's own readiness wait is not in `RuntimeFiles`.
- *Of the session's record*: the race of `ClearIssue` with a newer issue
  (`active.rs:427`), which only concerns a text.
- *Of the configurations*: rule sets, the TUN inbound, transport fields, log
  settings and Android's `test_config`. `default_domain_resolver` is `local`, the one value
  the window sends (`RoutingTab.tsx:429`). A user's rule that names an outbound that
  does not exist is only refused by the core's own check. A provider's SOCKS
  listener on all addresses is kept as it is. Loopback ports are allocated and
  released before the core binds them. In a rule with `port` and `port_range`
  for Xray the second overwrites the first, in the model too: fewer connections
  than the user meant, which `NothingWidened` does not ask about.
- *Of the updates*: two concurrent core updates share one `.previous`; routing
  data may change under an Xray that is starting; what the Windows installer
  does inside.
- *Window (React)*: only the order of its calls. The result gates of its hooks
  are plain generation counters in one thread.

## 6. The plan

Next, in this order:

1. `AndroidService` and `AndroidRecovery`: orphan leases across process death,
   the Kotlin policy compared with `RecoveryPolicy`.
2. The recovery loop composed with `ProbeCoordinator`, which it now knows by its
   answer only.
3. `Streams`: the traffic and statistics tasks of an old run; `ResultGate`: the
   window's generations.
