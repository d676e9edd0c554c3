# RouterForge: TLA+ models, checks and proofs

RouterForge runs on Keenetic routers with Entware. It is a set of Go daemons:
*Core* (web interface, App Center, catalogue), *Admin* (`components/control`:
files, maintenance, terminal) and a number of modules (DNS, NFQWS, Antiscan,
monitoring, ...). What they have in common is that each of them changes the
configuration of a router that must keep working, so the code is full of the
pattern *snapshot, check, apply, read back, roll back*, run by HTTP handlers
that race each other, other processes and power loss. That pattern is what this
project models.

## The system

| part | state | operations | talks to |
|---|---|---|---|
| Config Vault store (`internal/platform/configvault`) | object files, manifests, `state.json` | Capture (with retention and garbage collection), MarkLastWorking, Get, List, ReadArtifact | called by the Admin handlers under `adminConfigVaultMutationMu` (MarkLastWorking without) |
| Transaction (`internal/platform/transaction`) | state of one guarded mutation | Advance | restore handler, modules |
| Atomic files, SwapPath (`internal/safety`) | temporary files, renamed directories | write and rename, swap with roll-back | everything that writes |
| Managed configuration handlers (`components/control/files_*.go`, `maintenance_config_vault*.go`, `maintenance_restore.go`) | files below `/opt/etc/routerforge`, the mutex, one stack frame per request | write, copy, move, delete, chmod, snapshot, restore of a snapshot, restore of an archive | the vault; Core and modules write the same directory without the mutex |
| App Center jobs (`components/core/app_center_jobs.go`) | slot, job table, history file | start, cancel, run, record, prune, stream | package operations |
| Package operations (`marketplace_install*.go`, `app_center_entware.go`) | `marketplaceInstallMu`, an opkg process | preflight, opkg, readback | jobs and synchronous handlers |
| Module lifecycle (`module_lifecycle.go`, package and init scripts) | marker files, the module's process | start, stop, restart, enable, disable, upgrade, all unlocked | App Center, opkg, boot |
| Authentication (`auth.go`) | session table | login, logout, expiry | every request |
| Catalogue, registry, sources | cached catalogue | refresh, merge, validate | App Center |
| Events (`internal/platform/events`) | ring of the last events | add, snapshot, query | Core |
| Telemetry (`internal/telemetry`, `telemetry_api.go`, `services/telemetry-collector`) | identity and pending identifiers in memory and in a file, the switch; the collector's tables | tick, send, settle, switch; receive | collector over an unreliable network |
| Terminal sessions (`terminal_sessions_linux.go`, `terminal_ws_linux.go`) | session registry, shells, scroll-back with cursors | create, publish, poll, remove, sweep, close | Admin |
| DNS runtime (`modules/dns/runtime`) | the router's resolver sections (running and startup), the store of disabled resolvers | create, update, delete, disable, enable as guarded mutations | router RCI |
| NFQWS manager (`modules/nfqws-manager-runtime`) | lists, active and saved configurations, the service | edit, rename, activate, restore, smart apply, service actions | init script |
| Antiscan, Port access runtimes (`modules/`) | configuration of router services | guarded mutations, operation slots, schedulers | firewall, init scripts |
| Monitoring, network tools, CrowdSec | caches | read and probe | router |

`PROJECT.json` lists every part with its source files, and, under `hazards`,
the places where this code is hard to test. The hard behaviours are:

* **Interleaving.** Handlers lock late (the staging file of a write and the
  look-up of a restore's target come before the lock), release early (the
  removal of the staging file comes after it) or not at all (MarkLastWorking,
  other daemons).
* **Partial failure.** Restore and roll-back write file by file; prune removes
  snapshots before it knows whether it can meet its limits.
* **Crash.** The vault, the swap of the root and the staging files are left as
  they are when the daemon stops; Core forgets its job while opkg runs on.
* **Time.** Cancels and deadlines arrive after the work is done; opkg may hang;
  an HTTP client leaves and cancels the context its own roll-back needs.
* **Unreliable ends.** The router's RCI fails with or without effect, or
  accepts a request and drops it; the collector's answers get lost.
* **Limits.** Windows of output slide under their readers; registries and
  tables are checked and filled in separate critical sections.

## Modules

| module | models | used by |
|---|---|---|
| `SnapshotStore` | what the vault promises: a snapshot is readable in full or gone; eviction oldest first, only while one is saved | refinement target of `ConfigVault` |
| `ConfigVault` | `vault.go`: each file operation of Capture, prune and gcObjects is a step; MarkLastWorking; crash | `MCConfigVault`, `ConfigVaultProofs` |
| `Transaction` | the transition table of `transaction.go` | `ManagedConfig` |
| `ManagedConfig` | the Admin handlers and the restore transaction | `MCManagedConfig`, `ManagedConfigProofs` |
| `JobQueue` | what the App Center promises of its jobs: one at a time, judged once, success only for one that passed, forgotten oldest first | refinement target of `AppActions` |
| `AppActions` | App Center jobs and the package operations under `marketplaceInstallMu` | `MCAppActions`, `AppActionsProofs` |
| `DnsControl` | `dns_control.go`: one mutation of the router's resolvers, call by call, with its roll-back; uses `Transaction` | `MCDnsControl`, `DnsControlProofs` |
| `NfqwsManager` | the handlers of the NFQWS manager on lists, configurations and the service | `MCNfqwsManager`, `NfqwsManagerProofs` |
| `ModuleLifecycle` | lifecycle requests beside package scripts, init script and reboot | `MCModuleLifecycle`, `ModuleLifecycleProofs` |
| `TerminalSessions` | the registry of terminals, their shells and goroutines | `MCTerminalSessions`, `TerminalSessionsProofs` |
| `OutputWindows` | the event ring, a job's lines and their stream, a terminal's scroll-back | `MCOutputWindows`, `TerminalSessionsProofs` |
| `Telemetry` | manager, settings handler, network and collector | `MCTelemetry`, `TelemetryProofs` |
| `...Proofs` | theorems and proofs about the module of that name | |
| `MC...` | instances for TLC | the `.cfg` files |

Operators with the comment *Mutant* are seeded errors, each next to the
definition it replaces when the sensitivity of a property is tested
(`mutants` in `PROJECT.json`); no specification uses them.

### ConfigVault

`objects`, `live`/`arts` and `lastWorking` are the directories `objects/`,
`snapshots/` and the file `state.json`; `mu` is `adminConfigVaultMutationMu`;
`pc`, `got`, `cur`, `victim` are the frame of a handler. `EnsureObject` is one
turn of Capture's loop, `WriteManifest` its rename, `Prune` / `RemoveVictim` /
`CollectObject` the retention loop with one step per removed file, `PruneError`
an I/O error inside it, `UndoManifest` / `CaptureFailed` the error path of
Capture, whose own errors are ignored by the code. `MarkGet` / `MarkCreate` /
`MarkRename` are MarkLastWorking, without the mutex: the look-up, the temporary
file next to `state.json`, its rename or removal. `ListRoot` is where the walk
of `storeBytes` lists the root; a temporary file it has listed (`listed`) and
that is gone before the walk looks at it makes `storeBytes` answer 0, which
`MarkRename` records in `usage`. `Crash` may happen between any two steps, and
may leave temporary files (`leaks`).

Abstractions: content stands for its SHA-256; every file counts one unit; the
clock is strictly increasing, so a larger identifier is a newer snapshot;
artifact and snapshot size limits are `CaptureAbort`.

### ManagedConfig

`managed` is the content of every file below the root, staging files (`Temps`)
included. A request goes through `wait` (before the lock), `capture`, `mutate`
and `cleanup`; a restore through `validate`, `apply`, `trim`, `verify`,
`reply`, and through the middle three a second time for its roll-back; the
restore of an archive through `swap`, between SwapPath's two renames. `stale`
says that the file's size and mtime are no longer those the client sent.
`ExternalWrite` is another RouterForge process.

`touched` is a history variable: the files written without the mutex since the
last walk. The properties hold up to these files, because nothing in the code
could make them hold for those.

Capture is a single step here; `ConfigVault` justifies that a published
snapshot can be read back. How many snapshots stay (the size limit) and
whether Capture fails, having evicted some of them, is left open. Left out: file
modes, directories as objects (a directory copy or move is that of one file;
the move of a directory differs in taking no snapshot), mkdir, LAST WORKING, a
write that leaves size and mtime as they were, and the manifest a failed
Capture may leave behind when its removal fails too (in `ConfigVault`).

### AppActions

`active`, `jobs`, `state` are `appActions` and `job.State`; `mu` is
`marketplaceInstallMu`; `opkg` the processes; `history`, `rotated` the files.
Jobs and synchronous requests share `TakeMutex` ... `VerifyInstalled`. A
request says whether it is about an Entware package or a catalogue item, what
is to be done, whether only packages count for the item (`authoritative`) and
whether there is a version to compare (`versioned`). What opkg has achieved is
any set of the aspects package, files and version, chosen when it exits.
`LooksDone` is the readback of the code: `opkg list-installed` for a package;
for an item `finalizeCatalogItem`, for which one detected package, service or
path is enough, on a catalogue whose status file may be unreadable or which no
longer has the item (`Views`). `AppendHistory` is the rotation and the append
with each of their file operations failing by itself; a line may be cut short,
and the next record then continues it (`Extend`). `Restart` loses the memory of
Core and turns a running opkg into an orphan.

Abstractions: the seven plan methods of the catalogue are one opkg run; a line
of the history has size one; job identifiers are sequence numbers.

### DnsControl

`native` and `startup` are the router's running and saved configuration,
`disabled` the module's `disabled` file, `op` the frame of the one operation
that holds `dnsControlManager.mu`. `Create` ... `Enable` compute the wanted
sections from `loadState`; `Snapshot` is the second load with the comparison;
`ClearSection` / `AddEntries` and `DeletePlain` / `PostPlain` are single RCI
calls; `Save`, `Verify`, `WriteMetadata`, `RuntimeProbe`, `Finish` follow in the
order of `applyMutation`; `Fail` starts `restoreProtocols`, which passes
through the same calls, and a second failure is `Ambiguous`. `Settle` is what
Disable and Enable do with the store after an error. Every call can fail
before or after its effect, or be accepted and dropped; `External` is another
user of the router, `Crash` a stop of the module or of the router.

`Loads` is what `loadState` may show: the router's configuration, or the same
with an empty plain section, when the name-server read is answered with 404 or
400. The first load of an operation, the `Reload` of a roll-back and the
readback take such a load as it is; only `Snapshot` refuses it. The history
fields `start` (what was there at the first load), `skewed` (the roll-back
started from a plain section it did not see) and `unseen` (the readback that
passed did not see it) let the properties say what this can cause.

Abstractions: a resolver is an identifier with a protocol, its entries a set of
domains; one slot limit; no dynamic resolvers from DHCP; a call that fails
after the client has left is any failing call. Properties speak of the sections
nobody else changed since the snapshot (`touched`).

### NfqwsManager

A configuration is the set of lists it names, a list its content; `conf` holds
the active and the saved configurations, `loaded` the one the service runs
with. Each handler is a sequence of file operations; only renames take a mutex
(`mu`), the others overlap freely. A rename is `Plan`, `Copy`, then
`Check` / `Write` for each configuration, `Restart`, `Gate`, `RemoveOld`, and
backwards `UndoCheck`, `UndoWrite`, `Rerestart`, `Recheck`, `RemoveNew`.
`Activate`, `Restore`, `SaveConfig` and `SmartApply` share `Switch`, `Reload` /
`Verify` and the way back. `excused` and `since` are history variables: the
configurations in whose favour an exception of `RefsResolve` applies, and the
ones others wrote since a request last looked for references; `alone` says that
nobody else has run beside a request, which is what `AnswersTruthful` speaks of.

Not in the model: rename inside the library, blobs, restore of list backups,
the expected digests of the lists a smart apply names, `os.SameFile`, the bench
transaction.

### ModuleLifecycle

Each actor runs a short program of steps on the process and the two markers;
`Program` lists them in the order of `runModuleLifecycleAction` and of prerm and
postinst. A step may fail, which ends the request; the router may reboot.
`alone`, `raced`, `dirty` record overlaps and interruptions since the last
enable or disable that ran alone.

### TerminalSessions and OutputWindows

A shell is a number; `sessions` is the map of the manager, `proc`, `master`,
`awaited` and `closed` its process, pseudo-terminal, waiting goroutine and
flag; `pc`, `mine`, `doomed` are the frame of a handler or of the janitor.
`Evict`, `Start`, `Publish`, `Started` are the parts of `create` between its
critical sections. Time is the set `idle`.

`OutputWindows` numbers what is produced, so that a window's content can be
compared with the whole. `Poll` is one turn of the stream's loop, `ReadOutput`
one poll of a terminal with the cursor the last answer returned, or any other
after `Attach`.

### Telemetry

`disk` and `mem` are the state file and `Manager.state`; `send` is the request
Tick has under way without the mutex; `net` holds requests that may still reach
the collector after their sender gave up; `events` and `installs` are the
collector's tables. `Pick` is `nextLocked` with its write, `Transmit` /
`GiveUp` the sending, `Conclude` the settlement under the mutex; `Receive` is
`Store.receive`. `settled` and `unsaved` are history variables. Left out: the
payload, the collector's removal of events after 45 days, corrupt files.

## Runs

| run | configuration | shows |
|---|---|---|
| `vault` | 2 handlers, 2 contents, 3 captures, limits 2 snapshots / 4 files, 1 leak | `VaultInv`, `SnapshotsRestorable`: every snapshot on disk is readable at every step, crashes included; `CaptureContract`: a successful Capture kept its own snapshot, met the limits (that on files unless the walk answered 0) and left no orphan; `CaptureReturns`: the retention loop ends; `ImplementsSnapshotStore` |
| `vault_pin` | the same store | **violation** of `LastWorkingSurvives`, see below |
| `managed_config` | 2 handlers, 2 paths, 2 contents, 1 staging name, 2 captures, 1 foreign write | `HandlersInv` (types, lock discipline), `PrechangeCaptured`, `NoLostUpdate`, `OutcomeTruthful`, `OutcomeDecided` |
| `managed_config_live` | 2 handlers, 1 path, 2 captures, 1 restart, fairness | `RequestsReturn`, with restarts, after which staging files stay in the root |
| `managed_config_temp` | 2 handlers, 1 path, 3 captures, no crash, no foreign write | **violation** of `NoTempLeftovers`, see below |
| `app_actions` | 2 jobs, 1 synchronous request, 4 kinds of request, one for each way of reading back, 1 restart, table and history of one, fairness | `ActionsInv`, `OneInstaller`, `SlotOwned`, `SucceededIsDone`; `TableBounded`, `HistoryInOrder`; `ImplementsJobQueue`; `SlotFreed`, `SyncAnswered` although opkg may hang |
| `dns_control` | a plain preset and a DNS-over-TLS resolver, 2 domains, 1 slot, 2 operations, 1 dropped request, foreign change or crash, any number of failing calls and blind loads, fairness | `OutcomeTruthful`: Committed, RolledBack and Failed are true of both configurations and of the store, up to a plain section the readback did not see; `ForeignKept`: what others changed before the snapshot, and did not take back, survives; `EntriesKept`: router and store together keep the entries of a resolver; `SavedIsWhole`: the router never boots into half a section; `OpsReturn` |
| `terminal_sessions` | 2 handlers, 2 browsers, 2 shells, limit 1, fairness | `RegistryBounded`, `NoOrphanTerminal`, `IdleReclaimed` |
| `output_windows` | windows of 2 or 3, twice as much output | `RingKeepsNewest` (against the reference: the last events produced), `StreamFaithful`, `NoSilentGap` |
| `module_lifecycle` | 2 requests and opkg, 5 actions | `DisabledStaysDown`, `MarkersAgree` |
| `nfqws_manager` | 2 handlers, 2 lists, 1 saved configuration, 2 requests, 1 fault | `RefsResolve`, `AnswersTruthful`, `NobodyStuck` |
| `telemetry` | 3 rounds a tick, 2 days, 2 changes, 2 faults, 2 restarts, fairness | `IdentityAgrees`, `RetriesReuseId`, `OptOutHolds`, `RegistrationConfirmed` |

Why these bounds: two handlers are enough for each race, since a third would
wait for the same mutex; two captures with a limit of two (or fewer, by size)
evict a restore's target; three vault captures exercise a pin that is skipped
and an eviction after it; one foreign write and one restart can each fall
between any two steps; two jobs exceed a retention and a history of one. A
mutation of the resolvers is alone under its mutex, so two operations one after
the other, one of them failed, reach every hand-over between router and store;
a single slot makes the limit bite. Two shells for a limit of one are the race
of two creations; a rename beside one other request is each pair of handlers
the NFQWS manager can run, and two lists are the old and the new name. Twice a
window's size of output wraps and slides it completely. Two faults and two
restarts lose a request and its answer, or a write before and after a restart.
`CHECK_DEADLOCK FALSE` where the bounds on captures or jobs end a behaviour.

Fairness: a goroutine that can take a step takes it, error paths included;
waiting for `sync.Mutex` is strongly fair because Go's mutex hands over to a
waiter that starves; the deadline of a context fires; an opkg that is killed
ends; RCI calls end because the client has a timeout; the janitor and the
telemetry timer tick; a request that nobody interrupts is answered. Nothing is assumed of an opkg that is not killed, of clients, or of
crashes. That a killed opkg ends needs that no daemon started by a package keeps
opkg's output pipe open (`exec.Cmd` waits for it; the code sets no
`WaitDelay`).

### What the two violations show

* **LAST WORKING can be evicted.** prune reads `state.json`, chooses a victim
  and removes it; MarkLastWorking, which takes no lock, can check the victim
  and pin it in between. The vault test says "last working snapshot must
  survive retention" (`vault_test.go:148`).
* **A restore can bring back staging files.** A write creates
  `.routerforge-write-*` in the managed root before it captures the pre-change
  snapshot, so the snapshot holds that file; restoring it writes the file back,
  the readback agrees, and nothing removes it again. The test of the write
  handler fails with "atomic temp leftovers" (`files_write_test.go:106`) when
  such a file remains.

## Proofs

Checked by TLAPS for all values of the constants: any number of handlers,
files, lists, jobs or domains, any limits and any number of faults. The
assumptions are the `ASSUME`s of the modules: bounds are natural numbers (a
limit of the table of terminals, of snapshots, of the history, of the
telemetry rounds is not zero), names of different kinds are distinct, `None` and
`Absent` are nothing else. TLC evaluates them on every run.

Every component has one inductive invariant, stated at the end of its module as
a conjunction of named parts; `...Proofs` shows that `Init` establishes it and
that each action keeps it, one lemma per action, and derives the properties of
the runs. TLC has checked each of the invariants on the instances of the runs,
and the larger ones on instances with more faults, before the proof.

* **ConfigVault**, `VaultInv`. That objects of published snapshots are present
  is not inductive: one has to know that the objects a Capture has read but not
  published are present (`FramesCoherent`), which needs that no other handler
  collects at that time, i.e. that being inside Capture is holding the mutex
  (`HolderInCapture`). `ClockAhead` makes a new identifier unused.
  `RestorableAlways` follows. `CaptureContractAlways` (an action property) needs
  in addition that prune spares the snapshot it is run for, that what
  `storeBytes` answers is 0 or no less than what there is although marks come
  and go beside the walk, and that the limits, once met, stay met while files
  are collected (`RetentionKept`); objects are finite although `Contents` need
  not be.
  `VaultImplementsStore`: `Spec => Store!SSpec`, with the readable snapshots as
  `saved`, and the snapshot of the Capture in its retention phase as `saving`.
  Each removal of a manifest maps to `Evict`, which allows only the oldest
  snapshot or the one after a skipped pin; that this is still so when the file
  is removed, after the choice, is the last conjunct of `FramesCoherent`.
* **AppActions**, `ActionsInv`. `OneInstaller` needs `HolderAtWork` (the mutex
  and the program counters agree); `SlotOwned` needs `JobsCoherent` (the phases
  in which a goroutine owns the slot are exactly those before `FreeSlot`);
  `SucceededIsDone` needs `EffectsCoherent` (a frame without error has passed a
  readback, `ShownDone`); what a passed readback says of the router is then a
  case distinction on the request. `HistoryInOrder` needs that every line on
  disk that parses is older than the job that has not been recorded yet
  (`HistoryInv`), which holds whatever part of the rotation or the append took
  place; `TableBounded` that
  each finished job above the retention has a goroutine between `FreeSlot` and
  its prune (`TableInv`), for which the removal of a set of jobs has to be
  counted.
  `ActionsImplementQueue`: `Spec => Queue!QSpec`, where the queue shows the state
  of the jobs that are in the table, its installer is the holder of
  `marketplaceInstallMu`, and `passed` are the frames that have returned without
  error. `SettleJob` maps to `Judge`, which allows success only to a job in
  `passed`, although the context may have been cancelled at any time before;
  `PruneJobs` maps to `Forget`, which has to be shown to take the oldest. It
  needs `ShownCoherent` besides `ActionsInv`: a job waits or runs in the table
  exactly while its goroutine does.
* **ManagedConfig**, `ManagedInv`. Mutual exclusion (`HandlersInv`), the shape of
  a frame in each phase (`Coherent`), and what the holder of the mutex knows in
  each phase (`HolderFacts`): what was captured is in the vault and equals the
  files up to `touched`; how far a restore's apply, trim and verify have come,
  forwards and on the way back. `PrechangeCaptured`, `NoLostUpdate`,
  `OutcomeTruthful` and `OutcomeDecided` are consequences; a handler without
  the mutex disturbs only files in `touched`, so the holder's facts survive
  every step of another.
* **DnsControl**, `DnsInv`. For each phase of `applyMutation`: what the snapshot
  says (`SnapshotFacts`), that past it the sections were as first read and hold
  nothing but what they held and what is wanted (`StartFacts`), what the
  router's interface changed before it (`EarlyFacts`), how far the writes have
  come in either direction (`WriteFacts`, with `Reached` for a roll-back that
  did not see the plain section: it has all of the goal, perhaps more), what was
  read back (`ReadbackFacts`), what outcome and store say (`OutcomeFacts`,
  `SettledFacts`). `ReadbackSees` says when a readback that passes can have
  missed the plain section: only if that was to be empty. `SavedIsWhole` is
  itself part of the invariant: between two calls a section may be half-written
  in the running configuration, and the proof is that no save can happen there.
  The proof
  found `ForeignKept`, as it was first stated, to be false for two foreign
  changes: the router's interface changes a section after the operation's first
  read and takes the change back before the snapshot, whose comparison cannot
  notice. The property now says so; nothing is lost in that case.
* **NfqwsManager**, `NfqwsInv`. For requests that overlap: `LockHeld`, the shape
  of the frames (`Coherent`), and `Looked` (a list about to be unlinked is named
  only by configurations written since the look), which make `RefsResolve`
  inductive. For a request that runs alone: `RenameFacts` and `SwitchFacts` say
  in each phase which configurations hold the old and which the new text, which
  lists exist and what the service runs with; `Solo` says that whoever is alone
  need not fear the step of another. `AnswersTruthful` and `LockHeld` follow:
  `LockHeld` is the part of `NobodyStuck` that does not speak of ENABLED.
* **ModuleLifecycle**, `LifecycleInv`. For an actor that runs alone, what its
  finished steps have made of process and markers (`Alone`, `OnPath`); an actor
  that is not alone has been recorded as an overlap; and without an overlap a
  disabled module does not run even in the middle of an action (`Undisturbed`).
* **TerminalSessions**, `SessionsInv`. `RegistryBounded` is kept although the
  check and the insertion are in two critical sections, because the insertion
  checks again; `FramesCoherent` says which shell each handler holds, so that
  `NoOrphanTerminal` survives each hand-over between handler, table and janitor.
* **OutputWindows**, `WindowsInv` (proved at the end of `TerminalSessionsProofs`,
  on an instance `W` of the module, under its assumption `Sizes`). Each window
  is described as a run of consecutive numbers, `Numbers(a, b)`; four lemmas say
  what appending to, joining and cutting runs gives. `RingInv` relates each slot
  to the position of the ring, so that both halves of a wrapped ring come out
  as one run (`SnapshotCorrect`). `StreamInv` explains why a position that
  counts lines sent may index a window that slides: as long as it is below the
  size of the window, the window had not slid at the last poll. `TerminalInv`
  ties the last byte a poller got to its cursor; that the buffer is never empty
  once bytes were dropped is what keeps the cursor of an idle poller right.
* **Telemetry**, `TelemetryInv`. `IdentityKept` and `IdsKept` relate memory, file,
  network and collector: an identifier goes to the file before it goes to the
  network, or is marked as unsaved. `OptOutHoldsAlways` is an action property:
  only `Transmit` sends, and `OptOutCancels` says that an opt-out after `Pick`
  has cancelled what it would send.

Only model-checked:

* liveness under fairness, which is outside this prover: `CaptureReturns`,
  `RequestsReturn`, `SlotFreed`, `SyncAnswered`, `OpsReturn`, `IdleReclaimed`,
  `RegistrationConfirmed`;
* `NobodyStuck`, which speaks of ENABLED;
* the queries of `RingKeepsNewest` (`SelectSeq`, `Reverse` are defined by
  recursion over sequences and need induction over data); its snapshots are
  proved.

## What the checks found besides the two violations

These follow from the code and contradict nothing it claims; the properties
except them explicitly, and the hazards of `PROJECT.json` name the lines.

* The event stream of a job that prints more lines than its window loses lines.
* A mark that ends while `storeBytes` walks the vault makes it answer 0, and that
  Capture passes over the byte limit.
* A catalogue item of which only a part was installed reads as installed, and a
  removal passes when opkg's status file cannot be read.
* A history record cut short swallows the next one, which continues its line.
* A name-server read that the router refuses counts as an empty plain section:
  leftovers pass a readback that wants it empty, so a resolver may be in the
  router and in the store, and a roll-back adds to the section without deleting.
* A resolver can be lost when its disabling ends ambiguous and the store, put
  back with its error ignored, no longer lists it.
* The DNS configuration is saved before it is read back, so a request the
  firmware dropped can reach the startup configuration.
* A list can be unlinked although a reference appeared after the last look; a
  smart apply that rolls back takes its list away before the configuration that
  names it.
* A telemetry identifier whose write failed is sent all the same in the next
  tick, so a restart after that repeats the event under a new one.
* A refused terminal is never waited for.

## Not modelled, and the plan

1. Proofs: action properties that follow from the invariants (what a step of
   another handler may never do to the holder's files); an abstract
   specification of the guarded mutation that `DnsControl` and the restore of
   `ManagedConfig` both implement.
2. `AppSources`: the user's catalogue sources, whose downloads run outside
   `appSourcesMu`, their caches and the catalogue derived from them.
3. `AntiscanConfig`: configuration transaction, flush, scheduler; DNS policy
   activation; the deployment of the port access engine.
4. Authentication and the Admin maintenance jobs.

Not modelled on purpose: the user interface; the parsers and validators of
downloaded registries and releases (the greater part of the catalogue), the
strategy search of the NFQWS manager, the collection of statistics,
monitoring and network tools, which compute or read without a state that
several actors change; read-only probes, path checks and build scripts.
