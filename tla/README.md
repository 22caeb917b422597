# NodeTools Agent: specifications and proofs

TLA+ modules, TLC configurations and TLAPS proofs for the agent in `src/`: a Go
daemon that keeps a configuration of proxy nodes, generates the configuration
of a kernel (sing-box or mihomo) from it, supervises the kernel process, and
serves a REST API and a web panel. Sources are cited as `file:line` below
`src/core` unless a path says otherwise.

## 1. Inventory

### Components and their state

| Component | State | Operations | Interacts with |
|---|---|---|---|
| Kernel process supervisor, `kernel.go` | `baseKernel`: cmd, waitDone, running, pid, lastErr; one waiter goroutine per process | Start, Reload, Stop, Status | called by the manager under `m.mu`; the waiters and the OS run beside it |
| Configuration store and commit pipeline, `manager.go` | `m.cfg`, the maps `inbounds`, `outbounds`, `rules`, `traffic`, `health`, the kernel pointer | CreateProxy, CreateForward, Upsert*, Import*, Delete*, SetNode(s)Enabled, Update{Routing,Mihomo,Kernel}Config, ApplyConfig, RestoreConfigHistory, ReloadKernel, StopKernel, CleanupConfigHistory | kernel, config.yaml, SQLite |
| Validation and loading, `config.go` | none | Validate, LoadConfig, SaveConfig | the manager, `main`, the watcher |
| Hot reload watcher, `config.go:481` | lastMod | Stat, LoadConfig, ApplyConfig every 2 s | config.yaml, the manager; reads the file without the lock |
| Start-up and shutdown, `cmd/agent.go` | none of its own | load, save, first ApplyConfig, start of the goroutines, Stop | everything |
| Kernel configuration generators, `kernel.go` | none | GenerateConfig | called by applyKernelLocked |
| Node health and probes, `manager.go` | `m.health` | TestNode, probeAllNodes, sampler | probe without the lock, write with it |
| Subscriptions, `manager.go`, `subscription.go` | last update per provider | update one or all, background updater | imports into the store |
| Routing preview, `manager.go` | none | which rule matches | reads the store |
| Authentication, `auth.go` | admin row, sessions, login failures | login, logout, change password, Refresh | SQLite, the API |
| Backup and diagnostics, `backup.go` | archives on disk | create, restore, redact | config.yaml, database, ApplyConfig |
| Certificates, links and share links, system probes, web panel, deployment scripts | files only, or none | conversions and I/O | |

### What is hard here

- **Concurrency.** The 3-second stop timer, Kill, the waiter goroutine and the
  exit of the process race. The watcher, a restore and the API read what they
  will apply before they take `m.mu`. The cleanup of the history takes no lock.
- **Partial failure.** A commit is Validate, kernel, config.yaml, history,
  tables: each may fail, and only memory and kernel are rolled back.
- **Crashes.** The agent may die between any two of these steps; config.yaml is
  truncated and written in place.
- **Long sequences of legal calls.** Nodes are renamed, disabled and deleted
  while rules and the default outbound name them, in changing routing modes,
  with two copies of everything in memory (the slices in `cfg` and the maps).
- **Feedback.** The watcher's apply writes the file that it watches.
- **Answers that come late.** Probes and fetches run for seconds without the
  lock, and their results are written whatever became of the node meanwhile.
- **Checks apart from their use.** `loginBlocked`, the comparison of the
  password, the failure or session that follows and the update of the row are
  separate steps, with a bcrypt hash of some 100 ms between two of them.
- **Files shared without a lock.** Backups read, and restores replace, the
  files that commits are writing; archives and temporary files have names that
  two requests may share.

`PROJECT.json` lists each hazard at its line.

### What makes each component correct

- Supervisor: one process at a time; nothing survives a Stop; the status is
  honest; no channel is closed twice; no operation hangs.
- Store: memory, config.yaml, history, tables, generated file and process hold
  one configuration after a success, the old one after a failure; references
  resolve; what is saved loads, and a start takes it for what it was; Validate
  refuses an operation only for a reason that its user can know.
- Watcher: every edit is loaded or replaced; nothing that was saved is undone;
  it comes to rest.
- Health: a stale result has a reason, and is replaced in the end.
- Subscriptions: overlapping updates import nothing twice; the last list
  arrives.
- Sessions: none survives a change of password but those whose login had
  compared already; a changed password stays; the limit of failures holds up to
  the requests in flight; a lockout ends.
- Backup: what a restore replaces is in its safety copy; no file stays half
  written; redaction changes nothing but the package.
- Routing: the preview and the kernels agree wherever the rules that decide are
  written so that all of them read the same.

## 2. Plan

| | Module | Question | State |
|---|---|---|---|
| 1 | `KernelSlot`, `KernelProcess` | supervisor, with the slot as its abstract specification | checked, safety proved |
| 2 | `ConfigModel`, `ConfigStore` | commit pipeline under failures and crashes | checked, proved |
| 3 | `WatchLoop` | Stat, load and apply against saves and edits; liveness | checked, safety proved |
| 4 | `AuthSessions` | login against change of password, blocked logins, plain-text rows | checked, safety proved |
| 5 | `NodeHealth` | probes that outlive their node | checked, safety proved |
| 6 | `Subscriptions` | overlapping updates, mark before fetch | checked, safety proved |
| 7 | `Backup` | restores and backups without the lock; redaction of shared slices | checked, safety proved |
| 8 | `Routing` | rule order and matching: preview against both kernels | checked, proved |
| 9 | `ConfigRegister` | the abstract store: a register that a commit changes at once, implemented by `ConfigStore` | checked, proved |
| 10 | providers that are added and removed while an update runs; lists of several items in `Subscriptions` | | open |
| 11 | Manager.Stop against handlers, and the watcher's first Stat | | open; see section 6 |

## 3. Modules and code

### KernelSlot and KernelProcess (`kernel.go:75-226, 312-342, 402-412`)

`KernelSlot` is the promise: a slot with at most one live process, launched
into an empty slot, never brought back. `KernelProcess` is `baseKernel`. Every
critical section of `b.mu` and every blocking call is one action: `StartCall`
and `StopCall` begin an operation, `ValidateFails`/`ValidatePasses` are
ValidateConfig, `ReadCmd` to `Finish` are stopProcess (interrupt, wait with
timer, kill, drain), `Spawn`, `SpawnFails`, `Publish` are startProcess, and
`WaiterReturns`/`WaiterRecords` are the waiter goroutine. `Exit` is the OS. A
channel is named by the process it was made for.

### ConfigModel (`config.go:15-285, 445-470`, `manager.go:271-335, 2139-2201, 2358-2411`)

The configuration as sets of records, Validate, the helpers on slices, and
enabledRuntime (what a kernel gets to see). A slice is a set because every
function here finds items by name; duplicates are two records of one name.
What an outbound says besides its name and the disabled flag is its `content`:
`BadContent` for any that a per-protocol check refuses, `SignatureOf` what
outboundSignature computes of it, `MergedContent` what
mergePreservedOutboundFields leaves of it. An inbound may have the name of an
outbound, and rules may lack a name.

A configuration is changed on its way into the manager. `Loaded` is
normalizeRoutingConfig: under the preset bypass_cn a rule that sends the overseas
domains to direct is dropped. `Enriched` is enrichOutboundFromRaw, which fills
fields that are empty from the link of an outbound. Filling twice changes
nothing, and it repairs nothing that Validate rejects (both are assumed of
`EnrichedContent`); but it may break what Validate accepts. `Prefixes(c)` is what
the beginning of the saved text of `c` may load as.

### ConfigStore (`manager.go`, with `config.go` and `cmd/agent.go`)

`mem` is what managerSnapshot copies; `snap` is the snapshot of the handler at
work. `pc` is the next step of the holder of `m.mu`, so handlers exclude each
other, as in the code, while a crash, an edit of the file, the watcher's read,
a restore's read and the cleanup come in between. A handler is one edit
(`CreateProxy`, ..., `ApplyPending`) followed by `CommitValidate`,
`CommitApply`, `CommitSave` (truncates), `CommitWrite`, `CommitHistory`,
`CommitRuntime`, or `Rollback`. Imports edit once per item (`ImportItem`), and
`ImportAborts` is the early return of an invalid item. `Boot`, `BootFails` and
`BootRefused` are `main`: LoadConfig, SaveConfig (whose error is only logged), and
an ApplyConfig that may refuse what the enrichment has made of the file. The
watcher and a restore enrich what they have read, too (`ApplyPending`,
`RefusePending`), and an import enriches each item, while `UpsertOutbound` and
`UpdateRoutingConfig` put what they get as it is. `cause` records why config.yaml
may differ from the memory.

`kernels` keeps every kernel object ever made, so that a process whose object
was replaced stays visible. `KernelApplied`/`KernelRefused` stand for
GenerateConfig, the generated file, and Reload or Start; what happens inside
those is `KernelProcess`, which proves that an object has at most one process.
The two are not composed in one state space: the store uses of the supervisor
only that a call returns with or without a process.

### ConfigRegister

The promise of the store, as `KernelSlot` is that of the supervisor: a
configuration that is live, one that a handler prepares, and one that is kept
on disk. `ConfigStore` implements it (`ImplementsRegister`) with

| Register | Store |
|---|---|
| `live` | `mem.cfg` between handlers, `snap.cfg` during one, none until main's first apply is over |
| `next` | `mem.cfg` during a handler or the start |
| `kept` | `config.yaml`, as long as `cause` says that nobody has come between and no write has failed |
| `late` | the database has failed after the write of the change that was given up |

`Begin` is the edit of a handler, `Revise` an item of an import, `Write` the save,
`Commit` the return of nil, `Abort` the rollback. Validation, kernel, generated
file, history and tables are stutters. `Disturb` gives up what is known of the
file: a save that has begun (the file is truncated) and `EditConfigFile`.

`Die` and `Load` are a death and the start after it. A start does not take the
file as it stands: it takes `Taken(kept)`, in the store `Enriched(Loaded(c))`,
and may write the file, but only something of which every later start takes the
same. `Refuse` is the start that ends because `Taken(kept)` is not valid.

Two steps stand for what the code does against the promise, and no other step may
change the live configuration without a commit, or leave another one on disk.
`Leak` is finding 1, the import that gives up halfway. `FailLate` is a database
that fails after config.yaml was written: the change is rolled back in memory and
stays in the file, where the next start or the watcher takes it.

### WatchLoop (`config.go:481-514`, `cmd/agent.go:53-60`)

The watcher's Stat, load and apply, an API handler and an operator. `newer` is
"the modification time is after lastMod". A save is `SaveOpens` (truncates)
and `SaveWrites`, and both the handler and the watcher take these steps under
`lock`.

### AuthSessions (`auth.go`, with `database.go:33-44` and `cmd/agent.go:25-37`)

One user's row (`stored`: none, plain text or a hash, and of which password),
the list of failures under that user's key, the map of sessions, and what each
request is doing. Each access to the database and each section of `a.mu` is one
step: `StartLogin` is loginBlocked, `VerifyPassword` and `Migrate` are
verifyPassword, then `RecordFailure`, or `ClearFailures` and `Grant`.
`StartChange`, `UpdatePassword` and `ClearSessions` are ChangePassword;
`StartRefresh`, `EnsureAdmin`, `InsertAdmin` and `ResetAdmin` are the watcher's
Refresh. `Start` is what InitDatabase and main do to the row, and `Stop` ends
requests and everything in memory. `own` is false for a login under a name that
only shares the counter (the key is trimmed, and empty means admin).
InitDatabase always inserts admin with `password123` before EnsureAdmin runs, so
that admin_pass of a first config.yaml never becomes the password of the name
admin: `Start` is modelled so (`Inserted`, then `Ensured`).

`chosen`, `stale`, and `pass` and `late` of a session are history variables of
the properties; no guard reads them.

### NodeHealth (`manager.go:1306-1343, 1541-1614, 2067-2078`)

`nodes` and `health` are the manager's maps. An edit is one step, because its
handler holds `m.mu` throughout; the sampler's pass is a snapshot
(`SamplerBegins`) and one step per target in any order (`SamplerProbes`); a test
is `TestBegins` and `TestEnds`. What a probe finds is a function of the node it
was given, so that a stale result can be told from a current one. `changed` is a
history variable.

### Subscriptions (`manager.go:747-935, 2203-2306`)

The workers (the updater and users' requests) go through the providers that they
took: `TakeDue` (which marks before the fetch) and `TakeAll`, `Fetch`,
`FetchFails`, `Import`, `ImportFails`, `Mark`. `Matching` is
findMatchingOutboundLocked with its three strategies, `Landing` what becomes of
the outbound that is matched: a provider may keep its disabled flag and its
transport, which is part of the signature (`Merged`). A list has one item here;
longer ones, and what an invalid item leaves behind, are in `ConfigStore`.

Marks are kept by a provider's name, and nothing keeps two providers from having
one name, or none. Of those that share a name dueSubscriptionProviders takes the
first that is due, whose mark keeps the others waiting (`Taken`);
markSubscriptionUpdated marks nothing for the empty name. `ListsArrive` is about
the providers with a name of their own: another one may never be fetched by the
updater.
`MCSubscriptions` has a provider of the default strategy with two successive
lists, and two of one name that match by name, one of which keeps transports.

### Backup (`backup.go`, with the saves of `config.go:184` and `manager.go:1911`)

`disk` is config.yaml and whether nodetools.db is whole, `memory` is `m.cfg`. A
package is begun (`Begin`, which truncates an archive of the same second), then
reads the files one after the other (`ReadConfig`, `ReadDatabase`); a restore
goes on with each part that its upload has: `CopyBegins` opens the temporary
file, `CopyEnds` renames it, `LoadRestored` and `ApplyRestored` follow.
`RestoreFails` ends a request at any step. A half-written file may load as
something else (`ReadAs`, with `Cut` for what is left of its text), at a restart,
for the watcher and in the middle of a restore. Beside them commits truncate and
write config.yaml under `m.mu`, and keep writing to the file that a rename has
taken the name from (`saving.here`). `CreateDiagnosticPackage` is the effect of
redactConfig on the elements that `ConfigSnapshot` shares with the manager.

### Routing (`manager.go:946-1074, 2358-2411`, `kernel.go:457-478, 662-876, 1027-1126`)

The rules are a sequence and `Before` is the stable order of
sortedRoutingRules, so that "the first rule that matches" is a position and can
be compared between the preview and the kernels. There are three matchers:

| | Inbound | Address or port | Geo |
|---|---|---|---|
| `PreviewMatches`, routingRuleMatches | by name, any item of the value | capitals folded, a suffix's dot taken off, CIDRs with a mask, numbers | `GeoPreview` |
| `SingBoxMatches`, singBoxRules | by tag; behind shadowtls the inner inbound has another tag | items as they are written, of ports only numbers; an empty list is sing-box's affair | not written |
| `MihomoMatches`, mihomoRules | by the port of the inbound that the whole value names | items as they are written, ranges of ports too | `GeoData` |

`Form` says of an item of a value how it is written: "plain" is read by all three
as it is meant; "folded" (capitals, a dot in front, protocols, which mihomo takes
for networks) by the preview for certain; "odd" (an IP without a mask, a range of
ports) not by the preview. What a kernel makes of the last two is a
constant, `Reads`, of which nothing is assumed but what "plain" means.

The actions are the handlers that change what is compared; a handler whose result
Validate or a kernel refuses changes nothing.

### Proof modules

One per component: `KernelProcess_proofs`, `ConfigStore_proofs`,
`WatchLoop_proofs`, `AuthSessions_proofs`, `NodeHealth_proofs`,
`Subscriptions_proofs`, `Backup_proofs`, `Routing_proofs`.
`MCConfigStore`, `MCSubscriptions`, `MCBackup` and `MCRouting` hold TLC's
constants; the other runs take theirs from the .cfg.

## 4. Runs

| Run | Expect | Question |
|---|---|---|
| `kernel_process` | pass | supervisor: safety, refinement of `KernelSlot`, liveness |
| `config_store` | pass | two handlers with every failure, in every order, and two deaths of the agent; refinement of `ConfigRegister` |
| `watch_loop` | pass | no write is missed; edits are loaded; the watcher returns |
| `auth_sessions` | pass | what logins, changes, reloads and restarts do to one row and its sessions; a lockout ends |
| `node_health` | pass | stale results have a reason and are replaced |
| `subscriptions` | pass | no twins; the last list arrives |
| `backup` | pass | the safety copy is what was replaced; no file stays half written |
| `routing` | pass | the preview tells what the kernels do with rules that all three read alike; switching a node is local |
| `import_partial` | violation | an import that fails half-way restores the memory |
| `orphan_kernel` | violation | a replaced kernel has been stopped |
| `reload_forever` | violation | reloading ends when changes end |
| `redacted_backup` | violation | a backup holds the secrets |

### Bounds

- `Procs` = 3: an old process, its successor, and one more whose waiter may be
  late. The proofs hold for every set.
- `config_store`: `MaxOps` = 2 handlers or edits (every pair of operations, the
  second one meeting whatever the first one left), `HistoryKeep` = 2 (with the
  row of the start the second commit prunes), `MaxCrashes` = 2, so that the
  second death may hit the recovery from the first. One inbound and
  three outbounds, one of which has the name of the inbound; five contents: one
  that is enriched to another, one that is enriched to what is not valid, an
  invalid one, and two that differ outside the signature, so that a match can
  keep a field; two kernel types with a good and a bad executable, two routings
  (rule, and direct with the legacy rule under the preset), an edited file with
  that rule in it, imports of one or two items with each deduplication strategy.
- Only one of a restore and a watcher's read waits for the lock at a time.
- Imports start only when enough free names are left; the code always finds one
  by counting up.
- `watch_loop`: two configurations and three changes: one that the watcher has
  read, one that lands while it waits, one while it applies.
- `reload_forever` has `MaxChanges` = 1, to show that one change is enough.

- `auth_sessions`: two requests (a request and the one it races with), two
  tokens, a limit of 2, and two passwords, each of which may be the bootstrap
  one and one of which is the default. AttemptsBounded is proved for every limit and number of requests.
- `node_health`: two names, two addresses, two testers and `MaxEdits` = 4: a node
  is made, changed, deleted and made again under a pass and a test of it.
- `subscriptions`: three providers (one alone, two of one name), the updater and a
  user's request, and `MaxEvents` = 1 edit or failure; four names, so that
  `uniqueOutboundNameLocked` always has one left.
- `backup`: two requests, `MaxEvents` = 3 requests, commits, diagnostics and
  restarts together: two restores and a commit, or a restore, a backup of the
  same second and a restart; one text that a cut file may be read as. Requests
  are symmetric; the set of permutations is used for invariants and an action
  property only, never for liveness.
- `routing`: lists of up to two rules out of 16; two local proxies and a shadowtls
  inbound; an outbound that mihomo knows and one that it does not; an address that
  rules are on and one of each geo set; an item in each form: exact, a suffix
  with a dot, a range of ports, which mihomo reads and sing-box never gets, so
  that a rule is left with an empty list. Two rules are enough for every
  tie of priority, inbound and position, since the order is decided by pairs.

`CHECK_DEADLOCK FALSE` where the system may stop: the agent stays down when
config.yaml does not load or its first apply fails at `MaxCrashes`, and nothing
need happen once `MaxOps`, `MaxChanges` or `MaxEvents` is used up. `kernel_process` checks
deadlock. That nobody waits for ever is `OperationReturns` and
`WatcherReturns`.

### Fairness

`KernelProcess`: weak fairness of the operation's steps and the waiters (the Go
scheduler runs what can run; the timer fires) and of the death of a process
that was sent SIGKILL. Nothing makes a process obey the interrupt, and nobody
has to call Start or Stop.

`WatchLoop`: weak fairness of the watcher (its ticker fires) and of a save that
has begun. The watcher gets the lock because a Go mutex hands over to a
starving waiter; in the model the handlers are finitely many. No edit or
handler is required to happen. `ConfigStore`, `Backup` and `Routing` are checked for
safety only.

`AuthSessions`: weak fairness of `FailureAges` alone (15 minutes pass); a lockout
ends whether or not any request is served.

`NodeHealth`: weak fairness of the sampler (the ticker ticks, and a probe has a
timeout: `manager.go:1777`) and of each test that has begun.

`Subscriptions`: weak fairness of the passing of the interval, of the updater's
ticker, and of each worker, whose fetch is limited to ten seconds
(`subscription.go:68`). That the interval passes is required for providers with
a name of their own only: the mark of another one of its name may keep a
provider from being due for ever. No user's update is required. `MaxEvents` makes the
failures finitely many: a provider that always fails delivers nothing.

### Findings

1. `import_partial`: ImportOutboundsReportWithOptions (`manager.go:792`) returns
   without restoring; earlier items stay in memory, neither validated, applied
   nor saved, until another handler commits them.
2. `orphan_kernel`: a switch of the kernel type that fails after the apply puts
   the old pointer back and leaves the new process without an owner.
3. `reload_forever`: lastMod is taken before the apply, which writes the file;
   after one change the kernel is reloaded every two seconds, each time with a
   new row of history.
4. `redacted_backup`: redactConfig (`backup.go:256`) overwrites elements of the
   slices that ConfigSnapshot shares with the manager. A diagnostic package
   turns the passwords of the running configuration into `<redacted>`, the next
   commit saves them so, and a backup then lacks the secrets.

Further behaviours that the models contain, so that properties have to allow for
them, but that no run of its own shows:

- Configure changes the kernel object in place and the snapshot holds only the
  pointer: after a refused executable the rollback's apply uses it too
  (`manager.go:501`; KernelFollowsMemory speaks of a rollback that succeeded).
- Validate allows one name for an inbound and an outbound; the nodes table, whose
  names are unique (`database.go:59`), then has one row for both. When that
  outbound is renamed, the traffic entry they share goes with it
  (`manager.go:716-719`), and ListNodes (`manager.go:377, 392`) dereferences nil
  from then on: every request for the nodes panics in its handler until another
  edit of the inbound or a restart makes a new entry. TrafficLostOnlyByRename says
  that this is the only way to it.
- A change that a database refuses after config.yaml was written
  (`manager.go:1921-1926`) returns an error, is rolled back in memory, and is
  what the watcher or the next start takes from the file (`FailLate` of the
  register).
- PUT /api/outbounds does not enrich (`manager.go:683-733`), ApplyConfig does
  (`manager.go:272-274`): a user who clears the flow, TLS or transport of a node that
  has a link gets it back at the next reload or restart. If the link is one of
  Shadowsocks with shadow-tls, its transport comes back without its password
  (`link_parser.go:361`, `config.go:380`), so that Validate refuses what was committed:
  a reload is skipped, and a start ends with log.Fatalf (`BootRefused`).
- PUT /api/routing does not normalise: a legacy rule under bypass_cn is committed,
  and the next load drops it.
- Two subscription providers may have one name; the updater then takes only the
  first that is due, and the others may never be (`manager.go:919-922`).
- A load between truncation and write of config.yaml sees an empty file, which
  is a valid configuration without nodes; ApplyConfig makes it permanent
  (`config.go:189`).
- A handler commits while the watcher waits for the lock with what it has read
  before: the commit is undone although it returned success (`agent.go:54`).
- A provider that failed is not tried again before its interval is over, since it
  is marked before the fetch (`manager.go:922`); an import that fails counts as
  an update (`manager.go:870`).
- A login or a reload that has read a plain-text row writes its hash over a
  password that was changed meanwhile (`auth.go:229`, `auth.go:70`); the `stale`
  of ChangedPasswordStays is exactly this case.
- A file that cannot be read is left out of a backup without an error, also of
  the safety copy of a restore (`backup.go:218`).
- The preview differs from the kernels where the rules that decide are not
  written for both. It reads capitals, the dot of a suffix, CIDRs and ports in
  its own way; a bare IP and a range of ports match for a kernel and not in the
  preview; a rule on a protocol is one on a network for mihomo; a rule on ports
  that has no number reaches sing-box with an empty list; a rule on a shadowtls
  inbound never matches in sing-box, whose inner inbound has another tag; geo
  rules are not written for sing-box (of which the preview warns,
  `manager.go:972-980`), and mihomo looks them up elsewhere. Nor does the preview
  know of disabled outbounds, or of mihomo's first group, which stands for a
  direct default in global mode. PreviewTellsKernel says that with the rules that
  decide written plainly there is no other difference, and that a disabled
  outbound is never replaced by another disabled one.
- mihomo listens on one port only, and refuses a configuration with a rule for an
  outbound that mihomoProxies leaves out.

After a crash in the middle of a write, or a write error, the next start uses
what is left of the file if it loads, and does not come up if it does not.
`SavedConfigsLoad` and `CrashKeepsConfig` exclude exactly this case.

## 5. Proofs

All for every value of the constants, from the named assumption of each module
alone, except where it is said.

**KernelProcess** (`Inv` = TypeOK, WaiterInv, TrackInv, PhaseInv). None of the
properties is inductive. TrackInv says that only the process of `b.cmd` can be
alive outside the instant of publishing; WaiterInv ties each waiter and channel
to its process; PhaseInv says what each phase of an operation may assume of
`held` and `heldDone`. From it follow TypeCorrect, OneProcess, StopIsComplete,
RunningIsTrue, StoppedIsTrue, NoDoubleClose, and SlotRefinement: every step is a launch, a
vacation or a stutter of the slot.

**ConfigStore** (`TypeInv` = types, and the snapshot of a stopped agent points
to the first kernel). On top of it, one invariant per question:
`Checked`, a configuration between its validation and the end of its commit is
valid, which normalising leaves so (`NormalizedTwice`, `ValidLoads`:
WhatIsSavedLoads); `DiskInv`, until its save a commit leaves the file
equal to the snapshot, then equal to the memory (CrashKeeps, and DiskAgrees: the
file holds the memory between handlers unless `cause` says otherwise);
`StoresInv`, what each later phase has already stored (StoresFollowCommit);
`ServeInv`, the kernel serves the memory from the apply on (KernelAgrees);
`KernelTypeInv`, the type fits for memory and snapshot alike, so a rollback
keeps it (KernelObjectFits). `StepCases` classifies the steps once, so that
each proof has one case per kind of step.

The maps and the references need more. `Agrees(m)` says that the maps of `m`
agree with its slices; `MemoryInv` is this of memory and snapshot: a handler
breaks and repairs it within one step, and a rollback restores it because the
snapshot had it (MirrorsFollow). `WithoutTraffic(m)` are the nodes for which
ListNodes finds no traffic entry. Names may be shared; every edit is shown to
leave no other node without an entry than the inbound whose name an outbound has
given up (`Follows`, with `UpsertOutboundFollows` for the edit that does it).
From it follow TrafficGoesOnlyWithRename and, for runs in which no such rename
happens, NodesHaveTraffic. `ValidInv` adds to `Checked` that
the memory is valid between handlers and during an import, and the snapshot
during a handler; its hard step is `ImportItem`, which is not validated but
puts one valid outbound at a time into a valid configuration
(`ImportItemValid`). From it follow MemoryStaysValid and, with `MemoryInv`,
ReferencesFollow. RefusalsAreExplained says what that means for a user: an
operation on nodes that has found what it names is refused by Validate exactly
when its outbound has bad content, when it deletes the default outbound, or, in
rule mode, when a new forward takes the name of a rule (`RenamedValid`,
`DropNodesValid` and `SwitchNodesValid` are the lemmas on the edits).

RegisterRefinement goes through the steps of the store: under `TypeInv`, `DiskInv`
and `ValidInv` each is one step of the register or leaves it as it is
(`StepOfRegister`). `DiskInv` gives what `kept` is where the register says
so, `ValidInv` that a leaked or saved configuration is valid, and `LoadedTwice`
that what a start writes is taken by the next one as the start took it.
RegisterPromise then needs the register alone: the live configuration is valid;
between handlers it is on disk unless something has come between, or a change
was refused late, and then the disk holds another valid one.

Three properties that do not hold, and have a run that violates them, fail for
one reason each, which is proved by leaving it out of the next-state relation:

- OnlyImportsLeaveChanges: without `ImportAborts`, FailedHandlerRestores holds
  (between handlers memory and snapshot are the same);
- OnlyLateSwitchesOrphan: without a rollback over a switch of the kernel type
  whose new kernel runs, ReplacedKernelsAreStopped holds (only the object that
  the memory points to runs);
- OnlyDiagnosticsRedact (in `Backup_proofs`): without
  `CreateDiagnosticPackage`, BackupHoldsSecrets holds (memory, config.yaml, what a
  commit saves and what requests carry have the secrets).

**WatchLoop**: TypeCorrect, and NoWriteIsMissed (`UnseenIsNewer` is inductive
together with the types).

**AuthSessions** (`LoginSteps`, that only logins clear failures or grant a
session, and `SettledInv`, what the row is while `chosen` holds and who may
still write something else). AttemptsStayBounded counts: a request moves from
the set `Guessing` into `failures`, and enters the set only below the limit, so
that the sum grows by one only from at most Limit - 1 plus the others.

**NodeHealth** (`PassInv`: what targets and tests still hold is about current
nodes unless `changed`). TypeCorrect includes that every node has an entry.

**Subscriptions** (`ItemsAreListed`: whatever a worker holds is an item of its
provider's lists). Without it a worker could bring in a signature that
`OnlyEquivalent` does not speak of, and UpdatesMakeNoTwins would not be
inductive.

**Backup** (`Inv` = TypeOK and `RequestInv` of every request at work). A request
has still to unpack only what its upload has; its archive is the config.yaml
that is there as long as it has not replaced it, and the one that it replaced
afterwards, unless somebody wrote the file in between. The middle part is what
makes SafetyCopyHolds inductive (RestoresCanBeUndone). NoFileIsTorn goes through
the steps that write a file; it needs that neither an upload nor what a commit
saves is torn, nor what a cut file is read as (`ReadIsConfig`).

**Routing**: nothing beyond the types is needed of a state, and everything of the
order. `BeforeIsTotal`: priority, inbound and position order the rules totally;
every nonempty set of positions has a first one (`LeastExists`: a smallest set
without one, which well-foundedness of the finite sets gives, would have a
smaller one inside). `FirstOfPart`: the first of a set that lies in a part of it
is the first of the part. `FoundAlike` compares the matchers case by case: a rule
written for both that leads to a usable outbound is found by the preview exactly
if the kernel finds it. Only the rules that decide need be so written: the
first hit of the preview and the first hit of the kernel, and these are then the
same (`SameFirst`, PreviewIsRight). What a kernel makes of
any other item, `Reads`, is arbitrary. A
switched node takes away or brings back only hits that lead to it, so that the
first of the others stays (SwitchMovesOnlyUsers). Rule lists are of any length.

Only model-checked:

- WatcherSettles, which does not hold, and of the three properties above what the
  violating runs show;
- all liveness (OperationReturns, CrashIsNoticed, EditsAreSeen, WatcherReturns,
  LockoutEnds, HealthConverges, ListsArrive), out of the prover's reach.

## 6. What is left out, and abstractions

- Per-protocol field checks, ports, the JSON and YAML that are printed:
  `BadContent`, a good or bad executable, and `EnabledRuntime` stand for them.
- Each kernel type has its own generated file; the code lets them share a path.
  Failures of saveGeneratedFile are `KernelRefused`.
- Kernel processes die with the agent (one control group of the systemd unit).
- The snapshot is set to the memory when a commit is over, where the code drops
  it. A refused request that changed nothing is not a step.
- A cut config.yaml is a set of possibilities (`Prefixes`, `Torn`): whole items
  survive up to the cut, the last may have lost its disabled flag. In `Backup` it
  is `Cut`, any of the texts that the run allows.
- Two writes of config.yaml have different modification times (in `WatchLoop`),
  and the watcher's Stat and load are one step in `ConfigStore`.
- Manager.Stop and the shutdown of the server: main ends right after Stop, so
  what a handler may still start in between ends with the process. The window
  between main's save and the watcher's first Stat (`config.go:482`) is not
  modelled either.
- Traffic counters: sampleTraffic (`manager.go:1785`) has no caller.
- `Subscriptions`: the set of providers is fixed and a list has one item.
- `enrichOutboundFromRaw` and `mergePreservedOutboundFields` are functions on the
  contents of an outbound; that enriching twice changes nothing, and that it
  repairs nothing which Validate rejects, is assumed.
- `Routing`: `mihomo.rules`, which replace all others, and values that hold nothing
  but commas. Every inbound has a port of its own, which Validate does not ask
  for (`config.go:205-213`); with two on one port mihomo's rules for one would
  be rules for both. Which addresses are of a geo set is `GeoPreview` and `GeoData`.
- `Backup`: the certificates, and the contents of nodetools.db, of which the
  model keeps whether it is whole.
- `AuthSessions`: other users' rows; the expiry of a token is one step, of any
  token.
- Certificates, links, share links, system probes, the web panel and the
  deployment scripts: conversions and I/O without a protocol.
