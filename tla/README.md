# A TLA+ model of mica-core

mica-core is the device-side software of a small Linux appliance.  It consists
of a deployment tool and an initramfs (`mica-deploy`, `mica-runkit`), a settings
and reconciliation daemon on D-Bus (`micad`), an HTTP API daemon in front of it
(`mica-apid`) and the libraries they share (`micad-settings`, `mica-fs`,
`mica-ui-bundle`, `lifecycle-sys`, `mica-busname`).  This directory models the
parts whose correctness depends on order, interruption and concurrency, checks
them with TLC on small instances and proves most of their safety properties, for every
value of the constants, with TLAPS.

Paths below are relative to `crates/`; line numbers are in `PROJECT.json`
(`map`), which names the code of every definition.

## 1. The system

### 1.1 Components, their state and their operations

| Component | State it keeps | Operations | Modelled in |
|---|---|---|---|
| Boot records (`mica-deploy/src/fit_env.rs`) | two redundant copies: checksum, one-byte flag, one or two records | load, save with read-back | `BootEnvironment`, `RecordRegister` |
| Deployments and core sets (`mica-deploy/src/deployments*`, `set_state.rs`, `core_set.rs`; `micad/src/deployment.rs`) | boot entries with attempts; `deployments.json` and `set-trial.json` on DATA; descriptors, objects, set state, set envelopes and components on SYSTEM | install, set-install, confirm (with settle), fail-boot, reject, rollback, gc, status | `DeploymentRules`, `Deployments` |
| Objects and UBI volumes (`mica-deploy/src/ubi.rs`, `deployments/{install,io}.rs`) | object files or static volumes | publish, collect, gc | `ObjectVolumes` |
| Boot firmware (`mica-deploy/src/firmware.rs`, `board.rs`) | the loader's place, the receipt | check of the policy, readback | `FirmwareReadback` |
| Runkit boot (`mica-deploy/src/bin/mica-runkit`) | what PID 1 owns: loops, mappings, mounts; the boot receipt | verify, mount, compose the core set, spend a trial, verdict on a refused boot | `RunkitBoot`, `Deployments` |
| Shutdown supervisor (`mica-deploy/src/boot/shutdown*`) | the snapshot of mounts, loops and mappings, the deadlines, the watchdog | quiesce, release in passes, terminal action | `StorageRelease` |
| Start, resets and recovery (`mica-deploy/src/factory_reset.rs`, `micad/src/{lib,factory_reset,reset,recovery,provisioning,board_defaults}.rs`, `provisioning_doc`) | staged requests, the record of the reset, the tree in hand | erase, map an intent, carry out a tier, import a document, provision, seed ports | `DeviceStart` |
| Settings store (`micad-settings/src/store.rs`, `transaction.rs`, `mica-fs`) | documents on DATA and STATE, an undo journal on STATE | load, save, recover | `SettingsJournal`, `DocumentStore` |
| Settings routes and rules (`mica-apid/src/routes`, `micad/src/bus/apply.rs`, `micad-settings/src/model`) | the settings tree | every route that reads, changes and writes back | `SettingsRoutes` |
| Apply queue (`micad/src/apply_queue.rs`, `bus/apply.rs`, `bus/interface.rs`, `bus/apps.rs`) | the settings tree, pending jobs, task records, the applied network map | SetSettings, the apply worker, app flows, the restoration after a rolled-back network apply | `ApplyQueue` |
| Network reconciler (`micad/src/reconciler/network*`) | unit files, key files, devices | apply, roll back, rotate a key | `NetworkUnits` |
| Network routes (`mica-apid/src/routes/{network,network_model,peers}.rs`, `network_rules.rs`) | the network map | write the map, an interface, peers | `NetworkRoutes` |
| Service reconcilers (`micad/src/reconciler`, `user_units.rs`, `fswrite.rs`) | rendered files, units, the list of boot services | apply, retry at startup | `ServiceUnits` |
| Wi-Fi (`micad/src/reconciler/wifi_*`) | the radios' roles | apply, scan beside the access point | `WifiRadio` |
| Bluetooth (`micad/src/bluetooth`, `reconciler/bluetooth.rs`, `bus/operations.rs`) | the pairing window, waiting requests, trust list | open, close, pair, answer, remove, sweep | `BluetoothPairing` |
| Discovery (`micad/src/reconciler/{mdns,ssdp}.rs`, `bus/mdns.rs`) | what was published, the SSDP thread | apply, upkeep, announce | `Discovery` |
| Apps (`micad/src/apps*`, `bus/apps.rs`) | the record, directories, units, links, accounts | install, update, roll back, remove, seed, act | `AppFlow` |
| BLE provisioning (`micad/src/ble_provisioning`, `bus/provisioning.rs`) | windows, code, exchange, lockout, verifier; the hold and what it puts back; what is registered with bluetoothd | open, exchange, set, finish, claim, expire; register, advertise, hold the adapter, lend the interval | `ProvisioningSession`, `ProvisioningHold`, `ProvisioningRadio` |
| Access cache (`mica-apid/src/access_cache.rs`, `bus_client.rs`, `routes/credential.rs`) | the cached `access` subtree, its generation, whether it is live | read, write and drop, the signal watcher | `AccessCache` |
| HTTP authentication (`mica-apid/src/{session,token}.rs`, `routes/{login,password,tokens,setup}.rs`) | sessions and their generation, the guard, tokens, presence | login, change, recover, setup, mint, revoke | `AdminAccess` |
| UI bundle store (`mica-apid/src/bundle`, `routes/ui*.rs`, `mica-ui-bundle`) | trees, staging, records, `current` | upload, activate, delete, pick up at start | `UiBundles` |
| Task registry (`mica-apid/src/task_registry.rs`, `routes/mod.rs`) | a mirror of micad's task records and the ones kept aside | TaskChanged, reads that fill it, lapse, restart of micad | `TaskMirror` |
| Update engine (`micad/src/update_lifecycle*`, `update_auto.rs`, `update_policy.rs`, `bus/power.rs`, `bus/served.rs`, `deployment.rs`) | the operation slot, what a check found and a fetch staged, the install flag and its status, the driver's stage, the policy | check, fetch, import, discard, install, reboot, the driver's tick | `UpdateEngine` |
| Acquisition (`mica-deploy/src/acquisition*`, `chunks.rs`) | the workspace: downloads, assembly, verified store, checkpoint | check, fetch by delta or whole, import, discard, update by hand | `Acquisition` |
| Release catalogue (`mica-deploy/src/catalog*`, `components.rs`, `update_set.rs`, `debian_version.rs`) | the checkpoint, the document and envelope in hand | check a source document by document, against contracts | `ReleaseCatalog` |
| Diagnostic snapshots (`mica-apid/src/diagnostics`, `routes/snapshots.rs`) | snapshot files, staging, the `collecting` guard | collect, redact, publish, evict, delete | `SnapshotStore` |
| Device credentials (`micad/src/transient.rs`, `mica-apid/src/tls.rs`, `config.rs`, `routes/web.rs`) | the shadow file and its marker; the TLS identity and the server's copy | set a transient root password, expire it at boot; replace and reload an identity | `DeviceCredentials` |
| Service registry (`micad/src/scan.rs`, `mica-busname`) | the table of services, what is published of it | subscribe, sweep, probe, follow signals, ForgetService | `ServiceRegistry` |
| Web UI, audit, OpenAPI, command lines, live network state, packaging | - | - | not modelled |

### 1.2 How they interact

* The **loader** (external) reads the boot records, takes the newest entry that
  has a boot left, spends an attempt and launches the **runkit**, which verifies
  the deployment, composes its core set and starts the root.
* The boot health gate (external) calls `mica-deploy confirm` or `fail-boot`.
* `micad` runs `mica-deploy` for updates.  Every `mica-deploy` operation holds
  one transaction lock, so operations do not overlap; power loss and an error in
  the middle are what interleaves with them.
* The **update engine** of `micad` has two sources of work, an operator's requests
  and its own **driver**, which wakes every minute.  Checks, fetches, imports and
  discards share one slot; an install runs beside it under a flag of its own; the
  lifecycle, the driver and the bus object share no lock across a command.
* `mica-apid` calls `micad` over D-Bus.  A settings write is persisted through
  the **settings store**, announced by `SettingsChanged` and queued as an apply.
  The **apply worker** hands the tree to the reconcilers and publishes each
  transition of the task by the live state and `TaskChanged`.
* `mica-apid` listens to both signals: one drops its **access cache**, the other
  feeds its **task registry**.
* The **reconcilers** run under `micad`'s one apply lock, on a copy of the settings
  taken when the apply begins; they drive systemd, networkd, hostapd, the supplicant,
  BlueZ and the container service, none of which waits for them.
* The **routes** of `mica-apid` hold nothing between the read of what they change and
  the write of it; micad's rules are checked again on each write.
* A **provisioning session** over Bluetooth writes the same settings, locks the
  console out of Wi-Fi while it lasts and must put back what it abandons.
* At the end the root is left for the exit ramdisk, whose PID 1 releases the storage
  while it feeds the watchdog that backs it.

### 1.3 What is hard

Power lost between two of a dozen durable steps over three media; two redundant
copies whose flag wraps; trials that must end and attempts that must not be
given back; an undo journal that is itself interrupted; a write that lands while
an older one is being rolled back; signals that are lost, late or overtaken by
the reads they race with; a driver that awaits commands for minutes while an operator,
a source and a restart change what it decided on; handlers that read, think and write
back without a lock; service calls that fail, or succeed too late to be told; storage
that must be released in the order it was stacked, by a program the hardware will cut
off; boots over media of which any part may be damaged.  `PROJECT.json` (`hazards`) lists them at their lines,
with the properties that would catch each.

## 2. The modules

### 2.1 Boot records: `BootEnvironment`, `RecordRegister` (proofs in `BootProofs`)

`copies` are the two copies; a copy is `valid` when its checksum holds.  `Active`
is U-Boot's rule (`active`), the cases of the wrapping flag included.  `Save`
refuses a list that `render_records` could not parse back, then picks the inactive
copy and begins to write it: the copy is torn from there on (a partition) or
unchanged (a UBI volume update is atomic).  `Commit` makes it sound with the next
flag and `ReadBack` is the comparison at the end of `Environment::save`.  `Crash`
loses the writer, `Decay` a copy of the medium while the other is sound.

`RecordRegister` is what the deployment store relies on: a register that takes a
write completely or not at all, remembers at most one earlier value and may fall
back to it when the medium fails.  `ImplementsRegister` says that the environment
is such a register; `RecordsAreRegister` (of `Deployments`) that the deployment
store asks no more of its records than the register gives.

### 2.2 Deployments: `DeploymentRules`, `Deployments` (proofs in `DeploymentsProofs`)

`DeploymentRules` holds the decisions as operators on the durable facts
(`effective_state`, `confirm`, `reject`, `settlement`, `composition`,
`core_choice`); `Deployments` applies them.  One action is one durable step; an
operation's checks and its first step are one action since nothing is written
before; `pc` names the step to come.  Between any two, `Crash` ends everything
that is not durable and `Abort` ends the operation with an error.  Boot records
are a function from the one or two deployments with an entry to the attempts left
(`None` for a confirmed one).  Digests, signatures and space are abstracted to
the failure they cause.

What micad makes of all this (`micad/src/deployment.rs`) is a section of its own: the
status `mica-deploy` prints, whether micad can parse it, the phase it shows and whether it
offers a rollback.  `ReportsHold` compares these with what the loader and `mica-deploy`
would then really do: a rollback that is offered is not refused, and a phase that says
the device is done, or must be rebooted, is true of the next boot.

`history` remembers what happened, for the properties; no action reads it.  Its flags
`mixed`, `crossed`, `unbound` and `decayed` mark what the properties have to excuse
(section 6).  The one bound it sets is that the newest copy of the records decays at most once
(`Decay`), as the redundancy is of two copies.

### 2.3 Settings store: `SettingsJournal`, `DocumentStore` (proofs in `MicadProofs`)

`disk` is what a reader sees, `maybe[f]` what power loss may leave of a file: a
rename or an unlink adds to it, a flush of the directory (STATE or DATA) makes it
certain.  `pc` is the step of the one load or save under way: micad holds the
store's lock.  `SaveFails`, `GiveUp`, `Killed` and `Crash` are a failed step with
rollback, a failed step without one, micad dying, and power loss.

`DocumentStore` is the promise: the documents change together or not at all.  A
load or a save that ends with a rename or unlink not yet flushed sets `cut`; from
there to the next start of the machine the store promises nothing (`Loose`), since
the code does not either (section 6).

### 2.4 Apply queue: `ApplyQueue` (proofs in `UpkeepProofs`)

A dot-path is the set of settings under it.  `settings[k]` is the call that wrote
`k` last, `tried[k]` the value last handed to its reconciler, `applied` the network
map that came up last and `files` the one whose units are in place.  A bus call is
persist, emit, enqueue and wake; the worker takes a job, marks it running,
remembers the maps, clones the tree, applies it, restores a rolled-back map and
finishes: one action per hold of a lock.  `MaxTasks` stands for 128.

### 2.5 Access cache: `AccessCache` (proofs in `AccessProofs`)

The subtree is the number of writes made to it.  A write is persisted, announced
(or not) and answered; a read misses, samples the generation, reads micad and
fills; the watcher dials, matches, subscribes, receives and lapses.  `silent` is
the history of the writes whose signal could not be emitted.

### 2.6 Task registry: `TaskMirror` (proofs in `AccessProofs`)

Two publishers of one task's transitions (the call and the worker), each taking
the list, storing it and signalling in three steps; the watcher; one request for
a task or for the list; lost subscriptions, restarts of micad, and the bounded history
that drops a finished record (`Evict`).

### 2.7 Update engine: `UpdateEngine` (proofs in `UpdateEngineProofs`)

The source names one item on each of its two lines, core sets and systems.
`held`, `pending`, `trial` and `verified` are what `Deployments` and the workspace
amount to for micad: the floor of each line, what is installed and not yet confirmed,
whether it is booted, and what is staged.  A core set's floor is the set *confirmed*;
a system's is raised by its install.

`slot` is the operation under way: its kind, who awaits it, the step it is at and the
item it carries; each command of `mica-deploy` is one step that succeeds, refuses or
fails.  `machine` is what the lifecycle keeps from it, `install` and `result` the flag
and the status of `request_install`'s task, `clears` its last call, `installed()`,
which comes after the flag is cleared.  `driver` is the automatic driver: its stage
between ticks and, within a tick, the await it is at.  `TickAwait` reads the policy's
reboot rule when the tick does and `DriverReboot` uses it later, as the code.

Time is choice: whether a check is due, the window open, the clock believed or a
health report blocking is what `TickNotDue`, `Deferred` and `NoReboot` stand for.
`Events` bounds everything that comes from outside together: failures, requests,
publications, restarts, and the operator's rejection of what is pending
(`RejectPending`), which may come between the driver's install and its reboot.
`InstallLatestUpdate` is a check, a fetch and an install
requested in turn.

### 2.8 Objects and firmware: `ObjectVolumes`, `FirmwareReadback` (proofs in `BootProofs`)

`ovHeld[o]` is what is on the device under an object's own name (nothing, part of it,
all of it), for a file system and for static UBI volumes; publication is space check,
write, flush, rename (or volume, update, read-back), and any step may be the last.
`ovNamed` are the releases and sets that a record names, `Collection` what an
installation may remove first.  Sizes are rounded to erase blocks as the code does.

`fwMedium` is the medium by sectors, with bad blocks; a policy says where the loader
lies.  `ReadBlock` is the loop that skips bad blocks, the receipt is recorded only
after a comparison, boot records are saved in between.  Who writes the loader is
external.

### 2.9 The runkit: `RunkitBoot` (proofs in `BootProofs`)

One boot, step by step: early storage, policy, envelope, root, support images, exit
ramdisk, data, identity, core set, hand-over.  `rkKernel` is what the kernel holds,
`rkOwned` what PID 1 lists; a worker may fail before or after its effect.
A refused boot releases what is owned, retires what the failure is charged to, and
restarts.  `rkDamage` is what is broken for good; `rkUnseen` what no observation could
account for, which is left to the watchdog.

### 2.10 Shutdown: `StorageRelease` (proofs in `BootProofs`)

`mounted`, `looped`, `mapped` over a given dependency (a root on a verity mapping of a
file on another file system, another image mounted from a file on it).  The supervisor
runs one worker at a time under a deadline; `clock` ticks beside every step, `fed` is
the last time the watchdog was fed, `device` how it ended.

### 2.11 Start and resets: `DeviceStart` (proofs in `BootProofs`)

`phase` goes from power-on through the runkit's erase and micad's start to serving.
`disk` and `mem` are the stored settings and the tree in hand (a save is one step:
`SettingsJournal`), `tops` the entries of DATA, `portsRec`, `seedsRec` and `doneRec`
the records of what was seeded and reset.  Power may go and micad may die between any
two steps; a write may fail.

### 2.12 Apps: `AppFlow` (proofs in `BootProofs`)

A flow at a time, its steps in the code's order: unpack, move aside, move in, account,
units, link, hook, start, prune, record; what a failure switches back and the exits that
switch nothing back (`LeavesHalfway`, `TearDownFails`, `ClearFails`); removal, seeds,
rollback, the daily look, the verbs beside a flow.  `harmed` marks the apps such an exit
left or micad died in, which the code leaves to their next flow.

### 2.13 Routes: `SettingsRoutes`, `NetworkRoutes` (proofs in `MicadProofs`)

A handler reads and decides in one step and sends writes that land later.
`SettingsRoutes` has the lists (Wi-Fi networks, SSH keys, records, projects, units), the listeners and
the Wi-Fi roles, one `topic` per behaviour, with micad's rules checked again at each
write.  `NetworkRoutes` has the map, an interface and the peers, with the version check, the
redacted secrets, the adoption of parents and the reconciler's own rules.

### 2.14 Reconcilers: `NetworkUnits`, `ServiceUnits`, `WifiRadio`, `BluetoothPairing`, `Discovery` (proofs in `MicadProofs`, of the last in `UpkeepProofs`)

`NetworkUnits`: a port and a tunnel; validation, keys, files, deletes, reload,
settling, rollback, key rotation.  `ServiceUnits`: each reconciler is the list of
steps its apply goes through; a call to the service manager is carried out, refused,
or carried out too late to be told; an operator's `container_action` takes no lock and comes
between any two (`ContainerActs`).  `WifiRadio`: station and access point per radio,
the order of the two applies, the scan beside the access point, the startup's two
phases.  `BluetoothPairing`: the window, its timers and adapter over two locks, the
declared and the paired devices.  `Discovery`: what mDNS was told and what it noted
of it, the upkeep's own look, the SSDP thread and its group memberships.

### 2.15 Access: `AdminAccess`, `ProvisioningSession`, `ProvisioningHold`, `ProvisioningRadio` (proofs in `AccessProofs`, of the last two in `UpkeepProofs`)

`AdminAccess`: each handler is read, work, write, answer; apid may give up on a write
that lands later (`orphan`) or be restarted.  A password is its number.
`ProvisioningSession`: who may open a session, the charged exchanges and the
lockout on disk, the verifier made in the background.  `ProvisioningHold`: what a
session saved, the tasks that save and undo beside the engine, the lock on Wi-Fi.
`ProvisioningRadio`: what micad wants of bluetoothd and what is registered with it, the
engine's `settle` call by call beside the task that registers again when bluetoothd comes
back, the adapter held while Bluetooth is off, and the controller's connection interval.
A `slip` marks a call that failed and that nothing repeats.

### 2.16 Bundles and acquisition: `UiBundles`, `Acquisition` (proofs in `AccessProofs`, `UpkeepProofs`)

`UiBundles`: trees, staging, records and `current`, requests whose client may
go away while their blocking task goes on, torn trees after power loss.
`Acquisition`: the workspace with its budget, downloads resumed or begun anew, deltas
assembled from seeds, promotion into the verified store, imports, the checkpoint
against an older or a different revision, and the update by hand.

### 2.17 Snapshots, credentials, catalogue and registry: `SnapshotStore`, `DeviceCredentials`, `ReleaseCatalog`, `ServiceRegistry` (proofs of the first in `BootProofs`, of the second and the last in `UpkeepProofs`)

`SnapshotStore`: one request collects at a time, reading section by section under a
deadline; the redaction of each member by the schema, its name and its text; staging,
eviction by count and bytes, publication by rename, and the client that hangs up while the
blocking thread goes on.  `DeviceCredentials`: the transient password's marker and shadow
writes with a failure or a cut between any two, its removal at the next boot, what sshd
was told; the identity file and the copy the server holds.  `ReleaseCatalog`: a check
reads the manifest, a release's document and its signed envelope one after the other while
the source publishes; what the device accepts, what it composes to, and the checkpoint.
The comparison of Debian versions and the size of a hash tree are operators there,
compared with a reference definition over the inputs of `catProbe`.  `ServiceRegistry`: the
scan subscribes, sweeps and follows the signals; it and `ForgetService` render the table
under its lock and publish afterwards.

### 2.18 Several components in one run

The MC modules `MCDevice`, `MCSettings`, `MCNetwork`, `MCAccess`, `MCBackends`,
`MCUpkeep` and `MCOffers` hold components side by side that share no state.  `part` is
chosen at the start and says which component moves; the others keep one initial
state, so the state space is the sum of the components' and not their product.  Each
component's actions all happen within its bounds (TLC's coverage of each component
run alone was looked at as well, since a bench reports one action per part).
Where components do interact the interaction is modelled inside a module: routes
against reconciler (`NetworkRoutes`), queue against network rollback (`ApplyQueue`),
driver against deployments (`UpdateEngine`), boot records under the store
(`ImplementsRegister` and `RecordsAreRegister`).

An operator whose comment or name says it is a variant of the one below it
(`SaveInPlace` above `Save`) is a plausible bug, used to see that a property
bites; `PROJECT.json` (`mutants`) names one for each property.

## 3. The runs

| Run | Instance | What it shows |
|---|---|---|
| `device` | 4 good and 2 refused lists, flags 0..3; loaders over 4 formats, 2 versions; 3 releases and 3 sets sharing objects in 8 units; 3 recovery actions, a document, 2 operations, a cut and a fault; 2 apps, 4 bundles, an operation, a fault; 2 snapshot requests over a store of 2, a cut; 3 transient passwords, 3 stops, 2 identities | `EnvironmentSafe`, `ImplementsRegister`: a reader always finds records, a completed save reads back, and the environment is the register; `MediumSafe`: a receipt tells the truth, what is named is whole and the reserve free; `StartSafe`, `DevicePromises`: nothing serves over a half-erased DATA, recorded ports are there, a claim stays, a tier is carried out whole; `AppsSafe` (and `DevicePromises`): privileges, accounts, whole installs, the user's choice; `SnapshotsSafe`: caps, whole files, nothing secret, the deadline; `CredentialsSafe`: a transient password is gone at the next boot, the served identity is the stored one |
| `settings` | a document on each file system, two texts or none; 2 requests, 3 names, limit 2, 3 served | `JournalSafe`, `SavesAtomically`: documents change together, memory and store agree after a failed save, the journal outlives what is not durable; `RoutesSafe`: limits, names and ports hold whatever races |
| `network` | 2 map writes, a fault; 2 route requests, 2 peers; 8 kinds of service, 2 contents, 2 writes, 2 faults; 2 radios; 2 pairing calls and peers; 3 bus names, 2 callers, 2 changes of owner | `NetworkSafe`, `ServicesSafe`, `RadiosSafe`, `NothingLeftBehind`; `RegistrySafe`: the registry follows the bus, shows its table and every collision |
| `access` | 1 reader, 2 writers, 2 writes, a lapse; 2 admin requests, 3 passwords, 2 restarts; 2 passwords, a reboot; 2 generations, 2 packages, 2 cuts, a dropped client; 1 task, 1 call, 1 reader, a lapse, a restart | `CacheSafe`, `AdminSafe`, `SessionSafe`, `ServedIsRecorded`, `MirrorSafe` |
| `deploy` | 3 deployments, 2 attempts, 1 failed id remembered; UEFI: 2 sets; FIT: 1 set, an older copy that may come back | `StoreSafe`: every entry with a boot left boots, with its set; state stays readable; attempts are never given back; a rejected release never returns, though the list forgets it; on FIT the same entries when the older copy comes back; what micad reports of the store is true of the next boot; `ConfirmedKept`: the last confirmed entry goes only by a verdict; `RecordsAreRegister` |
| `deploy_trial_ends` | 2 deployments, sets of two channels, 2 attempts | a trial ends |
| `queue` | 2 writes, 1 app flow, table of 2 | `QueueSafe`, `NewerWriteStays`, and every queued write is eventually tried, written over or rolled back (`WritesApplied`) |
| `upkeep` | 2 deployments with up to two damages, trials of 0 or 2, both storages, 2 faults; 2 sessions, 2 commands; 2 hostnames, 3 targets, 2 events of the radio; 3 mounts, 2 loops, a mapping, one fault | `RunkitSafe`: everything made is owned, nothing is retired for another's failure; `ProvisioningSafe`: an abandoned session is undone, the radio stays registered through restarts of bluetoothd and returns the adapter and the interval; `ReleaseSafe`: storage goes in order, before the terminal action; `UpkeepEnds`: restarts end and a sound device comes up, the console gets Wi-Fi back, every shutdown ends |
| `offers` | 4 releases on two lines, origins that resume (with a chunk index or none) or do not (with none), budget 13, one fault, one by-hand operation; 2 names, 2 hosts, 2 changes, one fault; manifests of several revisions, good and bad releases of two channels, 2 sources, 3 checks | `VerifiedIsWhole`, `HeardIsRecorded`; `CatalogSafe`: an offer is one release, meets its contracts and composes with what is there, and a good one is not refused; `OffersArrive`: an offer is acquired, unless a cut transfer stays at an origin that does not resume, and what is wanted is published at last |
| `update` | 1 core set, 1 system, 4 policies, 2 events, room for both | `EngineSafe`: an awaited operation is one's own, what is shown as staged is there; `DriverPromises`: the driver installs only what is still named and reboots only for what was installed and not booted, pending unless it was rejected since; `OfferTaken`: an automatic device leaves no newer release untaken |
| `journal_undone` (violation) | as `settings`, one text or none | a journal removed too early (section 6) |
| `deploy_pair` (violation) | as `deploy`, UEFI, 3 sets, 1 attempt | a set that was booted and confirmed with its deployment does not become current (section 6) |

Why the bounds are enough.  Three deployments are needed for an install to collect
a third, two for a fallback; two sets of a channel for a pair and a return from
one, a set of another channel for a switch.  One remembered failed id makes the
list forget, which 128 do only after years.  Flags 0..3 wrap within a run and
keep the two cases of the wrap apart.  One document on each file system separates
the two flushes.  A table of two records fills with one job and one flow.  Two requests
are a race of each handler with each, and a third request served sees what the two
left.  A limit of two keys is passed by two racing additions.  Two sessions let one be
undone while the next is at work.  Of the three mounts the root lies on
a mapping of a file of one that is mounted below it, the shape that needs a move and
two passes.  Two damages are one that refuses the newer deployment and one that then meets the older.  The budget of 13
is the smallest at which `OffersArrive` holds: at 12 what was installed and stays
in the verified store, with what a killed fetch left, keeps the next release out.  One item on each line is enough
for a release to be withdrawn, replaced by the other line's and published again; two
events are a failure or a request in the middle of what another one disturbed.
The theorems of section 5 lift these bounds for the components they are about.

Deadlock is checked in `queue`.  The others bound a counter
(attempts, requests, faults) or stop when a device is off, so they may rightly stop.

## 4. Fairness

* `deploy_trial_ends` (`FairBackends`): weak fairness of the boot and
  of an operation under way, since the loader and the runkit run on their own and
  an operation is a loop without waits; strong fairness of the health gate's
  verdict, which the gate's timer gives in every boot that stays up, whatever
  operations come between.
* `queue` (`FairSpec` of `ApplyQueue`): weak fairness of every call begun, of
  the worker and of a flow begun, since the async runtime polls each ready task.
  No call is assumed to begin.
* `update` (`FairSpec` of `UpdateEngine`): weak fairness of commands and installs
  (each is run against a deadline), of the driver's pass and of a reboot and a verdict
  on its way; strong fairness of `TickDue`, `Recheck`, `DriverInstall` and `DriverReboot`, since a check
  falls due again and again, an operator's operations leave the slot in between, and a
  window that is shut at one pass is open at a later one.  No request and no failure
  is assumed.
* `upkeep`: weak fairness of the runkit (PID 1 runs), of the provisioning tasks (each
  waits under a timeout) and of the engine's tick, which drops a silent phone and gives
  up on one that stays away; of the shutdown only that time passes: it may hang
  anywhere.
* `offers`: weak fairness of a command under way; strong fairness of the update tried
  again and of the confirmation of what was installed; of the worker, of the upkeep,
  which looks every so often by itself, and of the SSDP thread's loop.

## 5. Proofs

Each module of proofs states what the runs check on an instance for every value of the
constants.  The inductive invariants were checked by TLC on the run's instance before
they were proved.  Every proof has the same three parts: the initial states, one lemma
for each action (often two, its effect with the types and what it keeps), and what the
invariant implies.

| Theorem | States | For every |
|---|---|---|
| `EnvironmentIsSafe`, `EnvironmentImplementsRegister` | `EnvironmentSafe`, `ImplementsRegister` | set of lists, width of the flag of at least three values |
| `CacheIsSafe` | `CacheSafe` | readers, writers, writes, lapses |
| `JournalIsSafe`, `SavesAreAtomic` | `JournalSafe`, `SavesAtomically` | documents, their split over the file systems, texts |
| `QueueIsSafe`, `NewerWritesStay` | `QueueSafe`, `NewerWriteStays` | calls, settings, dot-paths that nest or are apart, table bounds of at least two, app flows |
| `AdministratorIsSafe` | `AdminSafe` | requests, passwords, tokens, assertions, restarts |
| `ConsoleIsRecorded` | `ServedIsRecorded` | generations, packages, requests, kills, cuts |
| `MirrorServesNoGhost` | `MirrorSafe` | tasks, calls, readers, lapses, restarts |
| `StorageReleasedSafely` | `ReleaseSafe` | mounts, loops and mappings over one another, limits |
| `CredentialsAreSafe` | `CredentialsSafe` | calls, lengths, boots, faults, replacements of the identity |
| `RegistryFollowsBus` | `RegistrySafe` | bus names, callers, answers, changes |
| `RunkitIsSafe` | `RunkitSafe` | deployments, damages, storages, faults |
| `ProvisioningGivesBack` | `ProvisioningSafe` | networks, phones, commands, names, ranges, faults |
| `VerifiedStoreIsWhole` | `VerifiedIsWhole` | objects, sizes, releases, budgets, faults |
| `NetworkHearsTheRecord` | `HeardIsRecorded` | hostnames, drop-ins, apps, addresses, faults |
| `StoreIsSafe` | `StoreSafe` | backend, deployments, sets, what runs on what, objects, components, attempts, bound of the failed ids |
| `TheConfirmedEntryStays`, `TheRecordsAreARegister` | `ConfirmedKept`, `RecordsAreRegister` | the same |
| `StartIsSafe` | `StartSafe` | documents, ports, unremovable entries, operations, cuts, faults |
| `AppsAreSafe` | `AppsSafe` | apps, bundles, units, operations, faults |
| `DeviceKeepsItsPromises` | `DevicePromises` | of both |
| `RawReceiptsTell` | `ReceiptTells`, targets `range` and `emmc` | policies of the medium, loaders, writes, saves |
| `NamedStaysWhole` | `NamedIsWhole` | deployments, sets, what they share, sizes, both media |
| `SnapshotsAreWhole` | `SnTypeOK`, `ListedAreWhole`, `WithinCount`, `Shareable` | sections, sizes, caps, requests, deadlines, cuts |
| `RoutesAreSafe` | `RoutesSafe` | requests, names, limits, values |
| `NetworkIsSafe` | `NetworkSafe` | writes, faults, rotations; requests, interfaces, peers |
| `ServicesAreSafe` | `ServicesSafe` | contents, writes, faults, of each of the 8 kinds |
| `RadiosAreSafe`, `NothingIsLeftBehind` | `RadiosSafe`, `NothingLeftBehind` | radios, writes, scans; peers, calls, windows |
| `SessionIsSafe` | `SessionSafe` | passwords, failures to a lockout, levels, reboots |
| `EngineIsSafe`, `DriverKeepsItsPromises` | `EngineSafe`, `DriverPromises` | items, generations, policies, budget, events |

**`BootProofs`**.  For the boot environment the inductive invariant is `TypeOK /\ Loads /\ Adjacent /\
WriterInv`: a copy is sound; the flags of two sound copies are neighbours modulo
the wrap; and the writer's memory is consistent with the copies at each of its
steps (the active copy is sound and carries the flag it read while the other is
being written).  Adjacency alone is not inductive: a commit writes the flag after
the one the writer *remembers*.  From it follow `TypeCorrect`, `RecordsAlwaysLoad`,
`ReadBackNeverRefuses`, `FlagsStayAdjacent`, together `EnvironmentIsSafe`, and, with
one lemma per action, `EnvironmentImplementsRegister`.
For the runkit, what is mounted is
accounted for by what it lies on (a mount in the root by the root's mapping, a
bind of the modules by the support image's), so `RkInv` says what lies on what (`RkListed`) and, for
that to hold at the next mount, how far the boot has come (`RkReached`); `RkBlame` says that
a refusal blamed on the deployment has its cause in it, before anything is retired for it.
For the shutdown, `ReleaseSafe` becomes inductive with: the operation under way is on a
candidate, also while it hangs; and the device is gone only after a release that emptied
the storage.
For the start, an erase that has begun stays requested until its record is written
(`DvErase`), the tree in hand and the stored one differ in the tier alone until the
configuration is cleared (`DvTrees`), what a tier has to clear is exactly what is still there
(`DvTier`), and a port is recorded after it is stored (`DvPorts`).
For the apps, `WholeApp` speaks of an app no flow is at work on; the
invariant says of the one that is, at each step, what a failure would go back to (`Returnable`)
and how far the switch came (`Forward`) or went back (`Backward`), and `AfPriv` that
everything on disk which could be made to run asks for no more than was let.
For the firmware, a readback that has compared equal and was not overtaken by a write holds the
loader already (`FwTrue`), and `RangeValid` keeps both it and a write apart from the copies.
For the objects, nothing that a collection is about to remove under its own name
belongs to what is named, runs or is being installed, and what an installation no longer has to do is whole.  This
needs that a deployment and a set share no object (`VolumeAssumption`: they lie in directories of
their own, `set_state.rs` `objects_dir`).
For the snapshots, while no client left a publication behind, one request publishes at a time
(`SnTurns`), so that what it counted before it evicts covers what is there (`SnSeen`): deletions only
make it less.  A file under its own name is written to its end (`SnWhole`, kept for what a cut
brings back too), and everything in one went through the redaction.  `PrivateIsMarked` says what a private member is: named a secret, under a
rule, or not named by the schema.

**`DeploymentsProofs`**.  `StoreSafe` says what the loader, the runkit and micad find; nearly
all of the invariant `DpStore` says why.  `DpSteps` and `DpSets`: what an operation
holds at each step, and that the set state names whole sets only, the composed one
being what the pair or the binding of the running deployment says.  `DpStored`: descriptor
and objects of everything that may boot or runs are on SYSTEM, what a collection is about
to remove is none of them.  `DpFloor`: nothing rejected or confirmed is above
the generation floor, on DATA and in what an operation is about to save; this is why a
release stays out after the list has forgotten it.  `DpData`, `DpNames` and `DpApart`: DATA and the
records agree on verdicts; an entry below another with a boot left is confirmed and is
DATA's current or its fallback; only the newest is on trial.  Without `DpNames` an interrupted confirm
could leave an entry that the next one does not retain.  `DpRuns`: each deployment that may
boot has, by pair, binding or current, a set that runs on its root, the one it was confirmed
with.  `DpWritable`: what the settlement will write was foreseen before the records changed.
`DpOlder` is about the other copy of a FIT board: until the second save of an operation
nothing it names has gone, and `Alike` are the steps before which both copies say the
same.  After a decay `DpKept` falls away as a whole and the rest remains, which is what `StoreSafe`
promises then.

**`AccessProofs`**.  For the access cache `CacheInv` says of the cache and of every read that could still fill it (its
generation is current) that it is no older than the latest answered write; it
gives `CacheTypeCorrect` and `AnsweredWritesAreSeen`.  `LagInv` says that every
write which the cache or such a read lacks is silent or on its way, per write: a
statement about "some change on its way" would not survive a failed emission.
It gives `CacheIsFresh`; the three together are `CacheIsSafe`.
For the bundle store `UiAlone` says that no two blocking tasks run
while no client has gone away, and `UiRelied` what each place of a task counts on: the tree it renames
is synced and its place free, the one it points at is there with its record, the one it
removes is not served.  For the mirror, `MicadInv`, `RegistryInv`, `WireInv` and `ReaderInv`
say of everything that carries a task's status (a publisher, its list, the wire, the mirror
and its stale copy, a request that has read) that it is of a task micad made, and active only if its
micad still runs or its carrier can no longer enter the mirror.

For the administrator there are four parts beside the types.  `Locked`: each of the two locks is
held by exactly the request that is served under it.  `PassInv`: every password that may
still be written is different from every other and from the one in force (so "the
password a session was opened with" identifies it), and a device once claimed has one.
`SessInv`: a login past its reads either
read the password in force or carries a generation that `SessionStore` has left behind,
unless a change is written and not answered.  `RotInv` counts: the rotations made under an
assertion and the requests that may still make one are paid for by the interruptions seen,
plus one once the assertion is in use, spent or gone.
For the provisioning session, `GuessInv` charges every answered exchange to the failures or to a
lockout, `VerifierInv` says that the verifier and those still being made in this generation are of
the password micad was last told, and `ClaimInv` that whatever takes the device for
unclaimed has a call on its way that tells it.

**`UpdateEngineProofs`**.  `EngInv` adds to `EngineSafe` what an operation carries at each of its steps
(`SlotInv`), that a pass runs from an idle driver and has rechecked what it is about to install
(`DriverInv`), and that an install remembered as done by its task, by its status or by the driver's stage
is pending and not booted (`DoneInv`), which a reboot or a restart must clear everywhere at once.

**`MicadProofs`**.  For the routes, `RtInv` says that every write still on its way carries a list
that was within its limits when it was read: the limits hold because micad checks the rest
again, and the handler alone for the keys.  For the network, `NuInv` relates tunnel, unit files and
key files at each step of an apply, the files a rollback would put back included
(`KeysKeptBack`), and `NrInv` says that a map may carry the redaction sentinel until it is judged, and
never the secret of another peer.  For the services, `SvcInv` says what every suffix of an
apply's list of steps has reached (`Reached`), for each kind; for the radios, `WifInv` does so for
the steps of an apply and its startup retry, with an access point that a scan has paused counted
as up; and `BtInv` says who will close an adapter that is open without a window.

For the settings store `JournalInv` gives every phase of a load, a save and a
recovery its predicate over `disk` and `maybe` (`Recovering`, `Forgetting`, `Quiet`,
`Journaling`, `Writing`, `Committing`, `Failing`, `Restoring`): which documents are old or
new, what of each is durable, and whether the journal may still be lost or come back.
All of them are about one value `v`, what a load would return (`Val`), which no step
inside a load or a save changes; power loss anywhere in a phase leaves a state that comes
to `v` or, after the commit, to the save's target.  That makes each step a step
of `DocumentStore` or none, which is `SavesAreAtomic`.  The invariant says nothing once
`cut` is set, as the code promises nothing then.

**`UpkeepProofs`**.  For the credentials, `PwInv` says which hash the shadow file may hold at each
step of a write (the marker's, an earlier one the marker no longer names, or a torn file)
and `IdInv` which identity the file and the server hold under the lock.  For the registry
`RgInv` says, beside the types, that the last signal queued about a name tells whether it
has an owner, that a name without a signal is in the table as the bus has it, and that the
last rendering taken is the table's: the scan's probe and a sweep are both overtaken by
signals, so neither follows from the table alone.

That verified objects are whole does not survive power loss by itself:
`StoreInv` adds that they were synced before they got their name.  For discovery, `ToldInv`,
`JobInv` and `HeardInv` say what the responder's thread has told, is telling and has
recorded, for services that each have a name of their own; that the wanted ones do is a
lemma about the merge of the drop-ins, apps and defaults (`WantedNamed`).

`HoldSafe` speaks of a device at rest, so its invariant has to say of every other moment who
owes what: `HdDoomed` names a save that has lost its connection or its hold and can only be
reported late; without one, a changed mode is in the snapshot of the hold or on its way
back (`HdMode`), and, unless some command's end will keep it (`HdMarked`), every network and
the wired entry are in the hold, in what puts it back, or in the hands of the one task whose
serial is the connection's (`HdNets`, `HdWired`).  Serials make that task unique
(`HdSerials`).  For the radio, `RdPlaces` says what each place under the lock counts on,
`RdApp` and `RdAdv` that what is registered is what is wanted wherever no return of bluetoothd
is unheard, `RdRuns` that an apply which nothing waits behind knew of every hold, and
`RdLent` that the range to put back is the one found.

For the apply queue `QueueInv` is about the table: its order has no repetition, every
record that is not finished has exactly one owner among the pending jobs, the worker and
the app flow, and so at most two are active beside the jobs (`RecordHasRoom`), which is why
an enqueue outgrows no bound and only `open` does.  `LiveInv` is about the settings: each stored
value was tried, or is the one a rollback came back to, or is *covered* (its call has it
to queue, a job has its path, or its call failed), or is on the worker's path ahead of its
apply; the worker's copy and the maps it remembers differ from what is stored only where a
newer write is covered; and a job pending means a worker that is up, with a permit or
a caller about to leave one if it waits.  `Fresh` and `Newest`, which say that a value not yet
written is nowhere and that what the worker has not tried is not what it attempted, give
`NewerWritesStay`.  The proof corrected the model: `TableBounded` once allowed a single
record over the bound, which holds for one app flow only.

The assumptions are the named `ASSUME`s of the component modules, which TLC evaluates in
the runs: finite sets of requests; markers that are no text, task or document; documents
in a fixed order (the code's list); storage whose mappings and mounts lie on others of the
same set; a watchdog within its kernel's range (20 to 86400 seconds); generations that
count from one; names that are strings; at least one radio; a list limit that is a number and finitely many names; finitely many bundles
of positive versions; documents with a number for an identity; a `None` that is no deployment, set, number
or reason of a refusal; services of the kinds the code has; interval ranges whose minimum is not over their maximum (the kernel refuses others); dot-paths of which two are nested or apart, and a table
of at least two records (the code's has 128).  In a run over several components each
specification moves while `part` is its own, so the theorems are about the actions the runs
explore.

What the proofs corrected.  Looking for an inductive invariant found, in the model, that
`ServiceUnits` could not tell an apply that has no step from none (`begun`), that `PeersRemove`
takes the first peer of a key only (as the code), that a failed save of a recovery leaves a tier
in hand that is not stored (`unstored`), and that `TableBounded` held for one app flow only.  For
`Deployments` it found the two settlements of section 6 (`crossed`), which none of the checked
instances had reached; that an operation which ends between its two saves costs the older copy
nothing after all, so that the former excuse for it is gone from `EntriesBoot` and what is left is the one operation that
drops a binding without a look at that copy (`unbound`); and that the settlement may find
SYSTEM read-only after a decay.

Model-checked only:

* liveness under fairness (`WritesApplied`, `UpkeepEnds`, `OffersArrive`, `OfferTaken`,
  `TrialEnds`), outside the prover's reach;
* `CatalogSafe`: `ReleaseCatalog` compares versions and folds
  contracts with recursive operators;
* of `MediumSafe`: the readback of an EFI file and of an MTD partition, which selects sectors out of a
  sequence (`SelectSeq`), and the reserve, a `FoldSet` sum over objects; what either returns is an
  induction over data;
* of `SnapshotsSafe`: the cap on bytes, the same kind of sum.

## 6. Where the code and its documents disagree

With a run:

* **A journal removed too early** (`journal_undone`).  `micad-settings/src/store.rs:402`:
  "The single writer removes the journal only after every replacement is durable."
  `recover` passes over a document that already reads as its previous text; if an
  earlier recovery was cut between the rename and the flush, the text is not durable
  and the journal goes.
* **A pair is bound to a set it never ran** (`deploy_pair`).  `mica-deploy/src/deployments/sets.rs:293`:
  "The set the runkit composed is the one that was tried: a pending set booted becomes
  current."  When `current` changes, `make_current` (line 319) binds every other retained
  deployment that has no binding to the old current, the one of a waiting pair included,
  which has run no set yet ("bound to the set it ran").  A device rolled back to d1 (its set s1, current
  s2) installs d3 with s3 before d1 is confirmed; the confirmation of d1 makes s1 current and
  binds d3 to s2; d3 boots s3, is confirmed, and its settlement commits s3 and then, for the
  binding, makes s2 current.  With a fourth deployment the same settlement can take the pair away and leave
  an entry whose bound set does not run on its root.  `EntriesBoot` and
  `BootsConfirmedSetApart` are therefore said of devices on which no older boot was confirmed
  while a pair waited (`crossed`).

Stated in its module the way the document has it, refuted by TLC on the instance of the
component's run (with the change of a constant named here, where there is one), and kept
without a run of its own:

| Property | What the code does | What is said of it |
|---|---|---|
| `UpdateEngine!RejectedNotReinstalled`, `Events = 0` | `held_generation` (`acquisition/sets.rs:56`) and `install_set` know the confirmed core set and the pending one only, and the set state keeps no failed ids: a set whose trial failed is named, fetched, installed and booted again for as long as it is offered | "Native failed IDs and generation floors prevent reinstalling rejected releases" (`micad/src/update_auto.rs:4`), which is so of systems |
| `NetworkUnits!RolledBackMapRuns` | pre-shared keys are written and removed (`reconciler/network.rs:454`) before the devices settle, and the rollback (544-559) does not put them back | "so the stored map is the one running" (`bus/apply.rs:528`) |
| `NetworkRoutes!RulesAgree` | the reconciler also refuses addresses that do not parse and blocks of another kind (`reconciler/network/validate.rs:13`, 74), which the route's rules (`network_write.rs:391`) let through | "the two cannot disagree about what a declaration is" (`network_rules.rs:3`) |
| `NetworkRoutes!EditOfAnotherKept` | an interface's write carries the VLAN parent it adopted as it read it (`routes/network.rs:316`), over another request's edit of that parent | "a concurrent edit of a different interface is not lost" (line 313) |
| `SettingsRoutes!ServerIsNotOwn` | a write of the network alone does not look at the servers: the rule needs `dns.global` to change in it too (`micad-settings/src/model.rs:197`) | "so a write of either side is held to it" (line 194) |
| `SettingsRoutes!PatchJudgedByResult` | each write of a PATCH is validated on the tree that the ones before it left (`bus/apply.rs:99`): switching one listener on before another goes off their common port is refused | "validates the result once" (`routes/settings.rs:379`) |
| `DeviceStart!BadEntryStillBoots`, `BadDirs = {"mica"}` | the directory is made over the entry that could not be removed, fails, and does so at every boot (`mica-deploy/src/factory_reset.rs:200`) | "one bad inode must not stop the device from booting" (line 155) |
| `DeviceStart!ApKeyKept` | the configuration is cleared (`micad/src/reset.rs:233`) before the tree with the kept key is saved (292): a failure between the two loads a tree without it at the next start | "without it a claimed device would fall back to a key nobody was shown" (line 325) |
| `DeviceStart!StagedOrNothing` | the tier is set in the tree in hand before its save (`micad/src/recovery.rs:203`, 208); when the save fails it is carried out all the same | "the device boots normally and nothing is asserted" (`micad/src/lib.rs:177`) |
| `ObjectVolumes!GcLeavesOnlyNamed` | `gc` looks at no `c-` volume (`deployments/lifecycle.rs:277`): a component of a set whose publication failed stays | "every `k-`, `s-`, `r-` or `c-` volume no retained deployment or set names" (`docs/mica-core.md:1492`) |
| `Acquisition!AcquiredAtLast`, `AcqIndexes = {"wrong"}` | an assembly of the full length and the wrong bytes is refused by `promote` only (`acquisition.rs:471`), which ends the fetch, and the next one assembles it again | "any failure falls back to the whole object" (`docs/mica-core.md:1349`) |
| `UiBundles!ActivatedExplicitly` | what an interrupted upload left in staging is picked up and activated at the next start (`bundle/install.rs:48`, `ui_upload.rs:270`) | "activated explicitly" (`docs/mica-core.md:1087`) |
| `Discovery!AnsweredAtLast` | `joined` only grows (`ssdp.rs:509`): an address that goes and comes back has left the group and is not joined again | "on each new address" (`docs/mica-core.md:930`) |
| `AppFlow!UpdateByHandTakesIt` | the unattended refusal is recorded as a failed version (`apps/update.rs:260`), which a check by hand then does not offer | "only an install or update by hand takes it" (`docs/mica-core.md:759`) |
| `AdminAccess!RecoveryRevokesTokens` | a password change writes back the whole of `access` as it read it (`routes/password.rs:105`), tokens and generation included, over a recovery that came between | "and so does every API token" (`routes/reset.rs:367`) |
| `ProvisioningSession!OldPasswordStopsWorking` | the verifier is replaced by a call after the write; a reboot between the two loses it, and a login with the old password under way across the change takes the new generation (`ble_provisioning/runtime.rs:93`) | "Each change replaces the record, so the old password stops working" (`docs/ble-provisioning.md:219`) |
| `ProvisioningHold!AbandonedNetworksRemoved` | a save that is reported after its hold is gone, or never, is not undone (`engine.rs:416`) | "also removes the networks such a `setWifi` added" (`docs/ble-provisioning.md:391`) |
| `ServiceUnits!ConvergesToSettings` | whether to restart is whether the file changed (`fswrite.rs:34`, `sshd.rs:414`): after a failed restart the retry sees the same file, and the service keeps the old one | "converges the system to it" (`docs/mica-core.md:220`) |
| `WifiRadio!RadioTakesTurns` | with both roles on one interface the access point's apply returns before it looks at the radio (`wifi_ap.rs:613`), the station stops only an access point that is switched off (`wifi_client.rs:320`): one that was running stays beside the supplicant | "share one radio and take turns" (`docs/mica-core.md:246`) |
| `BluetoothPairing!PairingNotLost` | a sweep over a copy of the list taken before a pairing was declared unpairs it (`reconciler/bluetooth.rs:84`) | "a pair landing during a reconcile must not be lost" (`bus/operations.rs:134`) |
| `BluetoothPairing!EarlierTimerSparesWindow` | the timer compares the window, lets the lock go and closes whatever is then open (`bluetooth/agent.rs:93`) | "the timer of an earlier one cannot close a later one" (`bluetooth/agent.rs:29`) |

Seen while modelling, neither a property nor a run:

* On the last attempt of a deployment its entry has no boot left, so `install_set`
  finds no candidate and installs a set alone beside the trial
  (`deployments/sets.rs:158`), against `docs/mica-core.md:1258`, "A set alone is not
  installed while a deployment is on trial".  A consequence: `retained_deployments`
  leaves that deployment out, its binding goes, and a later boot of it may compose
  another set than the one it is confirmed with.
* A call publishes its queued record after it has woken the worker
  (`micad/src/bus/apply.rs:270`); when the worker is faster, `TaskChanged` says queued
  last and the mirror keeps it, against "The latest known task record"
  (`mica-apid/src/routes/settings.rs:489`).
* With a core set installed and `rebootPolicy` manual, the next due check names the
  pending set again and its fetch fails ("another set is pending"): the lifecycle then shows
  `failed` (`update_lifecycle/snapshot.rs:75`), against "The lifecycle reports
  `reboot-required` until one arrives" (`update_auto.rs:452`).

* For a deployment that carries a core set an object listed with another length than its
  descriptor's passes the check too (`catalog.rs:380`: it is taken off the list of what is
  required whatever its length, and the second alternative asks only for a length above
  zero); the fetch then meets it.
* `settle` advertises before it holds the adapter (`ble_provisioning/engine.rs:1222`).  With
  Bluetooth off and no bluetoothd running, `advertise` finds no adapter and returns before it
  notes what is wanted (`bluez.rs:444`), so the window stays unadvertised after the hold has
  started it, against `docs/ble-provisioning.md`, "While a window is open the adapter is
  powered even if Bluetooth is switched off".
* The registry's snapshot is rendered under its lock and published after it: when
  `ForgetService` overlaps the scan an older one may be published last, against
  `micad/src/bus.rs:140`.

Seen while modelling, and built into the properties as their conditions:

* A save whose journal could be neither removed durably nor written back answers an
  error with the new documents in place (`transaction.rs:153`, against
  `store.rs:401`): `HeldIsStored` is conditional on `~cut`.
* `set_settings` returns the error of a failed `SettingsChanged` before it queues the
  apply (`bus/interface.rs:102`): the write is stored and never applied, and apid keeps
  its cache.  `Unqueued` and `silent` mark such writes.
* `open` inserts an app flow's record over a full table of active ones
  (`apply_queue.rs:223`, against "Maximum number" at line 16), and an eviction makes
  room for one record only, so the table does not shrink again: `TableBounded` allows
  one more for every flow opened.
* After a failed networkd reload a rolled-back apply leaves the stored map different
  from the one in place (`reconciler/network.rs:480`, against `bus/apply.rs:528`):
  `StoredMapRuns` asks that the units in place came up.
* `install_set` drops the bindings of deployments whose entries are gone from the
  newest copy of the records, while the older copy may still name them: `EntriesBoot`
  excuses what that copy composes then, and what boots after its return (`unbound`).  Their
  descriptors and objects are there all the same.
* `sets_need_settling` is asked before `confirm` changes the records.  On records that came
  back by a decay `confirm` drops an entry DATA knows a verdict on, and the settlement
  may then have a binding to drop on a SYSTEM that is not writable; the confirmation fails and the
  next one settles: `SettleWritable` excepts the decayed copy.
* A configuration tier that was cut and is followed by an intent for the application data: the
  new tier replaces the stored one in hand (`micad/src/recovery.rs:197`), and when its save
  fails the two differ (`unstored`).
* An install commits its entry before DATA names it (`deployments/install.rs:484`).  If the
  last save is lost and the entry is then spent, the next install drops it, and power
  loss before that install saves DATA leaves nothing that refuses the release:
  `RejectedNeverReturns` speaks of the releases DATA has recorded as failed.

* A client that hangs up drops the selection guard (`routes/ui.rs:299`, 367) while the
  blocking task it began goes on, so a deletion can pass an activation:
  `ServedIsRecorded` leaves the dropped client out.
* Setup opens its session without the check of the generation that a login makes
  (`routes/setup.rs:318`): `AdminSafe` speaks of the sessions a login opens.
* The same dropped guard at `routes/snapshots.rs:165`: a client that hangs up while its
  snapshot is published lets the next collection begin beside it, and "Whole or not at all"
  (`diagnostics/store.rs:162`) and the caps hold only while none did (`snHungUp`).
* A second transient password that writes its marker and does not come to the shadow file
  leaves the first one in it with no marker to expire it (`micad/src/transient.rs:140`);
  `/etc/shadow` being a link to another file system, it is written in place and a cut leaves
  it torn.  `GoneOnNextBoot` excepts both (`pwStopped`, `"torn"`).
* A reload of the TLS identity that fails, or is dropped with its request, leaves the server
  with the old identity while the file has the new one (`idMissed`).
* bluetoothd restarting between `advertise` and `hold` loses the advertisement, and
  `set_interval` failing between its two writes leaves half of a range that nothing puts back
  (`slipAdv`, `slipRange` of `ProvisioningRadio`).
* On FIT, when the newer copy of the records is lost, DATA knows verdicts the records forgot,
  and micad may say `reboot-required` while the loader boots the same deployment:
  `ReportsHold` excepts the decayed copy.
* What was staged and installed stays in the verified store until it is discarded.
  `OffersArrive` therefore holds from a budget of 13 on and fails at 12.
* A transfer cut at an origin that ignores `Range` leaves a partial which refuses every later
  fetch (`acquisition/transfer.rs:235`) until a discard: `OffersArrive` excepts it
  (`StuckPartial`).
* The checkpoint is one file, and binds its own source only (`catalog.rs:260`): a check
  of another source replaces it, after which the first may serve an older revision.
* An operator's reject of the pending candidate between the driver's install and its reboot
  (`bus/power.rs:306`; `update_auto.rs:449` reads no facts again) makes the driver reboot for
  nothing: `RebootsIntoPending` excepts what was declined.
* A flow of an app that fails after the old version was set aside (`apps/flow.rs:233`, 238, 251),
  when it writes its record (290), or when it clears the app (822) goes back to nothing,
  against "on a failure go back to what was there" (line 173): `InstalledWhole` excepts it
  until its next flow (`harmed`).
* An apply of sshd that stops before its environment file, or whose restart fails
  (`reconciler/sshd.rs:415`, 464), leaves password logins as they were and nothing repeats it:
  `AcceptedOnlyWhileSet` excepts it (`pwMissed`).
* A container that an operator starts between the drain's last look (`container.rs:214`) and the
  stop (189) is left running: `NothingLeftBehind` excepts it (`late`).
* The save of a rolled-back network that fails is only logged (`bus/apply.rs:559`): the
  stored map is then not the one that runs (`unsaved` in `StoredMapRuns`).
* A write of the undo of a provisioning session that is refused is only logged
  (`bus/provisioning.rs:276`, 457): `AbandonedIsUndone` excepts it (`UndoRefused`).
* A task whose record the history of 128 has dropped is answered as interrupted though
  it finished (`routes/mod.rs:386`), and the signal stream does not end when micad restarts
  (`bus_client.rs:234`), so until it does the mirror serves the earlier micad's tasks.
* A guard file that cannot be read starts again from nothing (`mica-apid/src/auth.rs:214`):
  the attempts are charged from there.  A claim whose `SettingsChanged` fails never
  reaches the Bluetooth engine (`bus/interface.rs:170`): `UnclaimedSessionEnds` excepts it.

## 7. What is not modelled, and why

* Signature and digest checks, cryptography, encodings, file formats, manifest grammar,
  GATT framing, SSDP messages and their rate limit, and command lines: data, abstracted
  to their outcome (accepted, refused, torn).
* The validation of a single value (an address, a name, a port's range): pure functions
  of one input, which a unit test reaches.  The rules between values are modelled
  (`SettingsRoutes`, `NetworkRoutes`).
* systemd, networkd, hostapd, wpa_supplicant, BlueZ, podman and the kernel: other programs,
  modelled as far as the code calls them and reads their answers.
* The live network state (`micad/src/network_state`): a formatter of what the kernel
  says, with no state of its own.
* The web UI, the TLS handshake, the audit log, the OpenAPI document, packaging: no state of
  record.
* The wrappers of system calls (`lifecycle-sys`): one call each.
* Of the update engine: a pair of a system with its set, deferrals and the override of
  the gate.
* Of the reconcilers: what each renders into its file (`ServiceUnits` has the
  file's change and what follows from it); the unit of the MQTT bridge and `unit_action`
  (`bus.rs:505`).

Simplified inside a modelled operation:

* `NetworkUnits`: a replacement of files fails as a whole, and the rollback's own file
  steps do not fail beside its reload (`network.rs:307`, 546, 557).  `NetworkRoutes`: which secrets a map inherits
  is decided by the peer's key (`network_model.rs:194`).
* `ProvisioningRadio`: the power-on of the adapter does not fail on its own
  (`reconciler/bluetooth.rs:129`), and micad does not restart, which would note the fast
  interval as the one found.  `BluetoothPairing`: an adapter closes when it is told
  to; one that refuses (`bluetooth.rs:346`, `bus/interface.rs:755`) stays open until BlueZ's own timeout.
* `AdminAccess`: a write of the guard file does not fail (`auth.rs:260`).
* `Acquisition`: `staging/catalog.partial` does not count against the budget, DATA's own free
  space is the budget (`acquisition.rs:73`, 116); the probe before an update by hand and the
  channel other than general (`mica-deploy.rs:752`, 798) are left out.
* `ObjectVolumes`: the space check and the release of unreferenced objects in units
  (`install.rs:434`, 469; `lifecycle.rs:193`, `sets.rs:424`).
* `DeviceStart`: the error exits of a reset's commit are one (`reset.rs:272`), what lies under
  `DATA/containers` is one entry (line 115), a request is well formed or not (`factory_reset.rs:183`).
* `RunkitBoot`: the failing steps of the hand-over and of the cleanup are one each
  (`boot.rs:425`, 485; `init.rs:211`).

## 8. Plan

Modelling that is left: pairs, deferrals and the gate's override in `UpdateEngine`; the
composition of `Acquisition` under `UpdateEngine`, which now has a fetch as one step that
fails or not; `NetworkRoutes` over `ApplyQueue`.

Proofs that are left: what `FirmwareReadback`, `ObjectVolumes` and `SnapshotStore` compute by
folds over their data (section 5) needs an induction the provers do not instantiate; `ReleaseCatalog` would
have to do without its recursive operators first.
