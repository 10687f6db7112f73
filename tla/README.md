# orchd in TLA+

Specifications of orchd, the orchestrator that boots a project's workloads on
demand, puts a gateway in front of them and scales them to zero. All paths below
are relative to `src/orchestrator/` unless they start with `src/`; `manager.go` is
`internal/manager/manager.go`, and so on.

- [The system](#the-system): components, state, operations, what is hard
- [Plan](#plan): modules in order, and what is still to come
- [Lifecycle](#lifecycle): a workload between requests, API, reaper and restarts
- [Firecracker](#firecracker): microVMs, their snapshots and the host's capacity
- [Metering](#metering): traffic, from the gateway to the bill
- [Store](#store): projects, workloads and routes, in memory and on disk
- [Backups](#backups): dumps, archives, retention, and the eviction that leans on them
- [Gateway](#gateway): a request, from its host to its answer
- [Images](#images): frozen versions of a template, and who boots which
- [Volumes](#volumes): the thin pool, and which driver has a workload
- [Runs](#runs), [fairness](#fairness), [proofs](#proofs)
- [Divergences](#divergences), [limits](#limits)

To check: `tlc -config lifecycle_all.cfg MCLifecycle`, and likewise for each run
below; `tlapm LifecycleProofs.tla`, and likewise for the other `*Proofs` modules. `PROJECT.json` is
the index: components, runs, which source lines each definition stands for,
mutants (plausible bugs that each property must catch), hazards and theorems.

## The system

orchd is one process. HTTP requests arrive at the gateway and API calls at the
control plane, each on its own goroutine; a few background loops run beside them.
State is in three places: the store (durable), the runtime (containers, VMMs and
their files, which survive orchd) and the process's memory (which does not).

| Component | State it keeps | Operations | Talks to |
|---|---|---|---|
| **Manager** (`manager.go`) | `live` map (address, lastSeen), `refLocks` (a mutex per workload), `unowned` (first sight of an instance without a live entry), `hostLocks` | register, provision, wake (`EnsureRunning`), start, stop, restart, reset, backup, restore, set keep-warm, delete; loops: `RunReaper` (every 30 s, reconciling every 20th pass), `WakeKeepWarm` at startup | driver, store, backup store |
| **Docker driver** (`docker.go`) | none; a container per workload, `--restart no` | Create, Start, Suspend (`docker stop`), Stop (`docker rm -f`), Status, readiness wait | docker CLI |
| **Firecracker driver** (`firecracker.go`) | `meta.json` per VM (pid, device, ...), snapshot files (`snap.mem` or `.zst`, `snap.state`), `pendingSpawns`, `bootSem`, per-ref locks for (de)compression | Create, Start (resume, restore or boot), Suspend (snapshot, kill, `Compact` in a goroutine), Stop, Delete, admission | firecracker API sockets, `zstd` |
| **Thin pool, VM network** (`fc_host.go`, `fc_image.go`, `fc_deps.go`) | device ids in use, next id; a /30 subnet per id; shared dependency volumes | allocate with retry, clone, delete; base image builds | device mapper, iptables |
| **Mux** (`mux.go`) | none | picks the driver of a ref (allow-list, or a known VM) | both drivers |
| **Local driver** (`local.go`) | child processes and ports | the same calls, for development | OS |
| **Store** (`store.go`, `persister.go`, `sqlite.go`, `pg.go`) | projects, workloads, routes, env, files, keys, images, activity in maps under one RWMutex; the whole snapshot saved on every mutation | Put/Get/Delete with cascades; Save by tmp file + rename, or one database row | disk or database |
| **Gateway** (`gateway.go`) | none | resolve host, reprovision, meter, image check, wake, proxy with retries while the app starts | manager, store, meter |
| **Reprovision, wake check** (`reprovision.go`, `wake_check.go`) | per-host locks, hosts known to be unknown (30 min), checks per image under way | ask an outside hook to add a missing route, ask whether an image is current, both with timeouts | HTTP hooks |
| **Eviction** (`eviction.go`), **dumps** (`dump.go`), **scheduler** (`schedule.go`) | sealed-dump fingerprints, last activity, retry times | evict the least recently used project when disk is short, dump before and after suspend, daily backups with retry | backup store, driver |
| **Backup stores** (`backup/`) | archives by id | Put, Get, List, Retain; two stores mirrored by `MultiStore` | disk, S3 |
| **Images** (`image.go`) | versions per project, pins | build (version = max + 1), pin, GC (keep two, skip pinned), delete | docker |
| **Metering** (`metering/`) | open minute buckets, live hijacked connections, the reporter's outbox | record, drain per minute, send batches with backoff, drop what is too old or too much | the website |
| **Events, metrics** (`events/`, `metrics/`) | a ring of recent events | append, publish | - |
| **API** (`api/`), **config**, **templates**, **interpolation** | rate-limit buckets | handlers that call the manager one to one | manager |

Interactions: the gateway and the API call the manager; the manager takes a
workload's lock, calls the driver, then writes the store and its own `live` map.
The reaper lists idle workloads without the lock, then suspends each in a goroutine
of its own under the lock. Editing a record (`SetKeepWarm`) and deleting a workload
take no lock. The driver keeps its own state on disk and asks the kernel what is
alive. The reporter drains the meter.

### What makes each part correct, and what is hard about it

- *Lifecycle.* Store, runtime and `live` map agree whenever nobody holds the lock;
  no instance is suspended within an idle interval of a restart; what is idle is
  suspended in the end, also when it outlived orchd; a keep-warm workload stays up; a
  deleted one leaves nothing. Hard: the reaper's check and act, deletion without the
  lock, readiness waits that give up, restarts at any point.
- *Firecracker.* A restored guest's memory belongs with its disk; capacity is neither
  leaked nor overcommitted; running means serving. Hard: a restart between any two
  steps of suspend, compress, decompress and load; pids the kernel reuses; a
  dozen early returns that must each give their reservation back.
- *Thin pool.* No volume belongs to two names, and a recorded one holds what belongs
  to its name. Hard: a counter read and written without a lock and sometimes lost;
  mappings that outlive orchd, records that outlive the host; a call that ends anywhere
  between making, mapping, filling and recording.
- *Mux.* A workload is in one driver at a time. Hard: each call decides by another
  test (allowlist, meta.json), and a failed creation or a restart comes in between.
- *Store.* An acknowledged mutation survives a restart and a failed one is not
  seen. Hard: memory changes before the save; handlers read, change and write a
  record in three steps; check-then-put of hosts and ports.
- *Eviction and dumps.* No database is evicted without a copy of its last
  contents, and what is reported as backed up is in the backup store. Hard: the victims
  come from one snapshot of activity; a sealed dump is trusted by fingerprint; dumps are
  taken from a running database; retention removes what another call counts on.
- *Gateway, reprovision, wake check.* Every request is answered, unless its program keeps it; a client is sent
  elsewhere only by an instance without its route; a host known to be unknown and an
  image asked about are not asked about again. Hard: requests that share a question,
  answers after the timeout, workloads suspended, moved or deleted under a request.
- *Metering.* Every request is billed once, to its workload and minute: recorded = open +
  waiting + sent + dropped. Hard: a lost acknowledgement, a minute that turns while a connection
  records, drains lock by lock beside records, reporting turned off and on.
- *Images.* A version number never means two images; a pinned image exists; its
  dependencies are its own. Hard: GC beside create-from-image, a template edited while it
  is read three times, a crash between record, tag and directory.
- *Docker, mux, local, backup stores, API, events, templates, configuration.* Thin
  layers, modelled where another component depends on them.

## Plan

| # | Module | Components | Status |
|---|---|---|---|
| 1 | `Lifecycle`, `MCLifecycle`, `LifecycleProofs` | manager, docker driver, startup | modelled, checked, proved |
| 2 | `Firecracker`, `MCFirecracker`, `FirecrackerProofs` | Firecracker driver | modelled, checked, proved; left: Delete beside other calls (takes no lock), the guest agent's writes |
| 3 | `Metering`, `MCMetering`, `MeteringProofs` | meter, reporter | modelled, checked, proved; left: resolved project ids |
| 4 | `Records`, `Store`, `MCStore`, `StoreProofs` | store, persisters | modelled, checked, proved to implement `Records`; left: the other tables, host ports |
| 5 | `Backups`, `MCBackups`, `BackupsProofs` | eviction, dumps, scheduler, backup stores | modelled, checked, proved |
| 6 | `Gateway`, `MCGateway`, `GatewayProofs` | gateway, reprovision, wake check | modelled, checked, proved |
| 7 | `Images`, `MCImages`, `ImagesProofs` | images | modelled, checked, proved |
| 8 | `Volumes`, `MCVolumes`, `VolumesProofs` | thin pool, mux, creation and deletion of VMs | modelled, checked, proved |

Abstract specifications: `Records`, a durable set of records (Store implements it).
One more would be worth stating: what every driver promises the manager (none, suspended,
running), which Lifecycle assumes of docker; Firecracker does not quite keep it (divergence 2, and
the spawn that fails late, under "Seen"). Bounds: one or two of everything that interleaves, and
one more than each limit (capacity, batch, kept versions), so that the limit is
crossed. Every safety property the runs find to hold is a theorem; what is left is liveness, which
the prover cannot reach.

## Lifecycle

| Variable | Code |
|---|---|
| `rec` | `store.Workload`: State and KeepWarm; "unborn" before, "deleted" after |
| `inst` | what the driver's `Status` answers |
| `live`, `unowned`, `uptime` | `Manager.live[id].lastSeen`, `Manager.unowned[id]`, the process's age, each as an age in ticks |
| `lock` | `Manager.refLocks[id]` and who has it |
| `at`, `op`, `on`, `seen` | each goroutine: where it is, in which operation, on which workload, the record `SetKeepWarm` or `SetWorkloadImage` read |
| `sweep` | the goroutine `ReapIdle` starts for each listed workload |
| `warm` | the ids `WakeKeepWarm` still has to wake |
| `calm`, `disturbed` | history, not code: nothing new arrives; workloads deleted, written back or died |

An operation is the sequence of positions between its lock and its return: `Lock`,
then one action for what it does to the instance (`WakeMiss`, `TakeDown`, `BringUp`,
`StopHeld`, ...), `WaitReady` for the readiness wait, then one for the bookkeeping
(`Booted`, `BootFailed`, `Quiesced`), which writes the store and the live map and
unlocks. The store write and the live-map write of one bookkeeping are one action:
both happen under the workload's lock; the readers without the lock (the reaper's
scan) can see one without the other, but then only note an instance as unowned,
which `markLive` or the next scan undoes, or list a workload they would have listed
before. `RestartWorkload` also stands for a change of environment, which does the same. `SetWorkloadImage`
writes the record it read back whole (`ImagePut`), as `SetKeepWarm` does, and then reboots an instance
that ran when it asked or leaves a suspended one for the next wake, where `DockerStart` makes it anew.
Ages replace times: the code compares each with
`IdleTimeout` and nothing else, so they are capped one above it.

Left out: the reaper's limit of four suspends at a time, what these calls write besides (routes, files, keys, events, last
activity), dumps around a suspend and what is in the workload's data directory (both
in Backups).

## Firecracker

| Variable | Code |
|---|---|
| `known`, `pid` | `meta.json`, and `vmMeta.PID` in memory or on disk |
| `proc` | the process behind that pid: none, `ip netns exec`, firecracker idle, running or paused, or another program that was given the pid |
| `snap` | `snap.mem`, `snap.mem.zst`, `snap.state`: absent, partial, good, or stale (the guest has run since) |
| `queued`, `zipping` | `Compact`'s goroutine and its `zstd` |
| `at`, `how` | the operation on this VM: position, and whether it restores or boots |
| `pending`, `slots` | `pendingSpawns`, `len(bootSem)` |
| `cut` | history: VMs a restart interrupted |

Each blocking call is a step of its own with its failure beside it, and every error
path goes through `GiveUp`: a failed restore drops the snapshot and falls back to a
fresh boot, a failed boot gives its place back and returns. Good and stale are the
abstraction of memory contents: resuming or loading a guest makes whatever was
saved of it stale. The manager's lock (Lifecycle) gives each VM one operation at a
time. A restart of orchd loses its memory and nothing else: systemd's
`KillMode=process` leaves firecracker and `zstd` running, so a save or a compression
under way is finished (`Settled`); a reboot of the host ends all processes where
they are.

An assumption: `Compact`'s goroutine gets its lock before the VM's next operation
starts (`Prompt`). Without it (`"late"` in `Faults`) TLC violates `RestoresLatest`: a
compression that starts during the next suspend compresses the file
`snapshot/create` is writing, which takes no lock. The runs keep the assumption, as
the goroutine would have to wait for the whole of a wake and an idle interval.

Left out: `Delete` (removes the VM without the manager's lock), writes into the
guest, deps volumes, iptables, and a `Stop` beside another call of the VM: a deletion calls it without the
manager's lock (`manager.go:1657`, `1688`), everyone else with it, as here.

## Metering

| Variable | Code |
|---|---|
| `adding` | goroutines in `Meter.add`, after the minute was read and before the shard's lock |
| `conn`, `carried` | `Meter.live` and each `countingConn`'s `in`, `out` |
| `buckets` | `shard.m`, by minute and workload |
| `at`, `limit`, `shards`, `drained` | the reporter's goroutine, and `Drain`'s cut-off, loop and result |
| `outbox`, `sent`, `dropped` | the `Reporter` fields of these names (counters as the sets of what they count) |
| `backoff` | `nextTry`: zero, in the future, past |
| `ids` | `newUUID`, as a counter: ids are distinct |
| `target`, `stopping` | `UsageTarget`'s URL, `ctx` |
| `woken`, `minute`, `recorded`, `finished`, `discarded` | the last wake-up and the clock; history, of requests with their minute and workload |
| `accepted` | external: what the website has booked, by aggregate |

Counters are not numbers here but the sets of units of traffic added to them, so
that one that is lost or in two places can be told. `Finish`, `Untrack` and `Drain`
read the clock before they take the bucket's lock (so a request's count may come to a
bucket whose minute was drained: it makes a second aggregate of that minute), and `Drain` visits the shards one
lock at a time (a shard per workload: shards share nothing else); each of these is
a step of its own. The website is external: a post that fails may have been booked
all the same (`PostFailed`), and one that is answered has (`Posted`) or is refused
for good (`Refused`).

Left out: the cache of resolved project ids, the classes of status, what `Status`
shows, and the loss of everything in memory when the process is killed, which the
code accepts.

## Store

`Records` is what the store promises: readers see a set of records (`seen`), a restart
reads one (`kept`), and every change is answered. "ok" means that what is seen is what
is kept; an error leaves open whether the change is kept, and it is seen until a
restart. `Store` is the code, with `seen` its maps when nobody writes and `kept` the
file or row:

| Variable | Code |
|---|---|
| `mem`, `writer` | `memStore`'s maps; who holds `memStore.mu` for writing |
| `stage`, `disk`, `kind` | how far `flushLocked` is; what `Load` would read; which persister |
| `todo`, `got` | each goroutine's store calls still to make; the project it read |
| `now` | the clock of activity notes |
| `ops` | which calls this behaviour has (a world of `Worlds`) |
| `shown`, `answer` | history: `mem` when `mu` was last free; what the last mutation returned |
| `minted`, `fate` | history: project ids given out; what was asked of each workload |
| `taken` | history: workloads whose default route was put to another one |

A manager call is the sequence of store calls it makes (`Register`, `AddRoute`, ...),
left at the first that fails, with other clients in between: the manager holds nothing
across them. A mutation is `Change` under the lock, then the steps of its save
(`WriteFile`, `Rename`, or `Upsert`), any of which may fail or be the last before a
restart, then `Return`. The maps keep a mutation whose save failed, as in the code. A
database statement may also fail after it was carried out. `SetWorkloadState` and
`EditWorkload` change nothing but fields the model leaves out; they are there because
the second puts a record back.

Left out: every field but a project's LRU clock; regions, API keys, images and
settings (the same Put, Get and Delete); host ports; a template's tree and the driver
calls between the store calls (`Lifecycle`); the contents of the temporary file, which
nothing reads; power loss (a restart here is of the process); a Postgres statement
that lands after its timeout, when later ones may have. A creation registers one
workload, further ones come from `AddWorkload`. Nothing is assumed of hosts:
`registerWorkload` does not check that the names in a project differ (`keyFor`), so two
workloads may have one default host and the second takes it, and `AddRoute` may be
given a default host. `CreatedStays` says that this is the only way a registered
workload loses its route.

## Backups

| Variable | Code |
|---|---|
| `here`, `up`, `keep` | the workloads in the store; those whose instance runs; KeepWarm |
| `data`, `mtime` | what is in each data directory, as the time of its last write; the newest file time |
| `dump`, `sealed` | `dumpState`: hash and id of the last dump, and whether its `PgControl` is that of the database on disk |
| `offline` | the one-off container an offline export runs in |
| `backups` | the archives in the backup store, each with workload, id (a time) and data |
| `failed` | `backupRuns.failed`, and whether an hour has passed since |
| `lock` | `Manager.refLocks` |
| `job` | what each API call, the sweep, the evictor and the reaper are doing |
| `blind`, `dropped` | history: written to where no dump looks; its backup deleted by `DeleteBackup` |

A job is a list of workloads and a position. `Acquire` is the decision made under the lock (is the
dump current, recent, may it be tried again, does the workload run); then come the export, in the
running container or a one-off one, or the archive (quiesce, stamp, pack, upload, resume),
the store's `Put` with its retention, and the note of it (`Note`), each with its failure;
the reaper's dump goes on with the suspend and the seal, the evictor's with deletion and
the removal of the data directory, in the order of the code. `DeleteBackup`, restore, reset
and stop are calls beside these. A test of an age answers either way: which interval has
passed is left open. `StampFirst` tells the two stores apart: `LocalStore` takes the time in a
backup's name before it reads the files, `S3Store` after.

Left out: the disk watermark (eviction here is by number of projects), `MultiStore`'s
second store, a record whose state is not its instance's (`projectProtected` asks the record, `Protected` the
instance; how they come apart and together again is in Lifecycle), `SafeToWipe`, backup of orchd's own state, and the bytes of archives and requests.

## Gateway

| Variable | Code |
|---|---|
| `req` | each request: position, host, whether it may be sent again, image version it asks about or boots, what it has sent and got |
| `here`, `routes`, `img` | the store's workloads, routes and their `ImageVer` |
| `latest` | the newest version of the template |
| `inst`, `listening`, `live` | the version an instance runs, whether its program answers, `Manager.live` |
| `refLock`, `hostLock` | the manager's lock of a workload; `hostLocks` of `RequestReprovision` |
| `unknown` | `unknownHosts`, less what `unknownHostTTL` forgot |
| `hook` | the goroutine that posts to the receiver, and its result channel |
| `check` | `wakeChecks`: nothing, asked, answered, failed and cooling down |
| `rebooting`, `reaping`, `deleting` | another goroutine's call that has done its first step and not its second |
| `said404`, `answered` | history: what the receiver has said |

A request is a sequence of steps: `Resolve` (or `ResolveKey`, by its path), then on a miss
`HookOff` without a webhook, or `HostLock`, `Recheck`, `Ask`, the poll for the route beside the hook (`Poll`, `HookReturns`, `HoldOver`), then
`Check` and `Claim` or `Waited` of the wake check, `Read` of the record, `RefLock`,
`EnsureHit`, `EnsureStart` or `EnsureFails`, and the proxy (`Serve`, `Reset`, `Refused`, or the client leaves) that starts over
while the startup window lasts. The receiver is external: it creates the project or
not, moves a workload to a new image or not, and answers in its own time, with a 404, an error or
never. Beside these run image builds, deletions, the reaper, other boots and deaths. Every
time limit may pass whenever it runs.

Left out: preflights (answered before anything is looked up), metering (module `Metering`), upgrades beyond their being requests,
certificates, the body of error pages, signing and the wire format of the hook.

## Images

| Variable | Code |
|---|---|
| `images`, `pin` | the store's image records; `ImageVer` of each workload |
| `disk`, `tags`, `deps`, `shared` | a version's directory and tarball; its docker tag; its link to dependencies; `shared-deps/<hash>` |
| `lockfile`, `installed` | the template's lockfile now, and the one each build's container was made with |
| `container`, `tree` | what a workload's container and working tree were made from |
| `builder`, `job` | the build under `buildLocks`; clients' calls |
| `want`, `meddled`, `raced` | history: what a workload chose; versions operators touched; choices made during a collection |
| `given` | history: the numbers builds have been recorded under |

Builds are numbered as they happen and stand for the bytes they froze; a version is the
number the code gives one, the highest recorded plus one. `BuildStart`, `Freeze`, `DockerBuild`,
`ExtractDeps` and `PutImage` are the steps of `BuildImage`; `Collect`, `Look`, `RemoveTag`,
`RemoveRecord` and `RemoveDir` those of the collection after it. Creating from an image, moving to one,
deleting, pushing and importing are calls in steps of their own, without the build lock. Docker keeps
what a tag named until the tag is removed.

Left out: docker's layers, `docker save` and registries beyond the tag, and the promotion API. A `PutImage` whose save fails (`image.go:185`) leaves the record in
memory and ends the build before its collection; a restart may then forget a version chosen
meanwhile. Saves that fail are in Store; here the record is kept as it was put.

## Volumes

| Variable | Code |
|---|---|
| `counter` | the file `next-dev-id` |
| `volume` | the pool: whose data each id holds |
| `mapped` | `/dev/mapper`: the id behind each name |
| `record` | `meta.json` of VMs, images (base and warm) and template VMs, `deps/<family>`'s id |
| `up`, `template`, `docker` | live VMMs; the template VM that has the tap; containers |
| `allowed` | the Mux's allowlist, as of the last start of orchd |
| `job` | each VM's `Create` or image's `PrepareImage`: position, id, and what is made already |
| `builder` | the lock of a family in `ensureDepsVolume` |
| `drive` | `vmMeta.Deps`: VMs with the family's volume as second drive |
| `ran`, `stuck` | history: guests that have run; names given a volume while mapped to another |
| `erased`, `crossed` | history: VMs whose deletion has removed the volume and not the record; orchd died in a deletion whose id was already used again |

An allocation is `NextDevID` (read), `NoteDevID` (write), then `Make` or `Collide`, as the pool
decides; nothing is held between them. Its caller goes on as `Then` says. A volume's
contents are whose data it has: blank, an image's, a family's, or of a VM whose guest
has run on it. The driver's `Delete`, which also begins a creation and ends one that failed, is `Erase`
(the VMM, the mapping and the volume, `firecracker.go:451-453`) and `Forget` (the directory with the
`meta.json`, 457): orchd can die between them, and then the record names a volume that is
gone. So is the end of a preparation `TemplateEnds` (the template VM's directory) and `RecordImage`.
A call that failed goes no further: it fails at a command, or when the pool has refused the
32nd id (`AllocateFails`; the fault "full" says that a refusal may be that one). The Mux's
choices are the guards of `Create`, `Start`, `Suspend` and `Delete`. A crash ends every call where
it is and reactivates mappings (`ensureStorage`); a reboot also ends processes and mappings. One
`Create` at a time for a workload, as the manager's lock sees to.

`OneOwner` and `RecordedIsWhole` speak of a name as long as it is told apart from what a
deletion left. The record of a deletion that was cut off names a volume that is gone, and
an id is chosen above every recorded one: nobody gets that id. One way remains, and both
properties leave it out (`crossed`): a call reads the counter beside the one that then makes the volume;
the VM is made, recorded and deleted before the first call makes the same id,
which the pool no longer refuses; and orchd dies, with this done, between the deletion's two halves. Then the old
record names the other call's volume.

Left out: what is in a network namespace and in iptables, sizes, a pool without room, a `dmsetup remove`
or a removal of a directory that fails, exec and logs through the Mux, and a `DeleteWorkload` beside a `Create` of it (divergence 1 shows that race for
any driver).

## Runs

| Run | Checks | Instance |
|---|---|---|
| `lifecycle_all` | `TypeOK`, `LockInv`, `LiveAgrees`, `GraceAfterRestart` | 1 workload, 2 clients + the starter + the reaper, timeout 1, eight operations, crashes, deaths and failures |
| `lifecycle_live` | `IdleSuspended`, `RunningIsRecorded`, `CallsReturn` | 1 workload, 1 client + starter + reaper, every operation but delete, every fault until calm |
| `lifecycle_delete` | `DeletedLeavesNoInstance`, **violated** | as lifecycle_all, no fault |
| `fc_all` | `TypeOK`, `ReservationsExact`, `RefusedOnlyWhenFull`, `RestoresLatest`, `CallsEnd` | 2 VMs (one ephemeral), capacity 1, 1 boot place, every fault |
| `fc_stale` | `NeverRestoresStale`, **violated** | 1 VM, crash and death only |
| `metering_all` | `TypeOK`, `NothingLost`, `BilledOnce`, `BilledInTime`, `OutboxEmpties` | 3 units (2 requests, bytes of a connection), 1 workload, 1 connection, batches of 1, an outbox of 2, a buffer of 2 minutes, 3 minutes |
| `store_all` | `TypeOK`, `CreatedStays`, `OrphansAreRaced`, `ImplementsRecords` | 1 project, 2 workloads that share their default host, 2 clients, two worlds, both persisters, failures, restarts |
| `backups_all` | `TypeOK`, `CurrentIsExact`, `CoveredIsStored`, `UnchangedIsStored`, `EvictionLosesNothing` | a workload with data and one without, ten worlds, 1 client + sweep + evictor + reaper, retention of 2, room for 1 project |
| `gateway_all` | `TypeOK`, `NoRouteIsTrue`, `BodyOnce`, `UnknownNotAsked`, `AskedOnce`, `AnsweredOrWithProgram` | 2 requests, 3 hosts of 2 workloads of 1 project, 2 image versions, seven worlds |
| `images_all` | `TypeOK`, `FrozenStays`, `DepsMatch`, `NumbersAreSpent` | 1 workload, 2 clients, 2 lockfiles, 4 builds, collections that spare 2, six worlds |
| `images_deps` | `DepsMatch`, **violated** | the template is edited while it is built, no fault |
| `volumes_all` | `TypeOK`, `OneOwner`, `RecordedIsWhole`, `RunsOnce` | 2 VMs, 2 images, 1 family, 6 ids with 5 addresses, eight worlds |

A *world* says which operations and which failures a behaviour has. `Init` picks one: a
run explores several such instances, each small, instead of the product of all, in
which one behaviour could have every failure at once and no more would be seen of the
races between two or three steps. Each operation and each failure is in one world at
least, beside those it shares state with.

Why these bounds. Workloads share nothing but the reaper's pass, which waits for
all of them, so one workload shows every interleaving on it; two clients and the
reaper are the three-way races (a check, an act, and something in between), and the
starter is a fourth after a restart. A timeout of one tick tells "not yet", "at" and
"past" apart. The live run has one client because after calm only what is already
under way moves. Two VMs with room for one make every wait, refusal and burst
happen; one is ephemeral so both kinds of suspend meet the cap. The only counters
that are not bounded by the code are ages (capped, as said) and the clock of
`Metering`: its last minute stands for those that follow, in which the reporter goes
on waking (`Wake`). Three units (two requests and bytes of the connection) fill an outbox of two and leave one over; that a request is
billed to its own workload says something of several workloads only in the theorem; three
minutes let an aggregate outlive a buffer of two. In `Store` a race is between two
clients on one workload, its project and its routes; every call of the API is one of the
two, so each pair of calls is interleaved store call by store call. One world has all calls for
one workload, the other two workloads of one name and what puts and takes them; a second host
would only be one that nobody contends for. Its clock is
bounded by `MaxClock`: one note can be older or newer than the creation, two than each other.
An eviction needs more projects than `LRUKeepMax`, hence the workload without data; three ticks give
a first backup, a second and one that pushes the first out of a retention of two. Two
requests are one that asks and one that waits, or the two halves of every lock; with two
versions an image can move while it is asked about. Four builds with two spared make a
collection remove a version and a later build choose a number. Six ids hold an image,
a clone of each VM, the family's volume and one more, so that a lost counter meets ids in use; the
sixth has no address. `lifecycle_all` and `store_all` use clients as a symmetry set (they check no liveness); the
others use none. Deadlock is checked in the runs of Lifecycle, Firecracker, Metering and Store, where
time, or a new call, can always go on; the other four stop at their bounds (the clock, requests
answered, builds, ids) or where a world has nothing more to do.

What the properties say is in the comment above each definition. The ones with
several actors: `LiveAgrees` relates three views of a workload at every unlocked
moment; `GraceAfterRestart` relates the reaper to the last restart;
`RefusedOnlyWhenFull` relates the driver's count to the processes that exist;
`RestoresLatest` relates a snapshot's age to what the guest did since;
`NothingLost` and `BilledOnce` relate the gateway's goroutines, the reporter and the website;
`CreatedStays` and `OrphansAreRaced` relate the records of three tables, in memory and on
disk, to the calls made so far; `EvictionLosesNothing` relates what the evictor removes to
what retention and failures left in the backup store; `NoRouteIsTrue` relates an answer to
every route table there was during the request; `FrozenStays` relates record, tarball and tag to the
build a workload was given; `OneOwner` relates all records to all calls under way.

## Fairness

*Lifecycle.* A goroutine that can take a step takes one (weak fairness of `Step`). Go's
mutex in starvation mode hands the lock to a goroutine that has waited for a
millisecond, so a waiter is not passed over for ever (strong fairness of `Lock` and
`SweepLock`). Time passes and the reaper's ticker fires. `Reconcile` is strongly fair: each
20th pass tries every workload whose state is not running, with `TryLock`; a
workload locked at one pass is free at some later one. Calls, failures, crashes and `Calm`
itself have no fairness; the liveness properties speak of what follows `calm`.

*Firecracker.* An operation under way goes on, since each call it makes has a timeout (weak:
`Continue`); a started process executes; `zstd` ends. Channel sends (`bootSem`) and mutexes
serve waiters in order, hence the strong fairness of `TakeSlot`, `Unpack` and `CompactStart`.
Restarts need not stop: an operation cut by one has ended.

*Metering.* The reporter's goroutine goes on, time passes and a retry falls due (weak:
`Loop`, `Tick`, `RetryDue`). The website, asked again and again, answers some time
(strong: `Answered`): without that the outbox need not empty, and the code promises
nothing. Nothing is assumed of traffic, of the target or of shutdown.

*Gateway.* A request that can take a step of orchd's own takes one: its code and its timers
(weak: `Step`). Nothing is assumed of the receiver, of the clients (`Client`) or of the programs
(`Program`: to answer, or to reset a connection): the proxy's transport has no limit on
how long a program may keep a request (`gateway.go:120`), and a request that is kept stays
until the program or the client gives up. `AnsweredOrWithProgram` says that there is no other place
where one can stay. Nothing is assumed of locks either: one is held for a
bounded number of steps, and with two requests the other gets it.

*Store, Backups, Images, Volumes.* None: their properties are safety.

## Proofs

The proof modules hold for every set of workloads, goroutines, VMs and connections, every
timeout, capacity, batch size and buffer, every set of projects, hosts, clients, requests, images
and families, every pool, from the
named assumptions of the specifications
(`ThreadsAssumption`, `TimeoutAssumption`, `OpsAssumption`; `VmsAssumption`,
`CapAssumption`; `MeteringAssumption`; `StoreAssumption`; `NamesAssumption` of Gateway;
`ConstantsAssumption`, `NamesAssumption` of Volumes; `ConstantsAssumption` of Images;
`WorldsAssumption`, `BoundsAssumption`, `NamesAssumption` of Backups), which TLC evaluates in the runs.

| Theorem | Says | Argument |
|---|---|---|
| `LifecycleProofs!TypeCorrect` | `Spec => []TypeOK` | one step per action |
| `LifecycleProofs!LockSafety` | `Spec => []LockInv` | `LockInv` with the type invariant is inductive: an action of another thread at a locked position contradicts its holder being unique |
| `LifecycleProofs!Grace` | `Spec => []GraceAfterRestart` | not inductive by itself: `live` and `unowned` ages never exceed `uptime`, since a restart clears them all |
| `LifecycleProofs!LiveAgreement` | `Spec => []LiveAgrees` | needs `LockInv` (nobody else changes the instance between boot and bookkeeping), `ReadyRuns` and `RecordsThere` (what a position knows of instance and record), `DeletionsDisturb`, and `EntriesRight`, which also covers workloads some thread is about to settle |
| `FirecrackerProofs!TypeCorrect` | `Spec => []TypeOK` | needs `ReservationsExact`: that `pending - 1` and `slots - 1` stay natural depends on the counts |
| `FirecrackerProofs!Reservations` | `Spec => []ReservationsExact` | a step moves one VM, so a set of positions gains or loses at most that VM (`OneChanged`); `CountStep` turns that into cardinalities; `GivesUp` covers every error path once |
| `FirecrackerProofs!LoadsLatest` | `Spec => RestoresLatest`, given `"late" \notin Faults` | `Fit`: for each place an operation can be at, what the snapshot files hold and what `zstd` reads beside it; a guest that runs left no files, an interrupted `zstd` leaves the raw file, and a guest that runs is one its recorded pid can kill |
| `FirecrackerProofs!FullRefuses` | `Spec => RefusedOnlyWhenFull` | from the types: what `countLive` counts are VMMs |
| `MeteringProofs!TypeCorrect` | `Spec => []TypeOK` | with the finiteness of `drained`; that pruning ends where it should needs the least place the loop may stop at (`DroppedExists`) |
| `MeteringProofs!Conservation` | `Spec => []NothingLost` | inductive with the types, unit by unit (`HoldsStep`): each step takes a unit from one place to the next |
| `MeteringProofs!Billing` | `Spec => []BilledOnce` | not inductive by itself: every unit is in at most one place (`Once`), what was accepted is still on file under the same id, and ids are never given again (`Billable`) |
| `MeteringProofs!InTime` | `Spec => []BilledInTime` | not inductive by itself: a finished request's unit is only in places of its minute and workload (`Placed`; that it was nowhere before is `NothingLost`), the limit of a drain is not after the clock, and after the last drain the reporter does not wake (`Over`) |
| `StoreProofs!TypeCorrect` | `Spec => []TypeOK` | that what is written is a mutation's result depends on the calls in `todo` being of their types, and on a writer having one left (`Writing`) |
| `StoreProofs!Refinement` | `Spec => Records!Spec` | `Writing`: a mutation under way is one change from what was shown, and once landed it is on disk; `Change` and `WriteFile` are stutters, `Rename` and `Upsert` a `Keep`, `Return` an `Ok` or an `Error`, `Crash` a `Restart` |
| `StoreProofs!Orphans` | `Spec => []OrphansAreRaced` | not inductive by itself: `NoOrphans` says it of `mem` too, and that a client about to put a record still has what that record refers to, unless a deletion overtook it; that it has checked so comes from the order of its calls (`Chained`) |
| `StoreProofs!Registered` | `Spec => []CreatedStays` | with `NoOrphans`, `Standing`: of a workload being registered, what its one client has put so far is in memory, shown and on disk, its route unless that went to another workload, and nobody has a call before it that would take it away. `AddRoute` also puts routes to default hosts: a registration is told from it by the look-up it ends with (`Registering`) |
| `GatewayProofs!TypeCorrect` | `Spec => []TypeOK` | with the holder of each lock: an early return that kept one would break it |
| `GatewayProofs!NoRoute`, `Once` | `Spec => []NoRouteIsTrue`, `[]BodyOnce` | `Sound`: what each request has learned is true, and its workload is its host's unless it had no route to begin with. One that was never without a route has not been told so by its lookups, and one with a body is in the proxy only if it has not been sent |
| `GatewayProofs!NotAsked`, `Asked` | `Spec => UnknownNotAsked`, `AskedOnce` | `Remembered`: while a 404 or an answer counts, the tables remember it and nobody between the look and the question has seen otherwise, since both are under one lock |
| `VolumesProofs!TypeCorrect` | `Spec => []TypeOK` | with `Shape`, what a job looks like at its position |
| `VolumesProofs!Owners` | `Spec => []OneOwner` | not inductive by itself: `Held` says that what is recorded, being made or cloned from exists in the pool, so an id the pool does not hold is nobody's (`FreeIsNobodys`), and a deleted VM's volume is nobody else's; `Spared` that the id in the record of a deletion that was cut off is not given out. Steps keep what is owned (`OwnersKept`), record it (`OwnersRecorded`) or release it (`OwnersReleased`) |
| `VolumesProofs!Once` | `Spec => []RunsOnce` | `Driven`: a workload that is known to the Firecracker driver, or being created there, is on the allowlist and its container does not run; a VM that is up is known |
| `VolumesProofs!Whole` | `Spec => []RecordedIsWhole` | `Tied`, with what `Owners` proves: an id has one name, counting the mappings that were left behind (`OneClaim`); a name that is not stuck is mapped to what is recorded or being made for it (`Straight`); what is recorded, or due to be at the position its call is at, holds its owner's files (`Full`); and a deletion that was cut off leaves no mapping and no volume (`Gone`). Once `crossed`, always (`CrossedStays`) |
| `ImagesProofs!TypeCorrect` | `Spec => []TypeOK` | one step per action |
| `ImagesProofs!Frozen` | `Spec => []FrozenStays` | not inductive by itself: a number that is pinned and not `meddled` with is not the one a build is about to take (`Fresh`: a build's number is above every one recorded), nor one a collection is removing (`Removal`: what it removes it has looked at, and a choice since is in `raced`); what a client is about to pin is whole or `raced` (`Wanted`, `Whole`) |
| `ImagesProofs!Deps` | `Spec => [](Still => DepsMatch)` | `Linked`: at each position of the build, what it has of container, hash and shared dependencies is of one lockfile, as long as no edit comes between (`Still`; with one, divergence 3) |
| `ImagesProofs!Numbers` | `Spec => NumbersAreSpent` | `Spent`: every number given is at most the newest recorded, unless that one or a newer one was `meddled` with; the newest is never collected |
| `BackupsProofs!TypeCorrect` | `Spec => []TypeOK` | `Owned` and `Placed`: whose an operation is and which workloads may be at its positions; then each step takes, keeps or frees the lock it should (`Taken`, `Moved`, `Freed`) |
| `BackupsProofs!SealedIsExact` | `Spec => []CurrentIsExact` | `WorkExact` and `JobExact`: what is in the dump state, and before that in the hands of whoever holds the lock, is what is in the data dir; a sealed database does not run, nor does one that is being exported offline. A step of the lock's holder changes one workload, which nobody else makes promises about (`HolderKept`) |
| `BackupsProofs!Covered` | `Spec => []CoveredIsStored` | `WorkCovered` and `JobCovered`: the archive a dump state names, or a newer one, is in the store; what a job is about to note is; an id is one archive's. The newest archive survives any retention of one or more (`RetainedIs`) |
| `BackupsProofs!Archived` | `Spec => [](StampFirst => UnchangedIsStored)` | `WorkFresh` and `JobFresh`: an archive no file is newer than has the data dir's bytes, also the one that is being written; a restored data dir is newer than every archive. With `S3Store`'s order it does not hold ("Seen") |
| `BackupsProofs!EvictionKeeps` | `Spec => EvictionLosesNothing`, given `StampFirst` and `Cardinality(Clients) < BackupRetain` | three invariants. `News`: no version is newer than the clock, and a dump that differs from a database's and is newer than the one its state names shows the data dir has moved on too; so the dump the evictor counts on is the newest one (`DumpTop`). `Safe`: until the evictor removes the record the victim's data is in the newest backup of it (`Top`); what others have in hand is that data too (`Beside`), because the evictor had the lock when it was made, or found the lock free. After that a call may put the dump of a half-removed directory on top, but each call once, and no new one begins: the backups newer than the victim's and the calls that may still put one are fewer than retention keeps (`Few`) |

`EvictionKeeps` needs its bound on the calls: with one call and `BackupRetain = 1` TLC violates
the property ("Seen"). The code does not enforce it; the default retention is 5 (`config.go:323`), and
only a manual backup or a reset of the very database that is being removed counts against it.
`S3Store`'s order breaks the property as it breaks `Archived`.

Model-checked only: liveness, which is outside the prover's reach (`IdleSuspended`,
`RunningIsRecorded`, `CallsReturn`, `CallsEnd`, `OutboxEmpties`, `AnsweredOrWithProgram`). The
three violated properties are of course not theorems.

## Divergences

Found while modelling, with runs (`PROJECT.json`, findings):

1. `lifecycle_delete`: a deletion beside a provision or a wake leaves an instance with
   no record (`manager.go:1682`).
2. `fc_stale`: a VM resumed after an interrupted suspend keeps that suspend's
   snapshot, which a later wake restores over a newer disk (`firecracker.go:847`).
3. `images_deps`: a lockfile edited between the container build and the hash files one
   build's dependencies under the other's hash (`image.go:421`).

Seen and not given a run, in the manager, the gateway and the store:

- A program that takes a request and never answers keeps it for ever: neither the proxy nor its
  transport has a limit (`gateway.go:120`). It holds no lock meanwhile.
- `ReapIdle` reads KeepWarm before it waits for the lock: a workload made keep-warm in
  between is suspended once ("always-on: never scale to zero", `manager.go:1833`).
- A workload stopped on purpose is recorded as suspended and woken by its next request;
  `src/site/app/docs/api/page.mdx:100` says "A stopped workload is not woken by traffic."
- Two activity notes that both read the project before either writes can leave the older
  clock ("Monotonic — it never moves the clock backwards", `manager.go:522`).
- `EnsureRunning` reads the record before it waits for the lock: a wake beside
  `SetWorkloadImage` can boot the old image although the call answered that the next wake
  has the new one.
- `RequestReprovision` looks for the exact host under its lock, not under the other
  domains as the gateway does; and its select may take the hook's 404 although the route
  has just been registered.
- `src/site/app/docs/scale-to-zero/page.mdx:62` says a workload whose wake fails goes
  `failed`; `EnsureRunning` returns the error and leaves the state (`BootFailed`).
- `page.mdx:72` counts an open WebSocket as activity; the code marks activity
  when a request begins.
- A spawn that fails after starting its process leaves it, and `Status`
  reports it running for ever (`firecracker.go:466`, `:764`).
- Admission: a VMM is in no count between `admitDone` and its pid being in
  `meta.json` and its process having become firecracker, so a burst can exceed the
  cap. By how much depends on the burst; no bound is stated.
- Reporting turned off while a retry is due leaves the reporter in a busy loop
  (`reporter.go:142`).
- `reporter.go:62` says "a minute is complete when it is sent"; a wake-up for a retry in
  the middle of a minute books an open connection's bytes to the minute before, which
  was drained already and is sent again as a second aggregate.
- `reporter.go:199` says a deleted project's last minute "still reports under its id"; that
  holds only if the project had traffic in the last drain that found any.
- Bytes a connection carries while it is being released stay in its counter, unbilled.
- `pruneLocked` stops at the first aggregate it may keep; "the oldest" are not always
  first, as one drain's minutes come out of a map.
- A reused pid is reported as running by `Status`, and killed by `kill`; only
  `countLive` asks whether it is firecracker.
- A mutation whose save failed stays in memory, and the next one that is saved
  persists it too: the caller was told of an error, and it holds after all.
- An activity note or `SetProjectEnv` overtaken by `DeleteProject` puts the deleted
  project back (`PutProject` does not ask), without its workloads.
- `AddRoute` beside `AddRoute` for one host: both are answered without an error and
  the first loses it. `allocHostPort` has the same gap for ports.
- orchd killed between `PutWorkload` and `PutRoute`, or before `provision`: the workload
  stays provisioning, without a route in the first case, since neither startup nor
  `reconcileStates` boots it.
- Two workloads of one name in a project share a default host; the second has it, and an
  `AddRoute` to that host that asked before a registration put it takes it too (`taken`).
- The file is not synced before the rename, and SQLite runs with `synchronous(NORMAL)`:
  the last mutations acknowledged can be lost with the power.

In backups and eviction:

- `S3Store` takes the time in a backup's name after it has read the files: a write while
  it packs is older than the archive and not in it, so `unchangedSinceBackup` holds of data
  that is nowhere else. With `StampFirst = FALSE` TLC violates `UnchangedIsStored`; the run
  has `LocalStore`'s order.
- What a database writes between the reaper's dump and its suspend is in no dump, and the
  seal counts that dump as exact (`dump.go:138`); `blind` marks such workloads.
- A project used, or made keep-warm, after the evictor chose it is evicted all the same.
- A cancelled offline export may leave its container, and the next wake starts a second
  Postgres on the same directory (`docker.go:146`).
- The Mux has no `ExecInContainer`: with Firecracker on, databases are archived as
  files (`dump.go:50`).
- A manual backup of a database that is being removed exports what is left of its directory,
  perhaps an empty cluster, and is stored whatever it holds; with as many such calls as
  `BackupRetain` retention drops the evictor's own dump. With `BackupRetain = 1` and one call TLC
  violates `EvictionLosesNothing`; the run keeps 2.
- `BackupRetain = 0` deletes the backup that was just made (`backup/store.go:230`).

In images:

- `DeleteImage` of the newest and a build after it give one number to two images;
  `PushImage` puts back a record deleted while it pushed; `ImportImage` replaces a local version
  (`meddled`).
- `CreateFromImage` beside a collection pins a version that is going; its workload then boots
  the platform's default image, for a database type too (`raced`).
- Of two concurrent deletions of a version one can remove the directory of the build
  that got its number.
- A docker build that fails leaves an image whose workloads boot the default one.
- After a crash between a tag's removal and the record's, the version is listed and cannot be booted.

In volumes:

- "delete <dir> to redo" (`fc_image.go:62`) leaves the base's and the warm volume's
  mappings: the image prepared again writes through the old ones and records a blank
  volume, from which no clone boots.
- A creation that dies between making its volume and recording it leaves the mapping, and the
  next one's `activate` does nothing: the VM runs on the volume nobody recorded until the host
  reboots, and then on the one that was recorded ("Start from nothing", `firecracker.go:288`).
  `stuck` marks such names.
- A deletion that dies between the volume and the record leaves a VM that is known and cannot
  start; the workload's next creation or deletion removes the record. If its id was taken again in that moment
  (`crossed`), that removal takes the other's volume with it.
- Ids only grow, and an id above 16383 has no veth address (`fc_host.go:293`), though "ids are
  24-bit".
- All template VMs have one network namespace, named by the first ten characters of `tpl-orchd-...`:
  of two images prepared at once one is cut off, and a template VM that outlives orchd
  blocks every preparation until the host reboots.
- Taking a workload off the allowlist lets its next `Create` start a container beside the
  VM that is up; so the model's allowlist only grows.

## Limits

Not modelled: the local driver (development only: the calls of docker's, without its waits), the API's
handlers (each calls the manager once) with authentication and the rate limiter, events and metrics
(a ring and posts nobody waits for), configuration, interpolation and templates (functions of strings
and files, without state). Modelled in part: what each section lists under "Left out". Not to be modelled:
docker's, firecracker's and S3's own behaviour beyond the outcomes orchd
distinguishes, the text of templates and logs, the admin console, the website and
the deployment scripts. Real time is not modelled: timeouts are
choices between an answer and a failure, except the idle interval.
