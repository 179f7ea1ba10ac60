# volumecrypt-kit: TLA+ models, checks and proofs

volumecrypt-kit encrypts a Windows volume in place while it is in use. A boot
loader decrypts it for the firmware, hands the key over to a kernel driver, and
the driver's volume filter encrypts and decrypts every request while a background
sweep converts the volume batch by batch. This directory holds the TLA+ modules
that model that system, the TLC configurations that check them, and the proofs
that TLAPS checks.

Paths below are relative to the repository (`lib/windrv/src/...`).

## Inventory

| Part | State it keeps | Operations | Interacts with |
|---|---|---|---|
| Encryption engine, `offset/engine.rs` | boundary (`encrypted_offset.sector`), `EngineState` | `start_encrypt`, `start_decrypt`, `resume`, `pause`, `progress_step` | called under the volume's `encryption` mutex by the volume thread and by IOCTL handlers; persists through the store |
| Boundary cache, `registry.rs` | `encrypted_boundary`, an atomic | `sync_boundary` after `sweep_step` | read without a lock by the IRPs on the volume thread |
| JVCK store, `lib/common/src/jvck/store.rs` | offset and direction in memory; one sealed 512-byte block per replica on disk | `create`, `open`, `into_store`, `load_offset`, `store`, `store_state`, vendor data | engine, provider, loader |
| Volume thread, `filter/volume_thread.rs` | IRP queue, wake event, shutdown flag, current volume | `start`, `bind`, `enqueue`, `thread_main`, `stop`, `Drop` | fed by the dispatch routine, owned by the filter's extension |
| Filter, `filter/io.rs`, `filter/manager.rs`, `filter/handover_mount.rs` | `DeviceExtension`: lower device, volume, vthread | dispatch of IRPs, bind, rebind, unbind, detach, mount at START_DEVICE | PnP, registry, volume thread |
| Registry, `registry.rs` | attached volumes by path, handover, PDO map | insert, get, remove, all | every IOCTL handler |
| IOCTL dispatch, `ioctl/dispatch.rs` | none of its own | prepare, attach, detach, start, pause, status, shutdown requests | registry, manager, engine |
| Layout, `jvck/store.rs`, `ioctl/dispatch.rs`, `filter/io.rs`, `sdk/jvck.go` | none | replica positions, vendor regions, data region, shift of offsets, size interception, each computed in several places | store, filter, PREPARE, SDK |
| Loader, `sample/loader`, `lib/loader`, `sample/common/src/config.rs` | hooked Block I/O protocol, handover buffer and its locator variable | load `vck.json`, open metadata, install hook, hooked read and write, publish, chainload | firmware, OS loader, driver |
| SDK and sample app, `sdk`, `sample/app` | files on the EFI system partition | shrink the file system, copy the boot manager, write `vck.json`, build metadata, PREPARE, start, poll | NTFS, driver IOCTLs |

What is hard here: the data on the medium, the boundary in the engine, the cached
boundary, the boundary in the store and the one in each replica are five pieces of
state that one batch changes at five different moments, with user requests, control
requests, device errors and power losses in between; the thread that serialises the
work is created, fed, stopped and freed by three other parties; attach and detach are
long sequences of steps each of which can fail; preparing a live OS volume touches the
file system, the EFI partition and the driver in turn, none of it in a transaction; and
the loader and the driver must come to the same view of a volume independently.
`PROJECT.json` lists the hazards with
their lines.

What makes each part correct:

* engine, cache, store: the file system sees a plaintext volume whatever the sweep
  does; the metadata on disk describes the data; a fault costs at most what the code
  documents;
* thread: every IRP is completed, the sweep is not starved, the teardown ends and
  frees nothing in use;
* attach, detach: no step that fails leaves a filter without an owner; an encrypted
  OS volume is never detached;
* layout: metadata, vendor data and files never land on each other, and driver, store
  and SDK compute the same places;
* boot: whoever finds a file system sees what was written last, and an encrypted machine
  comes up;
* preparation: wherever it is interrupted the machine still boots, the tail is free, and
  a key that data depends on stays on the medium.

## Modules

* `PlainVolume`: what the filter promises. A volume of `N` plaintext sectors with
  reads, writes, failed writes, and internal steps that change nothing.
* `VolumeSweep`: the data path of one attached OS volume. See below.
* `VolumeThread`: the queue, the thread, binding and unbinding.
* `AttachLifecycle`: registry, PDO map, filters, and the requests that bring volumes
  under a filter and take them away, with shutdown, unload and restart.
* `JvckLayout`: where replicas, vendor data and files lie, and everyone who computes it.
* `LoaderHook`: one OS volume from power-on through loader, OS loader and driver to the
  running system, and back.
* `ShrinkTail`, `OsVolumePrepare`: the shrink of a live NTFS volume, and the command
  around it (`OsVolumePrepare` extends `ShrinkTail`).
* `VolumeSweepProofs`, `VolumeThreadProofs`, `AttachLifecycleProofs`, `JvckLayoutProofs`,
  `LoaderHookProofs`, `OsVolumePrepareProofs`: the theorems about each of them (the last covers
  `ShrinkTail` too), and `NatLemmas`, which they share.
* `MC...`: constants for TLC.

The state machines cut the system at its own seams, and each abstracts what another has
in detail. `VolumeSweep` starts from a bound volume; `VolumeThread` from a filter whose
bind and unbind are two steps each; `AttachLifecycle` takes a batch and a bind as one step
and follows who is registered and bound; `JvckLayout` leaves encryption out and keeps every
single write; `LoaderHook` has batches of one sector; `OsVolumePrepare` reduces the sweep to
its end and a metadata block to its key.

### VolumeSweep

`disk[s]` is what the medium holds in data sector `s`: a value under a number of
encryption layers. Encrypting adds a layer and decrypting removes one, so double
encryption (layer 2) and decryption of plaintext (layer -1) are visible. `engine`,
`store`, `boundary` (the cache) and `replica[i]` are the copies of the boundary in the
order a batch changes them; `lock` is the engine's mutex, `pc` the place of the volume
thread.

| Actions | Code |
|---|---|
| `ProcessRead`, `ProcessWrite`, `ProcessWriteFails` | `process_read`, `process_write`; `CryptoSpan` is `crypto_range` with the clamp of `CryptoPipeline` |
| `SweepRead`, `SweepWrite`, `SweepWriteFails`, `SweepDone`, `SweepNoWork` | `encrypt_step`, `decrypt_step`, `progress_step`; the batch is split where another party, a fault or a power loss can come in between |
| `WriteReplica`, `WriteReplicaFails` | one iteration of the loop of `write_all_replicas`, run by `store` and by `store_state` |
| `SyncBoundary` | `sync_boundary`, which takes the mutex a second time and runs only after an `Ok` |
| `StartSweep`, `StartDone`, `Pause`, `PauseOsVolume` | the IOCTL handlers and the engine's methods, in their caller's thread |
| `PowerOff`, `Crash`, `CrashTearsReplica` | the end of a session: after the shutdown notification, or anywhere |
| `Attach` | `try_mount_handover_volume` with the sample provider's `on_attach` and the engine's `resume` |

A read that fails, an allocation that fails and a batch whose read fails change
nothing and are stuttering steps. Faults are switched on by the constant `Faults`,
so that each run and each theorem says under which of them it holds.

### VolumeThread

`volume` and `vthread` are the two fields of the filter's extension, which are
written one after the other. `Dispatch` reads both and `Enqueue` comes later, with
anything in between. `thread_main` is split at every point where it looks at shared
state. A sweep batch only answers whether more work is left.

`DelayIsEnough` is an assumption: a dispatch routine that has read the pointer
enqueues before the object is freed. The code relies on a delay of 500 ms for this
(`detach_volume_with_dismount`); the model cannot say more, and the hazard list says
so. Every run sets it.

`ObReferenceObjectByHandle` on the handle of the thread just created (`volume_thread.rs:131-138`) is taken to
succeed; its result is not looked at, and if it failed `stop` would free the object without joining. A
bind over a running thread (`set_current`) is one assignment under a lock and hands the thread another
volume; it is in `AttachLifecycle`, where it happens.

### AttachLifecycle

`entries` is the registry. A volume has two keys, the path the application sends and
the NT name that the handover mount uses. `device`, `volume` and `vthread` are the filter
device and its extension; `attached` holds the `AttachedVolume` objects, which live as long as
somebody refers to them. `meta`, `strayMeta`, `offset`, `dir` and `vckJson` are on disk and survive `Reboot`.

| Actions | Code |
|---|---|
| `Prepare`, `PrepareFails`, `PrepareBinds` | `handle_jvck_prepare` and the AddDevice path; metadata is written below the filter, before the bind (`WriteBelowFilter`) |
| `PrepareAttachesFilter`, `PrepareWrites`, `PrepareWriteFails` | the fallback path: lock, attach, bind, unlock, then write |
| `PrepareOpens`, `PrepareOpenFails`, `Undo` | the second half when a key is given, and its cleanup; `Opens` and `MayNotOpen` are what `on_attach` finds |
| `Attach`, `StartSweep`, `Pause`, `SweepBatch` | `handle_jvck_attach`, the sweep's handlers, `sweep_step` |
| `Detach`, `DetachRemoves`, `DetachLockFails`, `DetachUnbinds` | `handle_detach`, `detach_volume_with_dismount` |
| `Shutdown`, `Unload`, `DetachAllNext`, `DetachAllEnds` | `IRP_MJ_SHUTDOWN`, `driver_unload`, `handle_detach_all_volumes` |
| `Reboot`, `StartDevice` | `DriverEntry` and `add_device`; `try_mount_handover_volume` |

Requests come one at a time, as the command line sends them. `AppPrepares` says what it sends: no
fresh metadata over metadata it can see, no second preparation of the OS volume once `vck.json` exists. DETACH
may be sent for any registered volume at any time; what it refuses is the driver's test. `AttachMayFail` and
`LockMayFail` name the volumes on which a key may be wrong and a lock may fail; in the passing run that is
all of them.

A DETACH that cannot lock the volume has removed it from the registry already and leaves its filter bound
(`filter` is FALSE in its object). The next PREPARE of that path is not refused, and `PrepareBinds`, like
`dispatch.rs:342-343`, does not look at what the filter is bound to. It asks for the size through
that filter, which hides the tail (`hidden`), writes the new block where the data region ends (`strayMeta`),
and binds a volume without a cipher while the thread goes on. What the key then opens may be the stray block; the object
is marked `stray`, since its sweep no longer moves the boundary in the volume's own metadata.

A volume has one application path here: a data volume's is canonicalised by `root.go:33-42`. The second spelling of the
OS volume, and the deletion of `vck.json`, are in `OsVolumePrepare`. Binding a deleted filter has no defined outcome;
`PrepareBinds` is defined for a live one and `FoundFilterIsLive` says whether PREPARE can get to another
(`pdo_map`).

### JvckLayout

A sector of `disk` is tagged with what was written there: a file sector with its own
number, vendor data, a Metadata block with its layout, a torn sector. `task` is the
operation in progress with the writes it still has to do, so that a failed write or a power
loss can come between any two.

| Actions | Code |
|---|---|
| `Shrink`, `Prepare`, `Attach` | `ShrinkVolumeTail`, `prepareCmd`, `attachCmd` of the application |
| `PrepareOnly`, `BindProvisional`, `OpenStore` | PREPARE without a key, and its provisional and full bind; `replica_lbas` and `prepare_geometry` are its own arithmetic |
| `EnsureJvckMetadata` | the SDK's writer, through the filter, with the size it reports |
| `Reseal`, `set_vendor_reserved`, `write_vendor_data`, `write_vendor_data_all` | the store's writers |
| `FsWrite`, `Mount`, `Grow` | file system requests through `shift_offset` and `is_metadata_sector`; mounting and extending are NTFS's |
| `WriteNext`, `WriteFails`, `Finish`, `Crash`, `Detach` | one write of the operation; its ends |

Assumed: an existing file system is prepared without header replicas (the option's help says
so), a repeated preparation asks for the same layout, and the flags of one volume agree in the
number of header replicas (a hazard: `dispatch.rs:268` takes them from the request). A layout larger
than the volume is not sent; the subtraction at `dispatch.rs:288` would wrap. A size
query whose buffer cannot be allocated passes the true size through (`filter/io.rs:84`); that is
left out. `FsWrite` sends what a file system sends, requests inside its own size; a raw request that begins
in the data region and runs past it, of which `filter/io.rs:232` tests only the first sector, is not modelled.

### LoaderHook

`medium[s]` is a value and whether it is ciphertext; `replica[i]` the offset in each footer
replica, or invalid. `phase` follows the machine. In the loader `found` is the boundary the
store recovered, `held` its exclusive Block I/O, `hook` the boundary of the installed
hook; in the driver `handover` and `drv`. `lost` records the sectors a power loss left in a
form the metadata does not know; it is not in the code.

| Actions | Code |
|---|---|
| `PowerOn`, `LoadConfig`, `install_handover`, `chainload_next`, `LoaderFails` | `efi_main`, `run` |
| `OpenVolume`, `DropStore`, `InstallHook`, `HookFails` | `install_decrypt_hook`, best effort |
| `Write`, `Seen` | `hooked_write_blocks`, `hooked_read_blocks` in the OS loader, the bound filter afterwards |
| `DriverEntry`, `StartDevice` | `read_handover`, `try_mount_handover_volume` |
| `Prepare`, `Sweep`, `WriteReplica`, `BatchDone` | metadata and sweep, one sector a batch |
| `NoSystem`, `MountSystem`, `Restart`, `Crash` | the OS and the power supply |

Only a volume with footer replicas is modelled: the hook does not shift, so a volume with a
header is not bootable. Block IO2 is not hooked, which the code says itself. A file system is
found only if sector 0 is seen as plaintext; with a hook that was skipped and a boundary above 0
nothing mounts, which is why skipping it does no harm beyond a boot that fails. A power loss
during the first batch, in sector 0, makes the machine unbootable; `EncryptedBoots` excepts it.

### ShrinkTail and OsVolumePrepare

`lcn` gives the cluster of every virtual cluster of every file; `pass` is one walk over the
files with the scanner, its copy of the bitmap and its attempts. `esp` holds the three files on
the EFI partition, each absent, partial or complete; `meta` the key in each sector PREPARE wrote, with the
number of times a sweep has gone over it; `swept` the keys the data has been encrypted with. `filter` is
the AddDevice filter, `bound` the key it serves the volume with, `reported` the length it lets Windows
see, and `known` the paths under which the registry has the volume.

| Actions | Code |
|---|---|
| `ShrinkPrepare`, `Commit`, `CommitDenied`, `CommitFails`, `Retry`, `GiveUp` | the loop of `ShrinkVolumeTail` |
| `loadBitmap`, `SkipUsed`, `MoveCluster`, `MoveFails`, `NextFile`, `SkipFile`, `WalkError` | `moveTailClustersBeforeThreshold`, `moveSingleTailCluster`, `freeClusterScanner` |
| `RunPrepare`, `CopyBegin`, `CopyEnd`, `WriteConfigBegin`, `WriteConfigEnd`, `HostStepFails`, `Return` | `prepareOSVolume` |
| `buildOSVolumeMetadataBlock`, `DriverPartSkipped`, `Prepare`, `WriteMetadata`, `WriteFails`, `OpenFails`, `BindVolume` | the second half of the command and the driver's handler |
| `InstallLoader`, `RemoveConfig`, `Encrypt`, `Decrypt` (both through `Sweep`), `Kill`, `PowerLoss`, `Boot`, `Allocate`, `Free` | operator, power supply, other programs |

NTFS is external: it commits a shrink exactly when no cluster lies beyond the new end, allocates
nothing there while a shrink is prepared, moves a cluster exactly when its target is free, and
forgets a prepared shrink when the handle is closed. Files on the EFI partition are assumed to
reach the disk in the order they are written (nothing syncs them). The operator installs the loader,
in one step, after `verify-prepare`. The documented order (`docs/boot-and-encryption-flow.md:46-51`)
starts the sweep before the loader is installed: until then the machine does not boot, and
`AlwaysBoots` excepts that window.

The registry compares path strings (`registry.rs:214`, `dispatch.rs:545`). `prepare` sends `\\.\C:` when `--volume` is
omitted (`os_volume_encrypt.go:163-168`) and the canonical GUID path otherwise (`root.go:33-42`), so `Prepare`
is refused only when every spelling in `Paths` is known. A second prepare under the other one sees the volume
through the filter: the shrink, `HasJvckMetadata` and `replica_lbas` all count from `reported`, so it takes a second tail
off the volume, writes a block with a new key in front of the first tail and binds that key. This is the second exception of `AlwaysBoots`
and the case that `SweptKeyIsKept` words with care: the keys the data depends on all stay on the medium,
but the volume is served with the right one only while PREPARE was accepted under at most one path. What a
PREPARE does with a filter that was deleted is not modelled here either (`pdo_map`).

## Runs

| Run | Bounds | Shows |
|---|---|---|
| `sweep_transparent` | 3 sectors, batch 2 (so a full and a short batch), 2 footer replicas, 2 values, failing writes | `Transparent`: every sector has the form the cache announces whenever IRPs are serviced. `RefinesPlainVolume`: the volume behaves like `PlainVolume` |
| `sweep_crash` | 4 sectors, batch 2, one header and one footer replica, 2 power losses, torn replicas | `RebootSafe`: whenever the mutex is free the metadata says what the engine works with. `OneBatchPerIncident`: a power loss costs at most a batch, which is the documented limit of `progress_step` |
| `sweep_live` | 3 sectors, batch 1, 2 failures (torn batches, failed replica writes) | `SweepComesToRest`, and `OneBatchPerIncident` for device failures |
| `thread_lifecycle` | 3 IRPs sent again and again, burst 2, thread creation may fail, any number of binds and unbinds | no IRP is left behind, the object outlives its thread, queued IRPs complete, the sweep is not starved, an unbind ends |
| `attach_lifecycle` | the OS volume and a data volume AddDevice has not seen; sweeps of two batches; wrong keys and failing locks on both; any number of restarts | registry and filters agree between requests, requests reach the bound object under either key, no filter is taken from a registered volume, an encrypted volume keeps its cipher and the driver does not unload under an encrypted OS volume, save what a failed lock leaves behind |
| `jvck_layout` | 6 sectors; four layouts: two footers with a `metadata_size` that is not a multiple of the sector, header and footer, a single footer, a `metadata_size` below a sector; requests of up to 2 sectors, a power loss; volumes with and without a file system | no writer of metadata, vendor data or files reaches the sectors of another; vendor data and `vendor_reserved` survive everything that returned; PREPARE and SDK write where the store reads; the shrunk file system fits |
| `boot_hook` | 3 sectors, 3 footer replicas, 2 power losses, 2 failing calls of firmware and kernel | what was written is seen by whoever mounts; metadata describes the medium; a power loss costs one sector; driver and hook have the same boundary; an encrypted machine comes up |
| `os_prepare` | 6 clusters of 3 sectors, 4 reserved (so the end lies inside a cluster), 2 files, 2 changes by others, two spellings of the path, 3 runs of the command, 2 power losses | the machine boots after every interruption, the tail stays free of clusters, a key in use stays on the medium, the shrink gives up only when it is stuck, and returns |
| `stale_cache`, `bind_window`, `pdo_map`, `ensure_after_prepare` | as small as the behaviour needs | four places where a comment says more than the code does, see below |

Why the bounds are enough: the steps of a batch look at the boundary, at the batch
and at the end of the volume, so three or four sectors with batches of one and two
show a boundary at 0, inside, and at the end, full and short batches, and requests
below, above and across the boundary. Two replicas can disagree, be torn each, and
be a header and a footer or two footers. A second power loss strikes the recovery from
the first. Three IRPs exceed the burst of two. Two objects per volume are enough because a
provisional volume and its successor are the most that are referenced at a time
(TLC would stop at `FreshObject` otherwise, and `FreshIs` proves it), and two batches give a volume a state
between empty and full. In `jvck_layout` six sectors hold one or two replicas, with
vendor sectors, and a data region of two or more sectors on either side of which a wrong place shows;
one power loss can tear any one write of any operation. In `boot_hook` three replicas let two of
them lag behind the third. Six clusters leave, beyond the threshold, a cluster that straddles the new end
and one past it, and below it both free and used ones; three runs of the command and two
power losses allow a failure of the recovery from a failure. With two spellings a second PREPARE is accepted
and a third refused.

The properties of `attach_lifecycle` hold with failing locks on every volume because they say what such a failure breaks. The
exception is the volume that DETACH has given up: its object's `filter` pointer is swapped out. It is bound
and not registered (`RegistryMatchesFilters`), the next PREPARE takes its filter (`BindsOnlyUnbound`) and
with it the cipher (`EncryptedStaysServed`), and if it is the OS volume, which DETACH lets pass only before
its encryption has got anywhere, the unload does not see it (`EncryptedOsVolumeStaysLoaded`). No other volume and no
other request gets there. An OS volume that is being decrypted, for one, is not given up while sectors of it are
encrypted: its boundary only falls, so the test cannot become stale.

`sweep_crash` switches deadlock checking off: a volume whose only replicas in reach are torn
cannot be attached again, so it stays off. `os_prepare` does too: a machine whose boot needs the
loader before it is installed stays off.

### Fairness

`VolumeSweep!Fairness`: the volume thread keeps taking its steps, a handler that
holds the mutex finishes, and an openable volume is attached at the next start (PnP
starts the device). The thread is a system thread that never waits for longer than
500 ms. Users and operators owe nothing. `SweepComesToRest` asks in addition that
control requests and failures cease; user IRPs may go on for ever, since the burst is
bounded.

`VolumeThread!Fairness`: the volume thread runs, a dispatch routine that has read the
pointer goes on, a bind or unbind that has begun goes on. No IRP, no bind and no
unbind has to happen.

`LoaderHook!Fairness`: firmware, loader and kernel go on with the boot; the loader is a single
sequence of calls. No failure, write, sweep or power loss has to happen.

`OsVolumePrepare!Spec`: the running command takes its steps (weak fairness of `Command`, failures
included, so fairness asks for some step and never for the lucky one). Other programs may
interfere at any time; `MaxChanges` bounds them, and `ShrinkReturns` therefore says that the loop
ends once they let it.

## Findings

* `stale_cache`: `sweep_step` syncs the cache only after `Ok`, but the engine moves
  before the metadata is written. A failed metadata write leaves one burst of IRPs
  with the old boundary. (For the same reason a pause right after it leaves the old boundary on disk.)
* `bind_window`: the extension's volume is visible before its thread.
* `pdo_map`: a PREPARE that fails on the key deletes the AddDevice filter; the PDO map
  still names it, and the second try binds a deleted device.
* `ensure_after_prepare`: the SDK's comments ask for `EnsureJvckMetadata` after `Prepare`. It takes
  its sizes from what the volume reports, which the filter has reduced by then, so it writes the
  replicas into the data region. The sample application does not do this: it hands the block to PREPARE.

### Seen while modelling

Not checked by a run of their own:

* `docs/jvck-format.md:109-111` explains the largest offset of the replicas by the wish not to take plaintext for
  ciphertext. For a decrypting volume the largest one is the old one and does exactly that. The
  resynchronisation of the replicas it mentions is not in `into_store`, so in `boot_hook` two power losses can cost two
  sectors.
* `JvckMetadataReader::open` looks at the last sector and sector 0 only: a footer-only volume depends
  on its last replica (`store.rs:534-535` says "anywhere").
* `volume_thread.rs:128` says that without a thread `enqueue` falls back to direct completion; it queues.
* A DETACH that cannot lock the volume has already taken it out of the registry
  (`dispatch.rs:1230-1254`). A DETACH of the OS volume at boundary 0 passes the test and its lock always fails, so a
  running sweep goes on encrypting a volume that `has_encrypted_os_volume` no longer finds, and the driver unloads, against
  `registry.rs:241-243` ("the driver must not unload").
* `dispatch.rs:1331-1332` says that an OS volume "with any encrypted sector cannot be detached". The test and the removal
  are two steps: a batch in between encrypts the first sectors of a volume that is then given up.
* PREPARE over a filter that a failed DETACH left bound (`dispatch.rs:342-343`) replaces a volume with its
  cipher by one without, above a thread that runs, and writes its metadata inside the data region.
* A PREPARE under the other spelling of the path is not refused, against `dispatch.rs:546` and
  `os_volume_encrypt.go:301-305` (a re-run keeps the volume's key): it binds a new key over data swept
  with the old one. A machine swept with both, or with the new one, does not boot through the loader, which
  looks for metadata at the end of the partition. If a sweep with the first key passes between the writes of two of the new replicas,
  the ones written before it are encrypted and one readable replica remains.
* With two registry entries for one filter a DETACH of the first unbinds the volume of the second, and a sweep
  started through the first path drives an engine that no thread runs. Only the two spellings of the OS volume lead there;
  `OsVolumePrepare` has no DETACH.
* `filter_bind_volume` over a bound filter leaks the reference to the volume it replaces.
* A `prepare` that fails after `vck.json` is refused the next time until the file is deleted, so the
  branch of `buildOSVolumeMetadataBlock` for a re-run (`os_volume_encrypt.go:303-305`) is reached only that way.
* A walk that fails returns from `ShrinkVolumeTail` without the abort; closing the handle does it.

## Proofs

Every safety property that a passing run checks is also a theorem, for every value of the
constants that satisfies the named assumptions. Each proof has the same shape: an inductive
invariant, one lemma per action that says the action keeps it, one lemma per property
that says the invariant implies it, and a temporal step. The invariants were checked
with TLC on small instances before they were proved.

| Module | Theorems | Inductive invariant |
|---|---|---|
| `VolumeSweepProofs` | `TypeCorrect`, `RebootSafety`, `Transparency`, `Refinement`, `LossIsBounded` | `PersistInv`, `SoundInv`; `BufferInv` and `LossInv` |
| `VolumeThreadProofs` | `ThreadTypeCorrect`, `NoIrpLeftBehind`, `ThreadInsideObject` | `ThreadInv` |
| `AttachLifecycleProofs` | `LifecycleTypeCorrect`, `RegistryAgrees`, `ResolveIsRight`, `BindMeetsContract`, `UnloadIsSafe`, `EncryptedVolumeIsServed` | `LifeInv` |
| `JvckLayoutProofs` | `LayoutTypeCorrect`, `WritersAndStoreAgree`, `FilesStayIntact`, `VendorDataStays`, `ReservedStays`, `FileSystemHasRoom` | `LayoutInv` |
| `LoaderHookProofs` | `BootTypeCorrect`, `MetadataIsTrue`, `BootIsTransparent`, `LoaderAndDriverAgree`, `OneSectorEach` | `HookInv`, `BudgetInv` |
| `OsVolumePrepareProofs` | `PrepareTypeCorrect`, `MachineBoots`, `TailStaysFree`, `KeyIsKept`, `StopsOnlyWhenStuck` | `PrepareInv` |

`NatLemmas` has the two facts all the arithmetic rests on: a nonempty set of numbers has a
least element, and a bounded one a greatest.

### VolumeSweep

For every volume size, batch size, number of replicas, set of values and bound on faults
(`SizeAssumption`, `ValueAssumption`, `FaultAssumption`).

* `TypeCorrect`, under all faults. The work is in the boundary
  arithmetic: `BatchInVolume` says that a batch lies in the volume and moves the
  boundary to its other end, and the recovery lemmas say that `load_offset`'s maximum exists
  and is an offset.
* `RebootSafety`: `RebootSafe` when no metadata write is reported as failed.
  `RebootSafe` is not inductive: while replicas are being written they disagree. The
  invariant `PersistInv` says that the mutex is the sweep's exactly from its read to the end of its
  store, that the store's offset is the engine's, that while `write_all_replicas` runs the replicas
  before `next` hold the store, and that at any other time of a session the metadata is openable
  and recovers the engine's boundary and the store's direction (`Agreed`). Power losses and torn
  batches are allowed.
* `Transparency`: `Transparent` when `Faults` allows only failing writes. The
  invariant `SoundInv` says that every sector has the form announced by the frontier (the
  engine's boundary, or the recovered one while the power is off), that between read and write the
  buffer is the transformed batch of the medium as it still is, and that the cache
  equals the engine except from the batch's write to `sync_boundary`. It rests on `PersistInv` because an
  attach starts from the recovered boundary.
* `Refinement`: `RefinesPlainVolume` under the same assumption, with the
  refinement mapping `PlainView` (a sector shows its value when its form is the one the frontier
  announces) and `AnswerView`.
* `LossIsBounded`: `OneBatchPerIncident` under all faults together, which no run combines. The number of
  damaged sectors is not inductive: a sector can be sound today and damaged by a later recovery
  that falls back to a replica which is several batches behind. `LossInv` says that there is a set `L` of
  sectors, at most a batch per incident, outside of which everything that speaks of a sector
  agrees on its form: the engine, the cache and every replica, the torn ones too. While
  a batch is being persisted its sectors `D` are exempt from the replicas that are still to be written; an
  incident moves `D` into `L`.

### VolumeThread

`ThreadInv` ties what the control side has set up and torn down to the state of the object and the thread, says that
the thread leaves its loop only with the shutdown flag up, and that every queued IRP is in the
queue that exists. `NothingLeftBehind` follows from the order in which `enqueue` (flag under the
queue's lock) and the thread (drain after the flag) look at the two. No assumption is
made on `DelayIsEnough`: a dispatch routine that comes too late has status "stale" and is not in
any queue, which the hazard list names as the part a delay cannot cover.

### AttachLifecycle

For every set of volumes, whichever `add_device` has seen, may fail to attach or may have open
files, and without a further hypothesis. `LifeInv` says that whoever is registered, or held by a handler, is bound
(`ObjectInv`): so a volume has at most one object (`FreshIs`: two incarnations are enough). A bound volume (`BoundInv`) has a live
filter, a thread if the object has the cipher, the boundary that is on disk unless its metadata is a stray block, and is
registered or given up by a DETACH. `OsInv` carries the argument for the OS volume: its path is a key only
before the first handover and its NT name only with one, so it never has both; its filter is not bound when a PREPARE
finds it, because a given-up OS volume has its `vck.json`; once opened its object is marked Handover and has the cipher,
which is what `handle_detach` and `has_encrypted_os_volume` look at; and one that DETACH lets pass
has boundary 0 or is being encrypted. `RequestInv` says what each step of PREPARE and DETACH has left undone.

### JvckLayout

For every size of the volume and of the sector, every set of layouts (any number of header and footer
replicas, any `metadata_size`), and any number of power losses. `LayoutInv` says which block
each sector of the volume can hold: every valid Metadata block is at a place of the layout that was prepared first and carries a value of
`vendor_reserved` that was told, every file sector is at its number plus the shift, vendor data is in
its replica's region; and the writes an operation has still to do are of the same kinds.
Under it lie the arithmetic lemmas about `metadata_sector_lbas`, `replica_lbas`, `metadataSectorLBAs`, the
vendor regions and the data region: where they lie and that they are disjoint whenever
`compute_geometry` accepts the layout.

All six theorems assume `~EnsureAfterPrepare`; with it `WritersAgree` is false (finding `ensure_after_prepare`).

### LoaderHook

For every size, number of replicas, of power losses and of failing calls. `HookInv` says that what the
loader recovered stays what a second open recovers, that between batches the metadata describes every sector not in doubt,
and within a batch how far the medium is ahead of which replicas. `OneSectorEach`
is an amortised bound: `BudgetInv` counts, with the sectors that are lost, those between the last replica
and the boundary, since one more torn replica can lose all of them at once. Each of them was paid for by
an earlier power loss, so a single power loss can cost several sectors, but `k` of them never
cost more than `k`.

### ShrinkTail and OsVolumePrepare

For every volume, every placement of files in it (`ShrinkAssumption`: no cluster is given twice and all lie in system), every number of runs, spellings, power losses and changes by others. `PrepareInv` has seven parts.
`TargetInv` says that the target of the shrink and the threshold of the walk leave
the tail (rounding down to clusters is the point); `WalkInv` what a pass that made no move knows of the
clusters it has passed (for `GivesUpOnlyWhenStuck`); `ControlInv` in which order the files on the EFI partition come
into being, and how `bound`, `known` and `reported` go together; `TailInv` that the file system ends in front of
the tail of the length that is reported, and of every block. `KeyInv` carries `KeyIsKept`: cut from the end of the partition,
the volume falls into tails of `Reserved` sectors (`Ends`, `Group`); every key lies in one of them, the bound
one in the tail the filter hides, the one being written in the tail before it. So
neither PREPARE nor a sweep reaches the replicas of a key in use, which are therefore whole (`Whole`) in a
tail at or behind the bound one. It fails if the replicas are counted from the end of the partition,
as they would be below the filter (the mutant of `SweptKeyIsKept`).

### What the proofs changed in the models

* `JvckLayout`: `Prepare` had lost a test of the command line (`use_footer` and `metadata_size` above 0) and `Mount` could look at a
  sector beyond a volume smaller than its header.
* `AttachLifecycle`: the set from which `Reboot` takes `handover` was written so that a handover without `vck.json` was
  possible. Both parts of the condition are now conjuncts.
* `ShrinkTail`: that clusters are placed once and inside the file system is now an assumption
  on the initial layouts, and part of the type invariant.

### Model-checked only

Liveness: `SweepComesToRest`, `QueuedIrpCompletes`, `SweepNotStarved`, `StopReturns`, `EncryptedBoots` and
`ShrinkReturns`. The prover handles neither fairness nor ENABLED. What a recursive definition
computes is out of its reach as well; no module has one. The properties of the four violation runs are
false, as the findings say.

## Not modelled

* The cipher, the key derivation and the codec's bytes: a replica is valid or not, a
  sector carries layers. The tweak of a sector depends only on its data-relative number, which
  is the index of `disk`.
* A cipher supplier that answers `None`: the one the repository has always answers.
* `ObReferenceObjectByHandle` failing on a fresh handle, PREPARE on a filter that has been deleted, raw requests
  that run past the data region (see the modules).
* Requests that overlap, a DETACH_ALL sent by an application, REMOVE_DEVICE, and a
  provider that answers passthrough when a key is given (the sample's does not).
* Where exactly a footer lies that is read through a filter which hides the tail: in `AttachLifecycle` there is the volume's own
  metadata and the stray block, and what opens is a choice between those that are there.
* DETACH of the OS volume together with a deleted `vck.json`: `AttachLifecycle` has the first, `OsVolumePrepare` the second. A
  re-PREPARE of an OS volume that a failed lock left bound would need both, and would do to it what it does to a data volume.
* `WatchProgress` and the progress output, the JSON scanner (the configuration loads or does not), the
  encoding of handover payload and locator, `uninstall` of the hook (nothing calls it), Block IO2.
* REMOVE_DEVICE is passed through (`filter/io.rs:149`) and leaves the filter as it is; what PnP does
  with the device afterwards is outside the code.
* IRP, MDL and pool handling, logging, the benchmark, CI and the test images.

## Plan

1. `RebootSafety` and `Transparency` name the faults they exclude; state what remains true of the metadata and
   of the cache when those happen too, as `LossIsBounded` does for the sectors.
2. An abstract specification of the registry (a volume is absent, provisional or served) that `AttachLifecycle`
   implements, and one of the boot (a plaintext volume, as in `PlainVolume`) for `LoaderHook`.
3. The safety half of the liveness properties: that the states they wait in are left by an enabled step only.
4. `AttachLifecycle` with overlapping requests.
