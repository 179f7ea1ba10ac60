-------------------------- MODULE AttachLifecycle --------------------------
(***************************************************************************)
(* How volumes come under the driver's filter and leave it: the registry   *)
(* of attached volumes and the PDO map (registry.rs), the filter devices   *)
(* (filter/manager.rs), the PREPARE, ATTACH, DETACH and sweep handlers     *)
(* (ioctl/dispatch.rs), the handover mount of the OS volume                *)
(* (filter/handover_mount.rs), and AddDevice, shutdown and unload of the   *)
(* sample driver.                                                          *)
(*                                                                         *)
(* Requests come one at a time, from a command-line application that       *)
(* waits for each answer; nothing in the driver enforces it.  A handler is *)
(* split where the volume thread, a device failure or a power loss can     *)
(* come in between.  What an IRP or a batch does to sectors is VolumeSweep,*)
(* how a thread starts and stops is VolumeThread.                          *)
(***************************************************************************)
EXTENDS Naturals

CONSTANTS
    Volumes,           \* the volumes of the machine
    OsVolume,          \* the system volume
    AddDeviceVolumes,  \* the volumes for which add_device attached a filter
    AttachMayFail,     \* volumes whose metadata may be missing or may not
                       \* open with the key that is given
    LockMayFail,       \* volumes that may have open files when detached
    N,                 \* the offset at which a volume is fully encrypted
    Incarnations,      \* tell apart the objects one volume has at a time
    NoVolume           \* a null pointer, an absent entry

ASSUME LifecycleAssumption ==
    /\ OsVolume \in AddDeviceVolumes /\ AddDeviceVolumes \subseteq Volumes
    /\ AttachMayFail \subseteq Volumes /\ LockMayFail \subseteq Volumes
    /\ N \in Nat \ {0}
    /\ \E i, j \in Incarnations : i # j
    /\ NoVolume \notin Volumes \cup Volumes \X Incarnations

VARIABLES
    entries,   \* VolumeAttachRegistry::entries: key -> object
    handover,  \* VolumeAttachRegistry::handover is set
    device,    \* the filter device of each volume: "none", "live", "deleted"
    volume,    \* DeviceExtension::volume of that filter
    vthread,   \* DeviceExtension::vthread is set
    attached,  \* the AttachedVolume objects that are referenced
    req,       \* the request in progress
    phase,     \* "up", "shutdown", "unloading", "unloaded", "bugcheck"
    meta,      \* on disk: valid metadata
    strayMeta, \* on disk: a block that lies where the data region ends
    offset,    \* on disk: encrypted_offset
    dir,       \* on disk: the direction of the sweep
    vckJson    \* on the EFI partition: vck.json

vars == <<entries, handover, device, volume, vthread, attached, req, phase,
          meta, strayMeta, offset, dir, vckJson>>

session == <<entries, handover, device, volume, vthread, attached>>
disk    == <<meta, strayMeta, offset, dir, vckJson>>

(* A volume's path as the application sends it, and its NT device name. *)
App(v) == <<v, "app">>
Nt(v)  == <<v, "nt">>
Keys   == Volumes \X {"app", "nt"}

(* Identities of AttachedVolume objects. *)
Objects == Volumes \X Incarnations

Pointer == Objects \cup {NoVolume}

AttachSource == {"Handover", "Ioctl"}
EngineState  == {"Idle", "Encrypting", "Decrypting", "Paused"}
VolumeState  == {"Encrypt", "Decrypt"}

(* `filter' is whether filter_device is set, `cipher' whether there is a   *)
(* cipher supplier: not yet for a provisional volume.  `stray': the key    *)
(* and the boundary come from strayMeta.                                   *)
AttachedVolume ==
    [vol: Volumes, source: AttachSource, cipher: BOOLEAN, stray: BOOLEAN,
     filter: BOOLEAN, engine: EngineState, boundary: 0 .. N]

(* "add"       PREPARE has found a filter                                  *)
(* "fallback"  PREPARE has found none and will attach one                  *)
(* "write"     PREPARE writes the metadata above its own filter            *)
(* "open"      PREPARE opens the metadata with the key                     *)
(* "remove"    DETACH has passed its test                                  *)
(* "lock"      DETACH has removed the volume from the registry             *)
(* "all"       DETACH_ALL is working through the volumes of `todo'         *)
(* `hidden': PREPARE has asked for the size through a filter that serves a *)
(* volume and that answers with the size of the data region.               *)
Request ==
    [pc: {"idle", "add", "fallback", "write", "open", "remove", "lock", "all"},
     vol: Volumes \cup {NoVolume}, block: BOOLEAN, vmk: BOOLEAN,
     hidden: BOOLEAN, object: Pointer, todo: SUBSET Volumes]

NoRequest == [pc |-> "idle", vol |-> NoVolume, block |-> FALSE, vmk |-> FALSE,
              hidden |-> FALSE, object |-> NoVolume, todo |-> {}]

TypeOK ==
    /\ entries \in [Keys -> Pointer]
    /\ handover \in BOOLEAN
    /\ device \in [Volumes -> {"none", "live", "deleted"}]
    /\ volume \in [Volumes -> Pointer]
    /\ vthread \in [Volumes -> BOOLEAN]
    /\ DOMAIN attached \subseteq Objects
    /\ \A o \in DOMAIN attached : attached[o] \in AttachedVolume
    /\ req \in Request
    /\ phase \in {"up", "shutdown", "unloading", "unloaded", "bugcheck"}
    /\ {meta, strayMeta} \subseteq [Volumes -> BOOLEAN]
    /\ offset \in [Volumes -> 0 .. N]
    /\ dir \in [Volumes -> VolumeState]
    /\ vckJson \in BOOLEAN

-----------------------------------------------------------------------------
(***************************************************************************)
(* Objects, filters, look-ups.                                             *)
(***************************************************************************)

(* Arc: an object lives as long as the registry, a filter or a handler     *)
(* refers to it.                                                           *)
References == {entries[k] : k \in Keys} \cup {volume[v] : v \in Volumes}
                  \cup {req.object}

(* After a step that creates the object `new' (or none) as `record', the   *)
(* objects are the ones that are still referenced.                         *)
ObjectsWith(new, record) ==
    attached' = [o \in (References \ {NoVolume})' |->
                    IF o = new THEN record ELSE attached[o]]

FreshObject(v) ==
    CHOOSE o \in {v} \X Incarnations : o \notin DOMAIN attached

(* PREPARE marks the system volume as Handover, as the boot does. *)
SourceOf(v) == IF v = OsVolume THEN "Handover" ELSE "Ioctl"

Provisional(v) ==
    [vol |-> v, source |-> SourceOf(v), cipher |-> FALSE, stray |-> FALSE,
     filter |-> TRUE, engine |-> "Idle", boundary |-> 0]

(* The volume built from the metadata on disk; a stray block starts anew.  *)
Complete(v, source, engine, stray) ==
    [vol |-> v, source |-> source, cipher |-> TRUE, stray |-> stray,
     filter |-> TRUE, engine |-> engine,
     boundary |-> IF stray THEN 0 ELSE offset[v]]

(* filter_bind_volume and filter_rebind_volume followed by                 *)
(* volume_thread::bind: a thread that exists is handed the new volume, and *)
(* one is started for a volume with a cipher.                              *)
Bind(v, o, cipher) ==
    /\ volume' = [volume EXCEPT ![v] = o]
    /\ vthread' = [vthread EXCEPT ![v] = @ \/ cipher]

(* unbind_filter *)
Unbind(v) ==
    /\ volume' = [volume EXCEPT ![v] = NoVolume]
    /\ vthread' = [vthread EXCEPT ![v] = FALSE]
    /\ UNCHANGED device

(* detach_filter.  The map add_device fills is not touched and goes on     *)
(* naming the deleted device; any other filter is simply gone.             *)
DetachFilter(v) ==
    /\ volume' = [volume EXCEPT ![v] = NoVolume]
    /\ vthread' = [vthread EXCEPT ![v] = FALSE]
    /\ device' = [device EXCEPT
                    ![v] = IF v \in AddDeviceVolumes THEN "deleted" ELSE "none"]

(* find_filter_for_volume: the PDO map, and then a walk of the stack. *)
FindsFilter(v) == v \in AddDeviceVolumes \/ device[v] = "live"

(* Mutant: only the key the application uses is looked at. *)
ResolveByPath(v) == entries[App(v)]

(* resolve_volume: the entry under the path, or else the one whose         *)
(* filter_device is the filter that is found.                              *)
ResolveVolume(v) ==
    LET byFilter == {o \in Objects : /\ \E k \in Keys : entries[k] = o
                                     /\ attached[o].vol = v
                                     /\ attached[o].filter}
    IN  IF entries[App(v)] # NoVolume THEN entries[App(v)]
        ELSE IF FindsFilter(v) /\ byFilter # {}
             THEN CHOOSE o \in byFilter : TRUE
             ELSE NoVolume

Init ==
    /\ entries = [k \in Keys |-> NoVolume]
    /\ handover = FALSE
    /\ device = [v \in Volumes |->
                    IF v \in AddDeviceVolumes THEN "live" ELSE "none"]
    /\ volume = [v \in Volumes |-> NoVolume]
    /\ vthread = [v \in Volumes |-> FALSE]
    /\ attached = [o \in {} |-> NoVolume]
    /\ req = NoRequest
    /\ phase = "up"
    /\ meta = [v \in Volumes |-> FALSE]
    /\ strayMeta = [v \in Volumes |-> FALSE]
    /\ offset = [v \in Volumes |-> 0]
    /\ dir = [v \in Volumes |-> "Encrypt"]
    /\ vckJson = FALSE

-----------------------------------------------------------------------------
(***************************************************************************)
(* IOCTL_JVCK_PREPARE.                                                     *)
(***************************************************************************)

(* What the application sends: it adds a metadata block when it finds none *)
(* at the end of the volume, which a filter that serves the volume hides,  *)
(* and `prepare' (not `attach') was asked for; it prepares the OS volume,  *)
(* key included, only while there is no vck.json, which it writes first.   *)
(* Outside AttachMayFail, attach is asked for with the right key and after *)
(* prepare.                                                                *)
AppPrepares(v, block, vmk) ==
    /\ block => ~meta[v] \/ volume[v] # NoVolume
    /\ v = OsVolume => ~vckJson /\ vmk /\ (block \/ meta[v])
    /\ v \in AttachMayFail \/ meta[v] \/ block

(* Mutant: a volume that is registered already is not refused. *)
PrepareTwice(v, block, vmk) ==
    /\ phase = "up" /\ req.pc = "idle"
    /\ AppPrepares(v, block, vmk)
    /\ req' = [NoRequest EXCEPT
                 !.pc = IF FindsFilter(v) THEN "add" ELSE "fallback",
                 !.vol = v, !.block = block, !.vmk = vmk]
    /\ vckJson' = (vckJson \/ v = OsVolume)
    /\ UNCHANGED <<session, phase, meta, strayMeta, offset, dir>>

(* A path that is in the registry is refused, which changes nothing; else  *)
(* a filter is looked for.                                                 *)
Prepare(v, block, vmk) ==
    /\ phase = "up" /\ req.pc = "idle"
    /\ AppPrepares(v, block, vmk)
    /\ entries[App(v)] = NoVolume
    /\ req' = [NoRequest EXCEPT
                 !.pc = IF FindsFilter(v) THEN "add" ELSE "fallback",
                 !.vol = v, !.block = block, !.vmk = vmk]
    /\ vckJson' = (vckJson \/ v = OsVolume)
    /\ UNCHANGED <<session, phase, meta, strayMeta, offset, dir>>

(* The replicas PREPARE writes below a filter lie at the end of the volume *)
(* or, when that filter serves it, at the end of the data region.          *)
WriteBelowFilter(v) ==
    IF volume[v] = NoVolume
      THEN meta' = [meta EXCEPT ![v] = TRUE] /\ UNCHANGED strayMeta
      ELSE strayMeta' = [strayMeta EXCEPT ![v] = TRUE] /\ UNCHANGED meta

(* Before anything is bound: the volume cannot be queried, no filter can   *)
(* be attached, or, below a filter that was found, a replica cannot be     *)
(* written (others may have been).                                         *)
PrepareFails ==
    /\ req.pc \in {"add", "fallback"}
    /\ \/ UNCHANGED <<meta, strayMeta>>
       \/ req.pc = "add" /\ req.block /\ WriteBelowFilter(req.vol)
    /\ req' = NoRequest
    /\ UNCHANGED <<session, phase, offset, dir, vckJson>>

AfterBind(r) == IF r.vmk THEN [r EXCEPT !.pc = "open"] ELSE NoRequest

(* The filter that was found takes the provisional volume, after the       *)
(* metadata was written below it.  One that serves a volume, after a       *)
(* DETACH that could not lock it, gives that volume up and keeps its       *)
(* thread.  Binding a deleted filter has no defined outcome.               *)
PrepareBinds ==
    LET v == req.vol
    IN  /\ req.pc = "add" /\ device[v] = "live"
        /\ IF req.block THEN WriteBelowFilter(v)
                        ELSE UNCHANGED <<meta, strayMeta>>
        /\ entries' = [entries EXCEPT ![App(v)] = FreshObject(v)]
        /\ Bind(v, FreshObject(v), FALSE)
        /\ req' = AfterBind([req EXCEPT !.hidden = volume[v] # NoVolume])
        /\ ObjectsWith(FreshObject(v), Provisional(v))
        /\ UNCHANGED <<handover, device, phase, offset, dir, vckJson>>

(* No filter: one is attached and bound while the volume is locked and     *)
(* dismounted; the metadata is written afterwards.                         *)
PrepareAttachesFilter ==
    LET v == req.vol
    IN  /\ req.pc = "fallback"
        /\ device' = [device EXCEPT ![v] = "live"]
        /\ entries' = [entries EXCEPT ![App(v)] = FreshObject(v)]
        /\ Bind(v, FreshObject(v), FALSE)
        /\ req' = IF req.block THEN [req EXCEPT !.pc = "write"]
                               ELSE AfterBind(req)
        /\ ObjectsWith(FreshObject(v), Provisional(v))
        /\ UNCHANGED <<handover, phase, disk>>

PrepareWrites ==
    /\ req.pc = "write"
    /\ meta' = [meta EXCEPT ![req.vol] = TRUE]
    /\ req' = AfterBind(req)
    /\ UNCHANGED <<session, phase, strayMeta, offset, dir, vckJson>>

(* registry.remove and detach_filter, the cleanup of a failed PREPARE. *)
Undo(v) ==
    /\ entries' = [entries EXCEPT ![App(v)] = NoVolume]
    /\ DetachFilter(v)
    /\ req' = NoRequest
    /\ ObjectsWith(NoVolume, NoVolume)
    /\ UNCHANGED <<handover, phase>>

PrepareWriteFails ==
    /\ req.pc = "write"
    /\ meta' \in {meta, [meta EXCEPT ![req.vol] = TRUE]}
    /\ Undo(req.vol)
    /\ UNCHANGED <<strayMeta, offset, dir, vckJson>>

(* on_attach looks for metadata at the end of the volume, or at the end of *)
(* the data region when the size was hidden, and then in the first sector. *)
(* A hidden size finds a stray block, if the sweep has not gone over it;   *)
(* `stray' is whether that is what opens.                                  *)
Opens(v, hidden, stray) ==
    IF stray THEN hidden /\ strayMeta[v] ELSE meta[v]

MayNotOpen(v, hidden) == v \in AttachMayFail \/ ~meta[v] \/ hidden

(* Mutant: the provisional volume stays in the registry. *)
OpenFailsKeepsEntry ==
    /\ req.pc = "open" /\ MayNotOpen(req.vol, req.hidden)
    /\ DetachFilter(req.vol)
    /\ req' = NoRequest
    /\ UNCHANGED entries
    /\ ObjectsWith(NoVolume, NoVolume)
    /\ UNCHANGED <<handover, phase, disk>>

(* on_attach, or the opening of the sweep's device, fails. *)
PrepareOpenFails ==
    /\ req.pc = "open" /\ MayNotOpen(req.vol, req.hidden)
    /\ Undo(req.vol)
    /\ UNCHANGED disk

(* on_attach succeeds: the complete volume replaces the provisional one in *)
(* the registry and in the filter.                                         *)
PrepareOpens(stray) ==
    LET v == req.vol
    IN  /\ req.pc = "open" /\ Opens(v, req.hidden, stray)
        /\ entries' = [entries EXCEPT ![App(v)] = FreshObject(v)]
        /\ Bind(v, FreshObject(v), TRUE)
        /\ req' = NoRequest
        /\ ObjectsWith(FreshObject(v), Complete(v, SourceOf(v), "Idle", stray))
        /\ UNCHANGED <<handover, device, phase, disk>>

-----------------------------------------------------------------------------
(***************************************************************************)
(* IOCTL_JVCK_ATTACH and the sweep's handlers.                             *)
(***************************************************************************)

(* The second phase, for a provisional volume, through whose filter the    *)
(* size is asked for; a failure leaves it as it is.                        *)
Attach(v, stray) ==
    /\ phase = "up" /\ req.pc = "idle"
    /\ entries[App(v)] # NoVolume /\ ~attached[entries[App(v)]].cipher
    /\ Opens(v, TRUE, stray)
    /\ entries' = [entries EXCEPT ![App(v)] = FreshObject(v)]
    /\ Bind(v, FreshObject(v), TRUE)
    /\ UNCHANGED req
    /\ ObjectsWith(FreshObject(v), Complete(v, "Ioctl", "Idle", stray))
    /\ UNCHANGED <<handover, device, phase, disk>>

(* Mutant: the end of the volume is not recognised. *)
StateTowardsPastEnd(d, sector) ==
    IF d = "Encrypt" THEN IF sector <= N THEN "Encrypting" ELSE "Idle"
                     ELSE IF sector > 0 THEN "Decrypting" ELSE "Idle"

(* start_encrypt and start_decrypt choose the state, and so does resume. *)
StateTowards(d, sector) ==
    IF d = "Encrypt" THEN IF sector < N THEN "Encrypting" ELSE "Idle"
                     ELSE IF sector > 0 THEN "Decrypting" ELSE "Idle"

(* Whether the store of the object is the metadata of the volume: not the  *)
(* dummy one of a provisional volume, and not a stray block.               *)
HasStore(o) == attached[o].cipher /\ ~attached[o].stray

(* START_ENCRYPT and START_DECRYPT. *)
StartSweep(v, d) ==
    LET o == ResolveVolume(v)
    IN  /\ phase = "up" /\ req.pc = "idle" /\ o # NoVolume
        /\ attached' = [attached EXCEPT
                          ![o].engine = StateTowards(d, attached[o].boundary)]
        /\ dir' = IF HasStore(o) THEN [dir EXCEPT ![v] = d] ELSE dir
        /\ UNCHANGED <<entries, handover, device, volume, vthread, req, phase,
                       meta, strayMeta, offset, vckJson>>

PausedState(e) == IF e \in {"Encrypting", "Decrypting"} THEN "Paused" ELSE e

Pause(v) ==
    LET o == ResolveVolume(v)
    IN  /\ phase = "up" /\ req.pc = "idle" /\ o # NoVolume
        /\ attached' = [attached EXCEPT
                          ![o].engine = PausedState(attached[o].engine)]
        /\ UNCHANGED <<entries, handover, device, volume, vthread, req, phase,
                       disk>>

(* The volume thread runs a batch of the volume it was given. *)
SweepBatch(v) ==
    LET o    == volume[v]
        e    == attached[o].engine
        next == IF e = "Encrypting" THEN attached[o].boundary + 1
                                    ELSE attached[o].boundary - 1
        rest == IF e = "Encrypting" THEN next = N ELSE next = 0
    IN  /\ phase \notin {"bugcheck", "unloaded"}
        /\ vthread[v] /\ attached[o].cipher
        /\ e \in {"Encrypting", "Decrypting"}
        /\ attached' = [attached EXCEPT
                          ![o].boundary = next,
                          ![o].engine = IF rest THEN "Idle" ELSE e]
        /\ offset' = IF HasStore(o) THEN [offset EXCEPT ![v] = next]
                                    ELSE offset
        /\ UNCHANGED <<entries, handover, device, volume, vthread, req, phase,
                       meta, strayMeta, dir, vckJson>>

-----------------------------------------------------------------------------
(***************************************************************************)
(* IOCTL_VCK_DETACH: handle_detach and detach_volume_with_dismount.        *)
(***************************************************************************)

IsOsVolume(o)       == attached[o].source = "Handover"
HasEncryptedData(o) == attached[o].boundary > 0

(* Mutant: the OS volume is not protected. *)
DetachAnything(v) ==
    /\ phase = "up" /\ req.pc = "idle"
    /\ entries[App(v)] # NoVolume
    /\ req' = [NoRequest EXCEPT !.pc = "remove", !.vol = v]
    /\ UNCHANGED <<session, phase, disk>>

(* An encrypted OS volume is refused, a path that is not a key is not      *)
(* found; both change nothing.                                             *)
Detach(v) ==
    /\ phase = "up" /\ req.pc = "idle"
    /\ entries[App(v)] # NoVolume
    /\ ~(IsOsVolume(entries[App(v)]) /\ HasEncryptedData(entries[App(v)]))
    /\ req' = [NoRequest EXCEPT !.pc = "remove", !.vol = v]
    /\ UNCHANGED <<session, phase, disk>>

(* registry.remove, and filter_device is swapped out. *)
DetachRemoves ==
    LET v == req.vol
        o == entries[App(v)]
    IN  /\ req.pc = "remove"
        /\ entries' = [entries EXCEPT ![App(v)] = NoVolume]
        /\ req' = [req EXCEPT !.pc = "lock", !.object = o]
        /\ attached' = [attached EXCEPT ![o].filter = FALSE]
        /\ UNCHANGED <<handover, device, volume, vthread, phase, disk>>

(* FSCTL_LOCK_VOLUME fails and the handler returns the error: the volume   *)
(* stays with its filter.                                                  *)
DetachLockFails ==
    /\ req.pc = "lock" /\ req.vol \in LockMayFail
    /\ req' = NoRequest
    /\ UNCHANGED <<entries, volume>>
    /\ ObjectsWith(NoVolume, NoVolume)
    /\ UNCHANGED <<handover, device, vthread, phase, disk>>

(* The volume is locked and dismounted, or could not be opened at all; the *)
(* filter stays, as pass-through.                                          *)
DetachUnbinds ==
    /\ req.pc = "lock"
    /\ Unbind(req.vol)
    /\ req' = NoRequest
    /\ UNCHANGED entries
    /\ ObjectsWith(NoVolume, NoVolume)
    /\ UNCHANGED <<handover, phase, disk>>

-----------------------------------------------------------------------------
(***************************************************************************)
(* Shutdown, unload, restart.                                              *)
(***************************************************************************)

Registered == {entries[k] : k \in Keys} \ {NoVolume}

(* Mutant: the OS volume is detached with the others. *)
EveryVolume == {v \in Volumes : entries[App(v)] # NoVolume
                                  \/ entries[Nt(v)] # NoVolume}

(* handle_detach_all_volumes takes the data volumes that are registered. *)
DataVolumes == {attached[o].vol : o \in {x \in Registered : ~IsOsVolume(x)}}

(* IRP_MJ_SHUTDOWN: PAUSE_OS_VOLUME and then DETACH_ALL.  The applications *)
(* are gone.                                                               *)
Shutdown ==
    /\ phase = "up" /\ req.pc = "idle"
    /\ phase' = "shutdown"
    /\ attached' = [o \in DOMAIN attached |->
                      IF o \in Registered /\ IsOsVolume(o)
                      THEN [attached[o] EXCEPT !.engine = PausedState(@)]
                      ELSE attached[o]]
    /\ req' = [NoRequest EXCEPT !.pc = "all", !.todo = DataVolumes]
    /\ UNCHANGED <<entries, handover, device, volume, vthread, disk>>

(* driver_unload begins with DETACH_ALL. *)
Unload ==
    /\ phase = "up" /\ req.pc = "idle"
    /\ phase' = "unloading"
    /\ req' = [NoRequest EXCEPT !.pc = "all", !.todo = DataVolumes]
    /\ UNCHANGED <<session, disk>>

(* One volume of the loop, with its filter deleted.  Whether the lock      *)
(* succeeds makes no difference.                                           *)
DetachAllNext ==
    \E v \in req.todo :
        /\ req.pc = "all"
        /\ entries' = [entries EXCEPT ![App(v)] = NoVolume]
        /\ DetachFilter(v)
        /\ req' = [req EXCEPT !.todo = @ \ {v}]
        /\ ObjectsWith(NoVolume, NoVolume)
        /\ UNCHANGED <<handover, phase, disk>>

(* Mutant: only a completely encrypted volume counts. *)
HasCompleteOsVolume ==
    \E o \in Registered : IsOsVolume(o) /\ attached[o].boundary = N

HasEncryptedOsVolume ==
    \E o \in Registered : IsOsVolume(o) /\ HasEncryptedData(o)

DetachAllEnds ==
    /\ req.pc = "all" /\ req.todo = {}
    /\ req' = NoRequest
    /\ phase' = CASE phase = "shutdown"    -> "shutdown"
                  [] HasEncryptedOsVolume  -> "bugcheck"
                  [] OTHER                 -> "unloaded"
    /\ UNCHANGED <<session, disk>>

(* The machine starts, after a shutdown or a power loss.  DriverEntry      *)
(* takes the handover, which the loader publishes once it has read         *)
(* vck.json; without the loader there is none, and an encrypted OS volume  *)
(* does not start (LoaderHook).  add_device attaches the filters.          *)
Reboot ==
    /\ entries' = [k \in Keys |-> NoVolume]
    /\ handover' \in {h \in BOOLEAN : /\ h => vckJson
                                      /\ offset[OsVolume] > 0 => h}
    /\ device' = [v \in Volumes |->
                    IF v \in AddDeviceVolumes THEN "live" ELSE "none"]
    /\ volume' = [v \in Volumes |-> NoVolume]
    /\ vthread' = [v \in Volumes |-> FALSE]
    /\ attached' = [o \in {} |-> NoVolume]
    /\ req' = NoRequest
    /\ phase' = "up"
    /\ UNCHANGED disk

(* START_DEVICE has completed below the filter: try_mount_handover_volume  *)
(* binds the OS volume under its NT name, with its sweep resumed.  Any     *)
(* other volume, a filter that is bound and a failed on_attach change      *)
(* nothing.                                                                *)
StartDevice(v) ==
    /\ phase = "up" /\ handover /\ v = OsVolume
    /\ device[v] = "live" /\ volume[v] = NoVolume
    /\ meta[v]
    /\ entries' = [entries EXCEPT ![Nt(v)] = FreshObject(v)]
    /\ Bind(v, FreshObject(v), TRUE)
    /\ UNCHANGED req
    /\ ObjectsWith(FreshObject(v), Complete(v, "Handover",
                                         StateTowards(dir[v], offset[v]), FALSE))
    /\ UNCHANGED <<handover, device, phase, disk>>

-----------------------------------------------------------------------------
PrepareSteps ==
    \/ \E v \in Volumes, block, vmk \in BOOLEAN : Prepare(v, block, vmk)
    \/ PrepareFails \/ PrepareBinds \/ PrepareAttachesFilter
    \/ PrepareWrites \/ PrepareWriteFails
    \/ \E stray \in BOOLEAN : PrepareOpens(stray)
    \/ PrepareOpenFails

DetachSteps ==
    \/ \E v \in Volumes : Detach(v)
    \/ DetachRemoves \/ DetachLockFails \/ DetachUnbinds

Next ==
    \/ PrepareSteps
    \/ DetachSteps
    \/ \E v \in Volumes, stray \in BOOLEAN : Attach(v, stray)
    \/ \E v \in Volumes : Pause(v) \/ SweepBatch(v) \/ StartDevice(v)
    \/ \E v \in Volumes, d \in VolumeState : StartSweep(v, d)
    \/ Shutdown \/ Unload \/ DetachAllNext \/ DetachAllEnds
    \/ Reboot

Spec == Init /\ [][Next]_vars

-----------------------------------------------------------------------------
(***************************************************************************)
(* Properties.                                                             *)
(***************************************************************************)

(* Between requests the registry and the filters agree: an entry's volume  *)
(* is the one its live filter is bound to, a volume with a cipher has its  *)
(* thread, and whoever is bound is registered, so that status, pause,      *)
(* detach and the protection of the OS volume see it.  PREPARE, its        *)
(* failures, ATTACH, DETACH, DETACH_ALL and the handover mount all edit    *)
(* both sides.  The one volume that is bound and not registered is one     *)
(* whose filter_device DETACH has swapped out before the lock failed.      *)
RegistryMatchesFilters ==
    req.pc = "idle" =>
        /\ \A o \in Registered : /\ attached[o].filter
                                 /\ volume[attached[o].vol] = o
                                 /\ device[attached[o].vol] = "live"
        /\ \A v \in Volumes : volume[v] # NoVolume =>
               /\ attached[volume[v]].cipher => vthread[v]
               /\ volume[v] \in Registered \/ ~attached[volume[v]].filter

(* A request that names a volume by the application's path reaches the     *)
(* object its filter serves, although the OS volume of a later boot is     *)
(* registered under another key (resolve_volume).                          *)
ResolveFindsBound ==
    req.pc = "idle" =>
        \A o \in Registered : ResolveVolume(attached[o].vol) = o

(* PREPARE never takes a filter from a volume that is registered, under    *)
(* either key: the filter it is about to bind has no volume, as            *)
(* filter_bind_volume asks, or one that a DETACH has given up.             *)
BindsOnlyUnbound ==
    req.pc \in {"add", "fallback"} =>
        volume[req.vol] = NoVolume \/ ~attached[volume[req.vol]].filter

(* The filter find_filter_for_volume hands to PREPARE is attached: the PDO *)
(* map "is reliable".                                                      *)
FoundFilterIsLive ==
    req.pc = "add" => device[req.vol] = "live"

(* has_encrypted_os_volume: with an encrypted OS volume in the registry    *)
(* "the driver must not unload"; driver_unload stops the machine instead.  *)
(* The test is of the boundary in memory and of how the volume was         *)
(* attached; what counts is the boundary on disk.  The test misses one     *)
(* volume: the one that DETACH took out of the registry while its          *)
(* encryption had not got anywhere yet, and then could not lock.           *)
EncryptedOsVolumeStaysLoaded ==
    [][ phase # "unloaded" /\ phase' = "unloaded" =>
            \/ volume[OsVolume] = NoVolume \/ offset[OsVolume] = 0
            \/ ~attached[volume[OsVolume]].filter /\ dir[OsVolume] = "Encrypt"
      ]_vars

(* The volume is read and written with the key it is encrypted with. *)
Served(v) ==
    /\ volume[v] # NoVolume /\ HasStore(volume[v])
    /\ vthread[v] /\ device[v] = "live"

(* While a volume has encrypted sectors its filter never goes back to      *)
(* serving it without the cipher.  Three things end it: a restart;         *)
(* DETACH_ALL, for a data volume; a request for this very volume when      *)
(* DETACH has taken it out of the registry.  DETACH refuses an encrypted   *)
(* OS volume, but its test comes before the removal: the last case remains *)
(* for the OS volume while it is being encrypted, and only then.           *)
EncryptedStaysServed ==
    [][ Reboot \/ \A v \in Volumes :
            Served(v) /\ offset[v] > 0
                => \/ Served(v)'
                   \/ v # OsVolume /\ req.pc = "all"
                   \/ /\ req.vol = v /\ volume[v] \notin Registered
                      /\ v = OsVolume => dir[v] = "Encrypt"
      ]_vars

=============================================================================
