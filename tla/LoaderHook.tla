----------------------------- MODULE LoaderHook -----------------------------
(***************************************************************************)
(* The way of an OS volume from power-on to the bound volume filter.       *)
(*                                                                         *)
(* The boot loader (sample/loader) reads vck.json, opens the metadata of   *)
(* the OS volume, hooks the Block I/O protocol of its partition with the   *)
(* boundary it found, publishes the handover and chainloads the OS loader, *)
(* which reads and writes the volume through the hook.  The driver reads   *)
(* the handover once in DriverEntry and binds the filter when the volume's *)
(* device starts, with the boundary it recovers itself.  From then on the  *)
(* sweep moves the boundary, and a power loss can come at every step.      *)
(*                                                                         *)
(* The OS volume has footer replicas only, so data sector s is raw sector  *)
(* s; JvckLayout has the places, VolumeSweep the sweep in detail.  Here a  *)
(* batch is one sector, and only writes in progress are cut by a crash.    *)
(***************************************************************************)
EXTENDS Integers, Sequences, FiniteSets

CONSTANTS
    N,            \* data sectors of the OS volume
    Replicas,     \* footer replicas
    Values,       \* what a sector can hold
    Garbled,      \* what a sector shows when the wrong layer is applied
    MaxCrashes,   \* bound: power losses
    MaxFailures   \* bound: calls of the firmware or the kernel that fail

ASSUME HookAssumption ==
    /\ {N, Replicas} \subseteq Nat \ {0}
    /\ {MaxCrashes, MaxFailures} \subseteq Nat
    /\ Garbled \notin Values

VARIABLES
    medium,    \* raw data sectors: the value and whether it is ciphertext
    replica,   \* the encrypted_offset of each replica, or Invalid
    phase,     \* how far the machine has come
    held,      \* the loader's store has the Block I/O protocol open
    found,     \* the boundary the loader's store recovered
    hook,      \* the boundary of the installed hook, or NoHook
    payload,   \* the handover buffer of this boot
    handover,  \* the driver has a decoded payload in its registry
    drv,       \* the boundary of the bound volume, or Unbound
    batch,     \* replicas still to be written, and the boundary going there
    content,   \* what the file system has written
    lost,      \* sectors a power loss left in another form than recorded
    crashes, failures,
    failed     \* a call failed since power-on

boot  == <<phase, held, found, hook, payload, handover, drv, failed>>
disk  == <<medium, replica>>
vars  == <<disk, boot, batch, content, lost, crashes, failures>>

Sectors == 0 .. N - 1
Invalid == -1
NoHook  == -1
Unbound == -1
NoBatch == [todo |-> {}, to |-> -1]

(***************************************************************************)
(* Opening the metadata, in the loader and in the driver alike.            *)
(***************************************************************************)

(* JvckMetadataReader::open and into_store: footer layouts are found by    *)
(* the last replica.                                                       *)
opens == replica[Replicas] # Invalid

(* load_offset: the largest offset of the valid replicas.                  *)
load_offset ==
    CHOOSE o \in {replica[i] : i \in DOMAIN replica} :
        \A i \in DOMAIN replica : replica[i] <= o

(* Mutant: the boundary itself counts as encrypted. *)
HookedInclusive(s) == hook # NoHook /\ s < N /\ s <= hook

(* EncryptedOffset::is_encrypted, under the bounds of decrypt_after_read   *)
(* and encrypt_before_write.                                               *)
hooked(s) == hook # NoHook /\ s < N /\ s < hook

(* crypto_range of the bound volume.                                       *)
bound_encrypts(s) == drv # Unbound /\ s < drv

(* The form in which a write reaches the medium, and the value a read      *)
(* returns, through the layer that is in force.                            *)
Layered(s) == IF phase = "osloader" THEN hooked(s) ELSE bound_encrypts(s)

Seen(s) == IF Layered(s) = medium[s].enc THEN medium[s].val ELSE Garbled

(* A file system is found only when its boot sector is seen as plaintext.  *)
Mountable == Seen(0) # Garbled

Init ==
    /\ content \in [Sectors -> Values]
    /\ medium = [s \in Sectors |-> [val |-> content[s], enc |-> FALSE]]
    /\ replica = [i \in 1 .. Replicas |-> Invalid]
    /\ phase = "off"
    /\ held = FALSE /\ found = 0 /\ hook = NoHook
    /\ payload = "none" /\ handover = FALSE /\ drv = Unbound
    /\ batch = NoBatch
    /\ lost = {}
    /\ crashes = 0 /\ failures = 0 /\ failed = FALSE

Fail ==
    /\ failures < MaxFailures
    /\ failures' = failures + 1
    /\ failed' = TRUE

(***************************************************************************)
(* The loader: run and install_decrypt_hook.                               *)
(***************************************************************************)
PowerOn ==
    /\ phase = "off"
    /\ phase' = "config"
    /\ UNCHANGED <<disk, held, found, hook, payload, handover, drv, failed,
                   batch, content, lost, crashes, failures>>

(* load_from_esp and osloader_device_path.                                 *)
LoadConfig ==
    /\ phase = "config"
    /\ phase' = "open"
    /\ UNCHANGED <<disk, held, found, hook, payload, handover, drv, failed,
                   batch, content, lost, crashes, failures>>

(* Mutant: what the store recovered is not looked at. *)
OpenVolumeUnchecked ==
    /\ phase = "open"
    /\ held' = TRUE /\ found' = load_offset /\ phase' = "drop"
    /\ UNCHANGED <<disk, hook, payload, handover, drv, failed, batch, content,
                   lost, crashes, failures>>

(* locate_block_io_volume, reader, store, load_offset.  The store keeps    *)
(* the protocol open exclusively.  Metadata that does not open skips the   *)
(* hook.                                                                   *)
OpenVolume ==
    /\ phase = "open"
    /\ IF opens
         THEN held' = TRUE /\ found' = load_offset /\ phase' = "drop"
         ELSE phase' = "publish" /\ UNCHANGED <<held, found>>
    /\ UNCHANGED <<disk, hook, payload, handover, drv, failed, batch, content,
                   lost, crashes, failures>>

(* Mutant: the store lives to the end of the function. *)
KeepStore ==
    /\ phase = "drop"
    /\ phase' = "install"
    /\ UNCHANGED <<disk, held, found, hook, payload, handover, drv, failed,
                   batch, content, lost, crashes, failures>>

DropStore ==
    /\ phase = "drop"
    /\ held' = FALSE
    /\ phase' = "install"
    /\ UNCHANGED <<disk, found, hook, payload, handover, drv, failed, batch,
                   content, lost, crashes, failures>>

(* engine.install: its exclusive open of the protocol is refused while     *)
(* another one is held.                                                    *)
InstallHook ==
    /\ phase = "install"
    /\ hook' = IF held THEN NoHook ELSE found
    /\ phase' = "publish"
    /\ UNCHANGED <<disk, held, found, payload, handover, drv, failed, batch,
                   content, lost, crashes, failures>>

(* Any error of install_decrypt_hook is logged and the boot goes on.       *)
HookFails ==
    /\ phase \in {"open", "install"}
    /\ Fail
    /\ held' = FALSE
    /\ phase' = "publish"
    /\ UNCHANGED <<disk, found, hook, payload, handover, drv, batch, content,
                   lost, crashes>>

install_handover ==
    /\ phase = "publish"
    /\ payload' = "published"
    /\ phase' = "chainload"
    /\ UNCHANGED <<disk, held, found, hook, handover, drv, failed, batch,
                   content, lost, crashes, failures>>

chainload_next ==
    /\ phase = "chainload"
    /\ phase' = "osloader"
    /\ UNCHANGED <<disk, held, found, hook, payload, handover, drv, failed,
                   batch, content, lost, crashes, failures>>

(* An error of load_from_esp, install_handover or chainload_next ends the  *)
(* boot with LOAD_ERROR.                                                   *)
LoaderFails ==
    /\ phase \in {"config", "publish", "chainload"}
    /\ Fail
    /\ phase' = "stopped"
    /\ UNCHANGED <<disk, held, found, hook, payload, handover, drv, batch,
                   content, lost, crashes>>

(* A sector that a crash left in doubt is sound again once it is written   *)
(* in the form that the next open expects.                                 *)
WrittenAsMetadataSays(s) == opens => Layered(s) = (s < load_offset)

(***************************************************************************)
(* Reads and writes of the volume: by the OS loader through                *)
(* hooked_write_blocks, by the file system through the volume filter.      *)
(***************************************************************************)
(* Mutant: the OS loader's writes are not encrypted. *)
WriteUnhooked(s, v) ==
    /\ phase \in {"osloader", "up"}
    /\ batch = NoBatch
    /\ Mountable
    /\ medium' = [medium EXCEPT ![s] =
                     [val |-> v, enc |-> phase = "up" /\ Layered(s)]]
    /\ content' = [content EXCEPT ![s] = v]
    /\ lost' = IF WrittenAsMetadataSays(s) THEN lost \ {s} ELSE lost
    /\ UNCHANGED <<replica, boot, batch, crashes, failures>>

Write(s, v) ==
    /\ phase \in {"osloader", "up"}
    /\ batch = NoBatch
    /\ Mountable
    /\ medium' = [medium EXCEPT ![s] = [val |-> v, enc |-> Layered(s)]]
    /\ content' = [content EXCEPT ![s] = v]
    /\ lost' = IF WrittenAsMetadataSays(s) THEN lost \ {s} ELSE lost
    /\ UNCHANGED <<replica, boot, batch, crashes, failures>>

(***************************************************************************)
(* The driver.                                                             *)
(***************************************************************************)

(* Without a boot sector the OS loader finds no system to start.           *)
NoSystem ==
    /\ phase = "osloader" /\ ~Mountable
    /\ phase' = "stopped"
    /\ UNCHANGED <<disk, held, found, hook, payload, handover, drv, failed,
                   batch, content, lost, crashes, failures>>

(* The OS loader starts the kernel, whose boot services are gone, and      *)
(* DriverEntry calls read_handover, which zeroizes the buffer.             *)
DriverEntry ==
    /\ phase = "osloader" /\ Mountable
    /\ phase' = "start"
    /\ \/ /\ handover' = (payload = "published")
          /\ payload' = "zeroized"
          /\ UNCHANGED <<failed, failures>>
       \/ /\ Fail
          /\ UNCHANGED <<handover, payload>>
    /\ UNCHANGED <<disk, held, found, hook, drv, batch, content, lost, crashes>>

(* Mutant: the driver takes the offset of the last replica. *)
StartFromLastReplica ==
    /\ phase = "start"
    /\ \/ /\ drv' = IF handover /\ opens THEN replica[Replicas] ELSE Unbound
          /\ UNCHANGED <<failed, failures>>
       \/ /\ Fail
          /\ UNCHANGED drv
    /\ phase' = "mount"
    /\ UNCHANGED <<disk, held, found, hook, payload, handover, batch, content,
                   lost, crashes>>

(* on_start_device_completed: try_mount_handover_volume, best effort.      *)
StartDevice ==
    /\ phase = "start"
    /\ \/ /\ drv' = IF handover /\ opens THEN load_offset ELSE Unbound
          /\ UNCHANGED <<failed, failures>>
       \/ /\ Fail
          /\ UNCHANGED drv
    /\ phase' = "mount"
    /\ UNCHANGED <<disk, held, found, hook, payload, handover, batch, content,
                   lost, crashes>>

(* The file system mounts the boot volume, or the system stops.            *)
MountSystem ==
    /\ phase = "mount"
    /\ phase' = IF Mountable THEN "up" ELSE "stopped"
    /\ UNCHANGED <<disk, held, found, hook, payload, handover, drv, failed,
                   batch, content, lost, crashes, failures>>

(* PREPARE of a volume without metadata: seed metadata, offset 0.          *)
Prepare ==
    /\ phase = "up" /\ batch = NoBatch /\ drv = Unbound
    /\ ~opens
    /\ \A s \in Sectors : ~medium[s].enc
    /\ batch' = [todo |-> 1 .. Replicas, to |-> 0]
    /\ UNCHANGED <<disk, boot, content, lost, crashes, failures>>

(* Mutant: the batch runs one sector past its end. *)
SweepInclusive(to) ==
    /\ phase = "up" /\ batch = NoBatch /\ drv # Unbound
    /\ to \in {drv - 1, drv + 1} \cap 0 .. N
    /\ medium' = [s \in Sectors |->
                     IF s \in {to, drv} THEN [val |-> Seen(s), enc |-> to > drv]
                                        ELSE medium[s]]
    /\ batch' = [todo |-> 1 .. Replicas, to |-> to]
    /\ UNCHANGED <<replica, boot, content, lost, crashes, failures>>

(* A batch of the sweep writes its sector in the other form; write_batch   *)
(* then moves the boundary and stores it to every replica.                 *)
Sweep(to) ==
    /\ phase = "up" /\ batch = NoBatch /\ drv # Unbound
    /\ to \in {drv - 1, drv + 1} \cap 0 .. N
    /\ LET s == IF to > drv THEN drv ELSE to
       IN  /\ medium' = [medium EXCEPT ![s].enc = ~@,
                                       ![s].val = Seen(s)]
           /\ batch' = [todo |-> 1 .. Replicas, to |-> to]
    /\ UNCHANGED <<replica, boot, content, lost, crashes, failures>>

(* write_all_replicas, in order; the boundary is in force at the end.      *)
WriteReplica ==
    /\ batch.todo # {}
    /\ LET i == CHOOSE k \in batch.todo : \A j \in batch.todo : k <= j
       IN  /\ replica' = [replica EXCEPT ![i] = batch.to]
           /\ batch' = [batch EXCEPT !.todo = @ \ {i}]
    /\ UNCHANGED <<medium, boot, content, lost, crashes, failures>>

BatchDone ==
    /\ batch # NoBatch /\ batch.todo = {}
    /\ drv' = batch.to
    /\ batch' = NoBatch
    /\ UNCHANGED <<disk, phase, held, found, hook, payload, handover, failed,
                   content, lost, crashes, failures>>

(***************************************************************************)
(* The end of a session.                                                   *)
(***************************************************************************)
Volatile ==
    /\ phase' = "off"
    /\ held' = FALSE /\ found' = 0 /\ hook' = NoHook
    /\ payload' = "none" /\ handover' = FALSE /\ drv' = Unbound
    /\ failed' = FALSE

(* A shutdown, or the operator restarting a machine that did not boot.     *)
Restart ==
    /\ phase \in {"up", "stopped"} /\ batch = NoBatch
    /\ Volatile
    /\ UNCHANGED <<disk, batch, content, lost, crashes, failures>>

(* The sectors that are not in the form the metadata gives them.           *)
InDoubt ==
    IF opens THEN {s \in Sectors : medium[s].enc # (s < load_offset)} ELSE {}

(* A power loss: the replica being written may be torn.  What the next     *)
(* open then takes for the wrong form counts as lost until it is written   *)
(* again.                                                                  *)
Crash ==
    /\ phase # "off"
    /\ crashes < MaxCrashes
    /\ crashes' = crashes + 1
    /\ \/ UNCHANGED replica
       \/ \E i \in batch.todo : /\ \A j \in batch.todo : i <= j
                                /\ replica' = [replica EXCEPT ![i] = Invalid]
    /\ batch' = NoBatch
    /\ Volatile
    /\ UNCHANGED <<medium, content, failures>>
    /\ lost' = lost \cup InDoubt'

Next ==
    \/ PowerOn \/ LoadConfig \/ OpenVolume \/ DropStore \/ InstallHook
    \/ HookFails \/ install_handover \/ chainload_next \/ LoaderFails
    \/ \E s \in Sectors, v \in Values : Write(s, v)
    \/ NoSystem \/ DriverEntry \/ StartDevice \/ MountSystem
    \/ Prepare \/ WriteReplica \/ BatchDone
    \/ \E to \in 0 .. N : Sweep(to)
    \/ Restart \/ Crash

Fairness ==
    WF_vars(PowerOn \/ LoadConfig \/ OpenVolume \/ DropStore \/ InstallHook
            \/ install_handover \/ chainload_next \/ DriverEntry \/ StartDevice
            \/ MountSystem \/ NoSystem)

Spec == Init /\ [][Next]_vars /\ Fairness

(***************************************************************************)
(* Properties.                                                             *)
(***************************************************************************)
TypeOK ==
    /\ medium \in [Sectors -> [val : Values \cup {Garbled}, enc : BOOLEAN]]
    /\ replica \in [1 .. Replicas -> Invalid .. N]
    /\ phase \in {"off", "config", "open", "drop", "install", "publish",
                  "chainload", "osloader", "start", "mount", "up", "stopped"}
    /\ found \in 0 .. N
    /\ hook \in NoHook .. N /\ drv \in Unbound .. N
    /\ payload \in {"none", "published", "zeroized"}
    /\ {held, handover, failed} \subseteq BOOLEAN
    /\ batch.todo \subseteq 1 .. Replicas /\ batch.to \in -1 .. N
    /\ content \in [Sectors -> Values]
    /\ lost \subseteq Sectors
    /\ crashes \in 0 .. MaxCrashes /\ failures \in 0 .. MaxFailures

(* Whoever gets as far as a file system on the volume, the OS loader       *)
(* through the hook or Windows through the filter, sees what was last      *)
(* written, whichever of the two wrote it; also when the hook or the bind  *)
(* was skipped for an error, because sector 0 is then ciphertext and       *)
(* nothing is mounted.  Sectors lost to a power loss are excepted.         *)
BootTransparent ==
    phase \in {"osloader", "up"} /\ batch = NoBatch /\ Mountable =>
        \A s \in Sectors \ lost : Seen(s) = content[s]

(* What the next boot recovers describes the medium: no write of the OS    *)
(* loader, of the file system or of a batch leaves a sector in another     *)
(* form than the metadata says.                                            *)
DiskMatchesMetadata == batch = NoBatch => InDoubt \subseteq lost

(* Power losses cost no more sectors than there were power losses, however *)
(* far they leave the replicas apart: a crash that loses nothing can leave *)
(* the last replica behind the others, and a later one, that tears those,  *)
(* then loses for both.                                                    *)
OneSectorPerCrash == Cardinality(lost) <= crashes

(* The driver binds the volume with the boundary the loader's hook had:    *)
(* what the OS loader wrote through the hook is read with the same layer.  *)
LoaderDriverAgree ==
    [][phase = "start" /\ drv' # Unbound /\ hook # NoHook => drv' = hook]_vars

(* When the metadata opens, the boot sector was not lost to a power loss,  *)
(* and no call fails, the machine comes up with the volume bound.          *)
EncryptedBoots ==
    (phase = "config" /\ opens /\ ~failed /\ 0 \notin lost)
        ~> (phase = "up" /\ drv # Unbound) \/ failed \/ phase = "off"

=============================================================================
