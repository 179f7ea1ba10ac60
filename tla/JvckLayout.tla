----------------------------- MODULE JvckLayout -----------------------------
(***************************************************************************)
(* Where everything lives on a JVCK volume, and who computes it.           *)
(*                                                                         *)
(* The raw volume holds, from sector 0: the header replicas, the data      *)
(* region the file system is given, the footer replicas.  A replica is a   *)
(* region of replica_sectors sectors: one Metadata block (the first sector *)
(* of a header replica, the last of a footer replica) and vendor data.     *)
(* Four pieces of code compute these places on their own: the store        *)
(* (store.rs), the driver's PREPARE (dispatch.rs), the SDK (jvck.go), and  *)
(* the filter, which moves and bounds the requests of the file system      *)
(* (filter/io.rs).  The tool that reserves the tail counts in bytes, the   *)
(* others in sectors.                                                      *)
(*                                                                         *)
(* A sector holds a tagged value, so that a write to a wrong place shows.  *)
(* Encryption is left out (VolumeSweep has it): the volume is plaintext    *)
(* throughout.  A Metadata block keeps what this module tells apart: the   *)
(* layout and the vendor_reserved field of its header.                     *)
(***************************************************************************)
EXTENDS Integers, Sequences

CONSTANTS
    VolumeSectors,      \* sectors of the raw volume
    SectorSize,         \* bytes in a sector (a small unit here)
    Layouts,            \* the layouts an operator may ask for
    Values,             \* what a file, vendor or reserved sector can say
    Blank,              \* the value of a sector nobody has written
    MaxRequest,         \* sectors of the longest file system request
    MaxCrashes,         \* bound: power losses
    EnsureAfterPrepare  \* EnsureJvckMetadata is called on a bound volume

ASSUME LayoutAssumption ==
    /\ {VolumeSectors, SectorSize, MaxRequest} \subseteq Nat \ {0}
    /\ MaxCrashes \in Nat
    /\ EnsureAfterPrepare \in BOOLEAN
    /\ Layouts \subseteq
         [use_header : Nat, use_footer : Nat, metadata_size : Nat]
    /\ Blank \in Values

VARIABLES
    disk,     \* the raw sectors
    files,    \* what the file system has written, by its own sector number
    mounted,  \* a file system is mounted on the volume
    bound,    \* the filter is bound: size hiding and shifting are active
    geometry, \* offset_sector and data_sectors of the bound AttachedVolume
    store,    \* the open JvckMetadataStore: its layout and vendor_reserved
    made,     \* the layout the operator's first-time prepare asked for
    task,     \* the operation in progress and the writes it still has to do
    vend,     \* what was last written to sector r of replica i's vendor data
    told,     \* the vendor_reserved values the next open may report
    crashes

vars == <<disk, files, mounted, bound, geometry, store, made, task, vend,
          told, crashes>>

Sectors == 0 .. VolumeSectors - 1

(***************************************************************************)
(* What a sector holds.                                                    *)
(***************************************************************************)
File(s, v)     == <<"file", s, v>>
Vendor(v)      == <<"vendor", v>>
Metadata(l, r) == <<"metadata", l, r>>
Torn           == <<"torn">>
Junk           == <<"junk">>

(* verify_crc: the block is a Metadata block written to its end.           *)
verify_crc(sector) == sector[1] = "metadata"

(***************************************************************************)
(* store.rs: the places as the store computes them.                        *)
(***************************************************************************)
replica_sectors(l) == l.metadata_size \div SectorSize

replica_count(l) == l.use_header + l.use_footer

(* The Metadata sector of every replica, header replicas first.            *)
metadata_sector_lbas(v, l) ==
    LET rs == replica_sectors(l)
        footer_start == v - l.use_footer * rs
    IN  [k \in 1 .. replica_count(l) |->
            IF k <= l.use_header
              THEN (k - 1) * rs
              ELSE footer_start + (k - l.use_header - 1) * rs + rs - 1]

(* Mutant: the Metadata sector of a header replica is not skipped. *)
VendorBaseOnMetadata(v, l, i) ==
    LET rs == replica_sectors(l)
    IN  IF i < l.use_header
          THEN i * rs
          ELSE v - l.use_footer * rs + (i - l.use_header) * rs

(* First vendor sector of replica i, counted from 0.                       *)
vendor_data_base_lba_at(v, l, i) ==
    LET rs == replica_sectors(l)
    IN  IF i < l.use_header
          THEN i * rs + 1
          ELSE v - l.use_footer * rs + (i - l.use_header) * rs

vendor_data_sector_count(l) ==
    IF replica_sectors(l) = 0 THEN 0 ELSE replica_sectors(l) - 1

compute_geometry(v, l) ==
    LET rs == replica_sectors(l)
    IN  [offset_sector |-> l.use_header * rs,
         data_sectors  |-> v - replica_count(l) * rs]

compute_geometry_ok(v, l) ==
    /\ replica_sectors(l) > 0
    /\ replica_count(l) * replica_sectors(l) < v

(* The range check in front of every access to vendor data.                *)
vendor_data_lba_checked(l, i, rel, n) ==
    /\ i < replica_count(l)
    /\ rel + n <= vendor_data_sector_count(l)

(***************************************************************************)
(* dispatch.rs: PREPARE's own computation, on the partition's full size.   *)
(***************************************************************************)
prepare_geometry(l) ==
    LET rs == l.metadata_size \div SectorSize
        hidden == l.use_header * rs + l.use_footer * rs
    IN  [offset_sector |-> l.use_header * rs,
         data_sectors  |-> IF hidden > VolumeSectors
                             THEN 0 ELSE VolumeSectors - hidden]

(* Mutant: one sector too far. *)
ReplicaLbasPastEnd(l) ==
    LET rs == l.metadata_size \div SectorSize
    IN  [k \in 1 .. l.use_header + l.use_footer |->
            IF k <= l.use_header
              THEN (k - 1) * rs
              ELSE (VolumeSectors - l.use_footer * rs)
                     + (k - 1 - l.use_header) * rs + rs]

replica_lbas(l) ==
    LET rs == l.metadata_size \div SectorSize
    IN  [k \in 1 .. l.use_header + l.use_footer |->
            IF k <= l.use_header
              THEN (k - 1) * rs
              ELSE (VolumeSectors - l.use_footer * rs)
                     + (k - 1 - l.use_header) * rs + rs - 1]

(***************************************************************************)
(* jvck.go, volume_windows.go, attach.go: the SDK and the tool.            *)
(***************************************************************************)
(* Mutant: the first sector of a footer replica. *)
FooterFirstLBAs(v, l) ==
    LET rs == l.metadata_size \div SectorSize
    IN  [i \in 1 .. l.use_header |-> (i - 1) * rs]
          \o [j \in 1 .. l.use_footer |->
                (v - l.use_footer * rs) + (j - 1) * rs]

metadataSectorLBAs(v, l) ==
    LET rs == l.metadata_size \div SectorSize
    IN  [i \in 1 .. l.use_header |-> (i - 1) * rs]
          \o [j \in 1 .. l.use_footer |->
                (v - l.use_footer * rs) + (j - 1) * rs + rs - 1]

(* Mutant: room for one replica. *)
TargetForOneReplica(l) ==
    (VolumeSectors * SectorSize - l.metadata_size) \div SectorSize

(* The tail is reserved in bytes: use_footer * metadata_size of them.      *)
targetSectors(l) ==
    (VolumeSectors * SectorSize - l.use_footer * l.metadata_size)
      \div SectorSize

(***************************************************************************)
(* filter/io.rs: what the filter makes of a request of the file system.    *)
(***************************************************************************)
offset == IF bound THEN geometry.offset_sector ELSE 0

(* Mutant: the data region starts at sector 0. *)
NoShift(s) == s

shift_offset(s) == s + offset

is_metadata_sector(lba) ==
    bound /\ ~(lba - offset \in 0 .. geometry.data_sectors - 1)

(* The answer to IOCTL_DISK_GET_LENGTH_INFO and its kin, in sectors.       *)
reported_sectors == IF bound THEN geometry.data_sectors ELSE VolumeSectors

(* The SDK's probe, on the last sector of the length it is told.           *)
HasJvckMetadata == verify_crc(disk[shift_offset(reported_sectors - 1)])

(***************************************************************************)
(* Operations in progress.  `todo' is a sequence of writes, each of a set  *)
(* of consecutive sectors; `replica' and `rels' say which vendor sectors   *)
(* they are.                                                               *)
(***************************************************************************)
NoLayout == [use_header |-> 0, use_footer |-> 0, metadata_size |-> 0]
NoStore  == [open |-> FALSE, layout |-> NoLayout, reserved |-> Blank]
Idle     == [op |-> "idle", layout |-> NoLayout, todo |-> <<>>]

BlockWrites(lbas, block) ==
    [k \in DOMAIN lbas |->
        [at |-> {lbas[k]}, put |-> block, replica |-> 0, rels |-> {}]]

VendorWrite(l, i, rel, n, v) ==
    LET base == vendor_data_base_lba_at(VolumeSectors, l, i)
    IN  [at |-> base + rel .. base + rel + n - 1, put |-> Vendor(v),
         replica |-> i, rels |-> rel .. rel + n - 1]

(* Mutant: the first replica only. *)
WriteFirstReplica(l, r) ==
    SubSeq(BlockWrites(metadata_sector_lbas(VolumeSectors, l), Metadata(l, r)),
           1, 1)

(* write_all_replicas: the header of the store, to every replica in turn.  *)
write_all_replicas(l, r) ==
    BlockWrites(metadata_sector_lbas(VolumeSectors, l), Metadata(l, r))

Put(lbas, sector) ==
    [s \in Sectors |-> IF s \in lbas THEN sector ELSE disk[s]]

FileSystemSize == IF files = <<>> THEN 0 ELSE 1 + CHOOSE s \in DOMAIN files :
                                                 s + 1 \notin DOMAIN files

NoVendorData == [i \in {} |-> 0]

Init ==
    /\ disk \in {[s \in Sectors |-> File(s, Blank)], [s \in Sectors |-> Junk]}
    /\ files = IF disk[0] = Junk THEN <<>> ELSE [s \in Sectors |-> Blank]
    /\ mounted = (files # <<>>)
    /\ bound = FALSE
    /\ geometry = [offset_sector |-> 0, data_sectors |-> 0]
    /\ store = NoStore
    /\ made = NoLayout
    /\ task = Idle
    /\ vend = NoVendorData
    /\ told = {Blank}
    /\ crashes = 0

(***************************************************************************)
(* The file system.                                                        *)
(***************************************************************************)

(* ShrinkVolumeTail, of the file system mounted on the raw volume.  `files'*)
(* is cut at the target; a file system already that small stays as it is.  *)
Shrink(l) ==
    /\ task = Idle /\ mounted /\ ~bound
    /\ l.use_header = 0
    /\ targetSectors(l) > 0
    /\ files' = [s \in DOMAIN files \cap (0 .. targetSectors(l) - 1) |->
                    files[s]]
    /\ UNCHANGED <<disk, mounted, bound, geometry, store, made, task, vend,
                   told, crashes>>

(* A mount succeeds when sector 0, seen through the filter, is on the      *)
(* volume and is the boot sector.                                          *)
Mount ==
    /\ ~mounted /\ files # <<>>
    /\ shift_offset(0) \in Sectors
    /\ disk[shift_offset(0)] = File(0, files[0])
    /\ mounted' = TRUE
    /\ UNCHANGED <<disk, files, bound, geometry, store, made, task, vend,
                   told, crashes>>

(* The raw volume after the file system has written v to its sectors       *)
(* `range'.                                                                *)
WriteThrough(range, v) ==
    [a \in Sectors |-> LET here == {s \in range : shift_offset(s) = a}
                       IN  IF here = {} THEN disk[a]
                           ELSE File(CHOOSE s \in here : TRUE, v)]

(* Formatting an attached volume, or extending its file system, to the     *)
(* size the volume reports.                                                *)
Grow ==
    /\ task = Idle /\ store.open
    /\ mounted \/ files = <<>>
    /\ reported_sectors > FileSystemSize
    /\ LET new == FileSystemSize .. reported_sectors - 1
       IN  /\ files' = [s \in 0 .. reported_sectors - 1 |->
                           IF s \in new THEN Blank ELSE files[s]]
           /\ disk' = WriteThrough(new, Blank)
    /\ mounted' = TRUE
    /\ UNCHANGED <<bound, geometry, store, made, task, vend, told, crashes>>

(* handle_filter_irp, IRP_MJ_WRITE of n sectors: shifted, refused when it  *)
(* starts outside the data region and comes from user mode, else passed    *)
(* on.                                                                     *)
FsWrite(first, n, v, user) ==
    /\ mounted
    /\ first + n <= FileSystemSize
    /\ ~(user /\ is_metadata_sector(shift_offset(first)))
    /\ LET range == first .. first + n - 1
       IN  /\ disk' = WriteThrough(range, v)
           /\ files' = [s \in DOMAIN files |->
                           IF s \in range THEN v ELSE files[s]]
    /\ UNCHANGED <<mounted, bound, geometry, store, made, task, vend, told,
                   crashes>>

(***************************************************************************)
(* First-time metadata: PREPARE with a block, or EnsureJvckMetadata.       *)
(***************************************************************************)

(* An existing file system is kept with footer replicas only ("existing    *)
(* partitions use 0" header replicas) and has been shrunk for the layout.  *)
(* A repeated attempt asks for the same layout.                            *)
Reserved(l) ==
    \/ l = made
    \/ /\ made = NoLayout
       /\ \/ files = <<>>
          \/ l.use_header = 0 /\ FileSystemSize <= targetSectors(l)

(* The prepare command: it refuses a layout without footer or with an      *)
(* empty replica, and has a block when the volume has none yet.  A layout  *)
(* larger than the volume is not sent: replica_lbas would wrap around.     *)
Prepare(l) ==
    /\ task = Idle /\ ~bound
    /\ l.use_footer > 0 /\ l.metadata_size > 0
    /\ ~HasJvckMetadata
    /\ Reserved(l)
    /\ replica_count(l) * replica_sectors(l) <= VolumeSectors
    /\ made' = l
    /\ told' = told \cup {Blank}
    /\ task' = [op |-> "prepare", layout |-> l,
                todo |-> BlockWrites(replica_lbas(l), Metadata(l, Blank))]
    /\ vend' = NoVendorData
    /\ UNCHANGED <<disk, files, mounted, bound, geometry, store, crashes>>

(* The attach command, or a prepare of a volume that has metadata: no      *)
(* block.  The flags may differ from what is on the volume, but not in the *)
(* header replicas.                                                        *)
Attach(l) ==
    /\ task = Idle /\ ~bound
    /\ made # NoLayout
    /\ l.use_header = made.use_header
    /\ task' = [op |-> "bind", layout |-> l, todo |-> <<>>]
    /\ UNCHANGED <<disk, files, mounted, bound, geometry, store, made, vend,
                   told, crashes>>

(* A PREPARE without a VMK stops at the provisional binding; the SDK's     *)
(* comments have the application write the metadata then.                  *)
PrepareOnly(l) ==
    /\ task = Idle /\ ~bound
    /\ Reserved(l) /\ compute_geometry_ok(VolumeSectors, l)
    /\ bound' = TRUE
    /\ geometry' = prepare_geometry(l)
    /\ UNCHANGED <<disk, files, mounted, store, made, task, vend, told, crashes>>

(* EnsureJvckMetadata: sizes come from the length the volume reports, and  *)
(* its writes go through the filter.                                       *)
EnsureJvckMetadata(l) ==
    /\ task = Idle /\ ~store.open
    /\ bound => EnsureAfterPrepare
    /\ replica_count(l) > 0
    /\ compute_geometry_ok(reported_sectors, l)
    /\ ~HasJvckMetadata
    /\ Reserved(l)
    /\ made' = l
    /\ told' = told \cup {Blank}
    /\ LET lbas == metadataSectorLBAs(reported_sectors, l)
       IN  task' = [op |-> "ensure", layout |-> l,
                    todo |-> BlockWrites(
                        [k \in DOMAIN lbas |-> shift_offset(lbas[k])],
                        Metadata(l, Blank))]
    /\ vend' = NoVendorData
    /\ UNCHANGED <<disk, files, mounted, bound, geometry, store, crashes>>

(* All replicas written: the provisional binding, from the request alone.  *)
BindProvisional ==
    /\ task.op \in {"prepare", "bind"} /\ task.todo = <<>>
    /\ told' = IF task.op = "prepare" THEN {Blank} ELSE told
    /\ bound' = TRUE
    /\ geometry' = prepare_geometry(task.layout)
    /\ task' = [task EXCEPT !.op = "open"]
    /\ UNCHANGED <<disk, files, mounted, store, made, vend, crashes>>

(* JvckMetadataReader::open over the lower device: the last sector, then   *)
(* sector 0.                                                               *)
ReaderLba ==
    IF verify_crc(disk[VolumeSectors - 1]) THEN VolumeSectors - 1 ELSE 0

open ==
    LET block == disk[ReaderLba]
    IN  [ok |-> verify_crc(block) /\ compute_geometry_ok(VolumeSectors, block[2]),
         layout |-> IF verify_crc(block) THEN block[2] ELSE NoLayout,
         reserved |-> IF verify_crc(block) THEN block[3] ELSE Blank]

(* on_attach: open and into_store, which needs one valid replica; then the *)
(* filter is bound again to the geometry of the store.  An error takes the *)
(* filter away.                                                            *)
OpenStore ==
    /\ task.op = "open"
    /\ task' = Idle
    /\ LET lbas == metadata_sector_lbas(VolumeSectors, open.layout)
           found == open.ok /\ \E k \in DOMAIN lbas : verify_crc(disk[lbas[k]])
       IN  IF found
             THEN /\ store' = [open |-> TRUE, layout |-> open.layout,
                               reserved |-> open.reserved]
                  /\ geometry' = compute_geometry(VolumeSectors, open.layout)
                  /\ UNCHANGED <<bound, mounted>>
             ELSE /\ bound' = FALSE
                  /\ mounted' = (mounted /\ geometry.offset_sector = 0)
                  /\ UNCHANGED <<store, geometry>>
    /\ UNCHANGED <<disk, files, made, vend, told, crashes>>

(***************************************************************************)
(* The open store.                                                         *)
(***************************************************************************)
StoreReady == store.open /\ task = Idle

(* store() and store_state(): a re-seal with the header as it is.          *)
Reseal ==
    /\ StoreReady
    /\ task' = [op |-> "seal", layout |-> store.layout,
                todo |-> write_all_replicas(store.layout, store.reserved)]
    /\ UNCHANGED <<disk, files, mounted, bound, geometry, store, made, vend,
                   told, crashes>>

set_vendor_reserved(r) ==
    /\ StoreReady
    /\ store' = [store EXCEPT !.reserved = r]
    /\ told' = told \cup {r}
    /\ task' = [op |-> "seal", layout |-> store.layout,
                todo |-> write_all_replicas(store.layout, r)]
    /\ UNCHANGED <<disk, files, mounted, bound, geometry, made, vend, crashes>>

(* write_vendor_data: one replica.                                         *)
write_vendor_data(i, rel, n, v) ==
    /\ StoreReady
    /\ vendor_data_lba_checked(store.layout, i, rel, n)
    /\ task' = [op |-> "vendor", layout |-> store.layout,
                todo |-> <<VendorWrite(store.layout, i, rel, n, v)>>]
    /\ UNCHANGED <<disk, files, mounted, bound, geometry, store, made, vend,
                   told, crashes>>

(* write_vendor_data_all: every replica in turn.                           *)
write_vendor_data_all(rel, n, v) ==
    /\ StoreReady
    /\ vendor_data_lba_checked(store.layout, 0, rel, n)
    /\ task' = [op |-> "vendor", layout |-> store.layout,
                todo |-> [k \in 1 .. replica_count(store.layout) |->
                             VendorWrite(store.layout, k - 1, rel, n, v)]]
    /\ UNCHANGED <<disk, files, mounted, bound, geometry, store, made, vend,
                   told, crashes>>

(***************************************************************************)
(* Progress of the operation in progress.                                  *)
(***************************************************************************)

(* The next write of the operation reaches the medium.                     *)
WriteNext ==
    /\ task.todo # <<>>
    /\ LET w == Head(task.todo)
           here == {<<w.replica, r>> : r \in w.rels}
       IN  /\ disk' = Put(w.at, w.put)
           /\ vend' = [p \in DOMAIN vend \cup here |->
                          IF p \in here THEN w.put[2] ELSE vend[p]]
    /\ task' = [task EXCEPT !.todo = Tail(@)]
    /\ UNCHANGED <<files, mounted, bound, geometry, store, made, told, crashes>>

(* The operation returns Ok: a re-seal that did is what later opens see.   *)
Finish ==
    /\ task.op \in {"seal", "vendor", "ensure"} /\ task.todo = <<>>
    /\ told' = CASE task.op = "seal"   -> {store.reserved}
                 [] task.op = "ensure" -> {Blank}
                 [] OTHER              -> told
    /\ task' = Idle
    /\ UNCHANGED <<disk, files, mounted, bound, geometry, store, made, vend,
                   crashes>>

(* The device fails a write: the operation returns its error, with the     *)
(* writes before it done.                                                  *)
WriteFails ==
    /\ task.todo # <<>>
    /\ task' = Idle
    /\ UNCHANGED <<disk, files, mounted, bound, geometry, store, made, vend,
                   told, crashes>>

(* DETACH: the file system is dismounted and the filter unbound.           *)
Detach ==
    /\ task = Idle /\ bound
    /\ bound' = FALSE /\ mounted' = FALSE
    /\ store' = NoStore
    /\ UNCHANGED <<disk, files, geometry, made, task, vend, told, crashes>>

(* A power loss: what is in memory is gone, and the sectors of the write   *)
(* under way are torn or as they were.                                     *)
Crash ==
    /\ crashes < MaxCrashes
    /\ crashes' = crashes + 1
    /\ \/ UNCHANGED <<disk, vend>>
       \/ /\ task.todo # <<>>
          /\ disk' = Put(Head(task.todo).at, Torn)
          /\ vend' = [p \in DOMAIN vend \ {<<Head(task.todo).replica, r>> :
                                             r \in Head(task.todo).rels} |->
                         vend[p]]
    /\ bound' = FALSE /\ mounted' = FALSE
    /\ store' = NoStore
    /\ task' = Idle
    /\ UNCHANGED <<files, geometry, made, told>>

Next ==
    \/ \E l \in Layouts :
         \/ Shrink(l) \/ Prepare(l) \/ Attach(l)
         \/ PrepareOnly(l) \/ EnsureJvckMetadata(l)
    \/ Mount \/ Grow
    \/ \E first \in Sectors, n \in 1 .. MaxRequest, v \in Values,
          user \in BOOLEAN : FsWrite(first, n, v, user)
    \/ BindProvisional \/ OpenStore
    \/ Reseal
    \/ \E r \in Values : set_vendor_reserved(r)
    \/ \E rel \in Sectors, n \in 1 .. MaxRequest, v \in Values :
         \/ write_vendor_data_all(rel, n, v)
         \/ \E i \in Sectors : write_vendor_data(i, rel, n, v)
    \/ WriteNext \/ Finish \/ WriteFails
    \/ Detach \/ Crash

Spec == Init /\ [][Next]_vars

(***************************************************************************)
(* Properties.                                                             *)
(***************************************************************************)
SectorContents ==
    {File(s, v) : s \in Sectors, v \in Values} \cup
    {Vendor(v) : v \in Values} \cup
    {Metadata(l, r) : l \in Layouts, r \in Values} \cup {Torn, Junk}

(* The type of the state, in particular that every raw access of the store,*)
(* the driver, the SDK and the filter is to a sector of the volume.        *)
TypeOK ==
    /\ disk \in [Sectors -> SectorContents]
    /\ \A s \in DOMAIN files : s \in Sectors /\ files[s] \in Values
    /\ {mounted, bound} \subseteq BOOLEAN
    /\ geometry \in [offset_sector : Nat, data_sectors : Nat]
    /\ store.open \in BOOLEAN /\ store.layout \in Layouts \cup {NoLayout}
    /\ made \in Layouts \cup {NoLayout}
    /\ task.op \in {"idle", "prepare", "bind", "ensure", "open", "seal",
                    "vendor"}
    /\ \A k \in DOMAIN task.todo : task.todo[k].at \subseteq Sectors
    /\ told \subseteq Values
    /\ crashes \in 0 .. MaxCrashes

(* What the file system wrote is what it finds, through the filter or on   *)
(* the raw volume, whatever PREPARE, re-seals and vendor data write: no    *)
(* computation of a place puts metadata or vendor data on the sectors that *)
(* shift_offset gives the file system.                                     *)
FilesIntact ==
    mounted => \A s \in DOMAIN files :
                  /\ shift_offset(s) \in Sectors
                  /\ disk[shift_offset(s)] = File(s, files[s])

(* Vendor data survives the re-seals of the Metadata block next to it, the *)
(* requests of the file system, growth, detach and power losses of other   *)
(* writes.                                                                 *)
VendorIntact ==
    store.open =>
        \A p \in DOMAIN vend :
           disk[vendor_data_base_lba_at(VolumeSectors, store.layout, p[1]) + p[2]]
             = Vendor(vend[p])

(* set_vendor_reserved is atomic over power losses: once it, or a later    *)
(* re-seal, has returned Ok, every open reports that value, and never one  *)
(* of an older header that a replica still carried.                        *)
ReservedIsKept == store.open => store.reserved \in told

(* PREPARE and EnsureJvckMetadata put the Metadata blocks where the store  *)
(* will look for them.                                                     *)
WritersAgree ==
    task.op \in {"prepare", "ensure"} =>
        LET lbas == metadata_sector_lbas(VolumeSectors, task.layout)
        IN  \A k \in DOMAIN task.todo :
               \E j \in DOMAIN lbas : task.todo[k].at = {lbas[j]}

(* The tail that was reserved in bytes is enough for the replicas the      *)
(* store counts in whole sectors: the mounted file system lies inside the  *)
(* data region, so none of its requests is refused or runs into a footer.  *)
FileSystemFits ==
    mounted /\ store.open => FileSystemSize <= geometry.data_sectors

=============================================================================
