-------------------------- MODULE OsVolumePrepare --------------------------
(***************************************************************************)
(* `os-volume prepare' (sample/app/cmd/os_volume_encrypt.go) on a live     *)
(* machine, and what becomes of the machine around it.                     *)
(*                                                                         *)
(* The command mounts the EFI system partition, refuses when vck.json is   *)
(* there, shrinks the file system (ShrinkTail), copies the boot manager to *)
(* bootmgfw.os.efi, writes vck.json, and asks the driver to write the      *)
(* metadata and bind the volume (IOCTL_JVCK_PREPARE).  The operator        *)
(* installs the loader in place of the boot manager and starts the sweep.  *)
(* Every step can fail, the command can be killed, the power can go; the   *)
(* command is then run again, if need be after vck.json has been deleted.  *)
(*                                                                         *)
(* The driver knows a volume by the path of the request, and the command   *)
(* has two for the same volume: `\\.\C:' without --volume, the GUID path   *)
(* with it.  A run under the other one is not refused; its PREPARE works   *)
(* on what the filter leaves of the volume, in front of the first blocks.  *)
(*                                                                         *)
(* A metadata block is its FVEK (a number); LoaderHook models the boot in  *)
(* detail, VolumeSweep the sweep, JvckLayout the places of the replicas.   *)
(***************************************************************************)
EXTENDS ShrinkTail

CONSTANTS
    Paths,          \* spellings of the volume's path
    ReplicaSectors, \* sectors of one of the footer replicas
    MaxRuns,        \* bound: runs of the command
    MaxCrashes      \* bound: power losses

ASSUME PrepareAssumption ==
    /\ Paths # {}
    /\ {ReplicaSectors, MaxRuns} \subseteq Nat \ {0}
    /\ MaxCrashes \in Nat
    /\ Reserved % ReplicaSectors = 0

VARIABLES
    esp,      \* the EFI system partition: bootmgfw.efi, bootmgfw.os.efi, vck.json
    mounted,  \* S: is in use
    meta,     \* the blocks PREPARE has written, by sector
    block,    \* the FVEK of the metadata block of the request, 0: no block
    todo,     \* sectors PREPARE still has to write
    keys,     \* FVEKs generated so far
    filter,   \* the filter AddDevice has put on the volume is there
    bound,    \* the FVEK of the bound volume, 0: the filter passes through
    reported, \* the length for whoever asks Windows: the filter hides the tail
    known,    \* the paths the registry has for the volume
    swept,    \* the FVEKs the data region has been encrypted with
    power, runs, crashes

driverVars  == <<meta, todo, filter, bound, reported, known>>
machineVars == <<swept, power, crashes>>
prepareVars == <<esp, mounted, block, keys, runs, driverVars, machineVars>>
vars        == <<shrinkVars, prepareVars>>

Torn == -1
NoFvek == 0

(* A block as it was written: the sweep has not passed over it.  `layers'  *)
(* counts how often it has, up for encrypting and down for decrypting.     *)
Written(k) == [fvek |-> k, layers |-> 0]

Holds(p, k) == p \in DOMAIN meta /\ meta[p] = Written(k)

(* The CRC of the sector is right on the medium.                           *)
Readable(p) == \E k \in 1 .. keys : Holds(p, k)

(* HasJvckMetadata asks Windows: the filter decrypts what has been swept.  *)
HasJvckMetadata(last) ==
    /\ last \in DOMAIN meta /\ meta[last].fvek > NoFvek
    /\ meta[last].layers = IF bound \in swept THEN 1 ELSE 0

replica_lbas(len) ==
    [j \in 1 .. Reserved \div ReplicaSectors |->
        len - Reserved + j * ReplicaSectors - 1]

(* JvckMetadataReader, below the filter, on a device of len sectors: it    *)
(* opens on the last sector and takes the first replica it can read.       *)
Opens(len) == Readable(len - 1)

openedFvek(len) ==
    LET lbas == replica_lbas(len)
    IN  meta[lbas[Min({j \in DOMAIN lbas : Readable(lbas[j])})]].fvek

Init ==
    /\ ShrinkInit
    /\ cmd = "idle"
    /\ esp = [bootmgfw |-> "os", copy |-> "none", vckJson |-> "none"]
    /\ mounted = FALSE
    /\ meta = <<>> /\ todo = <<>>
    /\ filter = TRUE /\ bound = NoFvek
    /\ reported = VolumeSectors /\ known = {}
    /\ block = NoFvek /\ keys = 0
    /\ swept = {} /\ power = "on"
    /\ runs = 0 /\ crashes = 0

(***************************************************************************)
(* prepareOSVolume.                                                        *)
(***************************************************************************)
Goto(step) == cmd' = step /\ UNCHANGED <<total, lcn, pass, changes>>

(* Mutant: a vck.json that is there is not looked for. *)
RunPrepareAnyway ==
    /\ power = "on" /\ cmd = "idle" /\ runs < MaxRuns
    /\ ~mounted
    /\ mounted' = TRUE /\ runs' = runs + 1
    /\ Goto("shrink")
    /\ UNCHANGED <<esp, block, keys, driverVars, machineVars>>

(* mountESP, and the test for an earlier preparation.                      *)
RunPrepare ==
    /\ power = "on" /\ cmd = "idle" /\ runs < MaxRuns
    /\ ~mounted
    /\ esp.vckJson = "none"
    /\ mounted' = TRUE /\ runs' = runs + 1
    /\ Goto("shrink")
    /\ UNCHANGED <<esp, block, keys, driverVars, machineVars>>

ShrinkVolumeTail == ShrinkStep(reported) /\ UNCHANGED prepareVars

(* os.Create empties the file, ReadFrom fills it.                          *)
CopyBegin ==
    /\ cmd = "copy"
    /\ esp' = [esp EXCEPT !.copy = "part"]
    /\ Goto("copying")
    /\ UNCHANGED <<mounted, block, keys, runs, driverVars, machineVars>>

CopyEnd ==
    /\ cmd = "copying"
    /\ esp' = [esp EXCEPT !.copy = esp.bootmgfw]
    /\ Goto("config")
    /\ UNCHANGED <<mounted, block, keys, runs, driverVars, machineVars>>

(* os.WriteFile, no more atomic than the copy.                             *)
WriteConfigBegin ==
    /\ cmd = "config"
    /\ esp' = [esp EXCEPT !.vckJson = "part"]
    /\ Goto("writing")
    /\ UNCHANGED <<mounted, block, keys, runs, driverVars, machineVars>>

WriteConfigEnd ==
    /\ cmd = "writing"
    /\ esp' = [esp EXCEPT !.vckJson = "ok"]
    /\ mounted' = FALSE
    /\ Goto("driver")
    /\ UNCHANGED <<block, keys, runs, driverVars, machineVars>>

HostStepFails ==
    /\ cmd \in {"copy", "copying", "config", "writing"}
    /\ Goto("return")
    /\ UNCHANGED prepareVars

(* Every return of prepareOSVolume runs unmountESP.                        *)
Return ==
    /\ cmd = "return"
    /\ mounted' = FALSE
    /\ Goto("idle")
    /\ UNCHANGED <<esp, block, keys, runs, driverVars, machineVars>>

(***************************************************************************)
(* The driver's part.                                                      *)
(***************************************************************************)
(* --prepare-only, or the driver, the geometry or the last sector cannot   *)
(* be read, or the request fails before the driver writes anything.        *)
DriverPartSkipped ==
    /\ cmd \in {"driver", "request"}
    /\ Goto("idle")
    /\ UNCHANGED prepareVars

buildOSVolumeMetadataBlock ==
    /\ cmd = "driver"
    /\ IF HasJvckMetadata(reported - 1)
         THEN block' = NoFvek /\ UNCHANGED keys
         ELSE block' = keys + 1 /\ keys' = keys + 1
    /\ Goto("request")
    /\ UNCHANGED <<esp, mounted, runs, driverVars, machineVars>>

(* Mutant: the replicas are counted from the end of the partition. *)
PrepareBelowFilter ==
    /\ cmd = "request" /\ filter /\ known # Paths
    /\ todo' = IF block = NoFvek THEN <<>> ELSE replica_lbas(VolumeSectors)
    /\ Goto("prepare")
    /\ UNCHANGED <<esp, mounted, block, keys, runs, meta, filter, bound,
                   reported, known, machineVars>>

(* A path the registry has is refused (the command then ends like          *)
(* DriverPartSkipped), another path of the same volume is not.  What a     *)
(* request does with a filter that has been deleted is not modelled.       *)
Prepare ==
    /\ cmd = "request" /\ filter /\ known # Paths
    /\ todo' = IF block = NoFvek THEN <<>> ELSE replica_lbas(reported)
    /\ Goto("prepare")
    /\ UNCHANGED <<esp, mounted, block, keys, runs, meta, filter, bound,
                   reported, known, machineVars>>

WriteMetadata ==
    /\ cmd = "prepare" /\ todo # <<>>
    /\ meta' = [p \in DOMAIN meta \cup {Head(todo)} |->
                   IF p = Head(todo) THEN Written(block) ELSE meta[p]]
    /\ todo' = Tail(todo)
    /\ UNCHANGED <<shrinkVars, esp, mounted, block, keys, runs, filter, bound,
                   reported, known, machineVars>>

(* A write fails: the request ends before the volume is bound.             *)
WriteFails ==
    /\ cmd = "prepare" /\ todo # <<>>
    /\ todo' = <<>>
    /\ Goto("idle")
    /\ UNCHANGED <<esp, mounted, block, keys, runs, meta, filter, bound,
                   reported, known, machineVars>>

(* The provisional volume is bound, but the metadata cannot be opened with *)
(* the key: its entry is removed and the filter is taken off the volume,   *)
(* whatever it was bound to before.                                        *)
OpenFails ==
    /\ cmd = "prepare" /\ todo = <<>>
    /\ filter' = FALSE /\ bound' = NoFvek /\ reported' = VolumeSectors
    /\ Goto("idle")
    /\ UNCHANGED <<esp, mounted, block, keys, runs, meta, todo, known,
                   machineVars>>

(* The request's path is one the registry did not have.                    *)
BindVolume ==
    /\ cmd = "prepare" /\ todo = <<>> /\ Opens(reported)
    /\ bound' = openedFvek(reported)
    /\ reported' = reported - Reserved
    /\ \E path \in Paths \ known : known' = known \cup {path}
    /\ Goto("idle")
    /\ UNCHANGED <<esp, mounted, block, keys, runs, meta, todo, filter,
                   machineVars>>

(***************************************************************************)
(* The operator.                                                           *)
(***************************************************************************)
(* verifyPreparedOSVolume: it asks of bootmgfw.os.efi only that it exists. *)
verifyPreparedOSVolume == esp.copy # "none" /\ esp.vckJson = "ok"

InstallLoader ==
    /\ power = "on" /\ cmd = "idle" /\ esp.bootmgfw = "os"
    /\ verifyPreparedOSVolume
    /\ esp' = [esp EXCEPT !.bootmgfw = "loader"]
    /\ UNCHANGED <<shrinkVars, mounted, block, keys, runs, driverVars,
                   machineVars>>

(* The way out when the command refuses: delete vck.json, while the        *)
(* machine still boots without it.                                         *)
RemoveConfig ==
    /\ power = "on" /\ cmd = "idle" /\ esp.bootmgfw = "os"
    /\ esp.vckJson # "none"
    /\ esp' = [esp EXCEPT !.vckJson = "none"]
    /\ UNCHANGED <<shrinkVars, mounted, block, keys, runs, driverVars,
                   machineVars>>

(* What a sweep over the data region leaves: a block that lies there is    *)
(* encrypted once more (d = 1) or once less (d = -1), and the store of the *)
(* bound volume has written all of its replicas.                           *)
Sweep(d) ==
    LET replicas == Range(replica_lbas(reported + Reserved))
    IN  meta' = [p \in DOMAIN meta \cup replicas |->
                    IF p \in replicas THEN Written(bound)
                    ELSE IF p < reported THEN [meta[p] EXCEPT !.layers = @ + d]
                    ELSE meta[p]]

(* `os-volume encrypt' and `os-volume decrypt', to their end.              *)
Encrypt ==
    /\ power = "on" /\ bound # NoFvek /\ bound \notin swept
    /\ swept' = swept \cup {bound}
    /\ Sweep(1)
    /\ UNCHANGED <<shrinkVars, esp, mounted, block, keys, runs, todo, filter,
                   bound, reported, known, power, crashes>>

Decrypt ==
    /\ power = "on" /\ bound # NoFvek /\ bound \in swept
    /\ swept' = swept \ {bound}
    /\ Sweep(-1)
    /\ UNCHANGED <<shrinkVars, esp, mounted, block, keys, runs, todo, filter,
                   bound, reported, known, power, crashes>>

(* The command's process is killed; an IOCTL in the driver runs to its end.*)
Kill ==
    /\ power = "on" /\ cmd \notin {"idle", "prepare"}
    /\ Goto("idle")
    /\ UNCHANGED prepareVars

(***************************************************************************)
(* Power losses and the next boot.                                         *)
(***************************************************************************)
PowerLoss ==
    /\ power = "on" /\ crashes < MaxCrashes
    /\ crashes' = crashes + 1 /\ power' = "off"
    /\ \/ UNCHANGED meta
       \/ /\ todo # <<>>
          /\ meta' = [p \in DOMAIN meta \cup {Head(todo)} |->
                         IF p = Head(todo) THEN Written(Torn) ELSE meta[p]]
    /\ todo' = <<>> /\ mounted' = FALSE
    /\ bound' = NoFvek /\ reported' = VolumeSectors /\ known' = {}
    /\ Goto("idle")
    /\ UNCHANGED <<esp, block, keys, runs, filter, swept>>

(* What the firmware starts reaches Windows: the boot manager on a         *)
(* plaintext volume, or the loader with its configuration, a boot manager  *)
(* to chainload and, on an encrypted volume, metadata it can open.         *)
Boots ==
    IF esp.bootmgfw = "os"
      THEN swept = {}
      ELSE /\ esp.vckJson = "ok" /\ esp.copy = "os"
           /\ swept # {} => /\ Opens(VolumeSectors)
                            /\ swept = {openedFvek(VolumeSectors)}

(* AddDevice puts a filter on the volume.  With the loader the driver      *)
(* finds the handover and mounts the volume, under a key that is not one   *)
(* of its paths.                                                           *)
Boot ==
    /\ power = "off" /\ Boots
    /\ power' = "on" /\ filter' = TRUE
    /\ IF esp.bootmgfw = "loader" /\ Opens(VolumeSectors)
         THEN /\ bound' = openedFvek(VolumeSectors)
              /\ reported' = VolumeSectors - Reserved
         ELSE UNCHANGED <<bound, reported>>
    /\ UNCHANGED <<shrinkVars, esp, mounted, block, keys, runs, meta, todo,
                   known, swept, crashes>>

Command ==
    \/ ShrinkVolumeTail
    \/ CopyBegin \/ CopyEnd \/ WriteConfigBegin \/ WriteConfigEnd
    \/ HostStepFails \/ Return
    \/ DriverPartSkipped \/ buildOSVolumeMetadataBlock
    \/ Prepare \/ WriteMetadata \/ WriteFails \/ OpenFails \/ BindVolume

Next ==
    \/ RunPrepare \/ Command
    \/ power = "on" /\ OtherPrograms /\ UNCHANGED prepareVars
    \/ InstallLoader \/ RemoveConfig \/ Encrypt \/ Decrypt
    \/ Kill \/ PowerLoss \/ Boot

(* The command's process and the kernel beneath it are scheduled.          *)
Spec == Init /\ [][Next]_vars /\ WF_vars(Command)

(***************************************************************************)
(* Properties.                                                             *)
(***************************************************************************)
TypeOK ==
    /\ ShrinkTypeOK
    /\ cmd \in {"idle", "shrink", "commit", "walk", "copy", "copying",
                "config", "writing", "driver", "request", "prepare", "return"}
    /\ esp \in [bootmgfw : {"os", "loader"},
                copy : {"none", "part", "os", "loader"},
                vckJson : {"none", "part", "ok"}]
    /\ DOMAIN meta \subseteq 0 .. VolumeSectors - 1
    /\ \A p \in DOMAIN meta :
          meta[p] \in [fvek : {Torn} \cup (1 .. MaxRuns), layers : Int]
    /\ {block, keys, bound} \subseteq 0 .. MaxRuns
    /\ swept \subseteq 1 .. MaxRuns
    /\ Range(todo) \subseteq 0 .. VolumeSectors - 1
    /\ reported \in 1 .. VolumeSectors /\ known \subseteq Paths
    /\ {mounted, filter} \subseteq BOOLEAN
    /\ power \in {"on", "off"}
    /\ runs \in 0 .. MaxRuns /\ crashes \in 0 .. MaxCrashes

(* Whatever the command was doing when it failed, was killed or lost the   *)
(* power, and however often it is run again, the machine boots: the boot   *)
(* copy is complete before vck.json is, and both before the loader can be  *)
(* installed, although verify-prepare looks at neither the contents of the *)
(* copy nor the metadata.  The exceptions: the documented order of the     *)
(* first encryption, which starts the sweep before the loader is in place, *)
(* and a volume swept after a prepare under its other path, with a key     *)
(* whose metadata is not at the end of the partition.                      *)
AlwaysBoots ==
    \/ Boots
    \/ esp.bootmgfw = "os" /\ swept # {}
    \/ \E p \in DOMAIN meta :
          p < VolumeSectors - Reserved /\ meta[p].fvek \in swept

(* No cluster of the file system overlaps a sector PREPARE has written,    *)
(* through every retry of the shrink, whatever other programs allocate.    *)
TailIsFree == \A p \in DOMAIN meta : p >= total * ClusterSectors

(* Sectors encrypted with a key are never left without it: however often   *)
(* PREPARE is run, under whichever path, every replica of each key in use  *)
(* is whole on the medium.  And a bound volume serves the swept sectors    *)
(* with their key, unless PREPARE was accepted under two of its paths.     *)
SweptKeyIsKept ==
    /\ \A k \in swept : \E len \in Reserved .. VolumeSectors :
          \A p \in Range(replica_lbas(len)) : Holds(p, k)
    /\ bound # NoFvek /\ swept # {} /\ (\A p, q \in known : p = q) =>
          swept = {bound}
=============================================================================
