---------------------------- MODULE VolumeSweep ----------------------------
(***************************************************************************)
(* The data path of one attached OS volume: the encryption engine that     *)
(* sweeps the volume batch by batch (lib/windrv/src/offset/engine.rs), the *)
(* per-volume thread that serialises the sweep with the user's IRPs        *)
(* (filter/volume_thread.rs), the lock-free boundary cache between the two *)
(* (registry.rs), the JVCK store that persists the boundary and the        *)
(* direction in every metadata replica (lib/common/src/jvck/store.rs), and *)
(* the attach of the volume after a shutdown or a power loss               *)
(* (handover_mount.rs, sample/windrv/src/provider.rs).                     *)
(*                                                                         *)
(* Sectors are numbered relative to the data region.  What a sector holds  *)
(* on the medium is a plaintext value under some number of encryption      *)
(* layers: encrypting adds a layer, decrypting removes one, so a sector    *)
(* encrypted twice (layer 2) or decrypted without having been encrypted    *)
(* (layer -1) can be told from a sound one.                                *)
(***************************************************************************)
EXTENDS Integers, FiniteSets

CONSTANTS
    N,            \* EncryptedOffset::total_sectors
    BatchSectors, \* BATCH_SECTORS
    R,            \* replicas, in the order write_all_replicas visits them
    UseHeader,    \* how many of them are header replicas (the first ones)
    Values,       \* what a sector can hold
    Garbled,      \* what reading a sector under the wrong layers looks like
    Faults,       \* the faults the environment may produce, see FaultKinds
    MaxCrashes,   \* bound on power losses
    MaxFailures   \* bound on torn batches and failed replica writes

(* "write"   a user's write fails with any part of its sectors written; a  *)
(*           sweep batch's write fails with none written                   *)
(* "torn"    a sweep batch's write fails with any part of it written       *)
(* "meta"    the write of a metadata replica fails, done or not            *)
(* "crash"   power is lost; the write in flight is cut anywhere            *)
(* "metaTorn" power loss leaves the replica being written unreadable       *)
FaultKinds == {"write", "torn", "meta", "crash", "metaTorn"}

ASSUME SizeAssumption ==
    /\ N \in Nat \ {0}
    /\ BatchSectors \in Nat \ {0}
    /\ R \in Nat \ {0}
    /\ UseHeader \in 0 .. R
    /\ MaxCrashes \in Nat /\ MaxFailures \in Nat

ASSUME ValueAssumption == Values # {} /\ Garbled \notin Values

ASSUME FaultAssumption == Faults \subseteq FaultKinds

VARIABLES
    disk,      \* disk[s]: what the medium holds in data sector s
    replica,   \* replica[i]: the Metadata block of replica i
    store,     \* JvckMetadataStore: offset and state held in memory
    engine,    \* EncryptionEngine: encrypted_offset.sector and state
    boundary,  \* AttachedVolume::encrypted_boundary, the lock-free cache
    power,     \* "on"; "closing" once PAUSE_OS_VOLUME ran; "off"
    pc,        \* where the volume thread stands, see PcKinds
    buf,       \* the sweep's buffer between its read and its write
    lock,      \* who holds the engine's mutex
    next,      \* the replica write_all_replicas writes next
    answer,    \* what the read IRP that just completed returned
    crashes,   \* power losses so far
    failures   \* torn batches and failed replica writes so far

vars == <<disk, replica, store, engine, boundary, power, pc, buf, lock,
          next, answer, crashes, failures>>

Sectors  == 0 .. N - 1
Offsets  == 0 .. N
Replicas == 1 .. R
Content  == [val : Values, layer : Int]
VolumeState == {"Encrypt", "Decrypt"}
EngineState == {"Idle", "Encrypting", "Decrypting", "Paused"}
Sweeping    == {"Encrypting", "Decrypting"}

(* "irps"   servicing the queue, or between two iterations of the loop     *)
(* "write"  the batch is read and transformed, not yet written             *)
(* "store"  the batch is written, the boundary is being persisted          *)
(* "sync"   sweep_step returned Ok, sync_boundary has not run yet          *)
PcKinds == {"irps", "write", "store", "sync"}

Nothing == [s \in {} |-> 0]

TypeOK ==
    /\ disk \in [Sectors -> Content]
    /\ replica \in [Replicas -> [offset : Offsets, state : VolumeState,
                                 valid : BOOLEAN]]
    /\ store \in [offset : Offsets, state : VolumeState]
    /\ engine \in [sector : Offsets, state : EngineState]
    /\ boundary \in Offsets
    /\ power \in {"on", "closing", "off"}
    /\ pc \in PcKinds
    /\ \E S \in SUBSET Sectors : buf \in [S -> Content]
    /\ lock \in {"free", "sweep", "start"}
    /\ next \in 1 .. R + 1
    /\ \E S \in SUBSET Sectors : answer \in [S -> Content]
    /\ crashes \in Nat /\ failures \in Nat

Crypt(c, layers) == [val |-> c.val, layer |-> c.layer + layers]

Lesser(a, b) == IF a <= b THEN a ELSE b

(* The medium after the sectors in `done' have been written from `src'.    *)
Written(src, done) ==
    [s \in Sectors |-> IF s \in done THEN src[s] ELSE disk[s]]

-----------------------------------------------------------------------------
(***************************************************************************)
(* Recovery of the metadata (JvckMetadataReader::into_store, load_offset). *)
(***************************************************************************)

ValidReplicas == {i \in Replicas : replica[i].valid}

(* load_offset: the largest offset of the valid replicas. *)
RecoveredOffset ==
    CHOOSE m \in Offsets :
        /\ \E i \in ValidReplicas : replica[i].offset = m
        /\ \A i \in ValidReplicas : replica[i].offset <= m

(* into_store adopts the state of the first replica that unseals. *)
FirstValid ==
    CHOOSE i \in ValidReplicas : \A j \in ValidReplicas : i <= j

RecoveredState == replica[FirstValid].state

(* JvckMetadataReader::open looks at the volume's last sector (the last    *)
(* replica when there is a footer) and then at its first one (the first    *)
(* replica when there is a header), and nowhere else.                      *)
Openable ==
    \/ UseHeader < R /\ replica[R].valid
    \/ UseHeader > 0 /\ replica[1].valid

-----------------------------------------------------------------------------
(* A volume freshly prepared: plaintext, every replica at offset 0. *)
Init ==
    /\ disk \in {[s \in Sectors |-> [val |-> f[s], layer |-> 0]] :
                    f \in [Sectors -> Values]}
    /\ replica = [i \in Replicas |->
                    [offset |-> 0, state |-> "Encrypt", valid |-> TRUE]]
    /\ store = [offset |-> 0, state |-> "Encrypt"]
    /\ engine = [sector |-> 0, state |-> "Idle"]
    /\ boundary = 0
    /\ power = "on"
    /\ pc = "irps"
    /\ buf = Nothing
    /\ lock = "free"
    /\ next = 1
    /\ answer = Nothing
    /\ crashes = 0 /\ failures = 0

-----------------------------------------------------------------------------
(***************************************************************************)
(* User IRPs, on the volume thread.                                        *)
(***************************************************************************)

(* Mutant: crypto_range's answer for the first sector decides them all. *)
CryptoSpanByFirstSector(first, count) ==
    IF boundary > 0 /\ first < boundary
    THEN first .. first + count - 1 ELSE {}

(* crypto_range and the `n' of CryptoPipeline: the part of a request of    *)
(* `count' sectors at `first' that goes through the cipher.                *)
CryptoSpan(first, count) ==
    IF boundary > 0 /\ first < boundary
    THEN first .. first + Lesser(boundary - first, count) - 1
    ELSE {}

ProcessRead(first, last) ==
    /\ power # "off" /\ pc = "irps"
    /\ answer' = [s \in first .. last |->
                    IF s \in CryptoSpan(first, last - first + 1)
                    THEN Crypt(disk[s], -1)
                    ELSE disk[s]]
    /\ UNCHANGED <<disk, replica, store, engine, boundary, power, pc, buf,
                   lock, next, crashes, failures>>

(* The buffer process_write sends down: v, encrypted in the crypto span. *)
WriteBuffer(first, last, v) ==
    [s \in first .. last |->
        [val |-> v,
         layer |-> IF s \in CryptoSpan(first, last - first + 1)
                   THEN 1 ELSE 0]]

ProcessWrite(first, last, v) ==
    /\ power # "off" /\ pc = "irps"
    /\ disk' = Written(WriteBuffer(first, last, v), first .. last)
    /\ answer' = Nothing
    /\ UNCHANGED <<replica, store, engine, boundary, power, pc, buf, lock,
                   next, crashes, failures>>

(* The lower device fails the request after writing the sectors `done'.    *)
ProcessWriteFails(first, last, v, done) ==
    /\ power # "off" /\ pc = "irps"
    /\ "write" \in Faults
    /\ disk' = Written(WriteBuffer(first, last, v), done)
    /\ answer' = Nothing
    /\ UNCHANGED <<replica, store, engine, boundary, power, pc, buf, lock,
                   next, crashes, failures>>

-----------------------------------------------------------------------------
(***************************************************************************)
(* The sweep, on the volume thread: one batch under the engine's mutex.    *)
(***************************************************************************)

BatchCount ==
    Lesser(BatchSectors, IF engine.state = "Encrypting"
                         THEN N - engine.sector ELSE engine.sector)

(* Mutant: the end of the batch is taken to be inclusive. *)
BatchInclusive ==
    IF engine.state = "Encrypting"
    THEN engine.sector .. Lesser(engine.sector + BatchCount, N - 1)
    ELSE engine.sector - BatchCount .. engine.sector - 1

(* Encryption works upwards from the boundary, decryption downwards to it. *)
Batch ==
    IF engine.state = "Encrypting"
    THEN engine.sector .. engine.sector + BatchCount - 1
    ELSE engine.sector - BatchCount .. engine.sector - 1

(* Mutant: the last batch is not clamped to the size of the volume. *)
NextSectorUnclamped ==
    IF engine.state = "Encrypting"
    THEN engine.sector + BatchSectors ELSE engine.sector - BatchCount

NextSector ==
    IF engine.state = "Encrypting"
    THEN engine.sector + BatchCount ELSE engine.sector - BatchCount

(* The whole span is swept: fully encrypted, or nothing left encrypted. *)
Finished(sector) ==
    IF engine.state = "Encrypting" THEN sector >= N ELSE sector = 0

SweepRead ==
    /\ power # "off" /\ pc = "irps" /\ lock = "free"
    /\ engine.state \in Sweeping /\ ~Finished(engine.sector)
    /\ buf' = [s \in Batch |->
                 Crypt(disk[s],
                       IF engine.state = "Encrypting" THEN 1 ELSE -1)]
    /\ lock' = "sweep"
    /\ pc' = "write"
    /\ answer' = Nothing
    /\ UNCHANGED <<disk, replica, store, engine, boundary, power, next,
                   crashes, failures>>

(* Mutant: the cache is synced only after a batch that made progress. *)
SweepNoWorkWithoutSync ==
    /\ power # "off" /\ pc = "irps" /\ lock = "free"
    /\ engine.state \in Sweeping => Finished(engine.sector)
    /\ engine' = [engine EXCEPT
                    !.state = IF @ \in Sweeping THEN "Idle" ELSE @]
    /\ answer' = Nothing
    /\ UNCHANGED <<disk, replica, store, boundary, power, pc, buf, lock,
                   next, crashes, failures>>

(* progress_step with nothing to do: Ok(false), so the cache is synced. *)
SweepNoWork ==
    /\ power # "off" /\ pc = "irps" /\ lock = "free"
    /\ engine.state \in Sweeping => Finished(engine.sector)
    /\ engine' = [engine EXCEPT
                    !.state = IF @ \in Sweeping THEN "Idle" ELSE @]
    /\ pc' = "sync"
    /\ answer' = Nothing
    /\ UNCHANGED <<disk, replica, store, boundary, power, buf, lock, next,
                   crashes, failures>>

(* The batch reaches the medium; the boundary moves in memory, first in    *)
(* the engine, then in the store, which starts re-sealing the replicas.    *)
SweepWrite ==
    /\ pc = "write"
    /\ disk' = Written(buf, DOMAIN buf)
    /\ engine' = [engine EXCEPT !.sector = NextSector]
    /\ store' = [store EXCEPT !.offset = NextSector]
    /\ next' = 1
    /\ pc' = "store"
    /\ buf' = Nothing
    /\ answer' = Nothing
    /\ UNCHANGED <<replica, boundary, power, lock, crashes, failures>>

(* The batch's write fails: sweep_step returns Err, the boundary stays and *)
(* the next iteration of the loop tries the batch again.                   *)
SweepWriteFails(done) ==
    /\ pc = "write"
    /\ \/ /\ "write" \in Faults /\ done = {}
          /\ UNCHANGED failures
       \/ /\ "torn" \in Faults /\ done # {} /\ failures < MaxFailures
          /\ failures' = failures + 1
    /\ disk' = Written(buf, done)
    /\ pc' = "irps"
    /\ lock' = "free"
    /\ buf' = Nothing
    /\ answer' = Nothing
    /\ UNCHANGED <<replica, store, engine, boundary, power, next, crashes>>

(* Mutant: sync_boundary is left out after a batch. *)
SweepDoneWithoutSync ==
    /\ pc = "store" /\ next > R
    /\ engine' = [engine EXCEPT
                    !.state = IF Finished(engine.sector) THEN "Idle" ELSE @]
    /\ lock' = "free"
    /\ pc' = "irps"
    /\ answer' = Nothing
    /\ UNCHANGED <<disk, replica, store, boundary, power, buf, next,
                   crashes, failures>>

SweepDone ==
    /\ pc = "store" /\ next > R
    /\ engine' = [engine EXCEPT
                    !.state = IF Finished(engine.sector) THEN "Idle" ELSE @]
    /\ lock' = "free"
    /\ pc' = "sync"
    /\ answer' = Nothing
    /\ UNCHANGED <<disk, replica, store, boundary, power, buf, next, crashes,
                   failures>>

(* sync_boundary, which takes the mutex again. *)
SyncBoundary ==
    /\ power # "off" /\ pc = "sync" /\ lock = "free"
    /\ boundary' = engine.sector
    /\ pc' = "irps"
    /\ answer' = Nothing
    /\ UNCHANGED <<disk, replica, store, engine, power, buf, lock, next,
                   crashes, failures>>

-----------------------------------------------------------------------------
(***************************************************************************)
(* write_all_replicas, run by the sweep (store) or by a START handler      *)
(* (store_state) under the engine's mutex.                                 *)
(***************************************************************************)

Persisting == lock = "start" \/ pc = "store"

(* Mutant: the direction is not sealed along with the offset. *)
SealedOffsetOnly(i) ==
    [replica EXCEPT ![i].offset = store.offset, ![i].valid = TRUE]

(* The replicas once the store has been sealed into replica i. *)
Sealed(i) ==
    [replica EXCEPT ![i] = [offset |-> store.offset,
                            state  |-> store.state,
                            valid  |-> TRUE]]

WriteReplica ==
    /\ Persisting /\ next <= R
    /\ replica' = Sealed(next)
    /\ next' = next + 1
    /\ answer' = Nothing
    /\ UNCHANGED <<disk, store, engine, boundary, power, pc, buf, lock,
                   crashes, failures>>

(* What start_encrypt / start_decrypt leave the engine in. *)
StartedState ==
    IF store.state = "Encrypt"
    THEN IF engine.sector < N THEN "Encrypting" ELSE "Idle"
    ELSE IF engine.sector > 0 THEN "Decrypting" ELSE "Idle"

(* A replica cannot be written: the loop ends.  The sweep returns the      *)
(* error before sync_boundary; a START handler ignores it.                 *)
WriteReplicaFails ==
    /\ Persisting /\ next <= R
    /\ "meta" \in Faults /\ failures < MaxFailures
    /\ failures' = failures + 1
    /\ replica' \in {replica, Sealed(next)}
    /\ IF lock = "start"
       THEN /\ engine' = [engine EXCEPT !.state = StartedState]
            /\ UNCHANGED pc
       ELSE /\ pc' = "irps"
            /\ UNCHANGED engine
    /\ lock' = "free"
    /\ answer' = Nothing
    /\ UNCHANGED <<disk, store, boundary, power, buf, next, crashes>>

-----------------------------------------------------------------------------
(***************************************************************************)
(* IOCTL handlers, each in its caller's thread.                            *)
(***************************************************************************)

(* handle_start_encrypt (d = "Encrypt") and handle_start_decrypt. *)
StartSweep(d) ==
    /\ power # "off" /\ lock = "free"
    /\ lock' = "start"
    /\ store' = [store EXCEPT !.state = d]
    /\ next' = 1
    /\ answer' = Nothing
    /\ UNCHANGED <<disk, replica, engine, boundary, power, pc, buf, crashes,
                   failures>>

StartDone ==
    /\ lock = "start" /\ next > R
    /\ engine' = [engine EXCEPT !.state = StartedState]
    /\ lock' = "free"
    /\ answer' = Nothing
    /\ UNCHANGED <<disk, replica, store, boundary, power, pc, buf, next,
                   crashes, failures>>

PausedState == IF engine.state \in Sweeping THEN "Paused" ELSE engine.state

Pause ==
    /\ power # "off" /\ lock = "free"
    /\ engine' = [engine EXCEPT !.state = PausedState]
    /\ answer' = Nothing
    /\ UNCHANGED <<disk, replica, store, boundary, power, pc, buf, lock,
                   next, crashes, failures>>

(* handle_pause_os_volume, from the shutdown notification. *)
PauseOsVolume ==
    /\ power = "on" /\ lock = "free"
    /\ engine' = [engine EXCEPT !.state = PausedState]
    /\ power' = "closing"
    /\ answer' = Nothing
    /\ UNCHANGED <<disk, replica, store, boundary, pc, buf, lock, next,
                   crashes, failures>>

-----------------------------------------------------------------------------
(***************************************************************************)
(* The end of a session and the next attach.                               *)
(***************************************************************************)

(* Memory is gone. *)
Off ==
    /\ power' = "off"
    /\ store' = [offset |-> 0, state |-> "Encrypt"]
    /\ engine' = [sector |-> 0, state |-> "Idle"]
    /\ boundary' = 0
    /\ pc' = "irps"
    /\ buf' = Nothing
    /\ lock' = "free"
    /\ next' = 1
    /\ answer' = Nothing

PowerOff ==
    /\ power = "closing" /\ lock = "free"
    /\ Off
    /\ UNCHANGED <<disk, replica, crashes, failures>>

(* Power is lost: a batch on its way to the medium gets there in part.     *)
Crash(done) ==
    /\ power # "off" /\ "crash" \in Faults /\ crashes < MaxCrashes
    /\ disk' = Written(buf, done)
    /\ Off
    /\ crashes' = crashes + 1
    /\ UNCHANGED <<replica, failures>>

(* Power is lost while replica `next' is being written, and tears it.      *)
CrashTearsReplica ==
    /\ power # "off" /\ "metaTorn" \in Faults /\ crashes < MaxCrashes
    /\ Persisting /\ next <= R
    /\ replica' = [replica EXCEPT ![next].valid = FALSE]
    /\ Off
    /\ crashes' = crashes + 1
    /\ UNCHANGED <<disk, failures>>

(* try_mount_handover_volume: open, recover, resume in the persisted       *)
(* direction, bind.  Nothing is written back to the replicas.              *)
Attach ==
    /\ power = "off" /\ Openable
    /\ store' = [offset |-> RecoveredOffset, state |-> RecoveredState]
    /\ engine' = [sector |-> RecoveredOffset,
                  state  |-> IF RecoveredState = "Encrypt"
                             THEN IF RecoveredOffset < N
                                  THEN "Encrypting" ELSE "Idle"
                             ELSE IF RecoveredOffset > 0
                                  THEN "Decrypting" ELSE "Idle"]
    /\ boundary' = RecoveredOffset
    /\ power' = "on"
    /\ answer' = Nothing
    /\ UNCHANGED <<disk, replica, pc, buf, lock, next, crashes, failures>>

-----------------------------------------------------------------------------
UserIrp ==
    \E first \in Sectors : \E last \in first .. N - 1 :
        \/ ProcessRead(first, last)
        \/ \E v \in Values : ProcessWrite(first, last, v)
        \/ \E v \in Values : \E done \in SUBSET (first .. last) :
              ProcessWriteFails(first, last, v, done)

Sweep ==
    \/ SweepRead
    \/ SweepNoWork
    \/ SweepWrite
    \/ \E done \in SUBSET DOMAIN buf : SweepWriteFails(done)
    \/ SweepDone
    \/ SyncBoundary

Persist == WriteReplica \/ WriteReplicaFails

ControlRequest ==
    \/ \E d \in VolumeState : StartSweep(d)
    \/ Pause
    \/ PauseOsVolume

Session ==
    \/ PowerOff
    \/ \E done \in SUBSET DOMAIN buf : Crash(done)
    \/ CrashTearsReplica
    \/ Attach

Next == UserIrp \/ Sweep \/ Persist \/ ControlRequest \/ StartDone \/ Session

Spec == Init /\ [][Next]_vars

(* The volume thread keeps running and a handler that holds the mutex      *)
(* finishes; users, the environment and the operator owe nothing.          *)
Fairness ==
    /\ WF_vars(SweepRead) /\ WF_vars(SweepNoWork)
    /\ WF_vars(SweepWrite) /\ WF_vars(SweepDone)
    /\ WF_vars(SyncBoundary) /\ WF_vars(WriteReplica) /\ WF_vars(StartDone)
    /\ WF_vars(Attach)

FairSpec == Spec /\ Fairness

-----------------------------------------------------------------------------
(***************************************************************************)
(* Properties.                                                             *)
(***************************************************************************)

(* The boundary that says which sectors are ciphertext: the engine's, or,  *)
(* while the machine is off, the one the next attach will recover.         *)
Frontier == IF power = "off" THEN RecoveredOffset ELSE engine.sector

SoundAt(s, f) == disk[s].layer = IF s < f THEN 1 ELSE 0

(* Sectors that are not in the form the boundary announces. *)
Damaged == {s \in Sectors : ~SoundAt(s, Frontier)}

(* Whenever the volume thread services user IRPs, every sector is on the   *)
(* medium exactly as the boundary those IRPs use (the lock-free cache, not *)
(* the engine's own) announces: below it encrypted once, above it          *)
(* plaintext.  Otherwise process_read returns garbage and process_write    *)
(* stores the wrong form.                                                  *)
Transparent ==
    power # "off" /\ pc = "irps" => \A s \in Sectors : SoundAt(s, boundary)

(* Whenever the engine's mutex is free (so also when PAUSE_OS_VOLUME has   *)
(* returned at shutdown), the metadata on disk tells the next attach the   *)
(* very boundary and direction the driver is working with.                 *)
RebootSafe ==
    power # "off" /\ lock = "free" =>
        /\ Openable
        /\ RecoveredOffset = engine.sector
        /\ RecoveredState = store.state

(* The documented limit of the design, for everything that can go wrong:  *)
(* a power loss wherever it strikes, a batch the device writes in part and *)
(* the loop then tries again, a boundary that is not persisted and leaves  *)
(* the cache behind the engine, each cost at most one batch of sectors.    *)
OneBatchPerIncident ==
    power # "off" \/ Openable =>
        Cardinality(Damaged) <= BatchSectors * (crashes + failures)

(* What the user of the volume sees of it. *)
PlainView ==
    [s \in Sectors |-> IF SoundAt(s, Frontier) THEN disk[s].val ELSE Garbled]

AnswerView ==
    [s \in DOMAIN answer |->
        IF answer[s].layer = 0 THEN answer[s].val ELSE Garbled]

Plain == INSTANCE PlainVolume
            WITH content <- PlainView, answer <- AnswerView

(* The volume behind the filter behaves like a plaintext volume: reads     *)
(* return the last values written, and sweeping, switching direction,      *)
(* pausing, shutting down and attaching again change no sector.            *)
RefinesPlainVolume == Plain!Spec

(* The sweep has come to rest and user IRPs use the engine's boundary. *)
Settled ==
    \/ power = "off"
    \/ engine.state \notin Sweeping /\ boundary = engine.sector

Failure ==
    \/ \E done \in SUBSET DOMAIN buf : SweepWriteFails(done)
    \/ WriteReplicaFails

(* If control requests stop arriving and the device stops failing, the     *)
(* sweep comes to rest and the cache catches up with the engine, whatever  *)
(* failed before and however many user IRPs are serviced in between.       *)
SweepComesToRest == <>[][~ControlRequest /\ ~Failure]_vars => <>[]Settled

=============================================================================
