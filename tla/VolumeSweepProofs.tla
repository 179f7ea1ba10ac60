------------------------- MODULE VolumeSweepProofs -------------------------
(***************************************************************************)
(* Theorems about VolumeSweep that hold for every size of the volume, of   *)
(* the batch and of the set of replicas.                                   *)
(***************************************************************************)
EXTENDS VolumeSweep, NatLemmas, FiniteSetTheorems, TLAPS

(* load_offset has something to return as soon as one replica is valid. *)
LEMMA RecoveredOffsetIsLargest ==
    ASSUME replica \in [Replicas -> [offset : Offsets, state : VolumeState,
                                     valid : BOOLEAN]],
           ValidReplicas # {}
    PROVE  /\ RecoveredOffset \in Offsets
           /\ \E i \in ValidReplicas : replica[i].offset = RecoveredOffset
           /\ \A i \in ValidReplicas : replica[i].offset <= RecoveredOffset
<1> DEFINE Left == {N - replica[i].offset : i \in ValidReplicas}
<1>1. \A i \in ValidReplicas : replica[i].offset \in 0 .. N
  BY DEF ValidReplicas, Offsets
<1>2. N \in Nat
  BY SizeAssumption
<1>3. Left \subseteq Nat /\ Left # {}
  BY <1>1, <1>2
<1>4. PICK x \in Left : \A y \in Left : x <= y
  <2> HIDE DEF Left
  <2> QED BY <1>3, LeastExists
<1>5. PICK i \in ValidReplicas : x = N - replica[i].offset
  BY <1>4
<1>6. \A j \in ValidReplicas : replica[j].offset <= replica[i].offset
  <2> TAKE j \in ValidReplicas
  <2>1. N - replica[i].offset <= N - replica[j].offset
    BY <1>4, <1>5
  <2> QED BY <2>1, <1>1, <1>2
<1>7. \E m \in Offsets :
         /\ \E k \in ValidReplicas : replica[k].offset = m
         /\ \A k \in ValidReplicas : replica[k].offset <= m
  BY <1>1, <1>5, <1>6 DEF Offsets
<1> QED BY <1>7 DEF RecoveredOffset

(* into_store has a first replica to take the direction from. *)
LEMMA FirstValidIsValid ==
    ASSUME ValidReplicas # {}
    PROVE  FirstValid \in ValidReplicas
<1>1. ValidReplicas \subseteq Nat
  BY SizeAssumption DEF ValidReplicas, Replicas
<1>2. \E i \in ValidReplicas : \A j \in ValidReplicas : i <= j
  BY <1>1, LeastExists
<1> QED BY <1>2 DEF FirstValid

(* A volume that opens has a replica to recover from. *)
LEMMA OpenableHasReplica ==
    ASSUME Openable
    PROVE  ValidReplicas # {}
<1>1. 1 \in Replicas /\ R \in Replicas
  BY SizeAssumption DEF Replicas
<1> QED BY <1>1 DEF Openable, ValidReplicas

-----------------------------------------------------------------------------
(***************************************************************************)
(* Type correctness.                                                       *)
(***************************************************************************)

LEMMA CryptType ==
    ASSUME NEW c \in Content, NEW k \in {-1, 1}
    PROVE  Crypt(c, k) \in Content
BY DEF Crypt, Content

(* Whatever part of a request reaches the medium, the medium stays typed. *)
LEMMA WrittenType ==
    ASSUME disk \in [Sectors -> Content],
           NEW src, NEW done, \A s \in done : src[s] \in Content
    PROVE  Written(src, done) \in [Sectors -> Content]
BY DEF Written

(* Clamping keeps a batch and the boundary behind it inside the volume. *)
LEMMA BatchInVolume ==
    ASSUME engine \in [sector : Offsets, state : EngineState]
    PROVE  Batch \subseteq Sectors /\ NextSector \in Offsets
<1>1. N \in Nat /\ BatchSectors \in Nat \ {0}
  BY SizeAssumption
<1>2. engine.sector \in Int /\ 0 <= engine.sector /\ engine.sector <= N
  BY <1>1 DEF Offsets
<1>3. CASE engine.state = "Encrypting"
  BY <1>1, <1>2, <1>3 DEF Batch, BatchCount, NextSector, Lesser, Sectors,
     Offsets
<1>4. CASE engine.state # "Encrypting"
  BY <1>1, <1>2, <1>4 DEF Batch, BatchCount, NextSector, Lesser, Sectors,
     Offsets
<1> QED BY <1>3, <1>4

(* The buffer of a user's write holds sector contents. *)
LEMMA WriteBufferType ==
    ASSUME NEW first, NEW last, NEW v \in Values,
           NEW s \in first .. last
    PROVE  WriteBuffer(first, last, v)[s] \in Content
BY DEF WriteBuffer, Content

LEMMA BufType ==
    ASSUME TypeOK
    PROVE  DOMAIN buf \subseteq Sectors /\ \A s \in DOMAIN buf : buf[s] \in Content
BY DEF TypeOK

LEMMA SealedType ==
    ASSUME TypeOK
    PROVE  Sealed(next) \in [Replicas -> [offset : Offsets, state : VolumeState,
                                         valid : BOOLEAN]]
<1>1. [offset |-> store.offset, state |-> store.state, valid |-> TRUE]
         \in [offset : Offsets, state : VolumeState, valid : BOOLEAN]
  BY DEF TypeOK
<1> QED BY <1>1 DEF Sealed, TypeOK

LEMMA NothingType == \E S \in SUBSET Sectors : Nothing \in [S -> Content]
<1>1. Nothing \in [{} -> Content]
  BY DEF Nothing
<1> QED BY <1>1

LEMMA TypeInit == Init => TypeOK
<1> SUFFICES ASSUME Init PROVE TypeOK
  OBVIOUS
<1>1. disk \in [Sectors -> Content]
  BY DEF Init, Content
<1>2. \E S \in SUBSET Sectors : buf \in [S -> Content]
  BY NothingType DEF Init
<1>3. \E S \in SUBSET Sectors : answer \in [S -> Content]
  BY NothingType DEF Init
<1> QED BY <1>1, <1>2, <1>3, SizeAssumption
        DEF Init, TypeOK, Offsets, VolumeState, EngineState, PcKinds, Replicas

LEMMA TypeOff ==
    ASSUME TypeOK, Off, disk' \in [Sectors -> Content],
           replica' \in [Replicas -> [offset : Offsets, state : VolumeState,
                                      valid : BOOLEAN]],
           crashes' \in Nat, failures' \in Nat
    PROVE  TypeOK'
<1>1. \E S \in SUBSET Sectors : buf' \in [S -> Content]
  BY NothingType DEF Off
<1>2. \E S \in SUBSET Sectors : answer' \in [S -> Content]
  BY NothingType DEF Off
<1> QED BY <1>1, <1>2, SizeAssumption
        DEF TypeOK, Off, Offsets, VolumeState, EngineState, PcKinds

LEMMA TypeStep == TypeOK /\ [Next]_vars => TypeOK'
<1> SUFFICES ASSUME TypeOK, [Next]_vars PROVE TypeOK'
  OBVIOUS
<1>n. \E S \in SUBSET Sectors : Nothing \in [S -> Content]
  BY NothingType
<1>b. DOMAIN buf \subseteq Sectors /\ \A s \in DOMAIN buf : buf[s] \in Content
  BY BufType
<1>1. ASSUME NEW first \in Sectors, NEW last \in first .. N - 1,
             ProcessRead(first, last)
      PROVE  TypeOK'
  <2>1. first .. last \subseteq Sectors
    BY SizeAssumption DEF Sectors
  <2>2. \A s \in first .. last : disk[s] \in Content
    BY <2>1 DEF TypeOK
  <2>3. \A s \in first .. last : Crypt(disk[s], -1) \in Content
    BY <2>2, CryptType
  <2>4. answer' \in [first .. last -> Content]
    BY <1>1, <2>2, <2>3 DEF ProcessRead
  <2>5. \E S \in SUBSET Sectors : answer' \in [S -> Content]
    BY <2>1, <2>4
  <2> QED BY <1>1, <2>5 DEF ProcessRead, TypeOK
<1>2. ASSUME NEW first \in Sectors, NEW last \in first .. N - 1,
             NEW v \in Values, ProcessWrite(first, last, v)
      PROVE  TypeOK'
  <2>1. disk' \in [Sectors -> Content]
    BY <1>2, WrittenType, WriteBufferType DEF ProcessWrite, TypeOK
  <2> QED BY <1>2, <1>n, <2>1 DEF ProcessWrite, TypeOK
<1>3. ASSUME NEW first \in Sectors, NEW last \in first .. N - 1,
             NEW v \in Values, NEW done \in SUBSET (first .. last),
             ProcessWriteFails(first, last, v, done)
      PROVE  TypeOK'
  <2>1. disk' \in [Sectors -> Content]
    BY <1>3, WrittenType, WriteBufferType DEF ProcessWriteFails, TypeOK
  <2> QED BY <1>3, <1>n, <2>1 DEF ProcessWriteFails, TypeOK
<1>4. CASE SweepRead
  <2>1. Batch \subseteq Sectors
    BY BatchInVolume DEF TypeOK
  <2>2. \A s \in Batch : disk[s] \in Content
    BY <2>1 DEF TypeOK
  <2>3. \A s \in Batch : /\ Crypt(disk[s], 1) \in Content
                        /\ Crypt(disk[s], -1) \in Content
    BY <2>2, CryptType
  <2>4. buf' \in [Batch -> Content]
    BY <1>4, <2>3 DEF SweepRead
  <2>5. \E S \in SUBSET Sectors : buf' \in [S -> Content]
    BY <2>1, <2>4
  <2> QED BY <1>4, <1>n, <2>5 DEF SweepRead, TypeOK, PcKinds
<1>5. CASE SweepNoWork
  BY <1>5, <1>n DEF SweepNoWork, TypeOK, PcKinds, EngineState
<1>6. CASE SweepWrite
  <2>1. disk' \in [Sectors -> Content]
    BY <1>6, <1>b, WrittenType DEF SweepWrite, TypeOK
  <2>2. NextSector \in Offsets
    BY BatchInVolume DEF TypeOK
  <2> QED BY <1>6, <1>n, <2>1, <2>2, SizeAssumption
          DEF SweepWrite, TypeOK, PcKinds
<1>7. ASSUME NEW done \in SUBSET DOMAIN buf, SweepWriteFails(done)
      PROVE  TypeOK'
  <2>1. disk' \in [Sectors -> Content]
    BY <1>7, <1>b, WrittenType DEF SweepWriteFails, TypeOK
  <2> QED BY <1>7, <1>n, <2>1 DEF SweepWriteFails, TypeOK, PcKinds
<1>8. CASE SweepDone
  BY <1>8, <1>n DEF SweepDone, TypeOK, PcKinds, EngineState
<1>9. CASE SyncBoundary
  BY <1>9, <1>n DEF SyncBoundary, TypeOK, PcKinds
<1>10. CASE WriteReplica
  <2>1. replica' \in [Replicas -> [offset : Offsets, state : VolumeState,
                                   valid : BOOLEAN]]
    BY <1>10, SealedType DEF WriteReplica
  <2>2. next' \in 1 .. R + 1
    BY <1>10, SizeAssumption DEF WriteReplica, TypeOK
  <2> QED BY <1>10, <1>n, <2>1, <2>2 DEF WriteReplica, TypeOK
<1>11. CASE WriteReplicaFails
  <2>1. replica' \in [Replicas -> [offset : Offsets, state : VolumeState,
                                   valid : BOOLEAN]]
    BY <1>11, SealedType DEF WriteReplicaFails, TypeOK
  <2> QED BY <1>11, <1>n, <2>1
          DEF WriteReplicaFails, StartedState, TypeOK, PcKinds, EngineState
<1>12. ASSUME NEW d \in VolumeState, StartSweep(d) PROVE TypeOK'
  BY <1>12, <1>n, SizeAssumption DEF StartSweep, TypeOK
<1>13. CASE StartDone
  BY <1>13, <1>n DEF StartDone, StartedState, TypeOK, EngineState
<1>14. CASE Pause
  BY <1>14, <1>n DEF Pause, PausedState, TypeOK, EngineState
<1>15. CASE PauseOsVolume
  BY <1>15, <1>n DEF PauseOsVolume, PausedState, TypeOK, EngineState
<1>16. CASE PowerOff
  BY <1>16, TypeOff DEF PowerOff, TypeOK
<1>17. ASSUME NEW done \in SUBSET DOMAIN buf, Crash(done) PROVE TypeOK'
  <2>1. disk' \in [Sectors -> Content]
    BY <1>17, <1>b, WrittenType DEF Crash, TypeOK
  <2>2. /\ Off
        /\ replica' = replica
        /\ crashes' \in Nat /\ failures' \in Nat
    BY <1>17 DEF Crash, TypeOK
  <2> QED BY <2>1, <2>2, TypeOff DEF TypeOK
<1>18. CASE CrashTearsReplica
  <2>1. replica' \in [Replicas -> [offset : Offsets, state : VolumeState,
                                   valid : BOOLEAN]]
    BY <1>18 DEF CrashTearsReplica, TypeOK
  <2>2. /\ Off
        /\ disk' = disk
        /\ crashes' \in Nat /\ failures' \in Nat
    BY <1>18 DEF CrashTearsReplica, TypeOK
  <2> QED BY <2>1, <2>2, TypeOff DEF TypeOK
<1>19. CASE Attach
  <2>1. ValidReplicas # {}
    BY <1>19, OpenableHasReplica DEF Attach
  <2>2. RecoveredOffset \in Offsets
    BY <2>1, RecoveredOffsetIsLargest DEF TypeOK
  <2>3. RecoveredState \in VolumeState
    BY <2>1, FirstValidIsValid DEF RecoveredState, ValidReplicas, TypeOK
  <2> QED BY <1>19, <1>n, <2>2, <2>3 DEF Attach, TypeOK, EngineState
<1>20. CASE UNCHANGED vars
  BY <1>20 DEF vars, TypeOK
<1> QED
  BY <1>1, <1>2, <1>3, <1>4, <1>5, <1>6, <1>7, <1>8, <1>9, <1>10, <1>11,
     <1>12, <1>13, <1>14, <1>15, <1>16, <1>17, <1>18, <1>19, <1>20
  DEF Next, UserIrp, Sweep, Persist, ControlRequest, Session

(* Every reachable state is well typed: in particular the batch never      *)
(* leaves the volume, the boundary never passes its ends, and an attach    *)
(* always finds an offset and a direction to adopt.                        *)
THEOREM TypeCorrect == Spec => []TypeOK
BY TypeInit, TypeStep, PTL DEF Spec

-----------------------------------------------------------------------------
(***************************************************************************)
(* What the metadata on disk says, as long as writing it does not fail.    *)
(***************************************************************************)

(* The metadata announces the boundary and the direction in force. *)
Agreed ==
    /\ Openable
    /\ RecoveredOffset = engine.sector
    /\ RecoveredState = store.state

(* RebootSafe speaks of the states in which the mutex is free.  Its         *)
(* inductive form adds the states in which a batch is on its way, and says *)
(* how far write_all_replicas has come in the others.                      *)
PersistInv ==
    /\ pc \in {"write", "store"} <=> lock = "sweep"
    /\ power = "off" => pc = "irps" /\ lock = "free"
    /\ store.offset = engine.sector
    /\ Persisting =>
          \A i \in Replicas : i < next =>
             replica[i] = [offset |-> store.offset, state |-> store.state,
                           valid |-> TRUE]
    /\ power # "off" /\ ~Persisting => Agreed

(* The metadata keeps announcing what it announced while nobody touches    *)
(* the replicas, the engine's boundary and the store's direction.          *)
LEMMA AgreedStable ==
    ASSUME Agreed, replica' = replica, engine'.sector = engine.sector,
           store'.state = store.state
    PROVE  Agreed'
BY DEF Agreed, Openable, RecoveredOffset, RecoveredState, FirstValid,
       ValidReplicas

(* Once every replica has been sealed from the store, recovery gives back  *)
(* what the store holds.                                                   *)
LEMMA SealedAgrees ==
    ASSUME TypeOK,
           \A i \in Replicas :
              replica[i] = [offset |-> store.offset, state |-> store.state,
                            valid |-> TRUE]
    PROVE  /\ Openable
           /\ RecoveredOffset = store.offset
           /\ RecoveredState = store.state
<1>1. 1 \in Replicas /\ R \in Replicas
  BY SizeAssumption DEF Replicas
<1>2. ValidReplicas = Replicas
  BY DEF ValidReplicas
<1>3. Openable
  BY <1>1, SizeAssumption DEF Openable
<1>4. \E i \in ValidReplicas : replica[i].offset = RecoveredOffset
  BY <1>1, <1>2, RecoveredOffsetIsLargest DEF TypeOK
<1>5. RecoveredOffset = store.offset
  BY <1>2, <1>4
<1>6. FirstValid \in Replicas
  BY <1>1, <1>2, FirstValidIsValid
<1> QED BY <1>3, <1>5, <1>6 DEF RecoveredState

LEMMA PersistInit == Init => PersistInv
<1> SUFFICES ASSUME Init PROVE PersistInv
  OBVIOUS
<1>1. TypeOK
  BY TypeInit
<1>2. \A i \in Replicas :
         replica[i] = [offset |-> store.offset, state |-> store.state,
                       valid |-> TRUE]
  BY DEF Init
<1>3. Agreed
  BY <1>1, <1>2, SealedAgrees DEF Agreed, Init
<1> QED BY <1>2, <1>3 DEF PersistInv, Init, Persisting

(* An action that leaves the protocol of the metadata alone. *)
LEMMA PersistUntouched ==
    ASSUME PersistInv,
           UNCHANGED <<replica, store, power, pc, lock, next>>,
           engine'.sector = engine.sector
    PROVE  PersistInv'
<1>1. Agreed => Agreed'
  BY AgreedStable
<1> QED BY <1>1 DEF PersistInv, Persisting

LEMMA PersistOff ==
    ASSUME Off
    PROVE  PersistInv'
BY DEF Off, PersistInv, Persisting

LEMMA PersistStep ==
    ASSUME "meta" \notin Faults, TypeOK, PersistInv, [Next]_vars
    PROVE  PersistInv'
<1>1. CASE UserIrp
  <2>1. UNCHANGED <<replica, store, power, pc, lock, next, engine>>
    BY <1>1 DEF UserIrp, ProcessRead, ProcessWrite, ProcessWriteFails
  <2> QED BY <2>1, PersistUntouched
<1>2. CASE SweepRead
  <2>1. ~Persisting /\ power # "off" /\ ~Persisting'
    BY <1>2 DEF SweepRead, Persisting
  <2>2. Agreed'
    BY <1>2, <2>1, AgreedStable DEF SweepRead, PersistInv
  <2> QED BY <1>2, <2>1, <2>2 DEF SweepRead, PersistInv
<1>3. CASE SweepNoWork
  <2>1. ~Persisting /\ power # "off" /\ ~Persisting'
    BY <1>3 DEF SweepNoWork, Persisting
  <2>2. engine'.sector = engine.sector
    BY <1>3 DEF SweepNoWork, TypeOK
  <2>3. Agreed'
    BY <1>3, <2>1, <2>2, AgreedStable DEF SweepNoWork, PersistInv
  <2> QED BY <1>3, <2>1, <2>2, <2>3 DEF SweepNoWork, PersistInv
<1>4. CASE SweepWrite
  <2>1. store'.offset = engine'.sector
    BY <1>4 DEF SweepWrite, TypeOK
  <2>2. \A i \in Replicas : ~(i < next')
    BY <1>4 DEF SweepWrite, Replicas
  <2> QED BY <1>4, <2>1, <2>2 DEF SweepWrite, PersistInv, Persisting
<1>5. ASSUME NEW done \in SUBSET DOMAIN buf, SweepWriteFails(done)
      PROVE  PersistInv'
  <2>1. lock = "sweep" /\ power # "off" /\ ~Persisting /\ ~Persisting'
    BY <1>5 DEF SweepWriteFails, Persisting, PersistInv
  <2>2. Agreed'
    BY <1>5, <2>1, AgreedStable DEF SweepWriteFails, PersistInv
  <2> QED BY <1>5, <2>1, <2>2 DEF SweepWriteFails, PersistInv
<1>6. CASE SweepDone
  <2>1. \A i \in Replicas : i < next
    BY <1>6, SizeAssumption DEF SweepDone, Replicas, TypeOK
  <2>2. \A i \in Replicas :
           replica[i] = [offset |-> store.offset, state |-> store.state,
                         valid |-> TRUE]
    BY <1>6, <2>1 DEF SweepDone, PersistInv, Persisting
  <2>3. Agreed
    BY <2>2, SealedAgrees DEF Agreed, PersistInv
  <2>4. engine'.sector = engine.sector
    BY <1>6 DEF SweepDone, TypeOK
  <2>5. Agreed'
    BY <1>6, <2>3, <2>4, AgreedStable DEF SweepDone
  <2> QED BY <1>6, <2>4, <2>5 DEF SweepDone, PersistInv, Persisting
<1>7. CASE SyncBoundary
  <2>1. ~Persisting /\ power # "off" /\ ~Persisting'
    BY <1>7 DEF SyncBoundary, Persisting
  <2>2. Agreed'
    BY <1>7, <2>1, AgreedStable DEF SyncBoundary, PersistInv
  <2> QED BY <1>7, <2>1, <2>2 DEF SyncBoundary, PersistInv
<1>8. CASE WriteReplica
  <2>1. \A i \in Replicas : i < next' =>
           replica'[i] = [offset |-> store.offset, state |-> store.state,
                          valid |-> TRUE]
    <3> TAKE i \in Replicas
    <3>1. CASE i = next
      BY <1>8, <3>1 DEF WriteReplica, Sealed, TypeOK
    <3>2. CASE i # next
      <4>1. HAVE i < next'
      <4>2. i < next
        BY <1>8, <3>2, <4>1, SizeAssumption DEF WriteReplica, TypeOK, Replicas
      <4>3. replica'[i] = replica[i]
        BY <1>8, <3>2 DEF WriteReplica, Sealed, TypeOK
      <4> QED BY <1>8, <4>2, <4>3 DEF WriteReplica, PersistInv
    <3> QED BY <3>1, <3>2
  <2> QED BY <1>8, <2>1 DEF WriteReplica, PersistInv, Persisting
<1>9. CASE WriteReplicaFails
  BY <1>9 DEF WriteReplicaFails
<1>10. ASSUME NEW d \in VolumeState, StartSweep(d) PROVE PersistInv'
  <2>1. store'.offset = store.offset
    BY <1>10 DEF StartSweep, TypeOK
  <2>2. \A i \in Replicas : ~(i < next')
    BY <1>10 DEF StartSweep, Replicas
  <2> QED BY <1>10, <2>1, <2>2 DEF StartSweep, PersistInv, Persisting
<1>11. CASE StartDone
  <2>1. \A i \in Replicas : i < next
    BY <1>11, SizeAssumption DEF StartDone, Replicas, TypeOK
  <2>2. \A i \in Replicas :
           replica[i] = [offset |-> store.offset, state |-> store.state,
                         valid |-> TRUE]
    BY <1>11, <2>1 DEF StartDone, PersistInv, Persisting
  <2>3. Agreed
    BY <2>2, SealedAgrees DEF Agreed, PersistInv
  <2>4. engine'.sector = engine.sector
    BY <1>11 DEF StartDone, TypeOK
  <2>5. Agreed'
    BY <1>11, <2>3, <2>4, AgreedStable DEF StartDone
  <2> QED BY <1>11, <2>4, <2>5 DEF StartDone, PersistInv, Persisting
<1>12. CASE Pause
  <2>1. engine'.sector = engine.sector
    BY <1>12 DEF Pause, TypeOK
  <2> QED BY <1>12, <2>1, PersistUntouched DEF Pause
<1>13. CASE PauseOsVolume
  <2>1. engine'.sector = engine.sector /\ ~Persisting /\ ~Persisting'
    BY <1>13 DEF PauseOsVolume, Persisting, PersistInv, TypeOK
  <2>2. Agreed'
    BY <1>13, <2>1, AgreedStable DEF PauseOsVolume, PersistInv
  <2> QED BY <1>13, <2>1, <2>2 DEF PauseOsVolume, PersistInv
<1>14. CASE PowerOff
  BY <1>14, PersistOff DEF PowerOff
<1>15. ASSUME NEW done \in SUBSET DOMAIN buf, Crash(done) PROVE PersistInv'
  BY <1>15, PersistOff DEF Crash
<1>16. CASE CrashTearsReplica
  BY <1>16, PersistOff DEF CrashTearsReplica
<1>17. CASE Attach
  <2>1. /\ Openable' = Openable
        /\ RecoveredOffset' = RecoveredOffset
        /\ RecoveredState' = RecoveredState
    BY <1>17 DEF Attach, Openable, RecoveredOffset, RecoveredState,
       FirstValid, ValidReplicas
  <2>2. Agreed'
    BY <1>17, <2>1 DEF Attach, Agreed
  <2> QED BY <1>17, <2>2 DEF Attach, PersistInv, Persisting
<1>18. CASE UNCHANGED vars
  BY <1>18, PersistUntouched DEF vars
<1> QED
  BY <1>1, <1>2, <1>3, <1>4, <1>5, <1>6, <1>7, <1>8, <1>9, <1>10, <1>11,
     <1>12, <1>13, <1>14, <1>15, <1>16, <1>17, <1>18
  DEF Next, Sweep, Persist, ControlRequest, Session

(* Unless the write of a replica fails, whenever the engine's mutex is     *)
(* free the metadata on disk tells the next attach the boundary and the    *)
(* direction in force: through every interleaving of the sweep with START, *)
(* PAUSE and PAUSE_OS_VOLUME, any number of power losses, batches written  *)
(* in part and replicas torn.                                              *)
THEOREM RebootSafety ==
    ASSUME "meta" \notin Faults
    PROVE  Spec => []RebootSafe
<1>1. Init => TypeOK /\ PersistInv
  BY TypeInit, PersistInit
<1>2. TypeOK /\ PersistInv /\ [Next]_vars => TypeOK' /\ PersistInv'
  BY TypeStep, PersistStep
<1>3. TypeOK /\ PersistInv => RebootSafe
  BY DEF PersistInv, RebootSafe, Persisting, Agreed
<1> QED BY <1>1, <1>2, <1>3, PTL DEF Spec

-----------------------------------------------------------------------------
(***************************************************************************)
(* What user IRPs see, when at most plain write errors happen.             *)
(***************************************************************************)

(* Every sector is in the form the boundary announces, a batch on its way  *)
(* to the medium is the transformed content of what it will overwrite, and *)
(* outside a batch the cache is the engine's boundary.                     *)
SoundInv ==
    /\ \A s \in Sectors : SoundAt(s, Frontier)
    /\ pc = "write" =>
          buf = [s \in Batch |->
                   Crypt(disk[s],
                         IF engine.state = "Encrypting" THEN 1 ELSE -1)]
    /\ power # "off" /\ pc \in {"irps", "write"} => boundary = engine.sector

(* crypto_range and the clamp of the pipeline pick exactly the sectors of  *)
(* the request that lie below the boundary.                                *)
LEMMA CryptoSpanExact ==
    ASSUME boundary \in Offsets, NEW first \in Sectors,
           NEW last \in first .. N - 1, NEW s \in first .. last
    PROVE  s \in CryptoSpan(first, last - first + 1) <=> s < boundary
<1>1. N \in Nat /\ boundary \in Nat /\ first \in Nat /\ last \in Int /\ s \in Int
  BY SizeAssumption DEF Offsets, Sectors
<1>2. first <= s /\ s <= last
  BY <1>1
<1> QED BY <1>1, <1>2 DEF CryptoSpan, Lesser

(* A user's write leaves the form of a sound sector as it was. *)
LEMMA WriteKeepsForm ==
    ASSUME TypeOK, NEW first \in Sectors, NEW last \in first .. N - 1,
           NEW v \in Values, NEW done \in SUBSET (first .. last),
           disk' = Written(WriteBuffer(first, last, v), done),
           NEW s \in Sectors, SoundAt(s, boundary)
    PROVE  disk'[s].layer = disk[s].layer
<1>1. CASE s \in done
  <2>1. s \in first .. last /\ disk'[s] = WriteBuffer(first, last, v)[s]
    BY <1>1 DEF Written
  <2>2. disk'[s].layer = IF s \in CryptoSpan(first, last - first + 1)
                         THEN 1 ELSE 0
    BY <2>1 DEF WriteBuffer
  <2>3. s \in CryptoSpan(first, last - first + 1) <=> s < boundary
    BY <2>1, CryptoSpanExact DEF TypeOK
  <2> QED BY <2>2, <2>3 DEF SoundAt
<1>2. CASE s \notin done
  BY <1>2 DEF Written
<1> QED BY <1>1, <1>2

(* A user's write, whatever part of it reaches the medium, leaves every    *)
(* sector in the form the boundary announces.                              *)
LEMMA WriteKeepsSound ==
    ASSUME TypeOK, power # "off", boundary = engine.sector,
           \A s \in Sectors : SoundAt(s, Frontier),
           NEW first \in Sectors, NEW last \in first .. N - 1,
           NEW v \in Values, NEW done \in SUBSET (first .. last),
           disk' = Written(WriteBuffer(first, last, v), done),
           UNCHANGED <<power, engine>>
    PROVE  \A s \in Sectors : SoundAt(s, Frontier)'
<1> TAKE s \in Sectors
<1>1. Frontier = boundary /\ Frontier' = Frontier
  BY DEF Frontier
<1>2. disk'[s].layer = disk[s].layer
  BY <1>1, WriteKeepsForm
<1> QED BY <1>1, <1>2 DEF SoundAt

(* The batch and the move of the boundary cancel out, sector by sector. *)
LEMMA BatchMovesSound ==
    ASSUME TypeOK, SweepWrite, NEW s \in Sectors, SoundAt(s, engine.sector),
           buf = [x \in Batch |->
                    Crypt(disk[x],
                          IF engine.state = "Encrypting" THEN 1 ELSE -1)]
    PROVE  /\ SoundAt(s, engine.sector)'
           /\ s \notin Batch => disk'[s] = disk[s]
<1>1. /\ N \in Nat /\ BatchSectors \in Nat \ {0} /\ s \in Nat
      /\ engine.sector \in Nat /\ engine.sector <= N
      /\ s < N
  BY SizeAssumption DEF TypeOK, Offsets, Sectors
<1>2. engine'.sector = NextSector
  BY DEF SweepWrite, TypeOK
<1>3. disk[s].layer = IF s < engine.sector THEN 1 ELSE 0
  BY DEF SoundAt
<1>4. disk'[s] = IF s \in Batch THEN buf[s] ELSE disk[s]
  BY DEF SweepWrite, Written
<1>5. s \in Batch => buf[s].layer =
         disk[s].layer + (IF engine.state = "Encrypting" THEN 1 ELSE -1)
  BY DEF SweepWrite, Crypt
<1>6. CASE engine.state = "Encrypting"
  <2>1. s \in Batch <=> engine.sector <= s /\ s < NextSector
    BY <1>1, <1>6 DEF Batch, NextSector, BatchCount, Lesser
  <2>2. NextSector \in Nat /\ engine.sector <= NextSector
    BY <1>1, <1>6 DEF NextSector, BatchCount, Lesser
  <2>3. disk'[s].layer = IF s < NextSector THEN 1 ELSE 0
    BY <1>1, <1>3, <1>4, <1>5, <1>6, <2>1, <2>2
  <2> QED BY <1>2, <1>4, <2>3 DEF SoundAt
<1>7. CASE engine.state # "Encrypting"
  <2>1. s \in Batch <=> NextSector <= s /\ s < engine.sector
    BY <1>1, <1>7 DEF Batch, NextSector, BatchCount, Lesser
  <2>2. NextSector \in Nat /\ NextSector <= engine.sector
    BY <1>1, <1>7 DEF NextSector, BatchCount, Lesser
  <2>3. disk'[s].layer = IF s < NextSector THEN 1 ELSE 0
    BY <1>1, <1>3, <1>4, <1>5, <1>7, <2>1, <2>2
  <2> QED BY <1>2, <1>4, <2>3 DEF SoundAt
<1> QED BY <1>6, <1>7

LEMMA BatchKeepsSound ==
    ASSUME TypeOK, SoundInv, power # "off", SweepWrite
    PROVE  \A s \in Sectors : SoundAt(s, Frontier)'
<1> TAKE s \in Sectors
<1>1. Frontier = engine.sector /\ Frontier' = engine'.sector
  BY DEF Frontier, SweepWrite
<1>2. SoundAt(s, engine.sector)
  BY <1>1 DEF SoundInv
<1>3. SoundAt(s, engine.sector)'
  BY <1>2, BatchMovesSound DEF SoundInv, SweepWrite
<1> QED BY <1>1, <1>3 DEF SoundAt

(* An action that touches neither the medium nor the boundary. *)
LEMMA SoundUntouched ==
    ASSUME \A s \in Sectors : SoundAt(s, Frontier), disk' = disk,
           Frontier' = Frontier
    PROVE  \A s \in Sectors : SoundAt(s, Frontier)'
BY DEF SoundAt

LEMMA SoundInit == Init => SoundInv
<1> SUFFICES ASSUME Init PROVE SoundInv
  OBVIOUS
<1>1. Frontier = 0
  BY DEF Init, Frontier
<1>2. ASSUME NEW s \in Sectors PROVE SoundAt(s, Frontier)
  <2>1. disk[s].layer = 0
    BY DEF Init
  <2>2. s \in Nat
    BY SizeAssumption DEF Sectors
  <2> QED BY <1>1, <2>1, <2>2 DEF SoundAt
<1> QED BY <1>2 DEF SoundInv, Init

LEMMA SoundStep ==
    ASSUME Faults \subseteq {"write"}, TypeOK, PersistInv, SoundInv, [Next]_vars
    PROVE  SoundInv'
<1>0. \A s \in Sectors : SoundAt(s, Frontier)
  BY DEF SoundInv
<1>1. ASSUME NEW first \in Sectors, NEW last \in first .. N - 1,
             ProcessRead(first, last)
      PROVE  SoundInv'
  <2>1. Frontier' = Frontier
    BY <1>1 DEF ProcessRead, Frontier
  <2> QED BY <1>0, <1>1, <2>1, SoundUntouched DEF ProcessRead, SoundInv
<1>2. ASSUME NEW first \in Sectors, NEW last \in first .. N - 1,
             NEW v \in Values, ProcessWrite(first, last, v)
      PROVE  SoundInv'
  <2>1. \A s \in Sectors : SoundAt(s, Frontier)'
    BY <1>0, <1>2, WriteKeepsSound DEF ProcessWrite, SoundInv
  <2> QED BY <1>2, <2>1 DEF ProcessWrite, SoundInv
<1>3. ASSUME NEW first \in Sectors, NEW last \in first .. N - 1,
             NEW v \in Values, NEW done \in SUBSET (first .. last),
             ProcessWriteFails(first, last, v, done)
      PROVE  SoundInv'
  <2>1. \A s \in Sectors : SoundAt(s, Frontier)'
    BY <1>0, <1>3, WriteKeepsSound DEF ProcessWriteFails, SoundInv
  <2> QED BY <1>3, <2>1 DEF ProcessWriteFails, SoundInv
<1>4. CASE SweepRead
  <2>1. Frontier' = Frontier
    BY <1>4 DEF SweepRead, Frontier
  <2>2. buf' = [s \in Batch |->
                  Crypt(disk[s],
                        IF engine.state = "Encrypting" THEN 1 ELSE -1)]'
    BY <1>4 DEF SweepRead, Batch, BatchCount
  <2> QED BY <1>0, <1>4, <2>1, <2>2, SoundUntouched DEF SweepRead, SoundInv
<1>5. CASE SweepNoWork
  <2>1. Frontier' = Frontier
    BY <1>5 DEF SweepNoWork, Frontier, TypeOK
  <2> QED BY <1>0, <1>5, <2>1, SoundUntouched DEF SweepNoWork, SoundInv
<1>6. CASE SweepWrite
  <2>1. power # "off"
    BY <1>6 DEF SweepWrite, PersistInv
  <2>2. \A s \in Sectors : SoundAt(s, Frontier)'
    BY <1>6, <2>1, BatchKeepsSound
  <2> QED BY <1>6, <2>2 DEF SweepWrite, SoundInv
<1>7. ASSUME NEW done \in SUBSET DOMAIN buf, SweepWriteFails(done)
      PROVE  SoundInv'
  <2>1. done = {}
    BY <1>7 DEF SweepWriteFails
  <2>2. disk' = disk
    BY <1>7, <2>1 DEF SweepWriteFails, Written, TypeOK
  <2>3. Frontier' = Frontier
    BY <1>7 DEF SweepWriteFails, Frontier, RecoveredOffset, ValidReplicas
  <2> QED BY <1>0, <1>7, <2>2, <2>3, SoundUntouched
          DEF SweepWriteFails, SoundInv
<1>8. CASE SweepDone
  <2>1. Frontier' = Frontier
    BY <1>8 DEF SweepDone, Frontier, PersistInv, TypeOK
  <2> QED BY <1>0, <1>8, <2>1, SoundUntouched DEF SweepDone, SoundInv
<1>9. CASE SyncBoundary
  <2>1. Frontier' = Frontier
    BY <1>9 DEF SyncBoundary, Frontier
  <2> QED BY <1>0, <1>9, <2>1, SoundUntouched DEF SyncBoundary, SoundInv
<1>10. CASE WriteReplica
  <2>1. power # "off" /\ pc # "write"
    BY <1>10 DEF WriteReplica, PersistInv, Persisting
  <2>2. Frontier' = Frontier
    BY <1>10, <2>1 DEF WriteReplica, Frontier
  <2> QED BY <1>0, <1>10, <2>1, <2>2, SoundUntouched DEF WriteReplica, SoundInv
<1>11. CASE WriteReplicaFails
  BY <1>11 DEF WriteReplicaFails
<1>12. ASSUME NEW d \in VolumeState, StartSweep(d) PROVE SoundInv'
  <2>1. pc # "write" /\ Frontier' = Frontier
    BY <1>12 DEF StartSweep, Frontier, PersistInv
  <2> QED BY <1>0, <1>12, <2>1, SoundUntouched DEF StartSweep, SoundInv
<1>13. CASE StartDone
  <2>1. power # "off" /\ pc # "write" /\ engine'.sector = engine.sector
    BY <1>13 DEF StartDone, PersistInv, TypeOK
  <2>2. Frontier' = Frontier
    BY <1>13, <2>1 DEF StartDone, Frontier
  <2> QED BY <1>0, <1>13, <2>1, <2>2, SoundUntouched DEF StartDone, SoundInv
<1>14. CASE Pause \/ PauseOsVolume
  <2>1. /\ power # "off" /\ power' # "off" /\ pc # "write"
        /\ engine'.sector = engine.sector
    BY <1>14 DEF Pause, PauseOsVolume, PersistInv, TypeOK
  <2>2. Frontier' = Frontier
    BY <2>1 DEF Frontier
  <2>3. UNCHANGED <<disk, boundary, pc>>
    BY <1>14 DEF Pause, PauseOsVolume
  <2> QED BY <1>0, <2>1, <2>2, <2>3, SoundUntouched DEF SoundInv
<1>15. CASE PowerOff
  <2>1. Agreed
    BY <1>15 DEF PowerOff, PersistInv, Persisting
  <2>2. Frontier = engine.sector /\ Frontier' = RecoveredOffset'
    BY <1>15 DEF PowerOff, Off, Frontier
  <2>3. RecoveredOffset' = RecoveredOffset
    BY <1>15 DEF PowerOff, RecoveredOffset, ValidReplicas
  <2>4. Frontier' = Frontier
    BY <2>1, <2>2, <2>3 DEF Agreed
  <2> QED BY <1>0, <1>15, <2>4, SoundUntouched DEF PowerOff, Off, SoundInv
<1>16. ASSUME NEW done \in SUBSET DOMAIN buf, Crash(done) PROVE SoundInv'
  BY <1>16 DEF Crash
<1>17. CASE CrashTearsReplica
  BY <1>17 DEF CrashTearsReplica
<1>18. CASE Attach
  <2>1. pc = "irps" /\ Frontier' = Frontier
    BY <1>18 DEF Attach, Frontier, PersistInv
  <2> QED BY <1>0, <1>18, <2>1, SoundUntouched DEF Attach, SoundInv
<1>19. CASE UNCHANGED vars
  <2>1. Frontier' = Frontier
    BY <1>19 DEF vars, Frontier, RecoveredOffset, ValidReplicas
  <2>2. Batch' = Batch
    BY <1>19 DEF vars, Batch, BatchCount
  <2> QED BY <1>0, <1>19, <2>1, <2>2, SoundUntouched DEF vars, SoundInv
<1> QED
  BY <1>1, <1>2, <1>3, <1>4, <1>5, <1>6, <1>7, <1>8, <1>9, <1>10, <1>11,
     <1>12, <1>13, <1>14, <1>15, <1>16, <1>17, <1>18, <1>19
  DEF Next, UserIrp, Sweep, Persist, ControlRequest, Session

(* What holds in every reachable state when at most plain write errors     *)
(* happen: the two invariants together.                                    *)
LEMMA Invariance ==
    ASSUME Faults \subseteq {"write"}
    PROVE  Spec => [](TypeOK /\ PersistInv /\ SoundInv)
<1>1. Init => TypeOK /\ PersistInv /\ SoundInv
  BY TypeInit, PersistInit, SoundInit
<1>2. TypeOK /\ PersistInv /\ SoundInv /\ [Next]_vars
         => TypeOK' /\ PersistInv' /\ SoundInv'
  BY TypeStep, PersistStep, SoundStep
<1> QED BY <1>1, <1>2, PTL DEF Spec

(* With no power loss and no failing metadata, every user IRP meets the    *)
(* volume exactly as the lock-free boundary cache announces it.            *)
THEOREM Transparency ==
    ASSUME Faults \subseteq {"write"}
    PROVE  Spec => []Transparent
<1>1. TypeOK /\ PersistInv /\ SoundInv => Transparent
  BY DEF SoundInv, Transparent, Frontier
<1> QED BY <1>1, Invariance, PTL

-----------------------------------------------------------------------------
(***************************************************************************)
(* The volume behind the filter implements a plaintext volume.             *)
(***************************************************************************)

(* On a sound volume the user's view is what lies below the layers. *)
LEMMA ViewOfSound ==
    ASSUME \A s \in Sectors : SoundAt(s, Frontier)
    PROVE  PlainView = [s \in Sectors |-> disk[s].val]
BY DEF PlainView

LEMMA NoAnswerView ==
    ASSUME answer = Nothing
    PROVE  AnswerView = Plain!NoAnswer
BY DEF AnswerView, Nothing, Plain!NoAnswer

(* The ranges of user requests are the ranges of the plaintext volume. *)
LEMMA RangeOfRequest ==
    ASSUME NEW first \in Sectors, NEW last \in first .. N - 1
    PROVE  first .. last \in Plain!Ranges
<1>1. first \in Nat /\ last \in Nat /\ first <= last /\ last \in Sectors
  BY SizeAssumption DEF Sectors
<1>2. first \in first .. last
  BY <1>1
<1> QED BY <1>1, <1>2 DEF Plain!Ranges, Plain!Sectors, Sectors

(* A write of which the sectors `done' reach the medium is a write of the  *)
(* plaintext volume.                                                       *)
LEMMA WriteRefines ==
    ASSUME TypeOK, SoundInv, SoundInv',
           NEW first \in Sectors, NEW last \in first .. N - 1,
           NEW v \in Values, NEW done \in SUBSET (first .. last),
           disk' = Written(WriteBuffer(first, last, v), done),
           answer' = Nothing
    PROVE  Plain!Next
<1>1. PlainView = [s \in Sectors |-> disk[s].val]
  BY ViewOfSound DEF SoundInv
<1>2. PlainView' = [s \in Sectors |-> disk'[s].val]
  BY DEF SoundInv, PlainView
<1>3. AnswerView' = Plain!NoAnswer
  BY DEF AnswerView, Nothing, Plain!NoAnswer
<1>4. ASSUME NEW s \in Sectors
      PROVE  disk'[s].val = IF s \in done THEN v ELSE PlainView[s]
  BY <1>1 DEF Written, WriteBuffer
<1>5. PlainView' = [s \in Sectors |-> IF s \in done THEN v ELSE PlainView[s]]
  BY <1>2, <1>4
<1>6. Plain!Write(first .. last, done, v)
  BY <1>3, <1>5 DEF Plain!Write, Plain!Sectors, Sectors
<1> QED BY <1>6, RangeOfRequest DEF Plain!Next

(* A step that answers no read and keeps what lies below the layers. *)
LEMMA InternalRefines ==
    ASSUME SoundInv, SoundInv', answer' = Nothing,
           \A s \in Sectors : disk'[s].val = disk[s].val
    PROVE  Plain!Next
<1>1. PlainView = [s \in Sectors |-> disk[s].val]
  BY ViewOfSound DEF SoundInv
<1>2. PlainView' = [s \in Sectors |-> disk'[s].val]
  BY DEF SoundInv, PlainView
<1>3. AnswerView' = Plain!NoAnswer
  BY DEF AnswerView, Nothing, Plain!NoAnswer
<1> QED BY <1>1, <1>2, <1>3 DEF Plain!Next, Plain!Internal

LEMMA ReadRefines ==
    ASSUME TypeOK, SoundInv, SoundInv',
           NEW first \in Sectors, NEW last \in first .. N - 1,
           ProcessRead(first, last)
    PROVE  Plain!Next
<1>1. PlainView = [s \in Sectors |-> disk[s].val]
  BY ViewOfSound DEF SoundInv
<1>2. PlainView' = PlainView
  BY <1>1 DEF SoundInv, PlainView, ProcessRead
<1>3. ASSUME NEW s \in first .. last
      PROVE  answer'[s].layer = 0 /\ answer'[s].val = PlainView[s]
  <2>1. s \in Sectors
    BY SizeAssumption DEF Sectors
  <2>2. disk[s].layer = IF s < boundary THEN 1 ELSE 0
    BY <2>1 DEF SoundInv, SoundAt, Frontier, ProcessRead
  <2>3. s \in CryptoSpan(first, last - first + 1) <=> s < boundary
    BY CryptoSpanExact DEF TypeOK
  <2>4. answer'[s] = IF s < boundary THEN Crypt(disk[s], -1) ELSE disk[s]
    BY <2>3 DEF ProcessRead
  <2> QED BY <1>1, <2>1, <2>2, <2>4 DEF Crypt
<1>4. DOMAIN answer' = first .. last
  BY DEF ProcessRead
<1>5. AnswerView' = [s \in first .. last |-> PlainView[s]]
  BY <1>3, <1>4 DEF AnswerView
<1>6. Plain!Read(first .. last)
  BY <1>2, <1>5 DEF Plain!Read
<1> QED BY <1>6, RangeOfRequest DEF Plain!Next

(* Decrypting and encrypting change no value, only layers. *)
LEMMA SweepWriteRefines ==
    ASSUME TypeOK, SoundInv, SoundInv', SweepWrite
    PROVE  Plain!Next
<1>1. buf = [s \in Batch |->
               Crypt(disk[s], IF engine.state = "Encrypting" THEN 1 ELSE -1)]
  BY DEF SoundInv, SweepWrite
<1>2. \A s \in Sectors : disk'[s].val = disk[s].val
  BY <1>1 DEF SweepWrite, Written, Crypt
<1> QED BY <1>2, InternalRefines DEF SweepWrite

LEMMA RefinesInit == Init => Plain!Init
<1> SUFFICES ASSUME Init PROVE Plain!Init
  OBVIOUS
<1>1. PlainView = [s \in Sectors |-> disk[s].val]
  BY SoundInit, ViewOfSound DEF SoundInv
<1>2. \A s \in Sectors : disk[s].val \in Values
  BY TypeInit DEF TypeOK, Content
<1>3. AnswerView = Plain!NoAnswer
  BY NoAnswerView DEF Init
<1> QED BY <1>1, <1>2, <1>3 DEF Plain!Init, Plain!Sectors, Sectors

LEMMA RefinesStep ==
    ASSUME Faults \subseteq {"write"}, TypeOK, SoundInv, SoundInv',
           [Next]_vars
    PROVE  [Plain!Next]_(Plain!vars)
<1>1. CASE UserIrp
  <2>1. ASSUME NEW first \in Sectors, NEW last \in first .. N - 1,
               ProcessRead(first, last)
        PROVE  Plain!Next
    BY <2>1, ReadRefines
  <2>2. ASSUME NEW first \in Sectors, NEW last \in first .. N - 1,
               NEW v \in Values, ProcessWrite(first, last, v)
        PROVE  Plain!Next
    BY <2>2, WriteRefines DEF ProcessWrite
  <2>3. ASSUME NEW first \in Sectors, NEW last \in first .. N - 1,
               NEW v \in Values, NEW done \in SUBSET (first .. last),
               ProcessWriteFails(first, last, v, done)
        PROVE  Plain!Next
    BY <2>3, WriteRefines DEF ProcessWriteFails
  <2> QED BY <1>1, <2>1, <2>2, <2>3 DEF UserIrp
<1>2. CASE SweepWrite
  BY <1>2, SweepWriteRefines
<1>3. ASSUME NEW done \in SUBSET DOMAIN buf, SweepWriteFails(done)
      PROVE  Plain!Next
  <2>1. done = {}
    BY <1>3 DEF SweepWriteFails
  <2>2. \A s \in Sectors : disk'[s].val = disk[s].val
    BY <1>3, <2>1 DEF SweepWriteFails, Written
  <2> QED BY <1>3, <2>2, InternalRefines DEF SweepWriteFails
<1>4. CASE SweepRead \/ SweepNoWork \/ SweepDone \/ SyncBoundary
  <2>1. answer' = Nothing /\ disk' = disk
    BY <1>4 DEF SweepRead, SweepNoWork, SweepDone, SyncBoundary
  <2> QED BY <2>1, InternalRefines
<1>5. CASE Persist \/ ControlRequest \/ StartDone
  <2>1. answer' = Nothing /\ disk' = disk
    BY <1>5 DEF Persist, WriteReplica, WriteReplicaFails, ControlRequest,
       StartSweep, Pause, PauseOsVolume, StartDone
  <2> QED BY <2>1, InternalRefines
<1>6. CASE Session
  <2>1. PowerOff \/ Attach
    BY <1>6 DEF Session, Crash, CrashTearsReplica
  <2>2. answer' = Nothing /\ disk' = disk
    BY <2>1 DEF PowerOff, Off, Attach
  <2> QED BY <2>2, InternalRefines
<1>7. CASE UNCHANGED vars
  BY <1>7 DEF vars, Plain!vars, PlainView, AnswerView, SoundAt, Frontier,
     RecoveredOffset, ValidReplicas
<1> QED BY <1>1, <1>2, <1>3, <1>4, <1>5, <1>6, <1>7 DEF Next, Sweep

(* With no power loss and no failing metadata, the volume behind the       *)
(* filter is a plaintext volume: encrypting it in place, decrypting it     *)
(* again, pausing, shutting down and attaching it cannot be observed.      *)
THEOREM Refinement ==
    ASSUME Faults \subseteq {"write"}
    PROVE  Spec => RefinesPlainVolume
<1>1. Init => Plain!Init
  BY RefinesInit
<1>2. /\ TypeOK /\ PersistInv /\ SoundInv
      /\ (TypeOK /\ PersistInv /\ SoundInv)'
      /\ [Next]_vars
      => [Plain!Next]_(Plain!vars)
  BY RefinesStep
<1> QED BY <1>1, <1>2, Invariance, PTL DEF Spec, RefinesPlainVolume, Plain!Spec

-----------------------------------------------------------------------------
(***************************************************************************)
(* What is lost, whatever fails.                                           *)
(***************************************************************************)

(* Who holds the mutex, and what is in the sweep's buffer. *)
BufferInv ==
    /\ pc \in {"write", "store"} <=> lock = "sweep"
    /\ power = "off" => pc = "irps" /\ lock = "free"
    /\ store.offset = engine.sector
    /\ IF pc = "write"
       THEN buf = [s \in Batch |->
                     Crypt(disk[s],
                           IF engine.state = "Encrypting" THEN 1 ELSE -1)]
       ELSE buf = Nothing

(* A sector is intact when everything that speaks of it agrees: the        *)
(* engine, the cache and each replica, the torn and the forgotten ones     *)
(* too, since a later tear can make any of them the one that is recovered. *)
(* While D, the batch that was just written, is being persisted, the cache *)
(* and the replicas that are still to be written lag behind.               *)
Intact(s, D) ==
    /\ power # "off" => SoundAt(s, engine.sector)
    /\ power # "off" /\ s \notin D => SoundAt(s, boundary)
    /\ \A i \in Replicas : s \notin D \/ pc = "sync" \/ i < next =>
          SoundAt(s, replica[i].offset)

(* All sectors but those of L are intact, and L is paid for. *)
Loss(L, D) ==
    /\ Cardinality(L) <= BatchSectors * (crashes + failures)
    /\ Cardinality(D) <= BatchSectors
    /\ pc \in {"irps", "write"} => D = {}
    /\ \A s \in Sectors \ L : Intact(s, D)

LossInv == \E L, D \in SUBSET Sectors : Loss(L, D)

LEMMA FiniteSectors ==
    ASSUME NEW S \in SUBSET Sectors
    PROVE  IsFiniteSet(S) /\ Cardinality(S) \in Nat
<1>1. IsFiniteSet(Sectors)
  BY FS_Interval, SizeAssumption DEF Sectors
<1> QED BY <1>1, FS_Subset, FS_CardinalityType

(* One more incident pays for one more batch. *)
LEMMA OneMoreIncident ==
    ASSUME NEW L \in SUBSET Sectors, NEW E \in SUBSET Sectors, NEW k \in Nat,
           Cardinality(L) <= BatchSectors * k, Cardinality(E) <= BatchSectors
    PROVE  Cardinality(L \cup E) <= BatchSectors * (k + 1)
<1>1. /\ IsFiniteSet(L) /\ IsFiniteSet(E) /\ L \cap E \in SUBSET Sectors
      /\ Cardinality(L) \in Nat /\ Cardinality(E) \in Nat
      /\ Cardinality(L \cap E) \in Nat
  BY FiniteSectors
<1>2. Cardinality(L \cup E)
         = Cardinality(L) + Cardinality(E) - Cardinality(L \cap E)
  BY <1>1, FS_Union
<1>3. BatchSectors \in Nat
  BY SizeAssumption
<1>4. BatchSectors * (k + 1) = BatchSectors * k + BatchSectors
  BY <1>3
<1>5. BatchSectors * k \in Nat
  BY <1>3
<1> QED BY <1>1, <1>2, <1>3, <1>4, <1>5

LEMMA BatchSize ==
    ASSUME TypeOK PROVE Cardinality(Batch) <= BatchSectors
<1>1. /\ N \in Nat /\ BatchSectors \in Nat \ {0}
      /\ engine.sector \in Nat /\ engine.sector <= N
  BY SizeAssumption DEF TypeOK, Offsets
<1>2. BatchCount \in Nat /\ BatchCount <= BatchSectors
  BY <1>1 DEF BatchCount, Lesser
<1>3. PICK a \in Int, b \in Int :
         Batch = a .. b /\ (a > b \/ b - a + 1 = BatchCount)
  BY <1>1, <1>2 DEF Batch
<1>4. Cardinality(Batch) = IF a > b THEN 0 ELSE b - a + 1
  BY <1>3, FS_Interval
<1> QED BY <1>1, <1>2, <1>3, <1>4

(* The sector, its form and everything that speaks of it stay as they are. *)
LEMMA IntactFrame ==
    ASSUME NEW s \in Sectors, NEW D, Intact(s, D),
           disk'[s].layer = disk[s].layer, UNCHANGED <<replica, boundary>>,
           engine'.sector = engine.sector, power' # "off" => power # "off",
           s \notin D \/ UNCHANGED <<pc, next>>
    PROVE  Intact(s, D)'
BY DEF Intact, SoundAt

LEMMA LossFrame ==
    ASSUME NEW L \in SUBSET Sectors, NEW D \in SUBSET Sectors, Loss(L, D),
           UNCHANGED <<disk, replica, boundary, crashes, failures>>,
           engine'.sector = engine.sector, power' # "off" => power # "off",
           D = {} \/ UNCHANGED <<pc, next>>
    PROVE  Loss(L, D)'
<1>1. ASSUME NEW s \in Sectors \ L PROVE Intact(s, D)'
  BY IntactFrame DEF Loss
<1>2. pc' \in {"irps", "write"} => D = {}
  BY DEF Loss
<1> QED BY <1>1, <1>2 DEF Loss

LEMMA LossUserWrite ==
    ASSUME TypeOK, NEW L \in SUBSET Sectors, NEW D \in SUBSET Sectors, Loss(L, D),
           power # "off", pc = "irps",
           NEW first \in Sectors, NEW last \in first .. N - 1,
           NEW v \in Values, NEW done \in SUBSET (first .. last),
           disk' = Written(WriteBuffer(first, last, v), done),
           UNCHANGED <<replica, engine, boundary, power, pc, crashes, failures>>
    PROVE  Loss(L, D)'
<1>1. D = {}
  BY DEF Loss
<1>2. ASSUME NEW s \in Sectors \ L PROVE Intact(s, D)'
  <2>1. Intact(s, D) /\ SoundAt(s, boundary)
    BY <1>1 DEF Loss, Intact
  <2>2. disk'[s].layer = disk[s].layer
    BY <2>1, WriteKeepsForm
  <2> QED BY <1>1, <2>1, <2>2, IntactFrame
<1> QED BY <1>1, <1>2 DEF Loss

LEMMA BufferStep ==
    ASSUME TypeOK, BufferInv, [Next]_vars
    PROVE  BufferInv'
<1>1. ASSUME UNCHANGED <<power, pc, buf, lock, disk>>,
             engine' = engine \/ pc # "write",
             engine'.sector = engine.sector, store'.offset = store.offset
      PROVE  BufferInv'
  <2>1. engine' = engine => Batch' = Batch
    BY DEF Batch, BatchCount
  <2> QED BY <1>1, <2>1 DEF BufferInv
<1>2. CASE UserIrp
  <2>1. /\ pc = "irps" /\ UNCHANGED <<power, pc, buf, lock, engine, store>>
    BY <1>2 DEF UserIrp, ProcessRead, ProcessWrite, ProcessWriteFails
  <2> QED BY <2>1 DEF BufferInv
<1>3. CASE SweepRead
  <2>1. Batch' = Batch
    BY <1>3 DEF SweepRead, Batch, BatchCount
  <2> QED BY <1>3, <2>1 DEF SweepRead, BufferInv
<1>4. CASE SweepNoWork \/ SweepDone \/ SyncBoundary
  <2>1. /\ engine'.sector = engine.sector /\ store' = store /\ power' = power
        /\ pc # "write" /\ pc' \notin {"write", "store"} /\ buf' = buf
        /\ lock' = "free" /\ power # "off"
    BY <1>4 DEF SweepNoWork, SweepDone, SyncBoundary, TypeOK, BufferInv
  <2> QED BY <2>1 DEF BufferInv
<1>5. CASE SweepWrite
  <2>1. engine'.sector = NextSector /\ store'.offset = NextSector
    BY <1>5 DEF SweepWrite, TypeOK
  <2> QED BY <1>5, <2>1 DEF SweepWrite, BufferInv
<1>6. CASE \E done \in SUBSET DOMAIN buf : SweepWriteFails(done)
  BY <1>6 DEF SweepWriteFails, BufferInv
<1>7. CASE WriteReplica
  BY <1>1, <1>7 DEF WriteReplica
<1>8. CASE WriteReplicaFails
  <2>1. /\ engine'.sector = engine.sector /\ UNCHANGED <<store, power, buf>>
        /\ lock' = "free" /\ pc # "write" /\ pc' \notin {"write", "store"}
        /\ power # "off"
    BY <1>8 DEF WriteReplicaFails, TypeOK, BufferInv, Persisting
  <2> QED BY <2>1 DEF BufferInv
<1>9. CASE ControlRequest \/ StartDone
  <2>1. /\ engine'.sector = engine.sector /\ store'.offset = store.offset
        /\ UNCHANGED <<pc, buf, disk>> /\ lock # "sweep" /\ lock' # "sweep"
        /\ power # "off" /\ power' # "off"
    BY <1>9 DEF ControlRequest, StartDone, StartSweep, Pause, PauseOsVolume,
                TypeOK, BufferInv
  <2> QED BY <2>1 DEF BufferInv
<1>10. CASE PowerOff \/ CrashTearsReplica
            \/ \E done \in SUBSET DOMAIN buf : Crash(done)
  <2>1. Off
    BY <1>10 DEF PowerOff, CrashTearsReplica, Crash
  <2> QED BY <2>1 DEF Off, BufferInv
<1>11. CASE Attach
  BY <1>11 DEF Attach, BufferInv
<1>12. CASE UNCHANGED vars
  BY <1>1, <1>12 DEF vars
<1> QED BY <1>2, <1>3, <1>4, <1>5, <1>6, <1>7, <1>8, <1>9, <1>10, <1>11, <1>12
        DEF Next, Sweep, Persist, Session

LEMMA LossSweep ==
    ASSUME TypeOK, BufferInv, NEW L \in SUBSET Sectors, NEW D \in SUBSET Sectors,
           Loss(L, D), Sweep
    PROVE  LossInv'
<1>0. PICK E \in SUBSET Sectors : E = Batch /\ Cardinality(E) <= BatchSectors
  BY BatchInVolume, BatchSize DEF TypeOK
<1>1. CASE SweepRead \/ SweepNoWork
  <2>1. /\ pc = "irps" /\ engine'.sector = engine.sector
        /\ UNCHANGED <<disk, replica, boundary, power, crashes, failures>>
    BY <1>1 DEF SweepRead, SweepNoWork, TypeOK
  <2>2. D = {}
    BY <2>1 DEF Loss
  <2> QED BY <2>1, <2>2, LossFrame DEF LossInv
<1>2. CASE SweepWrite
  <2>1. /\ pc' = "store" /\ next' = 1
        /\ UNCHANGED <<replica, boundary, power, crashes, failures>>
    BY <1>2 DEF SweepWrite
  <2>2. D = {} /\ power # "off"
    BY <1>2 DEF SweepWrite, Loss, BufferInv
  <2>3. ASSUME NEW s \in Sectors \ L PROVE Intact(s, E)'
    <3>1. Intact(s, D) /\ SoundAt(s, engine.sector)
      BY <2>2 DEF Loss, Intact
    <3>2. SoundAt(s, engine.sector)' /\ (s \notin E => disk'[s] = disk[s])
      BY <1>0, <1>2, <3>1, BatchMovesSound DEF BufferInv, SweepWrite
    <3>3. s \notin E => /\ SoundAt(s, boundary)'
                        /\ \A i \in Replicas : SoundAt(s, replica[i].offset)'
      BY <2>1, <2>2, <3>1, <3>2 DEF Intact, SoundAt
    <3>4. \A i \in Replicas : ~(i < 1)
      BY SizeAssumption DEF Replicas
    <3> QED BY <2>1, <3>2, <3>3, <3>4 DEF Intact
  <2>4. Loss(L, E)'
    BY <1>0, <2>1, <2>3 DEF Loss
  <2> QED BY <2>4 DEF LossInv
<1>3. ASSUME NEW done \in SUBSET DOMAIN buf, SweepWriteFails(done)
      PROVE  LossInv'
  <2>1. /\ pc = "write" /\ pc' = "irps" /\ disk' = Written(buf, done)
        /\ UNCHANGED <<replica, engine, boundary, power, crashes>>
        /\ \/ done = {} /\ failures' = failures
           \/ failures' = failures + 1
    BY <1>3 DEF SweepWriteFails
  <2>2. D = {} /\ DOMAIN buf = E
    BY <1>0, <2>1 DEF Loss, BufferInv
  <2>3. ASSUME NEW s \in Sectors \ L, s \notin done PROVE Intact(s, D)'
    <3>1. disk'[s].layer = disk[s].layer
      BY <2>1, <2>3 DEF Written
    <3> QED BY <2>1, <2>2, <3>1, IntactFrame DEF Loss
  <2>4. CASE done = {} /\ failures' = failures
    <3>1. Loss(L, D)'
      BY <2>1, <2>2, <2>3, <2>4 DEF Loss
    <3> QED BY <3>1 DEF LossInv
  <2>5. CASE failures' = failures + 1
    <3>1. Cardinality(L \cup E) <= BatchSectors * (crashes + failures + 1)
      BY <1>0, OneMoreIncident DEF Loss, TypeOK
    <3>2. crashes' + failures' = crashes + failures + 1
      BY <2>1, <2>5 DEF TypeOK
    <3>3. \A s \in Sectors \ (L \cup E) : Intact(s, D)'
      BY <2>2, <2>3
    <3>4. Loss(L \cup E, D)'
      BY <2>2, <3>1, <3>2, <3>3 DEF Loss
    <3> QED BY <3>4 DEF LossInv
  <2> QED BY <2>1, <2>4, <2>5
<1>4. CASE SweepDone
  <2>1. /\ pc = "store" /\ pc' = "sync" /\ next > R
        /\ engine'.sector = engine.sector
        /\ UNCHANGED <<disk, replica, boundary, power, crashes, failures>>
    BY <1>4 DEF SweepDone, TypeOK
  <2>2. \A i \in Replicas : i < next
    BY <2>1, SizeAssumption DEF TypeOK, Replicas
  <2>3. ASSUME NEW s \in Sectors \ L PROVE Intact(s, D)'
    BY <2>1, <2>2 DEF Loss, Intact, SoundAt
  <2>4. Loss(L, D)'
    BY <2>1, <2>3 DEF Loss
  <2> QED BY <2>4 DEF LossInv
<1>5. CASE SyncBoundary
  <2>1. /\ pc = "sync" /\ boundary' = engine.sector /\ power # "off"
        /\ UNCHANGED <<disk, replica, engine, power, crashes, failures>>
    BY <1>5 DEF SyncBoundary
  <2>2. ASSUME NEW s \in Sectors \ L PROVE Intact(s, {})'
    BY <2>1 DEF Loss, Intact, SoundAt
  <2>3. Loss(L, {})'
    BY <2>1, <2>2, FS_EmptySet, SizeAssumption DEF Loss
  <2> QED BY <2>3 DEF LossInv
<1> QED BY <1>1, <1>2, <1>3, <1>4, <1>5 DEF Sweep

LEMMA LossPersist ==
    ASSUME TypeOK, BufferInv, NEW L \in SUBSET Sectors, NEW D \in SUBSET Sectors,
           Loss(L, D), Persist
    PROVE  LossInv'
<1>1. /\ power # "off" /\ power' = power /\ next <= R /\ next \in Replicas
      /\ UNCHANGED <<disk, boundary, crashes>> /\ engine'.sector = engine.sector
      /\ replica' = replica \/ replica' = Sealed(next)
  <2>1. power # "off" /\ next <= R
    BY DEF Persist, WriteReplica, WriteReplicaFails, Persisting, BufferInv
  <2>2. next \in Replicas
    BY <2>1, SizeAssumption DEF TypeOK, Replicas
  <2>3. engine'.sector = engine.sector
    BY DEF Persist, WriteReplica, WriteReplicaFails, TypeOK
  <2> QED BY <2>1, <2>2, <2>3 DEF Persist, WriteReplica, WriteReplicaFails
<1>2. ASSUME NEW i \in Replicas
      PROVE  replica'[i].offset \in {replica[i].offset, engine.sector}
  BY <1>1 DEF Sealed, TypeOK, BufferInv
<1>3. CASE WriteReplica
  <2>1. /\ replica' = Sealed(next) /\ next' = next + 1
        /\ UNCHANGED <<pc, failures>>
    BY <1>3 DEF WriteReplica
  <2>2. replica'[next].offset = engine.sector
    BY <1>1, <2>1 DEF Sealed, TypeOK, BufferInv
  <2>3. ASSUME NEW s \in Sectors \ L PROVE Intact(s, D)'
    <3>1. Intact(s, D)
      BY DEF Loss
    <3>2. ASSUME NEW i \in Replicas, s \notin D \/ pc = "sync" \/ i < next'
          PROVE  SoundAt(s, replica[i].offset)'
      <4>1. CASE i = next
        BY <1>1, <2>2, <3>1, <4>1 DEF Intact, SoundAt
      <4>2. CASE i # next
        <5>1. s \notin D \/ pc = "sync" \/ i < next
          BY <2>1, <3>2, <4>2 DEF Replicas, TypeOK
        <5> QED BY <1>1, <1>2, <3>1, <5>1 DEF Intact, SoundAt
      <4> QED BY <4>1, <4>2
    <3> QED BY <1>1, <2>1, <3>1, <3>2 DEF Intact, SoundAt
  <2>4. Loss(L, D)'
    BY <1>1, <2>1, <2>3 DEF Loss
  <2> QED BY <2>4 DEF LossInv
<1>4. CASE WriteReplicaFails
  <2>1. failures' = failures + 1
    BY <1>4 DEF WriteReplicaFails
  <2>2. pc' = pc \/ pc' = "irps"
    BY <1>4 DEF WriteReplicaFails
  <2>3. Cardinality(L \cup D) <= BatchSectors * (crashes' + failures')
    <3>1. Cardinality(L \cup D) <= BatchSectors * (crashes + failures + 1)
      BY OneMoreIncident DEF Loss, TypeOK
    <3>2. crashes' + failures' = crashes + failures + 1
      BY <1>1, <2>1 DEF TypeOK
    <3> QED BY <3>1, <3>2
  <2>4. ASSUME NEW s \in Sectors \ (L \cup D) PROVE Intact(s, {})'
    <3>1. Intact(s, D)
      BY DEF Loss
    <3> QED BY <1>1, <1>2, <3>1 DEF Intact, SoundAt
  <2>5. Loss(L \cup D, {})'
    BY <2>3, <2>4, FS_EmptySet, SizeAssumption DEF Loss
  <2> QED BY <2>5 DEF LossInv
<1> QED BY <1>3, <1>4 DEF Persist

(* The machine goes off: what is not lost, and not on its way to the       *)
(* medium or to the metadata, is as every replica says.                    *)
LEMMA LossOff ==
    ASSUME NEW L \in SUBSET Sectors, NEW D \in SUBSET Sectors, Loss(L, D),
           NEW M \in SUBSET Sectors, L \subseteq M, Off,
           \A i \in Replicas : replica'[i].offset = replica[i].offset,
           \A s \in Sectors \ M : /\ disk'[s] = disk[s]
                                  /\ s \notin D \/ pc = "sync",
           Cardinality(M) <= BatchSectors * (crashes' + failures')
    PROVE  LossInv'
<1>1. ASSUME NEW s \in Sectors \ M PROVE Intact(s, {})'
  <2>1. Intact(s, D)
    BY DEF Loss
  <2> QED BY <2>1 DEF Intact, SoundAt, Off
<1>2. Loss(M, {})'
  BY <1>1, FS_EmptySet, SizeAssumption DEF Loss
<1> QED BY <1>2 DEF LossInv

LEMMA LossSession ==
    ASSUME TypeOK, BufferInv, NEW L \in SUBSET Sectors, NEW D \in SUBSET Sectors,
           Loss(L, D), Session
    PROVE  LossInv'
<1>0. PICK E \in SUBSET Sectors : E = Batch /\ Cardinality(E) <= BatchSectors
  BY BatchInVolume, BatchSize DEF TypeOK
<1>1. CASE PowerOff
  <2>1. Off /\ UNCHANGED <<disk, replica, crashes, failures>>
    BY <1>1 DEF PowerOff
  <2>2. D = {} \/ pc = "sync"
    BY <1>1 DEF PowerOff, BufferInv, Loss, TypeOK, PcKinds
  <2>3. Cardinality(L) <= BatchSectors * (crashes' + failures')
    BY <2>1 DEF Loss
  <2> QED BY <2>1, <2>2, <2>3, LossOff
<1>2. ASSUME crashes' = crashes + 1, UNCHANGED failures,
             NEW F \in SUBSET Sectors, Cardinality(F) <= BatchSectors
      PROVE  Cardinality(L \cup F) <= BatchSectors * (crashes' + failures')
  <2>1. Cardinality(L \cup F) <= BatchSectors * (crashes + failures + 1)
    BY <1>2, OneMoreIncident DEF Loss, TypeOK
  <2>2. crashes' + failures' = crashes + failures + 1
    BY <1>2 DEF TypeOK
  <2> QED BY <2>1, <2>2
<1>3. ASSUME NEW done \in SUBSET DOMAIN buf, Crash(done) PROVE LossInv'
  <2>1. /\ Off /\ disk' = Written(buf, done) /\ crashes' = crashes + 1
        /\ UNCHANGED <<replica, failures>>
    BY <1>3 DEF Crash
  <2>2. CASE pc = "write"
    <3>1. D = {} /\ DOMAIN buf = E
      BY <1>0, <2>2 DEF Loss, BufferInv
    <3>2. \A s \in Sectors \ (L \cup E) : disk'[s] = disk[s]
      BY <2>1, <3>1 DEF Written
    <3>3. Cardinality(L \cup E) <= BatchSectors * (crashes' + failures')
      BY <1>0, <1>2, <2>1
    <3> QED BY <2>1, <3>1, <3>2, <3>3, LossOff
  <2>3. CASE pc # "write"
    <3>1. done = {}
      BY <2>3 DEF BufferInv, Nothing
    <3>2. \A s \in Sectors \ (L \cup D) : disk'[s] = disk[s]
      BY <2>1, <3>1 DEF Written
    <3>3. Cardinality(L \cup D) <= BatchSectors * (crashes' + failures')
      BY <1>2, <2>1 DEF Loss
    <3> QED BY <2>1, <3>2, <3>3, LossOff
  <2> QED BY <2>2, <2>3
<1>4. CASE CrashTearsReplica
  <2>1. /\ Off /\ UNCHANGED disk /\ crashes' = crashes + 1 /\ UNCHANGED failures
        /\ replica' = [replica EXCEPT ![next].valid = FALSE]
    BY <1>4 DEF CrashTearsReplica
  <2>2. \A i \in Replicas : replica'[i].offset = replica[i].offset
    BY <2>1 DEF TypeOK
  <2>3. Cardinality(L \cup D) <= BatchSectors * (crashes' + failures')
    BY <1>2, <2>1 DEF Loss
  <2> QED BY <2>1, <2>2, <2>3, LossOff
<1>5. CASE Attach
  <2>1. /\ power = "off" /\ Openable /\ engine'.sector = RecoveredOffset
        /\ boundary' = RecoveredOffset
        /\ UNCHANGED <<disk, replica, pc, next, crashes, failures>>
    BY <1>5 DEF Attach
  <2>2. D = {}
    BY <2>1 DEF BufferInv, Loss
  <2>3. PICK i \in Replicas : replica[i].offset = RecoveredOffset
    BY <2>1, OpenableHasReplica, RecoveredOffsetIsLargest
       DEF TypeOK, ValidReplicas
  <2>4. ASSUME NEW s \in Sectors \ L PROVE Intact(s, D)'
    BY <2>1, <2>2, <2>3 DEF Loss, Intact, SoundAt
  <2>5. Loss(L, D)'
    BY <2>1, <2>2, <2>4 DEF Loss
  <2> QED BY <2>5 DEF LossInv
<1> QED BY <1>1, <1>3, <1>4, <1>5 DEF Session

LEMMA LossStep ==
    ASSUME TypeOK, BufferInv, LossInv, [Next]_vars
    PROVE  LossInv'
<1> PICK L \in SUBSET Sectors, D \in SUBSET Sectors : Loss(L, D)
  BY DEF LossInv
<1>1. ASSUME NEW first \in Sectors, NEW last \in first .. N - 1,
             ProcessRead(first, last)
      PROVE  LossInv'
  <2>1. Loss(L, D)'
    BY <1>1, LossFrame DEF ProcessRead
  <2> QED BY <2>1 DEF LossInv
<1>2. ASSUME NEW first \in Sectors, NEW last \in first .. N - 1,
             NEW v \in Values, NEW done \in SUBSET (first .. last),
             \/ ProcessWrite(first, last, v) /\ done = first .. last
             \/ ProcessWriteFails(first, last, v, done)
      PROVE  LossInv'
  <2>1. /\ power # "off" /\ pc = "irps"
        /\ disk' = Written(WriteBuffer(first, last, v), done)
        /\ UNCHANGED <<replica, engine, boundary, power, pc, crashes, failures>>
    BY <1>2 DEF ProcessWrite, ProcessWriteFails
  <2>2. Loss(L, D)'
    BY <2>1, LossUserWrite
  <2> QED BY <2>2 DEF LossInv
<1>3. CASE UserIrp
  BY <1>1, <1>2, <1>3 DEF UserIrp
<1>4. CASE ControlRequest \/ StartDone
  <2>1. /\ engine'.sector = engine.sector /\ power # "off" /\ UNCHANGED pc
        /\ UNCHANGED <<disk, replica, boundary, crashes, failures>>
        /\ lock # "sweep"
    BY <1>4 DEF ControlRequest, StartDone, StartSweep, Pause, PauseOsVolume,
                TypeOK, BufferInv
  <2>2. D = {} \/ pc = "sync"
    BY <2>1 DEF BufferInv, Loss, TypeOK, PcKinds
  <2>3. ASSUME NEW s \in Sectors \ L PROVE Intact(s, D)'
    <3>1. Intact(s, D)
      BY DEF Loss
    <3> QED BY <2>1, <2>2, <3>1 DEF Intact, SoundAt
  <2>4. Loss(L, D)'
    BY <2>1, <2>3 DEF Loss
  <2> QED BY <2>4 DEF LossInv
<1>5. CASE UNCHANGED vars
  <2>1. Loss(L, D)'
    BY <1>5, LossFrame DEF vars
  <2> QED BY <2>1 DEF LossInv
<1> QED BY <1>3, <1>4, <1>5, LossSweep, LossPersist, LossSession DEF Next

LEMMA LossInit == ASSUME Init PROVE BufferInv /\ LossInv
<1>1. BufferInv
  BY DEF Init, BufferInv
<1>2. ASSUME NEW s \in Sectors PROVE Intact(s, {})
  <2>1. disk[s].layer = 0 /\ s \in Nat
    BY SizeAssumption DEF Init, Sectors
  <2> QED BY <2>1 DEF Init, Intact, SoundAt
<1>3. Loss({}, {})
  <2>1. Cardinality({}) = 0 /\ crashes + failures \in Nat
    BY FS_EmptySet DEF Init
  <2>2. 0 <= BatchSectors * (crashes + failures)
    BY <2>1, SizeAssumption
  <2> QED BY <1>2, <2>1, <2>2, SizeAssumption DEF Loss
<1> QED BY <1>1, <1>3 DEF LossInv

LEMMA LossBounds == ASSUME TypeOK, BufferInv, LossInv PROVE OneBatchPerIncident
<1> PICK L \in SUBSET Sectors, D \in SUBSET Sectors : Loss(L, D)
  BY DEF LossInv
<1> SUFFICES ASSUME power # "off" \/ Openable
             PROVE  Cardinality(Damaged) <= BatchSectors * (crashes + failures)
  BY DEF OneBatchPerIncident
<1>1. ASSUME NEW s \in Sectors \ L PROVE SoundAt(s, Frontier)
  <2>1. Intact(s, D)
    BY DEF Loss
  <2>2. CASE power # "off"
    BY <2>1, <2>2 DEF Intact, Frontier
  <2>3. CASE power = "off"
    <3>1. D = {}
      BY <2>3 DEF BufferInv, Loss
    <3>2. PICK i \in Replicas : replica[i].offset = RecoveredOffset
      BY <2>3, OpenableHasReplica, RecoveredOffsetIsLargest
         DEF TypeOK, ValidReplicas
    <3> QED BY <2>1, <2>3, <3>1, <3>2 DEF Intact, Frontier
  <2> QED BY <2>2, <2>3
<1>2. Damaged \subseteq L
  BY <1>1 DEF Damaged
<1>3. Cardinality(Damaged) <= Cardinality(L)
  BY <1>2, FiniteSectors, FS_Subset
<1>4. /\ Cardinality(Damaged) \in Nat /\ Cardinality(L) \in Nat
      /\ BatchSectors * (crashes + failures) \in Nat
  BY <1>2, FiniteSectors, SizeAssumption DEF TypeOK
<1> QED BY <1>3, <1>4 DEF Loss

(* The documented limit of the design, under every fault at once and for   *)
(* every size: however power losses, torn replicas, torn batches and       *)
(* failed metadata writes follow one another, with user IRPs, restarts and *)
(* changes of direction in between, each costs at most BATCH_SECTORS       *)
(* sectors (progress_step, write_all_replicas, load_offset).               *)
THEOREM LossIsBounded == Spec => []OneBatchPerIncident
<1>1. Init => TypeOK /\ BufferInv /\ LossInv
  BY TypeInit, LossInit
<1>2. TypeOK /\ BufferInv /\ LossInv /\ [Next]_vars
         => (TypeOK /\ BufferInv /\ LossInv)'
  BY TypeStep, BufferStep, LossStep
<1>3. TypeOK /\ BufferInv /\ LossInv => OneBatchPerIncident
  BY LossBounds
<1> QED BY <1>1, <1>2, <1>3, PTL DEF Spec

=============================================================================
