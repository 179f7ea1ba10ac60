-------------------------- MODULE LoaderHookProofs --------------------------
(***************************************************************************)
(* Theorems about LoaderHook that hold for every size of the volume, every *)
(* number of replicas, of power losses and of failing calls.               *)
(***************************************************************************)
EXTENDS LoaderHook, NatLemmas, FiniteSetTheorems, TLAPS

-----------------------------------------------------------------------------
(***************************************************************************)
(* The inductive invariant.                                                *)
(***************************************************************************)
Typed ==
    /\ TypeOK
    /\ batch \in [todo : SUBSET (1 .. Replicas), to : -1 .. N]

(* The sectors that no power loss has left in doubt. *)
Sound == Sectors \ lost

(* While the loader runs nothing writes metadata, so what it recovered     *)
(* stays what a second open recovers; the volume is bound with the         *)
(* boundary of the metadata.                                               *)
SessionInv ==
    /\ phase \in {"drop", "install"} => opens /\ found = load_offset
    /\ phase \in {"off", "config", "open", "drop", "install"} => hook = NoHook
    /\ phase \in {"publish", "chainload", "osloader", "start"}
          => hook = NoHook \/ (opens /\ hook = load_offset)
    /\ phase \notin {"mount", "up", "stopped"} => drv = Unbound
    /\ batch # NoBatch => phase = "up"
    /\ batch = NoBatch /\ drv # Unbound => opens /\ drv = load_offset

(* Between batches the metadata describes the medium, and a plaintext boot *)
(* sector means that the whole volume is plaintext.                        *)
FormInv ==
    /\ \A s \in Sound : medium[s].val = content[s]
    /\ batch = NoBatch /\ opens =>
          \A s \in Sound : medium[s].enc <=> s < load_offset
    /\ batch = NoBatch /\ ~medium[0].enc => \A s \in Sound : ~medium[s].enc
    /\ batch = NoBatch /\ phase = "up" => Mountable

(* Within a batch the medium is ahead of the replicas that are still to be *)
(* written.                                                                *)
BatchInv ==
    batch # NoBatch =>
        /\ batch.to \in 0 .. N
        /\ \A i \in (1 .. Replicas) \ batch.todo : replica[i] = batch.to
        /\ batch.todo # {} => Replicas \in batch.todo
        /\ \A s \in Sound : medium[s].enc <=> s < batch.to
        /\ (medium[0].enc <=> 0 < batch.to) /\ medium[0].val # Garbled
        /\ drv = Unbound =>
              /\ batch.to = 0
              /\ batch.todo # {} => replica[Replicas] = Invalid
        /\ drv # Unbound =>
              /\ batch.to \in {drv - 1, drv + 1}
              /\ \A i \in batch.todo : replica[i] <= drv
              /\ batch.todo # {} => replica[Replicas] # Invalid

(* The sectors on which the last replica, which every open needs, differs  *)
(* from the boundary in force: a torn replica in front of it can cost all  *)
(* of them at once.                                                        *)
AtRisk ==
    LET boundary == IF batch = NoBatch THEN load_offset ELSE drv
    IN  IF opens /\ (batch # NoBatch => drv # Unbound /\ batch.todo # {})
        THEN {s \in Sectors : replica[Replicas] <= s /\ s < boundary}
        ELSE {}

(* Every sector in doubt, or at risk, is paid for by a power loss. *)
BudgetInv == Cardinality(lost \cup AtRisk) <= crashes

HookInv == Typed /\ SessionInv /\ FormInv /\ BatchInv

-----------------------------------------------------------------------------
(***************************************************************************)
(* Operators.                                                              *)
(***************************************************************************)

(* What load_offset computes of the replicas. *)
Largest(r) ==
    CHOOSE o \in {r[i] : i \in DOMAIN r} : \A i \in DOMAIN r : r[i] <= o

LEMMA LoadOffsetDef ==
    load_offset = Largest(replica) /\ load_offset' = Largest(replica')
BY DEF load_offset, Largest

(* It is the offset of a replica, and no replica has a larger one. *)
LEMMA LargestIsLargest ==
    ASSUME NEW r \in [1 .. Replicas -> Invalid .. N]
    PROVE  /\ Largest(r) \in Invalid .. N
           /\ \E i \in 1 .. Replicas : r[i] = Largest(r)
           /\ \A i \in 1 .. Replicas : r[i] <= Largest(r)
<1> DEFINE T == {r[i] : i \in 1 .. Replicas}
<1>1. N \in Int /\ 1 \in 1 .. Replicas
  BY HookAssumption
<1>2. DOMAIN r = 1 .. Replicas /\ \A i \in 1 .. Replicas : r[i] \in Invalid .. N
  OBVIOUS
<1>3. T \subseteq Int /\ (\A x \in T : x <= N)
  BY <1>1, <1>2 DEF Invalid
<1>4. T # {}
  BY <1>1
<1>5. \E x \in T : \A y \in T : y <= x
  <2> HIDE DEF T
  <2> QED BY <1>1, <1>3, <1>4, GreatestExists
<1>6. \E x \in {r[i] : i \in DOMAIN r} : \A i \in DOMAIN r : r[i] <= x
  BY <1>2, <1>5
<1>7. Largest(r) \in {r[i] : i \in DOMAIN r}
      /\ \A i \in DOMAIN r : r[i] <= Largest(r)
  BY <1>6 DEF Largest
<1> QED BY <1>2, <1>7

(* Nothing else is. *)
LEMMA LargestIsUnique ==
    ASSUME NEW r \in [1 .. Replicas -> Invalid .. N],
           NEW o \in Int, NEW i \in 1 .. Replicas, r[i] = o,
           \A j \in 1 .. Replicas : r[j] <= o
    PROVE  Largest(r) = o
<1>1. \A j \in 1 .. Replicas : r[j] \in Int
  BY HookAssumption DEF Invalid
<1>2. Largest(r) \in Int
  BY LargestIsLargest, HookAssumption DEF Invalid
<1>3. o <= Largest(r)
  BY LargestIsLargest
<1>4. PICK k \in 1 .. Replicas : r[k] = Largest(r)
  BY LargestIsLargest
<1> QED BY <1>2, <1>3, <1>4

(* A last replica that opens gives a boundary inside the volume. *)
LEMMA LargestInVolume ==
    ASSUME NEW r \in [1 .. Replicas -> Invalid .. N], r[Replicas] # Invalid
    PROVE  Largest(r) \in 0 .. N /\ r[Replicas] \in 0 .. N
<1>1. Replicas \in 1 .. Replicas /\ N \in Nat
  BY HookAssumption
<1>2. r[Replicas] \in 0 .. N
  BY <1>1 DEF Invalid
<1>3. r[Replicas] <= Largest(r) /\ Largest(r) \in Invalid .. N
  BY <1>1, LargestIsLargest
<1> QED BY <1>1, <1>2, <1>3 DEF Invalid

(* The store writes the replicas in order. *)
LEMMA FirstTodo ==
    ASSUME NEW T \in SUBSET (1 .. Replicas), T # {}
    PROVE  LET i == CHOOSE k \in T : \A j \in T : k <= j
           IN  i \in T /\ \A j \in T : i <= j
<1>1. T \subseteq Nat
  BY HookAssumption
<1>2. \E k \in T : \A j \in T : k <= j
  BY <1>1, LeastExists
<1> QED BY <1>2

(* Sector 0 exists, and every sector is a number below N. *)
LEMMA SectorFacts ==
    /\ N \in Nat \ {0} /\ Replicas \in Nat \ {0}
    /\ Replicas \in 1 .. Replicas
    /\ 0 \in Sectors
    /\ \A s \in Sectors : s \in Nat /\ s < N
BY HookAssumption DEF Sectors

-----------------------------------------------------------------------------
(***************************************************************************)
(* Type correctness.                                                       *)
(***************************************************************************)
LEMMA TypedInit == Init => Typed
<1> SUFFICES ASSUME Init PROVE Typed
  OBVIOUS
<1>1. medium \in [Sectors -> [val : Values \cup {Garbled}, enc : BOOLEAN]]
  BY DEF Init
<1>2. replica \in [1 .. Replicas -> Invalid .. N]
  BY SectorFacts DEF Init, Invalid
<1>3. batch \in [todo : SUBSET (1 .. Replicas), to : -1 .. N]
  BY SectorFacts DEF Init, NoBatch
<1>4. /\ found \in 0 .. N /\ hook \in NoHook .. N /\ drv \in Unbound .. N
      /\ crashes \in 0 .. MaxCrashes /\ failures \in 0 .. MaxFailures
  BY HookAssumption DEF Init, NoHook, Unbound
<1>5. {held, handover, failed} \subseteq BOOLEAN
  BY DEF Init
<1> QED BY <1>1, <1>2, <1>3, <1>4, <1>5 DEF Init, Typed, TypeOK

LEMMA SeenType ==
    ASSUME TypeOK, NEW s \in Sectors
    PROVE  Seen(s) \in Values \cup {Garbled} /\ Layered(s) \in BOOLEAN
BY DEF TypeOK, Seen, Layered, hooked, bound_encrypts

LEMMA TypedStep == Typed /\ [Next]_vars => Typed'
<1> SUFFICES ASSUME Typed, [Next]_vars PROVE Typed'
  OBVIOUS
<1> USE DEF Typed, boot, disk
<1>1. ASSUME Fail PROVE failed' \in BOOLEAN /\ failures' \in 0 .. MaxFailures
  BY <1>1, HookAssumption DEF Fail, TypeOK
<1>2. replica \in [1 .. Replicas -> Invalid .. N]
  BY DEF TypeOK
<1>3. CASE PowerOn \/ LoadConfig \/ chainload_next \/ NoSystem \/ MountSystem
  BY <1>3 DEF TypeOK, PowerOn, LoadConfig, chainload_next, NoSystem,
     MountSystem
<1>4. CASE OpenVolume
  <2>1. opens => load_offset \in 0 .. N
    BY <1>2, LoadOffsetDef, LargestInVolume DEF opens
  <2> QED BY <1>4, <2>1 DEF TypeOK, OpenVolume
<1>5. CASE DropStore \/ install_handover
  BY <1>5 DEF TypeOK, DropStore, install_handover
<1>6. CASE InstallHook
  <2>1. hook' \in NoHook .. N
    BY <1>6, SectorFacts DEF TypeOK, InstallHook, NoHook
  <2> QED BY <1>6, <2>1 DEF TypeOK, InstallHook
<1>7. CASE HookFails
  BY <1>1, <1>7 DEF TypeOK, HookFails
<1>8. CASE LoaderFails
  BY <1>1, <1>8 DEF TypeOK, LoaderFails
<1>9. ASSUME NEW s \in Sectors, NEW v \in Values, Write(s, v) PROVE Typed'
  <2>1. [val |-> v, enc |-> Layered(s)]
           \in [val : Values \cup {Garbled}, enc : BOOLEAN]
    BY SeenType
  <2>2. medium' \in [Sectors -> [val : Values \cup {Garbled}, enc : BOOLEAN]]
    BY <1>9, <2>1 DEF TypeOK, Write
  <2>3. content' \in [Sectors -> Values] /\ lost' \subseteq Sectors
    BY <1>9 DEF TypeOK, Write
  <2> QED BY <1>9, <2>2, <2>3 DEF TypeOK, Write
<1>10. CASE DriverEntry
  BY <1>1, <1>10 DEF TypeOK, DriverEntry
<1>11. CASE StartDevice
  <2>1. opens => load_offset \in Unbound .. N
    BY <1>2, LoadOffsetDef, LargestInVolume, SectorFacts DEF opens, Unbound
  <2>2. Unbound \in Unbound .. N
    BY SectorFacts DEF Unbound
  <2> QED BY <1>1, <1>11, <2>1, <2>2 DEF TypeOK, StartDevice
<1>12. CASE Prepare
  <2>1. batch' \in [todo : SUBSET (1 .. Replicas), to : -1 .. N]
    BY <1>12, SectorFacts DEF Prepare
  <2> QED BY <1>12, <2>1 DEF TypeOK, Prepare
<1>13. ASSUME NEW to \in 0 .. N, Sweep(to) PROVE Typed'
  <2> DEFINE s == IF to > drv THEN drv ELSE to
  <2>1. s \in Sectors
    BY <1>13, SectorFacts DEF Sweep, TypeOK, Unbound, Sectors
  <2>2. medium' = [medium EXCEPT ![s].enc = ~@, ![s].val = Seen(s)]
    BY <1>13 DEF Sweep
  <2>3. medium' \in [Sectors -> [val : Values \cup {Garbled}, enc : BOOLEAN]]
    <3> HIDE DEF s
    <3> QED BY <2>1, <2>2, SeenType DEF TypeOK
  <2>4. batch' \in [todo : SUBSET (1 .. Replicas), to : -1 .. N]
    BY <1>13, SectorFacts DEF Sweep
  <2> QED BY <1>13, <2>3, <2>4 DEF TypeOK, Sweep
<1>14. CASE WriteReplica
  <2> DEFINE i == CHOOSE k \in batch.todo : \A j \in batch.todo : k <= j
  <2>1. batch.to \in Invalid .. N
    BY DEF Invalid
  <2>2. replica' = [replica EXCEPT ![i] = batch.to]
        /\ batch' = [batch EXCEPT !.todo = @ \ {i}]
    BY <1>14 DEF WriteReplica
  <2>3. replica' \in [1 .. Replicas -> Invalid .. N]
    BY <1>2, <2>1, <2>2
  <2>4. batch' \in [todo : SUBSET (1 .. Replicas), to : -1 .. N]
    BY <2>2
  <2> QED BY <1>14, <2>3, <2>4 DEF TypeOK, WriteReplica
<1>15. CASE BatchDone
  <2>1. drv' \in Unbound .. N
    BY <1>15 DEF BatchDone, Unbound
  <2>2. batch' \in [todo : SUBSET (1 .. Replicas), to : -1 .. N]
    BY <1>15, SectorFacts DEF BatchDone, NoBatch
  <2> QED BY <1>15, <2>1, <2>2 DEF TypeOK, BatchDone
<1>16. ASSUME Volatile
       PROVE  /\ phase' = "off" /\ found' \in 0 .. N /\ hook' \in NoHook .. N
              /\ drv' \in Unbound .. N /\ payload' = "none"
              /\ {held', handover', failed'} \subseteq BOOLEAN
  <2>1. 0 \in 0 .. N /\ -1 \in -1 .. N
    BY SectorFacts
  <2>2. {held', handover', failed'} \subseteq BOOLEAN
    BY <1>16 DEF Volatile
  <2> QED BY <1>16, <2>1, <2>2 DEF Volatile, NoHook, Unbound
<1>17. CASE Restart
  BY <1>16, <1>17 DEF TypeOK, Restart
<1>18. CASE Crash
  <2>1. replica' \in [1 .. Replicas -> Invalid .. N]
    <3>1. CASE UNCHANGED replica
      BY <1>2, <3>1
    <3>2. ASSUME NEW i \in batch.todo,
                 replica' = [replica EXCEPT ![i] = Invalid]
          PROVE  replica' \in [1 .. Replicas -> Invalid .. N]
      BY <1>2, <3>2, SectorFacts DEF Invalid
    <3> QED BY <1>18, <3>1, <3>2 DEF Crash
  <2>2. batch' \in [todo : SUBSET (1 .. Replicas), to : -1 .. N]
    BY <1>18, SectorFacts DEF Crash, NoBatch
  <2>3. lost' \subseteq Sectors
    BY <1>18 DEF Crash, InDoubt, TypeOK, Sectors
  <2>4. crashes' \in 0 .. MaxCrashes
    BY <1>18, HookAssumption DEF Crash, TypeOK
  <2>5. medium' = medium /\ content' = content /\ failures' = failures /\ Volatile
    BY <1>18 DEF Crash
  <2> QED BY <1>16, <2>1, <2>2, <2>3, <2>4, <2>5 DEF TypeOK
<1>19. CASE UNCHANGED vars
  BY <1>19 DEF TypeOK, vars
<1> QED BY <1>3, <1>4, <1>5, <1>6, <1>7, <1>8, <1>9, <1>10, <1>11, <1>12,
           <1>13, <1>14, <1>15, <1>17, <1>18, <1>19
        DEF Next

-----------------------------------------------------------------------------
(***************************************************************************)
(* The session: the loader, the hook and the driver read the same          *)
(* metadata.                                                               *)
(***************************************************************************)

(* Opening answers the same while the replicas are not written. *)
LEMMA SameMetadata ==
    ASSUME UNCHANGED replica
    PROVE  opens' = opens /\ load_offset' = load_offset
BY DEF opens, load_offset

(* A batch that has written every replica is what the next open recovers. *)
LEMMA BatchRecovered ==
    ASSUME Typed, BatchInv, batch # NoBatch, batch.todo = {}
    PROVE  opens /\ load_offset = batch.to
<1>1. replica \in [1 .. Replicas -> Invalid .. N] /\ batch.to \in 0 .. N
  BY DEF Typed, TypeOK, BatchInv
<1>2. \A i \in 1 .. Replicas : replica[i] = batch.to
  BY DEF BatchInv
<1>3. batch.to \in Int /\ batch.to # Invalid
  BY <1>1 DEF Invalid
<1>4. Largest(replica) = batch.to
  BY <1>1, <1>2, <1>3, SectorFacts, LargestIsUnique
<1> QED BY <1>2, <1>3, <1>4, SectorFacts, LoadOffsetDef DEF opens

LEMMA SessionStep ==
    Typed /\ SessionInv /\ BatchInv /\ [Next]_vars => SessionInv'
<1> SUFFICES ASSUME Typed, SessionInv, BatchInv, [Next]_vars
             PROVE  SessionInv'
  OBVIOUS
<1> USE DEF boot, disk, SessionInv
<1>1. CASE PowerOn \/ LoadConfig \/ DropStore \/ chainload_next
           \/ install_handover
  BY <1>1, SameMetadata DEF PowerOn, LoadConfig, DropStore, chainload_next,
     install_handover
<1>2. CASE OpenVolume
  BY <1>2, SameMetadata DEF OpenVolume
<1>3. CASE InstallHook
  BY <1>3, SameMetadata DEF InstallHook
<1>4. CASE HookFails
  BY <1>4, SameMetadata DEF HookFails
<1>5. CASE LoaderFails \/ NoSystem
  BY <1>5, SameMetadata DEF LoaderFails, NoSystem
<1>6. ASSUME NEW s \in Sectors, NEW v \in Values, Write(s, v)
      PROVE  SessionInv'
  BY <1>6, SameMetadata DEF Write
<1>7. CASE DriverEntry
  BY <1>7, SameMetadata DEF DriverEntry
<1>8. CASE StartDevice
  BY <1>8, SameMetadata DEF StartDevice
<1>9. CASE MountSystem
  BY <1>9, SameMetadata DEF MountSystem
<1>10. CASE Prepare
  BY <1>10, SameMetadata DEF Prepare
<1>11. ASSUME NEW to \in 0 .. N, Sweep(to) PROVE SessionInv'
  <2>1. batch' # NoBatch /\ phase = "up" /\ UNCHANGED boot
    BY <1>11, SectorFacts DEF Sweep, NoBatch
  <2> QED BY <2>1
<1>12. CASE WriteReplica
  <2>1. batch # NoBatch /\ phase = "up" /\ UNCHANGED boot
    BY <1>12 DEF WriteReplica, NoBatch
  <2>2. batch'.to = batch.to
    BY <1>12 DEF WriteReplica, Typed
  <2>3. batch' # NoBatch
    BY <2>1, <2>2 DEF NoBatch, BatchInv
  <2> QED BY <2>1, <2>3
<1>13. CASE BatchDone
  <2>1. opens' /\ load_offset' = batch.to
    BY <1>13, BatchRecovered, SameMetadata DEF BatchDone
  <2>2. phase' = "up" /\ drv' = batch.to
    BY <1>13 DEF BatchDone
  <2> QED BY <1>13, <2>1, <2>2
<1>14. CASE Restart \/ Crash
  BY <1>14 DEF Restart, Crash, Volatile
<1>15. CASE UNCHANGED vars
  BY <1>15, SameMetadata DEF vars
<1> QED BY <1>1, <1>2, <1>3, <1>4, <1>5, <1>6, <1>7, <1>8, <1>9, <1>10,
           <1>11, <1>12, <1>13, <1>14, <1>15
        DEF Next

-----------------------------------------------------------------------------
(***************************************************************************)
(* The form of the sectors.                                                *)
(***************************************************************************)

(* Whichever layer is in force covers the sectors below a boundary. *)
LEMMA LayerHasBoundary ==
    ASSUME Typed
    PROVE  \E b \in -1 .. N : \A s \in Sectors : Layered(s) <=> s < b
<1>1. CASE phase = "osloader"
  <2>1. hook \in -1 .. N
    BY DEF Typed, TypeOK, NoHook
  <2>2. \A s \in Sectors : Layered(s) <=> s < hook
    BY <1>1, <2>1, SectorFacts DEF Layered, hooked, NoHook
  <2> QED BY <2>1, <2>2
<1>2. CASE phase # "osloader"
  <2>1. drv \in -1 .. N
    BY DEF Typed, TypeOK, Unbound
  <2>2. \A s \in Sectors : Layered(s) <=> s < drv
    BY <1>2, <2>1, SectorFacts DEF Layered, bound_encrypts, Unbound
  <2> QED BY <2>1, <2>2
<1> QED BY <1>1, <1>2

(* Where a file system is found, the layer in force is right for every     *)
(* sound sector, whether or not the hook or the bind was skipped.          *)
LEMMA LayeredIsForm ==
    ASSUME Typed, SessionInv, FormInv, batch = NoBatch,
           phase \in {"osloader", "up"}, Mountable
    PROVE  /\ medium[0].enc <=> Layered(0)
           /\ medium[0].val # Garbled
           /\ \A s \in Sound : medium[s].enc <=> Layered(s)
<1>1. (medium[0].enc <=> Layered(0)) /\ medium[0].val # Garbled
  BY SectorFacts, SeenType DEF Mountable, Seen, Typed, TypeOK
<1>2. \A s \in Sound : s \in Sectors /\ s \in Nat
  BY SectorFacts DEF Sound
<1>3. CASE phase = "osloader" /\ hook # NoHook
  <2>1. opens /\ hook = load_offset
    BY <1>3 DEF SessionInv
  <2>2. \A s \in Sound : Layered(s) <=> s < load_offset
    BY <1>2, <1>3, <2>1, SectorFacts DEF Layered, hooked
  <2> QED BY <1>1, <2>1, <2>2 DEF FormInv
<1>4. CASE phase = "up" /\ drv # Unbound
  <2>1. opens /\ drv = load_offset
    BY <1>4 DEF SessionInv
  <2>2. \A s \in Sound : Layered(s) <=> s < load_offset
    BY <1>4, <2>1 DEF Layered, bound_encrypts
  <2> QED BY <1>1, <2>1, <2>2 DEF FormInv
<1>5. CASE (phase = "osloader" /\ hook = NoHook)
           \/ (phase = "up" /\ drv = Unbound)
  <2>1. \A s : ~Layered(s)
    BY <1>5 DEF Layered, hooked, bound_encrypts
  <2>2. \A s \in Sound : ~medium[s].enc
    BY <1>1, <2>1 DEF FormInv
  <2> QED BY <1>1, <2>1, <2>2
<1> QED BY <1>3, <1>4, <1>5

(* A write leaves the form of the boot sector as it is, and every sector   *)
(* that counts as sound afterwards in the form of the metadata.            *)
LEMMA FormWrite ==
    ASSUME Typed, SessionInv, FormInv, NEW s \in Sectors, NEW v \in Values,
           Write(s, v)
    PROVE  FormInv'
<1> USE DEF Write, boot
<1>1. /\ medium[0].enc <=> Layered(0)
      /\ \A t \in Sound : medium[t].enc <=> Layered(t)
  BY LayeredIsForm
<1>2. medium' = [medium EXCEPT ![s] = [val |-> v, enc |-> Layered(s)]]
      /\ medium \in [Sectors -> [val : Values \cup {Garbled}, enc : BOOLEAN]]
      /\ content \in [Sectors -> Values] /\ lost \subseteq Sectors
  BY DEF Typed, TypeOK
<1>3. medium'[s].enc = Layered(s) /\ medium'[s].val = v /\ content'[s] = v
  BY <1>2
<1>4. \A t \in Sectors : t # s => medium'[t] = medium[t] /\ content'[t] = content[t]
  BY <1>2
<1>5. opens' = opens /\ load_offset' = load_offset /\ batch' = batch
  BY SameMetadata
<1>6. \A t \in Sound' : t # s => t \in Sound
  BY DEF Sound
<1>7. s \in Sound' => s \in Sound \/ WrittenAsMetadataSays(s)
  BY DEF Sound
<1>8. \A t \in Sound' : t \in Sectors
  BY DEF Sound
<1>9. \A t \in Sound' : medium'[t].val = content'[t]
  BY <1>3, <1>4, <1>6, <1>8 DEF FormInv
<1>10. ASSUME opens, NEW t \in Sound' PROVE medium'[t].enc <=> t < load_offset
  <2>1. CASE t # s
    BY <1>4, <1>6, <1>8, <1>10, <2>1 DEF FormInv
  <2>2. CASE t = s /\ s \in Sound
    BY <1>1, <1>3, <1>10, <2>2 DEF FormInv
  <2>3. CASE t = s /\ WrittenAsMetadataSays(s)
    BY <1>3, <1>10, <2>3 DEF WrittenAsMetadataSays
  <2> QED BY <1>7, <2>1, <2>2, <2>3
<1>11. ASSUME ~medium'[0].enc, NEW t \in Sound' PROVE ~medium'[t].enc
  <2>1. ~Layered(0)
    BY <1>1, <1>3, <1>4, <1>11, SectorFacts
  <2>2. ~Layered(s)
    <3>1. PICK b \in -1 .. N : \A u \in Sectors : Layered(u) <=> u < b
      BY LayerHasBoundary
    <3> QED BY <2>1, <3>1, SectorFacts
  <2>3. CASE t = s
    BY <1>3, <2>2, <2>3
  <2>4. CASE t # s
    BY <1>1, <1>4, <1>6, <1>8, <2>1, <2>4 DEF FormInv
  <2> QED BY <2>3, <2>4
<1>12. Mountable'
  <2>1. Layered(0)' = Layered(0)
    BY DEF Layered, hooked, bound_encrypts
  <2>2. medium'[0].enc <=> Layered(0)
    BY <1>1, <1>3, <1>4, SectorFacts
  <2>3. medium'[0].val # Garbled
    <3>1. v # Garbled
      BY HookAssumption
    <3> QED BY <1>3, <1>4, <3>1, LayeredIsForm, SectorFacts
  <2>4. Layered(0) \in BOOLEAN /\ medium'[0].enc \in BOOLEAN
    BY <1>2, SeenType, SectorFacts DEF Typed
  <2>5. Seen(0)' = medium'[0].val
    BY <2>1, <2>2, <2>4 DEF Seen
  <2> QED BY <2>3, <2>5 DEF Mountable
<1> QED BY <1>5, <1>9, <1>10, <1>11, <1>12 DEF FormInv

(* A step that moves no data and no metadata keeps the form of the         *)
(* sectors; it comes up only where it has found the boot sector.           *)
LEMMA FormUnchanged ==
    ASSUME FormInv, UNCHANGED <<medium, replica, content, lost>>,
           batch = NoBatch, batch' = NoBatch, phase' = "up" => Mountable'
    PROVE  FormInv'
BY SameMetadata DEF FormInv, Sound

(* After the last replica of a batch the metadata is what the medium is. *)
LEMMA FormBatchDone ==
    ASSUME Typed, SessionInv, FormInv, BatchInv, BatchDone
    PROVE  FormInv'
<1> USE DEF BatchDone, disk
<1>1. opens' /\ load_offset' = batch.to
  BY BatchRecovered, SameMetadata
<1>2. medium' = medium /\ content' = content /\ Sound' = Sound
  BY DEF Sound
<1>3. \A s \in Sound' : medium'[s].enc <=> s < batch.to
  BY <1>2 DEF BatchInv
<1>4. ASSUME ~medium'[0].enc, NEW s \in Sound' PROVE ~medium'[s].enc
  <2>1. batch.to = 0 /\ s \in Nat
    BY <1>2, <1>4, SectorFacts DEF BatchInv, Sound
  <2> QED BY <1>3, <2>1
<1>5. Mountable'
  <2>1. phase' = "up" /\ drv' = batch.to /\ batch.to \in 0 .. N
    BY DEF SessionInv, BatchInv
  <2>2. Layered(0)' <=> 0 < batch.to
    BY <2>1 DEF Layered, bound_encrypts, Unbound
  <2>3. medium'[0].enc <=> 0 < batch.to
    BY <1>2 DEF BatchInv
  <2>4. medium'[0].enc \in BOOLEAN /\ Layered(0)' \in BOOLEAN
    BY <1>2, SectorFacts DEF Typed, TypeOK, Layered, hooked, bound_encrypts
  <2>5. Seen(0)' = medium'[0].val
    BY <2>2, <2>3, <2>4 DEF Seen
  <2> QED BY <1>2, <2>5 DEF Mountable, BatchInv
<1>6. \A s \in Sound' : medium'[s].val = content'[s]
  BY <1>2 DEF FormInv
<1> QED BY <1>1, <1>3, <1>4, <1>5, <1>6 DEF FormInv

(* A power loss counts every sector whose form the next open takes for the *)
(* wrong one.                                                              *)
LEMMA FormCrash ==
    ASSUME Typed, SessionInv, FormInv, BatchInv, Crash
    PROVE  FormInv'
<1> USE DEF Crash
<1>1. /\ medium' = medium /\ content' = content
      /\ \A s \in Sound' : s \in Sound /\ s \in Sectors /\ s \notin InDoubt'
  BY DEF Sound
<1>2. \A s \in Sound' : medium'[s].val = content'[s]
  BY <1>1 DEF FormInv
<1>3. ASSUME opens', NEW s \in Sound'
      PROVE  medium'[s].enc <=> s < load_offset'
  <2>1. medium'[s].enc = (s < load_offset')
    BY <1>1, <1>3 DEF InDoubt, Sectors
  <2> QED BY <2>1
<1>4. ASSUME ~medium'[0].enc, NEW s \in Sound' PROVE ~medium'[s].enc
  <2>1. CASE batch = NoBatch
    BY <1>1, <1>4, <2>1 DEF FormInv
  <2>2. CASE batch # NoBatch
    <3>1. batch.to = 0 /\ s \in Nat
      BY <1>1, <1>4, <2>2, SectorFacts DEF BatchInv
    <3> QED BY <1>1, <2>2, <3>1 DEF BatchInv
  <2> QED BY <2>1, <2>2
<1>5. phase' = "off"
  BY DEF Volatile
<1> QED BY <1>2, <1>3, <1>4, <1>5 DEF FormInv

(* The sector of a batch keeps its value and takes the other form. *)
LEMMA SweepSector ==
    ASSUME Typed, SessionInv, FormInv, NEW to \in 0 .. N, Sweep(to)
    PROVE  /\ \A s \in Sound : /\ medium'[s].enc <=> s < to
                               /\ medium'[s].val = medium[s].val
           /\ medium'[0].enc <=> 0 < to
           /\ medium'[0].val # Garbled
<1> DEFINE u == IF to > drv THEN drv ELSE to
<1>1. /\ drv \in 0 .. N /\ to \in {drv - 1, drv + 1}
      /\ phase = "up" /\ batch = NoBatch
  BY DEF Sweep, Typed, TypeOK, Unbound
<1>2. u \in Sectors /\ \A s \in Sectors : s # u => (s < to <=> s < drv)
  BY <1>1, SectorFacts DEF Sectors
<1>3. u < to <=> ~(u < drv)
  BY <1>1, SectorFacts
<1>4. medium' = [medium EXCEPT ![u].enc = ~@, ![u].val = Seen(u)]
  BY DEF Sweep
<1> HIDE DEF u
<1>5. medium \in [Sectors -> [val : Values \cup {Garbled}, enc : BOOLEAN]]
  BY DEF Typed, TypeOK
<1>6. /\ medium'[u].enc = ~medium[u].enc
      /\ medium'[u].val = Seen(u)
      /\ \A s \in Sectors : s # u => medium'[s] = medium[s]
  BY <1>2, <1>4, <1>5
<1>7. /\ medium[0].enc <=> Layered(0)
      /\ medium[0].val # Garbled
      /\ \A s \in Sound : medium[s].enc <=> Layered(s)
  BY <1>1, LayeredIsForm DEF FormInv
<1>8. \A s \in Sectors : Layered(s) <=> s < drv
  BY <1>1, SectorFacts DEF Layered, bound_encrypts, Unbound
<1>9. ASSUME NEW s \in Sectors, medium[s].enc <=> Layered(s)
      PROVE  (medium'[s].enc <=> s < to) /\ medium'[s].val = medium[s].val
  <2>1. CASE s = u
    <3>1. Seen(s) = medium[s].val
      BY <1>5, <1>9, SeenType DEF Seen, Typed
    <3>2. medium'[s].enc <=> ~(s < drv)
      BY <1>6, <1>8, <1>9, <2>1
    <3> QED BY <1>3, <1>6, <2>1, <3>1, <3>2
  <2>2. CASE s # u
    BY <1>2, <1>6, <1>8, <1>9, <2>2
  <2> QED BY <2>1, <2>2
<1>10. \A s \in Sound : s \in Sectors
  BY DEF Sound
<1> QED BY <1>7, <1>9, <1>10, SectorFacts

LEMMA FormStep ==
    Typed /\ SessionInv /\ FormInv /\ BatchInv /\ [Next]_vars => FormInv'
<1> SUFFICES ASSUME Typed, SessionInv, FormInv, BatchInv, [Next]_vars
             PROVE  FormInv'
  OBVIOUS
<1> USE DEF boot, disk
<1>1. CASE PowerOn \/ LoadConfig \/ OpenVolume \/ DropStore \/ InstallHook
           \/ HookFails \/ install_handover \/ chainload_next \/ LoaderFails
           \/ NoSystem \/ DriverEntry \/ StartDevice
  <2>1. /\ phase # "up" /\ phase' # "up"
        /\ UNCHANGED <<medium, replica, content, lost, batch>>
    BY <1>1 DEF PowerOn, LoadConfig, OpenVolume, DropStore, InstallHook,
       HookFails, install_handover, chainload_next, LoaderFails, NoSystem,
       DriverEntry, StartDevice
  <2> QED BY <2>1, FormUnchanged DEF SessionInv
<1>2. CASE MountSystem
  <2>1. /\ batch = NoBatch
        /\ UNCHANGED <<medium, replica, content, lost, batch, drv>>
    BY <1>2 DEF MountSystem, SessionInv
  <2>2. phase' = "up" => Mountable'
    BY <1>2, <2>1 DEF MountSystem, Mountable, Seen, Layered, bound_encrypts
  <2> QED BY <2>1, <2>2, FormUnchanged
<1>3. ASSUME NEW s \in Sectors, NEW v \in Values, Write(s, v) PROVE FormInv'
  BY <1>3, FormWrite
<1>4. CASE Prepare
  <2>1. batch' # NoBatch /\ UNCHANGED <<medium, content, lost>>
    BY <1>4 DEF Prepare, NoBatch
  <2> QED BY <2>1 DEF FormInv, Sound
<1>5. ASSUME NEW to \in 0 .. N, Sweep(to) PROVE FormInv'
  <2>1. batch' # NoBatch /\ UNCHANGED <<content, lost>>
    BY <1>5 DEF Sweep, NoBatch
  <2> QED BY <1>5, <2>1, SweepSector DEF FormInv, Sound
<1>6. CASE WriteReplica
  <2>1. batch # NoBatch /\ batch'.to = batch.to
    BY <1>6 DEF WriteReplica, Typed, NoBatch
  <2>2. batch' # NoBatch /\ UNCHANGED <<medium, content, lost>>
    BY <1>6, <2>1 DEF WriteReplica, NoBatch, BatchInv
  <2> QED BY <2>2 DEF FormInv, Sound
<1>7. CASE BatchDone
  BY <1>7, FormBatchDone
<1>8. CASE Restart
  BY <1>8, FormUnchanged DEF Restart, Volatile
<1>9. CASE Crash
  BY <1>9, FormCrash
<1>10. CASE UNCHANGED vars
  BY <1>10, SameMetadata
     DEF vars, FormInv, Sound, Mountable, Seen, Layered, hooked, bound_encrypts
<1> QED BY <1>1, <1>2, <1>3, <1>4, <1>5, <1>6, <1>7, <1>8, <1>9, <1>10
        DEF Next

-----------------------------------------------------------------------------
(***************************************************************************)
(* Batches.                                                                *)
(***************************************************************************)
LEMMA BatchWriteReplica ==
    ASSUME Typed, SessionInv, BatchInv, WriteReplica
    PROVE  BatchInv'
<1> DEFINE i == CHOOSE k \in batch.todo : \A j \in batch.todo : k <= j
<1>1. i \in batch.todo /\ \A j \in batch.todo : i <= j
  BY FirstTodo DEF Typed, WriteReplica
<1>2. /\ replica' = [replica EXCEPT ![i] = batch.to]
      /\ batch' = [batch EXCEPT !.todo = @ \ {i}]
  BY DEF WriteReplica
<1> HIDE DEF i
<1>3. /\ batch.todo \subseteq 1 .. Replicas
      /\ batch'.todo = batch.todo \ {i} /\ batch'.to = batch.to
      /\ replica \in [1 .. Replicas -> Invalid .. N]
  BY <1>2 DEF Typed, TypeOK
<1>4. batch # NoBatch
  BY <1>1 DEF NoBatch
<1>5. UNCHANGED <<medium, lost, drv>> /\ Sound' = Sound
  BY DEF WriteReplica, Sound, boot
<1>6. \A k \in (1 .. Replicas) \ batch'.todo : replica'[k] = batch'.to
  BY <1>2, <1>3, <1>4 DEF BatchInv
<1>7. batch'.todo # {} =>
         Replicas \in batch'.todo /\ replica'[Replicas] = replica[Replicas]
  <2>1. Replicas \in batch.todo
    BY <1>1, <1>4 DEF BatchInv
  <2>2. ASSUME i = Replicas PROVE batch'.todo = {}
    <3>1. \A j \in batch.todo : j = Replicas
      BY <1>1, <1>3, <2>2, SectorFacts
    <3> QED BY <1>3, <2>2, <3>1
  <2> QED BY <1>2, <1>3, <2>1, <2>2
<1>8. \A k \in batch'.todo : replica'[k] = replica[k]
  BY <1>2, <1>3
<1> QED BY <1>1, <1>3, <1>4, <1>5, <1>6, <1>7, <1>8 DEF BatchInv

LEMMA BatchStep ==
    Typed /\ SessionInv /\ FormInv /\ BatchInv /\ [Next]_vars => BatchInv'
<1> SUFFICES ASSUME Typed, SessionInv, FormInv, BatchInv, [Next]_vars
             PROVE  BatchInv'
  OBVIOUS
<1> USE DEF boot, disk
<1>1. CASE PowerOn \/ LoadConfig \/ OpenVolume \/ DropStore \/ InstallHook
           \/ HookFails \/ install_handover \/ chainload_next \/ LoaderFails
           \/ NoSystem \/ DriverEntry \/ StartDevice \/ MountSystem
  <2>1. phase # "up" /\ UNCHANGED batch
    BY <1>1 DEF PowerOn, LoadConfig, OpenVolume, DropStore, InstallHook,
       HookFails, install_handover, chainload_next, LoaderFails, NoSystem,
       DriverEntry, StartDevice, MountSystem
  <2> QED BY <2>1 DEF SessionInv, BatchInv
<1>2. ASSUME NEW s \in Sectors, NEW v \in Values, Write(s, v) PROVE BatchInv'
  BY <1>2 DEF Write, BatchInv
<1>3. CASE BatchDone \/ Restart \/ Crash
  BY <1>3 DEF BatchDone, Restart, Crash, BatchInv
<1>4. CASE Prepare
  <2>1. /\ batch'.todo = 1 .. Replicas /\ batch'.to = 0
        /\ drv' = Unbound /\ replica'[Replicas] = Invalid
        /\ medium' = medium /\ lost' = lost
        /\ \A s \in Sectors : ~medium[s].enc
    BY <1>4 DEF Prepare, opens
  <2>2. medium'[0].val # Garbled
    BY <1>4, LayeredIsForm DEF Prepare, FormInv
  <2>3. \A s \in Sound' : s \in Sectors /\ s \in Nat
    BY SectorFacts DEF Sound
  <2> QED BY <2>1, <2>2, <2>3, SectorFacts DEF BatchInv
<1>5. ASSUME NEW to \in 0 .. N, Sweep(to) PROVE BatchInv'
  <2>1. /\ batch'.todo = 1 .. Replicas /\ batch'.to = to
        /\ drv' = drv /\ replica' = replica /\ lost' = lost
        /\ drv # Unbound /\ to \in {drv - 1, drv + 1} /\ batch = NoBatch
    BY <1>5 DEF Sweep
  <2>2. /\ \A s \in Sound' : medium'[s].enc <=> s < to
        /\ (medium'[0].enc <=> 0 < to) /\ medium'[0].val # Garbled
    BY <1>5, <2>1, SweepSector DEF Sound
  <2>3. \A i \in 1 .. Replicas : replica[i] <= drv
    BY <2>1, LoadOffsetDef, LargestIsLargest DEF SessionInv, Typed, TypeOK
  <2>4. replica[Replicas] # Invalid
    BY <2>1 DEF SessionInv, opens
  <2> QED BY <2>1, <2>2, <2>3, <2>4, SectorFacts DEF BatchInv
<1>6. CASE WriteReplica
  BY <1>6, BatchWriteReplica
<1>7. CASE UNCHANGED vars
  BY <1>7 DEF vars, BatchInv, Sound
<1> QED BY <1>1, <1>2, <1>3, <1>4, <1>5, <1>6, <1>7 DEF Next

-----------------------------------------------------------------------------
LEMMA HookInvInit == Init => HookInv
<1> SUFFICES ASSUME Init PROVE HookInv
  OBVIOUS
<1>1. Typed
  BY TypedInit
<1>2. SessionInv /\ BatchInv
  BY DEF Init, SessionInv, BatchInv
<1>3. ~opens
  BY SectorFacts DEF Init, opens
<1>4. FormInv
  BY <1>3, SectorFacts DEF Init, FormInv, Sound
<1> QED BY <1>1, <1>2, <1>4 DEF HookInv

LEMMA HookInvStep == HookInv /\ [Next]_vars => HookInv'
BY TypedStep, SessionStep, FormStep, BatchStep DEF HookInv

LEMMA HookInvHolds == Spec => []HookInv
BY HookInvInit, HookInvStep, PTL DEF Spec

-----------------------------------------------------------------------------
(***************************************************************************)
(* The theorems.                                                           *)
(***************************************************************************)

(* Every variable of the boot and of the disk keeps its type. *)
THEOREM BootTypeCorrect == Spec => []TypeOK
<1>1. HookInv => TypeOK
  BY DEF HookInv, Typed
<1> QED BY <1>1, HookInvHolds, PTL

(* What the next boot recovers describes the medium, after any number of   *)
(* power losses and failing calls, up to the sectors a power loss left in  *)
(* doubt: hooked_write_blocks and the volume filter write in the form that *)
(* load_offset will answer for.                                            *)
THEOREM MetadataIsTrue == Spec => []DiskMatchesMetadata
<1>1. HookInv => DiskMatchesMetadata
  <2> SUFFICES ASSUME HookInv, batch = NoBatch, opens, NEW s \in Sectors,
                      medium[s].enc # (s < load_offset), s \notin lost
               PROVE  FALSE
    BY DEF DiskMatchesMetadata, InDoubt
  <2>1. medium[s].enc <=> s < load_offset
    BY DEF HookInv, FormInv, Sound
  <2>2. medium[s].enc \in BOOLEAN
    BY DEF HookInv, Typed, TypeOK
  <2> QED BY <2>1, <2>2
<1> QED BY <1>1, HookInvHolds, PTL

(* The OS loader through the Block I/O hook, and Windows through the       *)
(* volume filter, see what was last written, also when install_decrypt_hook*)
(* or try_mount_handover_volume has failed and the boot went on without.   *)
THEOREM BootIsTransparent == Spec => []BootTransparent
<1>1. HookInv => BootTransparent
  <2> SUFFICES ASSUME HookInv, phase \in {"osloader", "up"}, batch = NoBatch,
                      Mountable, NEW s \in Sectors \ lost
               PROVE  Seen(s) = content[s]
    BY DEF BootTransparent
  <2>1. medium[s].enc <=> Layered(s)
    BY LayeredIsForm DEF HookInv, Sound
  <2>2. medium[s].enc \in BOOLEAN /\ Layered(s) \in BOOLEAN
    BY SeenType DEF HookInv, Typed, TypeOK
  <2>3. Seen(s) = medium[s].val
    BY <2>1, <2>2 DEF Seen
  <2> QED BY <2>3 DEF HookInv, FormInv, Sound
<1> QED BY <1>1, HookInvHolds, PTL

(* try_mount_handover_volume binds the volume with the boundary that the   *)
(* loader's hook had, however the replicas differ: nothing writes metadata *)
(* between the two opens, and both take the largest offset.                *)
THEOREM LoaderAndDriverAgree == Spec => LoaderDriverAgree
<1>1. HookInv /\ [Next]_vars
        => [phase = "start" /\ drv' # Unbound /\ hook # NoHook
              => drv' = hook]_vars
  <2> SUFFICES ASSUME HookInv, Next, phase = "start", drv' # Unbound,
                      hook # NoHook
               PROVE  drv' = hook
    OBVIOUS
  <2>1. drv = Unbound /\ hook = load_offset /\ batch = NoBatch
    BY DEF HookInv, SessionInv
  <2>2. CASE StartDevice
    BY <2>1, <2>2 DEF StartDevice
  <2>3. CASE Crash
    BY <2>3 DEF Crash, Volatile
  <2>4. CASE WriteReplica
    BY <2>1, <2>4 DEF WriteReplica, NoBatch
  <2> QED BY <2>1, <2>2, <2>3, <2>4
          DEF Next, PowerOn, LoadConfig, OpenVolume, DropStore, InstallHook,
              HookFails, install_handover, chainload_next, LoaderFails, Write,
              NoSystem, DriverEntry, MountSystem, Prepare, BatchDone, Sweep,
              Restart
<1> QED BY <1>1, HookInvHolds, PTL DEF Spec, LoaderDriverAgree

-----------------------------------------------------------------------------
(***************************************************************************)
(* The price of a power loss.                                              *)
(***************************************************************************)
LEMMA FewerSectors ==
    ASSUME NEW A, NEW B, A \subseteq B, B \subseteq Sectors
    PROVE  /\ Cardinality(A) \in Nat /\ Cardinality(B) \in Nat
           /\ Cardinality(A) <= Cardinality(B)
<1>1. IsFiniteSet(Sectors)
  BY SectorFacts, FS_Interval DEF Sectors
<1>2. IsFiniteSet(B)
  BY <1>1, FS_Subset
<1>3. IsFiniteSet(A) /\ Cardinality(A) <= Cardinality(B)
  BY <1>2, FS_Subset
<1> QED BY <1>2, <1>3, FS_CardinalityType

LEMMA OneMoreSector ==
    ASSUME NEW A, NEW B, NEW x \in Sectors, A \subseteq B \cup {x},
           B \subseteq Sectors
    PROVE  Cardinality(A) <= Cardinality(B) + 1
<1>1. Cardinality(A) <= Cardinality(B \cup {x})
      /\ Cardinality(A) \in Nat /\ Cardinality(B \cup {x}) \in Nat
  BY FewerSectors
<1>2. IsFiniteSet(B)
  <2>1. IsFiniteSet(Sectors)
    BY SectorFacts, FS_Interval DEF Sectors
  <2> QED BY <2>1, FS_Subset
<1>3. Cardinality(B) \in Nat
  BY <1>2, FS_CardinalityType
<1>4. Cardinality(B \cup {x}) = IF x \in B THEN Cardinality(B)
                                ELSE Cardinality(B) + 1
  BY <1>2, FS_AddElement
<1> QED BY <1>1, <1>3, <1>4

LEMMA AtRiskType == AtRisk \subseteq Sectors
BY DEF AtRisk, Sectors

(* A power loss within a batch adds at most the sector of the batch to     *)
(* what is in doubt or at risk.                                            *)
LEMMA CrashWithinBatch ==
    ASSUME HookInv, Crash, batch # NoBatch
    PROVE  \E x \in Sectors :
              (lost \cup AtRisk)' \subseteq lost \cup AtRisk \cup {x}
<1> USE DEF Crash
<1> DEFINE r == replica'
           L == Largest(r)
           last == r[Replicas]
<1>1. /\ r \in [1 .. Replicas -> Invalid .. N]
      /\ replica \in [1 .. Replicas -> Invalid .. N]
      /\ batch.todo \subseteq 1 .. Replicas
  BY TypedStep DEF HookInv, Typed, TypeOK, Next
<1>2. BatchInv /\ Typed /\ batch' = NoBatch /\ lost' = lost \cup InDoubt'
  BY DEF HookInv
<1>3. opens' <=> last # Invalid
  BY DEF opens
<1>4. load_offset' = L
  BY LoadOffsetDef
<1>5. /\ InDoubt' = IF opens' THEN {s \in Sectors : medium[s].enc # (s < L)}
                              ELSE {}
      /\ AtRisk' = IF opens' THEN {s \in Sectors : last <= s /\ s < L} ELSE {}
  BY <1>2, <1>4 DEF InDoubt, AtRisk, Sectors
<1>6. /\ \A i \in 1 .. Replicas : r[i] = replica[i] \/ r[i] = Invalid
      /\ batch.todo = {} => r = replica
  BY <1>1
<1>7. \A s \in Sectors : medium[s].enc \in BOOLEAN
  BY <1>2 DEF Typed, TypeOK
<1>8. CASE ~opens'
  BY <1>2, <1>5, <1>8, SectorFacts
<1>9. CASE opens' /\ batch.todo = {}
  <2>1. load_offset = batch.to /\ L = batch.to /\ last = batch.to
    BY <1>2, <1>6, <1>9, BatchRecovered, LoadOffsetDef, SectorFacts
       DEF BatchInv
  <2>2. batch.to \in Int
    BY <1>2 DEF BatchInv
  <2>3. AtRisk' = {}
    BY <1>5, <2>1, <2>2, SectorFacts
  <2>4. \A s \in Sound : medium[s].enc = (s < L)
    BY <1>2, <1>7, <2>1 DEF BatchInv, Sound
  <2>5. InDoubt' \subseteq lost
    BY <1>5, <2>4 DEF Sound
  <2> QED BY <1>2, <2>3, <2>5, SectorFacts
<1>10. CASE opens' /\ batch.todo # {}
  <2> DEFINE x == IF batch.to > drv THEN drv ELSE batch.to
  <2>1. /\ Replicas \in batch.todo
        /\ last = replica[Replicas] /\ last # Invalid
    BY <1>2, <1>3, <1>6, <1>10, SectorFacts DEF BatchInv
  <2>2. drv # Unbound
    BY <1>2, <1>10, <2>1 DEF BatchInv
  <2>3. /\ drv \in 0 .. N /\ batch.to \in 0 .. N
        /\ batch.to \in {drv - 1, drv + 1}
        /\ \A i \in batch.todo : replica[i] <= drv
        /\ \A i \in (1 .. Replicas) \ batch.todo : replica[i] = batch.to
        /\ \A s \in Sound : medium[s].enc <=> s < batch.to
    BY <1>2, <2>2 DEF BatchInv, Typed, TypeOK, Unbound
  <2>4. AtRisk = {s \in Sectors : last <= s /\ s < drv}
    BY <1>10, <2>1, <2>2 DEF AtRisk, opens
  <2>5. L \in 0 .. N /\ last \in 0 .. N /\ last <= L
    BY <1>1, <2>1, SectorFacts, LargestInVolume, LargestIsLargest
  <2>6. L <= drv \/ L <= batch.to
    <3>1. PICK i \in 1 .. Replicas : r[i] = L
      BY <1>1, LargestIsLargest
    <3>2. L = replica[i]
      BY <1>6, <2>5, <3>1 DEF Invalid
    <3> QED BY <2>3, <3>2
  <2>7. x \in Sectors
    BY <2>3, SectorFacts DEF Sectors
  <2>8. ASSUME NEW s \in Sectors, s \notin lost, s # x,
               s \in InDoubt' \/ s \in AtRisk'
        PROVE  s \in AtRisk
    <3>1. s \in Nat /\ s < N
      BY SectorFacts
    <3>2. CASE s \in InDoubt'
      <4>1. medium[s].enc # (s < L)
        BY <1>5, <1>10, <3>2
      <4>2. medium[s].enc = (s < batch.to)
        BY <1>7, <2>3, <2>8 DEF Sound
      <4>3. (s < batch.to) # (s < L)
        BY <4>1, <4>2
      <4>4. last <= s /\ s < drv
        BY <2>3, <2>5, <2>6, <2>8, <3>1, <4>3
      <4> QED BY <2>4, <4>4
    <3>3. CASE s \in AtRisk'
      <4>1. last <= s /\ s < L
        BY <1>5, <1>10, <3>3
      <4>2. s < drv
        BY <2>3, <2>5, <2>6, <2>8, <3>1, <4>1
      <4> QED BY <2>4, <4>1, <4>2
    <3> QED BY <2>8, <3>2, <3>3
  <2>9. InDoubt' \subseteq Sectors /\ AtRisk' \subseteq Sectors
    BY <1>5
  <2>10. (lost \cup AtRisk)' \subseteq lost \cup AtRisk \cup {x}
    <3> HIDE DEF x
    <3> QED BY <1>2, <2>8, <2>9
  <2> QED BY <2>7, <2>10
<1> QED BY <1>8, <1>9, <1>10

(* No other step adds anything. *)
LEMMA NoCrashNoLoss ==
    ASSUME HookInv, [Next]_vars, ~Crash \/ batch = NoBatch
    PROVE  (lost \cup AtRisk)' \subseteq lost \cup AtRisk
<1> USE DEF boot, disk
<1> Typed /\ SessionInv /\ FormInv /\ BatchInv
  BY DEF HookInv
<1>1. ASSUME batch = NoBatch, batch' = NoBatch, replica' = replica
      PROVE  AtRisk' = AtRisk
  BY <1>1, SameMetadata DEF AtRisk, Sectors
<1>2. CASE PowerOn \/ LoadConfig \/ OpenVolume \/ DropStore \/ InstallHook
           \/ HookFails \/ install_handover \/ chainload_next \/ LoaderFails
           \/ NoSystem \/ DriverEntry \/ StartDevice \/ MountSystem \/ Restart
  <2>1. /\ UNCHANGED <<replica, lost, batch>>
        /\ phase # "up" \/ batch = NoBatch
    BY <1>2 DEF PowerOn, LoadConfig, OpenVolume, DropStore, InstallHook,
       HookFails, install_handover, chainload_next, LoaderFails, NoSystem,
       DriverEntry, StartDevice, MountSystem, Restart
  <2> QED BY <1>1, <2>1 DEF SessionInv
<1>3. ASSUME NEW s \in Sectors, NEW v \in Values, Write(s, v)
      PROVE  (lost \cup AtRisk)' \subseteq lost \cup AtRisk
  <2>1. /\ batch = NoBatch /\ batch' = NoBatch /\ replica' = replica
        /\ lost' \subseteq lost
    BY <1>3 DEF Write
  <2> QED BY <1>1, <2>1
<1>4. CASE Prepare
  <2>1. ~opens' /\ lost' = lost
    BY <1>4, SameMetadata DEF Prepare
  <2>2. AtRisk' = {}
    BY <2>1 DEF AtRisk
  <2> QED BY <2>1, <2>2
<1>5. ASSUME NEW to \in 0 .. N, Sweep(to)
      PROVE  (lost \cup AtRisk)' \subseteq lost \cup AtRisk
  <2>1. /\ batch = NoBatch /\ replica' = replica /\ lost' = lost
        /\ drv' = drv /\ drv # Unbound /\ batch' # NoBatch
    BY <1>5 DEF Sweep, NoBatch
  <2>2. opens /\ drv = load_offset
    BY <2>1 DEF SessionInv
  <2>3. AtRisk = {s \in Sectors : replica[Replicas] <= s /\ s < drv}
    BY <2>1, <2>2 DEF AtRisk
  <2>4. AtRisk' \subseteq {s \in Sectors : replica[Replicas] <= s /\ s < drv}
    BY <2>1 DEF AtRisk, Sectors
  <2> QED BY <2>1, <2>3, <2>4
<1>6. CASE WriteReplica
  <2>1. /\ batch # NoBatch /\ batch.todo # {} /\ batch'.to = batch.to
        /\ lost' = lost /\ drv' = drv
    BY <1>6 DEF WriteReplica, NoBatch, Typed
  <2>2. batch' # NoBatch
    BY <2>1 DEF NoBatch, BatchInv
  <2>3. CASE batch'.todo = {} \/ drv = Unbound
    <3>1. AtRisk' = {}
      BY <2>1, <2>2, <2>3 DEF AtRisk
    <3> QED BY <2>1, <3>1
  <2>4. CASE batch'.todo # {} /\ drv # Unbound
    <3> DEFINE i == CHOOSE k \in batch.todo : \A j \in batch.todo : k <= j
    <3>1. BatchInv' /\ Replicas \in batch'.todo
      BY <1>6, <2>2, <2>4, BatchWriteReplica DEF BatchInv
    <3>2. replica' = [replica EXCEPT ![i] = batch.to]
          /\ batch' = [batch EXCEPT !.todo = @ \ {i}]
      BY <1>6 DEF WriteReplica
    <3>3. Replicas # i
      BY <3>1, <3>2 DEF Typed
    <3>4. replica'[Replicas] = replica[Replicas]
      <4> HIDE DEF i
      <4> QED BY <3>2, <3>3, SectorFacts DEF Typed, TypeOK
    <3>5. AtRisk' = AtRisk
      BY <2>1, <2>2, <2>4, <3>4 DEF AtRisk, opens, Sectors
    <3> QED BY <2>1, <3>5
  <2> QED BY <2>3, <2>4
<1>7. CASE BatchDone
  <2>1. /\ opens' /\ load_offset' = batch.to /\ lost' = lost
        /\ batch' = NoBatch /\ replica' = replica
    BY <1>7, BatchRecovered, SameMetadata DEF BatchDone
  <2>2. replica[Replicas] = batch.to /\ batch.to \in Int
    BY <1>7, SectorFacts DEF BatchDone, BatchInv
  <2>3. AtRisk' = {}
    BY <2>1, <2>2, SectorFacts DEF AtRisk, Sectors
  <2> QED BY <2>1, <2>3
<1>8. CASE Crash
  <2>1. /\ batch = NoBatch /\ batch' = NoBatch /\ replica' = replica
        /\ medium' = medium /\ lost' = lost \cup InDoubt'
    BY <1>8 DEF Crash, NoBatch
  <2>2. InDoubt' = InDoubt
    BY <2>1, SameMetadata DEF InDoubt, Sectors
  <2>3. InDoubt \subseteq lost
    <3> SUFFICES ASSUME opens, NEW s \in Sectors, s \notin lost
                 PROVE  medium[s].enc = (s < load_offset)
      BY DEF InDoubt
    <3>1. medium[s].enc <=> s < load_offset
      BY <2>1 DEF FormInv, Sound
    <3>2. medium[s].enc \in BOOLEAN
      BY DEF Typed, TypeOK
    <3> QED BY <3>1, <3>2
  <2> QED BY <1>1, <2>1, <2>2, <2>3
<1>9. CASE UNCHANGED vars
  BY <1>9, SameMetadata DEF vars, AtRisk, opens, Sectors
<1> QED BY <1>2, <1>3, <1>4, <1>5, <1>6, <1>7, <1>8, <1>9 DEF Next

LEMMA BudgetInit == Init => BudgetInv
<1> SUFFICES ASSUME Init PROVE BudgetInv
  OBVIOUS
<1>1. ~opens
  BY SectorFacts DEF Init, opens
<1>2. lost \cup AtRisk = {}
  BY <1>1 DEF Init, AtRisk
<1>3. Cardinality(lost \cup AtRisk) = 0
  BY <1>2, FS_EmptySet
<1> QED BY <1>3 DEF Init, BudgetInv

LEMMA BudgetStep == HookInv /\ BudgetInv /\ [Next]_vars => BudgetInv'
<1> SUFFICES ASSUME HookInv, BudgetInv, [Next]_vars PROVE BudgetInv'
  OBVIOUS
<1> DEFINE before == lost \cup AtRisk
           after == lost' \cup AtRisk'
<1>1. before \subseteq Sectors
  BY AtRiskType DEF HookInv, Typed, TypeOK
<1>2. Cardinality(before) <= crashes /\ Cardinality(before) \in Nat
      /\ crashes \in Nat
  BY <1>1, FewerSectors, HookAssumption DEF BudgetInv, HookInv, Typed, TypeOK
<1>3. CASE Crash /\ batch # NoBatch
  <2>1. PICK x \in Sectors : after \subseteq before \cup {x}
    BY <1>3, CrashWithinBatch
  <2>2. after \subseteq Sectors
    BY <1>1, <2>1
  <2> HIDE DEF before, after
  <2>3. Cardinality(after) <= Cardinality(before) + 1
    BY <1>1, <2>1, OneMoreSector
  <2>4. Cardinality(after) \in Nat
    BY <2>2, FewerSectors
  <2>5. crashes' = crashes + 1
    BY <1>3 DEF Crash
  <2>6. Cardinality(after) <= crashes'
    BY <1>2, <2>3, <2>4, <2>5
  <2> QED BY <2>6 DEF BudgetInv, after
<1>4. CASE ~Crash \/ batch = NoBatch
  <2>1. after \subseteq before
    BY <1>4, NoCrashNoLoss
  <2> HIDE DEF before, after
  <2>2. Cardinality(after) <= Cardinality(before) /\ Cardinality(after) \in Nat
    BY <1>1, <2>1, FewerSectors
  <2>3. crashes' \in {crashes, crashes + 1}
    BY DEF Next, PowerOn, LoadConfig, OpenVolume, DropStore, InstallHook,
       HookFails, install_handover, chainload_next, LoaderFails, Write,
       NoSystem, DriverEntry, StartDevice, MountSystem, Prepare, WriteReplica,
       BatchDone, Sweep, Restart, Crash, vars
  <2>4. Cardinality(after) <= crashes'
    BY <1>2, <2>2, <2>3
  <2> QED BY <2>4 DEF BudgetInv, after
<1> QED BY <1>3, <1>4

(* However many power losses come, each costs at most one sector: also     *)
(* when the replicas disagree by more than one batch, because a crash in   *)
(* the first batch after a crash leaves the later ones further behind.     *)
(* The sectors between the last replica and the boundary are counted       *)
(* before they are lost.                                                   *)
THEOREM OneSectorEach == Spec => []OneSectorPerCrash
<1>1. HookInv /\ BudgetInv => OneSectorPerCrash
  <2> SUFFICES ASSUME HookInv, BudgetInv PROVE Cardinality(lost) <= crashes
    BY DEF OneSectorPerCrash
  <2>1. lost \cup AtRisk \subseteq Sectors
    BY AtRiskType DEF HookInv, Typed, TypeOK
  <2>2. /\ Cardinality(lost) <= Cardinality(lost \cup AtRisk)
        /\ Cardinality(lost) \in Nat /\ Cardinality(lost \cup AtRisk) \in Nat
    BY <2>1, FewerSectors
  <2>3. crashes \in Nat
    BY HookAssumption DEF HookInv, Typed, TypeOK
  <2> QED BY <2>2, <2>3 DEF BudgetInv
<1> QED BY <1>1, HookInvInit, HookInvStep, BudgetInit, BudgetStep, PTL DEF Spec

=============================================================================
