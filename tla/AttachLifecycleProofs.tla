----------------------- MODULE AttachLifecycleProofs -----------------------
(***************************************************************************)
(* Theorems about AttachLifecycle that hold for every set of volumes,      *)
(* whichever of them add_device has seen, may fail to attach or may have   *)
(* open files, and for every size.                                         *)
(***************************************************************************)
EXTENDS AttachLifecycle, TLAPS

-----------------------------------------------------------------------------
(***************************************************************************)
(* The inductive invariant.                                                *)
(***************************************************************************)
Typed ==
    /\ entries \in [Keys -> Pointer]
    /\ handover \in BOOLEAN
    /\ device \in [Volumes -> {"none", "live", "deleted"}]
    /\ volume \in [Volumes -> Pointer]
    /\ vthread \in [Volumes -> BOOLEAN]
    /\ req \in Request
    /\ phase \in {"up", "shutdown", "unloading", "unloaded", "bugcheck"}
    /\ meta \in [Volumes -> BOOLEAN] /\ strayMeta \in [Volumes -> BOOLEAN]
    /\ offset \in [Volumes -> 0 .. N]
    /\ dir \in [Volumes -> VolumeState]
    /\ vckJson \in BOOLEAN

BoundObjects == {volume[v] : v \in Volumes} \ {NoVolume}

(* Whatever is referenced is bound: an object is in the registry or with a *)
(* handler only while its filter refers to it, so that a volume never has  *)
(* two objects.                                                            *)
ObjectInv == DOMAIN attached = BoundObjects

(* An object and what belongs to it: with the cipher its thread runs, a    *)
(* sweep has a next batch, and an object whose store is the metadata of    *)
(* the volume agrees with it on the boundary and on where it sweeps to.    *)
GoodObject(v, a) ==
    /\ a \in AttachedVolume /\ a.vol = v
    /\ a.cipher => vthread[v]
    /\ a.engine = "Encrypting" => a.boundary < N
    /\ a.engine = "Decrypting" => a.boundary > 0
    /\ a.cipher /\ ~a.stray =>
          /\ a.boundary = offset[v]
          /\ a.engine = "Encrypting" => dir[v] = "Encrypt"

BoundInv(v) ==
    /\ volume[v] \in {v} \X Incarnations
    /\ device[v] = "live"
    /\ GoodObject(v, attached[volume[v]])
    /\ \/ entries[App(v)] = volume[v] \/ entries[Nt(v)] = volume[v]
       \/ ~attached[volume[v]].filter

EntryInv(v) ==
    /\ entries[App(v)] \in {NoVolume, volume[v]}
    /\ entries[Nt(v)] \in {NoVolume, volume[v]}
    /\ entries[App(v)] # NoVolume \/ entries[Nt(v)] # NoVolume =>
          attached[volume[v]].filter
    /\ entries[Nt(v)] # NoVolume => v = OsVolume /\ handover
    /\ entries[Nt(v)] # NoVolume => attached[volume[v]].cipher

VolumeInv(v) ==
    /\ volume[v] # NoVolume => BoundInv(v)
    /\ volume[v] = NoVolume => ~vthread[v]
    /\ EntryInv(v)

(* PREPARE has bound a volume that it has not opened yet. *)
Opening(v) == req.pc \in {"write", "open"} /\ req.vol = v

Preparing(v) ==
    req.pc \in {"add", "fallback", "write", "open"} /\ req.vol = v

(* DETACH is about to give the volume up, or has. *)
GivenUp(v) ==
    volume[v] # NoVolume /\ (~attached[volume[v]].filter
                                \/ (req.pc = "remove" /\ req.vol = v))

(* The OS volume is prepared once, before there is a handover; from then   *)
(* on its object has the cipher and is marked Handover, however it was     *)
(* bound.  One that DETACH let pass was not encrypted.                     *)
OsInv ==
    /\ handover => vckJson
    /\ entries[App(OsVolume)] # NoVolume \/ Preparing(OsVolume) =>
          vckJson /\ ~handover
    /\ Preparing(OsVolume) => req.vmk /\ ~req.hidden
    /\ req.pc \in {"add", "fallback"} /\ req.vol = OsVolume =>
          volume[OsVolume] = NoVolume
    /\ volume[OsVolume] # NoVolume =>
          /\ vckJson
          /\ attached[volume[OsVolume]].source = "Handover"
          /\ ~attached[volume[OsVolume]].stray
          /\ attached[volume[OsVolume]].cipher \/ Opening(OsVolume)
    /\ GivenUp(OsVolume) => offset[OsVolume] = 0 \/ dir[OsVolume] = "Encrypt"
    /\ OsVolume \notin req.todo

RequestInv ==
    /\ req.pc \in {"add", "fallback", "write", "open", "remove", "lock"} =>
          req.vol \in Volumes
    /\ req.pc = "add" => \/ volume[req.vol] = NoVolume
                         \/ ~attached[volume[req.vol]].filter
    /\ req.pc = "fallback" => volume[req.vol] = NoVolume
    /\ req.pc \in {"write", "open"} =>
          /\ volume[req.vol] # NoVolume
          /\ entries[App(req.vol)] = volume[req.vol]
          /\ ~attached[volume[req.vol]].cipher
    /\ req.pc = "remove" => entries[App(req.vol)] # NoVolume
    /\ req.pc = "lock" => /\ volume[req.vol] # NoVolume
                          /\ req.object = volume[req.vol]
                          /\ entries[App(req.vol)] = NoVolume
                          /\ entries[Nt(req.vol)] = NoVolume
    /\ req.pc # "lock" => req.object = NoVolume

LifeInv ==
    /\ Typed /\ ObjectInv
    /\ \A v \in Volumes : VolumeInv(v)
    /\ OsInv /\ RequestInv

-----------------------------------------------------------------------------
(***************************************************************************)
(* Keys and objects.                                                       *)
(***************************************************************************)
LEMMA Ids ==
    /\ OsVolume \in Volumes /\ N \in Nat \ {0}
    /\ NoVolume \notin Volumes /\ NoVolume \notin Objects
BY LifecycleAssumption DEF Objects

LEMMA KeyFacts ==
    /\ \A v \in Volumes : App(v) \in Keys /\ Nt(v) \in Keys
    /\ \A v \in Volumes, w \in Volumes :
          /\ App(v) # Nt(w)
          /\ App(v) = App(w) => v = w
          /\ Nt(v) = Nt(w) => v = w
    /\ \A k \in Keys : \E v \in Volumes : k = App(v) \/ k = Nt(v)
BY DEF Keys, App, Nt

LEMMA IdFacts ==
    ASSUME NEW v \in Volumes, NEW o \in {v} \X Incarnations
    PROVE  o \in Objects /\ o # NoVolume
           /\ \A w : o \in {w} \X Incarnations => w = v
BY Ids DEF Objects

(* Two incarnations are enough: a volume has one object at most.           *)
LEMMA FreshIs ==
    ASSUME LifeInv, NEW v \in Volumes
    PROVE  /\ FreshObject(v) \in {v} \X Incarnations
           /\ FreshObject(v) \notin DOMAIN attached
           /\ FreshObject(v) \in Objects /\ FreshObject(v) # NoVolume
<1>1. ASSUME NEW o \in {v} \X Incarnations, o \in DOMAIN attached
      PROVE  o = volume[v]
  <2>1. PICK w \in Volumes : o = volume[w] /\ o # NoVolume
    BY <1>1 DEF LifeInv, ObjectInv, BoundObjects
  <2>2. o \in {w} \X Incarnations
    BY <2>1 DEF LifeInv, VolumeInv, BoundInv
  <2>3. w = v
    BY <2>2, IdFacts
  <2> QED BY <2>1, <2>3
<1>2. PICK i \in Incarnations, j \in Incarnations : i # j
  BY LifecycleAssumption
<1>3. <<v, i>> \in {v} \X Incarnations /\ <<v, j>> \in {v} \X Incarnations
      /\ <<v, i>> # <<v, j>>
  BY <1>2
<1>4. \E o \in {v} \X Incarnations : o \notin DOMAIN attached
  BY <1>1, <1>3
<1>5. /\ FreshObject(v) \in {v} \X Incarnations
      /\ FreshObject(v) \notin DOMAIN attached
  BY <1>4 DEF FreshObject
<1> QED BY <1>5, IdFacts

(* The objects after a step, when every reference is that of a filter.     *)
LEMMA ObjectsAre ==
    ASSUME NEW new, NEW record, ObjectsWith(new, record),
           \A k \in Keys : \/ entries'[k] = NoVolume
                           \/ \E v \in Volumes : entries'[k] = volume'[v],
           req'.object = NoVolume \/ \E v \in Volumes : req'.object = volume'[v]
    PROVE  /\ ObjectInv'
           /\ \A o \in BoundObjects' :
                 attached'[o] = IF o = new THEN record ELSE attached[o]
<1>1. (References \ {NoVolume})' = BoundObjects'
  BY DEF References, BoundObjects
<1>2. attached' = [o \in BoundObjects' |-> IF o = new THEN record ELSE attached[o]]
  BY <1>1 DEF ObjectsWith
<1> QED BY <1>2 DEF ObjectInv

LEMMA BoundIn ==
    ASSUME NEW v \in Volumes
    PROVE  /\ volume[v] # NoVolume => volume[v] \in BoundObjects
           /\ volume'[v] # NoVolume => volume'[v] \in BoundObjects'
BY DEF BoundObjects

-----------------------------------------------------------------------------
(***************************************************************************)
(* Steps seen from one volume.                                             *)
(***************************************************************************)
(* Nothing happens to the volume. *)
LEMMA VolumeFrame ==
    ASSUME NEW w \in Volumes, VolumeInv(w),
           volume'[w] = volume[w], device'[w] = device[w],
           vthread'[w] = vthread[w], offset'[w] = offset[w], dir'[w] = dir[w],
           entries'[App(w)] = entries[App(w)], entries'[Nt(w)] = entries[Nt(w)],
           handover' = handover,
           volume[w] # NoVolume => attached'[volume[w]] = attached[volume[w]]
    PROVE  VolumeInv(w)'
<1>1. App(w)' = App(w) /\ Nt(w)' = Nt(w)
  BY DEF App, Nt
<1>2. volume[w] = NoVolume =>
         entries[App(w)] = NoVolume /\ entries[Nt(w)] = NoVolume
  BY DEF VolumeInv, EntryInv
<1>3. EntryInv(w)'
  BY <1>1, <1>2 DEF VolumeInv, EntryInv, App, Nt
<1>4. volume[w] # NoVolume => BoundInv(w)'
  <2> SUFFICES ASSUME volume[w] # NoVolume PROVE BoundInv(w)'
    OBVIOUS
  <2>1. BoundInv(w)
    BY DEF VolumeInv
  <2>2. GoodObject(w, attached[volume[w]])'
    BY <2>1 DEF BoundInv, GoodObject
  <2> QED BY <2>1, <2>2 DEF BoundInv, App, Nt
<1> QED BY <1>3, <1>4 DEF VolumeInv

(* The session is as it was. *)
LEMMA SessionFrame ==
    ASSUME LifeInv, UNCHANGED session, UNCHANGED <<offset, dir>>
    PROVE  ObjectInv' /\ \A w \in Volumes : VolumeInv(w)'
<1>1. UNCHANGED <<entries, handover, device, volume, vthread, attached>>
  BY DEF session
<1>2. ObjectInv'
  BY <1>1 DEF LifeInv, ObjectInv, BoundObjects
<1>3. ASSUME NEW w \in Volumes PROVE VolumeInv(w)'
  <2>1. VolumeInv(w)
    BY DEF LifeInv
  <2> QED BY <1>1, <2>1, VolumeFrame
<1> QED BY <1>2, <1>3

(* A new object under one of the volume's keys and in its filter. *)
LEMMA BindStep ==
    ASSUME LifeInv, NEW v \in Volumes, NEW k \in {App(v), Nt(v)},
           NEW record \in AttachedVolume,
           record.vol = v, record.filter = TRUE,
           record.engine = "Encrypting" => record.boundary < N,
           record.engine = "Decrypting" => record.boundary > 0,
           record.cipher /\ ~record.stray =>
              /\ record.boundary = offset[v]
              /\ record.engine = "Encrypting" => dir[v] = "Encrypt",
           k = App(v) => entries[Nt(v)] = NoVolume,
           k = Nt(v) => /\ entries[App(v)] = NoVolume /\ v = OsVolume
                        /\ handover /\ record.cipher,
           entries' = [entries EXCEPT ![k] = FreshObject(v)],
           Bind(v, FreshObject(v), record.cipher),
           ObjectsWith(FreshObject(v), record),
           UNCHANGED <<handover, offset, dir>>,
           device'[v] = "live", \A w \in Volumes : w # v => device'[w] = device[w],
           \/ req'.object = NoVolume /\ req.pc # "lock"
           \/ req' = req /\ volume[v] = NoVolume
    PROVE  /\ ObjectInv' /\ \A w \in Volumes : VolumeInv(w)'
           /\ entries' \in [Keys -> Pointer] /\ volume' \in [Volumes -> Pointer]
           /\ vthread' \in [Volumes -> BOOLEAN]
           /\ volume'[v] = FreshObject(v) /\ volume'[v] # NoVolume
           /\ attached'[volume'[v]] = record
           /\ \A w \in Volumes : w # v =>
                 /\ volume'[w] = volume[w]
                 /\ volume[w] # NoVolume =>
                       attached'[volume[w]] = attached[volume[w]]
<1> DEFINE o == FreshObject(v)
<1>1. /\ o \in {v} \X Incarnations /\ o \notin DOMAIN attached
      /\ o \in Objects /\ o # NoVolume
  BY FreshIs
<1>2. /\ volume' = [volume EXCEPT ![v] = o]
      /\ vthread' = [vthread EXCEPT ![v] = @ \/ record.cipher]
      /\ entries' = [entries EXCEPT ![k] = o]
  BY DEF Bind
<1>3. /\ entries \in [Keys -> Pointer] /\ volume \in [Volumes -> Pointer]
      /\ vthread \in [Volumes -> BOOLEAN]
  BY DEF LifeInv, Typed
<1>4. record.cipher \in BOOLEAN
  BY DEF AttachedVolume
<1>5. ObjectsWith(o, record)
  OBVIOUS
<1> HIDE DEF o
<1>6. k \in Keys /\ \A w \in Volumes : w # v => App(w) # k /\ Nt(w) # k
  BY KeyFacts
<1>7. /\ volume'[v] = o /\ entries'[k] = o
      /\ \A w \in Volumes : w # v => volume'[w] = volume[w]
      /\ \A x \in Keys : x # k => entries'[x] = entries[x]
  BY <1>2, <1>3, <1>6
<1>8. /\ record.cipher => vthread'[v]
      /\ \A w \in Volumes : vthread'[w] \in BOOLEAN
      /\ \A w \in Volumes : w # v => vthread'[w] = vthread[w]
  <2>1. vthread'[v] = (vthread[v] \/ record.cipher)
    BY <1>2, <1>3
  <2>2. \A w \in Volumes : w # v => vthread'[w] = vthread[w]
    BY <1>2, <1>3
  <2>3. (vthread[v] \/ record.cipher) \in BOOLEAN
    OBVIOUS
  <2> QED BY <1>3, <2>1, <2>2, <2>3
<1>9. /\ entries' \in [Keys -> Pointer] /\ volume' \in [Volumes -> Pointer]
      /\ vthread' \in [Volumes -> BOOLEAN]
  <2>1. entries' \in [Keys -> Pointer] /\ volume' \in [Volumes -> Pointer]
    BY <1>1, <1>2, <1>3, ZenonT(60) DEF Pointer
  <2>2. vthread' = [w \in Volumes |-> vthread'[w]]
    BY <1>2, <1>3
  <2> QED BY <1>8, <2>1, <2>2
<1>10. \A w \in Volumes : entries[App(w)] \in {NoVolume, volume[w]}
                          /\ entries[Nt(w)] \in {NoVolume, volume[w]}
  BY DEF LifeInv, VolumeInv, EntryInv
<1>11. ASSUME NEW x \in Keys
       PROVE  \/ entries'[x] = NoVolume
              \/ \E w \in Volumes : entries'[x] = volume'[w]
  <2>1. PICK w \in Volumes : x = App(w) \/ x = Nt(w)
    BY KeyFacts
  <2>2. CASE w = v
    <3>1. x = k \/ entries[x] = NoVolume
      BY <2>1, <2>2
    <3> QED BY <1>7, <3>1
  <2>3. CASE w # v
    <3>1. x # k
      BY <1>6, <2>1, <2>3
    <3>2. entries[x] \in {NoVolume, volume[w]}
      BY <1>10, <2>1
    <3> QED BY <1>7, <2>3, <3>1, <3>2
  <2> QED BY <2>2, <2>3
<1>12. req'.object = NoVolume \/ \E w \in Volumes : req'.object = volume'[w]
  <2> SUFFICES ASSUME req' = req, volume[v] = NoVolume, req.object # NoVolume
               PROVE  \E w \in Volumes : req'.object = volume'[w]
    OBVIOUS
  <2>1. req.pc = "lock" /\ req.vol \in Volumes /\ req.object = volume[req.vol]
    BY DEF LifeInv, RequestInv
  <2>2. req.vol # v
    BY <2>1
  <2> QED BY <1>7, <2>1, <2>2
<1>13. /\ ObjectInv'
       /\ \A x \in BoundObjects' :
             attached'[x] = IF x = o THEN record ELSE attached[x]
  BY <1>5, <1>11, <1>12, ObjectsAre
<1>14. attached'[o] = record
  BY <1>1, <1>7, <1>13, BoundIn
<1>15. ASSUME NEW w \in Volumes, w # v, volume[w] # NoVolume
       PROVE  attached'[volume[w]] = attached[volume[w]]
  <2>1. volume'[w] = volume[w] /\ volume[w] \in BoundObjects'
    BY <1>7, <1>15, BoundIn
  <2>2. volume[w] \in DOMAIN attached
    BY <1>15, BoundIn DEF LifeInv, ObjectInv
  <2> QED BY <1>1, <1>13, <2>1, <2>2
<1>16. ASSUME NEW w \in Volumes, w # v PROVE VolumeInv(w)'
  <2>1. /\ entries'[App(w)] = entries[App(w)] /\ entries'[Nt(w)] = entries[Nt(w)]
        /\ device'[w] = device[w] /\ offset'[w] = offset[w]
    BY <1>6, <1>7, <1>16, KeyFacts
  <2> QED BY <1>7, <1>8, <1>15, <1>16, <2>1, VolumeFrame DEF LifeInv
<1>17. VolumeInv(v)'
  <2>1. /\ k = App(v) => entries'[App(v)] = o /\ entries'[Nt(v)] = NoVolume
        /\ k = Nt(v) => entries'[Nt(v)] = o /\ entries'[App(v)] = NoVolume
    BY <1>7, KeyFacts
  <2>2. GoodObject(v, attached[volume[v]])'
    BY <1>7, <1>8, <1>14 DEF GoodObject
  <2>3. BoundInv(v)'
    BY <1>1, <1>7, <2>1, <2>2 DEF BoundInv, App, Nt
  <2>4. EntryInv(v)'
    BY <1>1, <1>7, <1>14, <2>1 DEF EntryInv, App, Nt
  <2> QED BY <1>1, <1>7, <2>3, <2>4 DEF VolumeInv
<1> QED BY <1>1, <1>7, <1>9, <1>13, <1>14, <1>15, <1>16, <1>17 DEF o

(* A filter lets go of its object, which is not in the registry any more.  *)
LEMMA UnbindStep ==
    ASSUME LifeInv, NEW v \in Volumes,
           volume' = [volume EXCEPT ![v] = NoVolume],
           vthread' = [vthread EXCEPT ![v] = FALSE],
           entries' = [entries EXCEPT ![App(v)] = NoVolume],
           entries[Nt(v)] = NoVolume, ObjectsWith(NoVolume, NoVolume),
           UNCHANGED <<handover, offset, dir>>,
           \A w \in Volumes : w # v => device'[w] = device[w],
           req'.object = NoVolume
    PROVE  /\ ObjectInv' /\ \A w \in Volumes : VolumeInv(w)'
           /\ entries' \in [Keys -> Pointer] /\ volume' \in [Volumes -> Pointer]
           /\ vthread' \in [Volumes -> BOOLEAN]
           /\ volume'[v] = NoVolume
           /\ \A w \in Volumes : w # v =>
                 /\ volume'[w] = volume[w]
                 /\ volume[w] # NoVolume =>
                       attached'[volume[w]] = attached[volume[w]]
<1>1. /\ entries \in [Keys -> Pointer] /\ volume \in [Volumes -> Pointer]
      /\ vthread \in [Volumes -> BOOLEAN]
  BY DEF LifeInv, Typed
<1>2. /\ entries' \in [Keys -> Pointer] /\ volume' \in [Volumes -> Pointer]
      /\ vthread' \in [Volumes -> BOOLEAN]
  BY <1>1 DEF Pointer
<1>3. App(v) \in Keys
      /\ \A w \in Volumes : Nt(w) # App(v) /\ (w # v => App(w) # App(v))
  BY KeyFacts
<1>4. /\ volume'[v] = NoVolume /\ vthread'[v] = FALSE
      /\ entries'[App(v)] = NoVolume
      /\ \A w \in Volumes : w # v => /\ volume'[w] = volume[w]
                                     /\ vthread'[w] = vthread[w]
      /\ \A x \in Keys : x # App(v) => entries'[x] = entries[x]
  BY <1>1, <1>3
<1>5. \A w \in Volumes : entries[App(w)] \in {NoVolume, volume[w]}
                         /\ entries[Nt(w)] \in {NoVolume, volume[w]}
  BY DEF LifeInv, VolumeInv, EntryInv
<1>6. ASSUME NEW x \in Keys
      PROVE  \/ entries'[x] = NoVolume
             \/ \E w \in Volumes : entries'[x] = volume'[w]
  <2>1. PICK w \in Volumes : x = App(w) \/ x = Nt(w)
    BY KeyFacts
  <2>2. CASE x = App(v)
    BY <1>4, <2>2
  <2>3. CASE x # App(v)
    <3>1. entries'[x] = entries[x] /\ entries[x] \in {NoVolume, volume[w]}
      BY <1>4, <1>5, <2>1, <2>3
    <3> QED BY <1>4, <2>1, <2>3, <3>1
  <2> QED BY <2>2, <2>3
<1>7. /\ ObjectInv'
      /\ \A x \in BoundObjects' :
            attached'[x] = IF x = NoVolume THEN NoVolume ELSE attached[x]
  BY <1>6, ObjectsAre
<1>8. ASSUME NEW w \in Volumes, w # v, volume[w] # NoVolume
      PROVE  attached'[volume[w]] = attached[volume[w]]
  <2>1. volume'[w] = volume[w] /\ volume[w] \in BoundObjects'
    BY <1>4, <1>8, BoundIn
  <2> QED BY <1>7, <1>8, <2>1
<1>9. ASSUME NEW w \in Volumes, w # v PROVE VolumeInv(w)'
  <2>1. /\ entries'[App(w)] = entries[App(w)] /\ entries'[Nt(w)] = entries[Nt(w)]
        /\ device'[w] = device[w] /\ offset'[w] = offset[w]
    BY <1>3, <1>4, <1>9, KeyFacts
  <2> QED BY <1>4, <1>8, <1>9, <2>1, VolumeFrame DEF LifeInv
<1>10. VolumeInv(v)'
  <2>1. entries'[Nt(v)] = NoVolume
    BY <1>3, <1>4, KeyFacts
  <2>2. EntryInv(v)'
    BY <1>4, <2>1 DEF EntryInv, App, Nt
  <2> QED BY <1>4, <2>2 DEF VolumeInv
<1> QED BY <1>2, <1>4, <1>7, <1>8, <1>9, <1>10

LEMMA Distinct ==
    ASSUME LifeInv, NEW v \in Volumes, NEW w \in Volumes,
           volume[v] # NoVolume, volume[w] = volume[v]
    PROVE  w = v
<1>1. volume[v] \in {v} \X Incarnations /\ volume[w] \in {w} \X Incarnations
  BY DEF LifeInv, VolumeInv, BoundInv
<1> QED BY <1>1, IdFacts

LEMMA BoundGood ==
    ASSUME LifeInv, NEW v \in Volumes, volume[v] # NoVolume
    PROVE  /\ volume[v] \in DOMAIN attached
           /\ GoodObject(v, attached[volume[v]]) /\ device[v] = "live"
BY BoundIn DEF LifeInv, ObjectInv, VolumeInv, BoundInv

(* Objects change and keep their places. *)
LEMMA UpdateStep ==
    ASSUME LifeInv, UNCHANGED <<entries, handover, device, volume, vthread>>,
           DOMAIN attached' = DOMAIN attached,
           \A w \in Volumes : volume[w] # NoVolume =>
              LET b == attached'[volume[w]]
              IN  /\ b \in AttachedVolume /\ b.vol = w
                  /\ b.cipher = attached[volume[w]].cipher
                  /\ b.filter = attached[volume[w]].filter
                  /\ b.engine = "Encrypting" => b.boundary < N
                  /\ b.engine = "Decrypting" => b.boundary > 0
                  /\ b.cipher /\ ~b.stray =>
                        /\ b.boundary = offset'[w]
                        /\ b.engine = "Encrypting" => dir'[w] = "Encrypt"
    PROVE  ObjectInv' /\ \A w \in Volumes : VolumeInv(w)'
<1>1. ObjectInv'
  BY DEF LifeInv, ObjectInv, BoundObjects
<1>2. ASSUME NEW w \in Volumes PROVE VolumeInv(w)'
  <2>1. VolumeInv(w)
    BY DEF LifeInv
  <2>2. volume[w] = NoVolume =>
           entries[App(w)] = NoVolume /\ entries[Nt(w)] = NoVolume
    BY <2>1 DEF VolumeInv, EntryInv
  <2>3. EntryInv(w)'
    BY <2>1, <2>2 DEF VolumeInv, EntryInv, App, Nt
  <2>4. ASSUME volume[w] # NoVolume PROVE BoundInv(w)'
    <3>1. BoundInv(w) /\ (attached[volume[w]].cipher => vthread[w])
      BY <2>1, <2>4 DEF VolumeInv, BoundInv, GoodObject
    <3>2. GoodObject(w, attached[volume[w]])'
      BY <2>4, <3>1 DEF GoodObject
    <3>3. attached'[volume[w]].filter = attached[volume[w]].filter
      BY <2>4
    <3> QED BY <3>1, <3>2, <3>3 DEF BoundInv, App, Nt
  <2> QED BY <2>1, <2>3, <2>4 DEF VolumeInv
<1> QED BY <1>1, <1>2

(* The object that a request by path reaches is the one the filter serves. *)
LEMMA ResolveIs ==
    ASSUME LifeInv, NEW v \in Volumes
    PROVE  /\ ResolveVolume(v) # NoVolume =>
                 /\ volume[v] # NoVolume /\ ResolveVolume(v) = volume[v]
                 /\ attached[volume[v]].filter
           /\ \A k \in Keys : entries[k] # NoVolume /\ entries[k] = volume[v] =>
                 ResolveVolume(v) = volume[v]
<1> DEFINE byFilter == {o \in Objects : /\ \E k \in Keys : entries[k] = o
                                        /\ attached[o].vol = v
                                        /\ attached[o].filter}
<1>1. ResolveVolume(v) = IF entries[App(v)] # NoVolume THEN entries[App(v)]
                         ELSE IF FindsFilter(v) /\ byFilter # {}
                              THEN CHOOSE o \in byFilter : TRUE
                              ELSE NoVolume
  BY DEF ResolveVolume
<1>2. ASSUME NEW o \in byFilter
      PROVE  o = volume[v] /\ o # NoVolume /\ attached[o].filter
  <2>1. o \in Objects /\ o # NoVolume /\ attached[o].vol = v /\ attached[o].filter
    BY Ids
  <2>2. PICK k \in Keys : entries[k] = o
    OBVIOUS
  <2>3. PICK w \in Volumes : k = App(w) \/ k = Nt(w)
    BY KeyFacts
  <2>4. o = volume[w]
    BY <2>1, <2>2, <2>3 DEF LifeInv, VolumeInv, EntryInv
  <2>5. attached[o].vol = w
    BY <2>1, <2>4, BoundGood DEF GoodObject
  <2> QED BY <2>1, <2>4, <2>5
<1>3. entries[App(v)] # NoVolume =>
         entries[App(v)] = volume[v] /\ attached[volume[v]].filter
  BY DEF LifeInv, VolumeInv, EntryInv
<1>4. ASSUME NEW k \in Keys, entries[k] # NoVolume, entries[k] = volume[v]
      PROVE  FindsFilter(v) /\ volume[v] \in byFilter
  <2>1. volume[v] \in {v} \X Incarnations /\ device[v] = "live"
        /\ attached[volume[v]].vol = v
    BY <1>4 DEF LifeInv, VolumeInv, BoundInv, GoodObject
  <2>2. volume[v] \in Objects
    BY <2>1, IdFacts
  <2>3. PICK w \in Volumes : k = App(w) \/ k = Nt(w)
    BY KeyFacts
  <2>4. entries[k] = volume[w]
    BY <1>4, <2>3 DEF LifeInv, VolumeInv, EntryInv
  <2>5. w = v
    BY <1>4, <2>4, Distinct
  <2>6. attached[volume[v]].filter
    BY <1>4, <2>3, <2>5 DEF LifeInv, VolumeInv, EntryInv
  <2> QED BY <1>4, <2>1, <2>2, <2>6 DEF FindsFilter
<1> HIDE DEF byFilter
<1>5. byFilter # {} => (CHOOSE o \in byFilter : TRUE) \in byFilter
  OBVIOUS
<1> QED BY <1>1, <1>2, <1>3, <1>4, <1>5

-----------------------------------------------------------------------------
(***************************************************************************)
(* Requests, and the OS volume.                                            *)
(***************************************************************************)
LEMMA NoRequestIs ==
    /\ NoRequest \in Request /\ NoRequest.pc = "idle"
    /\ NoRequest.object = NoVolume /\ NoRequest.todo = {}
    /\ NoRequest.hidden = FALSE
BY DEF NoRequest, Request, Pointer

LEMMA NoRequestInv == ASSUME req' = NoRequest PROVE RequestInv' /\ req' \in Request
BY NoRequestIs DEF RequestInv

LEMMA IdleRequest ==
    ASSUME LifeInv, req.pc = "idle", req' = req PROVE RequestInv'
BY DEF LifeInv, RequestInv

(* What a step has to leave alone of the OS volume. *)
LEMMA OsFrame ==
    ASSUME LifeInv, UNCHANGED handover, vckJson => vckJson',
           volume'[OsVolume] = volume[OsVolume],
           entries'[App(OsVolume)] = entries[App(OsVolume)],
           volume[OsVolume] # NoVolume =>
              /\ attached'[volume[OsVolume]].source
                    = attached[volume[OsVolume]].source
              /\ attached'[volume[OsVolume]].cipher
                    = attached[volume[OsVolume]].cipher
              /\ attached'[volume[OsVolume]].stray
                    = attached[volume[OsVolume]].stray,
           GivenUp(OsVolume)' => offset'[OsVolume] = 0
                                    \/ dir'[OsVolume] = "Encrypt",
           \/ req' = req
           \/ /\ ~Preparing(OsVolume) /\ ~Preparing(OsVolume)'
              /\ OsVolume \notin req'.todo
    PROVE  OsInv'
<1>1. OsInv
  BY DEF LifeInv
<1>2. Opening(OsVolume) => Opening(OsVolume)'
  BY DEF Opening, Preparing
<1>3. Preparing(OsVolume)' => Preparing(OsVolume) /\ req' = req
  BY DEF Preparing
<1>4. req'.pc \in {"add", "fallback"} /\ req'.vol = OsVolume =>
         volume'[OsVolume] = NoVolume
  BY <1>1, <1>3 DEF OsInv, Preparing
<1> QED BY <1>1, <1>2, <1>3, <1>4 DEF OsInv, App

LEMMA OsSame ==
    ASSUME LifeInv, UNCHANGED handover, vckJson => vckJson',
           volume'[OsVolume] = volume[OsVolume],
           entries'[App(OsVolume)] = entries[App(OsVolume)],
           volume[OsVolume] # NoVolume =>
              attached'[volume[OsVolume]] = attached[volume[OsVolume]],
           offset'[OsVolume] = offset[OsVolume], dir'[OsVolume] = dir[OsVolume],
           \/ req' = req
           \/ /\ ~Preparing(OsVolume) /\ ~Preparing(OsVolume)'
              /\ OsVolume \notin req'.todo
              /\ ~(req'.pc = "remove" /\ req'.vol = OsVolume)
    PROVE  OsInv'
<1>1. GivenUp(OsVolume)' => GivenUp(OsVolume)
  BY DEF GivenUp
<1>2. GivenUp(OsVolume)' => offset'[OsVolume] = 0 \/ dir'[OsVolume] = "Encrypt"
  BY <1>1 DEF LifeInv, OsInv
<1> QED BY <1>2, OsFrame

-----------------------------------------------------------------------------
(***************************************************************************)
(* Initial states and restarts.                                            *)
(***************************************************************************)
LEMMA AllFree ==
    ASSUME entries = [k \in Keys |-> NoVolume], handover \in BOOLEAN,
           device \in [Volumes -> {"none", "live", "deleted"}],
           volume = [v \in Volumes |-> NoVolume],
           vthread = [v \in Volumes |-> FALSE],
           attached = [o \in {} |-> NoVolume], req = NoRequest, phase = "up",
           meta \in [Volumes -> BOOLEAN], strayMeta \in [Volumes -> BOOLEAN],
           offset \in [Volumes -> 0 .. N], dir \in [Volumes -> VolumeState], vckJson \in BOOLEAN,
           handover => vckJson
    PROVE  LifeInv
<1>1. Typed
  BY NoRequestIs DEF Typed, Pointer
<1>2. ObjectInv
  BY DEF ObjectInv, BoundObjects
<1>3. ASSUME NEW v \in Volumes PROVE VolumeInv(v)
  BY <1>3, KeyFacts DEF VolumeInv, EntryInv
<1>4. OsInv
  BY Ids, KeyFacts, NoRequestIs DEF OsInv, Preparing, Opening, GivenUp
<1>5. RequestInv
  BY NoRequestIs DEF RequestInv
<1> QED BY <1>1, <1>2, <1>3, <1>4, <1>5 DEF LifeInv

LEMMA InvInit == ASSUME Init PROVE LifeInv
<1>1. /\ meta \in [Volumes -> BOOLEAN] /\ strayMeta \in [Volumes -> BOOLEAN]
      /\ offset \in [Volumes -> 0 .. N] /\ dir \in [Volumes -> VolumeState]
      /\ device \in [Volumes -> {"none", "live", "deleted"}]
  BY Ids DEF Init, VolumeState
<1> QED BY <1>1, AllFree DEF Init

LEMMA InvReboot == ASSUME LifeInv, Reboot PROVE LifeInv'
<1>1. /\ entries' = [k \in Keys |-> NoVolume]
      /\ volume' = [v \in Volumes |-> NoVolume]
      /\ vthread' = [v \in Volumes |-> FALSE]
      /\ attached' = [o \in {} |-> NoVolume] /\ req' = NoRequest /\ phase' = "up"
      /\ handover' \in BOOLEAN /\ (handover' => vckJson)
      /\ UNCHANGED <<meta, strayMeta, offset, dir, vckJson>>
      /\ device' \in [Volumes -> {"none", "live", "deleted"}]
  BY DEF Reboot, disk
<1>2. Typed'
  BY <1>1, NoRequestIs DEF LifeInv, Typed, Pointer
<1>3. ObjectInv'
  BY <1>1 DEF ObjectInv, BoundObjects
<1>4. ASSUME NEW v \in Volumes PROVE VolumeInv(v)'
  <2>1. /\ entries'[App(v)] = NoVolume /\ entries'[Nt(v)] = NoVolume
        /\ volume'[v] = NoVolume /\ ~vthread'[v]
    BY <1>1, KeyFacts
  <2>2. EntryInv(v)'
    BY <2>1 DEF EntryInv, App, Nt
  <2> QED BY <2>1, <2>2 DEF VolumeInv
<1>5. OsInv'
  <2>1. entries'[App(OsVolume)] = NoVolume /\ volume'[OsVolume] = NoVolume
    BY <1>1, Ids, KeyFacts
  <2>2. ~Preparing(OsVolume)'
    BY <1>1, NoRequestIs DEF Preparing
  <2>3. ~GivenUp(OsVolume)' /\ req'.pc = "idle"
    BY <1>1, <2>1, NoRequestIs DEF GivenUp
  <2> QED BY <1>1, <2>1, <2>2, <2>3, NoRequestIs DEF OsInv, App
<1> QED BY <1>1, <1>2, <1>3, <1>4, <1>5, NoRequestInv DEF LifeInv

-----------------------------------------------------------------------------
(***************************************************************************)
(* IOCTL_JVCK_PREPARE.                                                     *)
(***************************************************************************)
LEMMA InvPrepare ==
    ASSUME LifeInv, NEW v \in Volumes, NEW block \in BOOLEAN,
           NEW vmk \in BOOLEAN, Prepare(v, block, vmk)
    PROVE  LifeInv'
<1>1. /\ req.pc = "idle" /\ entries[App(v)] = NoVolume
      /\ v = OsVolume => ~vckJson /\ vmk
      /\ req' = [NoRequest EXCEPT
                   !.pc = IF FindsFilter(v) THEN "add" ELSE "fallback",
                   !.vol = v, !.block = block, !.vmk = vmk]
      /\ vckJson' = (vckJson \/ v = OsVolume)
      /\ UNCHANGED <<phase, meta, strayMeta, offset, dir>> /\ UNCHANGED session
  BY DEF Prepare, AppPrepares
<1>2. UNCHANGED <<entries, handover, device, volume, vthread, attached>>
  BY <1>1 DEF session
<1>3. /\ req' \in Request /\ req'.vol = v /\ req'.object = NoVolume
      /\ req'.todo = {} /\ req'.vmk = vmk /\ req'.hidden = FALSE
      /\ req'.pc = IF FindsFilter(v) THEN "add" ELSE "fallback"
  BY <1>1 DEF NoRequest, Request, Pointer
<1>4. vckJson' \in BOOLEAN /\ (vckJson => vckJson') /\ (v = OsVolume => vckJson')
  BY <1>1
<1>5. Typed'
  BY <1>1, <1>2, <1>3, <1>4 DEF LifeInv, Typed
<1>6. ObjectInv' /\ \A w \in Volumes : VolumeInv(w)'
  BY <1>1, <1>3, SessionFrame
<1>7. OsInv'
  <2>1. CASE v = OsVolume
    <3>1. volume[OsVolume] = NoVolume /\ ~handover
      BY <1>1, <2>1 DEF LifeInv, OsInv
    <3>2. ~GivenUp(OsVolume)'
      BY <1>2, <3>1 DEF GivenUp
    <3> QED BY <1>2, <1>3, <1>4, <1>1, <2>1, <3>1, <3>2 DEF OsInv, App
  <2>2. CASE v # OsVolume
    <3>1. ~Preparing(OsVolume) /\ ~Preparing(OsVolume)'
      BY <1>1, <1>3, <2>2 DEF Preparing
    <3> QED BY <1>1, <1>2, <1>3, <1>4, <2>2, <3>1, OsSame
  <2> QED BY <2>1, <2>2
<1>8. RequestInv'
  <2>1. volume[v] = NoVolume \/ ~attached[volume[v]].filter
    <3>1. CASE v = OsVolume
      BY <1>1, <3>1 DEF LifeInv, OsInv
    <3>2. CASE v # OsVolume
      <4>1. entries[Nt(v)] = NoVolume
        BY <1>1, <3>2 DEF LifeInv, VolumeInv, EntryInv
      <4> QED BY <1>1, <4>1 DEF LifeInv, VolumeInv, BoundInv
    <3> QED BY <3>1, <3>2
  <2>2. ~FindsFilter(v) => volume[v] = NoVolume
    BY DEF LifeInv, VolumeInv, BoundInv, FindsFilter
  <2> QED BY <1>2, <1>3, <2>1, <2>2 DEF RequestInv, App, Nt
<1> QED BY <1>5, <1>6, <1>7, <1>8 DEF LifeInv

LEMMA WrittenIs ==
    ASSUME NEW v \in Volumes, WriteBelowFilter(v),
           meta \in [Volumes -> BOOLEAN], strayMeta \in [Volumes -> BOOLEAN]
    PROVE  meta' \in [Volumes -> BOOLEAN] /\ strayMeta' \in [Volumes -> BOOLEAN]
BY DEF WriteBelowFilter

(* Requests that end before anything is bound. *)
LEMMA InvPrepareFails == ASSUME LifeInv, PrepareFails PROVE LifeInv'
<1>1. /\ req.pc \in {"add", "fallback"} /\ req' = NoRequest
      /\ UNCHANGED <<meta, strayMeta>> \/ WriteBelowFilter(req.vol)
      /\ UNCHANGED session /\ UNCHANGED <<phase, offset, dir, vckJson>>
  BY DEF PrepareFails
<1>2. UNCHANGED <<entries, handover, device, volume, vthread, attached>>
  BY <1>1 DEF session
<1>3. meta' \in [Volumes -> BOOLEAN] /\ strayMeta' \in [Volumes -> BOOLEAN]
  BY <1>1, WrittenIs DEF LifeInv, Typed, RequestInv
<1>4. RequestInv' /\ req' \in Request
  BY <1>1, NoRequestInv
<1>5. Typed'
  BY <1>1, <1>2, <1>3, <1>4 DEF LifeInv, Typed
<1>6. ObjectInv' /\ \A w \in Volumes : VolumeInv(w)'
  BY <1>1, NoRequestIs, SessionFrame
<1>7. OsInv'
  <2>1. ~Preparing(OsVolume)' /\ ~Opening(OsVolume)
    BY <1>1, NoRequestIs DEF Preparing, Opening
  <2>2. GivenUp(OsVolume)' => GivenUp(OsVolume)
    BY <1>1, <1>2, NoRequestIs DEF GivenUp
  <2> QED BY <1>1, <1>2, <2>1, <2>2, NoRequestIs DEF LifeInv, OsInv, App
<1> QED BY <1>4, <1>5, <1>6, <1>7 DEF LifeInv

LEMMA AfterBindIs ==
    ASSUME NEW r \in Request, r.object = NoVolume
    PROVE  /\ AfterBind(r) \in Request /\ AfterBind(r).object = NoVolume
           /\ AfterBind(r).todo \subseteq r.todo
           /\ \/ AfterBind(r) = NoRequest /\ ~r.vmk
              \/ /\ AfterBind(r).pc = "open" /\ AfterBind(r).vol = r.vol
                 /\ AfterBind(r).vmk = r.vmk /\ AfterBind(r).hidden = r.hidden
<1>1. CASE r.vmk
  BY <1>1 DEF AfterBind, Request, Pointer
<1>2. CASE ~r.vmk
  BY <1>2, NoRequestIs DEF AfterBind
<1> QED BY <1>1, <1>2

(* What PREPARE finds free is registered under neither key. *)
LEMMA FreeIs ==
    ASSUME LifeInv, NEW v \in Volumes,
           volume[v] = NoVolume \/ ~attached[volume[v]].filter
    PROVE  entries[App(v)] = NoVolume /\ entries[Nt(v)] = NoVolume
BY DEF LifeInv, VolumeInv, EntryInv

(* PREPARE binds the provisional volume. *)
LEMMA ProvisionalBound ==
    ASSUME LifeInv, req.pc \in {"add", "fallback"},
           entries' = [entries EXCEPT ![App(req.vol)] = FreshObject(req.vol)],
           Bind(req.vol, FreshObject(req.vol), FALSE),
           ObjectsWith(FreshObject(req.vol), Provisional(req.vol)),
           UNCHANGED <<handover, offset, phase, dir, vckJson>>,
           device' \in [Volumes -> {"none", "live", "deleted"}],
           device'[req.vol] = "live",
           \A w \in Volumes : w # req.vol => device'[w] = device[w],
           meta' \in [Volumes -> BOOLEAN], strayMeta' \in [Volumes -> BOOLEAN],
           req' \in Request, req'.object = NoVolume, req'.todo \subseteq req.todo,
           req'.hidden => req.hidden \/ volume[req.vol] # NoVolume,
           \/ req' = NoRequest /\ ~req.vmk
           \/ req'.pc \in {"write", "open"} /\ req'.vol = req.vol /\ req'.vmk = req.vmk
    PROVE  LifeInv'
<1> DEFINE v == req.vol
           record == Provisional(v)
<1>1. v \in Volumes
  BY DEF LifeInv, RequestInv
<1>2. /\ record \in AttachedVolume /\ record.vol = v /\ record.filter = TRUE
      /\ record.engine = "Idle" /\ record.cipher = FALSE /\ record.stray = FALSE
      /\ record.source = SourceOf(v)
  BY <1>1, Ids DEF Provisional, AttachedVolume, SourceOf, AttachSource, EngineState
<1>3. entries[Nt(v)] = NoVolume
  <2>1. volume[v] = NoVolume \/ ~attached[volume[v]].filter
    BY DEF LifeInv, RequestInv
  <2> QED BY <1>1, <2>1, FreeIs
<1>4. Bind(v, FreshObject(v), record.cipher) /\ ObjectsWith(FreshObject(v), record)
  BY <1>2
<1>5. App(v) \in {App(v), Nt(v)} /\ App(v) # Nt(v)
  BY <1>1, KeyFacts
<1> HIDE DEF record
<1>6. /\ ObjectInv' /\ \A w \in Volumes : VolumeInv(w)'
      /\ entries' \in [Keys -> Pointer] /\ volume' \in [Volumes -> Pointer]
      /\ vthread' \in [Volumes -> BOOLEAN]
      /\ volume'[v] = FreshObject(v) /\ volume'[v] # NoVolume
      /\ attached'[volume'[v]] = record
      /\ \A w \in Volumes : w # v =>
            /\ volume'[w] = volume[w]
            /\ volume[w] # NoVolume => attached'[volume[w]] = attached[volume[w]]
  BY <1>1, <1>2, <1>3, <1>4, <1>5, BindStep
<1>7. entries'[App(v)] = volume'[v]
      /\ \A w \in Volumes : w # v => entries'[App(w)] = entries[App(w)]
  BY <1>1, <1>6, KeyFacts DEF LifeInv, Typed
<1>8. Typed'
  BY <1>6 DEF LifeInv, Typed
<1>9. RequestInv'
  BY <1>1, <1>2, <1>6, <1>7, NoRequestInv DEF RequestInv, App, Nt
<1>10. OsVolume \notin req'.todo
  BY DEF LifeInv, OsInv
<1>11. OsInv'
  <2>1. CASE v = OsVolume
    <3>1. Preparing(OsVolume)
      BY <2>1 DEF Preparing
    <3>2. /\ vckJson /\ ~handover /\ req.vmk /\ ~req.hidden
          /\ volume[OsVolume] = NoVolume
      BY <2>1, <3>1 DEF LifeInv, OsInv
    <3>3. req'.pc \in {"write", "open"} /\ req'.vol = OsVolume /\ req'.vmk
          /\ ~req'.hidden
      BY <2>1, <3>2
    <3>4. /\ attached'[volume'[OsVolume]].source = "Handover"
          /\ ~attached'[volume'[OsVolume]].stray /\ Opening(OsVolume)'
      BY <1>2, <1>6, <2>1, <3>3 DEF SourceOf, Opening
    <3>5. ~GivenUp(OsVolume)'
      BY <1>2, <1>6, <2>1, <3>3 DEF GivenUp
    <3> QED BY <1>10, <3>2, <3>3, <3>4, <3>5 DEF OsInv, App
  <2>2. CASE v # OsVolume
    <3>1. ~Preparing(OsVolume) /\ ~Preparing(OsVolume)' /\ req'.pc # "remove"
      BY <2>2, NoRequestIs DEF Preparing
    <3> QED BY <1>6, <1>7, <1>10, <2>2, <3>1, Ids, OsSame
  <2> QED BY <2>1, <2>2
<1> QED BY <1>6, <1>8, <1>9, <1>11 DEF LifeInv

LEMMA InvPrepareBinds == ASSUME LifeInv, PrepareBinds PROVE LifeInv'
<1> DEFINE hidden == volume[req.vol] # NoVolume
           r == [req EXCEPT !.hidden = hidden]
<1>1. /\ req.pc = "add" /\ device[req.vol] = "live"
      /\ WriteBelowFilter(req.vol) \/ UNCHANGED <<meta, strayMeta>>
      /\ entries' = [entries EXCEPT ![App(req.vol)] = FreshObject(req.vol)]
      /\ Bind(req.vol, FreshObject(req.vol), FALSE)
      /\ req' = AfterBind(r)
      /\ ObjectsWith(FreshObject(req.vol), Provisional(req.vol))
      /\ UNCHANGED <<handover, device, phase, offset, dir, vckJson>>
  BY DEF PrepareBinds
<1>2. req \in Request /\ req.object = NoVolume /\ req.vol \in Volumes
  BY <1>1 DEF LifeInv, Typed, RequestInv
<1>3. meta' \in [Volumes -> BOOLEAN] /\ strayMeta' \in [Volumes -> BOOLEAN]
  BY <1>1, <1>2, WrittenIs DEF LifeInv, Typed
<1>4. device' \in [Volumes -> {"none", "live", "deleted"}]
  BY <1>1 DEF LifeInv, Typed
<1>5. hidden \in BOOLEAN
  OBVIOUS
<1>6. /\ r \in Request /\ r.object = NoVolume /\ r.todo = req.todo
      /\ r.vmk = req.vmk /\ r.vol = req.vol /\ r.hidden = hidden
  BY <1>2, <1>5 DEF Request
<1> HIDE DEF r
<1>7. /\ req' \in Request /\ req'.object = NoVolume
      /\ req'.todo \subseteq req.todo
      /\ req'.hidden => hidden
      /\ \/ req' = NoRequest /\ ~req.vmk
         \/ req'.pc = "open" /\ req'.vol = req.vol /\ req'.vmk = req.vmk
  BY <1>1, <1>6, AfterBindIs, NoRequestIs
<1> QED BY <1>1, <1>2, <1>3, <1>4, <1>7, ProvisionalBound

LEMMA InvPrepareAttachesFilter ==
    ASSUME LifeInv, PrepareAttachesFilter PROVE LifeInv'
<1>1. /\ req.pc = "fallback" /\ device' = [device EXCEPT ![req.vol] = "live"]
      /\ entries' = [entries EXCEPT ![App(req.vol)] = FreshObject(req.vol)]
      /\ Bind(req.vol, FreshObject(req.vol), FALSE)
      /\ req' = IF req.block THEN [req EXCEPT !.pc = "write"] ELSE AfterBind(req)
      /\ ObjectsWith(FreshObject(req.vol), Provisional(req.vol))
      /\ UNCHANGED <<handover, phase>>
      /\ UNCHANGED <<meta, strayMeta, offset, dir, vckJson>>
  BY DEF PrepareAttachesFilter, disk
<1>2. /\ req \in Request /\ req.object = NoVolume /\ req.vol \in Volumes
  BY <1>1 DEF LifeInv, Typed, RequestInv
<1>3. /\ device' \in [Volumes -> {"none", "live", "deleted"}]
      /\ device'[req.vol] = "live"
      /\ \A w \in Volumes : w # req.vol => device'[w] = device[w]
      /\ meta' \in [Volumes -> BOOLEAN] /\ strayMeta' \in [Volumes -> BOOLEAN]
  BY <1>1, <1>2 DEF LifeInv, Typed
<1>4. /\ req' \in Request /\ req'.object = NoVolume /\ req'.todo \subseteq req.todo
      /\ req'.hidden => req.hidden
      /\ \/ req' = NoRequest /\ ~req.vmk
         \/ req'.pc \in {"write", "open"} /\ req'.vol = req.vol /\ req'.vmk = req.vmk
  <2>1. CASE req.block
    BY <1>1, <1>2, <2>1 DEF Request
  <2>2. CASE ~req.block
    BY <1>1, <1>2, <2>2, AfterBindIs, NoRequestIs
  <2> QED BY <2>1, <2>2
<1> QED BY <1>1, <1>2, <1>3, <1>4, ProvisionalBound

LEMMA InvPrepareWrites == ASSUME LifeInv, PrepareWrites PROVE LifeInv'
<1>1. /\ req.pc = "write" /\ meta' = [meta EXCEPT ![req.vol] = TRUE]
      /\ req' = AfterBind(req)
      /\ UNCHANGED session /\ UNCHANGED <<phase, strayMeta, offset, dir, vckJson>>
  BY DEF PrepareWrites
<1>2. UNCHANGED <<entries, handover, device, volume, vthread, attached>>
  BY <1>1 DEF session
<1>3. req \in Request /\ req.object = NoVolume /\ req.vol \in Volumes
  BY <1>1 DEF LifeInv, Typed, RequestInv
<1>4. /\ req' \in Request /\ req'.object = NoVolume /\ req'.todo \subseteq req.todo
      /\ \/ req' = NoRequest /\ ~req.vmk
         \/ /\ req'.pc = "open" /\ req'.vol = req.vol /\ req'.vmk = req.vmk
            /\ req'.hidden = req.hidden
  BY <1>1, <1>3, AfterBindIs
<1>5. Typed'
  BY <1>1, <1>2, <1>4 DEF LifeInv, Typed
<1>6. ObjectInv' /\ \A w \in Volumes : VolumeInv(w)'
  BY <1>1, <1>4, SessionFrame
<1>7. RequestInv'
  BY <1>1, <1>2, <1>3, <1>4, NoRequestInv DEF LifeInv, RequestInv, App, Nt
<1>8. OsInv'
  <2>1. OsVolume \notin req'.todo
    BY <1>4 DEF LifeInv, OsInv
  <2>2. CASE req.vol = OsVolume
    <3>1. Preparing(OsVolume) /\ req.vmk /\ ~req.hidden
      BY <1>1, <2>2 DEF LifeInv, OsInv, Preparing
    <3>2. Opening(OsVolume)' /\ req'.vmk /\ ~req'.hidden /\ req'.pc = "open"
      BY <1>4, <2>2, <3>1 DEF Opening
    <3>3. GivenUp(OsVolume)' => GivenUp(OsVolume)
      BY <1>2, <3>2 DEF GivenUp
    <3> QED BY <1>1, <1>2, <1>4, <2>1, <3>1, <3>2, <3>3
            DEF LifeInv, OsInv, App, Opening, Preparing
  <2>3. CASE req.vol # OsVolume
    <3>1. ~Preparing(OsVolume) /\ ~Preparing(OsVolume)' /\ req'.pc # "remove"
      BY <1>4, <2>3, NoRequestIs DEF Preparing
    <3> QED BY <1>1, <1>2, <2>1, <3>1, OsSame
  <2> QED BY <2>2, <2>3
<1> QED BY <1>5, <1>6, <1>7, <1>8 DEF LifeInv

(* A provisional volume is not registered under its NT name. *)
LEMMA ProvisionalIs ==
    ASSUME LifeInv, NEW v \in Volumes, volume[v] # NoVolume,
           ~attached[volume[v]].cipher
    PROVE  entries[Nt(v)] = NoVolume
BY DEF LifeInv, VolumeInv, EntryInv

LEMMA UnboundOs ==
    ASSUME LifeInv, UNCHANGED handover, vckJson => vckJson', req' = NoRequest,
           volume'[OsVolume] = NoVolume, entries'[App(OsVolume)] = NoVolume
    PROVE  OsInv'
<1>1. ~Preparing(OsVolume)'
  BY NoRequestIs DEF Preparing
<1>2. ~GivenUp(OsVolume)' /\ req'.pc = "idle"
  BY NoRequestIs DEF GivenUp
<1> QED BY <1>1, <1>2, NoRequestIs DEF LifeInv, OsInv, App

(* The filter is taken down: by the cleanup of PREPARE, at the end of      *)
(* DETACH.                                                                 *)
LEMMA RequestUnbinds ==
    ASSUME LifeInv, req.pc \in {"write", "open", "lock"},
           volume' = [volume EXCEPT ![req.vol] = NoVolume],
           vthread' = [vthread EXCEPT ![req.vol] = FALSE],
           entries' = [entries EXCEPT ![App(req.vol)] = NoVolume],
           ObjectsWith(NoVolume, NoVolume), req' = NoRequest,
           device' \in [Volumes -> {"none", "live", "deleted"}],
           \A w \in Volumes : w # req.vol => device'[w] = device[w],
           meta' \in [Volumes -> BOOLEAN], strayMeta' \in [Volumes -> BOOLEAN],
           UNCHANGED <<handover, offset, phase, dir, vckJson>>
    PROVE  LifeInv'
<1> DEFINE v == req.vol
<1>1. v \in Volumes
  BY DEF LifeInv, RequestInv
<1>2. entries[Nt(v)] = NoVolume
  BY <1>1, ProvisionalIs DEF LifeInv, RequestInv
<1>3. req'.object = NoVolume
  BY NoRequestIs
<1>4. /\ ObjectInv' /\ \A w \in Volumes : VolumeInv(w)'
      /\ entries' \in [Keys -> Pointer] /\ volume' \in [Volumes -> Pointer]
      /\ vthread' \in [Volumes -> BOOLEAN] /\ volume'[v] = NoVolume
      /\ \A w \in Volumes : w # v =>
            /\ volume'[w] = volume[w]
            /\ volume[w] # NoVolume => attached'[volume[w]] = attached[volume[w]]
  BY <1>1, <1>2, <1>3, UnbindStep
<1>5. /\ entries'[App(v)] = NoVolume
      /\ \A w \in Volumes : w # v => entries'[App(w)] = entries[App(w)]
  BY <1>1, KeyFacts DEF LifeInv, Typed
<1>6. RequestInv' /\ req' \in Request
  BY NoRequestInv
<1>7. Typed'
  BY <1>4, <1>6 DEF LifeInv, Typed
<1>8. OsInv'
  <2>1. CASE v = OsVolume
    BY <1>4, <1>5, <2>1, UnboundOs
  <2>2. CASE v # OsVolume
    <3>1. ~Preparing(OsVolume) /\ ~Preparing(OsVolume)'
      BY <2>2, NoRequestIs DEF Preparing
    <3> QED BY <1>4, <1>5, <2>2, <3>1, Ids, NoRequestIs, OsSame
  <2> QED BY <2>1, <2>2
<1> QED BY <1>4, <1>6, <1>7, <1>8 DEF LifeInv

LEMMA DetachFilterIs ==
    ASSUME NEW v \in Volumes, DetachFilter(v),
           device \in [Volumes -> {"none", "live", "deleted"}]
    PROVE  /\ volume' = [volume EXCEPT ![v] = NoVolume]
           /\ vthread' = [vthread EXCEPT ![v] = FALSE]
           /\ device' \in [Volumes -> {"none", "live", "deleted"}]
           /\ \A w \in Volumes : w # v => device'[w] = device[w]
BY DEF DetachFilter

LEMMA InvPrepareUndone ==
    ASSUME LifeInv, PrepareWriteFails \/ PrepareOpenFails PROVE LifeInv'
<1>1. /\ req.pc \in {"write", "open"} /\ Undo(req.vol)
      /\ meta' \in {meta, [meta EXCEPT ![req.vol] = TRUE]}
      /\ UNCHANGED <<strayMeta, offset, dir, vckJson>>
  BY DEF PrepareWriteFails, PrepareOpenFails, disk
<1>2. /\ entries' = [entries EXCEPT ![App(req.vol)] = NoVolume]
      /\ DetachFilter(req.vol) /\ req' = NoRequest
      /\ ObjectsWith(NoVolume, NoVolume) /\ UNCHANGED <<handover, phase>>
  BY <1>1 DEF Undo
<1>3. /\ req.vol \in Volumes /\ meta' \in [Volumes -> BOOLEAN]
      /\ strayMeta' \in [Volumes -> BOOLEAN]
      /\ device \in [Volumes -> {"none", "live", "deleted"}]
  BY <1>1 DEF LifeInv, RequestInv, Typed
<1> QED BY <1>1, <1>2, <1>3, DetachFilterIs, RequestUnbinds

(* The complete volume replaces the provisional one.  The second phase of  *)
(* ATTACH marks it Ioctl, and is never reached for the OS volume.          *)
LEMMA CompleteBound ==
    ASSUME LifeInv, NEW v \in Volumes, NEW source \in AttachSource,
           NEW stray \in BOOLEAN,
           v = OsVolume => source = "Handover" /\ ~stray,
           volume[v] # NoVolume, ~attached[volume[v]].cipher,
           entries' = [entries EXCEPT ![App(v)] = FreshObject(v)],
           Bind(v, FreshObject(v), TRUE),
           ObjectsWith(FreshObject(v), Complete(v, source, "Idle", stray)),
           UNCHANGED <<handover, device, phase>>, UNCHANGED disk,
           \/ req.pc = "idle" /\ req' = req
           \/ req.pc = "open" /\ req.vol = v /\ req' = NoRequest
    PROVE  LifeInv'
<1> DEFINE record == Complete(v, source, "Idle", stray)
<1>1. /\ record \in AttachedVolume /\ record.vol = v /\ record.filter = TRUE
      /\ record.engine = "Idle" /\ record.cipher = TRUE
      /\ record.source = source /\ record.stray = stray
      /\ ~stray => record.boundary = offset[v]
  BY Ids DEF LifeInv, Typed, Complete, AttachedVolume, EngineState
<1>2. UNCHANGED <<meta, strayMeta, offset, dir, vckJson>>
  BY DEF disk
<1>3. entries[Nt(v)] = NoVolume
  BY ProvisionalIs
<1>4. Bind(v, FreshObject(v), record.cipher) /\ ObjectsWith(FreshObject(v), record)
  BY <1>1
<1>5. App(v) \in {App(v), Nt(v)} /\ App(v) # Nt(v) /\ device'[v] = "live"
  BY KeyFacts, BoundGood
<1>6. req'.object = NoVolume /\ req.pc # "lock" /\ req'.pc = "idle"
  BY NoRequestIs DEF LifeInv, RequestInv
<1> HIDE DEF record
<1>7. /\ ObjectInv' /\ \A w \in Volumes : VolumeInv(w)'
      /\ entries' \in [Keys -> Pointer] /\ volume' \in [Volumes -> Pointer]
      /\ vthread' \in [Volumes -> BOOLEAN]
      /\ volume'[v] = FreshObject(v) /\ volume'[v] # NoVolume
      /\ attached'[volume'[v]] = record
      /\ \A w \in Volumes : w # v =>
            /\ volume'[w] = volume[w]
            /\ volume[w] # NoVolume => attached'[volume[w]] = attached[volume[w]]
  BY <1>1, <1>2, <1>3, <1>4, <1>5, <1>6, BindStep
<1>8. /\ v = OsVolume => entries[App(v)] # NoVolume
      /\ \A w \in Volumes : w # v => entries'[App(w)] = entries[App(w)]
  <2>1. v = OsVolume => req.pc = "open"
    BY DEF LifeInv, OsInv, Opening
  <2>2. req.pc = "open" => entries[App(v)] # NoVolume
    BY DEF LifeInv, RequestInv
  <2>3. \A w \in Volumes : w # v => entries'[App(w)] = entries[App(w)]
    BY KeyFacts DEF LifeInv, Typed
  <2> QED BY <2>1, <2>2, <2>3
<1>9. RequestInv' /\ req' \in Request
  BY NoRequestInv, IdleRequest DEF LifeInv, Typed
<1>10. Typed'
  BY <1>2, <1>7, <1>9 DEF LifeInv, Typed
<1>11. OsInv'
  <2>1. ~Preparing(OsVolume)' /\ OsVolume \notin req'.todo
    BY <1>6, NoRequestIs DEF Preparing, LifeInv, OsInv
  <2>2. CASE v = OsVolume
    <3>1. ~GivenUp(OsVolume)'
      BY <1>1, <1>6, <1>7, <2>2 DEF GivenUp
    <3> QED BY <1>1, <1>2, <1>6, <1>7, <1>8, <2>1, <2>2, <3>1 DEF LifeInv, OsInv, App
  <2>3. CASE v # OsVolume
    <3>1. ~Preparing(OsVolume)
      BY <2>3 DEF Preparing
    <3> QED BY <1>2, <1>6, <1>7, <1>8, <2>1, <2>3, <3>1, Ids, OsSame
  <2> QED BY <2>2, <2>3
<1> QED BY <1>7, <1>9, <1>10, <1>11 DEF LifeInv

LEMMA InvPrepareOpens ==
    ASSUME LifeInv, NEW stray \in BOOLEAN, PrepareOpens(stray) PROVE LifeInv'
<1>1. /\ req.pc = "open" /\ (stray => req.hidden)
      /\ entries' = [entries EXCEPT ![App(req.vol)] = FreshObject(req.vol)]
      /\ Bind(req.vol, FreshObject(req.vol), TRUE) /\ req' = NoRequest
      /\ ObjectsWith(FreshObject(req.vol),
                     Complete(req.vol, SourceOf(req.vol), "Idle", stray))
      /\ UNCHANGED <<handover, device, phase>> /\ UNCHANGED disk
  BY DEF PrepareOpens, Opens
<1>2. /\ req.vol \in Volumes /\ volume[req.vol] # NoVolume
      /\ ~attached[volume[req.vol]].cipher
  BY <1>1 DEF LifeInv, RequestInv
<1>3. /\ SourceOf(req.vol) \in AttachSource
      /\ req.vol = OsVolume => SourceOf(req.vol) = "Handover" /\ ~stray
  BY <1>1 DEF SourceOf, AttachSource, LifeInv, OsInv, Preparing
<1> QED BY <1>1, <1>2, <1>3, CompleteBound

LEMMA InvAttach ==
    ASSUME LifeInv, NEW v \in Volumes, NEW stray \in BOOLEAN, Attach(v, stray)
    PROVE  LifeInv'
<1>1. /\ req.pc = "idle" /\ req' = req /\ entries[App(v)] # NoVolume
      /\ ~attached[entries[App(v)]].cipher
      /\ entries' = [entries EXCEPT ![App(v)] = FreshObject(v)]
      /\ Bind(v, FreshObject(v), TRUE)
      /\ ObjectsWith(FreshObject(v), Complete(v, "Ioctl", "Idle", stray))
      /\ UNCHANGED <<handover, device, phase>> /\ UNCHANGED disk
  BY DEF Attach
<1>2. entries[App(v)] = volume[v] /\ volume[v] # NoVolume
  BY <1>1 DEF LifeInv, VolumeInv, EntryInv
<1>3. v # OsVolume
  BY <1>1, <1>2 DEF LifeInv, OsInv, Opening
<1>4. "Ioctl" \in AttachSource
  BY DEF AttachSource
<1> QED BY <1>1, <1>2, <1>3, <1>4, CompleteBound

-----------------------------------------------------------------------------
(***************************************************************************)
(* The handover mount.                                                     *)
(***************************************************************************)
LEMMA TowardsIs ==
    ASSUME NEW d \in VolumeState, NEW s \in 0 .. N
    PROVE  /\ StateTowards(d, s) \in EngineState
           /\ StateTowards(d, s) = "Encrypting" => s < N /\ d = "Encrypt"
           /\ StateTowards(d, s) = "Decrypting" => s > 0
BY Ids DEF StateTowards, EngineState, VolumeState

(* The boot that has a handover finds the OS volume unbound and no request *)
(* for it in progress.                                                     *)
LEMMA InvStartDevice ==
    ASSUME LifeInv, NEW v \in Volumes, StartDevice(v) PROVE LifeInv'
<1> DEFINE record ==
              Complete(v, "Handover", StateTowards(dir[v], offset[v]), FALSE)
<1>1. /\ handover /\ v = OsVolume /\ device[v] = "live" /\ volume[v] = NoVolume
      /\ entries' = [entries EXCEPT ![Nt(v)] = FreshObject(v)]
      /\ Bind(v, FreshObject(v), TRUE) /\ req' = req
      /\ ObjectsWith(FreshObject(v), record)
      /\ UNCHANGED <<handover, device, phase>> /\ UNCHANGED disk
  BY DEF StartDevice
<1>2. UNCHANGED <<meta, strayMeta, offset, dir, vckJson>>
  BY <1>1 DEF disk
<1>3. dir[v] \in VolumeState /\ offset[v] \in 0 .. N
  BY DEF LifeInv, Typed
<1>4. /\ record \in AttachedVolume /\ record.vol = v /\ record.filter = TRUE
      /\ record.cipher = TRUE /\ record.source = "Handover"
      /\ record.stray = FALSE /\ record.boundary = offset[v]
      /\ record.engine = StateTowards(dir[v], offset[v])
  <2>1. "Handover" \in AttachSource
    BY DEF AttachSource
  <2>2. StateTowards(dir[v], offset[v]) \in EngineState
    BY <1>3, TowardsIs
  <2> QED BY <1>3, <2>1, <2>2 DEF Complete, AttachedVolume
<1>5. /\ record.engine = "Encrypting" =>
            record.boundary < N /\ dir[v] = "Encrypt"
      /\ record.engine = "Decrypting" => record.boundary > 0
  BY <1>3, <1>4, TowardsIs
<1> HIDE DEF record
<1>6. entries[App(v)] = NoVolume
  BY <1>1 DEF LifeInv, VolumeInv, EntryInv
<1>7. Nt(v) \in {App(v), Nt(v)} /\ App(v) # Nt(v) /\ device'[v] = "live"
      /\ Bind(v, FreshObject(v), record.cipher)
  BY <1>1, <1>4, KeyFacts
<1>8. /\ ObjectInv' /\ \A w \in Volumes : VolumeInv(w)'
      /\ entries' \in [Keys -> Pointer] /\ volume' \in [Volumes -> Pointer]
      /\ vthread' \in [Volumes -> BOOLEAN]
      /\ volume'[v] = FreshObject(v) /\ volume'[v] # NoVolume
      /\ attached'[volume'[v]] = record
      /\ \A w \in Volumes : w # v =>
            /\ volume'[w] = volume[w]
            /\ volume[w] # NoVolume => attached'[volume[w]] = attached[volume[w]]
  BY <1>1, <1>2, <1>4, <1>5, <1>6, <1>7, BindStep
<1>9. /\ \A w \in Volumes : entries'[App(w)] = entries[App(w)]
      /\ \A w \in Volumes : w # v => entries'[Nt(w)] = entries[Nt(w)]
  BY <1>1, KeyFacts DEF LifeInv, Typed
<1>10. req.pc \in {"add", "fallback", "write", "open", "remove", "lock"} =>
          req.vol \in Volumes /\ req.vol # v
  <2>1. ~Preparing(OsVolume)
    BY <1>1 DEF LifeInv, OsInv
  <2>2. req.pc \in {"remove", "lock"} => req.vol # v
    BY <1>1, <1>6 DEF LifeInv, RequestInv
  <2> QED BY <1>1, <2>1, <2>2 DEF LifeInv, RequestInv, Preparing
<1>11. RequestInv'
  BY <1>1, <1>8, <1>9, <1>10 DEF LifeInv, RequestInv, App, Nt
<1>12. Typed'
  BY <1>1, <1>2, <1>8 DEF LifeInv, Typed
<1>13. OsInv'
  <2>1. ~Preparing(OsVolume)' /\ vckJson
    BY <1>1 DEF LifeInv, OsInv, Preparing
  <2>2. /\ attached'[volume'[OsVolume]].source = "Handover"
        /\ attached'[volume'[OsVolume]].cipher
        /\ ~attached'[volume'[OsVolume]].stray
    BY <1>1, <1>4, <1>8
  <2>3. ~GivenUp(OsVolume)'
    BY <1>1, <1>4, <1>8, <1>10 DEF GivenUp
  <2> QED BY <1>1, <1>2, <1>6, <1>9, <1>10, <2>1, <2>2, <2>3
          DEF LifeInv, OsInv, App
<1> QED BY <1>8, <1>11, <1>12, <1>13 DEF LifeInv

-----------------------------------------------------------------------------
(***************************************************************************)
(* The sweep's handlers and the volume thread.                             *)
(***************************************************************************)
LEMMA EngineStep ==
    ASSUME LifeInv, NEW v \in Volumes, volume[v] # NoVolume,
           NEW e \in EngineState, NEW b \in 0 .. N,
           attached' = [attached EXCEPT
              ![volume[v]] = [attached[volume[v]] EXCEPT !.engine = e,
                                                        !.boundary = b]],
           e = "Encrypting" => b < N, e = "Decrypting" => b > 0,
           HasStore(volume[v]) => /\ b = offset'[v]
                                  /\ e = "Encrypting" => dir'[v] = "Encrypt",
           \A w \in Volumes : w # v => offset'[w] = offset[w] /\ dir'[w] = dir[w],
           v = OsVolume /\ GivenUp(v) => offset'[v] = 0 \/ dir'[v] = "Encrypt",
           UNCHANGED <<entries, handover, device, volume, vthread, req, vckJson>>
    PROVE  /\ ObjectInv' /\ \A w \in Volumes : VolumeInv(w)'
           /\ OsInv' /\ RequestInv'
<1> DEFINE o == volume[v]
<1>1. o \in DOMAIN attached /\ GoodObject(v, attached[o])
  BY BoundGood
<1>2. /\ attached'[o] \in AttachedVolume /\ attached'[o].vol = v
      /\ attached'[o].engine = e /\ attached'[o].boundary = b
      /\ attached'[o].cipher = attached[o].cipher
      /\ attached'[o].stray = attached[o].stray
      /\ attached'[o].filter = attached[o].filter
      /\ attached'[o].source = attached[o].source
  BY <1>1 DEF GoodObject, AttachedVolume
<1>3. DOMAIN attached' = DOMAIN attached
  OBVIOUS
<1>4. ASSUME NEW w \in Volumes, volume[w] # NoVolume, w # v
      PROVE  attached'[volume[w]] = attached[volume[w]]
  <2>1. volume[w] # o
    BY <1>4, Distinct
  <2>2. volume[w] \in DOMAIN attached
    BY <1>4, BoundGood
  <2> QED BY <2>1, <2>2
<1>5. ASSUME NEW w \in Volumes, volume[w] # NoVolume
      PROVE  LET a == attached'[volume[w]]
             IN  /\ a \in AttachedVolume /\ a.vol = w
                 /\ a.cipher = attached[volume[w]].cipher
                 /\ a.stray = attached[volume[w]].stray
                 /\ a.filter = attached[volume[w]].filter
                 /\ a.source = attached[volume[w]].source
                 /\ a.engine = "Encrypting" => a.boundary < N
                 /\ a.engine = "Decrypting" => a.boundary > 0
                 /\ a.cipher /\ ~a.stray =>
                       /\ a.boundary = offset'[w]
                       /\ a.engine = "Encrypting" => dir'[w] = "Encrypt"
  <2>1. CASE w = v
    BY <1>2, <2>1 DEF HasStore
  <2>2. CASE w # v
    <3>1. /\ attached'[volume[w]] = attached[volume[w]]
          /\ offset'[w] = offset[w] /\ dir'[w] = dir[w]
      BY <1>4, <1>5, <2>2
    <3>2. GoodObject(w, attached[volume[w]])
      BY <1>5, BoundGood
    <3> QED BY <3>1, <3>2 DEF GoodObject
  <2> QED BY <2>1, <2>2
<1>6. GivenUp(OsVolume)' => offset'[OsVolume] = 0 \/ dir'[OsVolume] = "Encrypt"
  <2>1. GivenUp(OsVolume)' => GivenUp(OsVolume)
    BY <1>5, Ids DEF GivenUp
  <2>2. CASE v = OsVolume
    BY <2>1, <2>2
  <2>3. CASE v # OsVolume
    <3>1. offset'[OsVolume] = offset[OsVolume] /\ dir'[OsVolume] = dir[OsVolume]
      BY <2>3, Ids
    <3> QED BY <2>1, <3>1 DEF LifeInv, OsInv
  <2> QED BY <2>2, <2>3
<1>7. ObjectInv' /\ \A w \in Volumes : VolumeInv(w)'
  BY <1>3, <1>5, UpdateStep
<1>8. OsInv'
  BY <1>5, <1>6, Ids, OsFrame
<1>9. RequestInv'
  BY <1>5 DEF LifeInv, RequestInv, App, Nt
<1> QED BY <1>7, <1>8, <1>9

(* The engine of the volume's object gets another state. *)
LEMMA EngineOnly ==
    ASSUME LifeInv, NEW v \in Volumes, volume[v] # NoVolume,
           NEW e \in EngineState,
           attached' = [attached EXCEPT ![volume[v]].engine = e],
           e = "Encrypting" => attached[volume[v]].boundary < N,
           e = "Decrypting" => attached[volume[v]].boundary > 0,
           dir' \in [Volumes -> VolumeState],
           \A w \in Volumes : w # v => dir'[w] = dir[w],
           HasStore(volume[v]) /\ e = "Encrypting" => dir'[v] = "Encrypt",
           GivenUp(v) => dir'[v] = dir[v],
           UNCHANGED <<entries, handover, device, volume, vthread, req, phase,
                       meta, strayMeta, offset, vckJson>>
    PROVE  LifeInv'
<1> DEFINE a == attached[volume[v]]
<1>1. GoodObject(v, a) /\ volume[v] \in DOMAIN attached
  BY BoundGood
<1>2. a.boundary \in 0 .. N /\ (HasStore(volume[v]) => a.boundary = offset'[v])
      /\ [a EXCEPT !.engine = e] = [a EXCEPT !.engine = e, !.boundary = a.boundary]
  BY <1>1 DEF GoodObject, AttachedVolume, HasStore
<1>3. attached' = [attached EXCEPT
                     ![volume[v]] = [a EXCEPT !.engine = e,
                                              !.boundary = a.boundary]]
  BY <1>2
<1>4. v = OsVolume /\ GivenUp(v) => offset'[v] = 0 \/ dir'[v] = "Encrypt"
  BY DEF LifeInv, OsInv
<1>6. ObjectInv' /\ (\A w \in Volumes : VolumeInv(w)') /\ OsInv' /\ RequestInv'
  BY <1>2, <1>3, <1>4, EngineStep
<1>5. Typed'
  BY DEF LifeInv, Typed
<1> QED BY <1>5, <1>6 DEF LifeInv

LEMMA InvStartSweep ==
    ASSUME LifeInv, NEW v \in Volumes, NEW d \in VolumeState, StartSweep(v, d)
    PROVE  LifeInv'
<1> DEFINE o == ResolveVolume(v)
           e == StateTowards(d, attached[o].boundary)
<1>1. /\ o # NoVolume /\ attached' = [attached EXCEPT ![o].engine = e]
      /\ dir' = IF HasStore(o) THEN [dir EXCEPT ![v] = d] ELSE dir
      /\ req.pc = "idle"
      /\ UNCHANGED <<entries, handover, device, volume, vthread, req, phase,
                     meta, strayMeta, offset, vckJson>>
  BY DEF StartSweep
<1>2. o = volume[v] /\ volume[v] # NoVolume /\ ~GivenUp(v)
  BY <1>1, ResolveIs DEF GivenUp
<1>3. attached[o].boundary \in 0 .. N
  BY <1>2, BoundGood DEF GoodObject, AttachedVolume
<1>4. /\ e \in EngineState
      /\ e = "Encrypting" => attached[volume[v]].boundary < N /\ d = "Encrypt"
      /\ e = "Decrypting" => attached[volume[v]].boundary > 0
  BY <1>2, <1>3, TowardsIs
<1>5. /\ dir' \in [Volumes -> VolumeState]
      /\ \A w \in Volumes : w # v => dir'[w] = dir[w]
      /\ HasStore(volume[v]) => dir'[v] = d
  BY <1>1, <1>2 DEF LifeInv, Typed
<1> HIDE DEF o, e
<1> QED BY <1>1, <1>2, <1>4, <1>5, EngineOnly

LEMMA PausedIs ==
    ASSUME NEW e \in EngineState
    PROVE  PausedState(e) \in EngineState
           /\ PausedState(e) \notin {"Encrypting", "Decrypting"}
BY DEF PausedState, EngineState

LEMMA InvPause == ASSUME LifeInv, NEW v \in Volumes, Pause(v) PROVE LifeInv'
<1> DEFINE o == ResolveVolume(v)
           e == PausedState(attached[o].engine)
<1>1. /\ o # NoVolume /\ attached' = [attached EXCEPT ![o].engine = e]
      /\ UNCHANGED <<entries, handover, device, volume, vthread, req, phase>>
      /\ UNCHANGED <<meta, strayMeta, offset, dir, vckJson>>
  BY DEF Pause, disk
<1>2. o = volume[v] /\ volume[v] # NoVolume
  BY <1>1, ResolveIs
<1>3. attached[o].engine \in EngineState
  BY <1>2, BoundGood DEF GoodObject, AttachedVolume
<1>4. e \in EngineState /\ e # "Encrypting" /\ e # "Decrypting"
  BY <1>3, PausedIs
<1>5. dir' \in [Volumes -> VolumeState] /\ dir' = dir
  BY <1>1 DEF LifeInv, Typed
<1> HIDE DEF o, e
<1> QED BY <1>1, <1>2, <1>4, <1>5, EngineOnly

(* The boundary in memory and the one on disk move together. *)
LEMMA InvSweepBatch ==
    ASSUME LifeInv, NEW v \in Volumes, SweepBatch(v) PROVE LifeInv'
<1> DEFINE o == volume[v]
           e == attached[o].engine
           next == IF e = "Encrypting" THEN attached[o].boundary + 1
                                       ELSE attached[o].boundary - 1
           rest == IF e = "Encrypting" THEN next = N ELSE next = 0
           e2 == IF rest THEN "Idle" ELSE e
<1>1. /\ vthread[v] /\ e \in {"Encrypting", "Decrypting"}
      /\ attached' = [attached EXCEPT ![o].boundary = next, ![o].engine = e2]
      /\ offset' = IF HasStore(o) THEN [offset EXCEPT ![v] = next] ELSE offset
      /\ UNCHANGED <<entries, handover, device, volume, vthread, req, phase,
                     meta, strayMeta, dir, vckJson>>
      /\ attached[o].cipher
  BY DEF SweepBatch
<1>2. o # NoVolume
  BY <1>1 DEF LifeInv, VolumeInv
<1>3. o \in DOMAIN attached /\ GoodObject(v, attached[o])
  BY <1>2, BoundGood
<1>4. /\ next \in 0 .. N /\ e2 \in EngineState
      /\ e2 = "Encrypting" => next < N
      /\ e2 = "Decrypting" => next > 0
  <2>1. attached[o].boundary \in 0 .. N /\ N \in Nat
    BY <1>3, Ids DEF GoodObject, AttachedVolume
  <2>2. /\ e = "Encrypting" => attached[o].boundary < N
        /\ e = "Decrypting" => attached[o].boundary > 0
    BY <1>3 DEF GoodObject
  <2> QED BY <1>1, <2>1, <2>2 DEF EngineState
<1>5. attached' = [attached EXCEPT
                     ![o] = [attached[o] EXCEPT !.engine = e2, !.boundary = next]]
  BY <1>1, <1>3 DEF GoodObject, AttachedVolume
<1>6. /\ offset' \in [Volumes -> 0 .. N] /\ (HasStore(o) => offset'[v] = next)
      /\ \A w \in Volumes : w # v => offset'[w] = offset[w]
  BY <1>1, <1>4 DEF LifeInv, Typed
<1>9. HasStore(o) => (e2 = "Encrypting" => dir'[v] = "Encrypt")
  BY <1>1, <1>3 DEF GoodObject, HasStore
<1>10. v = OsVolume /\ GivenUp(v) => dir'[v] = "Encrypt"
  <2> SUFFICES ASSUME v = OsVolume, GivenUp(v) PROVE dir[v] = "Encrypt"
    BY <1>1
  <2>1. ~attached[o].stray
    BY <1>2 DEF LifeInv, OsInv
  <2>2. /\ attached[o].boundary = offset[v]
        /\ e = "Encrypting" => dir[v] = "Encrypt"
        /\ e = "Decrypting" => attached[o].boundary > 0
    BY <1>1, <1>3, <2>1 DEF GoodObject
  <2>3. offset[v] = 0 \/ dir[v] = "Encrypt"
    BY DEF LifeInv, OsInv
  <2> QED BY <1>1, <2>2, <2>3
<1> HIDE DEF next, rest, e2, e
<1>7. ObjectInv' /\ (\A w \in Volumes : VolumeInv(w)') /\ OsInv' /\ RequestInv'
  BY <1>1, <1>2, <1>4, <1>5, <1>6, <1>9, <1>10, EngineStep, ZenonT(60)
<1>8. Typed'
  BY <1>1, <1>6 DEF LifeInv, Typed
<1> QED BY <1>7, <1>8 DEF LifeInv

-----------------------------------------------------------------------------
(***************************************************************************)
(* IOCTL_VCK_DETACH.                                                       *)
(***************************************************************************)
(* handle_detach lets the system volume pass only before anything of it is *)
(* encrypted.                                                              *)
LEMMA InvDetach == ASSUME LifeInv, NEW v \in Volumes, Detach(v) PROVE LifeInv'
<1>1. /\ req.pc = "idle" /\ entries[App(v)] # NoVolume
      /\ ~(IsOsVolume(entries[App(v)]) /\ HasEncryptedData(entries[App(v)]))
      /\ req' = [NoRequest EXCEPT !.pc = "remove", !.vol = v]
      /\ UNCHANGED session /\ UNCHANGED phase /\ UNCHANGED disk
  BY DEF Detach
<1>2. /\ UNCHANGED <<entries, handover, device, volume, vthread, attached>>
      /\ UNCHANGED <<meta, strayMeta, offset, dir, vckJson>>
  BY <1>1 DEF session, disk
<1>3. /\ req' \in Request /\ req'.pc = "remove" /\ req'.vol = v
      /\ req'.object = NoVolume /\ req'.todo = {}
  BY DEF Request, NoRequest, Pointer, Detach
<1>4. Typed'
  BY <1>1, <1>2, <1>3 DEF LifeInv, Typed
<1>5. ObjectInv' /\ \A w \in Volumes : VolumeInv(w)'
  BY <1>1, <1>2, <1>3, SessionFrame
<1>6. RequestInv'
  BY <1>1, <1>2, <1>3 DEF RequestInv, App, Nt
<1>7. v = OsVolume => offset[v] = 0
  <2> SUFFICES ASSUME v = OsVolume PROVE offset[v] = 0
    OBVIOUS
  <2>1. entries[App(v)] = volume[v] /\ volume[v] # NoVolume
    BY <1>1 DEF LifeInv, VolumeInv, EntryInv
  <2>2. /\ attached[volume[v]].source = "Handover" /\ attached[volume[v]].cipher
        /\ ~attached[volume[v]].stray
    BY <1>1, <2>1 DEF LifeInv, OsInv, Opening
  <2>3. attached[volume[v]].boundary = offset[v]
    BY <2>1, <2>2, BoundGood DEF GoodObject
  <2>4. offset[v] \in 0 .. N /\ ~(offset[v] > 0)
    BY <1>1, <2>1, <2>2, <2>3 DEF IsOsVolume, HasEncryptedData, LifeInv, Typed
  <2> QED BY <2>4, Ids
<1>8. OsInv'
  <2>1. ~Preparing(OsVolume) /\ ~Preparing(OsVolume)'
    BY <1>1, <1>3 DEF Preparing
  <2>2. GivenUp(OsVolume)' => GivenUp(OsVolume) \/ v = OsVolume
    BY <1>2, <1>3 DEF GivenUp
  <2>3. GivenUp(OsVolume)' => offset'[OsVolume] = 0 \/ dir'[OsVolume] = "Encrypt"
    BY <1>2, <1>7, <2>2 DEF LifeInv, OsInv
  <2> QED BY <1>2, <1>3, <2>1, <2>3, OsFrame
<1> QED BY <1>4, <1>5, <1>6, <1>8 DEF LifeInv

LEMMA InvDetachRemoves == ASSUME LifeInv, DetachRemoves PROVE LifeInv'
<1>0. req.pc = "remove" /\ req.vol \in Volumes
  BY DEF LifeInv, RequestInv, DetachRemoves
<1> PICK v \in Volumes : v = req.vol
  BY <1>0
<1> DEFINE o == entries[App(v)]
<1>1. /\ req.pc = "remove"
      /\ entries' = [entries EXCEPT ![App(v)] = NoVolume]
      /\ req' = [req EXCEPT !.pc = "lock", !.object = o]
      /\ attached' = [attached EXCEPT ![o].filter = FALSE]
      /\ UNCHANGED <<handover, device, volume, vthread, phase>>
      /\ UNCHANGED <<meta, strayMeta, offset, dir, vckJson>>
  BY DEF DetachRemoves, disk
<1>2. v \in Volumes /\ o # NoVolume /\ o = volume[v]
  BY <1>1 DEF LifeInv, RequestInv, VolumeInv, EntryInv
<1>3. o \in Pointer /\ App(v) \in Keys
  BY <1>2, KeyFacts DEF LifeInv, Typed
<1>4. /\ req' \in Request /\ req'.pc = "lock" /\ req'.vol = v
      /\ req'.object = volume[v] /\ req'.todo = req.todo
  BY <1>1, <1>2, <1>3 DEF LifeInv, Typed, Request
<1>5. /\ entries' \in [Keys -> Pointer] /\ entries'[App(v)] = NoVolume
      /\ \A x \in Keys : x # App(v) => entries'[x] = entries[x]
  BY <1>1, <1>3 DEF LifeInv, Typed, Pointer
<1>6. Typed'
  BY <1>1, <1>4, <1>5 DEF LifeInv, Typed
<1>7. entries[Nt(v)] = NoVolume /\ entries'[Nt(v)] = NoVolume
  <2>1. entries[Nt(v)] # NoVolume => v = OsVolume /\ handover
    BY <1>2 DEF LifeInv, VolumeInv, EntryInv
  <2>2. v = OsVolume => ~handover
    BY <1>2 DEF LifeInv, OsInv
  <2> QED BY <1>2, <1>5, <2>1, <2>2, KeyFacts
<1>8. /\ DOMAIN attached' = DOMAIN attached
      /\ attached'[o] = [attached[o] EXCEPT !.filter = FALSE]
      /\ GoodObject(v, attached[o])
  BY <1>1, <1>2, BoundGood
<1>9. ASSUME NEW w \in Volumes, w # v, volume[w] # NoVolume
      PROVE  attached'[volume[w]] = attached[volume[w]]
  <2>1. volume[w] # o /\ volume[w] \in DOMAIN attached
    BY <1>2, <1>9, Distinct, BoundGood
  <2> QED BY <1>1, <2>1
<1> HIDE DEF o
<1>10. ObjectInv'
  BY <1>1, <1>8 DEF LifeInv, ObjectInv, BoundObjects
<1>11. ASSUME NEW w \in Volumes, w # v PROVE VolumeInv(w)'
  <2>1. entries'[App(w)] = entries[App(w)] /\ entries'[Nt(w)] = entries[Nt(w)]
    BY <1>2, <1>5, <1>11, KeyFacts
  <2> QED BY <1>1, <1>9, <1>11, <2>1, VolumeFrame DEF LifeInv
<1>12. VolumeInv(v)'
  <2>1. GoodObject(v, attached[volume[v]])'
    <3> DEFINE a == attached[o]
               b == attached'[o]
    <3>1. a \in AttachedVolume /\ b = [a EXCEPT !.filter = FALSE]
      BY <1>8 DEF GoodObject
    <3>2. /\ b \in AttachedVolume /\ b.vol = a.vol /\ b.cipher = a.cipher
          /\ b.engine = a.engine /\ b.boundary = a.boundary
          /\ b.stray = a.stray
      BY <3>1 DEF AttachedVolume
    <3>3. attached'[volume'[v]] = b
      BY <1>1, <1>2
    <3> QED BY <1>1, <1>8, <3>2, <3>3 DEF GoodObject
  <2>2. ~attached'[volume'[v]].filter
    BY <1>1, <1>2, <1>8 DEF GoodObject, AttachedVolume
  <2>3. BoundInv(v)
    BY <1>2 DEF LifeInv, VolumeInv
  <2>4. BoundInv(v)'
    BY <1>1, <2>1, <2>2, <2>3 DEF BoundInv
  <2>5. EntryInv(v)'
    <3>1. App(v)' = App(v) /\ Nt(v)' = Nt(v)
      BY DEF App, Nt
    <3> QED BY <1>5, <1>7, <3>1 DEF EntryInv
  <2> QED BY <1>1, <1>2, <2>4, <2>5 DEF VolumeInv
<1>13. RequestInv'
  BY <1>1, <1>2, <1>4, <1>5, <1>7 DEF RequestInv, App, Nt
<1>14. OsInv'
  <2>1. ~Preparing(OsVolume)' /\ OsVolume \notin req'.todo
    BY <1>1, <1>4 DEF LifeInv, OsInv, Preparing
  <2>2. CASE v = OsVolume
    <3>1. /\ attached'[volume'[v]].source = attached[volume[v]].source
          /\ attached'[volume'[v]].cipher = attached[volume[v]].cipher
          /\ attached'[volume'[v]].stray = attached[volume[v]].stray
      BY <1>1, <1>2, <1>8 DEF GoodObject, AttachedVolume
    <3>2. ~Opening(OsVolume) /\ GivenUp(OsVolume)
      BY <1>1, <1>2, <2>2 DEF Opening, GivenUp
    <3> QED BY <1>1, <1>4, <1>5, <2>1, <2>2, <3>1, <3>2 DEF LifeInv, OsInv, App
  <2>3. CASE v # OsVolume
    <3>1. entries'[App(OsVolume)] = entries[App(OsVolume)] /\ ~Preparing(OsVolume)
      BY <1>1, <1>2, <1>5, <2>3, Ids, KeyFacts DEF Preparing
    <3> QED BY <1>1, <1>4, <1>9, <2>1, <2>3, <3>1, Ids, OsSame
  <2> QED BY <2>2, <2>3
<1> QED BY <1>6, <1>10, <1>11, <1>12, <1>13, <1>14 DEF LifeInv

(* The volume stays with its filter and out of the registry. *)
LEMMA InvDetachLockFails == ASSUME LifeInv, DetachLockFails PROVE LifeInv'
<1>1. /\ req.pc = "lock" /\ req' = NoRequest
      /\ ObjectsWith(NoVolume, NoVolume) /\ UNCHANGED <<entries, volume>>
      /\ UNCHANGED <<handover, device, vthread, phase>>
      /\ UNCHANGED <<meta, strayMeta, offset, dir, vckJson>>
  BY DEF DetachLockFails, disk
<1>2. ASSUME NEW k \in Keys
      PROVE  entries'[k] = NoVolume \/ \E w \in Volumes : entries'[k] = volume'[w]
  <2>1. PICK w \in Volumes : k = App(w) \/ k = Nt(w)
    BY KeyFacts
  <2> QED BY <1>1, <2>1 DEF LifeInv, VolumeInv, EntryInv
<1>3. req'.object = NoVolume /\ RequestInv' /\ req' \in Request
  BY <1>1, NoRequestIs, NoRequestInv
<1>4. /\ ObjectInv'
      /\ \A x \in BoundObjects' :
            attached'[x] = IF x = NoVolume THEN NoVolume ELSE attached[x]
  BY <1>1, <1>2, <1>3, ObjectsAre
<1>5. ASSUME NEW w \in Volumes, volume[w] # NoVolume
      PROVE  attached'[volume[w]] = attached[volume[w]]
  BY <1>1, <1>4, <1>5, BoundIn
<1>6. ASSUME NEW w \in Volumes PROVE VolumeInv(w)'
  <2>1. VolumeInv(w)
    BY DEF LifeInv
  <2>2. volume[w] # NoVolume => BoundInv(w)'
    <3> SUFFICES ASSUME volume[w] # NoVolume PROVE BoundInv(w)'
      OBVIOUS
    <3>1. BoundInv(w) /\ attached'[volume[w]] = attached[volume[w]]
      BY <1>5, <2>1 DEF VolumeInv
    <3>2. GoodObject(w, attached[volume[w]])'
      BY <1>1, <3>1 DEF BoundInv, GoodObject
    <3> QED BY <1>1, <2>1, <3>1, <3>2 DEF BoundInv, App, Nt
  <2>3. EntryInv(w)'
    BY <1>1, <1>5, <2>1 DEF VolumeInv, EntryInv, App, Nt
  <2> QED BY <1>1, <2>1, <2>2, <2>3 DEF VolumeInv
<1>7. OsInv'
  <2>1. ~Preparing(OsVolume) /\ ~Preparing(OsVolume)'
    BY <1>1, NoRequestIs DEF Preparing
  <2> QED BY <1>1, <1>5, <2>1, NoRequestIs, Ids, OsSame
<1>8. Typed'
  BY <1>1, <1>3 DEF LifeInv, Typed
<1> QED BY <1>3, <1>4, <1>6, <1>7, <1>8 DEF LifeInv

LEMMA InvDetachUnbinds == ASSUME LifeInv, DetachUnbinds PROVE LifeInv'
<1>1. /\ req.pc = "lock" /\ req' = NoRequest /\ UNCHANGED entries
      /\ volume' = [volume EXCEPT ![req.vol] = NoVolume]
      /\ vthread' = [vthread EXCEPT ![req.vol] = FALSE]
      /\ ObjectsWith(NoVolume, NoVolume)
      /\ UNCHANGED <<handover, device, phase>>
      /\ UNCHANGED <<meta, strayMeta, offset, dir, vckJson>>
  BY DEF DetachUnbinds, Unbind, disk
<1>2. /\ req.vol \in Volumes /\ entries[App(req.vol)] = NoVolume
      /\ entries \in [Keys -> Pointer] /\ meta' \in [Volumes -> BOOLEAN]
      /\ strayMeta' \in [Volumes -> BOOLEAN]
      /\ device' \in [Volumes -> {"none", "live", "deleted"}]
  BY <1>1 DEF LifeInv, RequestInv, Typed
<1>3. entries' = [entries EXCEPT ![App(req.vol)] = NoVolume]
  BY <1>1, <1>2, KeyFacts
<1> QED BY <1>1, <1>2, <1>3, RequestUnbinds

-----------------------------------------------------------------------------
(***************************************************************************)
(* Shutdown and unload.                                                    *)
(***************************************************************************)
(* What is registered is bound to the live filter of its own volume.       *)
LEMMA RegisteredIs ==
    ASSUME LifeInv, NEW o \in Registered
    PROVE  /\ attached[o].vol \in Volumes /\ volume[attached[o].vol] = o
           /\ o # NoVolume /\ attached[o].filter
           /\ device[attached[o].vol] = "live"
<1>1. PICK k \in Keys : o = entries[k] /\ o # NoVolume
  BY DEF Registered
<1>2. PICK v \in Volumes : k = App(v) \/ k = Nt(v)
  BY KeyFacts
<1>3. VolumeInv(v)
  BY DEF LifeInv
<1>4. o = volume[v] /\ attached[o].filter
  BY <1>1, <1>2, <1>3 DEF VolumeInv, EntryInv
<1>5. GoodObject(v, attached[o]) /\ device[v] = "live"
  BY <1>1, <1>4, BoundGood
<1>6. attached[o].vol = v
  BY <1>5 DEF GoodObject
<1> QED BY <1>1, <1>4, <1>5, <1>6

(* The system volume is never among the volumes DETACH_ALL works through. *)
LEMMA DataVolumesAre ==
    ASSUME LifeInv
    PROVE  DataVolumes \in SUBSET Volumes /\ OsVolume \notin DataVolumes
<1>1. ASSUME NEW o \in Registered, ~IsOsVolume(o)
      PROVE  attached[o].vol \in Volumes /\ attached[o].vol # OsVolume
  <2>1. attached[o].vol \in Volumes /\ volume[attached[o].vol] = o /\ o # NoVolume
    BY RegisteredIs
  <2>2. attached[o].vol = OsVolume => attached[o].source = "Handover"
    BY <2>1 DEF LifeInv, OsInv
  <2> QED BY <1>1, <2>1, <2>2 DEF IsOsVolume
<1> QED BY <1>1 DEF DataVolumes

LEMMA AllRequest ==
    ASSUME LifeInv, req' = [NoRequest EXCEPT !.pc = "all", !.todo = DataVolumes]
    PROVE  /\ req' \in Request /\ req'.pc = "all" /\ req'.object = NoVolume
           /\ OsVolume \notin req'.todo /\ ~Preparing(OsVolume)' /\ RequestInv'
<1>1. /\ req' \in Request /\ req'.pc = "all" /\ req'.object = NoVolume
      /\ req'.todo = DataVolumes
  BY DataVolumesAre DEF Request, NoRequest, Pointer
<1>2. ~Preparing(OsVolume)' /\ RequestInv'
  BY <1>1 DEF Preparing, RequestInv
<1> QED BY <1>1, <1>2, DataVolumesAre

LEMMA InvShutdown == ASSUME LifeInv, Shutdown PROVE LifeInv'
<1>1. /\ req.pc = "idle" /\ phase' = "shutdown"
      /\ attached' = [o \in DOMAIN attached |->
                        IF o \in Registered /\ IsOsVolume(o)
                        THEN [attached[o] EXCEPT !.engine = PausedState(@)]
                        ELSE attached[o]]
      /\ req' = [NoRequest EXCEPT !.pc = "all", !.todo = DataVolumes]
      /\ UNCHANGED <<entries, handover, device, volume, vthread>>
      /\ UNCHANGED <<meta, strayMeta, offset, dir, vckJson>>
  BY DEF Shutdown, disk
<1>2. /\ req' \in Request /\ req'.pc = "all" /\ req'.object = NoVolume
      /\ OsVolume \notin req'.todo /\ ~Preparing(OsVolume)' /\ RequestInv'
  BY <1>1, AllRequest
<1>3. ASSUME NEW w \in Volumes, volume[w] # NoVolume
      PROVE  LET a == attached[volume[w]]
                 b == attached'[volume[w]]
             IN  /\ b \in AttachedVolume /\ b.vol = w
                 /\ b.cipher = a.cipher /\ b.filter = a.filter
                 /\ b.source = a.source /\ b.stray = a.stray
                 /\ b.engine = "Encrypting" => b.boundary < N
                 /\ b.engine = "Decrypting" => b.boundary > 0
                 /\ b.cipher /\ ~b.stray =>
                       /\ b.boundary = offset'[w]
                       /\ b.engine = "Encrypting" => dir'[w] = "Encrypt"
  <2> DEFINE a == attached[volume[w]]
             b == attached'[volume[w]]
             p == PausedState(a.engine)
  <2>1. volume[w] \in DOMAIN attached /\ GoodObject(w, a)
    BY <1>3, BoundGood
  <2>2. b = a \/ b = [a EXCEPT !.engine = p]
    BY <1>1, <2>1
  <2>3. a \in AttachedVolume /\ a.engine \in EngineState
    BY <2>1 DEF GoodObject, AttachedVolume
  <2>4. p \in EngineState /\ p \notin {"Encrypting", "Decrypting"}
    BY <2>3, PausedIs
  <2> HIDE DEF p
  <2>5. /\ b \in AttachedVolume /\ b.vol = a.vol /\ b.cipher = a.cipher
        /\ b.filter = a.filter /\ b.source = a.source
        /\ b.boundary = a.boundary /\ b.stray = a.stray
        /\ b.engine = a.engine \/ b.engine = p
    BY <2>2, <2>3, <2>4 DEF AttachedVolume
  <2> HIDE DEF b
  <2>6. offset'[w] = offset[w] /\ dir'[w] = dir[w]
    BY <1>1
  <2>7. /\ a.vol = w
        /\ a.engine = "Encrypting" => a.boundary < N
        /\ a.engine = "Decrypting" => a.boundary > 0
        /\ a.cipher /\ ~a.stray =>
              /\ a.boundary = offset[w]
              /\ a.engine = "Encrypting" => dir[w] = "Encrypt"
    BY <2>1 DEF GoodObject
  <2> HIDE DEF a
  <2>8. /\ b.engine = "Encrypting" => b.boundary < N
        /\ b.engine = "Decrypting" => b.boundary > 0
        /\ b.engine = "Encrypting" => a.engine = "Encrypting"
    BY <2>4, <2>5, <2>7
  <2> QED BY <2>5, <2>6, <2>7, <2>8 DEF a, b
<1>4. ObjectInv' /\ \A w \in Volumes : VolumeInv(w)'
  <2>1. DOMAIN attached' = DOMAIN attached
    BY <1>1
  <2> QED BY <1>1, <1>3, <2>1, UpdateStep
<1>5. OsInv'
  <2>1. ~Preparing(OsVolume)
    BY <1>1 DEF Preparing
  <2>2. App(OsVolume)' = App(OsVolume)
    BY DEF App
  <2>5. volume[OsVolume] # NoVolume =>
           attached'[volume[OsVolume]].filter = attached[volume[OsVolume]].filter
    BY <1>3, Ids
  <2>3. GivenUp(OsVolume)' => GivenUp(OsVolume)
    BY <1>1, <1>2, <2>5 DEF GivenUp
  <2>4. GivenUp(OsVolume)' => offset'[OsVolume] = 0 \/ dir'[OsVolume] = "Encrypt"
    BY <1>1, <2>3 DEF LifeInv, OsInv
  <2> QED BY <1>1, <1>2, <1>3, <2>1, <2>2, <2>4, Ids, OsFrame
<1>6. Typed'
  BY <1>1, <1>2 DEF LifeInv, Typed
<1> QED BY <1>2, <1>4, <1>5, <1>6 DEF LifeInv

LEMMA InvUnload == ASSUME LifeInv, Unload PROVE LifeInv'
<1>1. /\ req.pc = "idle" /\ phase' = "unloading" /\ UNCHANGED session
      /\ req' = [NoRequest EXCEPT !.pc = "all", !.todo = DataVolumes]
      /\ UNCHANGED <<entries, handover, device, volume, vthread, attached>>
      /\ UNCHANGED <<meta, strayMeta, offset, dir, vckJson>>
  BY DEF Unload, disk, session
<1>2. /\ req' \in Request /\ req'.pc = "all" /\ req'.object = NoVolume
      /\ OsVolume \notin req'.todo /\ ~Preparing(OsVolume)' /\ RequestInv'
  BY <1>1, AllRequest
<1>3. ObjectInv' /\ \A w \in Volumes : VolumeInv(w)'
  BY <1>1, <1>2, SessionFrame
<1>4. OsInv'
  <2>1. ~Preparing(OsVolume)
    BY <1>1 DEF Preparing
  <2> QED BY <1>1, <1>2, <2>1, OsSame
<1>5. Typed'
  BY <1>1, <1>2 DEF LifeInv, Typed
<1> QED BY <1>2, <1>3, <1>4, <1>5 DEF LifeInv

LEMMA InvDetachAllNext == ASSUME LifeInv, DetachAllNext PROVE LifeInv'
<1>1. PICK v \in req.todo :
         /\ req.pc = "all"
         /\ entries' = [entries EXCEPT ![App(v)] = NoVolume]
         /\ DetachFilter(v)
         /\ req' = [req EXCEPT !.todo = @ \ {v}]
         /\ ObjectsWith(NoVolume, NoVolume)
         /\ UNCHANGED <<handover, phase>>
         /\ UNCHANGED <<meta, strayMeta, offset, dir, vckJson>>
  BY DEF DetachAllNext, disk
<1>2. v \in Volumes /\ v # OsVolume
  BY <1>1 DEF LifeInv, Typed, Request, OsInv
<1>3. entries[Nt(v)] = NoVolume
  BY <1>2 DEF LifeInv, VolumeInv, EntryInv
<1>4. /\ volume' = [volume EXCEPT ![v] = NoVolume]
      /\ vthread' = [vthread EXCEPT ![v] = FALSE]
      /\ device' \in [Volumes -> {"none", "live", "deleted"}]
      /\ \A w \in Volumes : w # v => device'[w] = device[w]
  BY <1>1, <1>2, DetachFilterIs DEF LifeInv, Typed
<1>5. /\ req' \in Request /\ req'.pc = "all" /\ req'.object = NoVolume
      /\ OsVolume \notin req'.todo
  BY <1>1 DEF LifeInv, Typed, Request, OsInv, RequestInv
<1>6. /\ ObjectInv' /\ \A w \in Volumes : VolumeInv(w)'
      /\ entries' \in [Keys -> Pointer] /\ volume' \in [Volumes -> Pointer]
      /\ vthread' \in [Volumes -> BOOLEAN]
      /\ \A w \in Volumes : w # v =>
            /\ volume'[w] = volume[w]
            /\ volume[w] # NoVolume => attached'[volume[w]] = attached[volume[w]]
  BY <1>1, <1>2, <1>3, <1>4, <1>5, UnbindStep
<1>7. RequestInv'
  BY <1>5 DEF RequestInv
<1>8. OsInv'
  <2>1. ~Preparing(OsVolume) /\ ~Preparing(OsVolume)'
    BY <1>1, <1>5 DEF Preparing
  <2>2. entries'[App(OsVolume)] = entries[App(OsVolume)]
    BY <1>1, <1>2, Ids, KeyFacts DEF LifeInv, Typed
  <2> QED BY <1>1, <1>2, <1>5, <1>6, <2>1, <2>2, Ids, OsSame
<1>9. Typed'
  BY <1>1, <1>4, <1>5, <1>6 DEF LifeInv, Typed
<1> QED BY <1>6, <1>7, <1>8, <1>9 DEF LifeInv

LEMMA InvDetachAllEnds == ASSUME LifeInv, DetachAllEnds PROVE LifeInv'
<1>1. /\ req.pc = "all" /\ req' = NoRequest /\ UNCHANGED session
      /\ phase' \in {"shutdown", "bugcheck", "unloaded"}
      /\ UNCHANGED <<entries, handover, device, volume, vthread, attached>>
      /\ UNCHANGED <<meta, strayMeta, offset, dir, vckJson>>
  BY DEF DetachAllEnds, disk, session
<1>2. /\ req' \in Request /\ req'.pc = "idle" /\ req'.object = NoVolume
      /\ req'.todo = {} /\ RequestInv'
  BY <1>1, NoRequestIs, NoRequestInv
<1>3. ObjectInv' /\ \A w \in Volumes : VolumeInv(w)'
  BY <1>1, <1>2, SessionFrame
<1>4. OsInv'
  <2>1. ~Preparing(OsVolume) /\ ~Preparing(OsVolume)'
    BY <1>1, <1>2 DEF Preparing
  <2> QED BY <1>1, <1>2, <2>1, OsSame
<1>5. Typed'
  BY <1>1, <1>2 DEF LifeInv, Typed
<1> QED BY <1>2, <1>3, <1>4, <1>5 DEF LifeInv

-----------------------------------------------------------------------------
(***************************************************************************)
(* Every step, and what the invariant gives.                               *)
(***************************************************************************)
LEMMA InvStutter == ASSUME LifeInv, UNCHANGED vars PROVE LifeInv'
<1>1. /\ UNCHANGED <<entries, handover, device, volume, vthread, attached>>
      /\ UNCHANGED <<req, phase, meta, strayMeta, offset, dir, vckJson>>
  BY DEF vars
<1>2. Typed' /\ ObjectInv'
  BY <1>1 DEF LifeInv, Typed, ObjectInv, BoundObjects
<1>3. ASSUME NEW w \in Volumes PROVE VolumeInv(w)'
  <2>1. VolumeInv(w)
    BY DEF LifeInv
  <2> QED BY <1>1, <2>1, VolumeFrame
<1>4. OsInv'
  BY <1>1, OsSame
<1>5. RequestInv'
  BY <1>1 DEF LifeInv, RequestInv, App, Nt
<1> QED BY <1>2, <1>3, <1>4, <1>5 DEF LifeInv

LEMMA LifeInvStep == ASSUME LifeInv, [Next]_vars PROVE LifeInv'
<1>1. CASE PrepareSteps
  <2>1. CASE \E v \in Volumes, block \in BOOLEAN, vmk \in BOOLEAN :
                Prepare(v, block, vmk)
    BY <2>1, InvPrepare
  <2>2. CASE \E stray \in BOOLEAN : PrepareOpens(stray)
    BY <2>2, InvPrepareOpens
  <2> QED BY <1>1, <2>1, <2>2, InvPrepareFails, InvPrepareBinds,
             InvPrepareAttachesFilter, InvPrepareWrites, InvPrepareUndone
          DEF PrepareSteps
<1>2. CASE DetachSteps
  BY <1>2, InvDetach, InvDetachRemoves, InvDetachLockFails, InvDetachUnbinds
     DEF DetachSteps
<1>7. CASE \E v \in Volumes, stray \in BOOLEAN : Attach(v, stray)
  BY <1>7, InvAttach
<1>3. CASE \E v \in Volumes : Pause(v) \/ SweepBatch(v) \/ StartDevice(v)
  BY <1>3, InvPause, InvSweepBatch, InvStartDevice
<1>4. CASE \E v \in Volumes, d \in VolumeState : StartSweep(v, d)
  BY <1>4, InvStartSweep
<1>5. CASE Shutdown \/ Unload \/ DetachAllNext \/ DetachAllEnds \/ Reboot
  BY <1>5, InvShutdown, InvUnload, InvDetachAllNext, InvDetachAllEnds, InvReboot
<1>6. CASE UNCHANGED vars
  BY <1>6, InvStutter
<1> QED BY <1>1, <1>2, <1>3, <1>4, <1>5, <1>6, <1>7 DEF Next

LEMMA LifeInvHolds == Spec => []LifeInv
<1>1. Init => LifeInv
  BY InvInit
<1>2. LifeInv /\ [Next]_vars => LifeInv'
  BY LifeInvStep
<1> QED BY <1>1, <1>2, PTL DEF Spec

LEMMA TypeFromInv == ASSUME LifeInv PROVE TypeOK
<1>1. ASSUME NEW o \in DOMAIN attached
      PROVE  o \in Objects /\ attached[o] \in AttachedVolume
  <2>1. PICK v \in Volumes : o = volume[v] /\ o # NoVolume
    BY DEF LifeInv, ObjectInv, BoundObjects
  <2>2. o \in Pointer
    BY <2>1 DEF LifeInv, Typed
  <2> QED BY <2>1, <2>2, BoundGood DEF GoodObject, Pointer
<1> QED BY <1>1 DEF TypeOK, LifeInv, Typed

(* A bound volume is registered, whatever happened before, unless DETACH   *)
(* has swapped out its filter_device.                                      *)
LEMMA BoundRegistered ==
    ASSUME LifeInv, NEW v \in Volumes, volume[v] # NoVolume,
           attached[volume[v]].filter
    PROVE  volume[v] \in Registered
<1>1. entries[App(v)] = volume[v] \/ entries[Nt(v)] = volume[v]
  BY DEF LifeInv, VolumeInv, BoundInv
<1> QED BY <1>1, KeyFacts DEF Registered

LEMMA RegistryFromInv == ASSUME LifeInv PROVE RegistryMatchesFilters
<1> SUFFICES ASSUME req.pc = "idle"
             PROVE  /\ \A o \in Registered : /\ attached[o].filter
                                             /\ volume[attached[o].vol] = o
                                             /\ device[attached[o].vol] = "live"
                    /\ \A v \in Volumes : volume[v] # NoVolume =>
                          /\ attached[volume[v]].cipher => vthread[v]
                          /\ volume[v] \in Registered
                                \/ ~attached[volume[v]].filter
  BY DEF RegistryMatchesFilters
<1>1. ASSUME NEW v \in Volumes, volume[v] # NoVolume
      PROVE  /\ attached[volume[v]].cipher => vthread[v]
             /\ volume[v] \in Registered \/ ~attached[volume[v]].filter
  <2>1. volume[v] \in Registered \/ ~attached[volume[v]].filter
    BY <1>1, BoundRegistered
  <2>2. attached[volume[v]].cipher => vthread[v]
    BY <1>1, BoundGood DEF GoodObject
  <2> QED BY <2>1, <2>2
<1> QED BY <1>1, RegisteredIs

LEMMA ResolveFromInv == ASSUME LifeInv PROVE ResolveFindsBound
<1>1. ASSUME NEW o \in Registered PROVE ResolveVolume(attached[o].vol) = o
  <2>1. attached[o].vol \in Volumes /\ volume[attached[o].vol] = o /\ o # NoVolume
    BY RegisteredIs
  <2>2. PICK k \in Keys : entries[k] = o
    BY DEF Registered
  <2> QED BY <2>1, <2>2, ResolveIs
<1> QED BY <1>1 DEF ResolveFindsBound

LEMMA StaysLoaded ==
    ASSUME LifeInv, [Next]_vars, phase # "unloaded", phase' = "unloaded"
    PROVE  \/ volume[OsVolume] = NoVolume \/ offset[OsVolume] = 0
           \/ ~attached[volume[OsVolume]].filter /\ dir[OsVolume] = "Encrypt"
<1>1. DetachAllEnds
  BY DEF Next, PrepareSteps, DetachSteps, Prepare, PrepareFails, PrepareBinds,
         PrepareAttachesFilter, PrepareWrites, PrepareWriteFails, PrepareOpens,
         PrepareOpenFails, Undo, Detach, DetachRemoves, DetachLockFails,
         DetachUnbinds, Attach, Pause, SweepBatch, StartDevice, StartSweep,
         Shutdown, Unload, DetachAllNext, Reboot, vars
<1>2. req.pc = "all" /\ ~HasEncryptedOsVolume
  BY <1>1 DEF DetachAllEnds
<1> SUFFICES ASSUME offset[OsVolume] # 0, volume[OsVolume] # NoVolume
             PROVE  ~attached[volume[OsVolume]].filter /\ dir[OsVolume] = "Encrypt"
  OBVIOUS
<1> DEFINE o == volume[OsVolume]
<1>3. /\ attached[o].source = "Handover" /\ attached[o].cipher
      /\ ~attached[o].stray
  BY <1>2 DEF LifeInv, OsInv, Opening
<1>4. attached[o].boundary = offset[OsVolume]
  BY <1>3, Ids, BoundGood DEF GoodObject
<1>5. offset[OsVolume] > 0
  BY Ids DEF LifeInv, Typed
<1>6. ~attached[o].filter
  <2> SUFFICES ASSUME attached[o].filter PROVE FALSE
    OBVIOUS
  <2>1. o \in Registered
    BY Ids, BoundRegistered
  <2> QED BY <1>2, <1>3, <1>4, <1>5, <2>1
          DEF HasEncryptedOsVolume, IsOsVolume, HasEncryptedData
<1>7. GivenUp(OsVolume)
  BY <1>6 DEF GivenUp
<1>8. GivenUp(OsVolume) => offset[OsVolume] = 0 \/ dir[OsVolume] = "Encrypt"
  BY ONLY LifeInv, Zenon DEF LifeInv, OsInv
<1> QED BY ONLY <1>6, <1>7, <1>8, offset[OsVolume] # 0, Zenon

(* An object that its filter keeps is as it was, but for the fields a      *)
(* handler sets.                                                           *)
LEMMA ObjectKept ==
    ASSUME LifeInv, NEW v \in Volumes, volume[v] # NoVolume,
           volume'[v] = volume[v], NEW new, NEW record, ObjectsWith(new, record),
           new = NoVolume \/ new \notin DOMAIN attached
    PROVE  attached'[volume[v]] = attached[volume[v]]
<1>1. volume[v] \in (References \ {NoVolume})' /\ volume[v] # new
  BY BoundGood DEF References
<1> QED BY <1>1 DEF ObjectsWith

(* Who is bound, under a live filter and with its thread, is served when   *)
(* it has the volume's metadata.                                           *)
LEMMA ServedNext ==
    ASSUME LifeInv', NEW v \in Volumes, volume'[v] # NoVolume,
           attached'[volume'[v]].cipher, ~attached'[volume'[v]].stray
    PROVE  Served(v)'
<1>1. GoodObject(v, attached[volume[v]])' /\ device'[v] = "live"
  BY DEF LifeInv, VolumeInv, BoundInv
<1> QED BY <1>1 DEF GoodObject, Served, HasStore

LEMMA StaysServed ==
    ASSUME LifeInv, LifeInv', [Next]_vars, ~Reboot,
           NEW v \in Volumes, Served(v), offset[v] > 0
    PROVE  \/ Served(v)'
           \/ v # OsVolume /\ req.pc = "all"
           \/ /\ req.vol = v /\ volume[v] \notin Registered
              /\ v = OsVolume => dir[v] = "Encrypt"
<1> DEFINE o == volume[v]
           a == attached[o]
<1>1. o # NoVolume /\ a.cipher /\ ~a.stray
  BY DEF Served, HasStore
<1>2. o \in DOMAIN attached /\ a \in AttachedVolume
  BY <1>1, BoundGood DEF GoodObject
<1>3. volume'[v] = o /\ attached'[o].cipher = a.cipher
         /\ attached'[o].stray = a.stray => Served(v)'
  BY <1>1, ServedNext
<1>4. ~a.filter => /\ o \notin Registered
                   /\ v = OsVolume => dir[v] = "Encrypt"
  <2> SUFFICES ASSUME ~a.filter
               PROVE  /\ o \notin Registered
                      /\ v = OsVolume => dir[v] = "Encrypt"
    OBVIOUS
  <2>1. o \notin Registered
    BY RegisteredIs
  <2>2. GivenUp(v)
    BY <1>1 DEF GivenUp
  <2> QED BY <2>1, <2>2 DEF LifeInv, OsInv
<1>5. volume \in [Volumes -> Pointer]
  BY DEF LifeInv, Typed
<1>6. ASSUME NEW w \in Volumes, w # v, NEW p, volume' = [volume EXCEPT ![w] = p],
             NEW new, NEW record, ObjectsWith(new, record),
             new = NoVolume \/ new = FreshObject(w)
      PROVE  Served(v)'
  <2>1. volume'[v] = o
    BY <1>5, <1>6
  <2>2. new = NoVolume \/ new \notin DOMAIN attached
    BY <1>6, FreshIs
  <2>3. attached'[o] = a
    BY <1>1, <1>6, <2>1, <2>2, ObjectKept
  <2> QED BY <1>3, <2>1, <2>3
<1>7. req.pc \in {"add", "fallback", "write", "open", "lock"} =>
         req.vol \in Volumes
  BY DEF LifeInv, RequestInv
<1>8. CASE PrepareBinds
  <2>1. /\ req.pc = "add" /\ volume' = [volume EXCEPT ![req.vol] = FreshObject(req.vol)]
        /\ ObjectsWith(FreshObject(req.vol), Provisional(req.vol))
    BY <1>8 DEF PrepareBinds, Bind
  <2>2. CASE req.vol = v
    <3>1. ~a.filter
      BY <1>1, <2>1, <2>2 DEF LifeInv, RequestInv
    <3> QED BY <1>4, <2>2, <3>1
  <2>3. CASE req.vol # v
    BY <1>6, <1>7, <2>1, <2>3
  <2> QED BY <2>2, <2>3
<1>9. CASE PrepareAttachesFilter
  <2>1. /\ req.pc = "fallback"
        /\ volume' = [volume EXCEPT ![req.vol] = FreshObject(req.vol)]
        /\ ObjectsWith(FreshObject(req.vol), Provisional(req.vol))
    BY <1>9 DEF PrepareAttachesFilter, Bind
  <2>2. req.vol # v
    BY <1>1, <2>1 DEF LifeInv, RequestInv
  <2> QED BY <1>6, <1>7, <2>1, <2>2
<1>10. CASE \E stray \in BOOLEAN : PrepareOpens(stray)
  <2>1. PICK stray \in BOOLEAN : PrepareOpens(stray)
    BY <1>10
  <2>2. /\ req.pc = "open"
        /\ volume' = [volume EXCEPT ![req.vol] = FreshObject(req.vol)]
        /\ ObjectsWith(FreshObject(req.vol),
                       Complete(req.vol, SourceOf(req.vol), "Idle", stray))
    BY <2>1 DEF PrepareOpens, Bind
  <2>3. req.vol # v
    BY <1>1, <2>2 DEF LifeInv, RequestInv
  <2> QED BY <1>6, <1>7, <2>2, <2>3
<1>11. CASE PrepareWriteFails \/ PrepareOpenFails
  <2>1. /\ req.pc \in {"write", "open"}
        /\ volume' = [volume EXCEPT ![req.vol] = NoVolume]
        /\ ObjectsWith(NoVolume, NoVolume)
    BY <1>11 DEF PrepareWriteFails, PrepareOpenFails, Undo, DetachFilter
  <2>2. req.vol # v
    BY <1>1, <2>1 DEF LifeInv, RequestInv
  <2> QED BY <1>6, <1>7, <2>1, <2>2
<1>12. CASE DetachUnbinds
  <2>1. /\ req.pc = "lock" /\ volume' = [volume EXCEPT ![req.vol] = NoVolume]
        /\ ObjectsWith(NoVolume, NoVolume)
    BY <1>12 DEF DetachUnbinds, Unbind
  <2>2. CASE req.vol = v
    <3>1. entries[App(v)] = NoVolume /\ entries[Nt(v)] = NoVolume
      BY <2>1, <2>2 DEF LifeInv, RequestInv
    <3>2. ~a.filter
      BY <1>1, <3>1 DEF LifeInv, VolumeInv, BoundInv
    <3> QED BY <1>4, <2>2, <3>2
  <2>3. CASE req.vol # v
    BY <1>6, <1>7, <2>1, <2>3
  <2> QED BY <2>2, <2>3
<1>13. CASE DetachAllNext
  <2>1. PICK w \in req.todo :
           /\ req.pc = "all" /\ volume' = [volume EXCEPT ![w] = NoVolume]
           /\ ObjectsWith(NoVolume, NoVolume)
    BY <1>13 DEF DetachAllNext, DetachFilter
  <2>2. w \in Volumes /\ w # OsVolume
    BY <2>1 DEF LifeInv, OsInv, Typed, Request
  <2>3. CASE w = v
    BY <2>1, <2>2, <2>3
  <2>4. CASE w # v
    BY <1>6, <2>1, <2>2, <2>4
  <2> QED BY <2>3, <2>4
<1>14. CASE \E w \in Volumes, stray \in BOOLEAN : Attach(w, stray)
  <2>1. PICK w \in Volumes, stray \in BOOLEAN : Attach(w, stray)
    BY <1>14
  <2>2. /\ entries[App(w)] # NoVolume /\ ~attached[entries[App(w)]].cipher
        /\ volume' = [volume EXCEPT ![w] = FreshObject(w)]
        /\ ObjectsWith(FreshObject(w), Complete(w, "Ioctl", "Idle", stray))
    BY <2>1 DEF Attach, Bind
  <2>3. entries[App(w)] = volume[w]
    BY <2>2 DEF LifeInv, VolumeInv, EntryInv
  <2>4. w # v
    BY <1>1, <2>2, <2>3
  <2> QED BY <1>6, <2>2, <2>4
<1>15. CASE \E w \in Volumes : StartDevice(w)
  <2>1. PICK w \in Volumes : StartDevice(w)
    BY <1>15
  <2>2. /\ volume[w] = NoVolume /\ volume' = [volume EXCEPT ![w] = FreshObject(w)]
        /\ ObjectsWith(FreshObject(w), Complete(w, "Handover",
                                        StateTowards(dir[w], offset[w]), FALSE))
    BY <2>1 DEF StartDevice, Bind
  <2>3. w # v
    BY <1>1, <2>2
  <2> QED BY <1>6, <2>2, <2>3
<1>16. CASE DetachLockFails
  <2>1. volume' = volume /\ ObjectsWith(NoVolume, NoVolume)
    BY <1>16 DEF DetachLockFails
  <2>2. attached'[o] = a
    BY <1>1, <2>1, ObjectKept
  <2> QED BY <1>3, <2>1, <2>2
<1>17. CASE \/ \E w \in Volumes : Pause(w) \/ SweepBatch(w)
            \/ \E w \in Volumes, d \in VolumeState : StartSweep(w, d)
            \/ DetachRemoves \/ Shutdown
  <2>1. volume'[v] = o
    BY <1>17 DEF Pause, SweepBatch, StartSweep, DetachRemoves, Shutdown
  <2>2. attached'[o].cipher = a.cipher /\ attached'[o].stray = a.stray
    <3>1. ASSUME NEW x, NEW e, NEW b,
                 \/ attached' = [attached EXCEPT ![x].engine = e]
                 \/ attached' = [attached EXCEPT ![x].filter = e]
                 \/ attached' = [attached EXCEPT ![x].boundary = b,
                                                ![x].engine = e]
          PROVE  attached'[o].cipher = a.cipher /\ attached'[o].stray = a.stray
      BY <1>2, <3>1 DEF AttachedVolume
    <3>2. CASE \E w \in Volumes : Pause(w)
      BY <3>1, <3>2 DEF Pause
    <3>3. CASE \E w \in Volumes, d \in VolumeState : StartSweep(w, d)
      BY <3>1, <3>3 DEF StartSweep
    <3>4. CASE \E w \in Volumes : SweepBatch(w)
      <4>1. PICK w \in Volumes : SweepBatch(w)
        BY <3>4
      <4>2. \E e, b : attached' = [attached EXCEPT ![volume[w]].boundary = b,
                                                   ![volume[w]].engine = e]
        BY <4>1, Zenon DEF SweepBatch
      <4> QED BY <3>1, <4>2
    <3>5. CASE DetachRemoves
      BY <3>1, <3>5 DEF DetachRemoves
    <3>6. CASE Shutdown
      BY <1>2, <3>6 DEF Shutdown, AttachedVolume
    <3> QED BY <1>17, <3>2, <3>3, <3>4, <3>5, <3>6
  <2> QED BY <1>3, <2>1, <2>2
<1>18. CASE \/ \E w \in Volumes, block \in BOOLEAN, vmk \in BOOLEAN :
                 Prepare(w, block, vmk)
            \/ PrepareFails \/ PrepareWrites
            \/ (\E w \in Volumes : Detach(w))
            \/ Unload \/ DetachAllEnds \/ UNCHANGED vars
  <2>1. volume' = volume /\ attached' = attached
    BY <1>18 DEF Prepare, PrepareFails, PrepareWrites, Detach, Unload,
                 DetachAllEnds, session, vars
  <2> QED BY <1>3, <2>1
<1> QED BY <1>8, <1>9, <1>10, <1>11, <1>12, <1>13, <1>14, <1>15, <1>16, <1>17,
           <1>18 DEF Next, PrepareSteps, DetachSteps

-----------------------------------------------------------------------------
(***************************************************************************)
(* Theorems.                                                               *)
(***************************************************************************)
(* The registry, the filters' extensions, the AttachedVolume objects and   *)
(* the metadata keep their types in every order of PREPARE, ATTACH,        *)
(* DETACH, sweeps, shutdowns and restarts; in particular two identities    *)
(* per volume are enough for the Arcs of registry.rs.                      *)
THEOREM LifecycleTypeCorrect == Spec => []TypeOK
BY LifeInvHolds, TypeFromInv, PTL

(* Between requests the registry and the filters' device extensions name   *)
(* the same volumes, however PREPARE, ATTACH, DETACH, DETACH_ALL and the   *)
(* handover mount were ordered and wherever they failed.                   *)
THEOREM RegistryAgrees == Spec => []RegistryMatchesFilters
BY LifeInvHolds, RegistryFromInv, PTL

(* resolve_volume finds what the filter serves, under whichever key the    *)
(* volume was registered.                                                  *)
THEOREM ResolveIsRight == Spec => []ResolveFindsBound
BY LifeInvHolds, ResolveFromInv, PTL

(* PREPARE never takes a filter from a registered volume: what it binds    *)
(* over is nothing, as the contract of filter_bind_volume has it, or a     *)
(* volume whose DETACH has failed at the lock.                             *)
THEOREM BindMeetsContract == Spec => []BindsOnlyUnbound
<1>1. LifeInv => BindsOnlyUnbound
  BY DEF LifeInv, RequestInv, BindsOnlyUnbound
<1> QED BY <1>1, LifeInvHolds, PTL

(* driver_unload never ends with the driver unloaded over an encrypted OS  *)
(* volume that is in the registry, and of the others only over one that    *)
(* DETACH let pass at boundary 0, with its encryption under way, and could *)
(* not lock.                                                               *)
THEOREM UnloadIsSafe == Spec => EncryptedOsVolumeStaysLoaded
<1>1. LifeInv /\ [Next]_vars =>
         [phase # "unloaded" /\ phase' = "unloaded" =>
             \/ volume[OsVolume] = NoVolume \/ offset[OsVolume] = 0
             \/ ~attached[volume[OsVolume]].filter
                   /\ dir[OsVolume] = "Encrypt"]_vars
  BY StaysLoaded
<1> QED BY <1>1, LifeInvHolds, PTL DEF Spec, EncryptedOsVolumeStaysLoaded

(* No handler takes the cipher, the thread or the filter away from an      *)
(* encrypted volume that is registered, but for DETACH_ALL, which takes    *)
(* them from data volumes; a volume that DETACH has removed loses them to  *)
(* that request or to a later PREPARE of it, the OS volume only while it   *)
(* is being encrypted.                                                     *)
THEOREM EncryptedVolumeIsServed == Spec => EncryptedStaysServed
<1>1. LifeInv /\ LifeInv' /\ [Next]_vars =>
         [Reboot \/ \A v \in Volumes :
             Served(v) /\ offset[v] > 0
                 => \/ Served(v)'
                    \/ v # OsVolume /\ req.pc = "all"
                    \/ /\ req.vol = v /\ volume[v] \notin Registered
                       /\ v = OsVolume => dir[v] = "Encrypt"]_vars
  <2> SUFFICES ASSUME LifeInv, LifeInv', [Next]_vars, ~Reboot,
                      NEW v \in Volumes, Served(v), offset[v] > 0
               PROVE  \/ Served(v)'
                      \/ v # OsVolume /\ req.pc = "all"
                      \/ /\ req.vol = v /\ volume[v] \notin Registered
                         /\ v = OsVolume => dir[v] = "Encrypt"
    OBVIOUS
  <2> QED BY StaysServed
<1> QED BY <1>1, LifeInvHolds, PTL DEF Spec, EncryptedStaysServed

=============================================================================
