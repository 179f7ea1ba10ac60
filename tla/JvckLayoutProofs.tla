-------------------------- MODULE JvckLayoutProofs --------------------------
(***************************************************************************)
(* Theorems about JvckLayout that hold for every size of the volume and of *)
(* the sector, every set of layouts and every number of power losses, as   *)
(* long as EnsureJvckMetadata is not called on a bound volume.             *)
(***************************************************************************)
EXTENDS JvckLayout, NatLemmas, SequenceTheorems, TLAPS

-----------------------------------------------------------------------------
(***************************************************************************)
(* The inductive invariant.                                                *)
(***************************************************************************)
MetaPlaces(l) ==
    {metadata_sector_lbas(VolumeSectors, l)[k] : k \in 1 .. replica_count(l)}

VendorPlace(l, i, rel) == vendor_data_base_lba_at(VolumeSectors, l, i) + rel

(* Where the file system begins on the raw volume. *)
Base == made.use_header * replica_sectors(made)

Kinds  == {"idle", "prepare", "bind", "ensure", "open", "seal", "vendor"}
Writes == [at : SUBSET Sectors, put : SectorContents, replica : Nat,
           rels : SUBSET Nat]

Typed ==
    /\ disk \in [Sectors -> SectorContents]
    /\ \E k \in 0 .. VolumeSectors : files \in [0 .. k - 1 -> Values]
    /\ mounted \in BOOLEAN /\ bound \in BOOLEAN
    /\ geometry \in [offset_sector : Nat, data_sectors : Nat]
    /\ store \in [open : BOOLEAN, layout : Layouts \cup {NoLayout},
                  reserved : Values]
    /\ made \in Layouts \cup {NoLayout}
    /\ task \in [op : Kinds, layout : Layouts \cup {NoLayout},
                 todo : Seq(Writes)]
    /\ told \subseteq Values
    /\ crashes \in 0 .. MaxCrashes

(* The layout of the first preparation stays; the open store is that of    *)
(* this layout, bound to its geometry.                                     *)
StoreInv ==
    /\ made # NoLayout =>
          /\ made \in Layouts /\ made.metadata_size > 0
          /\ replica_count(made) * replica_sectors(made) <= VolumeSectors
    /\ store.open =>
          /\ bound
          /\ made # NoLayout /\ store.layout = made
          /\ compute_geometry_ok(VolumeSectors, made)
          /\ geometry = compute_geometry(VolumeSectors, made)
          /\ store.reserved \in told
          /\ task.op \in {"idle", "seal", "vendor"}

(* Every Metadata block on the volume is a replica of this layout. *)
BlockInv ==
    \A a \in Sectors :
        verify_crc(disk[a]) =>
            /\ made # NoLayout
            /\ a \in MetaPlaces(made)
            /\ \E r \in told : disk[a] = Metadata(made, r)

SealWrite(l, r, a) ==
    [at |-> {a}, put |-> Metadata(l, r), replica |-> 0, rels |-> {}]

(* The replicas are written, or still to be written. *)
Sealing(r) ==
    /\ \A k \in DOMAIN task.todo :
          \E a \in MetaPlaces(made) : task.todo[k] = SealWrite(made, r, a)
    /\ \A a \in MetaPlaces(made) :
          \/ disk[a] = Metadata(made, r)
          \/ \E k \in DOMAIN task.todo : task.todo[k].at = {a}

VendorWrites ==
    \A k \in DOMAIN task.todo :
        \E i \in Nat, rel \in Nat, n \in Nat, v \in Values :
           /\ vendor_data_lba_checked(made, i, rel, n)
           /\ task.todo[k] = VendorWrite(made, i, rel, n, v)

TaskInv ==
    /\ task.op \in {"idle", "bind", "open"} => task.todo = <<>>
    /\ task.op \in {"prepare", "bind", "ensure"} => ~bound /\ made # NoLayout
    /\ task.op = "open" => bound
    /\ task.op = "bind" => task.layout.use_header = made.use_header
    /\ task.op \in {"prepare", "ensure"} =>
          task.layout = made /\ Blank \in told /\ Sealing(Blank)
    /\ task.op = "seal" => store.open /\ Sealing(store.reserved)
    /\ task.op = "vendor" => store.open /\ VendorWrites

(* The file system is not larger than what was reserved for the replicas,  *)
(* or than the data region of the volume that opened.                      *)
FitsInv ==
    files # <<>> /\ made # NoLayout =>
        \/ made.use_header = 0 /\ FileSystemSize <= targetSectors(made)
        \/ /\ compute_geometry_ok(VolumeSectors, made)
           /\ FileSystemSize <=
                 VolumeSectors - replica_count(made) * replica_sectors(made)

(* Its sectors are where the data region begins, and nowhere else. *)
PlaceInv ==
    /\ \A s \in DOMAIN files :
          Base + s \in Sectors /\ disk[Base + s] = File(s, files[s])
    /\ \A a \in Sectors :
          disk[a][1] = "file" => files # <<>> /\ a = Base + disk[a][2]

MountInv == mounted => files # <<>> /\ offset = Base

(* The vendor data that was written is in the vendor sectors of its        *)
(* replica.                                                                *)
VendInv ==
    \A p \in DOMAIN vend :
        \E i \in Nat, rel \in Nat :
           /\ p = <<i, rel>>
           /\ made # NoLayout /\ compute_geometry_ok(VolumeSectors, made)
           /\ i < replica_count(made) /\ rel + 1 < replica_sectors(made)
           /\ disk[VendorPlace(made, i, rel)] = Vendor(vend[p])

DataInv == FitsInv /\ PlaceInv /\ VendInv

LayoutInv == Typed /\ StoreInv /\ BlockInv /\ TaskInv /\ DataInv /\ MountInv

-----------------------------------------------------------------------------
(***************************************************************************)
(* Arithmetic of the layout.                                               *)
(***************************************************************************)
LEMMA MulMono ==
    ASSUME NEW a \in Nat, NEW b \in Nat, NEW c \in Nat, a <= b
    PROVE  a * c <= b * c /\ a * c \in Nat /\ b * c \in Nat
OBVIOUS

LEMMA MulNext ==
    ASSUME NEW a \in Nat, NEW c \in Nat
    PROVE  (a + 1) * c = a * c + c /\ a * c \in Nat
OBVIOUS

LEMMA MulSum ==
    ASSUME NEW a \in Nat, NEW b \in Nat, NEW c \in Nat
    PROVE  (a + b) * c = a * c + b * c /\ a * c \in Nat /\ b * c \in Nat
OBVIOUS

LEMMA LayoutFacts ==
    ASSUME NEW l \in Layouts \cup {NoLayout}
    PROVE  /\ l.use_header \in Nat /\ l.use_footer \in Nat
           /\ l.metadata_size \in Nat
           /\ replica_sectors(l) \in Nat
           /\ replica_count(l) \in Nat
           /\ replica_count(l) = l.use_header + l.use_footer
           /\ replica_count(l) * replica_sectors(l) =
                l.use_header * replica_sectors(l)
                  + l.use_footer * replica_sectors(l)
           /\ l.use_header * replica_sectors(l) \in Nat
           /\ l.use_footer * replica_sectors(l) \in Nat
<1>1. /\ l.use_header \in Nat /\ l.use_footer \in Nat
      /\ l.metadata_size \in Nat
  BY LayoutAssumption DEF NoLayout
<1>2. replica_sectors(l) \in Nat
  BY <1>1, LayoutAssumption DEF replica_sectors
<1>3. replica_count(l) = l.use_header + l.use_footer
      /\ replica_count(l) \in Nat
  BY <1>1 DEF replica_count
<1>4. /\ (l.use_header + l.use_footer) * replica_sectors(l) =
            l.use_header * replica_sectors(l)
              + l.use_footer * replica_sectors(l)
      /\ l.use_header * replica_sectors(l) \in Nat
      /\ l.use_footer * replica_sectors(l) \in Nat
  BY <1>1, <1>2, MulSum
<1> QED BY <1>1, <1>2, <1>3, <1>4

(* The store, PREPARE and the SDK compute the same places. *)
LEMMA PlacesAgree ==
    ASSUME NEW l \in Layouts
    PROVE  /\ replica_lbas(l) = metadata_sector_lbas(VolumeSectors, l)
           /\ metadataSectorLBAs(VolumeSectors, l)
                = metadata_sector_lbas(VolumeSectors, l)
<1> DEFINE h == l.use_header
           f == l.use_footer
           rs == replica_sectors(l)
<1>1. h \in Nat /\ f \in Nat /\ rs \in Nat /\ VolumeSectors \in Nat
  BY LayoutFacts, LayoutAssumption
<1>2. rs = l.metadata_size \div SectorSize
  BY DEF replica_sectors
<1>3. replica_count(l) = h + f
  BY DEF replica_count
<1>4. replica_lbas(l) = metadata_sector_lbas(VolumeSectors, l)
  <2> HIDE DEF h, f, rs
  <2>1. \A k \in 1 .. h + f : k - 1 - h = k - h - 1
    BY <1>1
  <2> QED BY <1>2, <1>3, <2>1 DEF replica_lbas, metadata_sector_lbas, h, f, rs
<1>5. metadataSectorLBAs(VolumeSectors, l)
        = metadata_sector_lbas(VolumeSectors, l)
  <2> DEFINE A == [i \in 1 .. h |-> (i - 1) * rs]
             B == [j \in 1 .. f |->
                      (VolumeSectors - f * rs) + (j - 1) * rs + rs - 1]
             C == [k \in 1 .. h + f |->
                      IF k <= h THEN (k - 1) * rs
                      ELSE VolumeSectors - f * rs + (k - h - 1) * rs + rs - 1]
  <2>1. metadataSectorLBAs(VolumeSectors, l) = A \o B
    BY <1>2 DEF metadataSectorLBAs
  <2>2. metadata_sector_lbas(VolumeSectors, l) = C
    BY <1>2, <1>3 DEF metadata_sector_lbas
  <2> HIDE DEF h, f, rs
  <2>3. \A i \in 1 .. h : A[i] \in Int
    BY <1>1
  <2>4. \A j \in 1 .. f : B[j] \in Int
    BY <1>1
  <2>5. A \in Seq(Int) /\ Len(A) = h
    BY <1>1, <2>3
  <2>6. B \in Seq(Int) /\ Len(B) = f
    BY <1>1, <2>4
  <2>7. /\ A \o B \in Seq(Int) /\ Len(A \o B) = h + f
        /\ \A k \in 1 .. h + f :
              (A \o B)[k] = IF k <= h THEN A[k] ELSE B[k - h]
    <3> HIDE DEF A, B
    <3> QED BY <1>1, <2>5, <2>6
  <2>8. \A k \in 1 .. h + f : (A \o B)[k] = C[k]
    <3> SUFFICES ASSUME NEW k \in 1 .. h + f PROVE (A \o B)[k] = C[k]
      OBVIOUS
    <3>1. CASE k <= h
      <4>1. k \in 1 .. h
        BY <1>1, <3>1
      <4>2. A[k] = (k - 1) * rs
        BY <4>1
      <4> QED BY <2>7, <3>1, <4>2
    <3>2. CASE ~(k <= h)
      <4>1. k - h \in 1 .. f
        BY <1>1, <3>2
      <4>2. B[k - h] = (VolumeSectors - f * rs) + (k - h - 1) * rs + rs - 1
        BY <4>1
      <4> HIDE DEF A, B
      <4> QED BY <2>7, <3>2, <4>2
    <3> QED BY <3>1, <3>2
  <2>9. DOMAIN (A \o B) = 1 .. h + f /\ DOMAIN C = 1 .. h + f
    <3> HIDE DEF A, B
    <3> QED BY <2>7 DEF C
  <2>10. A \o B = [k \in 1 .. h + f |-> (A \o B)[k]]
    <3> HIDE DEF A, B
    <3> QED BY <2>7, LenProperties
  <2>11. A \o B = C
    <3> HIDE DEF A, B
    <3> QED BY <2>8, <2>10 DEF C
  <2> QED BY <2>1, <2>2, <2>11
<1> QED BY <1>4, <1>5

(* Replica k of the first kind or of the second. *)
LEMMA MetaPlaceIs ==
    ASSUME NEW l \in Layouts \cup {NoLayout}, NEW a \in MetaPlaces(l)
    PROVE  \E k \in Nat :
              LET rs == replica_sectors(l)
              IN  \/ k < l.use_header /\ a = k * rs
                  \/ /\ k < l.use_footer
                     /\ a = VolumeSectors - l.use_footer * rs + k * rs + rs - 1
<1> DEFINE rs == replica_sectors(l)
<1>1. PICK k \in 1 .. replica_count(l) :
         a = metadata_sector_lbas(VolumeSectors, l)[k]
  BY DEF MetaPlaces
<1>2. a = IF k <= l.use_header THEN (k - 1) * rs
          ELSE VolumeSectors - l.use_footer * rs + (k - l.use_header - 1) * rs
                 + rs - 1
  BY <1>1 DEF metadata_sector_lbas
<1>3. k \in Nat \ {0} /\ k <= l.use_header + l.use_footer
  BY <1>1, LayoutFacts
<1> HIDE DEF rs
<1>4. CASE k <= l.use_header
  <2>1. k - 1 \in Nat /\ k - 1 < l.use_header /\ a = (k - 1) * rs
    BY <1>2, <1>3, <1>4, LayoutFacts
  <2> QED BY <2>1 DEF rs
<1>5. CASE ~(k <= l.use_header)
  <2>1. k - l.use_header - 1 \in Nat /\ k - l.use_header - 1 < l.use_footer
    BY <1>3, <1>5, LayoutFacts
  <2>2. a = VolumeSectors - l.use_footer * rs + (k - l.use_header - 1) * rs
              + rs - 1
    BY <1>2, <1>5
  <2> QED BY <2>1, <2>2 DEF rs
<1> QED BY <1>4, <1>5

(* A layout that is not larger than the volume has its Metadata blocks on  *)
(* the volume.                                                             *)
LEMMA MetaInVolume ==
    ASSUME NEW l \in Layouts \cup {NoLayout},
           replica_count(l) * replica_sectors(l) <= VolumeSectors
    PROVE  MetaPlaces(l) \subseteq Sectors
<1> SUFFICES ASSUME NEW a \in MetaPlaces(l) PROVE a \in Sectors
  OBVIOUS
<1> DEFINE rs == replica_sectors(l)
           h == l.use_header
           f == l.use_footer
<1>1. /\ rs \in Nat /\ h \in Nat /\ f \in Nat /\ VolumeSectors \in Nat \ {0}
      /\ h * rs \in Nat /\ f * rs \in Nat /\ h * rs + f * rs <= VolumeSectors
  BY LayoutFacts, LayoutAssumption
<1>2. PICK k \in Nat :
         \/ k < h /\ a = k * rs
         \/ k < f /\ a = VolumeSectors - f * rs + k * rs + rs - 1
  BY MetaPlaceIs
<1> HIDE DEF rs, h, f
<1>3. k * rs \in Nat /\ (k + 1) * rs = k * rs + rs
  BY <1>1, <1>2, MulNext
<1>4. CASE k < h /\ a = k * rs
  <2>1. (k + 1) * rs <= h * rs
    BY <1>1, <1>2, <1>4, MulMono
  <2>2. CASE rs = 0
    BY <1>1, <1>3, <1>4, <2>1, <2>2 DEF Sectors
  <2>3. CASE rs # 0
    BY <1>1, <1>3, <1>4, <2>1, <2>3 DEF Sectors
  <2> QED BY <2>2, <2>3
<1>5. CASE k < f /\ a = VolumeSectors - f * rs + k * rs + rs - 1
  <2>1. (k + 1) * rs <= f * rs
    BY <1>1, <1>2, <1>5, MulMono
  <2>2. CASE rs = 0
    <3>1. f * rs = 0 /\ k * rs = 0
      BY <1>1, <1>2, <2>2
    <3> QED BY <1>1, <1>5, <2>2, <3>1 DEF Sectors
  <2>3. CASE rs # 0
    BY <1>1, <1>3, <1>5, <2>1, <2>3 DEF Sectors
  <2> QED BY <2>2, <2>3
<1> QED BY <1>2, <1>4, <1>5

(* The data region of a volume that opens is on the volume, and no         *)
(* Metadata block is in it.                                                *)
LEMMA DataApart ==
    ASSUME NEW l \in Layouts, compute_geometry_ok(VolumeSectors, l),
           NEW s \in Nat,
           s < VolumeSectors - replica_count(l) * replica_sectors(l)
    PROVE  LET a == l.use_header * replica_sectors(l) + s
           IN  a \in Sectors /\ a \notin MetaPlaces(l)
<1> DEFINE rs == replica_sectors(l)
           h == l.use_header
           f == l.use_footer
           a == h * rs + s
<1>1. /\ rs \in Nat /\ h \in Nat /\ f \in Nat /\ VolumeSectors \in Nat \ {0}
      /\ h * rs \in Nat /\ f * rs \in Nat /\ s < VolumeSectors - (h * rs + f * rs)
      /\ rs > 0
  BY LayoutFacts, LayoutAssumption DEF compute_geometry_ok
<1> SUFFICES a \in Sectors /\ a \notin MetaPlaces(l)
  OBVIOUS
<1>2. ASSUME a \in MetaPlaces(l) PROVE FALSE
  <2>1. PICK k \in Nat :
           \/ k < h /\ a = k * rs
           \/ k < f /\ a = VolumeSectors - f * rs + k * rs + rs - 1
    BY <1>2, MetaPlaceIs
  <2> HIDE DEF rs, h, f
  <2>2. k * rs \in Nat /\ (k + 1) * rs = k * rs + rs
    BY <1>1, MulNext
  <2>3. CASE k < h /\ a = k * rs
    <3>1. (k + 1) * rs <= h * rs
      BY <1>1, <2>3, MulMono
    <3> QED BY <1>1, <2>2, <2>3, <3>1
  <2>4. CASE k < f /\ a = VolumeSectors - f * rs + k * rs + rs - 1
    BY <1>1, <2>2, <2>4
  <2> QED BY <2>1, <2>3, <2>4
<1>3. a \in Sectors
  <2> HIDE DEF rs, h, f
  <2> QED BY <1>1 DEF Sectors
<1> QED BY <1>2, <1>3

LEMMA DivFloor ==
    ASSUME NEW x \in Int, NEW d \in Nat \ {0}
    PROVE  x \div d \in Int /\ (x \div d) * d <= x
OBVIOUS

LEMMA MulCancel ==
    ASSUME NEW a \in Int, NEW b \in Int, NEW c \in Nat \ {0}, a * c <= b * c
    PROVE  a <= b
<1>1. ASSUME b < a PROVE FALSE
  <2>1. a - b - 1 \in Nat
    BY <1>1
  <2>2. (a - b - 1) * c >= 0
    BY <2>1
  <2>3. (a - b - 1) * c = a * c - b * c - c
    OBVIOUS
  <2>4. a * c \in Int /\ b * c \in Int
    OBVIOUS
  <2> QED BY <2>2, <2>3, <2>4
<1> QED BY <1>1

(* The tail reserved in bytes is at least what the footer replicas take in *)
(* whole sectors, and a sector if there is a replica at all.               *)
LEMMA TargetInFront ==
    ASSUME NEW l \in Layouts
    PROVE  /\ targetSectors(l) \in Int
           /\ targetSectors(l) <=
                VolumeSectors - l.use_footer * replica_sectors(l)
           /\ l.use_footer > 0 /\ l.metadata_size > 0
                => targetSectors(l) < VolumeSectors
<1> DEFINE V == VolumeSectors
           d == SectorSize
           f == l.use_footer
           m == l.metadata_size
           rs == m \div d
           q == (V * d - f * m) \div d
<1>1. V \in Nat /\ d \in Nat \ {0} /\ f \in Nat /\ m \in Nat
  BY LayoutFacts, LayoutAssumption
<1>2. targetSectors(l) = q /\ replica_sectors(l) = rs
  BY DEF targetSectors, replica_sectors
<1>3. rs \in Nat
  BY <1>2, LayoutFacts
<1> HIDE DEF V, d, f, m
<1>4. rs * d <= m /\ rs * d \in Nat
  BY <1>1, <1>3, DivFloor
<1>5. V * d - f * m \in Int /\ V * d \in Int /\ f * m \in Nat
  BY <1>1
<1>6. q \in Int /\ q * d <= V * d - f * m
  BY <1>1, <1>5, DivFloor
<1> HIDE DEF rs, q
<1>7. f * (rs * d) <= f * m
  BY <1>1, <1>4
<1>8. (V - f * rs) * d = V * d - f * (rs * d)
  BY <1>1, <1>3
<1>9. f * rs \in Nat /\ V - f * rs \in Int
  BY <1>1, <1>3
<1>10. q * d \in Int /\ f * (rs * d) \in Int
  BY <1>1, <1>4, <1>6
<1>11. q * d <= (V - f * rs) * d
  BY <1>5, <1>6, <1>7, <1>8, <1>10
<1>12. q <= V - f * rs
  BY <1>1, <1>6, <1>9, <1>11, MulCancel
<1>13. ASSUME f > 0, m > 0 PROVE q < V
  <2>1. f * m > 0
    BY <1>1, <1>13
  <2>2. ASSUME V <= q PROVE FALSE
    <3>1. q \in Nat
      BY <1>1, <1>6, <2>2
    <3>2. V * d <= q * d
      BY <1>1, <2>2, <3>1, MulMono
    <3> QED BY <1>5, <1>6, <1>10, <2>1, <3>2
  <2> QED BY <1>1, <1>6, <2>2
<1>14. targetSectors(l) < VolumeSectors \/ ~(l.use_footer > 0 /\ l.metadata_size > 0)
  BY <1>2, <1>13 DEF V, f, m
<1> QED BY <1>2, <1>6, <1>12, <1>14 DEF V, f

(* No Metadata block of a layout without header replicas is in front of    *)
(* the tail that was reserved for it.                                      *)
LEMMA TargetApart ==
    ASSUME NEW l \in Layouts, l.use_header = 0, l.metadata_size > 0,
           NEW s \in Nat, s < targetSectors(l)
    PROVE  s \notin MetaPlaces(l)
<1> DEFINE rs == replica_sectors(l)
           f == l.use_footer
<1> SUFFICES ASSUME s \in MetaPlaces(l) PROVE FALSE
  OBVIOUS
<1>1. rs \in Nat /\ f \in Nat /\ VolumeSectors \in Nat \ {0} /\ f * rs \in Nat
  BY LayoutFacts, LayoutAssumption
<1>2. PICK k \in Nat :
         k < f /\ s = VolumeSectors - f * rs + k * rs + rs - 1
  BY MetaPlaceIs
<1>3. /\ targetSectors(l) \in Int
      /\ targetSectors(l) <= VolumeSectors - f * rs
      /\ targetSectors(l) < VolumeSectors
  BY <1>1, <1>2, TargetInFront
<1> HIDE DEF rs, f
<1>4. k * rs \in Nat
  BY <1>1, <1>2
<1>5. CASE rs = 0
  <2>1. f * rs = 0 /\ k * rs = 0
    BY <1>1, <1>2, <1>5
  <2> QED BY <1>1, <1>2, <1>3, <1>5, <2>1
<1>6. CASE rs # 0
  BY <1>1, <1>2, <1>3, <1>4, <1>6
<1> QED BY <1>5, <1>6

(* A vendor sector of replica i lies in the region of replica i, beside    *)
(* its Metadata block.                                                     *)
LEMMA VendorPlaceIs ==
    ASSUME NEW l \in Layouts, NEW i \in Nat, NEW rel \in Nat,
           i < replica_count(l), rel + 1 < replica_sectors(l)
    PROVE  LET rs == replica_sectors(l)
               a  == VendorPlace(l, i, rel)
           IN  \/ i < l.use_header /\ a = i * rs + 1 + rel
               \/ /\ i >= l.use_header
                  /\ i - l.use_header \in Nat /\ i - l.use_header < l.use_footer
                  /\ a = VolumeSectors - l.use_footer * rs
                           + (i - l.use_header) * rs + rel
<1>1. l.use_header \in Nat /\ l.use_footer \in Nat
      /\ replica_count(l) = l.use_header + l.use_footer
  BY LayoutFacts
<1>2. CASE i < l.use_header
  BY <1>2 DEF VendorPlace, vendor_data_base_lba_at
<1>3. CASE ~(i < l.use_header)
  BY <1>1, <1>3 DEF VendorPlace, vendor_data_base_lba_at
<1> QED BY <1>2, <1>3

(* Numbers k * rs + x with x < rs are told apart by k and x. *)
LEMMA Slots ==
    ASSUME NEW rs \in Nat, NEW k \in Nat, NEW j \in Nat,
           NEW x \in 0 .. rs - 1, NEW y \in 0 .. rs - 1,
           k * rs + x = j * rs + y
    PROVE  k = j /\ x = y
<1>1. k * rs \in Nat /\ j * rs \in Nat
  OBVIOUS
<1>2. ASSUME k < j PROVE FALSE
  <2>1. (k + 1) * rs <= j * rs /\ (k + 1) * rs = k * rs + rs
    BY <1>2, MulMono, MulNext
  <2> QED BY <1>1, <2>1
<1>3. ASSUME j < k PROVE FALSE
  <2>1. (j + 1) * rs <= k * rs /\ (j + 1) * rs = j * rs + rs
    BY <1>3, MulMono, MulNext
  <2> QED BY <1>1, <2>1
<1>4. k = j
  BY <1>2, <1>3
<1> QED BY <1>1, <1>4

(* Slot k of the header, or of the footer, is in front of its end. *)
LEMMA SlotInRegion ==
    ASSUME NEW rs \in Nat, NEW k \in Nat, NEW c \in Nat, k < c,
           NEW x \in 0 .. rs - 1
    PROVE  k * rs + x < c * rs /\ k * rs \in Nat /\ c * rs \in Nat
<1>1. (k + 1) * rs <= c * rs /\ (k + 1) * rs = k * rs + rs /\ k * rs \in Nat
      /\ c * rs \in Nat
  BY MulMono, MulNext
<1> QED BY <1>1

(* Vendor data is on the volume, beside the Metadata blocks and the data   *)
(* region.                                                                 *)
LEMMA VendorApart ==
    ASSUME NEW l \in Layouts, compute_geometry_ok(VolumeSectors, l),
           NEW i \in Nat, NEW rel \in Nat,
           i < replica_count(l), rel + 1 < replica_sectors(l)
    PROVE  /\ VendorPlace(l, i, rel) \in Sectors
           /\ VendorPlace(l, i, rel) \notin MetaPlaces(l)
           /\ \A s \in Nat :
                 s < VolumeSectors - replica_count(l) * replica_sectors(l)
                   => VendorPlace(l, i, rel)
                        # l.use_header * replica_sectors(l) + s
<1> DEFINE rs == replica_sectors(l)
           h == l.use_header
           f == l.use_footer
           V == VolumeSectors
           a == VendorPlace(l, i, rel)
<1>1. /\ rs \in Nat /\ h \in Nat /\ f \in Nat /\ V \in Nat \ {0}
      /\ h * rs \in Nat /\ f * rs \in Nat
      /\ replica_count(l) * rs = h * rs + f * rs
      /\ h * rs + f * rs < V
      /\ rel + 1 < rs
  BY LayoutFacts, LayoutAssumption DEF compute_geometry_ok
<1>2. \/ i < h /\ a = i * rs + 1 + rel
      \/ /\ i >= h /\ i - h \in Nat /\ i - h < f
         /\ a = V - f * rs + (i - h) * rs + rel
  BY VendorPlaceIs
<1>3. \A m \in MetaPlaces(l) :
         \E k \in Nat : \/ k < h /\ m = k * rs
                        \/ k < f /\ m = V - f * rs + k * rs + rs - 1
  BY MetaPlaceIs
<1> SUFFICES /\ a \in Sectors /\ a \notin MetaPlaces(l)
             /\ \A s \in Nat : s < V - (h * rs + f * rs) => a # h * rs + s
  BY <1>1
<1>4. Sectors = 0 .. V - 1
  BY DEF Sectors
<1> HIDE DEF rs, h, f, V, a
<1>5. CASE i < h /\ a = i * rs + 1 + rel
  <2>1. 1 + rel \in 0 .. rs - 1 /\ 0 \in 0 .. rs - 1
    BY <1>1
  <2>2. i * rs + (1 + rel) < h * rs /\ i * rs \in Nat
    BY <1>1, <1>5, <2>1, SlotInRegion
  <2>3. a \in Sectors /\ a < h * rs
    BY <1>1, <1>4, <1>5, <2>2
  <2>4. ASSUME a \in MetaPlaces(l) PROVE FALSE
    <3>1. PICK k \in Nat : \/ k < h /\ a = k * rs
                           \/ k < f /\ a = V - f * rs + k * rs + rs - 1
      BY <1>3, <2>4
    <3>2. k * rs \in Nat
      BY <1>1, <3>1
    <3>3. CASE a = k * rs
      <4>1. i * rs + (1 + rel) = k * rs + 0
        BY <1>1, <1>5, <2>2, <3>2, <3>3
      <4>2. 1 + rel = 0
        BY <1>1, <2>1, <3>1, <4>1, Slots
      <4> QED BY <4>2
    <3>4. CASE a = V - f * rs + k * rs + rs - 1
      BY <1>1, <2>3, <3>2, <3>4
    <3> QED BY <3>1, <3>3, <3>4
  <2> QED BY <1>1, <2>3, <2>4
<1>6. CASE /\ i >= h /\ i - h \in Nat /\ i - h < f
           /\ a = V - f * rs + (i - h) * rs + rel
  <2>1. rel \in 0 .. rs - 1 /\ rs - 1 \in 0 .. rs - 1
    BY <1>1
  <2>2. (i - h) * rs + rel < f * rs /\ (i - h) * rs \in Nat
    BY <1>1, <1>6, <2>1, SlotInRegion
  <2>3. a \in Sectors /\ a >= V - f * rs
    BY <1>1, <1>4, <1>6, <2>2
  <2>4. ASSUME a \in MetaPlaces(l) PROVE FALSE
    <3>1. PICK k \in Nat : \/ k < h /\ a = k * rs
                           \/ k < f /\ a = V - f * rs + k * rs + rs - 1
      BY <1>3, <2>4
    <3>2. CASE k < h /\ a = k * rs
      <4>1. k * rs + 0 < h * rs /\ k * rs \in Nat
        BY <1>1, <3>1, <3>2, SlotInRegion
      <4> QED BY <1>1, <2>3, <3>2, <4>1
    <3>3. CASE a = V - f * rs + k * rs + rs - 1
      <4>1. k * rs \in Nat
        BY <1>1, <3>1
      <4>2. (i - h) * rs + rel = k * rs + (rs - 1)
        BY <1>1, <1>6, <2>2, <3>3, <4>1
      <4>3. rel = rs - 1
        BY <1>1, <1>6, <2>1, <3>1, <4>2, Slots
      <4> QED BY <1>1, <4>3
    <3> QED BY <3>1, <3>2, <3>3
  <2> QED BY <1>1, <2>3, <2>4
<1> QED BY <1>2, <1>5, <1>6

(* Two vendor sectors have two places. *)
LEMMA VendorInjective ==
    ASSUME NEW l \in Layouts, compute_geometry_ok(VolumeSectors, l),
           NEW i \in Nat, NEW rel \in Nat,
           i < replica_count(l), rel + 1 < replica_sectors(l),
           NEW j \in Nat, NEW r2 \in Nat,
           j < replica_count(l), r2 + 1 < replica_sectors(l),
           VendorPlace(l, i, rel) = VendorPlace(l, j, r2)
    PROVE  i = j /\ rel = r2
<1> DEFINE rs == replica_sectors(l)
           h == l.use_header
           f == l.use_footer
           V == VolumeSectors
           a == VendorPlace(l, i, rel)
<1>1. /\ rs \in Nat /\ h \in Nat /\ f \in Nat /\ V \in Nat \ {0}
      /\ h * rs \in Nat /\ f * rs \in Nat
      /\ h * rs + f * rs < V
      /\ rel + 1 < rs /\ r2 + 1 < rs
  BY LayoutFacts, LayoutAssumption DEF compute_geometry_ok
<1>2. \/ i < h /\ a = i * rs + 1 + rel
      \/ /\ i >= h /\ i - h \in Nat /\ i - h < f
         /\ a = V - f * rs + (i - h) * rs + rel
  BY VendorPlaceIs
<1>3. \/ j < h /\ a = j * rs + 1 + r2
      \/ /\ j >= h /\ j - h \in Nat /\ j - h < f
         /\ a = V - f * rs + (j - h) * rs + r2
  BY VendorPlaceIs
<1> HIDE DEF rs, h, f, V, a
<1>4. /\ 1 + rel \in 0 .. rs - 1 /\ rel \in 0 .. rs - 1
      /\ 1 + r2 \in 0 .. rs - 1 /\ r2 \in 0 .. rs - 1
  BY <1>1
<1>5. ASSUME NEW k \in Nat, NEW x \in Nat, k < h, 1 + x \in 0 .. rs - 1,
             a = k * rs + 1 + x
      PROVE  a < V - f * rs
  <2>1. k * rs + (1 + x) < h * rs /\ k * rs \in Nat
    BY <1>1, <1>5, SlotInRegion
  <2> QED BY <1>1, <1>5, <2>1
<1>6. ASSUME NEW k \in Nat, NEW x \in Nat, a = V - f * rs + k * rs + x
      PROVE  a >= V - f * rs
  <2>1. k * rs \in Nat
    BY <1>1
  <2> QED BY <1>1, <1>6, <2>1
<1>7. a \in Int /\ V - f * rs \in Int
  BY <1>1, <1>2
<1>8. CASE i < h /\ a = i * rs + 1 + rel
  <2>1. a < V - f * rs
    BY <1>4, <1>5, <1>8
  <2>2. j < h /\ a = j * rs + 1 + r2
    BY <1>3, <1>6, <1>7, <2>1
  <2>3. i * rs \in Nat /\ j * rs \in Nat
    BY <1>1
  <2>4. i * rs + (1 + rel) = j * rs + (1 + r2)
    BY <1>8, <2>2, <2>3
  <2>5. i = j /\ 1 + rel = 1 + r2
    BY <1>1, <1>4, <2>4, Slots
  <2> QED BY <2>5
<1>9. CASE i >= h /\ i - h \in Nat /\ a = V - f * rs + (i - h) * rs + rel
  <2>1. a >= V - f * rs
    BY <1>6, <1>9
  <2>2. j >= h /\ j - h \in Nat /\ a = V - f * rs + (j - h) * rs + r2
    BY <1>3, <1>4, <1>5, <1>7, <2>1
  <2>3. (i - h) * rs \in Nat /\ (j - h) * rs \in Nat
    BY <1>1, <1>9, <2>2
  <2>4. (i - h) * rs + rel = (j - h) * rs + r2
    BY <1>1, <1>9, <2>2, <2>3
  <2>5. i - h = j - h /\ rel = r2
    BY <1>1, <1>4, <1>9, <2>2, <2>4, Slots
  <2> QED BY <1>1, <2>5
<1> QED BY <1>2, <1>8, <1>9

-----------------------------------------------------------------------------
(***************************************************************************)
(* Sectors, files and writes.                                              *)
(***************************************************************************)

(* What a sector holds tells which kind it is. *)
LEMMA Tags ==
    /\ \A s, v : File(s, v)[1] = "file" /\ File(s, v)[2] = s /\ File(s, v)[3] = v
    /\ \A v : Vendor(v)[1] = "vendor" /\ Vendor(v)[2] = v
    /\ \A l, r : /\ Metadata(l, r)[1] = "metadata" /\ Metadata(l, r)[2] = l
                 /\ Metadata(l, r)[3] = r
    /\ Torn[1] = "torn" /\ Junk[1] = "junk"
BY DEF File, Vendor, Metadata, Torn, Junk

LEMMA Contents ==
    /\ \A s \in Sectors, v \in Values : File(s, v) \in SectorContents
    /\ \A v \in Values : Vendor(v) \in SectorContents
    /\ \A l \in Layouts, r \in Values : Metadata(l, r) \in SectorContents
    /\ Torn \in SectorContents /\ Junk \in SectorContents
BY DEF SectorContents

(* A sector with a valid CRC is a Metadata block. *)
LEMMA BlockIs ==
    ASSUME NEW c \in SectorContents, verify_crc(c)
    PROVE  \E l \in Layouts, r \in Values : c = Metadata(l, r)
BY Tags DEF SectorContents, verify_crc

SizeOf(f) ==
    IF f = <<>> THEN 0 ELSE 1 + CHOOSE s \in DOMAIN f : s + 1 \notin DOMAIN f

LEMMA FileSystemSizeDef ==
    FileSystemSize = SizeOf(files) /\ FileSystemSize' = SizeOf(files')
BY DEF FileSystemSize, SizeOf

LEMMA SizeOfIs ==
    ASSUME NEW k \in Nat, NEW f \in [0 .. k - 1 -> Values]
    PROVE  /\ SizeOf(f) = k
           /\ f = <<>> <=> k = 0
           /\ DOMAIN f = 0 .. k - 1
<1>1. DOMAIN f = 0 .. k - 1
  OBVIOUS
<1>2. f = <<>> <=> k = 0
  <2>1. ASSUME f = <<>> PROVE k = 0
    <3>1. DOMAIN f = {}
      BY <2>1
    <3> QED BY <1>1, <3>1
  <2>2. ASSUME k = 0 PROVE f = <<>>
    <3>1. 0 .. k - 1 = 1 .. 0
      BY <2>2
    <3>2. f \in [1 .. 0 -> Values]
      BY <3>1
    <3>3. f \in Seq(Values) /\ Len(f) = 0
      BY <3>2
    <3> QED BY <3>3, EmptySeq
  <2> QED BY <2>1, <2>2
<1>3. CASE k = 0
  BY <1>2, <1>3 DEF SizeOf
<1>4. CASE k # 0
  <2>1. k - 1 \in DOMAIN f /\ (k - 1) + 1 \notin DOMAIN f
    BY <1>1, <1>4
  <2>2. \A s \in DOMAIN f : s + 1 \notin DOMAIN f => s = k - 1
    BY <1>1
  <2>3. (CHOOSE s \in DOMAIN f : s + 1 \notin DOMAIN f) = k - 1
    BY <2>1, <2>2
  <2> QED BY <1>2, <1>4, <2>3 DEF SizeOf
<1> QED BY <1>1, <1>2, <1>3, <1>4

LEMMA FileSystemSizeIs ==
    ASSUME Typed
    PROVE  \E k \in Nat :
              /\ k \in 0 .. VolumeSectors /\ files \in [0 .. k - 1 -> Values]
              /\ FileSystemSize = k /\ DOMAIN files = 0 .. k - 1
              /\ files = <<>> <=> k = 0
<1>1. PICK k \in 0 .. VolumeSectors : files \in [0 .. k - 1 -> Values]
  BY DEF Typed
<1>2. k \in Nat
  BY <1>1, LayoutAssumption
<1> QED BY <1>1, <1>2, SizeOfIs, FileSystemSizeDef

(* The writes of a re-seal, or of a first-time preparation. *)
LEMMA SealWrites ==
    ASSUME NEW l \in Layouts, NEW r \in Values,
           replica_count(l) * replica_sectors(l) <= VolumeSectors
    PROVE  LET w == BlockWrites(metadata_sector_lbas(VolumeSectors, l),
                                Metadata(l, r))
           IN  /\ w \in Seq(Writes)
               /\ \A k \in DOMAIN w :
                     \E a \in MetaPlaces(l) : w[k] = SealWrite(l, r, a)
               /\ \A a \in MetaPlaces(l) : \E k \in DOMAIN w : w[k].at = {a}
<1> DEFINE lbas == metadata_sector_lbas(VolumeSectors, l)
           w == BlockWrites(lbas, Metadata(l, r))
<1>1. DOMAIN lbas = 1 .. replica_count(l) /\ replica_count(l) \in Nat
  BY LayoutFacts DEF metadata_sector_lbas
<1>2. \A k \in DOMAIN lbas : lbas[k] \in MetaPlaces(l)
  BY <1>1 DEF MetaPlaces
<1>3. w = [k \in 1 .. replica_count(l) |-> SealWrite(l, r, lbas[k])]
  BY <1>1 DEF BlockWrites, SealWrite
<1>4. \A a \in MetaPlaces(l) : \E k \in DOMAIN lbas : a = lbas[k]
  BY <1>1 DEF MetaPlaces
<1> HIDE DEF lbas, w
<1>5. ASSUME NEW a \in MetaPlaces(l) PROVE SealWrite(l, r, a) \in Writes
  <2>1. a \in Sectors
    BY MetaInVolume
  <2> QED BY <2>1, Contents DEF SealWrite, Writes
<1>6. w \in [1 .. replica_count(l) -> Writes]
  BY <1>1, <1>2, <1>3, <1>5
<1>7. w \in Seq(Writes)
  BY <1>1, <1>6
<1>8. \A k \in DOMAIN w : w[k] = SealWrite(l, r, lbas[k])
  BY <1>3
<1>9. DOMAIN w = DOMAIN lbas
  BY <1>1, <1>3
<1>10. \A a \in MetaPlaces(l) : \E k \in DOMAIN w : w[k].at = {a}
  BY <1>4, <1>8, <1>9 DEF SealWrite
<1> QED BY <1>2, <1>7, <1>8, <1>9, <1>10 DEF w, lbas

(* The sectors of a checked write of vendor data. *)
LEMMA VendorWriteIs ==
    ASSUME NEW l \in Layouts, compute_geometry_ok(VolumeSectors, l),
           NEW i \in Nat, NEW rel \in Nat, NEW n \in Nat, NEW v \in Values,
           vendor_data_lba_checked(l, i, rel, n)
    PROVE  LET w == VendorWrite(l, i, rel, n, v)
           IN  /\ w \in Writes
               /\ w.put = Vendor(v) /\ w.replica = i
               /\ i < replica_count(l)
               /\ \A x \in w.rels : x \in Nat /\ x + 1 < replica_sectors(l)
               /\ w.at = {VendorPlace(l, i, x) : x \in w.rels}
<1> DEFINE w == VendorWrite(l, i, rel, n, v)
           b == vendor_data_base_lba_at(VolumeSectors, l, i)
<1>1. /\ w.at = b + rel .. b + rel + n - 1 /\ w.rels = rel .. rel + n - 1
      /\ w.put = Vendor(v) /\ w.replica = i
      /\ w = [at |-> w.at, put |-> w.put, replica |-> w.replica,
              rels |-> w.rels]
  BY DEF VendorWrite
<1>2. /\ replica_sectors(l) \in Nat /\ replica_sectors(l) > 0
      /\ i < replica_count(l) /\ rel + n <= replica_sectors(l) - 1
  BY LayoutFacts
     DEF vendor_data_lba_checked, vendor_data_sector_count, compute_geometry_ok
<1>3. \A x \in w.rels : x \in Nat /\ x + 1 < replica_sectors(l)
  BY <1>1, <1>2
<1>4. b \in Int
  <2>1. VolumeSectors \in Nat
    BY LayoutAssumption
  <2>2. \A y \in Int : y * replica_sectors(l) \in Int
    BY <1>2
  <2> QED BY <1>2, <2>1, <2>2, LayoutFacts DEF vendor_data_base_lba_at
<1> HIDE DEF b
<1>5. w.at = {b + x : x \in w.rels}
  <2>1. \A a \in w.at : a - b \in w.rels /\ a = b + (a - b)
    BY <1>1, <1>4
  <2>2. \A x \in w.rels : b + x \in w.at
    BY <1>1, <1>4
  <2> QED BY <2>1, <2>2
<1>6. \A x : VendorPlace(l, i, x) = b + x
  BY DEF VendorPlace, b
<1>7. w.at = {VendorPlace(l, i, x) : x \in w.rels}
  BY <1>5, <1>6
<1>8. w.at \subseteq Sectors
  BY <1>2, <1>3, <1>7, VendorApart
<1>9. w.rels \subseteq Nat
  BY <1>3
<1>10. w \in Writes
  <2>1. w.put \in SectorContents
    BY <1>1, Contents
  <2> HIDE DEF w
  <2> QED BY <1>1, <1>8, <1>9, <2>1 DEF Writes
<1> QED BY <1>1, <1>2, <1>3, <1>7, <1>10

-----------------------------------------------------------------------------
(***************************************************************************)
(* The write under way.                                                    *)
(***************************************************************************)

(* The file system is apart from the replicas. *)
LEMMA FilesApart ==
    ASSUME Typed, StoreInv, FitsInv, NEW s \in DOMAIN files
    PROVE  /\ s \in Nat /\ files # <<>>
           /\ made # NoLayout =>
                 /\ Base + s \notin MetaPlaces(made)
                 /\ compute_geometry_ok(VolumeSectors, made) =>
                      s < VolumeSectors
                            - replica_count(made) * replica_sectors(made)
<1>1. PICK k \in Nat :
         /\ k \in 0 .. VolumeSectors /\ files \in [0 .. k - 1 -> Values]
         /\ FileSystemSize = k /\ DOMAIN files = 0 .. k - 1
         /\ files = <<>> <=> k = 0
  BY FileSystemSizeIs
<1>2. k \in Nat /\ VolumeSectors \in Nat
  BY <1>1, LayoutAssumption
<1>3. FileSystemSize = k /\ DOMAIN files = 0 .. k - 1 /\ (files = <<>> <=> k = 0)
  BY <1>1
<1>4. s \in Nat /\ s < k /\ files # <<>>
  BY <1>2, <1>3
<1>5. ASSUME made # NoLayout
      PROVE  /\ Base + s \notin MetaPlaces(made)
             /\ compute_geometry_ok(VolumeSectors, made) =>
                   s < VolumeSectors
                         - replica_count(made) * replica_sectors(made)
  <2>1. made \in Layouts /\ made.metadata_size > 0
    BY <1>5 DEF StoreInv
  <2> DEFINE c == replica_count(made) * replica_sectors(made)
  <2>2. c \in Nat
    BY <2>1, LayoutFacts
  <2>3. CASE made.use_header = 0 /\ FileSystemSize <= targetSectors(made)
    <3>1. targetSectors(made) \in Int
          /\ targetSectors(made)
               <= VolumeSectors - made.use_footer * replica_sectors(made)
      BY <2>1, TargetInFront
    <3>2. Base + s = s
      BY <1>4, <2>1, <2>3, LayoutFacts DEF Base
    <3>3. s < targetSectors(made)
      BY <1>2, <1>3, <1>4, <2>3, <3>1
    <3>4. made.use_footer * replica_sectors(made) = c
      BY <2>1, <2>3, LayoutFacts
    <3>5. s < VolumeSectors - c
      <4> HIDE DEF c
      <4> QED BY <1>2, <1>4, <2>2, <3>1, <3>3, <3>4
    <3>6. s \notin MetaPlaces(made)
      BY <1>4, <2>1, <2>3, <3>3, TargetApart
    <3> QED BY <3>2, <3>5, <3>6
  <2>4. CASE compute_geometry_ok(VolumeSectors, made)
             /\ FileSystemSize <= VolumeSectors - c
    <3>1. s < VolumeSectors - c
      <4> HIDE DEF c
      <4> QED BY <1>2, <1>3, <1>4, <2>2, <2>4
    <3>2. Base + s \notin MetaPlaces(made)
      BY <1>4, <2>1, <2>4, <3>1, DataApart DEF Base
    <3> QED BY <3>1, <3>2
  <2> QED BY <1>4, <1>5, <2>3, <2>4 DEF FitsInv
<1> QED BY <1>4, <1>5

(* The two kinds of writes the operations do. *)
Pending(w) ==
    \/ \E a \in MetaPlaces(made), r \in told : w = SealWrite(made, r, a)
    \/ /\ compute_geometry_ok(VolumeSectors, made)
       /\ \E i \in Nat, rel \in Nat, n \in Nat, v \in Values :
             /\ vendor_data_lba_checked(made, i, rel, n)
             /\ w = VendorWrite(made, i, rel, n, v)

LEMMA HeadIsPending ==
    ASSUME LayoutInv, task.todo # <<>>
    PROVE  /\ Head(task.todo) \in Writes
           /\ made # NoLayout /\ made \in Layouts
           /\ Pending(Head(task.todo))
<1> USE DEF LayoutInv
<1>1. task.todo \in Seq(Writes) /\ task.op \in Kinds
  BY DEF Typed
<1>2. /\ Head(task.todo) \in Writes /\ Head(task.todo) = task.todo[1]
      /\ 1 \in DOMAIN task.todo
  BY <1>1
<1>3. task.op \in {"prepare", "ensure", "seal", "vendor"}
  BY <1>1 DEF TaskInv, Kinds
<1>4. made # NoLayout /\ made \in Layouts
  BY <1>3 DEF TaskInv, StoreInv
<1>5. CASE task.op \in {"prepare", "ensure"}
  <2>1. Sealing(Blank) /\ Blank \in told
    BY <1>5 DEF TaskInv
  <2> QED BY <1>2, <1>4, <2>1 DEF Sealing, Pending
<1>6. CASE task.op = "seal"
  <2>1. Sealing(store.reserved) /\ store.reserved \in told
    BY <1>6 DEF TaskInv, StoreInv
  <2> QED BY <1>2, <1>4, <2>1 DEF Sealing, Pending
<1>7. CASE task.op = "vendor"
  <2>1. VendorWrites /\ compute_geometry_ok(VolumeSectors, made)
    BY <1>7 DEF TaskInv, StoreInv
  <2>2. PICK i \in Nat, rel \in Nat, n \in Nat, v \in Values :
           /\ vendor_data_lba_checked(made, i, rel, n)
           /\ task.todo[1] = VendorWrite(made, i, rel, n, v)
    BY <1>2, <2>1 DEF VendorWrites
  <2>3. Pending(Head(task.todo))
    BY <1>2, <2>1, <2>2 DEF Pending
  <2> QED BY <1>2, <1>4, <2>3
<1> QED BY <1>3, <1>5, <1>6, <1>7

(* A sector it writes is no sector of the file system, and of the vendor   *)
(* data only what the write is about.                                      *)
LEMMA PendingApart ==
    ASSUME LayoutInv, made # NoLayout, NEW w, Pending(w)
    PROVE  /\ \A s \in DOMAIN files : Base + s \notin w.at
           /\ \A i \in Nat, rel \in Nat :
                 /\ compute_geometry_ok(VolumeSectors, made)
                 /\ i < replica_count(made) /\ rel + 1 < replica_sectors(made)
                 /\ VendorPlace(made, i, rel) \in w.at
                 => i = w.replica /\ rel \in w.rels
<1> USE DEF LayoutInv, DataInv
<1>1. made \in Layouts
  BY DEF StoreInv
<1>2. CASE \E a \in MetaPlaces(made), r \in told : w = SealWrite(made, r, a)
  <2>1. PICK a \in MetaPlaces(made) : w.at = {a}
    BY <1>2 DEF SealWrite
  <2> QED BY <1>1, <2>1, FilesApart, VendorApart
<1>3. ASSUME compute_geometry_ok(VolumeSectors, made),
             NEW i \in Nat, NEW rel \in Nat, NEW n \in Nat, NEW v \in Values,
             vendor_data_lba_checked(made, i, rel, n),
             w = VendorWrite(made, i, rel, n, v)
      PROVE  /\ \A s \in DOMAIN files : Base + s \notin w.at
             /\ \A j \in Nat, r2 \in Nat :
                   /\ compute_geometry_ok(VolumeSectors, made)
                   /\ j < replica_count(made) /\ r2 + 1 < replica_sectors(made)
                   /\ VendorPlace(made, j, r2) \in w.at
                   => j = w.replica /\ r2 \in w.rels
  <2>1. /\ w.replica = i /\ i < replica_count(made)
        /\ \A x \in w.rels : x \in Nat /\ x + 1 < replica_sectors(made)
        /\ w.at = {VendorPlace(made, i, x) : x \in w.rels}
    <3> DEFINE u == VendorWrite(made, i, rel, n, v)
    <3>1. /\ u.replica = i /\ i < replica_count(made)
          /\ \A x \in u.rels : x \in Nat /\ x + 1 < replica_sectors(made)
          /\ u.at = {VendorPlace(made, i, x) : x \in u.rels}
      BY <1>1, <1>3, VendorWriteIs
    <3>2. w = u
      BY <1>3
    <3> HIDE DEF u
    <3> QED BY <3>1, <3>2
  <2>2. ASSUME NEW s \in DOMAIN files, Base + s \in w.at PROVE FALSE
    <3>1. PICK x \in w.rels : Base + s = VendorPlace(made, i, x)
      BY <2>1, <2>2
    <3>2. s \in Nat
          /\ s < VolumeSectors - replica_count(made) * replica_sectors(made)
      BY <1>3, FilesApart
    <3>3. VendorPlace(made, i, x)
            # made.use_header * replica_sectors(made) + s
      BY <1>1, <1>3, <2>1, <3>2, VendorApart
    <3> QED BY <3>1, <3>3 DEF Base
  <2>3. ASSUME NEW j \in Nat, NEW r2 \in Nat,
               j < replica_count(made), r2 + 1 < replica_sectors(made),
               VendorPlace(made, j, r2) \in w.at
        PROVE  j = w.replica /\ r2 \in w.rels
    <3>1. PICK x \in w.rels : VendorPlace(made, j, r2) = VendorPlace(made, i, x)
      BY <2>1, <2>3
    <3>2. j = i /\ r2 = x
      BY <1>1, <1>3, <2>1, <2>3, <3>1, VendorInjective
    <3> QED BY <2>1, <3>2
  <2> QED BY <2>2, <2>3
<1> QED BY <1>2, <1>3 DEF Pending

(* So a write under way, or its tearing, leaves the files where they are,  *)
LEMMA PutKeepsFiles ==
    ASSUME LayoutInv, made # NoLayout, NEW w, Pending(w), NEW c,
           c[1] # "file", disk' = Put(w.at, c), UNCHANGED <<files, made>>
    PROVE  FitsInv' /\ PlaceInv'
<1> USE DEF LayoutInv, DataInv
<1>1. FitsInv'
  BY DEF FitsInv, FileSystemSize
<1>2. Base' = Base
  BY DEF Base
<1>3. \A a \in Sectors : disk'[a] = IF a \in w.at THEN c ELSE disk[a]
  BY DEF Put
<1>4. \A s \in DOMAIN files : Base + s \notin w.at
  BY PendingApart
<1>5. PlaceInv'
  BY <1>2, <1>3, <1>4 DEF PlaceInv
<1> QED BY <1>1, <1>5

(* and the vendor data that it is not about.                               *)
LEMMA PutKeepsVend ==
    ASSUME LayoutInv, made # NoLayout, NEW w, Pending(w), NEW c,
           disk' = Put(w.at, c),
           NEW p \in DOMAIN vend, p \notin {<<w.replica, r>> : r \in w.rels}
    PROVE  \E i \in Nat, rel \in Nat :
              /\ p = <<i, rel>>
              /\ compute_geometry_ok(VolumeSectors, made)
              /\ i < replica_count(made) /\ rel + 1 < replica_sectors(made)
              /\ disk'[VendorPlace(made, i, rel)] = Vendor(vend[p])
<1> USE DEF LayoutInv, DataInv
<1>1. PICK i \in Nat, rel \in Nat :
         /\ p = <<i, rel>>
         /\ compute_geometry_ok(VolumeSectors, made)
         /\ i < replica_count(made) /\ rel + 1 < replica_sectors(made)
         /\ disk[VendorPlace(made, i, rel)] = Vendor(vend[p])
  BY DEF VendInv
<1>2. VendorPlace(made, i, rel) \notin w.at
  BY <1>1, PendingApart
<1>3. VendorPlace(made, i, rel) \in Sectors
  BY <1>1, VendorApart DEF StoreInv
<1> QED BY <1>1, <1>2, <1>3 DEF Put

(* What stays when nothing is written to the volume. *)
LEMMA DataFrame ==
    ASSUME DataInv, UNCHANGED <<disk, files, made, vend>>
    PROVE  DataInv'
BY DEF DataInv, FitsInv, FileSystemSize, PlaceInv, Base, VendInv

LEMMA BlockFrame ==
    ASSUME BlockInv, UNCHANGED <<disk, made>>, told \subseteq told'
    PROVE  BlockInv'
BY DEF BlockInv

-----------------------------------------------------------------------------
(***************************************************************************)
(* Initial states.                                                         *)
(***************************************************************************)
LEMMA LayoutInvInit == Init => LayoutInv
<1> SUFFICES ASSUME Init PROVE LayoutInv
  OBVIOUS
<1> USE DEF Init
<1>1. VolumeSectors \in Nat \ {0} /\ 0 \in Sectors /\ Blank \in Values
  BY LayoutAssumption DEF Sectors
<1>2. disk \in [Sectors -> SectorContents]
  BY <1>1, Contents
<1>3. \/ files = <<>> /\ \A a \in Sectors : disk[a] = Junk
      \/ /\ files = [s \in Sectors |-> Blank]
         /\ \A a \in Sectors : disk[a] = File(a, Blank)
  <2>1. CASE disk = [s \in Sectors |-> File(s, Blank)]
    <3>1. disk[0] # Junk
      BY <1>1, <2>1, Tags
    <3> QED BY <2>1, <3>1
  <2>2. CASE disk = [s \in Sectors |-> Junk]
    BY <1>1, <2>2
  <2> QED BY <2>1, <2>2
<1>4. \E k \in 0 .. VolumeSectors : files \in [0 .. k - 1 -> Values]
  <2>1. CASE files = <<>>
    <3>1. files \in [1 .. 0 -> Values] /\ 1 .. 0 = 0 .. 0 - 1
      BY <2>1
    <3>2. files \in [0 .. 0 - 1 -> Values]
      BY <3>1
    <3>3. 0 \in 0 .. VolumeSectors
      BY <1>1
    <3> QED BY <3>2, <3>3
  <2>2. CASE files = [s \in Sectors |-> Blank]
    <3>1. files \in [0 .. VolumeSectors - 1 -> Values]
      BY <1>1, <2>2 DEF Sectors
    <3> QED BY <1>1, <3>1
  <2> QED BY <1>3, <2>1, <2>2
<1>5. Typed
  <2>1. mounted \in BOOLEAN
    OBVIOUS
  <2>2. store \in [open : BOOLEAN, layout : Layouts \cup {NoLayout},
                   reserved : Values]
    BY <1>1 DEF NoStore
  <2>3. task \in [op : Kinds, layout : Layouts \cup {NoLayout},
                  todo : Seq(Writes)]
    BY DEF Idle, Kinds
  <2>4. crashes \in 0 .. MaxCrashes
    BY LayoutAssumption
  <2> QED BY <1>1, <1>2, <1>4, <2>1, <2>2, <2>3, <2>4 DEF Typed
<1>6. StoreInv /\ TaskInv
  BY DEF StoreInv, TaskInv, NoStore, Idle
<1>7. BlockInv
  BY <1>3, Tags DEF BlockInv, verify_crc
<1>8. Base = 0 /\ offset = 0
  <2>1. replica_sectors(made) \in Nat /\ made.use_header = 0
    BY LayoutFacts DEF NoLayout
  <2> QED BY <2>1 DEF Base, offset
<1>9. \A a \in Sectors : a \in Nat
  BY <1>1 DEF Sectors
<1>10. PlaceInv
  <2>1. CASE files = <<>> /\ \A a \in Sectors : disk[a] = Junk
    <3>1. DOMAIN files = {}
      BY <2>1
    <3> QED BY <2>1, <3>1, Tags DEF PlaceInv
  <2>2. CASE /\ files = [s \in Sectors |-> Blank]
             /\ \A a \in Sectors : disk[a] = File(a, Blank)
    <3>1. DOMAIN files = Sectors /\ \A s \in Sectors : files[s] = Blank
      BY <2>2
    <3>2. files # <<>>
      <4>1. DOMAIN files # {}
        BY <1>1, <3>1
      <4> QED BY <4>1
    <3> QED BY <1>8, <1>9, <2>2, <3>1, <3>2, Tags DEF PlaceInv
  <2> QED BY <1>3, <2>1, <2>2
<1>11. FitsInv /\ MountInv /\ VendInv
  BY <1>8 DEF FitsInv, MountInv, VendInv, NoVendorData
<1> QED BY <1>5, <1>6, <1>7, <1>10, <1>11 DEF LayoutInv, DataInv

-----------------------------------------------------------------------------
(***************************************************************************)
(* The file system.                                                        *)
(***************************************************************************)

(* Neither the operations nor the blocks change. *)
LEMMA StoreFrame ==
    ASSUME StoreInv, UNCHANGED <<bound, geometry, store, made, task, told>>
    PROVE  StoreInv'
BY DEF StoreInv

LEMMA TaskFrame ==
    ASSUME StoreInv, TaskInv, UNCHANGED <<task, store, made, told, bound>>,
           made # NoLayout => \A a \in MetaPlaces(made) : disk'[a] = disk[a]
    PROVE  TaskInv'
<1>1. ASSUME NEW r, made # NoLayout, Sealing(r)
      PROVE  /\ \A k \in DOMAIN task'.todo :
                   \E a \in MetaPlaces(made') :
                      task'.todo[k] = SealWrite(made', r, a)
             /\ \A a \in MetaPlaces(made') :
                   \/ disk'[a] = Metadata(made', r)
                   \/ \E k \in DOMAIN task'.todo : task'.todo[k].at = {a}
  BY <1>1 DEF Sealing
<1>2. ASSUME task.op \in {"prepare", "ensure"} PROVE Sealing(Blank)'
  BY <1>1, <1>2 DEF TaskInv, Sealing
<1>3. ASSUME task.op = "seal" PROVE Sealing(store.reserved)'
  <2>1. Sealing(store.reserved) /\ made # NoLayout
    BY <1>3 DEF TaskInv, StoreInv
  <2> QED BY <1>1, <2>1 DEF Sealing
<1>4. VendorWrites => VendorWrites'
  BY DEF VendorWrites
<1> QED BY <1>2, <1>3, <1>4 DEF TaskInv

LEMMA IdleTask ==
    ASSUME task' = Idle
    PROVE  TaskInv' /\ task' \in [op : Kinds, layout : Layouts \cup {NoLayout},
                                  todo : Seq(Writes)]
BY DEF TaskInv, Idle, Kinds

LEMMA InvShrink ==
    ASSUME LayoutInv, NEW l \in Layouts, Shrink(l)
    PROVE  LayoutInv'
<1> USE DEF LayoutInv, DataInv
<1>1. PICK k \in Nat :
         /\ k \in 0 .. VolumeSectors /\ files \in [0 .. k - 1 -> Values]
         /\ FileSystemSize = k /\ DOMAIN files = 0 .. k - 1
         /\ files = <<>> <=> k = 0
  BY FileSystemSizeIs
<1>2. VolumeSectors \in Nat
  BY LayoutAssumption
<1> DEFINE t == targetSectors(l)
           m == IF t < k THEN t ELSE k
<1>3. t \in Int /\ t > 0
  BY TargetInFront DEF Shrink
<1> HIDE DEF t
<1>4. k # 0
  BY <1>1 DEF Shrink, MountInv
<1>5. m \in 0 .. VolumeSectors /\ m \in Nat /\ m # 0 /\ m <= k
  BY <1>1, <1>2, <1>3, <1>4
<1>6. DOMAIN files \cap (0 .. t - 1) = 0 .. m - 1
  BY <1>1, <1>3
<1>7. files' = [s \in 0 .. m - 1 |-> files[s]]
  BY <1>6 DEF Shrink, t
<1> HIDE DEF m
<1>8. \A s \in 0 .. m - 1 : s \in DOMAIN files
  BY <1>1, <1>5
<1>9. files' \in [0 .. m - 1 -> Values]
  BY <1>1, <1>7, <1>8
<1>10. FileSystemSize' = m /\ files' # <<>>
  BY <1>5, <1>9, SizeOfIs, FileSystemSizeDef
<1>11. UNCHANGED <<disk, mounted, bound, geometry, store, made, task, vend,
                   told, crashes>>
  BY DEF Shrink
<1>12. Typed'
  BY <1>5, <1>9, <1>11 DEF Typed
<1>13. StoreInv' /\ BlockInv' /\ TaskInv'
  BY <1>11, StoreFrame, BlockFrame, TaskFrame
<1>14. FitsInv'
  <2> SUFFICES ASSUME made # NoLayout PROVE FitsInv'
    BY <1>11 DEF FitsInv
  <2>1. made \in Layouts
    BY DEF StoreInv
  <2>2. /\ targetSectors(made) \in Int
        /\ VolumeSectors - replica_count(made) * replica_sectors(made) \in Int
    BY <1>2, <2>1, TargetInFront, LayoutFacts
  <2>3. \/ made.use_header = 0 /\ k <= targetSectors(made)
        \/ /\ compute_geometry_ok(VolumeSectors, made)
           /\ k <= VolumeSectors - replica_count(made) * replica_sectors(made)
    BY <1>1, <1>4 DEF FitsInv
  <2>4. \A x \in Int : k <= x => m <= x
    BY <1>5
  <2> QED BY <1>10, <1>11, <2>2, <2>3, <2>4 DEF FitsInv
<1>15. PlaceInv'
  <2>1. DOMAIN files' = 0 .. m - 1 /\ \A s \in 0 .. m - 1 : files'[s] = files[s]
    BY <1>7
  <2> QED BY <1>8, <1>10, <1>11, <2>1 DEF PlaceInv, Base
<1>16. VendInv' /\ MountInv'
  BY <1>10, <1>11 DEF VendInv, MountInv, offset, Base
<1> QED BY <1>12, <1>13, <1>14, <1>15, <1>16

(* The boot sector is where the data region begins, so a file system that  *)
(* mounts is at its place.                                                 *)
LEMMA InvMount ==
    ASSUME LayoutInv, Mount
    PROVE  LayoutInv'
<1> USE DEF LayoutInv, DataInv
<1>1. UNCHANGED <<disk, files, bound, geometry, store, made, task, vend,
                  told, crashes>> /\ mounted' = TRUE
  BY DEF Mount
<1>2. Typed' /\ StoreInv' /\ BlockInv' /\ TaskInv' /\ DataInv'
  BY <1>1, StoreFrame, BlockFrame, TaskFrame, DataFrame DEF Typed
<1>3. offset \in Nat /\ Base \in Nat
  BY LayoutFacts DEF Typed, offset, Base
<1>4. files # <<>> /\ offset \in Sectors /\ disk[offset] = File(0, files[0])
  BY <1>3 DEF Mount, shift_offset
<1>5. offset = Base
  BY <1>3, <1>4, Tags DEF PlaceInv
<1>6. MountInv'
  BY <1>1, <1>4, <1>5 DEF MountInv, offset, Base
<1> QED BY <1>2, <1>6

(* What a request of the file system leaves on the volume. *)
LEMMA WriteThroughIs ==
    ASSUME offset \in Int, NEW range \in SUBSET Int, NEW v,
           disk' = WriteThrough(range, v), Sectors \subseteq Int
    PROVE  \A a \in Sectors :
              disk'[a] = IF a - offset \in range THEN File(a - offset, v)
                         ELSE disk[a]
<1> SUFFICES ASSUME NEW a \in Sectors
             PROVE  disk'[a] = IF a - offset \in range THEN File(a - offset, v)
                               ELSE disk[a]
  OBVIOUS
<1> DEFINE here == {s \in range : shift_offset(s) = a}
<1>1. disk'[a] = IF here = {} THEN disk[a] ELSE File(CHOOSE s \in here : TRUE, v)
  BY DEF WriteThrough
<1>2. \A s \in range : s + offset = a <=> s = a - offset
  OBVIOUS
<1>3. here = IF a - offset \in range THEN {a - offset} ELSE {}
  BY <1>2 DEF shift_offset
<1> HIDE DEF here
<1>4. CASE a - offset \in range
  <2>1. here = {a - offset}
    BY <1>3, <1>4
  <2>2. (CHOOSE s \in here : TRUE) = a - offset
    BY <2>1
  <2> QED BY <1>1, <1>4, <2>1, <2>2
<1>5. CASE a - offset \notin range
  BY <1>1, <1>3, <1>5
<1> QED BY <1>4, <1>5

(* Sectors of the data region hold no replica and no vendor data. *)
LEMMA DataWrite ==
    ASSUME LayoutInv, NEW range \in SUBSET Nat, NEW v \in Values,
           disk' = WriteThrough(range, v), offset = Base,
           \A s \in range :
              /\ Base + s \in Sectors
              /\ made # NoLayout =>
                   /\ Base + s \notin MetaPlaces(made)
                   /\ compute_geometry_ok(VolumeSectors, made) =>
                        s < VolumeSectors
                              - replica_count(made) * replica_sectors(made),
           UNCHANGED <<bound, geometry, store, made, task, vend, told>>
    PROVE  /\ \A a \in Sectors :
                 disk'[a] = IF a - Base \in range THEN File(a - Base, v)
                            ELSE disk[a]
           /\ disk' \in [Sectors -> SectorContents]
           /\ StoreInv' /\ BlockInv' /\ TaskInv' /\ VendInv'
           /\ Base' = Base /\ offset' = offset /\ Base \in Nat
<1> USE DEF LayoutInv, DataInv
<1>1. Base \in Nat /\ VolumeSectors \in Nat /\ Sectors = 0 .. VolumeSectors - 1
  BY LayoutFacts, LayoutAssumption DEF Typed, Base, Sectors
<1>2. \A a \in Sectors :
         disk'[a] = IF a - Base \in range THEN File(a - Base, v) ELSE disk[a]
  <2>1. offset \in Int /\ Sectors \subseteq Int /\ range \in SUBSET Int
    BY <1>1
  <2>2. \A a \in Sectors :
           disk'[a] = IF a - offset \in range THEN File(a - offset, v)
                      ELSE disk[a]
    BY <2>1, WriteThroughIs
  <2> QED BY <2>2
<1>3. disk' \in [Sectors -> SectorContents]
  <2>1. disk' = [a \in Sectors |-> disk'[a]]
    BY DEF WriteThrough
  <2>2. ASSUME NEW a \in Sectors PROVE disk'[a] \in SectorContents
    <3>1. CASE a - Base \in range
      <4>1. a - Base \in Sectors
        BY <1>1, <3>1
      <4> QED BY <1>2, <3>1, <4>1, Contents
    <3>2. CASE a - Base \notin range
      BY <1>2, <3>2 DEF Typed
    <3> QED BY <3>1, <3>2
  <2> QED BY <2>1, <2>2
<1>4. StoreInv'
  BY StoreFrame
<1>5. BlockInv'
  BY <1>2, Tags DEF BlockInv, verify_crc
<1>6. TaskInv'
  <2>1. ASSUME made # NoLayout, NEW a \in MetaPlaces(made)
        PROVE  disk'[a] = disk[a]
    <3>1. a \in Sectors
      BY <2>1, MetaInVolume DEF StoreInv
    <3>2. a - Base \notin range
      <4>1. Base + (a - Base) = a
        BY <1>1, <3>1
      <4> QED BY <2>1, <4>1
    <3> QED BY <1>2, <3>1, <3>2
  <2> QED BY <2>1, TaskFrame
<1>7. VendInv'
  <2> SUFFICES ASSUME NEW p \in DOMAIN vend
               PROVE  \E i \in Nat, rel \in Nat :
                         /\ p = <<i, rel>>
                         /\ made # NoLayout
                         /\ compute_geometry_ok(VolumeSectors, made)
                         /\ i < replica_count(made)
                         /\ rel + 1 < replica_sectors(made)
                         /\ disk'[VendorPlace(made, i, rel)] = Vendor(vend[p])
    BY DEF VendInv
  <2>1. PICK i \in Nat, rel \in Nat :
           /\ p = <<i, rel>>
           /\ made # NoLayout /\ compute_geometry_ok(VolumeSectors, made)
           /\ i < replica_count(made) /\ rel + 1 < replica_sectors(made)
           /\ disk[VendorPlace(made, i, rel)] = Vendor(vend[p])
    BY DEF VendInv
  <2> DEFINE a == VendorPlace(made, i, rel)
  <2>2. made \in Layouts
    BY <2>1 DEF StoreInv
  <2>3. /\ a \in Sectors
        /\ \A s \in Nat :
              s < VolumeSectors - replica_count(made) * replica_sectors(made)
                => a # made.use_header * replica_sectors(made) + s
    BY <2>1, <2>2, VendorApart
  <2>4. a - Base \notin range
    <3> HIDE DEF a
    <3>1. ASSUME a - Base \in range PROVE FALSE
      <4>1. a - Base \in Nat
            /\ a - Base < VolumeSectors
                            - replica_count(made) * replica_sectors(made)
        BY <2>1, <3>1
      <4>2. a # Base + (a - Base)
        BY <2>3, <4>1 DEF Base
      <4> QED BY <1>1, <2>3, <4>2
    <3> QED BY <3>1
  <2>5. disk'[a] = Vendor(vend[p])
    BY <1>2, <2>1, <2>3, <2>4
  <2> QED BY <2>1, <2>5
<1>8. Base' = Base /\ offset' = offset
  BY DEF Base, offset
<1> QED BY <1>1, <1>2, <1>3, <1>4, <1>5, <1>6, <1>7, <1>8

LEMMA InvFsWrite ==
    ASSUME LayoutInv, NEW first \in Sectors, NEW n \in 1 .. MaxRequest,
           NEW v \in Values, NEW user \in BOOLEAN, FsWrite(first, n, v, user)
    PROVE  LayoutInv'
<1> USE DEF LayoutInv, DataInv
<1> DEFINE range == first .. first + n - 1
<1>1. PICK k \in Nat :
         /\ k \in 0 .. VolumeSectors /\ files \in [0 .. k - 1 -> Values]
         /\ FileSystemSize = k /\ DOMAIN files = 0 .. k - 1
         /\ files = <<>> <=> k = 0
  BY FileSystemSizeIs
<1>2. first \in Nat /\ n \in Nat /\ VolumeSectors \in Nat
  BY LayoutAssumption DEF Sectors
<1>3. range \subseteq DOMAIN files /\ range \in SUBSET Nat
  BY <1>1, <1>2 DEF FsWrite
<1>4. /\ mounted /\ disk' = WriteThrough(range, v)
      /\ files' = [s \in DOMAIN files |-> IF s \in range THEN v ELSE files[s]]
      /\ UNCHANGED <<mounted, bound, geometry, store, made, task, vend, told,
                     crashes>>
  BY DEF FsWrite
<1> HIDE DEF range
<1>5. offset = Base /\ files # <<>>
  BY <1>4 DEF MountInv
<1>6. ASSUME NEW s \in range
      PROVE  /\ Base + s \in Sectors
             /\ made # NoLayout =>
                   /\ Base + s \notin MetaPlaces(made)
                   /\ compute_geometry_ok(VolumeSectors, made) =>
                        s < VolumeSectors
                              - replica_count(made) * replica_sectors(made)
  BY <1>3, FilesApart DEF PlaceInv
<1>7. /\ \A a \in Sectors :
            disk'[a] = IF a - Base \in range THEN File(a - Base, v) ELSE disk[a]
      /\ disk' \in [Sectors -> SectorContents]
      /\ StoreInv' /\ BlockInv' /\ TaskInv' /\ VendInv'
      /\ Base' = Base /\ offset' = offset /\ Base \in Nat
  BY <1>3, <1>4, <1>5, <1>6, DataWrite
<1>8. files' \in [0 .. k - 1 -> Values] /\ DOMAIN files' = DOMAIN files
  BY <1>1, <1>4
<1>9. FileSystemSize' = FileSystemSize /\ files' # <<>>
  BY <1>1, <1>5, <1>8, SizeOfIs, FileSystemSizeDef
<1>10. Typed'
  BY <1>1, <1>4, <1>7, <1>8 DEF Typed
<1>11. FitsInv' /\ MountInv'
  BY <1>4, <1>5, <1>7, <1>9 DEF FitsInv, MountInv
<1>12. PlaceInv'
  <2>1. ASSUME NEW s \in DOMAIN files
        PROVE  Base + s \in Sectors /\ disk'[Base + s] = File(s, files'[s])
    <3>1. Base + s \in Sectors /\ disk[Base + s] = File(s, files[s])
      BY DEF PlaceInv
    <3>2. (Base + s) - Base = s
      BY <1>1, <1>7
    <3> QED BY <1>4, <1>7, <3>1, <3>2
  <2>2. ASSUME NEW a \in Sectors, disk'[a][1] = "file"
        PROVE  a = Base + disk'[a][2]
    <3>1. CASE a - Base \in range
      BY <1>2, <1>7, <3>1, Tags DEF Sectors
    <3>2. CASE a - Base \notin range
      BY <1>7, <2>2, <3>2 DEF PlaceInv
    <3> QED BY <3>1, <3>2
  <2> QED BY <1>7, <1>8, <1>9, <2>1, <2>2 DEF PlaceInv
<1> QED BY <1>7, <1>10, <1>11, <1>12

LEMMA InvGrow ==
    ASSUME LayoutInv, Grow
    PROVE  LayoutInv'
<1> USE DEF LayoutInv, DataInv
<1> DEFINE R == VolumeSectors - replica_count(made) * replica_sectors(made)
<1>1. PICK k \in Nat :
         /\ k \in 0 .. VolumeSectors /\ files \in [0 .. k - 1 -> Values]
         /\ FileSystemSize = k /\ DOMAIN files = 0 .. k - 1
         /\ files = <<>> <=> k = 0
  BY FileSystemSizeIs
<1> DEFINE new == k .. R - 1
<1>2. /\ bound /\ made # NoLayout /\ made \in Layouts
      /\ compute_geometry_ok(VolumeSectors, made)
      /\ geometry = compute_geometry(VolumeSectors, made)
  BY DEF Grow, StoreInv
<1>3. reported_sectors = R /\ offset = Base
  BY <1>2 DEF reported_sectors, offset, Base, compute_geometry
<1>4. R \in 0 .. VolumeSectors /\ R \in Nat /\ VolumeSectors \in Nat
  <2>1. replica_count(made) * replica_sectors(made) \in Nat
    BY <1>2, LayoutFacts
  <2>2. replica_count(made) * replica_sectors(made) < VolumeSectors
    BY <1>2 DEF compute_geometry_ok
  <2> QED BY <2>1, <2>2, LayoutAssumption
<1>5. /\ k < R
      /\ files' = [s \in 0 .. R - 1 |-> IF s \in new THEN Blank ELSE files[s]]
      /\ disk' = WriteThrough(new, Blank) /\ mounted' = TRUE
      /\ UNCHANGED <<bound, geometry, store, made, task, vend, told, crashes>>
  BY <1>1, <1>3 DEF Grow
<1> HIDE DEF R
<1>6. \A s \in 0 .. R - 1 : s \in Nat /\ s < R
  BY <1>4
<1>7. ASSUME NEW s \in 0 .. R - 1
      PROVE  Base + s \in Sectors /\ Base + s \notin MetaPlaces(made)
  BY <1>2, <1>6, DataApart DEF R, Base
<1>8. /\ new \in SUBSET Nat /\ new \subseteq 0 .. R - 1
      /\ \A s \in 0 .. R - 1 : s \notin new => s \in DOMAIN files
  BY <1>1, <1>4
<1> HIDE DEF new
<1>9. ASSUME NEW s \in new
      PROVE  /\ Base + s \in Sectors
             /\ made # NoLayout =>
                   /\ Base + s \notin MetaPlaces(made)
                   /\ compute_geometry_ok(VolumeSectors, made) =>
                        s < VolumeSectors
                              - replica_count(made) * replica_sectors(made)
  BY <1>6, <1>7, <1>8 DEF R
<1>10. Blank \in Values
  BY LayoutAssumption
<1>11. /\ \A a \in Sectors :
             disk'[a] = IF a - Base \in new THEN File(a - Base, Blank)
                        ELSE disk[a]
       /\ disk' \in [Sectors -> SectorContents]
       /\ StoreInv' /\ BlockInv' /\ TaskInv' /\ VendInv'
       /\ Base' = Base /\ offset' = offset /\ Base \in Nat
  BY <1>3, <1>5, <1>8, <1>9, <1>10, DataWrite
<1>12. files' \in [0 .. R - 1 -> Values] /\ DOMAIN files' = 0 .. R - 1
  BY <1>1, <1>5, <1>8, <1>10
<1>13. FileSystemSize' = R /\ files' # <<>>
  BY <1>4, <1>5, <1>12, SizeOfIs, FileSystemSizeDef
<1>14. Typed'
  BY <1>4, <1>5, <1>11, <1>12 DEF Typed
<1>15. FitsInv'
  <2>1. /\ compute_geometry_ok(VolumeSectors, made)
        /\ FileSystemSize' <= R
    BY <1>2, <1>4, <1>13
  <2> QED BY <1>5, <2>1 DEF FitsInv, R
<1>16. MountInv'
  BY <1>3, <1>11, <1>13 DEF MountInv
<1>17. PlaceInv'
  <2>1. ASSUME NEW s \in 0 .. R - 1
        PROVE  Base + s \in Sectors /\ disk'[Base + s] = File(s, files'[s])
    <3>1. (Base + s) - Base = s
      BY <1>6, <1>11
    <3>2. CASE s \in new
      BY <1>5, <1>7, <1>11, <3>1, <3>2
    <3>3. CASE s \notin new
      <4>1. disk[Base + s] = File(s, files[s])
        BY <1>8, <3>3 DEF PlaceInv
      <4> QED BY <1>5, <1>7, <1>11, <3>1, <3>3, <4>1
    <3> QED BY <3>2, <3>3
  <2>2. ASSUME NEW a \in Sectors, disk'[a][1] = "file"
        PROVE  a = Base + disk'[a][2]
    <3>1. CASE a - Base \in new
      BY <1>4, <1>11, <3>1, Tags DEF Sectors
    <3>2. CASE a - Base \notin new
      BY <1>11, <2>2, <3>2 DEF PlaceInv
    <3> QED BY <3>1, <3>2
  <2> QED BY <1>11, <1>12, <1>13, <2>1, <2>2 DEF PlaceInv
<1> QED BY <1>11, <1>14, <1>15, <1>16, <1>17

-----------------------------------------------------------------------------
(***************************************************************************)
(* First-time metadata.                                                    *)
(***************************************************************************)

(* A layout that may be prepared leaves the file system where it is and    *)
(* has room for it.                                                        *)
LEMMA ReservedKeeps ==
    ASSUME LayoutInv, NEW l \in Layouts, Reserved(l)
    PROVE  /\ files # <<>> => l.use_header * replica_sectors(l) = Base
           /\ files # <<>> =>
                 \/ l.use_header = 0 /\ FileSystemSize <= targetSectors(l)
                 \/ made # NoLayout /\ l = made
                 \/ l = NoLayout
<1>1. CASE l = made
  BY <1>1 DEF Base
<1>2. ASSUME made = NoLayout, files # <<>>, l.use_header = 0
      PROVE  l.use_header * replica_sectors(l) = Base
  <2>1. made.use_header = 0 /\ NoLayout \in Layouts \cup {NoLayout}
    BY <1>2 DEF NoLayout
  <2>2. replica_sectors(l) \in Nat /\ replica_sectors(made) \in Nat
    BY <1>2, LayoutFacts
  <2> QED BY <1>2, <2>1, <2>2 DEF Base
<1> QED BY <1>1, <1>2 DEF Reserved

(* PREPARE and EnsureJvckMetadata begin in the same way. *)
LEMMA FirstTime ==
    ASSUME LayoutInv, NEW l \in Layouts, NEW op \in {"prepare", "ensure"},
           ~bound, Reserved(l), l # NoLayout, l.metadata_size > 0,
           replica_count(l) * replica_sectors(l) <= VolumeSectors,
           made' = l, told' = told \cup {Blank}, vend' = NoVendorData,
           task' = [op |-> op, layout |-> l,
                    todo |-> BlockWrites(metadata_sector_lbas(VolumeSectors, l),
                                         Metadata(l, Blank))],
           UNCHANGED <<disk, files, mounted, bound, geometry, store, crashes>>
    PROVE  LayoutInv'
<1> USE DEF LayoutInv, DataInv
<1> DEFINE w == BlockWrites(metadata_sector_lbas(VolumeSectors, l),
                            Metadata(l, Blank))
<1>1. Blank \in Values
  BY LayoutAssumption
<1>2. /\ w \in Seq(Writes)
      /\ \A k \in DOMAIN w :
            \E a \in MetaPlaces(l) : w[k] = SealWrite(l, Blank, a)
      /\ \A a \in MetaPlaces(l) : \E k \in DOMAIN w : w[k].at = {a}
  BY <1>1, SealWrites
<1>3. task'.op = op /\ task'.layout = l /\ task'.todo = w
  OBVIOUS
<1> HIDE DEF w
<1>4. task' \in [op : Kinds, layout : Layouts \cup {NoLayout},
                 todo : Seq(Writes)]
  BY <1>2 DEF Kinds, w
<1>5. Typed'
  BY <1>1, <1>4 DEF Typed
<1>6. ~store.open
  BY DEF StoreInv
<1>7. StoreInv'
  BY <1>6 DEF StoreInv
<1>8. BlockInv'
  <2>1. CASE made = NoLayout
    BY <2>1 DEF BlockInv
  <2>2. CASE made # NoLayout
    <3>1. l = made
      BY <2>2 DEF Reserved
    <3> QED BY <2>2, <3>1 DEF BlockInv
  <2> QED BY <2>1, <2>2
<1>9. TaskInv'
  <2>1. Sealing(Blank)'
    BY <1>2, <1>3 DEF Sealing
  <2> QED BY <1>3, <2>1 DEF TaskInv
<1>10. files # <<>> => Base' = Base
  BY ReservedKeeps DEF Base
<1>11. FitsInv'
  <2> SUFFICES ASSUME files # <<>> PROVE FitsInv'
    BY DEF FitsInv
  <2>1. FileSystemSize' = FileSystemSize
    BY FileSystemSizeDef
  <2>2. CASE l.use_header = 0 /\ FileSystemSize <= targetSectors(l)
    BY <2>1, <2>2 DEF FitsInv
  <2>3. CASE made # NoLayout /\ l = made
    BY <2>1, <2>3 DEF FitsInv
  <2> QED BY <2>2, <2>3, ReservedKeeps
<1>12. PlaceInv'
  <2>1. CASE files = <<>>
    <3>1. DOMAIN files = {}
      BY <2>1
    <3> QED BY <2>1, <3>1 DEF PlaceInv
  <2>2. CASE files # <<>>
    BY <1>10, <2>2 DEF PlaceInv
  <2> QED BY <2>1, <2>2
<1>13. VendInv'
  BY DEF VendInv, NoVendorData
<1>14. MountInv'
  BY <1>10 DEF MountInv, offset
<1> QED BY <1>5, <1>7, <1>8, <1>9, <1>11, <1>12, <1>13, <1>14

LEMMA InvPrepare ==
    ASSUME LayoutInv, NEW l \in Layouts, Prepare(l)
    PROVE  LayoutInv'
<1>1. l # NoLayout
  BY DEF Prepare, NoLayout
<1>2. replica_lbas(l) = metadata_sector_lbas(VolumeSectors, l)
  BY PlacesAgree
<1> QED BY <1>1, <1>2, FirstTime DEF Prepare

(* On a volume that is not bound the SDK sees the raw sectors. *)
LEMMA InvEnsure ==
    ASSUME LayoutInv, ~EnsureAfterPrepare, NEW l \in Layouts,
           EnsureJvckMetadata(l)
    PROVE  LayoutInv'
<1> DEFINE lbas == metadata_sector_lbas(VolumeSectors, l)
<1>1. ~bound /\ reported_sectors = VolumeSectors /\ offset = 0
  BY DEF EnsureJvckMetadata, reported_sectors, offset
<1>2. /\ l # NoLayout
      /\ replica_sectors(l) > 0
      /\ replica_count(l) * replica_sectors(l) < VolumeSectors
  BY <1>1 DEF EnsureJvckMetadata, compute_geometry_ok, NoLayout, replica_count
<1>3. replica_count(l) * replica_sectors(l) \in Nat /\ VolumeSectors \in Nat
  BY LayoutFacts, LayoutAssumption
<1>4. replica_count(l) * replica_sectors(l) <= VolumeSectors
  <2> DEFINE x == replica_count(l) * replica_sectors(l)
  <2> HIDE DEF x
  <2>1. x \in Nat /\ x < VolumeSectors => x <= VolumeSectors
    BY <1>3
  <2> QED BY <1>2, <1>3, <2>1 DEF x
<1>5. l.metadata_size > 0
  <2>1. l.metadata_size \in Nat /\ SectorSize \in Nat \ {0}
    BY LayoutFacts, LayoutAssumption
  <2>2. l.metadata_size # 0
    BY <1>2, <2>1 DEF replica_sectors
  <2> QED BY <2>1, <2>2
<1>6. metadataSectorLBAs(reported_sectors, l) = lbas
  BY <1>1, PlacesAgree
<1>7. DOMAIN lbas = 1 .. replica_count(l)
  BY DEF metadata_sector_lbas
<1>8. \A k \in DOMAIN lbas : lbas[k] \in Int
  <2>1. \A k \in DOMAIN lbas : lbas[k] \in Sectors
    BY <1>4, <1>7, MetaInVolume DEF MetaPlaces
  <2>2. \A x \in Sectors : x \in Int
    BY <1>3 DEF Sectors
  <2> HIDE DEF lbas
  <2> QED BY <2>1, <2>2
<1>9. lbas = [k \in DOMAIN lbas |-> lbas[k]]
  BY DEF metadata_sector_lbas
<1> HIDE DEF lbas
<1>10. [k \in DOMAIN lbas |-> shift_offset(lbas[k])] = lbas
  <2>1. \A k \in DOMAIN lbas : shift_offset(lbas[k]) = lbas[k]
    BY <1>1, <1>8 DEF shift_offset
  <2> QED BY <1>9, <2>1
<1>11. /\ Reserved(l) /\ made' = l /\ told' = told \cup {Blank}
       /\ vend' = NoVendorData
       /\ task' = [op |-> "ensure", layout |-> l,
                   todo |-> BlockWrites(lbas, Metadata(l, Blank))]
       /\ UNCHANGED <<disk, files, mounted, bound, geometry, store, crashes>>
  BY <1>6, <1>10 DEF EnsureJvckMetadata
<1> QED BY <1>1, <1>2, <1>4, <1>5, <1>11, FirstTime DEF lbas

LEMMA InvAttach ==
    ASSUME LayoutInv, NEW l \in Layouts, Attach(l)
    PROVE  LayoutInv'
<1> USE DEF LayoutInv
<1>1. /\ UNCHANGED <<disk, files, mounted, bound, geometry, store, made, vend,
                     told, crashes>>
      /\ task' = [op |-> "bind", layout |-> l, todo |-> <<>>]
      /\ ~bound /\ made # NoLayout /\ l.use_header = made.use_header
  BY DEF Attach
<1>2. Typed'
  BY <1>1 DEF Typed, Kinds
<1>3. StoreInv' /\ BlockInv' /\ TaskInv'
  BY <1>1, BlockFrame DEF StoreInv, TaskInv
<1>4. DataInv' /\ MountInv'
  BY <1>1, DataFrame DEF MountInv, offset, Base
<1> QED BY <1>2, <1>3, <1>4

LEMMA PrepareGeometry ==
    ASSUME NEW l \in Layouts \cup {NoLayout}
    PROVE  /\ prepare_geometry(l) \in [offset_sector : Nat, data_sectors : Nat]
           /\ prepare_geometry(l).offset_sector
                = l.use_header * replica_sectors(l)
<1> DEFINE x == l.use_header * replica_sectors(l)
           y == l.use_footer * replica_sectors(l)
<1>1. x \in Nat /\ y \in Nat /\ VolumeSectors \in Nat
  BY LayoutFacts, LayoutAssumption
<1>2. prepare_geometry(l) =
        [offset_sector |-> x,
         data_sectors  |-> IF x + y > VolumeSectors THEN 0
                           ELSE VolumeSectors - (x + y)]
  BY DEF prepare_geometry, replica_sectors
<1> HIDE DEF x, y
<1>3. (IF x + y > VolumeSectors THEN 0 ELSE VolumeSectors - (x + y)) \in Nat
  BY <1>1
<1> QED BY <1>1, <1>2, <1>3 DEF x

LEMMA InvPrepareOnly ==
    ASSUME LayoutInv, NEW l \in Layouts, PrepareOnly(l)
    PROVE  LayoutInv'
<1> USE DEF LayoutInv
<1>1. /\ UNCHANGED <<disk, files, mounted, store, made, task, vend, told,
                     crashes>>
      /\ task = Idle /\ ~bound /\ bound' = TRUE
      /\ geometry' = prepare_geometry(l)
      /\ Reserved(l)
  BY DEF PrepareOnly
<1>2. Typed'
  BY <1>1, PrepareGeometry DEF Typed
<1>3. StoreInv' /\ BlockInv' /\ TaskInv'
  BY <1>1, IdleTask, BlockFrame DEF StoreInv
<1>4. DataInv'
  BY <1>1, DataFrame
<1>5. MountInv'
  BY <1>1, PrepareGeometry, ReservedKeeps DEF MountInv, offset, Base
<1> QED BY <1>2, <1>3, <1>4, <1>5

LEMMA InvBindProvisional ==
    ASSUME LayoutInv, BindProvisional
    PROVE  LayoutInv'
<1> USE DEF LayoutInv
<1>1. /\ UNCHANGED <<disk, files, mounted, store, made, vend, crashes>>
      /\ task.op \in {"prepare", "bind"} /\ task.todo = <<>>
      /\ told' = IF task.op = "prepare" THEN {Blank} ELSE told
      /\ bound' = TRUE /\ geometry' = prepare_geometry(task.layout)
      /\ task' = [task EXCEPT !.op = "open"]
  BY DEF BindProvisional
<1>2. ~bound /\ made # NoLayout
  BY <1>1 DEF TaskInv
<1>3. task'.op = "open" /\ task'.todo = <<>> /\ task'.layout = task.layout
  BY <1>1 DEF Typed
<1>4. task.layout \in Layouts \cup {NoLayout}
  BY DEF Typed
<1>5. Typed'
  <2>1. task' \in [op : Kinds, layout : Layouts \cup {NoLayout},
                   todo : Seq(Writes)]
    BY <1>1 DEF Typed, Kinds
  <2>2. told' \subseteq Values
    BY <1>1, LayoutAssumption DEF Typed
  <2> QED BY <1>1, <1>4, <2>1, <2>2, PrepareGeometry DEF Typed
<1>6. StoreInv'
  BY <1>1, <1>2 DEF StoreInv
<1>7. BlockInv'
  <2>1. CASE task.op = "prepare"
    <3>1. \A a \in MetaPlaces(made) : disk[a] = Metadata(made, Blank)
      BY <1>1, <2>1 DEF TaskInv, Sealing
    <3> QED BY <1>1, <2>1, <3>1 DEF BlockInv
  <2>2. CASE task.op # "prepare"
    BY <1>1, <2>2, BlockFrame
  <2> QED BY <2>1, <2>2
<1>8. TaskInv'
  BY <1>1, <1>3 DEF TaskInv
<1>9. DataInv'
  BY <1>1, DataFrame
<1>10. MountInv'
  <2> SUFFICES ASSUME mounted PROVE files # <<>> /\ offset' = Base
    BY <1>1 DEF MountInv, Base
  <2>1. files # <<>> /\ Base = 0
    BY <1>2 DEF MountInv, offset
  <2>2. offset' = task.layout.use_header * replica_sectors(task.layout)
    BY <1>1, <1>4, PrepareGeometry DEF offset
  <2>3. CASE task.op = "prepare"
    BY <2>1, <2>2, <2>3 DEF TaskInv, Base
  <2>4. CASE task.op = "bind"
    <3>1. made.use_header = 0
      <4>1. CASE compute_geometry_ok(VolumeSectors, made)
        <5>1. replica_sectors(made) \in Nat \ {0} /\ made.use_header \in Nat
          BY <4>1, LayoutFacts DEF compute_geometry_ok, Typed
        <5> QED BY <2>1, <5>1 DEF Base
      <4>2. CASE ~compute_geometry_ok(VolumeSectors, made)
        BY <1>2, <2>1, <4>2 DEF DataInv, FitsInv
      <4> QED BY <4>1, <4>2
    <3>2. task.layout.use_header = 0 /\ replica_sectors(task.layout) \in Nat
      BY <1>4, <2>4, <3>1, LayoutFacts DEF TaskInv
    <3> QED BY <2>1, <2>2, <3>2
  <2> QED BY <1>1, <2>1, <2>3, <2>4
<1> QED BY <1>5, <1>6, <1>7, <1>8, <1>9, <1>10

(* The block the reader finds is one of this layout, so the store that     *)
(* opens is the one that was made.                                         *)
LEMMA InvOpenStore ==
    ASSUME LayoutInv, OpenStore
    PROVE  LayoutInv'
<1> USE DEF LayoutInv
<1> DEFINE block == disk[ReaderLba]
           found == open.ok /\ \E k \in DOMAIN
                       metadata_sector_lbas(VolumeSectors, open.layout) :
                       verify_crc(disk[metadata_sector_lbas(VolumeSectors,
                                                            open.layout)[k]])
<1>1. /\ task.op = "open" /\ task' = Idle
      /\ UNCHANGED <<disk, files, made, vend, told, crashes>>
      /\ found => /\ store' = [open |-> TRUE, layout |-> open.layout,
                               reserved |-> open.reserved]
                  /\ geometry' = compute_geometry(VolumeSectors, open.layout)
                  /\ UNCHANGED <<bound, mounted>>
      /\ ~found => /\ bound' = FALSE
                   /\ mounted' = (mounted /\ geometry.offset_sector = 0)
                   /\ UNCHANGED <<store, geometry>>
  BY DEF OpenStore
<1>2. ~store.open /\ bound
  BY <1>1 DEF StoreInv, TaskInv
<1>3. BlockInv' /\ DataInv' /\ TaskInv'
  BY <1>1, BlockFrame, DataFrame, IdleTask
<1>4. task' \in [op : Kinds, layout : Layouts \cup {NoLayout},
                 todo : Seq(Writes)]
  BY <1>1, IdleTask
<1>5. found => open.ok
  OBVIOUS
<1> HIDE DEF found
<1>6. CASE found
  <2>1. verify_crc(block) /\ compute_geometry_ok(VolumeSectors, block[2])
    BY <1>5, <1>6 DEF open
  <2>2. ReaderLba \in Sectors
    BY LayoutAssumption DEF ReaderLba, Sectors
  <2>3. PICK r \in told : made # NoLayout /\ block = Metadata(made, r)
    BY <2>1, <2>2 DEF BlockInv
  <2>4. open.layout = made /\ open.reserved = r
    BY <2>1, <2>3, Tags DEF open
  <2>5. compute_geometry_ok(VolumeSectors, made)
    BY <2>1, <2>3, Tags
  <2>6. made \in Layouts /\ r \in Values
    BY <2>3 DEF StoreInv, Typed
  <2>7. /\ geometry' \in [offset_sector : Nat, data_sectors : Nat]
        /\ geometry'.offset_sector = Base
        /\ geometry' = compute_geometry(VolumeSectors, made)
    <3> DEFINE x == replica_count(made) * replica_sectors(made)
    <3>1. x \in Nat /\ x < VolumeSectors /\ VolumeSectors \in Nat /\ Base \in Nat
      BY <2>5, <2>6, LayoutFacts, LayoutAssumption
         DEF compute_geometry_ok, Base
    <3>2. geometry' = [offset_sector |-> Base, data_sectors |-> VolumeSectors - x]
      BY <1>1, <1>6, <2>4 DEF compute_geometry, Base
    <3>3. geometry' = compute_geometry(VolumeSectors, made)
      BY <1>1, <1>6, <2>4
    <3> HIDE DEF x
    <3>4. VolumeSectors - x \in Nat
      BY <3>1
    <3> QED BY <3>1, <3>2, <3>3, <3>4
  <2>8. Typed'
    <3>1. store' \in [open : BOOLEAN, layout : Layouts \cup {NoLayout},
                      reserved : Values]
      <4>1. store' = [open |-> TRUE, layout |-> made, reserved |-> r]
        BY <1>1, <1>6, <2>4
      <4> QED BY ONLY <2>6, <4>1
    <3>2. UNCHANGED <<disk, files, made, told, crashes, bound, mounted>>
      BY <1>1, <1>6
    <3> QED BY <1>4, <2>7, <3>1, <3>2 DEF Typed
  <2>9. StoreInv'
    BY <1>1, <1>2, <1>6, <2>3, <2>4, <2>5, <2>7 DEF StoreInv, Idle
  <2>10. MountInv'
    BY <1>1, <1>2, <1>6, <2>7 DEF MountInv, offset, Base
  <2> QED BY <1>3, <2>8, <2>9, <2>10
<1>7. CASE ~found
  <2>1. Typed'
    BY <1>1, <1>4, <1>7 DEF Typed
  <2>2. StoreInv'
    BY <1>1, <1>2, <1>7 DEF StoreInv
  <2>3. MountInv'
    BY <1>1, <1>2, <1>7 DEF MountInv, offset, Base
  <2> QED BY <1>3, <2>1, <2>2, <2>3
<1> QED BY <1>6, <1>7

-----------------------------------------------------------------------------
(***************************************************************************)
(* The open store.                                                         *)
(***************************************************************************)

(* A re-seal begins. *)
LEMMA SealBegins ==
    ASSUME LayoutInv, StoreReady, NEW r \in Values, told' = told \cup {r},
           store' = [store EXCEPT !.reserved = r],
           task' = [op |-> "seal", layout |-> store.layout,
                    todo |-> write_all_replicas(store.layout, r)],
           UNCHANGED <<disk, files, mounted, bound, geometry, made, vend,
                       crashes>>
    PROVE  LayoutInv'
<1> USE DEF LayoutInv
<1>1. /\ store.open /\ bound /\ made # NoLayout /\ store.layout = made
      /\ made \in Layouts
      /\ replica_count(made) * replica_sectors(made) <= VolumeSectors
  BY DEF StoreReady, StoreInv
<1> DEFINE w == BlockWrites(metadata_sector_lbas(VolumeSectors, made),
                            Metadata(made, r))
<1>2. /\ w \in Seq(Writes)
      /\ \A k \in DOMAIN w :
            \E a \in MetaPlaces(made) : w[k] = SealWrite(made, r, a)
      /\ \A a \in MetaPlaces(made) : \E k \in DOMAIN w : w[k].at = {a}
  BY <1>1, SealWrites
<1>3. task' = [op |-> "seal", layout |-> made, todo |-> w]
  BY <1>1 DEF write_all_replicas
<1> HIDE DEF w
<1>4. store' \in [open : BOOLEAN, layout : Layouts \cup {NoLayout},
                  reserved : Values]
      /\ store'.open /\ store'.layout = made /\ store'.reserved = r
  BY <1>1 DEF Typed
<1>5. Typed'
  BY <1>1, <1>2, <1>3, <1>4 DEF Typed, Kinds
<1>6. StoreInv' /\ BlockInv'
  BY <1>1, <1>3, <1>4, BlockFrame DEF StoreInv
<1>7. TaskInv'
  <2>1. task'.todo = w /\ made' = made /\ store'.reserved = r
    BY <1>3, <1>4
  <2>2. Sealing(store.reserved)'
    BY ONLY <1>2, <2>1 DEF Sealing
  <2> QED BY <1>3, <1>4, <2>2 DEF TaskInv
<1>8. DataInv' /\ MountInv'
  BY DataFrame DEF MountInv, offset, Base
<1> QED BY <1>5, <1>6, <1>7, <1>8

LEMMA InvReseal ==
    ASSUME LayoutInv, Reseal
    PROVE  LayoutInv'
<1>1. store.reserved \in Values /\ store.reserved \in told
  BY DEF LayoutInv, Typed, StoreInv, Reseal, StoreReady
<1>2. told' = told \cup {store.reserved}
      /\ store' = [store EXCEPT !.reserved = store.reserved]
  BY <1>1 DEF Reseal, LayoutInv, Typed
<1> QED BY <1>1, <1>2, SealBegins DEF Reseal

LEMMA InvSetReserved ==
    ASSUME LayoutInv, NEW r \in Values, set_vendor_reserved(r)
    PROVE  LayoutInv'
BY SealBegins DEF set_vendor_reserved

LEMMA VendorBegins ==
    ASSUME LayoutInv, StoreReady, NEW w \in Seq(Writes),
           \A k \in DOMAIN w :
              \E i \in Nat, rel \in Nat, n \in Nat, v \in Values :
                 /\ vendor_data_lba_checked(made, i, rel, n)
                 /\ w[k] = VendorWrite(made, i, rel, n, v),
           task' = [op |-> "vendor", layout |-> store.layout, todo |-> w],
           UNCHANGED <<disk, files, mounted, bound, geometry, store, made, vend,
                       told, crashes>>
    PROVE  LayoutInv'
<1> USE DEF LayoutInv
<1>1. store.open /\ store.layout \in Layouts \cup {NoLayout}
  BY DEF StoreReady, Typed
<1>2. task' \in [op : Kinds, layout : Layouts \cup {NoLayout},
                 todo : Seq(Writes)]
  BY <1>1 DEF Kinds
<1>3. Typed'
  BY <1>2 DEF Typed
<1>4. StoreInv' /\ BlockInv'
  BY <1>1, BlockFrame DEF StoreInv
<1>5. TaskInv'
  <2>1. VendorWrites'
    BY DEF VendorWrites
  <2> QED BY <1>1, <2>1 DEF TaskInv
<1>6. DataInv' /\ MountInv'
  BY DataFrame DEF MountInv, offset, Base
<1> QED BY <1>3, <1>4, <1>5, <1>6

LEMMA InvWriteVendor ==
    ASSUME LayoutInv, NEW i \in Sectors, NEW rel \in Sectors,
           NEW n \in 1 .. MaxRequest, NEW v \in Values,
           write_vendor_data(i, rel, n, v)
    PROVE  LayoutInv'
<1>1. /\ store.layout = made /\ made \in Layouts
      /\ compute_geometry_ok(VolumeSectors, made)
  BY DEF LayoutInv, StoreInv, write_vendor_data, StoreReady
<1>2. i \in Nat /\ rel \in Nat /\ n \in Nat
  BY DEF Sectors
<1>3. vendor_data_lba_checked(made, i, rel, n)
  BY <1>1 DEF write_vendor_data
<1> DEFINE u == VendorWrite(made, i, rel, n, v)
           w == <<u>>
<1>4. u \in Writes
  BY <1>1, <1>2, <1>3, VendorWriteIs
<1>5. \E j \in Nat, x \in Nat, m \in Nat, y \in Values :
         vendor_data_lba_checked(made, j, x, m) /\ u = VendorWrite(made, j, x, m, y)
  BY <1>2, <1>3
<1>6. /\ StoreReady
      /\ task' = [op |-> "vendor", layout |-> store.layout, todo |-> w]
      /\ UNCHANGED <<disk, files, mounted, bound, geometry, store, made, vend,
                     told, crashes>>
  BY <1>1 DEF write_vendor_data
<1> HIDE DEF u
<1>7. w \in Seq(Writes) /\ \A k \in DOMAIN w : w[k] = u
  BY <1>4
<1> HIDE DEF w
<1>8. \A k \in DOMAIN w :
         \E j \in Nat, x \in Nat, m \in Nat, y \in Values :
            /\ vendor_data_lba_checked(made, j, x, m)
            /\ w[k] = VendorWrite(made, j, x, m, y)
  BY <1>5, <1>7
<1> QED BY <1>6, <1>7, <1>8, VendorBegins

LEMMA InvWriteVendorAll ==
    ASSUME LayoutInv, NEW rel \in Sectors, NEW n \in 1 .. MaxRequest,
           NEW v \in Values, write_vendor_data_all(rel, n, v)
    PROVE  LayoutInv'
<1>1. /\ store.layout = made /\ made \in Layouts
      /\ compute_geometry_ok(VolumeSectors, made)
  BY DEF LayoutInv, StoreInv, write_vendor_data_all, StoreReady
<1>2. rel \in Nat /\ n \in Nat /\ replica_count(made) \in Nat
  BY <1>1, LayoutFacts DEF Sectors
<1> DEFINE w == [k \in 1 .. replica_count(made) |->
                    VendorWrite(made, k - 1, rel, n, v)]
<1>3. /\ StoreReady
      /\ task' = [op |-> "vendor", layout |-> store.layout, todo |-> w]
      /\ UNCHANGED <<disk, files, mounted, bound, geometry, store, made, vend,
                     told, crashes>>
  BY <1>1 DEF write_vendor_data_all
<1>4. ASSUME NEW k \in 1 .. replica_count(made)
      PROVE  k - 1 \in Nat /\ vendor_data_lba_checked(made, k - 1, rel, n)
  BY <1>1, <1>2 DEF write_vendor_data_all, vendor_data_lba_checked
<1>5. ASSUME NEW k \in 1 .. replica_count(made)
      PROVE  VendorWrite(made, k - 1, rel, n, v) \in Writes
  BY <1>1, <1>2, <1>4, VendorWriteIs
<1>6. /\ DOMAIN w = 1 .. replica_count(made)
      /\ \A k \in DOMAIN w : w[k] = VendorWrite(made, k - 1, rel, n, v)
  OBVIOUS
<1>7. w \in [1 .. replica_count(made) -> Writes]
  BY <1>5
<1>8. w \in Seq(Writes)
  BY <1>2, <1>7
<1> HIDE DEF w
<1>9. \A k \in DOMAIN w :
         \E j \in Nat, x \in Nat, m \in Nat, y \in Values :
            /\ vendor_data_lba_checked(made, j, x, m)
            /\ w[k] = VendorWrite(made, j, x, m, y)
  BY <1>2, <1>4, <1>6
<1> QED BY <1>3, <1>8, <1>9, VendorBegins

-----------------------------------------------------------------------------
(***************************************************************************)
(* Progress, failures, detach and power losses.                            *)
(***************************************************************************)
LEMMA InvFinish ==
    ASSUME LayoutInv, Finish
    PROVE  LayoutInv'
<1> USE DEF LayoutInv
<1>1. /\ task.op \in {"seal", "vendor", "ensure"} /\ task.todo = <<>>
      /\ task' = Idle
      /\ UNCHANGED <<disk, files, mounted, bound, geometry, store, made, vend,
                     crashes>>
  BY DEF Finish
<1>2. /\ task.op = "seal" => told' = {store.reserved}
      /\ task.op = "ensure" => told' = {Blank}
      /\ task.op = "vendor" => told' = told
  BY DEF Finish
<1>3. TaskInv' /\ DataInv' /\ MountInv'
  BY <1>1, IdleTask, DataFrame DEF MountInv, offset, Base
<1>4. Typed'
  BY <1>1, <1>2, IdleTask, LayoutAssumption DEF Typed
<1>5. CASE task.op = "seal"
  <2>1. \A a \in MetaPlaces(made) : disk[a] = Metadata(made, store.reserved)
    BY <1>1, <1>5 DEF TaskInv, Sealing
  <2>2. BlockInv'
    BY <1>1, <1>2, <1>5, <2>1 DEF BlockInv
  <2>3. StoreInv'
    BY <1>1, <1>2, <1>5 DEF StoreInv, Idle
  <2> QED BY <1>3, <1>4, <2>2, <2>3
<1>6. CASE task.op = "ensure"
  <2>1. \A a \in MetaPlaces(made) : disk[a] = Metadata(made, Blank)
    BY <1>1, <1>6 DEF TaskInv, Sealing
  <2>2. BlockInv'
    BY <1>1, <1>2, <1>6, <2>1 DEF BlockInv
  <2>3. StoreInv'
    BY <1>1, <1>6 DEF StoreInv
  <2> QED BY <1>3, <1>4, <2>2, <2>3
<1>7. CASE task.op = "vendor"
  <2>1. StoreInv' /\ BlockInv'
    BY <1>1, <1>2, <1>7, BlockFrame DEF StoreInv, Idle
  <2> QED BY <1>3, <1>4, <2>1
<1> QED BY <1>1, <1>5, <1>6, <1>7

LEMMA InvWriteFails ==
    ASSUME LayoutInv, WriteFails
    PROVE  LayoutInv'
<1> USE DEF LayoutInv
<1>1. /\ task' = Idle
      /\ UNCHANGED <<disk, files, mounted, bound, geometry, store, made, vend,
                     told, crashes>>
  BY DEF WriteFails
<1>2. TaskInv' /\ DataInv' /\ MountInv' /\ BlockInv'
  BY <1>1, IdleTask, DataFrame, BlockFrame DEF MountInv, offset, Base
<1>3. Typed' /\ StoreInv'
  BY <1>1, IdleTask DEF Typed, StoreInv, Idle
<1> QED BY <1>2, <1>3

LEMMA InvDetach ==
    ASSUME LayoutInv, Detach
    PROVE  LayoutInv'
<1> USE DEF LayoutInv
<1>1. /\ task' = Idle /\ bound' = FALSE /\ mounted' = FALSE /\ store' = NoStore
      /\ UNCHANGED <<disk, files, geometry, made, vend, told, crashes>>
  BY DEF Detach
<1>2. TaskInv' /\ DataInv' /\ MountInv' /\ BlockInv'
  BY <1>1, IdleTask, DataFrame, BlockFrame DEF MountInv
<1>3. store' \in [open : BOOLEAN, layout : Layouts \cup {NoLayout},
                  reserved : Values]
  BY <1>1, LayoutAssumption DEF NoStore
<1>4. Typed' /\ StoreInv'
  BY <1>1, <1>3, IdleTask DEF Typed, StoreInv, NoStore
<1> QED BY <1>2, <1>4

(* What is written, or torn. *)
LEMMA PutIs ==
    ASSUME Typed, NEW lbas, NEW c \in SectorContents, disk' = Put(lbas, c)
    PROVE  /\ disk' \in [Sectors -> SectorContents]
           /\ \A a \in Sectors : disk'[a] = IF a \in lbas THEN c ELSE disk[a]
BY DEF Typed, Put

LEMMA InvCrash ==
    ASSUME LayoutInv, Crash
    PROVE  LayoutInv'
<1> USE DEF LayoutInv
<1>1. /\ task' = Idle /\ bound' = FALSE /\ mounted' = FALSE /\ store' = NoStore
      /\ crashes < MaxCrashes /\ crashes' = crashes + 1
      /\ UNCHANGED <<files, geometry, made, told>>
  BY DEF Crash
<1>2. TaskInv' /\ MountInv'
  BY <1>1, IdleTask DEF MountInv
<1>3. store' \in [open : BOOLEAN, layout : Layouts \cup {NoLayout},
                  reserved : Values]
      /\ ~store'.open
  BY <1>1, LayoutAssumption DEF NoStore
<1>4. StoreInv'
  BY <1>1, <1>3 DEF StoreInv
<1>5. crashes' \in 0 .. MaxCrashes
  BY <1>1, LayoutAssumption DEF Typed
<1>6. disk' \in [Sectors -> SectorContents] => Typed'
  BY <1>1, <1>3, <1>5, IdleTask DEF Typed
<1>7. CASE UNCHANGED <<disk, vend>>
  <2>1. Typed' /\ BlockInv' /\ DataInv'
    BY <1>1, <1>6, <1>7, BlockFrame, DataFrame DEF Typed
  <2> QED BY <1>2, <1>4, <2>1
<1>8. CASE /\ task.todo # <<>>
           /\ disk' = Put(Head(task.todo).at, Torn)
           /\ vend' = [p \in DOMAIN vend \ {<<Head(task.todo).replica, r>> :
                                              r \in Head(task.todo).rels} |->
                          vend[p]]
  <2> DEFINE w == Head(task.todo)
             here == {<<w.replica, r>> : r \in w.rels}
  <2>1. made # NoLayout /\ made \in Layouts /\ Pending(w)
    BY <1>8, HeadIsPending
  <2>2. /\ disk' = Put(w.at, Torn)
        /\ vend' = [p \in DOMAIN vend \ here |-> vend[p]]
    BY <1>8
  <2> HIDE DEF w
  <2>3. /\ disk' \in [Sectors -> SectorContents]
        /\ \A a \in Sectors : disk'[a] = IF a \in w.at THEN Torn ELSE disk[a]
    BY <2>2, PutIs, Contents
  <2>4. BlockInv'
    BY <1>1, <2>3, Tags DEF BlockInv, verify_crc
  <2>5. FitsInv' /\ PlaceInv'
    BY <1>1, <2>1, <2>2, PutKeepsFiles, Tags
  <2>6. VendInv'
    <3>1. ASSUME NEW p \in DOMAIN vend, p \notin here
          PROVE  \E i \in Nat, rel \in Nat :
                    /\ p = <<i, rel>>
                    /\ compute_geometry_ok(VolumeSectors, made)
                    /\ i < replica_count(made)
                    /\ rel + 1 < replica_sectors(made)
                    /\ disk'[VendorPlace(made, i, rel)] = Vendor(vend[p])
      BY <2>1, <2>2, <3>1, PutKeepsVend
    <3> HIDE DEF here
    <3>2. \A p \in DOMAIN vend' :
             p \in DOMAIN vend /\ p \notin here /\ vend'[p] = vend[p]
      BY <2>2
    <3> QED BY <1>1, <2>1, <3>1, <3>2 DEF VendInv
  <2> QED BY <1>2, <1>4, <1>6, <2>3, <2>4, <2>5, <2>6 DEF DataInv
<1> QED BY <1>7, <1>8 DEF Crash

(* The next write of a re-seal. *)
LEMMA SealGoesOn ==
    ASSUME Typed, NEW r, Sealing(r), task.todo # <<>>, made' = made,
           disk' = Put(Head(task.todo).at, Head(task.todo).put),
           task'.todo = Tail(task.todo), MetaPlaces(made) \subseteq Sectors
    PROVE  /\ \A k \in DOMAIN task'.todo :
                 \E a \in MetaPlaces(made') :
                    task'.todo[k] = SealWrite(made', r, a)
           /\ \A a \in MetaPlaces(made') :
                 \/ disk'[a] = Metadata(made', r)
                 \/ \E k \in DOMAIN task'.todo : task'.todo[k].at = {a}
<1> DEFINE todo == task.todo
           rest == Tail(todo)
<1>1. todo \in Seq(Writes)
  BY DEF Typed
<1>2. /\ Head(todo) = todo[1] /\ 1 \in DOMAIN todo
      /\ DOMAIN todo = 1 .. Len(todo) /\ Len(todo) \in Nat
      /\ DOMAIN rest = 1 .. Len(todo) - 1
      /\ \A k \in DOMAIN rest : rest[k] = todo[k + 1] /\ k + 1 \in DOMAIN todo
  <2> HIDE DEF todo
  <2>1. todo # <<>>
    BY DEF todo
  <2> QED BY <1>1, <2>1
<1>3. \A k \in DOMAIN todo :
         \E a \in MetaPlaces(made) : todo[k] = SealWrite(made, r, a)
  BY DEF Sealing
<1>4. \A a \in MetaPlaces(made) :
         disk[a] = Metadata(made, r) \/ \E k \in DOMAIN todo : todo[k].at = {a}
  BY DEF Sealing
<1>5. task'.todo = rest
  OBVIOUS
<1>6. PICK b \in MetaPlaces(made) : todo[1] = SealWrite(made, r, b)
  BY <1>2, <1>3
<1>7. todo[1].at = {b} /\ todo[1].put = Metadata(made, r)
  BY <1>6 DEF SealWrite
<1>8. \A a \in Sectors : disk'[a] = IF a = b THEN Metadata(made, r) ELSE disk[a]
  BY <1>2, <1>7 DEF Put
<1> HIDE DEF todo, rest
<1>9. ASSUME NEW a \in MetaPlaces(made)
      PROVE  disk'[a] = Metadata(made, r) \/ \E k \in DOMAIN rest : rest[k].at = {a}
  <2>1. CASE a = b
    BY <1>8, <2>1
  <2>2. CASE a # b /\ disk[a] = Metadata(made, r)
    BY <1>8, <2>2
  <2>3. ASSUME a # b, NEW k \in DOMAIN todo, todo[k].at = {a}
        PROVE  \E j \in DOMAIN rest : rest[j].at = {a}
    <3>1. k # 1
      BY <1>7, <2>3
    <3>2. k - 1 \in DOMAIN rest /\ (k - 1) + 1 = k
      BY <1>2, <3>1
    <3> QED BY <1>2, <2>3, <3>2
  <2> QED BY <1>4, <2>1, <2>2, <2>3
<1>10. ASSUME NEW k \in DOMAIN rest
       PROVE  \E a \in MetaPlaces(made) : rest[k] = SealWrite(made, r, a)
  BY <1>2, <1>3
<1> QED BY <1>5, <1>9, <1>10

LEMMA InvWriteNext ==
    ASSUME LayoutInv, WriteNext
    PROVE  LayoutInv'
<1> USE DEF LayoutInv
<1> DEFINE w == Head(task.todo)
           here == {<<w.replica, r>> : r \in w.rels}
<1>1. /\ task.todo # <<>> /\ disk' = Put(w.at, w.put)
      /\ vend' = [p \in DOMAIN vend \cup here |->
                     IF p \in here THEN w.put[2] ELSE vend[p]]
      /\ task' = [task EXCEPT !.todo = Tail(@)]
      /\ UNCHANGED <<files, mounted, bound, geometry, store, made, told,
                     crashes>>
  BY DEF WriteNext
<1>2. /\ w \in Writes /\ made # NoLayout /\ made \in Layouts /\ Pending(w)
  BY <1>1, HeadIsPending
<1>3. task.todo \in Seq(Writes)
  BY DEF Typed
<1>4. /\ task'.op = task.op /\ task'.layout = task.layout
      /\ task'.todo = Tail(task.todo)
      /\ task' \in [op : Kinds, layout : Layouts \cup {NoLayout},
                    todo : Seq(Writes)]
  <2>1. Tail(task.todo) \in Seq(Writes)
    BY <1>1, <1>3
  <2>2. task' = [op |-> task.op, layout |-> task.layout,
                 todo |-> Tail(task.todo)]
    BY <1>1 DEF Typed
  <2> QED BY <2>1, <2>2 DEF Typed
<1>5. /\ disk' \in [Sectors -> SectorContents]
      /\ \A a \in Sectors : disk'[a] = IF a \in w.at THEN w.put ELSE disk[a]
  <2>1. w.put \in SectorContents
    BY <1>2 DEF Writes
  <2> QED BY <1>1, <2>1, PutIs
<1>6. Typed'
  BY <1>1, <1>4, <1>5 DEF Typed
<1>7. StoreInv'
  BY <1>1, <1>4 DEF StoreInv
<1>8. MountInv'
  BY <1>1 DEF MountInv, offset, Base
<1>9. MetaPlaces(made) \subseteq Sectors
  BY <1>2, MetaInVolume DEF StoreInv
<1>10. TaskInv'
  <2>1. ASSUME task.op \in {"prepare", "ensure"} PROVE Sealing(Blank)'
    <3>1. Sealing(Blank)
      BY <2>1 DEF TaskInv
    <3> QED BY <1>1, <1>4, <1>9, <3>1, SealGoesOn DEF Sealing
  <2>2. ASSUME task.op = "seal" PROVE Sealing(store.reserved)'
    <3>1. Sealing(store.reserved)
      BY <2>2 DEF TaskInv
    <3>2. /\ \A k \in DOMAIN task'.todo :
                \E a \in MetaPlaces(made') :
                   task'.todo[k] = SealWrite(made', store.reserved, a)
          /\ \A a \in MetaPlaces(made') :
                \/ disk'[a] = Metadata(made', store.reserved)
                \/ \E k \in DOMAIN task'.todo : task'.todo[k].at = {a}
      BY <1>1, <1>4, <1>9, <3>1, SealGoesOn
    <3>3. store' = store
      BY <1>1
    <3> QED BY ONLY <3>2, <3>3 DEF Sealing
  <2>3. ASSUME task.op = "vendor" PROVE VendorWrites'
    <3>1. VendorWrites
      BY <2>3 DEF TaskInv
    <3>2. \A k \in DOMAIN task'.todo :
             k + 1 \in DOMAIN task.todo /\ task'.todo[k] = task.todo[k + 1]
      BY <1>1, <1>3, <1>4
    <3>3. made' = made
      BY <1>1
    <3> QED BY ONLY <3>1, <3>2, <3>3 DEF VendorWrites
  <2>4. /\ UNCHANGED <<bound, made, store, told>>
        /\ task.op \in {"prepare", "ensure", "seal", "vendor"}
    BY <1>1 DEF TaskInv, Typed, Kinds
  <2> HIDE DEF w, here
  <2> QED BY <1>4, <2>1, <2>2, <2>3, <2>4 DEF TaskInv
<1>11. CASE \E a \in MetaPlaces(made), r \in told : w = SealWrite(made, r, a)
  <2>1. PICK b \in MetaPlaces(made), r \in told : w = SealWrite(made, r, b)
    BY <1>11
  <2>2. w.at = {b} /\ w.put = Metadata(made, r) /\ w.rels = {}
    BY <2>1 DEF SealWrite
  <2>3. here = {} /\ vend' = [p \in DOMAIN vend |-> vend[p]]
    BY <1>1, <2>2
  <2> HIDE DEF w
  <2>4. BlockInv'
    BY <1>1, <1>2, <1>5, <2>2 DEF BlockInv
  <2>5. FitsInv' /\ PlaceInv'
    <3>1. w.put[1] # "file" /\ UNCHANGED <<files, made>>
      BY <1>1, <2>2, Tags
    <3> QED BY <1>1, <1>2, <3>1, PutKeepsFiles
  <2>6. ASSUME NEW p \in DOMAIN vend
        PROVE  \E i \in Nat, rel \in Nat :
                  /\ p = <<i, rel>>
                  /\ compute_geometry_ok(VolumeSectors, made)
                  /\ i < replica_count(made) /\ rel + 1 < replica_sectors(made)
                  /\ disk'[VendorPlace(made, i, rel)] = Vendor(vend[p])
    <3>1. p \notin {<<w.replica, r2>> : r2 \in w.rels}
      BY <2>3
    <3> QED BY <1>1, <1>2, <3>1, PutKeepsVend
  <2>7. VendInv'
    BY <1>1, <1>2, <2>3, <2>6 DEF VendInv
  <2> QED BY <1>6, <1>7, <1>8, <1>10, <2>4, <2>5, <2>7 DEF DataInv
<1>12. ASSUME compute_geometry_ok(VolumeSectors, made),
              NEW i \in Nat, NEW rel \in Nat, NEW n \in Nat, NEW v \in Values,
              vendor_data_lba_checked(made, i, rel, n),
              w = VendorWrite(made, i, rel, n, v)
       PROVE  LayoutInv'
  <2> DEFINE u == VendorWrite(made, i, rel, n, v)
  <2>1. /\ u.put = Vendor(v) /\ u.replica = i /\ i < replica_count(made)
        /\ \A x \in u.rels : x \in Nat /\ x + 1 < replica_sectors(made)
        /\ u.at = {VendorPlace(made, i, x) : x \in u.rels}
    BY <1>2, <1>12, VendorWriteIs
  <2>2. w = u
    BY <1>12
  <2> HIDE DEF u, w
  <2>3. /\ w.put = Vendor(v) /\ w.replica = i /\ i < replica_count(made)
        /\ \A x \in w.rels : x \in Nat /\ x + 1 < replica_sectors(made)
        /\ w.at = {VendorPlace(made, i, x) : x \in w.rels}
    BY <2>1, <2>2
  <2>4. BlockInv'
    <3>1. \A a \in Sectors : verify_crc(disk'[a]) => disk'[a] = disk[a]
      BY <1>5, <2>3, Tags DEF verify_crc
    <3> QED BY <1>1, <3>1 DEF BlockInv
  <2>5. FitsInv' /\ PlaceInv'
    BY <1>1, <1>2, <2>3, PutKeepsFiles, Tags
  <2>6. ASSUME NEW p \in DOMAIN vend, p \notin here
        PROVE  \E j \in Nat, x \in Nat :
                  /\ p = <<j, x>>
                  /\ compute_geometry_ok(VolumeSectors, made)
                  /\ j < replica_count(made) /\ x + 1 < replica_sectors(made)
                  /\ disk'[VendorPlace(made, j, x)] = Vendor(vend[p])
    BY <1>1, <1>2, <2>6, PutKeepsVend
  <2>7. ASSUME NEW p \in here
        PROVE  \E j \in Nat, x \in Nat :
                  /\ p = <<j, x>>
                  /\ compute_geometry_ok(VolumeSectors, made)
                  /\ j < replica_count(made) /\ x + 1 < replica_sectors(made)
                  /\ disk'[VendorPlace(made, j, x)] = Vendor(w.put[2])
    <3>1. PICK x \in w.rels : p = <<i, x>>
      BY <2>3, <2>7
    <3>2. x \in Nat /\ x + 1 < replica_sectors(made)
          /\ VendorPlace(made, i, x) \in w.at
      BY <2>3, <3>1
    <3>3. VendorPlace(made, i, x) \in Sectors
      BY <1>2, <1>12, <2>3, <3>2, VendorApart
    <3>4. disk'[VendorPlace(made, i, x)] = Vendor(w.put[2])
      BY <1>5, <2>3, <3>2, <3>3, Tags
    <3> QED BY <1>12, <2>3, <3>1, <3>2, <3>4
  <2>8. VendInv'
    <3> HIDE DEF here
    <3>1. \A p \in DOMAIN vend' :
             \/ p \in here /\ vend'[p] = w.put[2]
             \/ p \in DOMAIN vend /\ p \notin here /\ vend'[p] = vend[p]
      BY <1>1
    <3>2. made' = made
      BY <1>1
    <3> QED BY <1>2, <2>6, <2>7, <3>1, <3>2 DEF VendInv
  <2> QED BY <1>6, <1>7, <1>8, <1>10, <2>4, <2>5, <2>8 DEF DataInv
<1>13. QED
  <2> HIDE DEF w
  <2> QED BY <1>2, <1>11, <1>12 DEF Pending

-----------------------------------------------------------------------------
(***************************************************************************)
(* Theorems.                                                               *)
(***************************************************************************)
LEMMA LayoutInvNext ==
    ASSUME ~EnsureAfterPrepare, LayoutInv, [Next]_vars
    PROVE  LayoutInv'
<1>1. CASE UNCHANGED vars
  <2> USE DEF LayoutInv, vars
  <2>1. Typed' /\ StoreInv' /\ BlockInv' /\ TaskInv' /\ DataInv'
    BY <1>1, StoreFrame, BlockFrame, TaskFrame, DataFrame DEF Typed
  <2>2. MountInv'
    BY <1>1 DEF MountInv, offset, Base
  <2> QED BY <2>1, <2>2
<1>2. ASSUME NEW l \in Layouts,
             \/ Shrink(l) \/ Prepare(l) \/ Attach(l)
             \/ PrepareOnly(l) \/ EnsureJvckMetadata(l)
      PROVE  LayoutInv'
  BY <1>2, InvShrink, InvPrepare, InvAttach, InvPrepareOnly, InvEnsure
<1>3. CASE Mount \/ Grow
  BY <1>3, InvMount, InvGrow
<1>4. ASSUME NEW first \in Sectors, NEW n \in 1 .. MaxRequest, NEW v \in Values,
             NEW user \in BOOLEAN, FsWrite(first, n, v, user)
      PROVE  LayoutInv'
  BY <1>4, InvFsWrite
<1>5. CASE BindProvisional \/ OpenStore \/ Reseal
  BY <1>5, InvBindProvisional, InvOpenStore, InvReseal
<1>6. ASSUME NEW r \in Values, set_vendor_reserved(r)
      PROVE  LayoutInv'
  BY <1>6, InvSetReserved
<1>7. ASSUME NEW rel \in Sectors, NEW n \in 1 .. MaxRequest, NEW v \in Values,
             \/ write_vendor_data_all(rel, n, v)
             \/ \E i \in Sectors : write_vendor_data(i, rel, n, v)
      PROVE  LayoutInv'
  BY <1>7, InvWriteVendorAll, InvWriteVendor
<1>8. CASE WriteNext \/ Finish \/ WriteFails
  BY <1>8, InvWriteNext, InvFinish, InvWriteFails
<1>9. CASE Detach \/ Crash
  BY <1>9, InvDetach, InvCrash
<1> QED BY <1>1, <1>2, <1>3, <1>4, <1>5, <1>6, <1>7, <1>8, <1>9 DEF Next

LEMMA LayoutInvHolds ==
    ASSUME ~EnsureAfterPrepare
    PROVE  Spec => []LayoutInv
<1>1. LayoutInv /\ [Next]_vars => LayoutInv'
  BY LayoutInvNext
<1> QED BY <1>1, LayoutInvInit, PTL DEF Spec

(* Every raw access of the store, the driver, the SDK and the filter is to *)
(* a sector of the volume, for every layout the volume has room for.       *)
THEOREM LayoutTypeCorrect ==
    ASSUME ~EnsureAfterPrepare
    PROVE  Spec => []TypeOK
<1>1. ASSUME LayoutInv PROVE TypeOK
  <2>1. PICK k \in 0 .. VolumeSectors : files \in [0 .. k - 1 -> Values]
    BY <1>1 DEF LayoutInv, Typed
  <2>2. \A s \in DOMAIN files : s \in Sectors /\ files[s] \in Values
    BY <2>1, LayoutAssumption DEF Sectors
  <2>3. \A k2 \in DOMAIN task.todo : task.todo[k2].at \subseteq Sectors
    <3>1. task.todo \in Seq(Writes)
      BY <1>1 DEF LayoutInv, Typed
    <3>2. \A k2 \in DOMAIN task.todo : task.todo[k2] \in Writes
      BY <3>1
    <3> QED BY <3>2 DEF Writes
  <2> QED BY <1>1, <2>2, <2>3 DEF LayoutInv, Typed, TypeOK, Kinds
<1> QED BY <1>1, LayoutInvHolds, PTL

(* PREPARE's replica_lbas and EnsureJvckMetadata's metadataSectorLBAs are  *)
(* the sectors at which the store will look.                               *)
THEOREM WritersAndStoreAgree ==
    ASSUME ~EnsureAfterPrepare
    PROVE  Spec => []WritersAgree
<1>1. ASSUME LayoutInv PROVE WritersAgree
  <2> SUFFICES ASSUME task.op \in {"prepare", "ensure"},
                      NEW k \in DOMAIN task.todo
               PROVE  \E j \in DOMAIN metadata_sector_lbas(VolumeSectors,
                                                           task.layout) :
                         task.todo[k].at = {metadata_sector_lbas(VolumeSectors,
                                                           task.layout)[j]}
    BY DEF WritersAgree
  <2>1. task.layout = made /\ Sealing(Blank)
    BY <1>1 DEF LayoutInv, TaskInv
  <2>2. PICK a \in MetaPlaces(made) : task.todo[k] = SealWrite(made, Blank, a)
    BY <2>1 DEF Sealing
  <2>3. PICK j \in 1 .. replica_count(made) :
           a = metadata_sector_lbas(VolumeSectors, made)[j]
    BY <2>2 DEF MetaPlaces
  <2>4. j \in DOMAIN metadata_sector_lbas(VolumeSectors, made)
    BY <2>3 DEF metadata_sector_lbas
  <2>5. task.todo[k].at = {a}
    BY <2>2 DEF SealWrite
  <2> QED BY <2>1, <2>3, <2>4, <2>5
<1> QED BY <1>1, LayoutInvHolds, PTL

(* What the file system wrote is what it reads, through the filter or on   *)
(* the raw volume, across preparation, re-seals, vendor writes, growth,    *)
(* detach, failed writes and any number of power losses.                   *)
THEOREM FilesStayIntact ==
    ASSUME ~EnsureAfterPrepare
    PROVE  Spec => []FilesIntact
<1>1. ASSUME LayoutInv PROVE FilesIntact
  <2> SUFFICES ASSUME mounted, NEW s \in DOMAIN files
               PROVE  /\ shift_offset(s) \in Sectors
                      /\ disk[shift_offset(s)] = File(s, files[s])
    BY DEF FilesIntact
  <2>1. offset = Base
    BY <1>1 DEF LayoutInv, MountInv
  <2>2. s \in Nat /\ Base \in Nat
    BY <1>1, FilesApart, LayoutFacts DEF LayoutInv, DataInv, Typed, Base
  <2>3. shift_offset(s) = Base + s
    BY <2>1, <2>2 DEF shift_offset
  <2> QED BY <1>1, <2>3 DEF LayoutInv, DataInv, PlaceInv
<1> QED BY <1>1, LayoutInvHolds, PTL

(* write_vendor_data and write_vendor_data_all keep their data over the    *)
(* re-seals beside it, requests of the file system, and torn writes of     *)
(* other sectors.                                                          *)
THEOREM VendorDataStays ==
    ASSUME ~EnsureAfterPrepare
    PROVE  Spec => []VendorIntact
<1>1. ASSUME LayoutInv PROVE VendorIntact
  <2> SUFFICES ASSUME store.open, NEW p \in DOMAIN vend
               PROVE  disk[vendor_data_base_lba_at(VolumeSectors, store.layout,
                                                   p[1]) + p[2]]
                        = Vendor(vend[p])
    BY DEF VendorIntact
  <2>1. store.layout = made
    BY <1>1 DEF LayoutInv, StoreInv
  <2>2. PICK i \in Nat, rel \in Nat :
           p = <<i, rel>> /\ disk[VendorPlace(made, i, rel)] = Vendor(vend[p])
    BY <1>1 DEF LayoutInv, DataInv, VendInv
  <2>3. p[1] = i /\ p[2] = rel
    BY <2>2
  <2> QED BY <2>1, <2>2, <2>3 DEF VendorPlace
<1> QED BY <1>1, LayoutInvHolds, PTL

(* An open reports the vendor_reserved value of the last re-seal that      *)
(* returned Ok, or of one begun after it.                                  *)
THEOREM ReservedStays ==
    ASSUME ~EnsureAfterPrepare
    PROVE  Spec => []ReservedIsKept
<1>1. LayoutInv => ReservedIsKept
  BY DEF LayoutInv, StoreInv, ReservedIsKept
<1> QED BY <1>1, LayoutInvHolds, PTL

(* The tail reserved in bytes by the tool is enough for the replicas that  *)
(* the store counts in sectors, whatever the sector size.                  *)
THEOREM FileSystemHasRoom ==
    ASSUME ~EnsureAfterPrepare
    PROVE  Spec => []FileSystemFits
<1>1. ASSUME LayoutInv PROVE FileSystemFits
  <2> SUFFICES ASSUME mounted, store.open
               PROVE  FileSystemSize <= geometry.data_sectors
    BY DEF FileSystemFits
  <2> DEFINE c == replica_count(made) * replica_sectors(made)
  <2>1. /\ files # <<>> /\ made # NoLayout /\ made \in Layouts
        /\ geometry = compute_geometry(VolumeSectors, made)
    BY <1>1 DEF LayoutInv, MountInv, StoreInv
  <2>2. geometry.data_sectors = VolumeSectors - c
    BY <2>1 DEF compute_geometry
  <2>3. FileSystemSize \in Nat /\ c \in Nat /\ VolumeSectors \in Nat
    BY <1>1, <2>1, FileSystemSizeIs, LayoutFacts, LayoutAssumption
       DEF LayoutInv
  <2>4. CASE made.use_header = 0 /\ FileSystemSize <= targetSectors(made)
    <3>1. /\ targetSectors(made) \in Int
          /\ targetSectors(made)
               <= VolumeSectors - made.use_footer * replica_sectors(made)
      BY <2>1, TargetInFront
    <3>2. made.use_footer * replica_sectors(made) = c
      BY <2>1, <2>4, LayoutFacts
    <3> HIDE DEF c
    <3> QED BY <2>2, <2>3, <2>4, <3>1, <3>2
  <2> QED BY <1>1, <2>1, <2>2, <2>4 DEF LayoutInv, DataInv, FitsInv
<1> QED BY <1>1, LayoutInvHolds, PTL

=============================================================================
