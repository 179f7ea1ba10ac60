----------------------- MODULE OsVolumePrepareProofs -----------------------
(***************************************************************************)
(* Theorems about OsVolumePrepare and ShrinkTail that hold for every       *)
(* volume, every placement of its files, every number of runs, power       *)
(* losses and changes by other programs.                                   *)
(***************************************************************************)
EXTENDS OsVolumePrepare, NatLemmas, SequenceTheorems, TLAPS

-----------------------------------------------------------------------------
(***************************************************************************)
(* The inductive invariant.                                                *)
(***************************************************************************)
Clusters == VolumeSectors \div ClusterSectors

(* The room the file system is left with, in clusters. *)
Front == (VolumeSectors - Reserved) \div ClusterSectors

ShrinkTyped ==
    /\ total \in 0 .. Clusters
    /\ lcn \in [Files -> Seq(Nat)] /\ Placed(lcn, total)
    /\ pass \in [target : Nat, file : 1 .. FileCount + 1, scan : Nat,
                 chunk : SUBSET (0 .. Clusters - 1), bitmap : SUBSET Nat,
                 attempts : 0 .. MaxAttempts - 1, moved : BOOLEAN,
                 excused : BOOLEAN]
    /\ pass.bitmap \subseteq pass.chunk
    /\ changes \in Nat

(* The size that was asked for is not larger than what is left when the    *)
(* tail is free, and not smaller than the threshold of the walk.           *)
TargetInv == Shrinking => pass.target <= Front /\ thresholdLCN <= pass.target

(* What a pass without an excuse knows: a cluster keeps NTFS from          *)
(* committing unless one was moved; the clusters the scanner has left      *)
(* behind and those the bitmap shows are in use; and no file behind the    *)
(* walk has a cluster beyond the new end unless the scanner is through.    *)
WalkInv ==
    cmd = "walk" /\ ~pass.excused =>
        /\ ~pass.moved => \E c \in Used : c >= pass.target
        /\ \A c \in Nat : c < pass.scan /\ c < thresholdLCN => c \in Used
        /\ \A c \in pass.bitmap : c < thresholdLCN => c \in Used
        /\ \A d \in pass.chunk, x \in Nat :
              pass.scan <= x /\ x <= d => x \in pass.chunk
        /\ \A f \in Files : f < pass.file =>
              \A v \in DOMAIN lcn[f] :
                 lcn[f][v] >= pass.target => pass.scan >= thresholdLCN

BeforeDriver == {"shrink", "commit", "walk", "copy", "copying", "config",
                 "writing", "driver"}
AfterShrink  == {"copy", "copying", "config", "writing", "driver", "request",
                 "prepare"}
Steps        == BeforeDriver \cup {"idle", "request", "prepare", "return"}

Esps == [bootmgfw : {"os", "loader"}, copy : {"none", "part", "os", "loader"},
         vckJson : {"none", "part", "ok"}]

(* The lengths the filter can report, each one reserved tail less than the *)
(* one before, and the sectors of the tail that ends at e.                 *)
Ends     == {e \in Int : \E i \in Nat : e = VolumeSectors - i * Reserved}
Group(e) == e - Reserved .. e - 1

PrepareTyped ==
    /\ cmd \in Steps /\ esp \in Esps
    /\ meta \in [DOMAIN meta -> [fvek : {Torn} \cup (1 .. keys), layers : Int]]
    /\ DOMAIN meta \subseteq 0 .. VolumeSectors - 1
    /\ block \in 0 .. keys /\ keys \in Nat
    /\ runs \in 0 .. MaxRuns /\ keys <= runs
    /\ cmd \in BeforeDriver => keys < runs
    /\ todo \in Seq(Group(reported))
    /\ bound \in 0 .. keys /\ swept \subseteq 1 .. keys
    /\ reported \in Ends /\ reported \in 1 .. VolumeSectors
    /\ known \subseteq Paths
    /\ mounted \in BOOLEAN /\ filter \in BOOLEAN
    /\ power \in {"on", "off"}
    /\ crashes \in 0 .. MaxCrashes

(* The order of the steps on the EFI system partition, and what the filter *)
(* says about the command, the registry and the length.                    *)
ControlInv ==
    /\ esp.vckJson # "none" => esp.copy = "os"
    /\ esp.bootmgfw = "loader" => esp.vckJson = "ok" /\ cmd = "idle"
    /\ cmd \in {"config", "writing"} => esp.copy = "os"
    /\ cmd \in {"shrink", "commit", "walk", "copy", "copying", "config"} =>
          esp.vckJson = "none"
    /\ power = "off" => cmd = "idle"
    /\ power = "off" \/ ~filter => bound = NoFvek /\ cmd # "prepare"
    /\ bound = NoFvek => reported = VolumeSectors
    /\ bound # NoFvek => reported <= VolumeSectors - Reserved
    /\ bound # NoFvek =>
          reported = VolumeSectors - Reserved \/ \E p, q \in known : p # q
    /\ bound # NoFvek /\ known = {} => esp.bootmgfw = "loader"
    /\ todo # <<>> => cmd = "prepare" /\ block # NoFvek

(* The file system is not larger than the volume is said to be; once the   *)
(* shrink has committed, it ends in front of the tail of that length.      *)
Extent == total * ClusterSectors

TailInv ==
    /\ Extent <= reported
    /\ Shrinking => pass.target = targetClusters(reported)
    /\ Shrinking \/ cmd \in AfterShrink => reported > Reserved
    /\ cmd \in AfterShrink => Extent <= reported - Reserved
    /\ DOMAIN meta # {} => Extent <= VolumeSectors - Reserved
    /\ \A p \in DOMAIN meta : p >= Extent

Whole(e, k) == \A p \in Range(replica_lbas(e)) : Holds(p, k)

(* Every key has its own tail: that of the bound volume is the one the     *)
(* filter hides, that of the block being written the one in front of it,   *)
(* and the replicas of the keys in use are whole, out of reach of PREPARE  *)
(* and of the sweep.                                                       *)
KeyInv ==
    /\ \A p, q \in DOMAIN meta :
          meta[p].fvek > NoFvek /\ meta[p].fvek = meta[q].fvek =>
             \E e \in Ends : p \in Group(e) /\ q \in Group(e)
    /\ bound # NoFvek =>
          \A p \in DOMAIN meta :
             meta[p].fvek = bound => p \in Group(reported + Reserved)
    /\ cmd \in {"request", "prepare"} /\ block # NoFvek =>
          /\ bound # block
          /\ \A p \in DOMAIN meta : meta[p].fvek = block => p \in Group(reported)
    /\ \A k \in swept : \E e \in Ends :
          /\ Reserved <= e /\ e <= VolumeSectors /\ Whole(e, k)
          /\ power = "on" /\ filter =>
                \/ e = reported + Reserved /\ k = bound
                \/ e >= reported + 2 * Reserved

PrepareInv ==
    /\ ShrinkTyped /\ TargetInv /\ WalkInv
    /\ PrepareTyped /\ ControlInv /\ TailInv /\ KeyInv

-----------------------------------------------------------------------------
(***************************************************************************)
(* Clusters and sectors.                                                   *)
(***************************************************************************)
LEMMA DivBounds ==
    ASSUME NEW x \in Int, NEW d \in Nat \ {0}
    PROVE  x \div d \in Int /\ (x \div d) * d <= x /\ x < (x \div d) * d + d
OBVIOUS

LEMMA DivNat ==
    ASSUME NEW x \in Nat, NEW d \in Nat \ {0}
    PROVE  x \div d \in Nat
OBVIOUS

LEMMA SeqOf ==
    ASSUME NEW S, NEW n \in Nat, NEW k \in [1 .. n -> S]
    PROVE  k \in Seq(S)
OBVIOUS

LEMMA MulLess ==
    ASSUME NEW a \in Int, NEW b \in Int, NEW c \in Nat \ {0}, a * c < b * c
    PROVE  a < b
<1>1. ASSUME b <= a PROVE FALSE
  <2>1. a - b \in Nat
    BY <1>1
  <2>2. (a - b) * c >= 0
    BY <2>1
  <2>3. (a - b) * c = a * c - b * c /\ a * c \in Int /\ b * c \in Int
    OBVIOUS
  <2> QED BY <2>2, <2>3
<1> QED BY <1>1

(* q clusters fit into x sectors exactly when q is at most x \div d.       *)
LEMMA DivLargest ==
    ASSUME NEW q \in Int, NEW x \in Int, NEW d \in Nat \ {0}
    PROVE  q * d <= x <=> q <= x \div d
<1> DEFINE y == x \div d
<1>1. y \in Int /\ y * d <= x /\ x < y * d + d
  BY DivBounds
<1> HIDE DEF y
<1>2. q * d \in Int /\ y * d \in Int
  BY <1>1
<1>3. ASSUME q * d <= x PROVE q <= y
  <2>1. (y + 1) * d = y * d + d
    BY <1>1
  <2>2. q * d < (y + 1) * d
    BY <1>1, <1>2, <1>3, <2>1
  <2>3. q < y + 1
    BY <1>1, <2>2, MulLess
  <2> QED BY <1>1, <2>3
<1>4. ASSUME q <= y PROVE q * d <= x
  <2>1. y - q \in Nat
    BY <1>1, <1>4
  <2>2. (y - q) * d >= 0
    BY <2>1
  <2>3. (y - q) * d = y * d - q * d
    BY <1>1
  <2> QED BY <1>1, <1>2, <2>2, <2>3
<1> QED BY <1>3, <1>4 DEF y

LEMMA Sizes ==
    /\ VolumeSectors \in Nat /\ ClusterSectors \in Nat \ {0}
    /\ Reserved \in Nat \ {0} /\ Reserved < VolumeSectors
    /\ FileCount \in Nat \ {0} /\ MaxAttempts \in Nat \ {0}
    /\ ChunkClusters \in Nat \ {0} /\ Files = 1 .. FileCount
    /\ Clusters \in Nat /\ Front \in Nat /\ Front <= Clusters
<1>1. /\ VolumeSectors \in Nat /\ ClusterSectors \in Nat \ {0}
      /\ Reserved \in Nat \ {0} /\ Reserved < VolumeSectors
      /\ FileCount \in Nat \ {0} /\ MaxAttempts \in Nat \ {0}
      /\ ChunkClusters \in Nat \ {0} /\ Files = 1 .. FileCount
  BY ShrinkAssumption DEF Files
<1>2. Clusters \in Int /\ Front \in Int
  BY <1>1, DivBounds DEF Clusters, Front
<1>3. 0 <= Front
  <2>1. 0 * ClusterSectors <= VolumeSectors - Reserved
    BY <1>1
  <2> QED BY <1>1, <2>1, DivLargest DEF Front
<1>4. Front <= Clusters
  <2>1. Front * ClusterSectors <= VolumeSectors - Reserved
    BY <1>1, DivBounds DEF Front
  <2>2. Front * ClusterSectors \in Int
    BY <1>1, <1>2
  <2>3. Front * ClusterSectors <= VolumeSectors
    BY <1>1, <2>1, <2>2
  <2> QED BY <1>1, <1>2, <2>3, DivLargest DEF Clusters
<1> QED BY <1>1, <1>2, <1>3, <1>4

(* The SDK's threshold is not beyond the size it asks NTFS for, when the   *)
(* file system is not larger than the volume says it is.                   *)
LEMMA ThresholdBelowTarget ==
    ASSUME NEW len \in Nat, NEW t \in Nat, t <= len \div ClusterSectors
    PROVE  t - CeilDiv(Reserved, ClusterSectors) <= targetClusters(len)
<1> DEFINE d == ClusterSectors
           u == CeilDiv(Reserved, ClusterSectors)
<1>1. d \in Nat \ {0} /\ Reserved \in Nat
  BY Sizes
<1>2. t * d <= len
  BY <1>1, DivLargest
<1>3. u \in Int /\ Reserved + d - 1 < u * d + d
  BY <1>1, DivBounds DEF CeilDiv
<1> HIDE DEF u, d
<1>4. (t - u) * d = t * d - u * d /\ t * d \in Int /\ u * d \in Int
  BY <1>1, <1>3
<1>5. (t - u) * d <= len - Reserved
  BY <1>1, <1>2, <1>3, <1>4
<1>6. t - u <= (len - Reserved) \div d
  BY <1>1, <1>3, <1>5, DivLargest
<1> QED BY <1>6 DEF targetClusters, u, d

LEMMA ThresholdIs ==
    ASSUME total \in Nat
    PROVE  thresholdLCN \in Int /\ thresholdLCN <= total
<1> DEFINE u == CeilDiv(Reserved, ClusterSectors)
<1>1. u \in Int
  BY Sizes, DivBounds DEF CeilDiv
<1>2. 0 <= u
  <2>1. 0 * ClusterSectors <= Reserved + ClusterSectors - 1
    BY Sizes
  <2> QED BY <2>1, Sizes, DivLargest DEF CeilDiv
<1> HIDE DEF u
<1>3. thresholdLCN = total - u
  BY DEF thresholdLCN, u
<1> QED BY <1>1, <1>2, <1>3

-----------------------------------------------------------------------------
(***************************************************************************)
(* The clusters of the files.                                              *)
(***************************************************************************)
UsedBy(l) == UNION {Range(l[f]) : f \in Files}

LEMMA UsedDef == Used = UsedBy(lcn) /\ Used' = UsedBy(lcn')
BY DEF Used, UsedBy

LEMMA UsedByIs ==
    ASSUME NEW l, NEW c
    PROVE  c \in UsedBy(l) <=>
              \E f \in Files : \E v \in DOMAIN l[f] : c = l[f][v]
BY DEF UsedBy, Range

(* A cluster is moved to a free one. *)
LEMMA PlacedMove ==
    ASSUME NEW n \in Nat, NEW l \in [Files -> Seq(Nat)], Placed(l, n),
           NEW f \in Files, NEW v \in DOMAIN l[f], NEW c \in 0 .. n - 1,
           c \notin UsedBy(l)
    PROVE  LET m == [l EXCEPT ![f][v] = c]
           IN  /\ m \in [Files -> Seq(Nat)] /\ Placed(m, n)
               /\ \A g \in Files : DOMAIN m[g] = DOMAIN l[g]
               /\ \A g \in Files : \A w \in DOMAIN l[g] :
                     m[g][w] = IF g = f /\ w = v THEN c ELSE l[g][w]
<1> DEFINE m == [l EXCEPT ![f][v] = c]
           s == [l[f] EXCEPT ![v] = c]
<1>1. \A g \in Files : l[g] \in Seq(Nat) /\ l[g] \in Seq(0 .. n - 1)
  BY DEF Placed
<1>2. /\ s \in Seq(0 .. n - 1) /\ s \in Seq(Nat) /\ DOMAIN s = DOMAIN l[f]
      /\ \A w \in DOMAIN l[f] : s[w] = IF w = v THEN c ELSE l[f][w]
  <2> DEFINE k == l[f]
  <2>1. k \in Seq(Nat) /\ k \in Seq(0 .. n - 1) /\ v \in DOMAIN k
    BY <1>1
  <2>2. s = [k EXCEPT ![v] = c]
    OBVIOUS
  <2>3. c \in Nat
    OBVIOUS
  <2> HIDE DEF k, s
  <2>4. /\ [k EXCEPT ![v] = c] \in Seq(0 .. n - 1)
        /\ [k EXCEPT ![v] = c] \in Seq(Nat)
        /\ DOMAIN [k EXCEPT ![v] = c] = DOMAIN k
        /\ \A w \in DOMAIN k : [k EXCEPT ![v] = c][w] = IF w = v THEN c ELSE k[w]
    BY <2>1, <2>3, ExceptSeq
  <2> QED BY <2>2, <2>4 DEF k
<1>3. m = [l EXCEPT ![f] = s]
  OBVIOUS
<1> HIDE DEF s
<1>4. \A g \in Files : m[g] = IF g = f THEN s ELSE l[g]
  BY <1>3
<1>5. m \in [Files -> Seq(Nat)]
  BY <1>1, <1>2, <1>3
<1> HIDE DEF m
<1>6. \A g \in Files : DOMAIN m[g] = DOMAIN l[g]
  BY <1>2, <1>4
<1>7. \A g \in Files : \A w \in DOMAIN l[g] :
         m[g][w] = IF g = f /\ w = v THEN c ELSE l[g][w]
  BY <1>2, <1>4
<1>8. \A g \in Files : \A w \in DOMAIN l[g] : l[g][w] # c
  BY UsedByIs
<1>9. Placed(m, n)
  <2>1. \A g \in Files : m[g] \in Seq(0 .. n - 1)
    BY <1>1, <1>2, <1>4
  <2>2. ASSUME NEW g \in Files, NEW h \in Files, NEW w \in DOMAIN m[g],
               NEW x \in DOMAIN m[h], m[g][w] = m[h][x]
        PROVE  g = h /\ w = x
    <3>1. w \in DOMAIN l[g] /\ x \in DOMAIN l[h]
      BY <1>6
    <3>2. m[g][w] = IF g = f /\ w = v THEN c ELSE l[g][w]
      BY <1>7, <3>1
    <3>3. m[h][x] = IF h = f /\ x = v THEN c ELSE l[h][x]
      BY <1>7, <3>1
    <3>4. l[g][w] # c /\ l[h][x] # c
      BY <1>8, <3>1
    <3>5. l[g][w] = l[h][x] => g = h /\ w = x
      BY <3>1 DEF Placed
    <3> QED BY <2>2, <3>2, <3>3, <3>4, <3>5
  <2> QED BY <2>1, <2>2 DEF Placed
<1> QED BY <1>5, <1>6, <1>7, <1>9 DEF m

(* A file grows by a free cluster. *)
Grown(l, f, c) == [l EXCEPT ![f] = Append(@, c)]

LEMMA PlacedGrow ==
    ASSUME NEW n \in Nat, NEW l \in [Files -> Seq(Nat)], Placed(l, n),
           NEW f \in Files, NEW c \in 0 .. n - 1, c \notin UsedBy(l),
           NEW m, m = Grown(l, f, c)
    PROVE  /\ m \in [Files -> Seq(Nat)] /\ Placed(m, n)
           /\ UsedBy(l) \subseteq UsedBy(m)
           /\ \A g \in Files : \A w \in DOMAIN m[g] :
                 m[g][w] = c \/ (w \in DOMAIN l[g] /\ m[g][w] = l[g][w])
<1> DEFINE s == Append(l[f], c)
           k == Len(l[f])
<1>1. \A g \in Files : l[g] \in Seq(Nat) /\ l[g] \in Seq(0 .. n - 1)
  BY DEF Placed
<1>2. /\ s \in Seq(0 .. n - 1) /\ s \in Seq(Nat)
      /\ DOMAIN s = DOMAIN l[f] \cup {k + 1} /\ k + 1 \notin DOMAIN l[f]
      /\ s[k + 1] = c /\ \A w \in DOMAIN l[f] : s[w] = l[f][w]
  BY <1>1
<1>3. m = [l EXCEPT ![f] = s]
  BY DEF Grown
<1> HIDE DEF s, k
<1>4. \A g \in Files : m[g] = IF g = f THEN s ELSE l[g]
  BY <1>3
<1>5. m \in [Files -> Seq(Nat)]
  BY <1>1, <1>2, <1>3
<1>6. ASSUME NEW g \in Files, NEW w \in DOMAIN m[g]
      PROVE  \/ g = f /\ w = k + 1 /\ m[g][w] = c
             \/ w \in DOMAIN l[g] /\ m[g][w] = l[g][w]
  BY <1>2, <1>4
<1>7. \A g \in Files : \A w \in DOMAIN l[g] :
         l[g][w] # c /\ w \in DOMAIN m[g] /\ m[g][w] = l[g][w]
  BY <1>2, <1>4, UsedByIs
<1>8. Placed(m, n)
  <2>1. \A g \in Files : m[g] \in Seq(0 .. n - 1)
    BY <1>1, <1>2, <1>4
  <2>2. ASSUME NEW g \in Files, NEW h \in Files, NEW w \in DOMAIN m[g],
               NEW x \in DOMAIN m[h], m[g][w] = m[h][x]
        PROVE  g = h /\ w = x
    <3>1. \/ g = f /\ w = k + 1 /\ m[g][w] = c
          \/ w \in DOMAIN l[g] /\ m[g][w] = l[g][w] /\ l[g][w] # c
      BY <1>6, <1>7
    <3>2. \/ h = f /\ x = k + 1 /\ m[h][x] = c
          \/ x \in DOMAIN l[h] /\ m[h][x] = l[h][x] /\ l[h][x] # c
      BY <1>6, <1>7
    <3>3. ASSUME w \in DOMAIN l[g], x \in DOMAIN l[h], l[g][w] = l[h][x]
          PROVE  g = h /\ w = x
      BY <3>3 DEF Placed
    <3> QED BY <2>2, <3>1, <3>2, <3>3
  <2> QED BY <2>1, <2>2 DEF Placed
<1>9. UsedBy(l) \subseteq UsedBy(m)
  BY ONLY <1>7, UsedByIs
<1> QED BY <1>5, <1>6, <1>8, <1>9

LEMMA DropLast ==
    ASSUME NEW S, NEW k \in Seq(S)
    PROVE  LET s == SubSeq(k, 1, Len(k) - 1)
           IN  /\ s \in Seq(S)
               /\ \A w \in DOMAIN s : w \in DOMAIN k /\ s[w] = k[w]
<1> DEFINE s == SubSeq(k, 1, Len(k) - 1)
<1>1. /\ Len(k) \in Nat /\ DOMAIN k = 1 .. Len(k)
      /\ \A w \in 1 .. Len(k) : k[w] \in S
  OBVIOUS
<1>2. s = [w \in 1 .. Len(k) - 1 |-> k[w]]
  BY ONLY <1>1
<1>3. \A w \in 1 .. Len(k) - 1 : w \in 1 .. Len(k)
  BY ONLY <1>1
<1> HIDE DEF s
<1>4. CASE Len(k) = 0
  <2>1. s = << >>
    BY ONLY <1>1, <1>2, <1>4
  <2> QED BY ONLY <2>1 DEF s
<1>5. CASE Len(k) # 0
  <2>1. Len(k) - 1 \in Nat
    BY ONLY <1>1, <1>5
  <2>2. \A w \in 1 .. Len(k) - 1 : k[w] \in S
    BY ONLY <1>1, <1>3, Zenon
  <2>3. s \in [1 .. Len(k) - 1 -> S] /\ DOMAIN s = 1 .. Len(k) - 1
    BY ONLY <1>2, <2>2, Zenon
  <2>4. s \in Seq(S)
    <3> DEFINE n == Len(k) - 1
    <3>1. n \in Nat /\ s \in [1 .. n -> S]
      BY <2>1, <2>3
    <3> HIDE DEF n
    <3> QED BY ONLY <3>1, SeqDef
  <2>5. \A w \in DOMAIN s : w \in DOMAIN k /\ s[w] = k[w]
    BY ONLY <1>1, <1>2, <1>3, <2>3, Zenon
  <2> QED BY ONLY <2>4, <2>5 DEF s
<1> QED BY ONLY <1>1, <1>4, <1>5

(* A file gives up its last cluster. *)
LEMMA PlacedDrop ==
    ASSUME NEW n \in Nat, NEW l \in [Files -> Seq(Nat)], Placed(l, n),
           NEW f \in Files
    PROVE  LET m == [l EXCEPT ![f] = SubSeq(@, 1, Len(@) - 1)]
           IN  m \in [Files -> Seq(Nat)] /\ Placed(m, n)
<1> DEFINE m == [l EXCEPT ![f] = SubSeq(@, 1, Len(@) - 1)]
           s == SubSeq(l[f], 1, Len(l[f]) - 1)
<1>1. \A g \in Files : l[g] \in Seq(Nat) /\ l[g] \in Seq(0 .. n - 1)
  BY DEF Placed
<1>2. /\ s \in Seq(0 .. n - 1) /\ s \in Seq(Nat)
      /\ \A w \in DOMAIN s : w \in DOMAIN l[f] /\ s[w] = l[f][w]
  <2>1. l[f] \in Seq(Nat) /\ l[f] \in Seq(0 .. n - 1)
    BY <1>1
  <2> QED BY <2>1, DropLast
<1>3. m = [l EXCEPT ![f] = s]
  OBVIOUS
<1> HIDE DEF s
<1>4. \A g \in Files : m[g] = IF g = f THEN s ELSE l[g]
  BY <1>3
<1>5. m \in [Files -> Seq(Nat)]
  BY <1>1, <1>2, <1>3
<1> HIDE DEF m
<1>6. \A g \in Files : \A w \in DOMAIN m[g] :
         w \in DOMAIN l[g] /\ m[g][w] = l[g][w]
  BY <1>2, <1>4
<1>7. Placed(m, n)
  <2>1. \A g \in Files : m[g] \in Seq(0 .. n - 1)
    BY <1>1, <1>2, <1>4
  <2> QED BY <1>6, <2>1, SMTT(30) DEF Placed
<1> QED BY <1>5, <1>7 DEF m

-----------------------------------------------------------------------------
(***************************************************************************)
(* ShrinkTail: the steps of ShrinkVolumeTail and of the other programs.    *)
(***************************************************************************)
ShrinkInv == ShrinkTyped /\ TargetInv /\ WalkInv

(* Whoever moves on with the volume as it is does not disturb the shrink.  *)
LEMMA ShrinkFrame ==
    ASSUME ShrinkInv, UNCHANGED <<total, lcn, pass, changes>>,
           cmd' = cmd \/ cmd' \notin {"commit", "walk"}
    PROVE  ShrinkInv'
BY DEF ShrinkInv, ShrinkTyped, TargetInv, WalkInv, Shrinking, thresholdLCN,
       Used, Placed

LEMMA NewPassIs ==
    ASSUME NEW t \in Nat
    PROVE  /\ newPass(t) \in [target : Nat, file : 1 .. FileCount + 1,
                 scan : Nat, chunk : SUBSET (0 .. Clusters - 1),
                 bitmap : SUBSET Nat, attempts : 0 .. MaxAttempts - 1,
                 moved : BOOLEAN, excused : BOOLEAN]
           /\ newPass(t).target = t /\ newPass(t).file = 1
           /\ newPass(t).scan = 0 /\ newPass(t).chunk = {}
           /\ newPass(t).bitmap = {} /\ ~newPass(t).moved
           /\ ~newPass(t).excused
<1>1. 1 \in 1 .. FileCount + 1 /\ 0 \in 0 .. MaxAttempts - 1
  BY Sizes
<1> QED BY <1>1 DEF newPass

LEMMA PassBegins ==
    ASSUME ShrinkTyped, NEW t \in Nat, pass' = newPass(t),
           UNCHANGED <<total, lcn, changes>>
    PROVE  ShrinkTyped'
<1>1. /\ pass' \in [target : Nat, file : 1 .. FileCount + 1, scan : Nat,
                    chunk : SUBSET (0 .. Clusters - 1), bitmap : SUBSET Nat,
                    attempts : 0 .. MaxAttempts - 1, moved : BOOLEAN,
                    excused : BOOLEAN]
      /\ pass'.bitmap \subseteq pass'.chunk
  BY NewPassIs
<1>2. Placed(lcn, total)'
  BY DEF ShrinkTyped, Placed
<1>3. total' = total /\ lcn' = lcn /\ changes' = changes
  OBVIOUS
<1> QED BY ONLY ShrinkTyped, <1>1, <1>2, <1>3 DEF ShrinkTyped

LEMMA InvShrinkPrepare ==
    ASSUME ShrinkInv, NEW len \in Nat, len <= VolumeSectors,
           total <= len \div ClusterSectors, ShrinkPrepare(len)
    PROVE  ShrinkInv'
<1> DEFINE t == targetClusters(len)
<1>1. t \in Nat /\ t <= Front
  <2>1. t \in Int /\ t * ClusterSectors <= len - Reserved
    BY Sizes, DivBounds DEF targetClusters
  <2>2. len - Reserved \in Nat
    BY Sizes DEF ShrinkPrepare
  <2>3. t \in Nat
    BY <2>2, Sizes, DivNat DEF targetClusters
  <2>4. t * ClusterSectors \in Int
    BY <2>1, Sizes
  <2>5. t * ClusterSectors <= VolumeSectors - Reserved
    <3> HIDE DEF t
    <3> QED BY <2>1, <2>4, Sizes
  <2>6. t <= Front
    BY <2>1, <2>5, Sizes, DivLargest DEF Front
  <2> QED BY <2>1, <2>3, <2>6
<1>2. total \in Nat
  BY Sizes DEF ShrinkInv, ShrinkTyped
<1>3. thresholdLCN <= t
  BY <1>2, ThresholdBelowTarget DEF thresholdLCN
<1>4. pass' = newPass(t) /\ cmd' = "commit" /\ UNCHANGED <<total, lcn, changes>>
  BY DEF ShrinkPrepare
<1> HIDE DEF t
<1>5. thresholdLCN' = thresholdLCN
  BY <1>4 DEF thresholdLCN
<1>6. ShrinkTyped'
  BY <1>1, <1>4, PassBegins DEF ShrinkInv
<1>7. TargetInv' /\ WalkInv'
  BY <1>1, <1>3, <1>4, <1>5, NewPassIs DEF TargetInv, WalkInv
<1> QED BY <1>6, <1>7 DEF ShrinkInv

LEMMA InvCommitDenied ==
    ASSUME ShrinkInv, CommitDenied
    PROVE  ShrinkInv'
<1>1. pass.target \in Nat
  BY DEF ShrinkInv, ShrinkTyped
<1>2. /\ pass' = newPass(pass.target) /\ cmd' = "walk" /\ cmd = "commit"
      /\ UNCHANGED <<total, lcn, changes>>
      /\ \E c \in Used : c >= pass.target
  BY DEF CommitDenied
<1>3. thresholdLCN' = thresholdLCN /\ Used' = Used
  BY <1>2 DEF thresholdLCN, Used
<1>4. ShrinkTyped'
  BY <1>1, <1>2, PassBegins DEF ShrinkInv
<1>5. TargetInv'
  BY <1>1, <1>2, <1>3, NewPassIs DEF ShrinkInv, TargetInv, Shrinking
<1>6. WalkInv'
  <2>1. /\ pass'.target = pass.target /\ pass'.file = 1 /\ pass'.scan = 0
        /\ pass'.chunk = {} /\ pass'.bitmap = {}
    BY <1>1, <1>2, NewPassIs
  <2>2. \A c \in Nat : ~(c < 0)
    OBVIOUS
  <2>3. \A f \in Files : ~(f < 1)
    BY Sizes
  <2> QED BY <1>2, <1>3, <2>1, <2>2, <2>3 DEF WalkInv
<1> QED BY <1>4, <1>5, <1>6 DEF ShrinkInv

(* NTFS has no cluster in use beyond the new end. *)
LEMMA InvCommit ==
    ASSUME ShrinkInv, Commit
    PROVE  /\ ShrinkInv'
           /\ total' <= Front /\ total' <= total
<1> USE DEF ShrinkInv
<1>1. pass.target \in Nat /\ total \in 0 .. Clusters /\ Clusters \in Nat
  BY Sizes DEF ShrinkTyped
<1>2. /\ \A c \in Used : c < pass.target
      /\ total' = IF pass.target < total THEN pass.target ELSE total
      /\ cmd' = "copy" /\ UNCHANGED <<lcn, pass, changes>>
      /\ cmd = "commit"
  BY DEF Commit
<1>3. pass.target <= Front /\ Front \in Nat
  BY <1>2, Sizes DEF TargetInv, Shrinking
<1>4. total' \in 0 .. Clusters /\ total' <= Front /\ total' <= total
  BY <1>1, <1>2, <1>3
<1>5. Placed(lcn, total')
  <2>1. ASSUME NEW f \in Files PROVE lcn[f] \in Seq(0 .. total' - 1)
    <3> DEFINE k == lcn[f]
    <3>1. k \in Seq(0 .. total - 1)
      BY DEF ShrinkTyped, Placed
    <3>2. \A v \in DOMAIN k : k[v] \in Used
      BY UsedDef, UsedByIs
    <3> HIDE DEF k
    <3>3. Len(k) \in Nat /\ DOMAIN k = 1 .. Len(k)
          /\ \A v \in 1 .. Len(k) : k[v] \in 0 .. total - 1
      BY <3>1, ElementOfSeq, LenProperties
    <3>4. \A v \in 1 .. Len(k) : k[v] \in 0 .. total' - 1
      BY <1>1, <1>2, <3>2, <3>3
    <3>5. k = [v \in 1 .. Len(k) |-> k[v]]
      BY <3>1, LenProperties
    <3>6. k \in [1 .. Len(k) -> 0 .. total' - 1]
      BY <3>4, <3>5
    <3>7. k \in Seq(0 .. total' - 1)
      BY <3>3, <3>6, SeqOf
    <3> QED BY <3>7 DEF k
  <2> QED BY <2>1 DEF ShrinkTyped, Placed
<1>6. Placed(lcn, total)'
  BY <1>2, <1>5 DEF Placed
<1>7. ShrinkTyped'
  BY <1>2, <1>4, <1>6 DEF ShrinkTyped
<1>8. TargetInv' /\ WalkInv'
  BY <1>2 DEF TargetInv, WalkInv, Shrinking
<1> QED BY <1>4, <1>7, <1>8

LEMMA MinIs ==
    ASSUME NEW S, S \subseteq Nat, S # {}
    PROVE  Min(S) \in S /\ \A y \in S : Min(S) <= y
BY LeastExists DEF Min

LEMMA MaxIs ==
    ASSUME NEW S, NEW b \in Int, S \subseteq Int, \A x \in S : x <= b, S # {}
    PROVE  Max(S) \in S /\ \A y \in S : y <= Max(S)
<1>1. \E x \in S : \A y \in S : x >= y
  BY GreatestExists
<1>2. Max(S) \in S /\ \A y \in S : Max(S) >= y
  BY <1>1 DEF Max
<1> QED BY <1>2

(* What a step of the walk works with. *)
LEMMA WalkFacts ==
    ASSUME ShrinkInv
    PROVE  /\ total \in Nat /\ thresholdLCN \in Int /\ thresholdLCN <= total
           /\ pass.target \in Nat /\ pass.scan \in Nat /\ pass.file \in Nat
           /\ pass.chunk \subseteq Nat /\ pass.bitmap \subseteq Nat
           /\ \A c \in pass.chunk : c <= Clusters
           /\ candidates \subseteq Nat
           /\ candidates # {} =>
                 /\ Min(candidates) \in Nat
                 /\ Min(candidates) \in pass.chunk
                 /\ Min(candidates) \notin pass.bitmap
                 /\ pass.scan <= Min(candidates)
                 /\ Min(candidates) < thresholdLCN
                 /\ \A c \in pass.chunk : pass.scan <= c /\ c < Min(candidates)
                       => c \in pass.bitmap
<1>1. total \in Nat
  BY Sizes DEF ShrinkInv, ShrinkTyped
<1>2. thresholdLCN \in Int /\ thresholdLCN <= total
  BY <1>1, ThresholdIs
<1>3. /\ pass.target \in Nat /\ pass.scan \in Nat /\ pass.file \in Nat
      /\ pass.chunk \subseteq 0 .. Clusters - 1 /\ pass.bitmap \subseteq Nat
  BY Sizes DEF ShrinkInv, ShrinkTyped
<1>4. pass.chunk \subseteq Nat /\ \A c \in pass.chunk : c <= Clusters
  BY <1>3, Sizes
<1>5. candidates \subseteq Nat
  BY <1>4 DEF candidates
<1>6. ASSUME candidates # {}
      PROVE  /\ Min(candidates) \in Nat
             /\ Min(candidates) \in pass.chunk
             /\ Min(candidates) \notin pass.bitmap
             /\ pass.scan <= Min(candidates)
             /\ Min(candidates) < thresholdLCN
             /\ \A c \in pass.chunk : pass.scan <= c /\ c < Min(candidates)
                   => c \in pass.bitmap
  <2>1. Min(candidates) \in candidates /\ \A y \in candidates : Min(candidates) <= y
    BY <1>5, <1>6, MinIs
  <2> DEFINE t == Min(candidates)
  <2> HIDE DEF t
  <2>2. /\ t \in Nat /\ t \in pass.chunk /\ t \notin pass.bitmap
        /\ pass.scan <= t /\ t < thresholdLCN
    BY <1>5, <2>1 DEF candidates, t
  <2>3. ASSUME NEW c \in pass.chunk, pass.scan <= c, c < t,
               c \notin pass.bitmap
        PROVE  FALSE
    <3>1. c \in Nat /\ c < thresholdLCN
      BY <1>2, <1>4, <2>2, <2>3
    <3>2. c \in candidates
      BY <2>3, <3>1 DEF candidates
    <3> QED BY <2>1, <2>2, <2>3, <3>1, <3>2 DEF t
  <2> QED BY <2>2, <2>3 DEF t
<1> QED BY <1>1, <1>2, <1>3, <1>4, <1>5, <1>6

(* The steps of the walk that change nothing but the pass. *)
LEMMA PassStep ==
    ASSUME ShrinkInv, cmd = "walk", UNCHANGED <<cmd, total, lcn, changes>>,
           pass' \in [target : Nat, file : 1 .. FileCount + 1, scan : Nat,
                      chunk : SUBSET (0 .. Clusters - 1), bitmap : SUBSET Nat,
                      attempts : 0 .. MaxAttempts - 1, moved : BOOLEAN,
                      excused : BOOLEAN],
           pass'.bitmap \subseteq pass'.chunk,
           pass'.target = pass.target, pass'.moved = pass.moved,
           pass'.scan >= pass.scan,
           ~pass'.excused =>
              /\ ~pass.excused
              /\ \A c \in Nat : pass.scan <= c /\ c < pass'.scan /\ c < thresholdLCN
                    => c \in Used
              /\ \A c \in pass'.bitmap : c < thresholdLCN => c \in Used
              /\ \A d \in pass'.chunk, x \in Nat :
                    pass'.scan <= x /\ x <= d => x \in pass'.chunk
              /\ \A f \in Files : f < pass'.file /\ ~(f < pass.file) =>
                    \A v \in DOMAIN lcn[f] :
                       lcn[f][v] >= pass.target => pass'.scan >= thresholdLCN
    PROVE  ShrinkInv'
<1>1. ShrinkTyped'
  BY DEF ShrinkInv, ShrinkTyped, Placed
<1>2. thresholdLCN' = thresholdLCN /\ Used' = Used
  BY DEF thresholdLCN, Used
<1>3. TargetInv'
  BY <1>2 DEF ShrinkInv, TargetInv, Shrinking
<1>4. WalkInv'
  <2> SUFFICES ASSUME ~pass'.excused PROVE WalkInv'
    BY DEF WalkInv
  <2>1. /\ ~pass.moved => \E c \in Used : c >= pass.target
        /\ \A c \in Nat : c < pass.scan /\ c < thresholdLCN => c \in Used
        /\ \A f \in Files : f < pass.file =>
              \A v \in DOMAIN lcn[f] :
                 lcn[f][v] >= pass.target => pass.scan >= thresholdLCN
    BY DEF ShrinkInv, WalkInv
  <2>2. thresholdLCN \in Int /\ pass.scan \in Nat /\ pass'.scan \in Nat
    BY WalkFacts
  <2>3. \A c \in Nat : c < pass'.scan /\ c < thresholdLCN => c \in Used
    BY <2>1, <2>2
  <2>4. \A f \in Files : f < pass'.file =>
           \A v \in DOMAIN lcn[f] :
              lcn[f][v] >= pass.target => pass'.scan >= thresholdLCN
    <3> SUFFICES ASSUME NEW f \in Files, f < pass'.file, NEW v \in DOMAIN lcn[f],
                        lcn[f][v] >= pass.target
                 PROVE  pass'.scan >= thresholdLCN
      OBVIOUS
    <3>1. CASE f < pass.file
      BY <2>1, <2>2, <3>1
    <3>2. CASE ~(f < pass.file)
      BY <3>2
    <3> QED BY <3>1, <3>2
  <2> QED BY <1>2, <2>1, <2>3, <2>4 DEF WalkInv
<1> QED BY <1>1, <1>3, <1>4 DEF ShrinkInv

(* The bitmap shows everything between the scanner and the first candidate *)
(* in use.                                                                 *)
LEMMA ScannedIsUsed ==
    ASSUME ShrinkInv, cmd = "walk", ~pass.excused, candidates # {}
    PROVE  /\ \A c \in Nat : pass.scan <= c /\ c < Min(candidates) => c \in Used
           /\ \A c \in pass.bitmap : c < thresholdLCN => c \in Used
           /\ \A d \in pass.chunk, x \in Nat :
                 pass.scan <= x /\ x <= d => x \in pass.chunk
<1> DEFINE t == Min(candidates)
<1>1. /\ t \in Nat /\ t \in pass.chunk /\ pass.scan <= t /\ t < thresholdLCN
      /\ \A c \in pass.chunk : pass.scan <= c /\ c < t => c \in pass.bitmap
      /\ pass.scan \in Nat /\ thresholdLCN \in Int
  BY WalkFacts
<1> HIDE DEF t
<1>2. /\ \A c \in pass.bitmap : c < thresholdLCN => c \in Used
      /\ \A d \in pass.chunk, x \in Nat :
            pass.scan <= x /\ x <= d => x \in pass.chunk
  BY DEF ShrinkInv, WalkInv
<1>3. ASSUME NEW c \in Nat, pass.scan <= c, c < t PROVE c \in Used
  <2>1. c \in pass.chunk
    BY <1>1, <1>2, <1>3
  <2> QED BY <1>1, <1>2, <1>3, <2>1
<1> QED BY <1>2, <1>3 DEF t

LEMMA InvLoadBitmap ==
    ASSUME ShrinkInv, loadBitmap
    PROVE  ShrinkInv'
<1> DEFINE chunk == {c \in 0 .. total - 1 :
                        pass.scan <= c /\ c < pass.scan + ChunkClusters}
<1>1. /\ cmd = "walk" /\ UNCHANGED <<cmd, total, lcn, changes>>
      /\ pass' = [pass EXCEPT !.chunk = chunk, !.bitmap = Used \cap chunk]
  BY DEF loadBitmap, Seeking, Visiting
<1>2. chunk \in SUBSET (0 .. Clusters - 1) /\ Used \cap chunk \in SUBSET Nat
      /\ \A d \in chunk, x \in Nat : pass.scan <= x /\ x <= d => x \in chunk
  <2>1. total \in 0 .. Clusters /\ pass.scan \in Nat /\ Clusters \in Nat
        /\ ChunkClusters \in Nat
    BY Sizes DEF ShrinkInv, ShrinkTyped
  <2>2. chunk \subseteq 0 .. Clusters - 1 /\ chunk \subseteq Nat
    BY <2>1
  <2>3. \A d \in chunk, x \in Nat : pass.scan <= x /\ x <= d => x \in chunk
    BY <2>1
  <2> QED BY <2>2, <2>3
<1> HIDE DEF chunk
<1>3. /\ pass' \in [target : Nat, file : 1 .. FileCount + 1, scan : Nat,
                    chunk : SUBSET (0 .. Clusters - 1), bitmap : SUBSET Nat,
                    attempts : 0 .. MaxAttempts - 1, moved : BOOLEAN,
                    excused : BOOLEAN]
      /\ pass'.chunk = chunk /\ pass'.bitmap = Used \cap chunk
      /\ pass'.target = pass.target /\ pass'.moved = pass.moved
      /\ pass'.scan = pass.scan /\ pass'.file = pass.file
      /\ pass'.excused = pass.excused
  BY <1>1, <1>2 DEF ShrinkInv, ShrinkTyped
<1>4. \A c \in Nat : ~(pass.scan <= c /\ c < pass.scan) /\ pass.scan >= pass.scan
  BY WalkFacts
<1> QED BY <1>1, <1>2, <1>3, <1>4, PassStep

(* The bitmap showed every cluster up to the end of what was read. *)
LEMMA InvSkipUsed ==
    ASSUME ShrinkInv, SkipUsed
    PROVE  ShrinkInv'
<1>1. /\ cmd = "walk" /\ UNCHANGED <<cmd, total, lcn, changes>>
      /\ pass.scan \in pass.chunk /\ candidates = {}
      /\ pass' = [pass EXCEPT !.scan = Max(pass.chunk) + 1]
  BY DEF SkipUsed, Seeking, Visiting
<1>2. /\ pass.chunk \subseteq Nat /\ \A c \in pass.chunk : c <= Clusters
      /\ pass.scan \in Nat /\ thresholdLCN \in Int
  BY WalkFacts
<1> DEFINE e == Max(pass.chunk)
<1>3. e \in pass.chunk /\ \A y \in pass.chunk : y <= e
  BY <1>1, <1>2, Sizes, MaxIs
<1> HIDE DEF e
<1>4. e \in Nat /\ pass.scan <= e
  BY <1>1, <1>2, <1>3
<1>5. /\ pass' \in [target : Nat, file : 1 .. FileCount + 1, scan : Nat,
                    chunk : SUBSET (0 .. Clusters - 1), bitmap : SUBSET Nat,
                    attempts : 0 .. MaxAttempts - 1, moved : BOOLEAN,
                    excused : BOOLEAN]
      /\ pass'.chunk = pass.chunk /\ pass'.bitmap = pass.bitmap
      /\ pass'.target = pass.target /\ pass'.moved = pass.moved
      /\ pass'.scan = e + 1 /\ pass'.file = pass.file
      /\ pass'.excused = pass.excused
  <2>1. pass' = [pass EXCEPT !.scan = e + 1] /\ e + 1 \in Nat
    BY <1>1, <1>4 DEF e
  <2> QED BY <2>1 DEF ShrinkInv, ShrinkTyped
<1>6. pass'.scan >= pass.scan /\ pass.bitmap \subseteq pass.chunk
  BY <1>2, <1>4, <1>5 DEF ShrinkInv, ShrinkTyped
<1>7. ASSUME ~pass.excused
      PROVE  /\ \A c \in Nat : pass.scan <= c /\ c < e + 1 /\ c < thresholdLCN
                   => c \in Used
             /\ \A c \in pass.bitmap : c < thresholdLCN => c \in Used
             /\ \A d \in pass.chunk, x \in Nat :
                   e + 1 <= x /\ x <= d => x \in pass.chunk
  <2>1. /\ \A c \in pass.bitmap : c < thresholdLCN => c \in Used
        /\ \A d \in pass.chunk, x \in Nat :
              pass.scan <= x /\ x <= d => x \in pass.chunk
    BY <1>1, <1>7 DEF ShrinkInv, WalkInv
  <2>2. ASSUME NEW c \in Nat, pass.scan <= c, c < e + 1, c < thresholdLCN
        PROVE  c \in Used
    <3>1. c \in pass.chunk
      BY <1>1, <1>3, <1>4, <2>1, <2>2
    <3>2. c \in pass.bitmap
      BY <1>1, <2>2, <3>1 DEF candidates
    <3> QED BY <2>1, <2>2, <3>2
  <2>3. \A d \in pass.chunk, x \in Nat :
           e + 1 <= x /\ x <= d => x \in pass.chunk
    BY <1>2, <1>4, <2>1
  <2> QED BY <2>1, <2>2, <2>3
<1> QED BY <1>1, <1>5, <1>6, <1>7, PassStep

LEMMA NextFileNumber ==
    ASSUME ShrinkInv, pass.file <= FileCount
    PROVE  0 \in 0 .. MaxAttempts - 1 /\ pass.file + 1 \in 1 .. FileCount + 1
<1>1. MaxAttempts \in Nat \ {0} /\ FileCount \in Nat
  BY Sizes
<1>2. pass.file \in 1 .. FileCount + 1
  BY ONLY ShrinkInv, Zenon DEF ShrinkInv, ShrinkTyped
<1> QED BY ONLY <1>1, <1>2, pass.file <= FileCount

(* The target is taken: it, and all before it, is in use. *)
LEMMA InvMoveFails ==
    ASSUME ShrinkInv, MoveFails
    PROVE  ShrinkInv'
<1> DEFINE t == Min(candidates)
<1>1. /\ cmd = "walk" /\ UNCHANGED <<cmd, total, lcn, changes>>
      /\ pass.file <= FileCount
      /\ candidates # {} /\ t \in Used
      /\ pass' = IF pass.attempts + 1 < MaxAttempts
                   THEN [pass EXCEPT !.scan = t + 1, !.attempts = @ + 1]
                   ELSE [pass EXCEPT !.scan = t + 1, !.attempts = 0,
                                     !.file = @ + 1, !.excused = TRUE]
  BY DEF MoveFails, Seeking, Visiting
<1>2. /\ t \in Nat /\ t \in pass.chunk /\ pass.scan <= t /\ t < thresholdLCN
      /\ \A c \in pass.chunk : pass.scan <= c /\ c < t => c \in pass.bitmap
      /\ pass.scan \in Nat /\ thresholdLCN \in Int
  BY <1>1, WalkFacts
<1> HIDE DEF t
<1>3. /\ pass' \in [target : Nat, file : 1 .. FileCount + 1, scan : Nat,
                    chunk : SUBSET (0 .. Clusters - 1), bitmap : SUBSET Nat,
                    attempts : 0 .. MaxAttempts - 1, moved : BOOLEAN,
                    excused : BOOLEAN]
      /\ pass'.chunk = pass.chunk /\ pass'.bitmap = pass.bitmap
      /\ pass'.target = pass.target /\ pass'.moved = pass.moved
      /\ pass'.scan = t + 1
      /\ ~pass'.excused => ~pass.excused /\ pass'.file = pass.file
  <2>1. t + 1 \in Nat
    BY <1>2
  <2>2. CASE pass.attempts + 1 < MaxAttempts
    <3>1. pass.attempts + 1 \in 0 .. MaxAttempts - 1
      BY <2>2, Sizes DEF ShrinkInv, ShrinkTyped
    <3>2. pass' = [pass EXCEPT !.scan = t + 1, !.attempts = pass.attempts + 1]
      BY <1>1, <2>2
    <3> QED BY <2>1, <3>1, <3>2 DEF ShrinkInv, ShrinkTyped
  <2>3. CASE ~(pass.attempts + 1 < MaxAttempts)
    <3>1. 0 \in 0 .. MaxAttempts - 1 /\ pass.file + 1 \in 1 .. FileCount + 1
      BY <1>1, NextFileNumber
    <3>2. pass' = [pass EXCEPT !.scan = t + 1, !.attempts = 0,
                               !.file = pass.file + 1, !.excused = TRUE]
      BY <1>1, <2>3
    <3> QED BY <2>1, <3>1, <3>2 DEF ShrinkInv, ShrinkTyped
  <2> QED BY <2>2, <2>3
<1>4. pass'.scan >= pass.scan /\ pass.bitmap \subseteq pass.chunk
  BY <1>2, <1>3 DEF ShrinkInv, ShrinkTyped
<1>5. ASSUME ~pass.excused
      PROVE  /\ \A c \in Nat : pass.scan <= c /\ c < t + 1 /\ c < thresholdLCN
                   => c \in Used
             /\ \A c \in pass.bitmap : c < thresholdLCN => c \in Used
             /\ \A d \in pass.chunk, x \in Nat :
                   t + 1 <= x /\ x <= d => x \in pass.chunk
  <2>1. /\ \A c \in Nat : pass.scan <= c /\ c < t => c \in Used
        /\ \A c \in pass.bitmap : c < thresholdLCN => c \in Used
        /\ \A d \in pass.chunk, x \in Nat :
              pass.scan <= x /\ x <= d => x \in pass.chunk
    BY <1>1, <1>5, ScannedIsUsed DEF t
  <2>2. \A c \in Nat : c < t + 1 => c < t \/ c = t
    BY <1>2
  <2>3. \A x \in Nat : t + 1 <= x => pass.scan <= x
    BY <1>2
  <2> QED BY <1>1, <2>1, <2>2, <2>3
<1> QED BY <1>1, <1>3, <1>4, <1>5, PassStep

LEMMA InvNextFile ==
    ASSUME ShrinkInv, NextFile
    PROVE  ShrinkInv'
<1>1. /\ cmd = "walk" /\ UNCHANGED <<cmd, total, lcn, changes>>
      /\ pass.file <= FileCount
      /\ tailVcns(pass.file) = {} \/ ~(pass.scan < thresholdLCN)
      /\ pass' = [pass EXCEPT !.file = pass.file + 1, !.attempts = 0]
  BY DEF NextFile, Seeking, Visiting
<1>2. /\ pass' \in [target : Nat, file : 1 .. FileCount + 1, scan : Nat,
                    chunk : SUBSET (0 .. Clusters - 1), bitmap : SUBSET Nat,
                    attempts : 0 .. MaxAttempts - 1, moved : BOOLEAN,
                    excused : BOOLEAN]
      /\ pass'.chunk = pass.chunk /\ pass'.bitmap = pass.bitmap
      /\ pass'.target = pass.target /\ pass'.moved = pass.moved
      /\ pass'.scan = pass.scan /\ pass'.file = pass.file + 1
      /\ pass'.excused = pass.excused
  <2>1. 0 \in 0 .. MaxAttempts - 1 /\ pass.file + 1 \in 1 .. FileCount + 1
    BY <1>1, NextFileNumber
  <2> QED BY <1>1, <2>1 DEF ShrinkInv, ShrinkTyped
<1>3. /\ pass.scan \in Nat /\ thresholdLCN \in Int /\ pass.target \in Nat
      /\ pass.file \in Nat
  BY WalkFacts
<1>4. pass.bitmap \subseteq pass.chunk /\ thresholdLCN <= pass.target
  BY <1>1 DEF ShrinkInv, ShrinkTyped, TargetInv, Shrinking
<1>5. ASSUME NEW f \in Files, f < pass.file + 1, ~(f < pass.file),
             NEW v \in DOMAIN lcn[f], lcn[f][v] >= pass.target
      PROVE  pass.scan >= thresholdLCN
  <2>1. f = pass.file
    BY <1>3, <1>5, Sizes
  <2>2. lcn[f][v] \in Nat
    <3>1. lcn[f] \in Seq(Nat)
      BY DEF ShrinkInv, ShrinkTyped
    <3> QED BY <3>1
  <2>3. v \in tailVcns(pass.file)
    BY <1>3, <1>4, <1>5, <2>1, <2>2 DEF tailVcns
  <2> QED BY <1>1, <1>3, <2>3
<1>6. \A c \in Nat : ~(pass.scan <= c /\ c < pass.scan) /\ pass.scan >= pass.scan
  BY <1>3
<1>7. ~pass.excused =>
         /\ \A c \in pass.bitmap : c < thresholdLCN => c \in Used
         /\ \A d \in pass.chunk, x \in Nat :
               pass.scan <= x /\ x <= d => x \in pass.chunk
  BY <1>1 DEF ShrinkInv, WalkInv
<1> QED BY <1>1, <1>2, <1>4, <1>5, <1>6, <1>7, PassStep

LEMMA InvSkipFile ==
    ASSUME ShrinkInv, SkipFile
    PROVE  ShrinkInv'
<1>1. /\ cmd = "walk" /\ UNCHANGED <<cmd, total, lcn, changes>>
      /\ pass.file <= FileCount
      /\ pass' = [pass EXCEPT !.file = pass.file + 1, !.attempts = 0,
                              !.excused = TRUE]
  BY DEF SkipFile, Visiting
<1>2. /\ pass' \in [target : Nat, file : 1 .. FileCount + 1, scan : Nat,
                    chunk : SUBSET (0 .. Clusters - 1), bitmap : SUBSET Nat,
                    attempts : 0 .. MaxAttempts - 1, moved : BOOLEAN,
                    excused : BOOLEAN]
      /\ pass'.chunk = pass.chunk /\ pass'.bitmap = pass.bitmap
      /\ pass'.target = pass.target /\ pass'.moved = pass.moved
      /\ pass'.scan = pass.scan /\ pass'.excused
  <2>1. 0 \in 0 .. MaxAttempts - 1 /\ pass.file + 1 \in 1 .. FileCount + 1
    BY <1>1, NextFileNumber
  <2> QED BY <1>1, <2>1 DEF ShrinkInv, ShrinkTyped
<1>3. pass.bitmap \subseteq pass.chunk /\ pass.scan >= pass.scan
  BY WalkFacts DEF ShrinkInv, ShrinkTyped
<1> QED BY <1>1, <1>2, <1>3, PassStep

(* A tail cluster goes to the first candidate. *)
LEMMA InvMoveCluster ==
    ASSUME ShrinkInv, MoveCluster
    PROVE  ShrinkInv'
<1> DEFINE t == Min(candidates)
           f == pass.file
           v == Min(tailVcns(f))
<1>1. /\ cmd = "walk" /\ UNCHANGED <<cmd, total, changes>>
      /\ f <= FileCount /\ tailVcns(f) # {} /\ candidates # {} /\ t \notin Used
      /\ lcn' = [lcn EXCEPT ![f][v] = t]
      /\ pass' = [pass EXCEPT !.scan = t + 1, !.attempts = 0, !.moved = TRUE]
  BY DEF MoveCluster, Seeking, Visiting
<1>2. /\ t \in Nat /\ t \in pass.chunk /\ pass.scan <= t /\ t < thresholdLCN
      /\ pass.scan \in Nat /\ thresholdLCN \in Int /\ thresholdLCN <= total
      /\ total \in Nat
  BY <1>1, WalkFacts
<1>3. f \in Files /\ lcn \in [Files -> Seq(Nat)] /\ Placed(lcn, total)
  BY <1>1, Sizes DEF ShrinkInv, ShrinkTyped
<1>4. v \in DOMAIN lcn[f] /\ lcn[f][v] >= thresholdLCN
  <2>1. tailVcns(f) \subseteq Nat
    <3>1. lcn[f] \in Seq(Nat)
      BY <1>3
    <3>2. DOMAIN lcn[f] \subseteq Nat
      BY <3>1
    <3> QED BY <3>2 DEF tailVcns
  <2>2. v \in tailVcns(f)
    BY <1>1, <2>1, MinIs
  <2> QED BY <2>2 DEF tailVcns
<1> HIDE DEF t, f, v
<1>5. /\ lcn' \in [Files -> Seq(Nat)] /\ Placed(lcn', total)
      /\ \A g \in Files : DOMAIN lcn'[g] = DOMAIN lcn[g]
      /\ \A g \in Files : \A w \in DOMAIN lcn[g] :
            lcn'[g][w] = IF g = f /\ w = v THEN t ELSE lcn[g][w]
  <2>1. t \in 0 .. total - 1 /\ t \notin UsedBy(lcn)
    BY <1>1, <1>2, UsedDef
  <2> DEFINE m == [lcn EXCEPT ![f][v] = t]
  <2>2. /\ m \in [Files -> Seq(Nat)] /\ Placed(m, total)
        /\ \A g \in Files : DOMAIN m[g] = DOMAIN lcn[g]
        /\ \A g \in Files : \A w \in DOMAIN lcn[g] :
              m[g][w] = IF g = f /\ w = v THEN t ELSE lcn[g][w]
    BY <1>2, <1>3, <1>4, <2>1, PlacedMove
  <2>3. lcn' = m
    BY <1>1
  <2> HIDE DEF m
  <2> QED BY <2>2, <2>3
<1>6. /\ pass' \in [target : Nat, file : 1 .. FileCount + 1, scan : Nat,
                    chunk : SUBSET (0 .. Clusters - 1), bitmap : SUBSET Nat,
                    attempts : 0 .. MaxAttempts - 1, moved : BOOLEAN,
                    excused : BOOLEAN]
      /\ pass'.chunk = pass.chunk /\ pass'.bitmap = pass.bitmap
      /\ pass'.target = pass.target /\ pass'.moved /\ pass'.scan = t + 1
      /\ pass'.excused = pass.excused /\ pass'.file = pass.file
  <2>1. t + 1 \in Nat /\ 0 \in 0 .. MaxAttempts - 1
    BY <1>2, Sizes
  <2> QED BY <1>1, <2>1 DEF ShrinkInv, ShrinkTyped
<1>7. thresholdLCN' = thresholdLCN
  BY <1>1 DEF thresholdLCN
<1>8. ShrinkTyped'
  <2>1. Placed(lcn, total)'
    BY <1>1, <1>5 DEF Placed
  <2> QED BY <1>1, <1>5, <1>6, <2>1 DEF ShrinkInv, ShrinkTyped
<1>9. TargetInv'
  BY <1>1, <1>6, <1>7 DEF ShrinkInv, TargetInv, Shrinking
<1>10. ASSUME NEW c \in Used, c < thresholdLCN PROVE c \in Used'
  <2>1. PICK g \in Files : \E w \in DOMAIN lcn[g] : c = lcn[g][w]
    BY UsedDef, UsedByIs
  <2>2. PICK w \in DOMAIN lcn[g] : c = lcn[g][w]
    BY <2>1
  <2>3. c \in Nat /\ lcn[f][v] \in Nat
    <3>1. lcn[g] \in Seq(Nat) /\ lcn[f] \in Seq(Nat)
      BY <1>3
    <3> QED BY <1>4, <2>2, <3>1
  <2>4. ~(g = f /\ w = v)
    BY <1>2, <1>4, <1>10, <2>2, <2>3
  <2>5. w \in DOMAIN lcn'[g] /\ lcn'[g][w] = c
    BY <1>5, <2>2, <2>4
  <2> QED BY <2>5, UsedDef, UsedByIs
<1>11. t \in Used'
  <2>1. v \in DOMAIN lcn'[f] /\ lcn'[f][v] = t
    BY <1>3, <1>4, <1>5
  <2> QED BY <1>3, <2>1, UsedDef, UsedByIs
<1>12. WalkInv'
  <2> SUFFICES ASSUME ~pass.excused PROVE WalkInv'
    BY <1>6 DEF WalkInv
  <2>1. /\ \A c \in Nat : pass.scan <= c /\ c < t => c \in Used
        /\ \A c \in pass.bitmap : c < thresholdLCN => c \in Used
        /\ \A d \in pass.chunk, x \in Nat :
              pass.scan <= x /\ x <= d => x \in pass.chunk
    BY <1>1, ScannedIsUsed DEF t
  <2>2. /\ \A c \in Nat : c < pass.scan /\ c < thresholdLCN => c \in Used
        /\ \A g \in Files : g < pass.file =>
              \A w \in DOMAIN lcn[g] :
                 lcn[g][w] >= pass.target => pass.scan >= thresholdLCN
    BY <1>1 DEF ShrinkInv, WalkInv
  <2>3. ASSUME NEW c \in Nat, c < t + 1, c < thresholdLCN PROVE c \in Used'
    <3>1. c < pass.scan \/ (pass.scan <= c /\ c < t) \/ c = t
      BY <1>2, <2>3
    <3> QED BY <1>10, <1>11, <2>1, <2>2, <2>3, <3>1
  <2>4. \A c \in pass.bitmap : c < thresholdLCN => c \in Used'
    BY <1>10, <2>1
  <2>5. \A d \in pass.chunk, x \in Nat :
           t + 1 <= x /\ x <= d => x \in pass.chunk
    <3>1. \A x \in Nat : t + 1 <= x => pass.scan <= x
      BY <1>2
    <3> QED BY <2>1, <3>1
  <2>6. ASSUME NEW g \in Files, g < pass.file, NEW w \in DOMAIN lcn'[g],
               lcn'[g][w] >= pass.target
        PROVE  t + 1 >= thresholdLCN
    <3>1. g # f
      BY <2>6, Sizes DEF f
    <3>2. w \in DOMAIN lcn[g] /\ lcn'[g][w] = lcn[g][w]
      BY <1>5, <3>1
    <3>3. pass.scan >= thresholdLCN
      BY <2>2, <2>6, <3>2
    <3> QED BY <1>2, <3>3
  <2> QED BY <1>1, <1>6, <1>7, <2>3, <2>4, <2>5, <2>6 DEF WalkInv
<1> QED BY <1>8, <1>9, <1>12 DEF ShrinkInv

(* Once a shrink is prepared nothing is allocated beyond the new end. *)
LEMMA InvAllocate ==
    ASSUME ShrinkInv, NEW f \in Files, NEW c \in 0 .. total - 1, Allocate(f, c)
    PROVE  ShrinkInv'
<1>1. /\ UNCHANGED <<cmd, total, pass>> /\ c \notin Used
      /\ c < (IF Shrinking /\ pass.target < total THEN pass.target ELSE total)
      /\ lcn' = [lcn EXCEPT ![f] = Append(@, c)] /\ changes' = changes + 1
  BY DEF Allocate
<1>2. total \in Nat /\ pass.target \in Nat
  BY WalkFacts
<1>3. lcn \in [Files -> Seq(Nat)] /\ Placed(lcn, total)
  BY DEF ShrinkInv, ShrinkTyped
<1>4. /\ lcn' \in [Files -> Seq(Nat)] /\ Placed(lcn', total)
      /\ Used \subseteq Used'
      /\ \A g \in Files : \A w \in DOMAIN lcn'[g] :
            lcn'[g][w] = c \/ (w \in DOMAIN lcn[g] /\ lcn'[g][w] = lcn[g][w])
  <2>1. c \notin UsedBy(lcn)
    BY <1>1, UsedDef
  <2>2. /\ lcn' \in [Files -> Seq(Nat)] /\ Placed(lcn', total)
        /\ UsedBy(lcn) \subseteq UsedBy(lcn')
        /\ \A g \in Files : \A w \in DOMAIN lcn'[g] :
              lcn'[g][w] = c \/ (w \in DOMAIN lcn[g] /\ lcn'[g][w] = lcn[g][w])
    <3>1. lcn' = Grown(lcn, f, c)
      BY <1>1 DEF Grown
    <3>2. f \in Files /\ c \in 0 .. total - 1
      OBVIOUS
    <3> QED BY ONLY <1>2, <1>3, <2>1, <3>1, <3>2, PlacedGrow
  <2> QED BY <2>2, UsedDef
<1>5. ShrinkTyped'
  <2>1. Placed(lcn, total)'
    BY <1>1, <1>4 DEF Placed
  <2>2. changes' \in Nat
    BY <1>1 DEF ShrinkInv, ShrinkTyped
  <2> QED BY <1>1, <1>4, <2>1, <2>2 DEF ShrinkInv, ShrinkTyped
<1>6. thresholdLCN' = thresholdLCN
  BY <1>1 DEF thresholdLCN
<1>7. TargetInv'
  BY <1>1, <1>6 DEF ShrinkInv, TargetInv, Shrinking
<1>8. WalkInv'
  <2> SUFFICES ASSUME cmd = "walk", ~pass.excused PROVE WalkInv'
    BY <1>1 DEF WalkInv
  <2>1. /\ ~pass.moved => \E x \in Used : x >= pass.target
        /\ \A x \in Nat : x < pass.scan /\ x < thresholdLCN => x \in Used
        /\ \A x \in pass.bitmap : x < thresholdLCN => x \in Used
        /\ \A d \in pass.chunk, x \in Nat :
              pass.scan <= x /\ x <= d => x \in pass.chunk
        /\ \A g \in Files : g < pass.file =>
              \A w \in DOMAIN lcn[g] :
                 lcn[g][w] >= pass.target => pass.scan >= thresholdLCN
    BY DEF ShrinkInv, WalkInv
  <2>2. ~(c >= pass.target)
    BY <1>1, <1>2 DEF Shrinking
  <2>3. ASSUME NEW g \in Files, g < pass.file, NEW w \in DOMAIN lcn'[g],
               lcn'[g][w] >= pass.target
        PROVE  pass.scan >= thresholdLCN
    BY <1>4, <2>1, <2>2, <2>3
  <2> QED BY <1>1, <1>4, <1>6, <2>1, <2>3 DEF WalkInv
<1> QED BY <1>5, <1>7, <1>8 DEF ShrinkInv

LEMMA InvFree ==
    ASSUME ShrinkInv, NEW f \in Files, Free(f)
    PROVE  ShrinkInv'
<1>1. /\ UNCHANGED <<cmd, total>> /\ changes' = changes + 1
      /\ lcn' = [lcn EXCEPT ![f] = SubSeq(@, 1, Len(@) - 1)]
      /\ pass' = [pass EXCEPT !.excused = Shrinking]
  BY DEF Free
<1>2. total \in Nat /\ lcn \in [Files -> Seq(Nat)] /\ Placed(lcn, total)
  BY WalkFacts DEF ShrinkInv, ShrinkTyped
<1>3. lcn' \in [Files -> Seq(Nat)] /\ Placed(lcn', total)
  BY <1>1, <1>2, PlacedDrop
<1>4. /\ pass' \in [target : Nat, file : 1 .. FileCount + 1, scan : Nat,
                    chunk : SUBSET (0 .. Clusters - 1), bitmap : SUBSET Nat,
                    attempts : 0 .. MaxAttempts - 1, moved : BOOLEAN,
                    excused : BOOLEAN]
      /\ pass'.chunk = pass.chunk /\ pass'.bitmap = pass.bitmap
      /\ pass'.target = pass.target /\ pass'.excused = Shrinking
  <2>1. Shrinking \in BOOLEAN
    BY DEF Shrinking
  <2> QED BY <1>1, <2>1 DEF ShrinkInv, ShrinkTyped
<1>5. ShrinkTyped'
  <2>1. Placed(lcn, total)'
    BY <1>1, <1>3 DEF Placed
  <2>2. changes' \in Nat
    BY <1>1 DEF ShrinkInv, ShrinkTyped
  <2> QED BY <1>1, <1>3, <1>4, <2>1, <2>2 DEF ShrinkInv, ShrinkTyped
<1>6. thresholdLCN' = thresholdLCN
  BY <1>1 DEF thresholdLCN
<1>7. TargetInv'
  BY <1>1, <1>4, <1>6 DEF ShrinkInv, TargetInv, Shrinking
<1>8. WalkInv'
  BY <1>1, <1>4 DEF WalkInv, Shrinking
<1> QED BY <1>5, <1>7, <1>8 DEF ShrinkInv

LEMMA InvOtherPrograms ==
    ASSUME ShrinkInv, OtherPrograms
    PROVE  ShrinkInv' /\ cmd' = cmd /\ total' = total
<1>1. ASSUME NEW f \in Files, Free(f) PROVE ShrinkInv' /\ cmd' = cmd /\ total' = total
  BY <1>1, InvFree DEF Free
<1>2. ASSUME NEW f \in Files, NEW c \in 0 .. total - 1, Allocate(f, c)
      PROVE  ShrinkInv' /\ cmd' = cmd /\ total' = total
  BY <1>2, InvAllocate DEF Allocate
<1> QED BY <1>1, <1>2 DEF OtherPrograms

(* A step of ShrinkVolumeTail on a volume that says it has len sectors: it *)
(* goes on to the copy only by a commit.                                   *)
LEMMA InvShrinkStep ==
    ASSUME ShrinkInv, NEW len \in Nat, len <= VolumeSectors,
           cmd = "shrink" => total <= len \div ClusterSectors, ShrinkStep(len)
    PROVE  /\ ShrinkInv'
           /\ cmd \in {"shrink", "commit", "walk"}
           /\ cmd' \in {"commit", "walk", "copy", "return"}
           /\ total' <= total
           /\ cmd' = "copy" => total' <= Front
<1>1. total <= total
  BY WalkFacts
<1>2. CASE ShrinkPrepare(len)
  BY <1>1, <1>2, InvShrinkPrepare DEF ShrinkPrepare
<1>3. CASE Commit
  BY <1>3, InvCommit DEF Commit
<1>4. CASE CommitDenied
  BY <1>1, <1>4, InvCommitDenied DEF CommitDenied
<1>5. CASE ShrinkPrepareFails \/ CommitFails \/ WalkError \/ GiveUp
  <2>1. /\ cmd \in {"shrink", "commit", "walk"} /\ cmd' = "return"
        /\ UNCHANGED <<total, lcn, pass, changes>>
    BY <1>5 DEF ShrinkPrepareFails, CommitFails, WalkError, GiveUp, Visiting
  <2> QED BY <1>1, <2>1, ShrinkFrame
<1>6. CASE Retry
  <2>1. /\ cmd = "walk" /\ cmd' = "commit" /\ UNCHANGED <<total, lcn, pass, changes>>
    BY <1>6 DEF Retry
  <2>2. thresholdLCN' = thresholdLCN
    BY <2>1 DEF thresholdLCN
  <2>3. ShrinkInv'
    BY <2>1, <2>2 DEF ShrinkInv, ShrinkTyped, Placed, TargetInv, WalkInv, Shrinking
  <2> QED BY <1>1, <2>1, <2>3
<1>7. CASE loadBitmap
  BY <1>1, <1>7, InvLoadBitmap DEF loadBitmap, Seeking, Visiting
<1>8. CASE SkipUsed
  BY <1>1, <1>8, InvSkipUsed DEF SkipUsed, Seeking, Visiting
<1>9. CASE MoveCluster
  BY <1>1, <1>9, InvMoveCluster DEF MoveCluster, Seeking, Visiting
<1>10. CASE MoveFails
  BY <1>1, <1>10, InvMoveFails DEF MoveFails, Seeking, Visiting
<1>11. CASE NextFile
  BY <1>1, <1>11, InvNextFile DEF NextFile, Visiting
<1>12. CASE SkipFile
  BY <1>1, <1>12, InvSkipFile DEF SkipFile, Visiting
<1> QED BY <1>2, <1>3, <1>4, <1>5, <1>6, <1>7, <1>8, <1>9, <1>10, <1>11, <1>12
        DEF ShrinkStep

(* A pass that ends without a move and without an excuse has found the     *)
(* volume full below the threshold.                                        *)
LEMMA StuckPass ==
    ASSUME ShrinkInv, GiveUp, ~pass.excused
    PROVE  /\ \E c \in Used : c >= pass.target
           /\ 0 .. thresholdLCN - 1 \subseteq Used
<1>1. cmd = "walk" /\ pass.file > FileCount /\ ~pass.moved
  BY DEF GiveUp
<1>2. /\ \E c \in Used : c >= pass.target
      /\ \A c \in Nat : c < pass.scan /\ c < thresholdLCN => c \in Used
      /\ \A f \in Files : f < pass.file =>
            \A v \in DOMAIN lcn[f] :
               lcn[f][v] >= pass.target => pass.scan >= thresholdLCN
  BY <1>1 DEF ShrinkInv, WalkInv
<1>3. PICK c \in Used : c >= pass.target
  BY <1>2
<1>4. PICK f \in Files : \E v \in DOMAIN lcn[f] : c = lcn[f][v]
  BY UsedDef, UsedByIs
<1>5. pass.scan \in Nat /\ thresholdLCN \in Int /\ pass.file \in Nat
  BY WalkFacts
<1>6. f < pass.file
  BY <1>1, <1>5, Sizes
<1>7. pass.scan >= thresholdLCN
  BY <1>2, <1>3, <1>4, <1>6
<1> QED BY <1>2, <1>5, <1>7

-----------------------------------------------------------------------------
(***************************************************************************)
(* The size a shrink asks for.                                             *)
(***************************************************************************)
(* The size asked for is that of the length the volume reported when the   *)
(* shrink began, and the file system is not larger once it has committed.  *)
LEMMA ShrinkTarget ==
    ASSUME ShrinkInv, NEW len \in Nat, ShrinkStep(len)
    PROVE  /\ cmd' \in {"commit", "walk"} =>
                 \/ len > Reserved /\ pass'.target = targetClusters(len)
                 \/ cmd \in {"commit", "walk"} /\ pass'.target = pass.target
           /\ cmd' = "copy" => /\ cmd \in {"commit", "walk"}
                               /\ total' <= pass.target
<1> USE DEF ShrinkInv, ShrinkTyped
<1>1. CASE ShrinkPrepare(len)
  BY <1>1 DEF ShrinkPrepare, newPass
<1>2. CASE ShrinkPrepareFails \/ CommitFails \/ WalkError \/ Retry \/ GiveUp
  BY <1>2 DEF ShrinkPrepareFails, CommitFails, WalkError, Retry, GiveUp, Visiting
<1>3. CASE Commit
  <2>1. total \in Int /\ pass.target \in Int
    BY Sizes
  <2> QED BY <1>3, <2>1 DEF Commit
<1>4. CASE CommitDenied
  BY <1>4, NewPassIs DEF CommitDenied
<1>5. CASE loadBitmap \/ SkipUsed \/ MoveCluster \/ MoveFails \/ NextFile
           \/ SkipFile
  <2>1. cmd = "walk" /\ cmd' = "walk"
    BY <1>5 DEF loadBitmap, SkipUsed, MoveCluster, MoveFails, NextFile,
                SkipFile, Seeking, Visiting
  <2>2. pass'.target = pass.target
    BY <1>5 DEF loadBitmap, SkipUsed, MoveCluster, MoveFails, NextFile, SkipFile
  <2> QED BY <2>1, <2>2
<1> QED BY <1>1, <1>2, <1>3, <1>4, <1>5 DEF ShrinkStep

LEMMA OthersTarget ==
    ASSUME ShrinkInv, OtherPrograms
    PROVE  pass'.target = pass.target
BY DEF OtherPrograms, Free, Allocate, ShrinkInv, ShrinkTyped

(* The sectors of the file system. *)
LEMMA ExtentIs ==
    ASSUME NEW t \in Nat
    PROVE  /\ t * ClusterSectors \in Nat
           /\ \A u \in Nat : t <= u => t * ClusterSectors <= u * ClusterSectors
           /\ \A x \in Int : t * ClusterSectors <= x <=> t <= x \div ClusterSectors
<1>1. ClusterSectors \in Nat \ {0}
  BY Sizes
<1>2. t * ClusterSectors \in Nat
  BY <1>1
<1>3. ASSUME NEW u \in Nat, t <= u
      PROVE  t * ClusterSectors <= u * ClusterSectors
  <2>1. (u - t) \in Nat /\ (u - t) * ClusterSectors >= 0
    BY <1>1, <1>3
  <2>2. /\ (u - t) * ClusterSectors = u * ClusterSectors - t * ClusterSectors
        /\ u * ClusterSectors \in Nat
    BY <1>1, <1>3
  <2> QED BY <1>2, <2>1, <2>2
<1> QED BY <1>1, <1>2, <1>3, DivLargest

-----------------------------------------------------------------------------
(***************************************************************************)
(* The places of the replicas.                                             *)
(***************************************************************************)
LEMMA DivExact ==
    ASSUME NEW x \in Nat, NEW d \in Nat \ {0}, x % d = 0
    PROVE  x = (x \div d) * d
OBVIOUS

LEMMA MulPred ==
    ASSUME NEW k \in Int, NEW d \in Int
    PROVE  (k - 1) * d = k * d - d
OBVIOUS

(* Two reported lengths are at least one reserved tail apart. *)
LEMMA EndsApart ==
    ASSUME NEW e \in Ends, NEW f \in Ends
    PROVE  e = f \/ e >= f + Reserved \/ f >= e + Reserved
<1>1. Reserved \in Nat /\ VolumeSectors \in Nat
  BY Sizes
<1>2. ASSUME NEW i \in Nat, NEW j \in Nat, i < j
      PROVE  i * Reserved + Reserved <= j * Reserved
  <2>1. (j - i - 1) \in Nat
    BY <1>2
  <2>2. (j - i - 1) * Reserved >= 0
    BY <1>1, <2>1
  <2>3. (j - i - 1) * Reserved = (j - i) * Reserved - Reserved
    BY <1>1, MulPred
  <2>4. /\ (j - i) * Reserved = j * Reserved - i * Reserved
        /\ j * Reserved \in Nat /\ i * Reserved \in Nat
    BY <1>1
  <2> QED BY <1>1, <2>2, <2>3, <2>4
<1>3. PICK i \in Nat : e = VolumeSectors - i * Reserved
  BY DEF Ends
<1>4. PICK j \in Nat : f = VolumeSectors - j * Reserved
  BY DEF Ends
<1>5. i * Reserved \in Nat /\ j * Reserved \in Nat
  BY <1>1
<1>6. CASE i = j
  BY <1>3, <1>4, <1>6
<1>7. CASE i < j
  BY <1>1, <1>2, <1>3, <1>4, <1>5, <1>7
<1>8. CASE j < i
  BY <1>1, <1>2, <1>3, <1>4, <1>5, <1>8
<1> QED BY <1>6, <1>7, <1>8

LEMMA EndsSteps ==
    /\ VolumeSectors \in Ends
    /\ \A e \in Ends : e \in Int /\ e - Reserved \in Ends
    /\ \A e \in Ends : e < VolumeSectors => e + Reserved \in Ends
<1>1. Reserved \in Nat /\ VolumeSectors \in Nat
  BY Sizes
<1>2. VolumeSectors \in Ends
  <2>1. VolumeSectors = VolumeSectors - 0 * Reserved
    BY <1>1
  <2> QED BY <1>1, <2>1 DEF Ends
<1>3. ASSUME NEW e \in Ends
      PROVE  /\ e \in Int /\ e - Reserved \in Ends
             /\ e < VolumeSectors => e + Reserved \in Ends
  <2>1. PICK i \in Nat : e = VolumeSectors - i * Reserved
    BY DEF Ends
  <2>2. /\ i * Reserved \in Nat /\ (i + 1) * Reserved = i * Reserved + Reserved
        /\ (i - 1) * Reserved = i * Reserved - Reserved
    BY <1>1, MulPred
  <2>3. e - Reserved = VolumeSectors - (i + 1) * Reserved
    BY <1>1, <2>1, <2>2
  <2>4. e + Reserved = VolumeSectors - (i - 1) * Reserved
    BY <1>1, <2>1, <2>2
  <2>5. e < VolumeSectors => i - 1 \in Nat
    <3>1. i = 0 => i * Reserved = 0
      BY <1>1
    <3> QED BY <1>1, <2>1, <2>2, <3>1
  <2>6. e \in Int /\ i + 1 \in Nat /\ e - Reserved \in Int /\ e + Reserved \in Int
    BY <1>1, <2>1, <2>2
  <2> QED BY <2>3, <2>4, <2>5, <2>6 DEF Ends
<1> QED BY <1>2, <1>3

(* A sector is in the tail of one length only. *)
LEMMA GroupsApart ==
    ASSUME NEW e \in Ends, NEW f \in Ends, NEW p,
           p \in Group(e), p \in Group(f)
    PROVE  e = f
<1>1. e \in Int /\ f \in Int /\ Reserved \in Nat
  BY EndsSteps, Sizes
<1>2. p \in Int /\ e - Reserved <= p /\ p < e /\ f - Reserved <= p /\ p < f
  BY <1>1 DEF Group
<1> QED BY <1>1, <1>2, EndsApart

Replicas == Reserved \div ReplicaSectors

LEMMA ReplicaPlaces ==
    ASSUME NEW e \in Int
    PROVE  /\ Replicas \in Nat \ {0}
           /\ replica_lbas(e) \in [1 .. Replicas -> Group(e)]
           /\ replica_lbas(e)[Replicas] = e - 1
           /\ Range(replica_lbas(e)) \subseteq Group(e)
           /\ e - 1 \in Range(replica_lbas(e))
<1> DEFINE r == ReplicaSectors
           n == Replicas
<1>1. r \in Nat \ {0} /\ Reserved % r = 0
  BY PrepareAssumption
<1>2. Reserved \in Nat \ {0}
  BY Sizes
<1>3. n \in Nat /\ Reserved = n * r
  <2>1. n = Reserved \div r
    BY DEF Replicas
  <2>2. Reserved = (Reserved \div r) * r /\ Reserved \div r \in Nat
    BY <1>1, <1>2, DivExact, DivNat
  <2> HIDE DEF n
  <2> QED BY <1>1, <1>2, <2>1, <2>2
<1>4. replica_lbas(e) = [j \in 1 .. n |-> e - Reserved + j * r - 1]
  BY DEF replica_lbas, Replicas
<1> HIDE DEF n, r
<1>5. n # 0
  BY <1>1, <1>2, <1>3
<1>6. ASSUME NEW j \in 1 .. n
      PROVE  j * r \in Nat /\ 1 <= j * r /\ j * r <= Reserved
  <2>1. (n - j) \in Nat /\ (n - j) * r >= 0 /\ (n - j) * r = n * r - j * r
    BY <1>1, <1>3
  <2>2. j * r \in Nat /\ n * r \in Nat
    BY <1>1, <1>3
  <2>3. (j - 1) \in Nat /\ (j - 1) * r >= 0 /\ (j - 1) * r = j * r - r
    BY <1>1, <1>3
  <2> QED BY <1>1, <1>3, <2>1, <2>2, <2>3
<1>7. \A j \in 1 .. n : e - Reserved + j * r - 1 \in Group(e)
  BY <1>2, <1>6 DEF Group
<1>8. /\ replica_lbas(e) \in [1 .. n -> Group(e)]
      /\ DOMAIN replica_lbas(e) = 1 .. n
  BY <1>4, <1>7
<1>9. n \in 1 .. n
  BY <1>3, <1>5
<1>10. replica_lbas(e)[n] = e - 1
  BY <1>2, <1>3, <1>4, <1>9
<1>11. Range(replica_lbas(e)) \subseteq Group(e)
  BY <1>8 DEF Range
<1>12. e - 1 \in Range(replica_lbas(e))
  BY <1>8, <1>9, <1>10 DEF Range
<1> QED BY <1>3, <1>5, <1>8, <1>10, <1>11, <1>12 DEF n

(* The replicas of a tail that a step leaves alone stay what they are. *)
LEMMA WholeFrame ==
    ASSUME NEW e \in Int, NEW k, Whole(e, k),
           \A p \in Group(e) : p \in DOMAIN meta =>
              p \in DOMAIN meta' /\ meta'[p] = meta[p]
    PROVE  Whole(e, k)'
<1>1. Range(replica_lbas(e)) \subseteq Group(e)
  BY ReplicaPlaces
<1>2. \A p \in Range(replica_lbas(e)) : p \in DOMAIN meta' /\ meta'[p] = Written(k)
  BY <1>1 DEF Whole, Holds
<1>3. Range(replica_lbas(e))' = Range(replica_lbas(e))
  BY DEF Range, replica_lbas
<1> QED BY <1>2, <1>3 DEF Whole, Holds, Written

(* What the store takes the key from: a replica of that tail. *)
LEMMA Opened ==
    ASSUME PrepareTyped, NEW e \in Int, Opens(e)
    PROVE  /\ openedFvek(e) \in 1 .. keys
           /\ \E p \in Range(replica_lbas(e)) : Holds(p, openedFvek(e))
<1> DEFINE s == replica_lbas(e)
           J == {j \in DOMAIN s : Readable(s[j])}
<1>1. /\ Replicas \in Nat \ {0} /\ s \in [1 .. Replicas -> Group(e)]
      /\ s[Replicas] = e - 1
  BY ReplicaPlaces
<1>2. openedFvek(e) = meta[s[Min(J)]].fvek
  BY DEF openedFvek
<1>3. J \subseteq Nat /\ J # {}
  <2>1. Replicas \in J
    BY <1>1 DEF Opens
  <2>2. J \subseteq 1 .. Replicas
    BY <1>1
  <2> QED BY <2>1, <2>2
<1> HIDE DEF J
<1>4. Min(J) \in J
  BY <1>3, MinIs
<1>5. Min(J) \in DOMAIN s /\ Readable(s[Min(J)])
  BY <1>4 DEF J
<1>6. PICK k \in 1 .. keys : Holds(s[Min(J)], k)
  BY <1>5 DEF Readable
<1>7. openedFvek(e) = k
  BY <1>2, <1>6 DEF Holds, Written
<1> QED BY <1>5, <1>6, <1>7 DEF Range

LEMMA OpenedWhole ==
    ASSUME PrepareTyped, NEW e \in Int, NEW k \in 1 .. keys, Whole(e, k)
    PROVE  Opens(e) /\ openedFvek(e) = k
<1>1. e - 1 \in Range(replica_lbas(e))
  BY ReplicaPlaces
<1>2. Opens(e)
  BY <1>1 DEF Whole, Opens, Readable
<1>3. PICK p \in Range(replica_lbas(e)) : Holds(p, openedFvek(e))
  BY <1>2, Opened
<1>4. Holds(p, k)
  BY DEF Whole
<1> QED BY <1>2, <1>3, <1>4 DEF Holds, Written

-----------------------------------------------------------------------------
(***************************************************************************)
(* Initial states, and the steps of the command on the host.               *)
(***************************************************************************)
LEMMA InvInit == ASSUME Init PROVE PrepareInv
<1>1. /\ total = Clusters /\ lcn \in Layouts /\ pass = newPass(0)
      /\ changes = 0 /\ cmd = "idle"
  BY DEF Init, ShrinkInit, Clusters
<1>2. lcn \in [Files -> Seq(Nat)] /\ Placed(lcn, total)
  BY <1>1, ShrinkAssumption DEF Clusters
<1>3. ShrinkTyped
  <2>1. /\ pass \in [target : Nat, file : 1 .. FileCount + 1, scan : Nat,
                     chunk : SUBSET (0 .. Clusters - 1), bitmap : SUBSET Nat,
                     attempts : 0 .. MaxAttempts - 1, moved : BOOLEAN,
                     excused : BOOLEAN]
        /\ pass.bitmap = {}
    BY <1>1, NewPassIs
  <2>2. total \in 0 .. Clusters
    BY <1>1, Sizes
  <2> QED BY <1>1, <1>2, <2>1, <2>2 DEF ShrinkTyped
<1>4. TargetInv /\ WalkInv
  BY <1>1 DEF TargetInv, WalkInv, Shrinking
<1>5. /\ meta = <<>> /\ DOMAIN meta = {} /\ todo = <<>>
      /\ filter = TRUE /\ bound = NoFvek /\ reported = VolumeSectors
      /\ known = {} /\ swept = {} /\ power = "on" /\ mounted = FALSE
      /\ block = 0 /\ keys = 0 /\ runs = 0 /\ crashes = 0
      /\ esp = [bootmgfw |-> "os", copy |-> "none", vckJson |-> "none"]
  BY DEF Init, NoFvek
<1>6. PrepareTyped
  <2>1. /\ meta \in [DOMAIN meta -> [fvek : {Torn} \cup (1 .. keys), layers : Int]]
        /\ DOMAIN meta \subseteq 0 .. VolumeSectors - 1
    BY <1>5
  <2>2. todo \in Seq(Group(reported))
    BY <1>5
  <2>3. runs \in 0 .. MaxRuns /\ crashes \in 0 .. MaxCrashes
    BY <1>5, PrepareAssumption
  <2>4. cmd \in Steps /\ cmd \notin BeforeDriver /\ esp \in Esps
    BY <1>1, <1>5 DEF Steps, BeforeDriver, Esps
  <2>5. /\ block \in 0 .. keys /\ bound \in 0 .. keys /\ swept \subseteq 1 .. keys
        /\ keys \in Nat /\ keys <= runs /\ power \in {"on", "off"}
        /\ known \subseteq Paths
    BY <1>5 DEF NoFvek
  <2>6. reported \in Ends /\ reported \in 1 .. VolumeSectors
    BY <1>5, Sizes, EndsSteps
  <2>7. mounted \in BOOLEAN /\ filter \in BOOLEAN
    BY <1>5
  <2> QED BY ONLY <2>1, <2>2, <2>3, <2>4, <2>5, <2>6, <2>7, Zenon DEF PrepareTyped
<1>7. ControlInv
  BY <1>1, <1>5 DEF ControlInv, NoFvek
<1>8. TailInv
  <2>1. Extent <= VolumeSectors
    <3>1. total \in Nat
      BY <1>1, Sizes
    <3> QED BY <1>1, <3>1, ExtentIs, Sizes DEF Extent, Clusters
  <2> QED BY <1>1, <1>5, <2>1 DEF TailInv, Shrinking, AfterShrink
<1>9. KeyInv
  BY <1>1, <1>5 DEF KeyInv, NoFvek
<1> QED BY <1>3, <1>4, <1>6, <1>7, <1>8, <1>9 DEF PrepareInv

(* Nothing about the keys changes in a step that neither writes a block    *)
(* nor begins a request.                                                   *)
LEMMA KeyFrame ==
    ASSUME KeyInv,
           UNCHANGED <<meta, block, filter, bound, reported, swept, power>>,
           cmd' = cmd \/ cmd' \notin {"request", "prepare"}
    PROVE  KeyInv'
BY DEF KeyInv, Whole, Holds, Written, Range, replica_lbas, Group, Ends

LEMMA TypedFrame ==
    ASSUME PrepareTyped,
           UNCHANGED <<meta, block, keys, todo, filter, bound, reported, known,
                       swept, power, crashes>>,
           runs' = runs \/ runs' = runs + 1, runs' \in 0 .. MaxRuns,
           cmd' \in Steps,
           cmd' \in BeforeDriver => cmd \in BeforeDriver \/ runs' = runs + 1,
           esp' \in Esps, mounted' \in BOOLEAN
    PROVE  PrepareTyped'
<1>1. keys \in Nat /\ runs \in Nat /\ keys <= runs
  BY PrepareAssumption DEF PrepareTyped
<1>2. Group(reported)' = Group(reported) /\ Ends' = Ends
  BY DEF Group, Ends
<1> QED BY <1>1, <1>2 DEF PrepareTyped, Esps

(* A step of the command that changes the EFI system partition or nothing  *)
(* but where the command is.                                               *)
LEMMA CommandFrame ==
    ASSUME PrepareInv, UNCHANGED <<total, lcn, pass, changes>>,
           UNCHANGED <<meta, block, keys, todo, filter, bound, reported, known,
                       swept, power, crashes, runs>>,
           cmd' \in Steps, cmd' = cmd \/ cmd' \notin {"request", "prepare"},
           cmd' = cmd \/ cmd' \notin {"commit", "walk"},
           cmd' \in BeforeDriver => cmd \in BeforeDriver,
           cmd' \in AfterShrink => cmd \in AfterShrink,
           esp' \in Esps, mounted' \in BOOLEAN, ControlInv'
    PROVE  PrepareInv'
<1>1. ShrinkInv'
  BY ShrinkFrame DEF PrepareInv, ShrinkInv
<1>2. PrepareTyped'
  BY TypedFrame DEF PrepareInv, PrepareTyped
<1>3. KeyInv'
  BY KeyFrame DEF PrepareInv
<1>4. TailInv'
  BY DEF PrepareInv, TailInv, Extent, Shrinking, targetClusters
<1> QED BY <1>1, <1>2, <1>3, <1>4 DEF PrepareInv, ShrinkInv

LEMMA InvRunPrepare == ASSUME PrepareInv, RunPrepare PROVE PrepareInv'
<1>1. /\ cmd = "idle" /\ cmd' = "shrink" /\ mounted' = TRUE
      /\ runs < MaxRuns /\ runs' = runs + 1 /\ esp.vckJson = "none"
      /\ power = "on"
      /\ UNCHANGED <<total, lcn, pass, changes>> /\ UNCHANGED <<esp, block, keys>>
      /\ UNCHANGED <<meta, todo, filter, bound, reported, known>>
      /\ UNCHANGED <<swept, power, crashes>>
  BY DEF RunPrepare, Goto, driverVars, machineVars
<1>2. ShrinkInv'
  BY <1>1, ShrinkFrame DEF PrepareInv, ShrinkInv
<1>3. runs' \in 0 .. MaxRuns
  BY <1>1, PrepareAssumption DEF PrepareInv, PrepareTyped
<1>4. PrepareTyped'
  BY <1>1, <1>3, TypedFrame DEF PrepareInv, PrepareTyped, Steps, BeforeDriver
<1>5. KeyInv'
  BY <1>1, KeyFrame DEF PrepareInv
<1>6. TailInv'
  BY <1>1 DEF PrepareInv, TailInv, Extent, Shrinking, AfterShrink
<1>7. ControlInv'
  BY <1>1 DEF PrepareInv, ControlInv
<1> QED BY <1>2, <1>4, <1>5, <1>6, <1>7 DEF PrepareInv, ShrinkInv

(* A volume that reports a shorter length has a shorter file system.       *)
LEMMA InvShrinkVolumeTail == ASSUME PrepareInv, ShrinkVolumeTail PROVE PrepareInv'
<1>1. /\ ShrinkStep(reported)
      /\ UNCHANGED <<esp, mounted, block, keys, runs>>
      /\ UNCHANGED <<meta, todo, filter, bound, reported, known>>
      /\ UNCHANGED <<swept, power, crashes>>
  BY DEF ShrinkVolumeTail, prepareVars, driverVars, machineVars
<1>2. ShrinkInv /\ total \in Nat
  BY Sizes DEF PrepareInv, ShrinkInv, ShrinkTyped
<1>3. reported \in Nat /\ reported <= VolumeSectors
  BY Sizes DEF PrepareInv, PrepareTyped
<1>4. total <= reported \div ClusterSectors
  BY <1>2, <1>3, ExtentIs DEF PrepareInv, TailInv, Extent
<1>5. /\ ShrinkInv'
      /\ cmd \in {"shrink", "commit", "walk"}
      /\ cmd' \in {"commit", "walk", "copy", "return"}
      /\ total' <= total
  BY <1>1, <1>2, <1>3, <1>4, InvShrinkStep
<1>6. PrepareTyped'
  BY <1>1, <1>5, TypedFrame DEF PrepareInv, PrepareTyped, Steps, BeforeDriver
<1>7. KeyInv'
  BY <1>1, <1>5, KeyFrame DEF PrepareInv
<1>8. TailInv'
  <2>1. total' \in Nat
    BY <1>5, Sizes DEF ShrinkInv, ShrinkTyped
  <2>2. Extent' <= Extent /\ Extent \in Int /\ Extent' \in Int
    BY <1>2, <1>5, <2>1, ExtentIs DEF Extent
  <2>3. /\ cmd' \in {"commit", "walk"} =>
              \/ reported > Reserved /\ pass'.target = targetClusters(reported)
              \/ cmd \in {"commit", "walk"} /\ pass'.target = pass.target
        /\ cmd' = "copy" => /\ cmd \in {"commit", "walk"}
                            /\ total' <= pass.target
    BY <1>1, <1>2, <1>3, ShrinkTarget
  <2>4. ASSUME cmd' = "copy"
        PROVE  reported > Reserved /\ Extent' <= reported - Reserved
    <3>1. reported > Reserved /\ pass.target = targetClusters(reported)
      BY <2>3, <2>4 DEF PrepareInv, TailInv, Shrinking
    <3>2. total' <= (reported - Reserved) \div ClusterSectors
      BY <2>3, <2>4, <3>1 DEF targetClusters
    <3>3. reported - Reserved \in Int
      BY <1>3, Sizes
    <3> QED BY <2>1, <3>1, <3>2, <3>3, ExtentIs DEF Extent
  <2>5. \A p \in DOMAIN meta : p \in Int
    BY DEF PrepareInv, PrepareTyped
  <2>6. /\ Extent <= reported
        /\ Shrinking => reported > Reserved /\ pass.target = targetClusters(reported)
        /\ DOMAIN meta # {} => Extent <= VolumeSectors - Reserved
        /\ \A p \in DOMAIN meta : p >= Extent
    BY DEF PrepareInv, TailInv
  <2>7. targetClusters(reported)' = targetClusters(reported)
    BY <1>1 DEF targetClusters
  <2>8. Extent' <= reported /\ (DOMAIN meta # {} => Extent' <= VolumeSectors - Reserved)
        /\ \A p \in DOMAIN meta : p >= Extent'
    BY <1>3, <2>2, <2>5, <2>6, Sizes
  <2>9. Shrinking' => reported > Reserved /\ pass'.target = targetClusters(reported)
    BY <2>3, <2>6 DEF Shrinking
  <2>10. cmd' \in AfterShrink => cmd' = "copy"
    BY <1>5 DEF AfterShrink
  <2> QED BY <1>1, <2>4, <2>7, <2>8, <2>9, <2>10 DEF TailInv
<1>9. ControlInv'
  BY <1>1, <1>5 DEF PrepareInv, ControlInv
<1> QED BY <1>5, <1>6, <1>7, <1>8, <1>9 DEF PrepareInv, ShrinkInv

(* The boot manager is copied while it is still the one of the system, and *)
(* vck.json follows the finished copy.                                     *)
LEMMA InvCopyBegin == ASSUME PrepareInv, CopyBegin PROVE PrepareInv'
<1>1. /\ cmd = "copy" /\ cmd' = "copying" /\ esp' = [esp EXCEPT !.copy = "part"]
      /\ UNCHANGED <<total, lcn, pass, changes>>
      /\ UNCHANGED <<mounted, block, keys, runs>>
      /\ UNCHANGED <<meta, todo, filter, bound, reported, known>>
      /\ UNCHANGED <<swept, power, crashes>>
  BY DEF CopyBegin, Goto, driverVars, machineVars
<1>2. esp' \in Esps /\ mounted' \in BOOLEAN
  BY <1>1 DEF PrepareInv, PrepareTyped, Esps
<1>3. ControlInv'
  BY <1>1 DEF PrepareInv, PrepareTyped, ControlInv, Esps
<1> QED BY <1>1, <1>2, <1>3, CommandFrame DEF Steps, BeforeDriver, AfterShrink

LEMMA InvCopyEnd == ASSUME PrepareInv, CopyEnd PROVE PrepareInv'
<1>1. /\ cmd = "copying" /\ cmd' = "config"
      /\ esp' = [esp EXCEPT !.copy = esp.bootmgfw]
      /\ UNCHANGED <<total, lcn, pass, changes>>
      /\ UNCHANGED <<mounted, block, keys, runs>>
      /\ UNCHANGED <<meta, todo, filter, bound, reported, known>>
      /\ UNCHANGED <<swept, power, crashes>>
  BY DEF CopyEnd, Goto, driverVars, machineVars
<1>2. esp.bootmgfw = "os"
  BY <1>1 DEF PrepareInv, PrepareTyped, ControlInv, Esps
<1>3. esp' \in Esps /\ mounted' \in BOOLEAN
  BY <1>1 DEF PrepareInv, PrepareTyped, Esps
<1>4. ControlInv'
  BY <1>1, <1>2 DEF PrepareInv, PrepareTyped, ControlInv, Esps
<1> QED BY <1>1, <1>3, <1>4, CommandFrame DEF Steps, BeforeDriver, AfterShrink

LEMMA InvWriteConfigBegin ==
    ASSUME PrepareInv, WriteConfigBegin PROVE PrepareInv'
<1>1. /\ cmd = "config" /\ cmd' = "writing"
      /\ esp' = [esp EXCEPT !.vckJson = "part"]
      /\ UNCHANGED <<total, lcn, pass, changes>>
      /\ UNCHANGED <<mounted, block, keys, runs>>
      /\ UNCHANGED <<meta, todo, filter, bound, reported, known>>
      /\ UNCHANGED <<swept, power, crashes>>
  BY DEF WriteConfigBegin, Goto, driverVars, machineVars
<1>2. esp' \in Esps /\ mounted' \in BOOLEAN
  BY <1>1 DEF PrepareInv, PrepareTyped, Esps
<1>3. ControlInv'
  BY <1>1 DEF PrepareInv, PrepareTyped, ControlInv, Esps
<1> QED BY <1>1, <1>2, <1>3, CommandFrame DEF Steps, BeforeDriver, AfterShrink

LEMMA InvWriteConfigEnd == ASSUME PrepareInv, WriteConfigEnd PROVE PrepareInv'
<1>1. /\ cmd = "writing" /\ cmd' = "driver"
      /\ esp' = [esp EXCEPT !.vckJson = "ok"] /\ mounted' = FALSE
      /\ UNCHANGED <<total, lcn, pass, changes>> /\ UNCHANGED <<block, keys, runs>>
      /\ UNCHANGED <<meta, todo, filter, bound, reported, known>>
      /\ UNCHANGED <<swept, power, crashes>>
  BY DEF WriteConfigEnd, Goto, driverVars, machineVars
<1>2. esp' \in Esps /\ mounted' \in BOOLEAN
  BY <1>1 DEF PrepareInv, PrepareTyped, Esps
<1>3. ControlInv'
  BY <1>1 DEF PrepareInv, PrepareTyped, ControlInv, Esps
<1> QED BY <1>1, <1>2, <1>3, CommandFrame DEF Steps, BeforeDriver, AfterShrink

(* The steps that only end the command, or a part of it. *)
LEMMA InvEnds ==
    ASSUME PrepareInv, HostStepFails \/ Return \/ DriverPartSkipped \/ Kill
    PROVE  PrepareInv'
<1>1. /\ cmd' \in {"return", "idle"} /\ cmd # "prepare"
      /\ cmd # "idle" /\ mounted' \in BOOLEAN
      /\ UNCHANGED <<total, lcn, pass, changes>>
      /\ UNCHANGED <<esp, block, keys, runs>>
      /\ UNCHANGED <<meta, todo, filter, bound, reported, known>>
      /\ UNCHANGED <<swept, power, crashes>>
  BY DEF HostStepFails, Return, DriverPartSkipped, Kill, Goto, prepareVars,
         driverVars, machineVars, PrepareInv, PrepareTyped
<1>2. esp' \in Esps
  BY <1>1 DEF PrepareInv, PrepareTyped, Esps
<1>3. ControlInv'
  BY <1>1 DEF PrepareInv, PrepareTyped, ControlInv, Esps
<1> QED BY <1>1, <1>2, <1>3, CommandFrame DEF Steps, BeforeDriver, AfterShrink

-----------------------------------------------------------------------------
(***************************************************************************)
(* The driver's part.                                                      *)
(***************************************************************************)
(* A new FVEK is in no block yet. *)
LEMMA InvBuild ==
    ASSUME PrepareInv, buildOSVolumeMetadataBlock PROVE PrepareInv'
<1>1. /\ cmd = "driver" /\ cmd' = "request"
      /\ \/ block' = NoFvek /\ UNCHANGED keys
         \/ block' = keys + 1 /\ keys' = keys + 1
      /\ UNCHANGED <<total, lcn, pass, changes>> /\ UNCHANGED <<esp, mounted, runs>>
      /\ UNCHANGED <<meta, todo, filter, bound, reported, known>>
      /\ UNCHANGED <<swept, power, crashes>>
  BY DEF buildOSVolumeMetadataBlock, Goto, driverVars, machineVars
<1>2. ShrinkInv'
  BY <1>1, ShrinkFrame DEF PrepareInv, ShrinkInv
<1>3. /\ keys \in Nat /\ keys < runs /\ runs \in Nat
      /\ keys' \in Nat /\ keys <= keys' /\ keys' <= runs /\ block' \in 0 .. keys'
  BY <1>1, PrepareAssumption
     DEF PrepareInv, PrepareTyped, BeforeDriver, NoFvek
<1>4. PrepareTyped'
  <2>1. 1 .. keys \subseteq 1 .. keys' /\ 0 .. keys \subseteq 0 .. keys'
    BY <1>3
  <2>2. meta \in [DOMAIN meta -> [fvek : {Torn} \cup (1 .. keys'), layers : Int]]
    BY <2>1 DEF PrepareInv, PrepareTyped
  <2>3. bound \in 0 .. keys' /\ swept \subseteq 1 .. keys'
    BY <2>1 DEF PrepareInv, PrepareTyped
  <2>4. cmd' \in Steps /\ cmd' \notin BeforeDriver
    BY <1>1 DEF Steps, BeforeDriver
  <2>5. Group(reported)' = Group(reported) /\ Ends' = Ends /\ Esps' = Esps
    BY <1>1 DEF Group, Ends, Esps
  <2> QED BY <1>1, <1>3, <2>2, <2>3, <2>4, <2>5 DEF PrepareInv, PrepareTyped
<1>5. ControlInv'
  BY <1>1 DEF PrepareInv, PrepareTyped, ControlInv, Esps
<1>6. TailInv'
  BY <1>1 DEF PrepareInv, TailInv, AfterShrink, Extent, Shrinking
<1>7. KeyInv'
  <2>1. block' # NoFvek => bound # block' /\ \A p \in DOMAIN meta : meta[p].fvek # block'
    <3> SUFFICES ASSUME block' # NoFvek
                 PROVE  bound # block' /\ \A p \in DOMAIN meta : meta[p].fvek # block'
      OBVIOUS
    <3>1. block' = keys + 1
      BY <1>1
    <3>2. bound \in 0 .. keys
      BY DEF PrepareInv, PrepareTyped
    <3>3. \A p \in DOMAIN meta : meta[p].fvek \in {Torn} \cup (1 .. keys)
      BY DEF PrepareInv, PrepareTyped
    <3> QED BY <1>3, <3>1, <3>2, <3>3 DEF Torn
  <2> QED BY <1>1, <2>1
          DEF PrepareInv, KeyInv, Whole, Holds, Written, Range, replica_lbas,
              Group, Ends
<1> QED BY <1>2, <1>4, <1>5, <1>6, <1>7 DEF PrepareInv, ShrinkInv

LEMMA InvPrepare == ASSUME PrepareInv, Prepare PROVE PrepareInv'
<1>1. /\ cmd = "request" /\ cmd' = "prepare" /\ filter
      /\ todo' = IF block = NoFvek THEN <<>> ELSE replica_lbas(reported)
      /\ UNCHANGED <<total, lcn, pass, changes>>
      /\ UNCHANGED <<esp, mounted, block, keys, runs, meta, filter, bound>>
      /\ UNCHANGED <<reported, known, swept, power, crashes>>
  BY DEF Prepare, Goto, machineVars
<1>2. ShrinkInv'
  BY <1>1, ShrinkFrame DEF PrepareInv, ShrinkInv
<1>3. reported \in Int
  BY DEF PrepareInv, PrepareTyped
<1>4. todo' \in Seq(Group(reported))
  <2> DEFINE s == replica_lbas(reported)
             S == Group(reported)
  <2>1. Replicas \in Nat /\ s \in [1 .. Replicas -> S]
    BY <1>3, ReplicaPlaces
  <2>2. todo' = IF block = NoFvek THEN <<>> ELSE s
    BY <1>1
  <2> HIDE DEF s, S
  <2>3. s \in Seq(S)
    BY <2>1, SeqOf
  <2>4. todo' \in Seq(S)
    BY <2>2, <2>3
  <2> QED BY <2>4 DEF S
<1>5. PrepareTyped'
  <2>1. cmd' \in Steps /\ cmd' \notin BeforeDriver
    BY <1>1 DEF Steps, BeforeDriver
  <2>2. Group(reported)' = Group(reported) /\ Ends' = Ends /\ Esps' = Esps
    BY <1>1 DEF Group, Ends, Esps
  <2> QED BY <1>1, <1>4, <2>1, <2>2 DEF PrepareInv, PrepareTyped
<1>6. ControlInv'
  <2>1. power = "on"
    BY <1>1 DEF PrepareInv, PrepareTyped, ControlInv
  <2>2. todo' # <<>> => block # NoFvek
    BY <1>1
  <2> QED BY <1>1, <2>1, <2>2 DEF PrepareInv, PrepareTyped, ControlInv, Esps
<1>7. TailInv'
  BY <1>1 DEF PrepareInv, TailInv, AfterShrink, Extent, Shrinking
<1>8. KeyInv'
  BY <1>1 DEF PrepareInv, KeyInv, Whole, Holds, Written, Range, replica_lbas,
              Group, Ends
<1> QED BY <1>2, <1>5, <1>6, <1>7, <1>8 DEF PrepareInv, ShrinkInv

(* What PREPARE still has to write lies in front of every block it must    *)
(* not touch, and behind the file system.                                  *)
LEMMA WritingFacts ==
    ASSUME PrepareInv, todo # <<>>
    PROVE  /\ cmd = "prepare" /\ block # NoFvek /\ block \in 1 .. keys
           /\ power = "on" /\ filter
           /\ Head(todo) \in Group(reported) /\ Tail(todo) \in Seq(Group(reported))
           /\ Head(todo) \in 0 .. VolumeSectors - 1 /\ Head(todo) >= Extent
           /\ Extent <= VolumeSectors - Reserved
<1>1. cmd = "prepare" /\ block # NoFvek /\ power = "on" /\ filter
  BY DEF PrepareInv, PrepareTyped, ControlInv
<1>2. block \in 1 .. keys
  BY <1>1 DEF PrepareInv, PrepareTyped, NoFvek
<1>3. Head(todo) \in Group(reported) /\ Tail(todo) \in Seq(Group(reported))
  <2> DEFINE S == Group(reported)
  <2>1. todo \in Seq(S)
    BY DEF PrepareInv, PrepareTyped
  <2> HIDE DEF S
  <2>2. Head(todo) \in S /\ Tail(todo) \in Seq(S)
    BY <2>1
  <2> QED BY <2>2 DEF S
<1>4. /\ reported \in 1 .. VolumeSectors /\ reported > Reserved
      /\ Extent <= reported - Reserved
  BY <1>1 DEF PrepareInv, PrepareTyped, TailInv, AfterShrink
<1>5. total \in Nat /\ Extent \in Nat
  BY Sizes, ExtentIs DEF PrepareInv, ShrinkTyped, Extent
<1> QED BY <1>1, <1>2, <1>3, <1>4, <1>5, Sizes DEF Group

(* The replicas of the keys in use lie behind what is being written.       *)
LEMMA KeysOutOfReach ==
    ASSUME PrepareInv, power = "on", filter, NEW h \in Group(reported),
           DOMAIN meta \subseteq DOMAIN meta',
           \A p \in DOMAIN meta : p # h => meta'[p] = meta[p],
           NEW k \in swept
    PROVE  \E e \in Ends :
              /\ Reserved <= e /\ e <= VolumeSectors /\ Whole(e, k)'
              /\ \/ e = reported + Reserved /\ k = bound
                 \/ e >= reported + 2 * Reserved
<1>1. PICK e \in Ends :
         /\ Reserved <= e /\ e <= VolumeSectors /\ Whole(e, k)
         /\ \/ e = reported + Reserved /\ k = bound
            \/ e >= reported + 2 * Reserved
  BY DEF PrepareInv, KeyInv
<1>2. e \in Int /\ reported \in Int /\ Reserved \in Nat
  BY EndsSteps, Sizes DEF PrepareInv, PrepareTyped
<1>3. h \notin Group(e)
  BY <1>1, <1>2 DEF Group
<1>4. Whole(e, k)'
  BY <1>1, <1>2, <1>3, WholeFrame
<1> QED BY <1>1, <1>4

LEMMA InvWriteMetadata == ASSUME PrepareInv, WriteMetadata PROVE PrepareInv'
<1> DEFINE h == Head(todo)
<1>1. /\ cmd = "prepare" /\ todo # <<>>
      /\ meta' = [p \in DOMAIN meta \cup {h} |->
                     IF p = h THEN Written(block) ELSE meta[p]]
      /\ todo' = Tail(todo)
      /\ UNCHANGED <<cmd, total, lcn, pass, changes>>
      /\ UNCHANGED <<esp, mounted, block, keys, runs, filter, bound, reported>>
      /\ UNCHANGED <<known, swept, power, crashes>>
  BY DEF WriteMetadata, shrinkVars, machineVars
<1>2. /\ block # NoFvek /\ block \in 1 .. keys /\ power = "on" /\ filter
      /\ h \in Group(reported) /\ Tail(todo) \in Seq(Group(reported))
      /\ h \in 0 .. VolumeSectors - 1 /\ h >= Extent
      /\ Extent <= VolumeSectors - Reserved
  BY <1>1, WritingFacts
<1> HIDE DEF h
<1>3. ShrinkInv'
  BY <1>1, ShrinkFrame DEF PrepareInv, ShrinkInv
<1>4. /\ DOMAIN meta' = DOMAIN meta \cup {h}
      /\ meta'[h].fvek = block /\ meta'[h].layers = 0 /\ meta'[h] = Written(block)
      /\ \A p \in DOMAIN meta : p # h => meta'[p] = meta[p]
  BY <1>1 DEF Written
<1>5. /\ Group(reported)' = Group(reported) /\ Ends' = Ends /\ Esps' = Esps
      /\ Group(reported + Reserved)' = Group(reported + Reserved)
  BY <1>1 DEF Group, Ends, Esps
<1>6. PrepareTyped'
  <2>1. Written(block) \in [fvek : {Torn} \cup (1 .. keys), layers : Int]
    BY <1>2 DEF Written
  <2>2. meta' \in [DOMAIN meta' -> [fvek : {Torn} \cup (1 .. keys), layers : Int]]
    BY <1>1, <2>1 DEF PrepareInv, PrepareTyped
  <2>3. DOMAIN meta' \subseteq 0 .. VolumeSectors - 1
    BY <1>2, <1>4 DEF PrepareInv, PrepareTyped
  <2> QED BY <1>1, <1>2, <1>5, <2>2, <2>3 DEF PrepareInv, PrepareTyped
<1>7. ControlInv'
  BY <1>1, <1>2 DEF PrepareInv, ControlInv
<1>8. TailInv'
  BY <1>1, <1>2, <1>4
     DEF PrepareInv, TailInv, AfterShrink, Extent, Shrinking, targetClusters
<1>9. KeyInv'
  <2>1. /\ bound # block
        /\ \A p \in DOMAIN meta : meta[p].fvek = block => p \in Group(reported)
    BY <1>1, <1>2 DEF PrepareInv, KeyInv
  <2>2. ASSUME NEW p \in DOMAIN meta', NEW q \in DOMAIN meta',
               meta'[p].fvek > NoFvek, meta'[p].fvek = meta'[q].fvek
        PROVE  \E e \in Ends : p \in Group(e) /\ q \in Group(e)
    <3>1. CASE meta'[p].fvek = block
      <4>1. p \in Group(reported) /\ q \in Group(reported)
        BY <1>2, <1>4, <2>1, <2>2, <3>1
      <4> QED BY <4>1 DEF PrepareInv, PrepareTyped
    <3>2. CASE meta'[p].fvek # block
      <4>1. /\ p \in DOMAIN meta /\ q \in DOMAIN meta
            /\ meta'[p] = meta[p] /\ meta'[q] = meta[q]
        BY <1>4, <2>2, <3>2
      <4> QED BY <2>2, <4>1 DEF PrepareInv, KeyInv
    <3> QED BY <3>1, <3>2
  <2>3. ASSUME bound # NoFvek, NEW p \in DOMAIN meta', meta'[p].fvek = bound
        PROVE  p \in Group(reported + Reserved)
    <3>1. p \in DOMAIN meta /\ meta'[p] = meta[p]
      BY <1>4, <2>1, <2>3
    <3> QED BY <2>3, <3>1 DEF PrepareInv, KeyInv
  <2>4. ASSUME NEW p \in DOMAIN meta', meta'[p].fvek = block
        PROVE  p \in Group(reported)
    BY <1>2, <1>4, <2>1, <2>4
  <2>5. ASSUME NEW k \in swept
        PROVE  \E e \in Ends :
                 /\ Reserved <= e /\ e <= VolumeSectors /\ Whole(e, k)'
                 /\ \/ e = reported + Reserved /\ k = bound
                    \/ e >= reported + 2 * Reserved
    BY <1>2, <1>4, KeysOutOfReach
  <2> QED BY <1>1, <1>5, <2>1, <2>2, <2>3, <2>4, <2>5 DEF KeyInv, Ends, Group
<1> QED BY <1>3, <1>6, <1>7, <1>8, <1>9 DEF PrepareInv, ShrinkInv

LEMMA InvWriteFails == ASSUME PrepareInv, WriteFails PROVE PrepareInv'
<1>1. /\ cmd = "prepare" /\ cmd' = "idle" /\ todo' = <<>>
      /\ UNCHANGED <<total, lcn, pass, changes>>
      /\ UNCHANGED <<esp, mounted, block, keys, runs, meta, filter, bound>>
      /\ UNCHANGED <<reported, known, swept, power, crashes>>
  BY DEF WriteFails, Goto, machineVars
<1>2. ShrinkInv'
  BY <1>1, ShrinkFrame DEF PrepareInv, ShrinkInv
<1>3. PrepareTyped'
  <2>1. cmd' \in Steps /\ cmd' \notin BeforeDriver
    BY <1>1 DEF Steps, BeforeDriver
  <2>2. todo' \in Seq(Group(reported))
    BY <1>1
  <2>3. Group(reported)' = Group(reported) /\ Ends' = Ends /\ Esps' = Esps
    BY <1>1 DEF Group, Ends, Esps
  <2> QED BY <1>1, <2>1, <2>2, <2>3 DEF PrepareInv, PrepareTyped
<1>4. ControlInv'
  BY <1>1 DEF PrepareInv, PrepareTyped, ControlInv, Esps
<1>5. TailInv'
  BY <1>1 DEF PrepareInv, TailInv, AfterShrink, Extent, Shrinking
<1>6. KeyInv'
  BY <1>1, KeyFrame DEF PrepareInv
<1> QED BY <1>2, <1>3, <1>4, <1>5, <1>6 DEF PrepareInv, ShrinkInv

(* A filter that is taken off the volume no longer writes to it.           *)
LEMMA InvOpenFails == ASSUME PrepareInv, OpenFails PROVE PrepareInv'
<1>1. /\ cmd = "prepare" /\ cmd' = "idle" /\ todo = <<>> /\ todo' = <<>>
      /\ filter' = FALSE /\ bound' = NoFvek /\ reported' = VolumeSectors
      /\ UNCHANGED <<total, lcn, pass, changes>>
      /\ UNCHANGED <<esp, mounted, block, keys, runs, meta>>
      /\ UNCHANGED <<known, swept, power, crashes>>
  BY DEF OpenFails, Goto, machineVars
<1>2. ShrinkInv'
  BY <1>1, ShrinkFrame DEF PrepareInv, ShrinkInv
<1>3. PrepareTyped'
  <2>1. cmd' \in Steps /\ cmd' \notin BeforeDriver
    BY <1>1 DEF Steps, BeforeDriver
  <2>2. todo' \in Seq(Group(reported)')
    BY <1>1
  <2>3. Ends' = Ends /\ Esps' = Esps
    BY DEF Ends, Esps
  <2>4. reported' \in Ends /\ reported' \in 1 .. VolumeSectors
    BY <1>1, EndsSteps, Sizes
  <2>5. bound' \in 0 .. keys
    BY <1>1 DEF PrepareInv, PrepareTyped, NoFvek
  <2> QED BY <1>1, <2>1, <2>2, <2>3, <2>4, <2>5 DEF PrepareInv, PrepareTyped
<1>4. ControlInv'
  BY <1>1 DEF PrepareInv, PrepareTyped, ControlInv, Esps
<1>5. TailInv'
  <2>1. reported \in 1 .. VolumeSectors /\ Extent \in Int
    <3>1. total \in Nat
      BY Sizes DEF PrepareInv, ShrinkTyped
    <3> QED BY <3>1, ExtentIs DEF PrepareInv, PrepareTyped, Extent
  <2>2. Extent <= VolumeSectors
    BY <2>1, Sizes DEF PrepareInv, TailInv
  <2> QED BY <1>1, <2>2 DEF PrepareInv, TailInv, AfterShrink, Extent, Shrinking
<1>6. KeyInv'
  BY <1>1 DEF PrepareInv, KeyInv, Whole, Holds, Written, Range, replica_lbas,
              Group, Ends
<1> QED BY <1>2, <1>3, <1>4, <1>5, <1>6 DEF PrepareInv, ShrinkInv

(* The blocks with the key that was opened are those of one tail.          *)
LEMMA OpenedTail ==
    ASSUME PrepareInv, NEW e \in Ends, Opens(e), NEW p \in DOMAIN meta,
           meta[p].fvek = openedFvek(e)
    PROVE  p \in Group(e)
<1>1. e \in Int
  BY EndsSteps
<1>2. PICK q \in Range(replica_lbas(e)) : Holds(q, openedFvek(e))
  BY <1>1, Opened DEF PrepareInv
<1>3. q \in Group(e)
  BY <1>1, ReplicaPlaces
<1>4. openedFvek(e) > NoFvek
  <2>1. openedFvek(e) \in 1 .. keys
    BY <1>1, Opened DEF PrepareInv
  <2> QED BY <2>1 DEF NoFvek
<1>5. q \in DOMAIN meta /\ meta[q].fvek = openedFvek(e)
  BY <1>2 DEF Holds, Written
<1>6. PICK f \in Ends : p \in Group(f) /\ q \in Group(f)
  BY <1>4, <1>5 DEF PrepareInv, KeyInv
<1> QED BY <1>3, <1>6, GroupsApart

LEMMA InvBindVolume == ASSUME PrepareInv, BindVolume PROVE PrepareInv'
<1>1. /\ cmd = "prepare" /\ cmd' = "idle" /\ todo = <<>> /\ todo' = <<>>
      /\ Opens(reported) /\ bound' = openedFvek(reported)
      /\ reported' = reported - Reserved
      /\ UNCHANGED <<total, lcn, pass, changes>>
      /\ UNCHANGED <<esp, mounted, block, keys, runs, meta, filter>>
      /\ UNCHANGED <<swept, power, crashes>>
  BY DEF BindVolume, Goto, machineVars
<1>2. PICK path \in Paths \ known : known' = known \cup {path}
  BY DEF BindVolume
<1>3. ShrinkInv'
  BY <1>1, ShrinkFrame DEF PrepareInv, ShrinkInv
<1>4. /\ reported \in Ends /\ reported \in 1 .. VolumeSectors
      /\ reported > Reserved /\ Extent <= reported - Reserved
  BY <1>1 DEF PrepareInv, PrepareTyped, TailInv, AfterShrink
<1>5. bound' \in 1 .. keys /\ bound' # NoFvek
  <2>1. bound' \in 1 .. keys
    BY <1>1, <1>4, Opened DEF PrepareInv
  <2> QED BY <2>1 DEF NoFvek
<1>6. PrepareTyped'
  <2>1. cmd' \in Steps /\ cmd' \notin BeforeDriver
    BY <1>1 DEF Steps, BeforeDriver
  <2>2. todo' \in Seq(Group(reported)')
    BY <1>1
  <2>3. Ends' = Ends /\ Esps' = Esps
    BY DEF Ends, Esps
  <2>4. reported' \in Ends /\ reported' \in 1 .. VolumeSectors
    BY <1>1, <1>4, EndsSteps, Sizes
  <2>5. bound' \in 0 .. keys
    BY <1>5
  <2>6. known' \subseteq Paths
    BY <1>2 DEF PrepareInv, PrepareTyped
  <2> QED BY <1>1, <2>1, <2>2, <2>3, <2>4, <2>5, <2>6 DEF PrepareInv, PrepareTyped
<1>7. ControlInv'
  <2>1. power = "on" /\ filter /\ esp.bootmgfw # "loader"
    BY <1>1 DEF PrepareInv, PrepareTyped, ControlInv
  <2>2. reported' <= VolumeSectors - Reserved
    BY <1>1, <1>4, Sizes
  <2>3. reported' = VolumeSectors - Reserved \/ \E p, q \in known' : p # q
    <3>1. CASE known = {}
      <4>1. reported = VolumeSectors
        BY <2>1, <3>1 DEF PrepareInv, ControlInv
      <4> QED BY <1>1, <4>1
    <3>2. CASE known # {}
      <4>1. PICK q \in known : TRUE
        BY <3>2
      <4> QED BY <1>2, <4>1
    <3> QED BY <3>1, <3>2
  <2>4. known' # {}
    BY <1>2
  <2> QED BY <1>1, <1>5, <2>1, <2>2, <2>3, <2>4
          DEF PrepareInv, PrepareTyped, ControlInv, Esps
<1>8. TailInv'
  BY <1>1, <1>4 DEF PrepareInv, TailInv, AfterShrink, Extent, Shrinking
<1>9. KeyInv'
  <2>1. (reported + Reserved)' = reported /\ reported' + 2 * Reserved = reported + Reserved
    BY <1>1, <1>4, Sizes
  <2>2. \A p \in DOMAIN meta : meta[p].fvek = bound' => p \in Group(reported)
    BY <1>1, <1>4, OpenedTail
  <2>3. ASSUME NEW k \in swept
        PROVE  \E e \in Ends :
                 /\ Reserved <= e /\ e <= VolumeSectors /\ Whole(e, k)
                 /\ e >= reported' + 2 * Reserved
    <3>1. power = "on" /\ filter
      BY <1>1 DEF PrepareInv, PrepareTyped, ControlInv
    <3>2. PICK e \in Ends :
             /\ Reserved <= e /\ e <= VolumeSectors /\ Whole(e, k)
             /\ e = reported + Reserved \/ e >= reported + 2 * Reserved
      BY <3>1 DEF PrepareInv, KeyInv
    <3>3. e \in Int
      BY EndsSteps
    <3> QED BY <1>4, <2>1, <3>2, <3>3, Sizes
  <2>4. ASSUME NEW e, NEW k, Whole(e, k) PROVE Whole(e, k)'
    BY <1>1, <2>4 DEF Whole, Holds, Written, Range, replica_lbas
  <2>5. Ends' = Ends
    BY DEF Ends
  <2>6. Group(reported + Reserved)' = Group(reported)
    BY <2>1 DEF Group
  <2> QED BY <1>1, <2>2, <2>3, <2>4, <2>5, <2>6 DEF PrepareInv, KeyInv, Group, Ends
<1> QED BY <1>3, <1>6, <1>7, <1>8, <1>9 DEF PrepareInv, ShrinkInv

-----------------------------------------------------------------------------
(***************************************************************************)
(* The other programs, the operator, power losses and the next boot.       *)
(***************************************************************************)
LEMMA InvOthers ==
    ASSUME PrepareInv, OtherPrograms, UNCHANGED prepareVars PROVE PrepareInv'
<1>1. /\ UNCHANGED <<esp, mounted, block, keys, runs>>
      /\ UNCHANGED <<meta, todo, filter, bound, reported, known>>
      /\ UNCHANGED <<swept, power, crashes>>
  BY DEF prepareVars, driverVars, machineVars
<1>2. /\ ShrinkInv' /\ cmd' = cmd /\ total' = total
      /\ pass'.target = pass.target
  BY InvOtherPrograms, OthersTarget DEF PrepareInv, ShrinkInv
<1>3. PrepareTyped'
  BY <1>1, <1>2, TypedFrame DEF PrepareInv, PrepareTyped
<1>4. ControlInv'
  BY <1>1, <1>2 DEF PrepareInv, ControlInv
<1>5. TailInv'
  BY <1>1, <1>2 DEF PrepareInv, TailInv, Extent, Shrinking, targetClusters
<1>6. KeyInv'
  BY <1>1, <1>2, KeyFrame DEF PrepareInv
<1> QED BY <1>2, <1>3, <1>4, <1>5, <1>6 DEF PrepareInv, ShrinkInv

LEMMA InvInstallLoader == ASSUME PrepareInv, InstallLoader PROVE PrepareInv'
<1>1. /\ cmd = "idle" /\ esp' = [esp EXCEPT !.bootmgfw = "loader"]
      /\ esp.vckJson = "ok"
      /\ UNCHANGED <<cmd, total, lcn, pass, changes>>
      /\ UNCHANGED <<mounted, block, keys, runs>>
      /\ UNCHANGED <<meta, todo, filter, bound, reported, known>>
      /\ UNCHANGED <<swept, power, crashes>>
  BY DEF InstallLoader, verifyPreparedOSVolume, shrinkVars, driverVars, machineVars
<1>2. esp' \in Esps /\ mounted' \in BOOLEAN
  BY <1>1 DEF PrepareInv, PrepareTyped, Esps
<1>3. ControlInv'
  BY <1>1 DEF PrepareInv, PrepareTyped, ControlInv, Esps
<1> QED BY <1>1, <1>2, <1>3, CommandFrame DEF PrepareInv, PrepareTyped

LEMMA InvRemoveConfig == ASSUME PrepareInv, RemoveConfig PROVE PrepareInv'
<1>1. /\ cmd = "idle" /\ esp' = [esp EXCEPT !.vckJson = "none"]
      /\ esp.bootmgfw = "os"
      /\ UNCHANGED <<cmd, total, lcn, pass, changes>>
      /\ UNCHANGED <<mounted, block, keys, runs>>
      /\ UNCHANGED <<meta, todo, filter, bound, reported, known>>
      /\ UNCHANGED <<swept, power, crashes>>
  BY DEF RemoveConfig, shrinkVars, driverVars, machineVars
<1>2. esp' \in Esps /\ mounted' \in BOOLEAN
  BY <1>1 DEF PrepareInv, PrepareTyped, Esps
<1>3. ControlInv'
  BY <1>1 DEF PrepareInv, PrepareTyped, ControlInv, Esps
<1> QED BY <1>1, <1>2, <1>3, CommandFrame DEF PrepareInv, PrepareTyped

(* What a sweep makes of the blocks: those behind the bound volume's stay, *)
(* those in front of it keep their key, and the bound volume's are whole.  *)
LEMMA SweepFacts ==
    ASSUME PrepareInv, bound # NoFvek, NEW d \in Int, Sweep(d)
    PROVE  /\ reported + Reserved \in Ends /\ reported + Reserved <= VolumeSectors
           /\ DOMAIN meta' \subseteq DOMAIN meta \cup Group(reported + Reserved)
           /\ DOMAIN meta \subseteq DOMAIN meta'
           /\ \A p \in DOMAIN meta' :
                 \/ meta'[p] = Written(bound) /\ p \in Group(reported + Reserved)
                 \/ /\ p \in DOMAIN meta /\ meta'[p].fvek = meta[p].fvek
                    /\ meta'[p].layers \in Int /\ meta'[p] = [fvek |-> meta[p].fvek,
                                              layers |-> meta'[p].layers]
           /\ \A p \in DOMAIN meta :
                 p >= reported + Reserved => meta'[p] = meta[p]
           /\ \A p \in Range(replica_lbas(reported + Reserved)) :
                 p \in DOMAIN meta' /\ meta'[p] = Written(bound)
<1> DEFINE R == Range(replica_lbas(reported + Reserved))
<1>1. /\ reported \in Ends /\ reported \in 1 .. VolumeSectors
      /\ reported <= VolumeSectors - Reserved
  BY DEF PrepareInv, PrepareTyped, ControlInv
<1>2. /\ reported + Reserved \in Ends /\ reported + Reserved <= VolumeSectors
      /\ reported + Reserved \in Int
  BY <1>1, EndsSteps, Sizes
<1>3. R \subseteq Group(reported + Reserved)
  BY <1>2, ReplicaPlaces
<1>4. \A p \in Group(reported + Reserved) :
         p \in Int /\ p >= reported /\ p < reported + Reserved
  BY <1>1, Sizes DEF Group
<1>5. meta' = [p \in DOMAIN meta \cup R |->
                 IF p \in R THEN Written(bound)
                 ELSE IF p < reported THEN [meta[p] EXCEPT !.layers = @ + d]
                 ELSE meta[p]]
  BY DEF Sweep
<1> HIDE DEF R
<1>6. DOMAIN meta' = DOMAIN meta \cup R
  BY <1>5
<1>7. \A p \in R : meta'[p] = Written(bound)
  BY <1>5
<1>8. \A p \in DOMAIN meta \ R : p \in Int /\ meta[p].layers \in Int
                               /\ meta[p] = [fvek |-> meta[p].fvek,
                                             layers |-> meta[p].layers]
  BY DEF PrepareInv, PrepareTyped
<1>9. ASSUME NEW p \in DOMAIN meta \ R
      PROVE  /\ p < reported => meta'[p] = [meta[p] EXCEPT !.layers = @ + d]
             /\ ~(p < reported) => meta'[p] = meta[p]
  BY <1>1, <1>5, <1>8
<1>10. ASSUME NEW p \in DOMAIN meta \ R
       PROVE  /\ meta'[p].fvek = meta[p].fvek /\ meta'[p].layers \in Int
              /\ meta'[p] = [fvek |-> meta[p].fvek, layers |-> meta'[p].layers]
  <2>1. CASE p < reported
    <3>1. [meta[p] EXCEPT !.layers = @ + d] =
             [fvek |-> meta[p].fvek, layers |-> meta[p].layers + d]
      BY <1>8
    <3> QED BY <1>8, <1>9, <2>1, <3>1
  <2>2. CASE ~(p < reported)
    BY <1>8, <1>9, <2>2
  <2> QED BY <2>1, <2>2
<1>11. \A p \in DOMAIN meta : p >= reported + Reserved => meta'[p] = meta[p]
  <2> SUFFICES ASSUME NEW p \in DOMAIN meta, p >= reported + Reserved
               PROVE  meta'[p] = meta[p]
    OBVIOUS
  <2>1. p \in Int
    BY DEF PrepareInv, PrepareTyped
  <2>2. p \notin R
    BY <1>1, <1>3, <1>4, <2>1, Sizes
  <2>3. ~(p < reported)
    BY <1>1, <2>1, Sizes
  <2> QED BY <1>9, <2>2, <2>3
<1> QED BY <1>2, <1>3, <1>6, <1>7, <1>10, <1>11 DEF R

(* The sweep runs with the key of the bound volume, which is then in every *)
(* replica of its tail, and touches no other tail behind the data region.  *)
LEMMA InvSweeps == ASSUME PrepareInv, Encrypt \/ Decrypt PROVE PrepareInv'
<1>1. /\ power = "on" /\ bound # NoFvek
      /\ swept' = swept \cup {bound} \/ swept' = swept \ {bound}
      /\ UNCHANGED <<cmd, total, lcn, pass, changes>>
      /\ UNCHANGED <<esp, mounted, block, keys, runs, todo, filter, bound>>
      /\ UNCHANGED <<reported, known, power, crashes>>
  BY DEF Encrypt, Decrypt, shrinkVars
<1>2. PICK d \in Int : Sweep(d)
  BY DEF Encrypt, Decrypt
<1>3. /\ reported + Reserved \in Ends /\ reported + Reserved <= VolumeSectors
      /\ DOMAIN meta' \subseteq DOMAIN meta \cup Group(reported + Reserved)
      /\ DOMAIN meta \subseteq DOMAIN meta'
      /\ \A p \in DOMAIN meta' :
            \/ meta'[p] = Written(bound) /\ p \in Group(reported + Reserved)
            \/ /\ p \in DOMAIN meta /\ meta'[p].fvek = meta[p].fvek
               /\ meta'[p].layers \in Int /\ meta'[p] = [fvek |-> meta[p].fvek,
                                         layers |-> meta'[p].layers]
      /\ \A p \in DOMAIN meta :
            p >= reported + Reserved => meta'[p] = meta[p]
      /\ \A p \in Range(replica_lbas(reported + Reserved)) :
            p \in DOMAIN meta' /\ meta'[p] = Written(bound)
  BY <1>1, <1>2, SweepFacts
<1>4. ShrinkInv'
  BY <1>1, ShrinkFrame DEF PrepareInv, ShrinkInv
<1>5. /\ bound \in 1 .. keys /\ reported \in 1 .. VolumeSectors
      /\ reported <= VolumeSectors - Reserved /\ filter
  BY <1>1 DEF PrepareInv, PrepareTyped, ControlInv, NoFvek
<1>6. \A p \in Group(reported + Reserved) :
         p \in Int /\ p >= reported /\ p < reported + Reserved
  BY <1>5, Sizes DEF Group
<1>7. /\ Group(reported)' = Group(reported) /\ Ends' = Ends /\ Esps' = Esps
      /\ Group(reported + Reserved)' = Group(reported + Reserved)
  BY <1>1 DEF Group, Ends, Esps
<1>8. PrepareTyped'
  <2> DEFINE T == [fvek : {Torn} \cup (1 .. keys), layers : Int]
  <2>1. ASSUME NEW p \in DOMAIN meta' PROVE meta'[p] \in T
    <3>1. CASE meta'[p] = Written(bound)
      BY <1>5, <3>1 DEF Written
    <3>2. CASE /\ p \in DOMAIN meta /\ meta'[p].layers \in Int
               /\ meta'[p] = [fvek |-> meta[p].fvek, layers |-> meta'[p].layers]
      <4>1. meta[p].fvek \in {Torn} \cup (1 .. keys)
        BY <3>2 DEF PrepareInv, PrepareTyped
      <4>2. meta'[p].layers \in Int
        BY <3>2
      <4>3. [fvek |-> meta[p].fvek, layers |-> meta'[p].layers] \in T
        BY <4>1, <4>2
      <4> QED BY <3>2, <4>3
    <3> QED BY <1>3, <3>1, <3>2
  <2>2. meta' \in [DOMAIN meta' -> T]
    <3>1. meta' = [p \in DOMAIN meta' |-> meta'[p]]
      BY <1>2 DEF Sweep
    <3> HIDE DEF T
    <3> QED BY <2>1, <3>1
  <2>3. DOMAIN meta' \subseteq 0 .. VolumeSectors - 1
    <3>1. Group(reported + Reserved) \subseteq 0 .. VolumeSectors - 1
      BY <1>5, Sizes DEF Group
    <3> QED BY <1>3, <3>1 DEF PrepareInv, PrepareTyped
  <2>4. swept' \subseteq 1 .. keys
    BY <1>1, <1>5 DEF PrepareInv, PrepareTyped
  <2> QED BY <1>1, <1>7, <2>2, <2>3, <2>4 DEF PrepareInv, PrepareTyped
<1>9. ControlInv'
  BY <1>1 DEF PrepareInv, ControlInv
<1>10. TailInv'
  <2>1. Extent \in Int /\ Extent <= reported
    <3>1. total \in Nat
      BY Sizes DEF PrepareInv, ShrinkTyped
    <3> QED BY <3>1, ExtentIs DEF PrepareInv, TailInv, Extent
  <2>2. Extent <= VolumeSectors - Reserved
    BY <1>5, <2>1, Sizes
  <2>3. \A p \in DOMAIN meta' : p >= Extent
    <3>1. \A p \in DOMAIN meta : p >= Extent
      BY DEF PrepareInv, TailInv
    <3>2. \A p \in Group(reported + Reserved) : p >= Extent
      BY <1>5, <1>6, <2>1
    <3> QED BY <1>3, <3>1, <3>2
  <2>4. Extent' = Extent /\ Shrinking' = Shrinking
        /\ targetClusters(reported)' = targetClusters(reported)
    BY <1>1 DEF Extent, Shrinking, targetClusters
  <2> QED BY <1>1, <2>2, <2>3, <2>4 DEF PrepareInv, TailInv
<1>11. KeyInv'
  <2>1. \A p \in DOMAIN meta : meta[p].fvek = bound => p \in Group(reported + Reserved)
    BY <1>1 DEF PrepareInv, KeyInv
  <2>2. \A p \in DOMAIN meta' : meta'[p].fvek = bound => p \in Group(reported + Reserved)
    BY <1>3, <2>1
  <2>3. \A p \in DOMAIN meta' : meta'[p].fvek # bound =>
           p \in DOMAIN meta /\ meta'[p].fvek = meta[p].fvek
    BY <1>3 DEF Written
  <2>4. ASSUME NEW p \in DOMAIN meta', NEW q \in DOMAIN meta',
               meta'[p].fvek > NoFvek, meta'[p].fvek = meta'[q].fvek
        PROVE  \E e \in Ends : p \in Group(e) /\ q \in Group(e)
    <3>1. CASE meta'[p].fvek = bound
      <4>1. p \in Group(reported + Reserved) /\ q \in Group(reported + Reserved)
        BY <2>2, <2>4, <3>1
      <4> QED BY <1>3, <4>1
    <3>2. CASE meta'[p].fvek # bound
      <4>1. /\ p \in DOMAIN meta /\ q \in DOMAIN meta
            /\ meta'[p].fvek = meta[p].fvek /\ meta'[q].fvek = meta[q].fvek
        BY <2>3, <2>4, <3>2
      <4> QED BY <2>4, <4>1 DEF PrepareInv, KeyInv
    <3> QED BY <3>1, <3>2
  <2>5. cmd \in {"request", "prepare"} /\ block # NoFvek =>
           /\ bound # block
           /\ \A p \in DOMAIN meta' : meta'[p].fvek = block => p \in Group(reported)
    BY <2>3 DEF PrepareInv, KeyInv
  <2>6. Whole(reported + Reserved, bound)'
    <3>1. Range(replica_lbas(reported + Reserved))' =
             Range(replica_lbas(reported + Reserved))
      BY <1>1 DEF Range, replica_lbas
    <3> QED BY <1>1, <1>3, <3>1 DEF Whole, Holds, Written
  <2>7. ASSUME NEW k \in swept'
        PROVE  \E e \in Ends :
                 /\ Reserved <= e /\ e <= VolumeSectors /\ Whole(e, k)'
                 /\ \/ e = reported + Reserved /\ k = bound
                    \/ e >= reported + 2 * Reserved
    <3>1. CASE k = bound
      <4>1. Reserved <= reported + Reserved
        BY <1>5, Sizes
      <4>2. PICK e \in Ends : e = reported + Reserved
        BY <1>3
      <4>3. Whole(e, k)'
        BY <1>1, <2>6, <3>1, <4>2 DEF Whole, Holds, Written, Range, replica_lbas
      <4> QED BY <1>3, <3>1, <4>1, <4>2, <4>3
    <3>2. CASE k # bound
      <4>1. k \in swept
        BY <1>1, <2>7, <3>2
      <4>2. PICK e \in Ends :
               /\ Reserved <= e /\ e <= VolumeSectors /\ Whole(e, k)
               /\ e >= reported + 2 * Reserved
        BY <1>1, <1>5, <3>2, <4>1 DEF PrepareInv, KeyInv
      <4>3. e \in Int
        BY EndsSteps
      <4>4. \A p \in Group(e) : p >= reported + Reserved
        BY <1>5, <4>2, <4>3, Sizes DEF Group
      <4>5. Whole(e, k)'
        BY <1>3, <4>2, <4>3, <4>4, WholeFrame
      <4> QED BY <4>2, <4>5
    <3> QED BY <3>1, <3>2
  <2> QED BY <1>1, <1>7, <2>2, <2>4, <2>5, <2>7 DEF KeyInv, Group, Ends
<1> QED BY <1>4, <1>8, <1>9, <1>10, <1>11 DEF PrepareInv, ShrinkInv

(* A torn replica is one of the tail that was being written.               *)
LEMMA InvPowerLoss == ASSUME PrepareInv, PowerLoss PROVE PrepareInv'
<1> DEFINE h == Head(todo)
<1>1. /\ power = "on"
      /\ crashes < MaxCrashes /\ crashes' = crashes + 1 /\ power' = "off"
      /\ todo' = <<>> /\ mounted' = FALSE /\ bound' = NoFvek /\ known' = {}
      /\ reported' = VolumeSectors /\ cmd' = "idle"
      /\ UNCHANGED <<total, lcn, pass, changes>>
      /\ UNCHANGED <<esp, block, keys, runs, filter, swept>>
  BY DEF PowerLoss, Goto
<1>2. \/ UNCHANGED meta
      \/ /\ todo # <<>>
         /\ meta' = [p \in DOMAIN meta \cup {h} |->
                        IF p = h THEN Written(Torn) ELSE meta[p]]
  BY DEF PowerLoss
<1>3. todo # <<>> => /\ filter /\ h \in Group(reported)
                     /\ h \in 0 .. VolumeSectors - 1 /\ h >= Extent
                     /\ Extent <= VolumeSectors - Reserved
  BY WritingFacts
<1> HIDE DEF h
<1>4. /\ DOMAIN meta \subseteq DOMAIN meta'
      /\ \A p \in DOMAIN meta' :
            \/ p \in DOMAIN meta /\ meta'[p] = meta[p]
            \/ todo # <<>> /\ p = h /\ meta'[p] = Written(Torn)
  BY <1>2
<1>5. ShrinkInv'
  BY <1>1, ShrinkFrame DEF PrepareInv, ShrinkInv
<1>6. crashes' \in 0 .. MaxCrashes /\ bound' \in 0 .. keys
  BY <1>1, PrepareAssumption DEF PrepareInv, PrepareTyped, NoFvek
<1>7. cmd' \in Steps /\ cmd' \notin BeforeDriver
  BY <1>1 DEF Steps, BeforeDriver
<1>8. PrepareTyped'
  <2> DEFINE T == [fvek : {Torn} \cup (1 .. keys), layers : Int]
  <2>1. meta' \in [DOMAIN meta' -> T]
    <3>1. Written(Torn) \in T /\ meta \in [DOMAIN meta -> T]
      BY DEF Written, PrepareInv, PrepareTyped
    <3> HIDE DEF T
    <3> QED BY <1>2, <3>1
  <2>2. DOMAIN meta' \subseteq 0 .. VolumeSectors - 1
    BY <1>3, <1>4 DEF PrepareInv, PrepareTyped
  <2>3. todo' \in Seq(Group(reported)')
    BY <1>1
  <2>4. Ends' = Ends /\ Esps' = Esps
    BY DEF Ends, Esps
  <2>5. reported' \in Ends /\ reported' \in 1 .. VolumeSectors
    BY <1>1, EndsSteps, Sizes
  <2>6. known' \subseteq Paths
    BY <1>1
  <2> QED BY <1>1, <1>6, <1>7, <2>1, <2>2, <2>3, <2>4, <2>5, <2>6
          DEF PrepareInv, PrepareTyped
<1>9. ControlInv'
  BY <1>1 DEF PrepareInv, ControlInv
<1>10. TailInv'
  <2>1. reported \in 1 .. VolumeSectors /\ Extent \in Int
    <3>1. total \in Nat
      BY Sizes DEF PrepareInv, ShrinkTyped
    <3> QED BY <3>1, ExtentIs DEF PrepareInv, PrepareTyped, Extent
  <2>2. Extent <= VolumeSectors
    BY <2>1, Sizes DEF PrepareInv, TailInv
  <2>3. DOMAIN meta' # {} => Extent <= VolumeSectors - Reserved
    BY <1>3, <1>4 DEF PrepareInv, TailInv
  <2>4. \A p \in DOMAIN meta' : p >= Extent
    BY <1>3, <1>4 DEF PrepareInv, TailInv
  <2>5. Extent' = Extent
    BY <1>1 DEF Extent
  <2> QED BY <1>1, <2>2, <2>3, <2>4, <2>5 DEF TailInv, AfterShrink, Shrinking
<1>11. KeyInv'
  <2>1. \A p \in DOMAIN meta' : meta'[p].fvek > NoFvek =>
           p \in DOMAIN meta /\ meta'[p] = meta[p]
    BY <1>4 DEF Written, Torn, NoFvek
  <2>2. ASSUME NEW p \in DOMAIN meta', NEW q \in DOMAIN meta',
               meta'[p].fvek > NoFvek, meta'[p].fvek = meta'[q].fvek
        PROVE  \E e \in Ends : p \in Group(e) /\ q \in Group(e)
    BY <2>1, <2>2 DEF PrepareInv, KeyInv
  <2>3. ASSUME NEW k \in swept
        PROVE  \E e \in Ends : Reserved <= e /\ e <= VolumeSectors /\ Whole(e, k)'
    <3>1. CASE todo # <<>>
      <4>1. \A p \in DOMAIN meta : p # h => meta'[p] = meta[p]
        BY <1>4
      <4> QED BY <1>1, <1>3, <1>4, <3>1, <4>1, KeysOutOfReach
    <3>2. CASE todo = <<>>
      <4>1. UNCHANGED meta
        BY <1>2, <3>2
      <4>2. PICK e \in Ends : Reserved <= e /\ e <= VolumeSectors /\ Whole(e, k)
        BY DEF PrepareInv, KeyInv
      <4>3. Whole(e, k)'
        BY <4>1, <4>2 DEF Whole, Holds, Written, Range, replica_lbas
      <4> QED BY <4>2, <4>3
    <3> QED BY <3>1, <3>2
  <2> QED BY <1>1, <2>2, <2>3 DEF KeyInv, Group, Ends
<1> QED BY <1>5, <1>8, <1>9, <1>10, <1>11 DEF PrepareInv, ShrinkInv

(* A volume that is mounted at the boot of an encrypted system is bound    *)
(* with the one key its sectors are encrypted with.                        *)
LEMMA InvBoot == ASSUME PrepareInv, Boot PROVE PrepareInv'
<1>1. /\ power = "off" /\ power' = "on" /\ filter' = TRUE /\ Boots
      /\ UNCHANGED <<cmd, total, lcn, pass, changes>>
      /\ UNCHANGED <<esp, mounted, block, keys, runs, meta, todo, known, swept,
                     crashes>>
  BY DEF Boot, shrinkVars
<1>2. \/ /\ esp.bootmgfw = "loader" /\ Opens(VolumeSectors)
         /\ bound' = openedFvek(VolumeSectors)
         /\ reported' = VolumeSectors - Reserved
      \/ /\ ~(esp.bootmgfw = "loader" /\ Opens(VolumeSectors))
         /\ UNCHANGED <<bound, reported>>
  BY DEF Boot
<1>3. ShrinkInv'
  BY <1>1, ShrinkFrame DEF PrepareInv, ShrinkInv
<1>4. /\ cmd = "idle" /\ bound = NoFvek /\ reported = VolumeSectors
      /\ todo = <<>>
  BY <1>1 DEF PrepareInv, ControlInv
<1>5. Opens(VolumeSectors) => /\ openedFvek(VolumeSectors) \in 1 .. keys
                              /\ DOMAIN meta # {}
  BY Opened, Sizes DEF PrepareInv, Opens, Readable, Holds
<1>6. VolumeSectors \in Ends /\ VolumeSectors - Reserved \in Ends
  BY EndsSteps
<1>7. PrepareTyped'
  <2>1. bound' \in 0 .. keys
    BY <1>2, <1>5 DEF PrepareInv, PrepareTyped
  <2>2. reported' \in Ends /\ reported' \in 1 .. VolumeSectors
    BY <1>2, <1>4, <1>6, Sizes
  <2>3. todo' \in Seq(Group(reported)')
    BY <1>1, <1>4
  <2>4. Ends' = Ends /\ Esps' = Esps
    BY DEF Ends, Esps
  <2> QED BY <1>1, <2>1, <2>2, <2>3, <2>4 DEF PrepareInv, PrepareTyped
<1>8. ControlInv'
  <2>1. bound' # NoFvek => /\ esp.bootmgfw = "loader"
                           /\ reported' = VolumeSectors - Reserved
    BY <1>2, <1>4
  <2>2. bound' = NoFvek => reported' = VolumeSectors
    BY <1>2, <1>4, <1>5 DEF NoFvek
  <2>3. VolumeSectors - Reserved <= VolumeSectors - Reserved
    BY Sizes
  <2> QED BY <1>1, <1>4, <2>1, <2>2, <2>3 DEF PrepareInv, ControlInv
<1>9. TailInv'
  <2>1. reported' = VolumeSectors - Reserved => DOMAIN meta # {} \/ reported' = reported
    BY <1>2, <1>5
  <2>2. Extent <= reported'
    BY <1>2, <1>5 DEF PrepareInv, TailInv
  <2>3. Extent' = Extent
    BY <1>1 DEF Extent
  <2> QED BY <1>1, <1>4, <2>2, <2>3 DEF PrepareInv, TailInv, AfterShrink, Shrinking
<1>10. KeyInv'
  <2>1. ASSUME bound' # NoFvek, NEW p \in DOMAIN meta, meta[p].fvek = bound'
        PROVE  p \in Group(VolumeSectors) /\ (reported + Reserved)' = VolumeSectors
    <3>1. /\ Opens(VolumeSectors) /\ bound' = openedFvek(VolumeSectors)
          /\ reported' = VolumeSectors - Reserved
      BY <1>2, <1>4, <2>1
    <3>2. p \in Group(VolumeSectors)
      BY <1>6, <2>1, <3>1, OpenedTail
    <3> QED BY <3>1, <3>2, Sizes
  <2>2. ASSUME NEW k \in swept
        PROVE  \E e \in Ends : /\ Reserved <= e /\ e <= VolumeSectors /\ Whole(e, k)
                               /\ e = reported' + Reserved /\ k = bound'
    <3>1. /\ esp.bootmgfw = "loader" /\ Opens(VolumeSectors)
          /\ k = openedFvek(VolumeSectors)
      BY <1>1, <2>2 DEF Boots, PrepareInv, PrepareTyped, Esps
    <3>2. bound' = k /\ reported' = VolumeSectors - Reserved
      BY <1>2, <3>1
    <3>3. PICK e \in Ends : Reserved <= e /\ e <= VolumeSectors /\ Whole(e, k)
      BY DEF PrepareInv, KeyInv
    <3>4. e \in Int
      BY EndsSteps
    <3>5. e - 1 \in Range(replica_lbas(e)) /\ e - 1 \in Group(e)
      BY <3>4, ReplicaPlaces
    <3>6. e - 1 \in DOMAIN meta /\ meta[e - 1].fvek = k
      BY <3>3, <3>5 DEF Whole, Holds, Written
    <3>7. e - 1 \in Group(VolumeSectors)
      BY <1>6, <3>1, <3>6, OpenedTail
    <3>8. e = VolumeSectors
      BY <1>6, <3>5, <3>7, GroupsApart
    <3> QED BY <3>2, <3>3, <3>8, Sizes
  <2>3. ASSUME NEW e, NEW k, Whole(e, k) PROVE Whole(e, k)'
    BY <1>1, <2>3 DEF Whole, Holds, Written, Range, replica_lbas
  <2> QED BY <1>1, <1>4, <2>1, <2>2, <2>3 DEF PrepareInv, KeyInv, Group, Ends
<1> QED BY <1>3, <1>7, <1>8, <1>9, <1>10 DEF PrepareInv, ShrinkInv

-----------------------------------------------------------------------------
(***************************************************************************)
(* The theorems.                                                           *)
(***************************************************************************)
LEMMA PrepareInvStep == PrepareInv /\ [Next]_vars => PrepareInv'
<1> SUFFICES ASSUME PrepareInv, [Next]_vars PROVE PrepareInv'
  OBVIOUS
<1>1. CASE Command
  BY <1>1, InvShrinkVolumeTail, InvCopyBegin, InvCopyEnd, InvWriteConfigBegin,
     InvWriteConfigEnd, InvEnds, InvBuild, InvPrepare, InvWriteMetadata,
     InvWriteFails, InvOpenFails, InvBindVolume DEF Command
<1>2. CASE UNCHANGED vars
  <2>1. /\ UNCHANGED <<cmd, total, lcn, pass, changes>>
        /\ UNCHANGED <<esp, mounted, block, keys, runs>>
        /\ UNCHANGED <<meta, todo, filter, bound, reported, known>>
        /\ UNCHANGED <<swept, power, crashes>>
    BY <1>2 DEF vars, shrinkVars, prepareVars, driverVars, machineVars
  <2>2. ControlInv'
    BY <2>1 DEF PrepareInv, ControlInv
  <2> QED BY <2>1, <2>2, CommandFrame DEF PrepareInv, PrepareTyped
<1> QED BY <1>1, <1>2, InvRunPrepare, InvOthers, InvInstallLoader,
           InvRemoveConfig, InvSweeps, InvEnds, InvPowerLoss, InvBoot DEF Next

LEMMA PrepareInvHolds == Spec => []PrepareInv
BY InvInit, PrepareInvStep, PTL DEF Spec

(* prepareOSVolume, ShrinkVolumeTail and PREPARE keep their variables in   *)
(* their types: no cluster is given to two VCNs or lies beyond the file    *)
(* system, no sector outside the volume is written, however little of it a *)
(* repeated PREPARE is left with, and no run generates more than one FVEK. *)
THEOREM PrepareTypeCorrect == Spec => []TypeOK
<1>1. PrepareInv => TypeOK
  <2> SUFFICES ASSUME PrepareInv PROVE TypeOK
    OBVIOUS
  <2>1. ShrinkTypeOK
    BY DEF PrepareInv, ShrinkTyped, ShrinkTypeOK, Clusters
  <2>2. /\ keys \in Nat /\ runs \in Nat /\ keys <= runs /\ runs <= MaxRuns
        /\ MaxRuns \in Nat /\ block \in 0 .. keys /\ bound \in 0 .. keys
        /\ swept \subseteq 1 .. keys
    BY PrepareAssumption DEF PrepareInv, PrepareTyped
  <2>3. /\ {block, keys, bound} \subseteq 0 .. MaxRuns
        /\ 1 .. keys \subseteq 1 .. MaxRuns
    BY <2>2
  <2>4. \A p \in DOMAIN meta :
           meta[p] \in [fvek : {Torn} \cup (1 .. MaxRuns), layers : Int]
    <3>1. \A p \in DOMAIN meta :
             meta[p] \in [fvek : {Torn} \cup (1 .. keys), layers : Int]
      BY DEF PrepareInv, PrepareTyped
    <3> QED BY <2>3, <3>1
  <2>5. Range(todo) \subseteq 0 .. VolumeSectors - 1
    <3>1. todo \in Seq(Group(reported)) /\ reported \in 1 .. VolumeSectors
      BY DEF PrepareInv, PrepareTyped
    <3>2. CASE todo = <<>>
      BY <3>2 DEF Range
    <3>3. CASE todo # <<>>
      <4>1. reported > Reserved
        BY <3>3 DEF PrepareInv, ControlInv, TailInv, AfterShrink
      <4>2. Group(reported) \subseteq 0 .. VolumeSectors - 1
        BY <3>1, <4>1, Sizes DEF Group
      <4>3. \A k \in DOMAIN todo : todo[k] \in Group(reported)
        BY <3>1
      <4> QED BY <4>2, <4>3 DEF Range
    <3> QED BY <3>2, <3>3
  <2>6. /\ cmd \in {"idle", "shrink", "commit", "walk", "copy", "copying",
                    "config", "writing", "driver", "request", "prepare", "return"}
        /\ esp \in [bootmgfw : {"os", "loader"},
                    copy : {"none", "part", "os", "loader"},
                    vckJson : {"none", "part", "ok"}]
        /\ {mounted, filter} \subseteq BOOLEAN
        /\ reported \in 1 .. VolumeSectors /\ known \subseteq Paths
        /\ DOMAIN meta \subseteq 0 .. VolumeSectors - 1
        /\ power \in {"on", "off"}
        /\ runs \in 0 .. MaxRuns /\ crashes \in 0 .. MaxCrashes
    BY DEF PrepareInv, PrepareTyped, Steps, BeforeDriver, Esps
  <2>7. swept \subseteq 1 .. MaxRuns
    BY <2>2, <2>3
  <2> QED BY <2>1, <2>3, <2>4, <2>5, <2>6, <2>7 DEF TypeOK
<1> QED BY <1>1, PrepareInvHolds, PTL

(* Wherever prepareOSVolume fails, is killed or loses the power, and       *)
(* however often it is run again under whichever path, the machine boots;  *)
(* the sweep that runs before the loader is installed and the sweep with a *)
(* key that is not at the end of the partition are the exceptions.         *)
THEOREM MachineBoots == Spec => []AlwaysBoots
<1>1. PrepareInv => AlwaysBoots
  <2> SUFFICES ASSUME PrepareInv, ~(esp.bootmgfw = "os" /\ swept # {}),
                      ~\E p \in DOMAIN meta :
                          p < VolumeSectors - Reserved /\ meta[p].fvek \in swept
               PROVE  Boots
    BY DEF AlwaysBoots
  <2>1. ASSUME NEW k \in swept
        PROVE  Opens(VolumeSectors) /\ openedFvek(VolumeSectors) = k
    <3>1. PICK e \in Ends : e <= VolumeSectors /\ Whole(e, k)
      BY DEF PrepareInv, KeyInv
    <3>2. e \in Int /\ VolumeSectors \in Ends /\ VolumeSectors \in Int
          /\ Reserved \in Nat \ {0}
      BY EndsSteps, Sizes
    <3>3. Holds(e - 1, k)
      BY <3>1, <3>2, ReplicaPlaces DEF Whole
    <3>4. ~(e - 1 < VolumeSectors - Reserved)
      BY <3>3 DEF Holds, Written
    <3>5. e = VolumeSectors
      BY <3>1, <3>2, <3>4, EndsApart
    <3>6. k \in 1 .. keys
      BY DEF PrepareInv, PrepareTyped
    <3> QED BY <3>1, <3>2, <3>5, <3>6, OpenedWhole DEF PrepareInv
  <2>2. swept # {} => Opens(VolumeSectors) /\ swept = {openedFvek(VolumeSectors)}
    BY <2>1
  <2>3. esp.bootmgfw \in {"os", "loader"}
    BY DEF PrepareInv, PrepareTyped, Esps
  <2> QED BY <2>2, <2>3 DEF PrepareInv, ControlInv, Boots
<1> QED BY <1>1, PrepareInvHolds, PTL

(* No sector that PREPARE has written lies in a cluster of the file        *)
(* system, whatever ShrinkVolumeTail was asked for on the way and whatever *)
(* length the filter reported to it.                                       *)
THEOREM TailStaysFree == Spec => []TailIsFree
<1>1. PrepareInv => TailIsFree
  BY DEF PrepareInv, TailInv, Extent, TailIsFree
<1> QED BY <1>1, PrepareInvHolds, PTL

(* A key that sectors are encrypted with is whole in all replicas of one   *)
(* tail, through every PREPARE under every path: the filter hides that     *)
(* tail from the next one.  As long as the registry holds no more than one *)
(* path, the key that is bound is the one the sectors need.                *)
THEOREM KeyIsKept == Spec => []SweptKeyIsKept
<1>1. PrepareInv => SweptKeyIsKept
  <2> SUFFICES ASSUME PrepareInv PROVE SweptKeyIsKept
    OBVIOUS
  <2>1. ASSUME NEW k \in swept
        PROVE  \E len \in Reserved .. VolumeSectors :
                  \A p \in Range(replica_lbas(len)) : Holds(p, k)
    <3>1. PICK e \in Ends : Reserved <= e /\ e <= VolumeSectors /\ Whole(e, k)
      BY DEF PrepareInv, KeyInv
    <3>2. e \in Reserved .. VolumeSectors
      BY <3>1, EndsSteps, Sizes
    <3> QED BY <3>1, <3>2 DEF Whole
  <2>2. ASSUME bound # NoFvek, \A p, q \in known : p = q, NEW k \in swept
        PROVE  k = bound
    <3>1. /\ reported = VolumeSectors - Reserved
          /\ power = "on" /\ filter
      BY <2>2 DEF PrepareInv, PrepareTyped, ControlInv
    <3>2. PICK e \in Ends : /\ e <= VolumeSectors
                            /\ \/ e = reported + Reserved /\ k = bound
                               \/ e >= reported + 2 * Reserved
      BY <3>1 DEF PrepareInv, KeyInv
    <3>3. e \in Int
      BY EndsSteps
    <3> QED BY <3>1, <3>2, <3>3, Sizes
  <2> QED BY <2>1, <2>2 DEF SweptKeyIsKept
<1> QED BY <1>1, PrepareInvHolds, PTL

(* moveTailClustersBeforeThreshold stops without a move only when NTFS     *)
(* still has a cluster beyond the new end and every cluster below the      *)
(* threshold is in use.                                                    *)
THEOREM StopsOnlyWhenStuck == Spec => GivesUpOnlyWhenStuck
<1>1. PrepareInv =>
        [GiveUp /\ ~pass.excused =>
            /\ \E c \in Used : c >= pass.target
            /\ 0 .. thresholdLCN - 1 \subseteq Used]_shrinkVars
  BY StuckPass DEF PrepareInv, ShrinkInv
<1> QED BY <1>1, PrepareInvHolds, PTL DEF GivesUpOnlyWhenStuck

=============================================================================
