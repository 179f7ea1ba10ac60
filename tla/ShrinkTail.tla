----------------------------- MODULE ShrinkTail -----------------------------
(***************************************************************************)
(* ShrinkVolumeTail (sdk/volume_windows.go): free the last Reserved        *)
(* sectors of a mounted NTFS volume.                                       *)
(*                                                                         *)
(* NTFS is asked to commit the smaller size; while it refuses because      *)
(* clusters beyond the new end are in use, the files are walked and their  *)
(* tail clusters moved, one by one, into free clusters below a threshold   *)
(* that the SDK computes for itself.  The volume is live: files grow and   *)
(* shrink between any two of these steps, and free clusters are taken from *)
(* a copy of the volume bitmap that ages.                                  *)
(*                                                                         *)
(* NTFS is external: it commits exactly when no cluster beyond the new end *)
(* is in use, moves a cluster exactly when the target is free, and once a  *)
(* shrink is prepared it allocates nothing beyond the new end.             *)
(***************************************************************************)
EXTENDS Integers, Sequences, FiniteSetsExt, Functions

CONSTANTS
    VolumeSectors,  \* sectors of the partition
    ClusterSectors, \* sectors in a cluster
    Reserved,       \* sectors to free at the tail
    FileCount,      \* files of the volume, in the order filepath.Walk visits
    Layouts,        \* initial placements: per file, the cluster of each VCN
    ChunkClusters,  \* clusters described by one read of the bitmap
    MaxAttempts,    \* targets tried for one cluster (1024 in the code)
    MaxChanges      \* bound: clusters that others allocate or free

Files == 1 .. FileCount

(* The files lie in clusters below n, each VCN in one of its own.          *)
Placed(l, n) ==
    /\ \A f \in Files : l[f] \in Seq(0 .. n - 1)
    /\ \A f, g \in Files : \A v \in DOMAIN l[f], w \in DOMAIN l[g] :
          l[f][v] = l[g][w] => f = g /\ v = w

ASSUME ShrinkAssumption ==
    /\ {VolumeSectors, ClusterSectors, Reserved, FileCount, ChunkClusters,
        MaxAttempts} \subseteq Nat \ {0}
    /\ MaxChanges \in Nat
    /\ Reserved < VolumeSectors
    /\ \A l \in Layouts : /\ l \in [Files -> Seq(Nat)]
                          /\ Placed(l, VolumeSectors \div ClusterSectors)

VARIABLES
    cmd,     \* what the command does next
    total,   \* TotalClusters of the file system
    lcn,     \* lcn[f][v]: the cluster that holds VCN v of file f
    pass,    \* one pass of moveTailClustersBeforeThreshold
    changes  \* allocations and deletions by other programs so far

shrinkVars == <<cmd, total, lcn, pass, changes>>

Used == UNION {Range(lcn[f]) : f \in Files}

CeilDiv(a, b) == (a + b - 1) \div b

(* Mutant: a reserved part of a cluster is not counted. *)
ThresholdRoundedDown == total - Reserved \div ClusterSectors

thresholdLCN == total - CeilDiv(Reserved, ClusterSectors)

(* The size asked for, in clusters, of a volume that says it has len       *)
(* sectors.                                                                *)
targetClusters(len) == (len - Reserved) \div ClusterSectors

(* A walk that has not begun: the scanner at cluster 0, no bitmap read.    *)
(* `excused' is not in the code: it records that in this pass a file could *)
(* not be opened, the attempts ran out or a cluster was freed behind the   *)
(* scanner.                                                                *)
newPass(target) ==
    [target |-> target, file |-> 1, scan |-> 0, chunk |-> {}, bitmap |-> {},
     attempts |-> 0, moved |-> FALSE, excused |-> FALSE]

ShrinkInit ==
    /\ total = VolumeSectors \div ClusterSectors
    /\ lcn \in Layouts
    /\ pass = newPass(0)
    /\ changes = 0

Shrinking == cmd \in {"commit", "walk"}

(***************************************************************************)
(* The request to NTFS.                                                    *)
(***************************************************************************)
ShrinkPrepare(len) ==
    /\ cmd = "shrink" /\ len > Reserved
    /\ pass' = newPass(targetClusters(len))
    /\ cmd' = "commit"
    /\ UNCHANGED <<total, lcn, changes>>

(* The size is invalid, a query fails, or NTFS refuses to prepare.         *)
ShrinkPrepareFails ==
    /\ cmd = "shrink" /\ cmd' = "return"
    /\ UNCHANGED <<total, lcn, pass, changes>>

Commit ==
    /\ cmd = "commit" /\ \A c \in Used : c < pass.target
    /\ total' = IF pass.target < total THEN pass.target ELSE total
    /\ cmd' = "copy"
    /\ UNCHANGED <<lcn, pass, changes>>

CommitDenied ==
    /\ cmd = "commit" /\ \E c \in Used : c >= pass.target
    /\ pass' = newPass(pass.target)
    /\ cmd' = "walk"
    /\ UNCHANGED <<total, lcn, changes>>

(* Any other error: the shrink is aborted.                                 *)
CommitFails ==
    /\ cmd = "commit" /\ cmd' = "return"
    /\ UNCHANGED <<total, lcn, pass, changes>>

(***************************************************************************)
(* One pass over the files.                                                *)
(***************************************************************************)
(* The VCNs moveSingleTailCluster looks for; it moves the first one.       *)
tailVcns(f) == {v \in DOMAIN lcn[f] : lcn[f][v] >= thresholdLCN}

(* Mutant: the scanner does not stop at the threshold. *)
CandidatesAnywhere == {c \in pass.chunk : pass.scan <= c} \ pass.bitmap

(* Clusters the scanner takes for free, as far as it has read the bitmap.  *)
candidates ==
    {c \in pass.chunk : pass.scan <= c /\ c < thresholdLCN} \ pass.bitmap

Visiting == cmd = "walk" /\ pass.file <= FileCount

Seeking ==
    /\ Visiting /\ tailVcns(pass.file) # {}
    /\ pass.scan < thresholdLCN

loadBitmap ==
    /\ Seeking /\ pass.scan \notin pass.chunk
    /\ LET chunk == {c \in 0 .. total - 1 :
                        pass.scan <= c /\ c < pass.scan + ChunkClusters}
       IN  pass' = [pass EXCEPT !.chunk = chunk, !.bitmap = Used \cap chunk]
    /\ UNCHANGED <<cmd, total, lcn, changes>>

(* Next runs to the end of the bitmap it has.                              *)
SkipUsed ==
    /\ Seeking /\ pass.scan \in pass.chunk /\ candidates = {}
    /\ pass' = [pass EXCEPT !.scan = Max(pass.chunk) + 1]
    /\ UNCHANGED <<cmd, total, lcn, changes>>

(* moveOneCluster succeeds: the file is looked at again from VCN 0.        *)
MoveCluster ==
    /\ Seeking /\ candidates # {}
    /\ LET target == Min(candidates)
           v == Min(tailVcns(pass.file))
       IN  /\ target \notin Used
           /\ lcn' = [lcn EXCEPT ![pass.file][v] = target]
           /\ pass' = [pass EXCEPT !.scan = target + 1, !.attempts = 0,
                                   !.moved = TRUE]
    /\ UNCHANGED <<cmd, total, changes>>

(* Mutant: the attempts are not limited. *)
MoveFailsForever ==
    /\ Seeking /\ candidates # {}
    /\ Min(candidates) \in Used
    /\ pass' = [pass EXCEPT !.scan = Min(candidates) + 1, !.attempts = @ + 1]
    /\ UNCHANGED <<cmd, total, lcn, changes>>

(* The target is no longer free: another one is tried, MaxAttempts times,  *)
(* then the file is left.                                                  *)
MoveFails ==
    /\ Seeking /\ candidates # {}
    /\ Min(candidates) \in Used
    /\ pass' = IF pass.attempts + 1 < MaxAttempts
                 THEN [pass EXCEPT !.scan = Min(candidates) + 1,
                                   !.attempts = @ + 1]
                 ELSE [pass EXCEPT !.scan = Min(candidates) + 1,
                                   !.attempts = 0, !.file = @ + 1,
                                   !.excused = TRUE]
    /\ UNCHANGED <<cmd, total, lcn, changes>>

(* The file has no tail cluster left, or the scanner nothing to offer.     *)
NextFile ==
    /\ Visiting /\ ~Seeking
    /\ pass' = [pass EXCEPT !.file = @ + 1, !.attempts = 0]
    /\ UNCHANGED <<cmd, total, lcn, changes>>

(* The file is in use or protected, or one of its queries fails.           *)
SkipFile ==
    /\ Visiting /\ tailVcns(pass.file) # {}
    /\ pass' = [pass EXCEPT !.file = @ + 1, !.attempts = 0, !.excused = TRUE]
    /\ UNCHANGED <<cmd, total, lcn, changes>>

(* The walk itself fails: the command returns without ShrinkAbort.         *)
WalkError ==
    /\ Visiting /\ cmd' = "return"
    /\ UNCHANGED <<total, lcn, pass, changes>>

Retry ==
    /\ cmd = "walk" /\ pass.file > FileCount /\ pass.moved
    /\ cmd' = "commit"
    /\ UNCHANGED <<total, lcn, pass, changes>>

(* Mutant: the failure of the shrink is not reported. *)
GiveUpSilently ==
    /\ cmd = "walk" /\ pass.file > FileCount /\ ~pass.moved
    /\ cmd' = "copy"
    /\ UNCHANGED <<total, lcn, pass, changes>>

GiveUp ==
    /\ cmd = "walk" /\ pass.file > FileCount /\ ~pass.moved
    /\ cmd' = "return"
    /\ UNCHANGED <<total, lcn, pass, changes>>

ShrinkStep(len) ==
    \/ ShrinkPrepare(len) \/ ShrinkPrepareFails
    \/ Commit \/ CommitDenied \/ CommitFails
    \/ loadBitmap \/ SkipUsed \/ MoveCluster \/ MoveFails
    \/ NextFile \/ SkipFile \/ WalkError \/ Retry \/ GiveUp

(***************************************************************************)
(* The other programs.                                                     *)
(***************************************************************************)
Allocate(f, c) ==
    /\ changes < MaxChanges /\ c \notin Used
    /\ c < (IF Shrinking /\ pass.target < total THEN pass.target ELSE total)
    /\ lcn' = [lcn EXCEPT ![f] = Append(@, c)]
    /\ changes' = changes + 1
    /\ UNCHANGED <<cmd, total, pass>>

Free(f) ==
    /\ changes < MaxChanges /\ lcn[f] # <<>>
    /\ lcn' = [lcn EXCEPT ![f] = SubSeq(@, 1, Len(@) - 1)]
    /\ changes' = changes + 1
    /\ pass' = [pass EXCEPT !.excused = Shrinking]
    /\ UNCHANGED <<cmd, total>>

OtherPrograms ==
    \E f \in Files : Free(f) \/ \E c \in 0 .. total - 1 : Allocate(f, c)

(***************************************************************************)
(* Properties.                                                             *)
(***************************************************************************)
ShrinkTypeOK ==
    /\ total \in 0 .. VolumeSectors \div ClusterSectors
    /\ Placed(lcn, total)
    /\ pass.file \in 1 .. FileCount + 1
    /\ pass.attempts \in 0 .. MaxAttempts - 1
    /\ pass.bitmap \subseteq pass.chunk

(* moveTailClustersBeforeThreshold gives up for a reason: when every file  *)
(* could be opened, no cluster was freed meanwhile and the attempts did    *)
(* not run out, there is a cluster beyond the new end and no free cluster  *)
(* below the threshold to take it.  In particular the SDK's threshold      *)
(* never leaves a cluster where NTFS does not accept one.                  *)
GivesUpOnlyWhenStuck ==
    [][GiveUp /\ ~pass.excused =>
          /\ \E c \in Used : c >= pass.target
          /\ 0 .. thresholdLCN - 1 \subseteq Used]_shrinkVars

(* The retry loop of ShrinkVolumeTail ends, although files grow while it   *)
(* runs: every pass that is followed by another has emptied part of the    *)
(* tail.                                                                   *)
ShrinkReturns == Shrinking ~> ~Shrinking
=============================================================================
