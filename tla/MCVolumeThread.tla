-------------------------- MODULE MCVolumeThread --------------------------
(* VolumeThread with a handful of IRPs. *)
EXTENDS VolumeThread
CONSTANTS i1, i2, i3
TwoIrps == {i1, i2}
ThreeIrps == {i1, i2, i3}
=============================================================================
