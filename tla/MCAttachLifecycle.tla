------------------------ MODULE MCAttachLifecycle ------------------------
(* AttachLifecycle with the system volume, a data volume that add_device   *)
(* has seen, and one it has not.                                           *)
EXTENDS AttachLifecycle
CONSTANTS Sys, Seen, Late
ThreeVolumes == {Sys, Seen, Late}
TwoVolumes   == {Sys, Late}
SeenVolumes  == {Sys, Seen}
DataVols     == {Seen, Late}
OnlySys      == {Sys}
None         == {}
=============================================================================
