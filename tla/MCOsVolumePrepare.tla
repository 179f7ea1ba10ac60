------------------------- MODULE MCOsVolumePrepare -------------------------
(* OsVolumePrepare with two files: one with an extent that reaches into    *)
(* the tail, and a full volume below the threshold.                        *)
EXTENDS OsVolumePrepare
TwoFiles == {<< <<3, 4>>, <<0, 5>> >>, << <<0, 1, 5>>, <<2, 3>> >>}
=============================================================================
