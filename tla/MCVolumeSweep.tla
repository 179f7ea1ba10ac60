--------------------------- MODULE MCVolumeSweep ---------------------------
(* VolumeSweep on small volumes: model values for the sector contents and  *)
(* the sets of faults each run allows.                                     *)
EXTENDS VolumeSweep

CONSTANTS a, b

TwoValues == {a, b}
OneValue == {a}
WriteFaults == {"write"}
PowerFaults == {"crash", "metaTorn"}
DeviceFaults == {"write", "torn", "meta"}
MetaFaults == {"meta"}
=============================================================================
