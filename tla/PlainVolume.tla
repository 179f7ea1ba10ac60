---------------------------- MODULE PlainVolume ----------------------------
(***************************************************************************)
(* What the volume filter promises to the file system above it: a volume   *)
(* of N plaintext sectors.  A read returns what the volume holds, a write  *)
(* replaces it, a write that the device fails may have replaced any part   *)
(* of its range, and nothing else the driver does (sweeping, pausing,      *)
(* shutting down, attaching again) changes a sector.                       *)
(*                                                                         *)
(* VolumeSweep implements this specification: see PlainView there.         *)
(***************************************************************************)
EXTENDS Integers

CONSTANTS
    N,        \* number of sectors of the volume the file system sees
    Values    \* what one sector can hold

VARIABLES
    content,  \* content[s]: what sector s holds
    answer    \* what the read that just completed returned; empty otherwise

vars == <<content, answer>>

Sectors == 0 .. N - 1

(* The sector ranges a request may name. *)
Ranges == {f .. l : f \in Sectors, l \in Sectors} \ {{}}

NoAnswer == [s \in {} |-> 0]

Init ==
    /\ content \in [Sectors -> Values]
    /\ answer = NoAnswer

Read(range) ==
    /\ answer' = [s \in range |-> content[s]]
    /\ UNCHANGED content

(* `done' is the part of the range that reached the medium: all of it when *)
(* the request succeeds.                                                   *)
Write(range, done, v) ==
    /\ done \subseteq range
    /\ content' = [s \in Sectors |-> IF s \in done THEN v ELSE content[s]]
    /\ answer' = NoAnswer

Internal ==
    /\ answer' = NoAnswer
    /\ UNCHANGED content

Next ==
    \/ \E range \in Ranges : Read(range)
    \/ \E range \in Ranges, v \in Values :
          \E done \in SUBSET range : Write(range, done, v)
    \/ Internal

Spec == Init /\ [][Next]_vars

=============================================================================
