--------------------------- MODULE MCEventStreams ---------------------------
(* A stream, two resources of its user and one of somebody else. One hint   *)
(* may wait for a verification; the next one ends the stream.               *)
EXTENDS EventStreams

CONSTANTS s1, k1, k2, k3, u1, u2, x1

MCOwnerOf == [k \in {k1, k2, k3} |-> IF k = k3 THEN u2 ELSE u1]
MCUserOf == [s \in {s1} |-> u1]
MCSessionOf == [s \in {s1} |-> x1]
=============================================================================
