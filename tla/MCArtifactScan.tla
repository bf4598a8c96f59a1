--------------------------- MODULE MCArtifactScan ---------------------------
(* Instances of ArtifactScan for TLC. *)
EXTENDS ArtifactScan

CONSTANTS k1, k2, w1, w2, web

\* One fast clock: w2 is a tick ahead of w1 and of the web process.
OneFastClock == [p \in {w1, w2, web} |-> IF p = w2 THEN 1 ELSE 0]
=============================================================================
