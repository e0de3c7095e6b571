------------------------- MODULE MCFindingLifecycle -------------------------
(* Small instances of FindingLifecycle for TLC.                            *)
EXTENDS FindingLifecycle, TLC

CONSTANTS f1, f2, r1, r2, timer, api, u1, t1

OneTenant == [a \in Scans \cup Users |-> t1]

\* Each finding on a resource of its own.
OwnResource == (f1 :> r1) @@ (f2 :> r2)

\* A single finding.
OneResource == (f1 :> r1)
=============================================================================
