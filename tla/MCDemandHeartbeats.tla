------------------------ MODULE MCDemandHeartbeats ------------------------
(* A busy pool, and an idle one whose grant every poll repeats.            *)
EXTENDS DemandHeartbeats, TLC

CONSTANTS busy, idle

ThePools == {busy, idle}
TheCeilings == (busy :> {0, 1}) @@ (idle :> {})
TheAdmissions == (busy :> 2) @@ (idle :> 0)
TheRevisions == (busy :> 2) @@ (idle :> 0)
===========================================================================
