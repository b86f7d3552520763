-------------------------- MODULE MCLeaderElection --------------------------
(* Small instances of LeaderElection: two or three clients of one Lease. *)
EXTENDS LeaderElection

CONSTANTS c1, c2, c3
=============================================================================
