------------------------------ MODULE MCVcClaims ----------------------------
(***************************************************************************)
(* An instance of VcClaims for TLC.                                        *)
(***************************************************************************)
EXTENDS VcClaims

CONSTANTS k1, agent1, agent2, sigZero, g1, m1

(* A range, and an empty one. *)
MCRanges == {<<1, 3>>, <<2, 2>>}

=============================================================================
