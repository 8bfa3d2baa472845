--------------------------- MODULE MCProvisioning ---------------------------
(* Model values and symmetry for checking Provisioning with TLC. *)
EXTENDS Provisioning, TLC

CONSTANTS u1, u2, n1, n2, n3

MCUUIDs == {u1, u2}
MCNames == {n1, n2}
MCOneUUID == {u1}
MCThreeNames == {n1, n2, n3}
MCSymmetry == Permutations(MCUUIDs) \cup Permutations(MCNames)
=============================================================================
