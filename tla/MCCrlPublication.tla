-------------------------- MODULE MCCrlPublication --------------------------
(* Model values for checking CrlPublication with TLC. *)
EXTENDS CrlPublication, TLC

CONSTANTS a, b, c, boot, d1, d2

MCTwoJobs == {a, b}
MCThreeJobs == {a, b, c}
MCDevices == {d1, d2}
MCSymmetry == Permutations(MCThreeJobs) \cup Permutations(MCDevices)
=============================================================================
