---------------------------- MODULE MCAppSession ----------------------------
(* Model values for checking AppSession with TLC. *)
EXTENDS AppSession

CONSTANTS a, s1, s2, s3

MCOneClient == {a}
MCTwoSockets == {s1, s2}
MCThreeSockets == {s1, s2, s3}
=============================================================================
