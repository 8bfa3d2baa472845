--------------------------- MODULE RevocationList ---------------------------
(***************************************************************************)
(* What the hub promises about its certificate revocation list, whatever   *)
(* files, child processes and concurrent requests produce it: no           *)
(* certificate is ever un-revoked, only revoked certificates are listed,   *)
(* and, as long as no two regenerations have overlapped, every publication *)
(* has a larger number than the one before (certs.ts: "CRL numbers only    *)
(* ever increase") and drops no certificate from it.                       *)
(***************************************************************************)
EXTENDS Naturals

CONSTANT Serials        \* the certificates that can be revoked

VARIABLES
    revoked,        \* the certificates revoked so far
    published,      \* the current list, {} before the first
    serialized      \* no two regenerations have overlapped so far

vars == <<revoked, published, serialized>>

Init ==
    /\ revoked = {}
    /\ published = {}
    /\ serialized = TRUE

Revoke ==
    /\ revoked' \subseteq Serials
    /\ revoked \subseteq revoked'
    /\ serialized' \in {serialized, FALSE}
    /\ UNCHANGED published

Publish ==
    /\ \E crl \in published' :
        /\ published' = {crl}
        /\ crl.serials \subseteq revoked
        /\ serialized => \A old \in published :
               old.number < crl.number /\ old.serials \subseteq crl.serials
    /\ UNCHANGED <<revoked, serialized>>

Next == Revoke \/ Publish

Spec == Init /\ [][Next]_vars
=============================================================================
