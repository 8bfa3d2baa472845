--------------------------- MODULE CrlPublication ---------------------------
(***************************************************************************)
(* Publication of the certificate revocation list and renewal of the       *)
(* fleet-wide claim certificate (certs.ts), as run by concurrent admin     *)
(* requests and by the boot of the hub (index.ts ensurePki).               *)
(*                                                                         *)
(* A job is one request or one boot.  Each openssl, chgrp or systemctl     *)
(* child process is awaited, and other jobs run meanwhile; what a job does *)
(* between two awaits is one step.  A job works on its own temporary       *)
(* directory but shares the crlnumber file, ${CRL_PATH}.tmp, the CRL, the  *)
(* broker's copy and the claim certificate files with every other job.     *)
(* The root CA is taken to exist, and database writes to succeed.          *)
(***************************************************************************)
EXTENDS Naturals

CONSTANTS
    Jobs,           \* the admin requests, each made at most once
    BootJob,        \* the job of ensurePki, run again by every start of the hub
    Devices,        \* device certificates
    MaxCrashes,     \* bound: deaths of the hub process
    MaxFaults       \* bound: child processes that exit with an error

ASSUME BootAssumption == BootJob \notin Jobs
ASSUME BoundsAssumption == MaxCrashes \in Nat /\ MaxFaults \in Nat

VARIABLES
    \* the certificates table, and the files of the hub and of the broker
    revoked,        \* certificates whose row has revoked_at
    crlNumber,      \* CRL_NUMBER_PATH
    crlTmp,         \* ${CRL_PATH}.tmp, {} when absent
    crlFile,        \* CRL_PATH, {} when absent
    brokerFile,     \* /etc/mosquitto/certs/crl.pem
    brokerCrl,      \* the list the running broker has loaded
    claimCert,      \* PROV_DIR/provisioning.crt, {} when absent
    claimMirror,    \* its copy in PERSISTENT_CERTS_DIR
    \* the hub process
    serving,        \* server.listen was reached
    kind,           \* what a job does
    pc,             \* where it is
    snapshot,       \* the rows its regeneration read
    number,         \* the CRL number its regeneration read
    target,         \* the certificates it is to revoke
    \* counters
    lastClaim, crashes, faults,
    \* history, read by properties only
    serialized,     \* no two regenerations have overlapped so far
    alone,          \* jobs whose regeneration no other one has overlapped
    renewedAlone,   \* no two renewals have overlapped so far
    unread          \* claim certificates whose serial a renewal failed to read

tableVars == <<revoked, unread>>
crlVars == <<crlNumber, crlTmp, crlFile, brokerFile, brokerCrl>>
claimVars == <<claimCert, claimMirror, lastClaim>>
readVars == <<snapshot, number, serialized, alone>>
renewVars == <<target, renewedAlone>>
countVars == <<crashes, faults>>
vars == <<tableVars, crlVars, claimVars, readVars, renewVars, countVars, serving, kind, pc>>

AllJobs == Jobs \cup {BootJob}
Device(d) == <<"device", d>>
Claim(n) == <<"claim", n>>
Serials == ({"device"} \X Devices) \cup ({"claim"} \X Nat)
Crl == [number : Nat, serials : SUBSET Serials]

\* gencrl, chgrp and reload are regenerateCRL; serial, meta, keygen and mirror
\* are generateProvisioningCert; done, warned and dead are the three ends.
Pcs == {"idle", "gencrl", "chgrp", "reload", "serial", "meta", "keygen", "mirror",
        "ensure", "done", "warned", "dead"}
Ended == {"idle", "done", "warned", "dead"}

TypeOK ==
    /\ revoked \subseteq Serials
    /\ crlNumber \in Nat
    /\ \A file \in {crlTmp, crlFile, brokerFile, brokerCrl} :
        file = {} \/ \E crl \in file : crl \in Crl /\ file = {crl}
    /\ claimCert \subseteq Serials /\ claimMirror \subseteq Serials
    /\ serving \in BOOLEAN
    /\ kind \in [AllJobs -> {"boot", "revoke", "renew", "generate"}]
    /\ pc \in [AllJobs -> Pcs]
    /\ snapshot \in [AllJobs -> SUBSET Serials]
    /\ number \in [AllJobs -> Nat]
    /\ target \in [AllJobs -> SUBSET Serials]
    /\ lastClaim \in Nat /\ crashes \in Nat /\ faults \in Nat
    /\ serialized \in BOOLEAN
    /\ alone \subseteq AllJobs
    /\ renewedAlone \in BOOLEAN
    /\ unread \subseteq Serials

Init ==
    /\ revoked = {} /\ unread = {}
    /\ crlNumber = 1
    /\ crlTmp = {} /\ crlFile = {} /\ brokerFile = {} /\ brokerCrl = {}
    /\ claimCert = {} /\ claimMirror = {} /\ lastClaim = 0
    /\ serving = FALSE
    /\ kind = [j \in AllJobs |-> IF j = BootJob THEN "boot" ELSE "revoke"]
    /\ pc = [j \in AllJobs |-> "idle"]
    /\ snapshot = [j \in AllJobs |-> {}]
    /\ number = [j \in AllJobs |-> 0]
    /\ target = [j \in AllJobs |-> {}]
    /\ crashes = 0 /\ faults = 0
    /\ serialized = TRUE /\ alone = {} /\ renewedAlone = TRUE

-----------------------------------------------------------------------------
Regenerating(j) == pc[j] \in {"gencrl", "chgrp", "reload"}
MakingClaim(j) == kind[j] \in {"renew", "generate"} /\ pc[j] \notin Ended
Goto(j, label) == pc' = [pc EXCEPT ![j] = label]

\* A child process of j fails.
Fault == faults < MaxFaults /\ faults' = faults + 1 /\ UNCHANGED crashes

\* The synchronous head of regenerateCRL: the revoked rows and the crlnumber
\* file are read, openssl ca -gencrl is started.
StartRegeneration(j, rows) ==
    LET others == {k \in AllJobs \ {j} : Regenerating(k)}
    IN  /\ snapshot' = [snapshot EXCEPT ![j] = rows]
        /\ number' = [number EXCEPT ![j] = crlNumber]
        /\ serialized' = (serialized /\ others = {})
        /\ alone' = IF others = {} THEN alone \cup {j} ELSE alone \ (others \cup {j})
        /\ Goto(j, "gencrl")

\* Where a job continues after its regeneration, or after its failure: a
\* renewal and the boot swallow it, a revocation answers with a warning.
AfterRegeneration(j) ==
    /\ Goto(j, IF kind[j] = "renew" THEN "keygen" ELSE "done")
    /\ serving' = (serving \/ kind[j] = "boot")

RegenerationThrows(j) ==
    IF kind[j] = "revoke" THEN Goto(j, "warned") /\ UNCHANGED serving
                          ELSE AfterRegeneration(j)

-----------------------------------------------------------------------------
(* regenerateCRL *)

\* Mutants of GenCrl: a temporary file left by an interrupted run is kept;
\* crlnumber is not copied back.
GenCrlKeepsTmp(j) ==
    /\ pc[j] = "gencrl"
    /\ crlNumber' = number[j] + 1
    /\ crlTmp' = IF crlTmp = {} THEN {[number |-> number[j], serials |-> snapshot[j]]}
                                ELSE crlTmp
    /\ Goto(j, "chgrp")
    /\ UNCHANGED <<tableVars, crlFile, brokerFile, brokerCrl, claimVars, readVars,
                   renewVars, countVars, serving, kind>>

GenCrlKeepsNumber(j) ==
    /\ pc[j] = "gencrl"
    /\ crlTmp' = {[number |-> number[j], serials |-> snapshot[j]]}
    /\ Goto(j, "chgrp")
    /\ UNCHANGED <<tableVars, crlNumber, crlFile, brokerFile, brokerCrl, claimVars,
                   readVars, renewVars, countVars, serving, kind>>

\* openssl is done: its work copy of crlnumber is copied back and the list is
\* copied to the shared temporary file.
GenCrl(j) ==
    /\ pc[j] = "gencrl"
    /\ crlNumber' = number[j] + 1
    /\ crlTmp' = {[number |-> number[j], serials |-> snapshot[j]]}
    /\ Goto(j, "chgrp")
    /\ UNCHANGED <<tableVars, crlFile, brokerFile, brokerCrl, claimVars, readVars,
                   renewVars, countVars, serving, kind>>

GenCrlFails(j) ==
    /\ pc[j] = "gencrl"
    /\ Fault
    /\ RegenerationThrows(j)
    /\ UNCHANGED <<tableVars, crlVars, claimVars, readVars, renewVars, kind>>

\* Mutant of Rename: the broker's copy is not written.
RenameUnsynced(j) ==
    /\ pc[j] = "chgrp" /\ crlTmp # {}
    /\ crlFile' = crlTmp
    /\ crlTmp' = {}
    /\ Goto(j, "reload")
    /\ UNCHANGED <<tableVars, crlNumber, brokerFile, brokerCrl, claimVars, readVars,
                   renewVars, countVars, serving, kind>>

\* rename, and the copy to the broker that syncCertsToMosquitto starts with
Rename(j) ==
    /\ pc[j] = "chgrp" /\ crlTmp # {}
    /\ crlFile' = crlTmp
    /\ brokerFile' = crlTmp
    /\ crlTmp' = {}
    /\ Goto(j, "reload")
    /\ UNCHANGED <<tableVars, crlNumber, brokerCrl, claimVars, readVars, renewVars,
                   countVars, serving, kind>>

\* ENOENT: another job has renamed the shared temporary file
RenameFails(j) ==
    /\ pc[j] = "chgrp" /\ crlTmp = {}
    /\ RegenerationThrows(j)
    /\ UNCHANGED <<tableVars, crlVars, claimVars, readVars, renewVars, countVars, kind>>

\* systemctl reload mosquitto: the broker reads its copy
Reload(j) ==
    /\ pc[j] = "reload"
    /\ brokerCrl' = brokerFile
    /\ AfterRegeneration(j)
    /\ UNCHANGED <<tableVars, crlNumber, crlTmp, crlFile, brokerFile, claimVars, readVars,
                   renewVars, countVars, kind>>

\* neither reload nor restart worked: best effort, the job goes on
ReloadFails(j) ==
    /\ pc[j] = "reload"
    /\ Fault
    /\ AfterRegeneration(j)
    /\ UNCHANGED <<tableVars, crlVars, claimVars, readVars, renewVars, kind>>

-----------------------------------------------------------------------------
(* revokeAndPublishCRL: PATCH and DELETE of a whitelist entry *)

\* Mutant of Revoke: the rows are read before they are revoked.
RevokeReadsFirst(j, devices) ==
    /\ serving /\ pc[j] = "idle"
    /\ revoked' = revoked \cup {Device(d) : d \in devices}
    /\ kind' = [kind EXCEPT ![j] = "revoke"]
    /\ target' = [target EXCEPT ![j] = {Device(d) : d \in devices}]
    /\ StartRegeneration(j, revoked)
    /\ UNCHANGED <<unread, crlVars, claimVars, renewedAlone, countVars, serving>>

\* The rows of one UUID are revoked and the regeneration starts at once.
Revoke(j, devices) ==
    /\ serving /\ pc[j] = "idle"
    /\ revoked' = revoked \cup {Device(d) : d \in devices}
    /\ kind' = [kind EXCEPT ![j] = "revoke"]
    /\ target' = [target EXCEPT ![j] = {Device(d) : d \in devices}]
    /\ StartRegeneration(j, revoked')
    /\ UNCHANGED <<unread, crlVars, claimVars, renewedAlone, countVars, serving>>

-----------------------------------------------------------------------------
(* generateProvisioningCert: POST provisioning/renew forces it, POST          *)
(* provisioning does not                                                      *)

\* Without force, an existing certificate is kept.
GenerateStart(j) ==
    /\ serving /\ pc[j] = "idle"
    /\ kind' = [kind EXCEPT ![j] = "generate"]
    /\ Goto(j, IF claimCert = {} THEN "keygen" ELSE "done")
    /\ renewedAlone' = (renewedAlone /\ ~\E k \in AllJobs : MakingClaim(k))
    /\ UNCHANGED <<tableVars, crlVars, claimVars, readVars, target, countVars, serving>>

\* Mutant of RenewStart: the outgoing certificate is not revoked.
RenewStartKeepsOld(j) ==
    /\ serving /\ pc[j] = "idle"
    /\ kind' = [kind EXCEPT ![j] = "renew"]
    /\ Goto(j, "keygen")
    /\ renewedAlone' = (renewedAlone /\ ~\E k \in AllJobs : MakingClaim(k))
    /\ UNCHANGED <<tableVars, crlVars, claimVars, readVars, target, countVars, serving>>

\* A renewal begins by reading the certificate it is to revoke, if any.
RenewStart(j) ==
    /\ serving /\ pc[j] = "idle"
    /\ kind' = [kind EXCEPT ![j] = "renew"]
    /\ Goto(j, IF claimCert = {} THEN "keygen" ELSE "serial")
    /\ renewedAlone' = (renewedAlone /\ ~\E k \in AllJobs : MakingClaim(k))
    /\ UNCHANGED <<tableVars, crlVars, claimVars, readVars, target, countVars, serving>>

\* openssl reads the serial out of the file
ReadOutgoing(j) ==
    /\ pc[j] = "serial"
    /\ target' = [target EXCEPT ![j] = claimCert]
    /\ Goto(j, "meta")
    /\ UNCHANGED <<tableVars, crlVars, claimVars, readVars, renewedAlone, countVars,
                   serving, kind>>

\* it could not: the renewal goes on without revoking
ReadOutgoingFails(j) ==
    /\ pc[j] = "serial"
    /\ Fault
    /\ unread' = unread \cup claimCert
    /\ Goto(j, "keygen")
    /\ UNCHANGED <<revoked, crlVars, claimVars, readVars, renewVars, serving, kind>>

\* The row of the outgoing certificate is written, already revoked.
RevokeOutgoing(j) ==
    /\ pc[j] = "meta"
    /\ revoked' = revoked \cup target[j]
    /\ StartRegeneration(j, revoked')
    /\ UNCHANGED <<unread, crlVars, claimVars, renewVars, countVars, serving, kind>>

\* key, CSR and certificate were made: they replace the files
InstallClaim(j) ==
    /\ pc[j] = "keygen"
    /\ lastClaim' = lastClaim + 1
    /\ claimCert' = {Claim(lastClaim')}
    /\ Goto(j, "mirror")
    /\ UNCHANGED <<tableVars, crlVars, claimMirror, readVars, renewVars, countVars,
                   serving, kind>>

KeygenFails(j) ==
    /\ pc[j] = "keygen"
    /\ Fault
    /\ Goto(j, IF kind[j] = "boot" THEN "ensure" ELSE "warned")
    /\ UNCHANGED <<tableVars, crlVars, claimVars, readVars, renewVars, serving, kind>>

\* Mutant of Mirror: a copy that exists is kept.
MirrorOnce(j) ==
    /\ pc[j] = "mirror"
    /\ claimMirror' = IF claimMirror = {} THEN claimCert ELSE claimMirror
    /\ Goto(j, IF kind[j] = "boot" THEN "ensure" ELSE "done")
    /\ UNCHANGED <<tableVars, crlVars, claimCert, lastClaim, readVars, renewVars,
                   countVars, serving, kind>>

\* chgrp is done: whatever the files hold now is copied to persistent storage
Mirror(j) ==
    /\ pc[j] = "mirror"
    /\ claimMirror' = claimCert
    /\ Goto(j, IF kind[j] = "boot" THEN "ensure" ELSE "done")
    /\ UNCHANGED <<tableVars, crlVars, claimCert, lastClaim, readVars, renewVars,
                   countVars, serving, kind>>

-----------------------------------------------------------------------------
(* Boot, crash, and the broker *)

\* ensurePki: a claim certificate is made if there is none
Boot ==
    /\ ~serving /\ pc[BootJob] \in Ended
    /\ Goto(BootJob, IF claimCert = {} THEN "keygen" ELSE "ensure")
    /\ UNCHANGED <<tableVars, crlVars, claimVars, readVars, renewVars, countVars,
                   serving, kind>>

\* Mutant of EnsureCrl: a hub that finds its CRL does not go on to serve.
EnsureCrlStops ==
    /\ pc[BootJob] = "ensure"
    /\ IF crlFile # {}
       THEN Goto(BootJob, "done") /\ UNCHANGED <<readVars, serving>>
       ELSE StartRegeneration(BootJob, revoked) /\ UNCHANGED serving
    /\ UNCHANGED <<tableVars, crlVars, claimVars, renewVars, countVars, kind>>

\* ensureCRLExists: only a missing CRL is generated
EnsureCrl ==
    /\ pc[BootJob] = "ensure"
    /\ IF crlFile # {}
       THEN Goto(BootJob, "done") /\ serving' = TRUE /\ UNCHANGED readVars
       ELSE StartRegeneration(BootJob, revoked) /\ UNCHANGED serving
    /\ UNCHANGED <<tableVars, crlVars, claimVars, renewVars, countVars, kind>>

Crash ==
    /\ crashes < MaxCrashes
    /\ crashes' = crashes + 1
    /\ serving' = FALSE
    /\ pc' = [j \in AllJobs |-> IF pc[j] \in Ended THEN pc[j] ELSE "dead"]
    /\ UNCHANGED <<tableVars, crlVars, claimVars, readVars, renewVars, faults, kind>>

\* The broker starts again by itself and reads its copy.
BrokerRestart ==
    /\ brokerCrl' = brokerFile
    /\ UNCHANGED <<tableVars, crlNumber, crlTmp, crlFile, brokerFile, claimVars, readVars,
                   renewVars, countVars, serving, kind, pc>>

-----------------------------------------------------------------------------
Progress(j) ==
    \/ GenCrl(j) \/ Rename(j) \/ RenameFails(j) \/ Reload(j)
    \/ ReadOutgoing(j) \/ RevokeOutgoing(j) \/ InstallClaim(j) \/ Mirror(j)

Failure(j) ==
    \/ GenCrlFails(j) \/ ReloadFails(j) \/ ReadOutgoingFails(j) \/ KeygenFails(j)

Next ==
    \/ \E j \in AllJobs : Progress(j) \/ Failure(j)
    \/ \E j \in Jobs : RenewStart(j) \/ GenerateStart(j) \/ \E ds \in SUBSET Devices : Revoke(j, ds)
    \/ Boot \/ EnsureCrl \/ Crash \/ BrokerRestart

Spec == Init /\ [][Next]_vars

\* Child processes end, the event loop runs what they resume, and systemd starts
\* a hub that died again (devicehub.service, Restart=on-failure).
FairSpec ==
    /\ Spec
    /\ \A j \in AllJobs : WF_vars(Progress(j))
    /\ WF_vars(Boot) /\ WF_vars(EnsureCrl)

-----------------------------------------------------------------------------
(* Properties *)

\* In any interleaving of requests, and after any failure or crash, the files
\* and the broker list revoked certificates only (certs.ts regenerateCRL).
ListedAreRevoked ==
    \A crl \in crlTmp \cup crlFile \cup brokerFile \cup brokerCrl :
        crl.serials \subseteq revoked

\* A regeneration no other one overlapped has published exactly what it read,
\* whatever an interrupted one left behind (certs.ts, "temp file + rename").
AloneRunPublishes ==
    \A j \in alone : pc[j] = "reload" =>
        crlFile = {[number |-> number[j], serials |-> snapshot[j]]}

Listed(certs) == \E crl \in crlFile : certs \subseteq crl.serials
Acknowledged(j) == kind[j] = "revoke" /\ pc[j] = "done"

\* A revocation answered without a warning is on the published list, through
\* later failures, crashes and restarts, unless regenerations have overlapped.
AckedListedWhenSerialized ==
    serialized => \A j \in Jobs : Acknowledged(j) => Listed(target[j])

\* A claim certificate that was replaced is revoked ("the old one stops
\* working"), unless two requests made one at the same time, or openssl could
\* not read the serial of the old one.
OldClaimRevoked ==
    renewedAlone => \A n \in 1..lastClaim :
        Claim(n) \in claimCert \cup revoked \cup unread

\* The copy a later installation restores is the live claim certificate, not
\* one a renewal revoked, unless a request is about to write it or the hub
\* died (certs.ts, "Mirror the new claim cert"): overlapping renewals included.
MirrorIsLive ==
    claimMirror = claimCert \/ crashes > 0 \/ \E j \in AllJobs : pc[j] = "mirror"

\* The files implement the abstract list.
List == INSTANCE RevocationList WITH published <- crlFile
ListSpec == List!Spec

\* A revocation reaches the running broker (README, "immediately"), unless a
\* child process fails, the hub dies or regenerations overlap.
RevocationReachesBroker ==
    \A j \in Jobs :
        (kind[j] = "revoke" /\ pc[j] = "gencrl") ~>
            \/ \E crl \in brokerCrl : target[j] \subseteq crl.serials
            \/ faults > 0 \/ crashes > 0 \/ ~serialized

\* No failing child process keeps the hub from serving: ensurePki swallows them
\* all, and a hub that died serves again.
ServesAgain == []<>serving

\* What the revocation routes answer: without a warning, the certificates are
\* on the list (README, "immediately"; index.ts, a failure is "surfaced to the
\* admin as a warning"). Overlapping regenerations break it for good: no job is
\* left that would repair the list.
AckedRevocationListed ==
    (\A k \in AllJobs : pc[k] \in Ended) =>
        \A j \in Jobs : Acknowledged(j) => Listed(target[j])
=============================================================================
