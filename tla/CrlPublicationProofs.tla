------------------------ MODULE CrlPublicationProofs ------------------------
(***************************************************************************)
(* Safety of CrlPublication for any number of requests, devices, crashes   *)
(* and failing child processes: what is listed is revoked, a regeneration  *)
(* nothing overlapped publishes what it read, and, while regenerations do  *)
(* not overlap, an acknowledged revocation stays listed and the files      *)
(* implement RevocationList; a claim certificate that was replaced is      *)
(* revoked, and its copy is the live one.                                  *)
(***************************************************************************)
EXTENDS CrlPublication, TLAPS

Entry(j) == [number |-> number[j], serials |-> snapshot[j]]

\* What a running regeneration read is revoked, its job's own targets included.
ReadRevoked ==
    \A j \in AllJobs : Regenerating(j) =>
        /\ snapshot[j] \subseteq revoked
        /\ kind[j] = "revoke" => target[j] \subseteq snapshot[j]

\* A regeneration nothing overlapped finds the files as it left them.
AloneRun ==
    \A j \in alone :
        /\ Regenerating(j) => \A k \in AllJobs \ {j} : ~Regenerating(k)
        /\ pc[j] = "chgrp" => crlTmp = {Entry(j)}
        /\ pc[j] = "reload" => crlFile = {Entry(j)}

\* While none has overlapped, the next list is numbered above the current one
\* and contains it.
SerializedRun ==
    serialized =>
        /\ \A old \in crlFile : old.number < crlNumber
        /\ \A j \in AllJobs : Regenerating(j) =>
            /\ j \in alone
            /\ pc[j] = "gencrl" => number[j] = crlNumber
            /\ pc[j] = "chgrp" => number[j] < crlNumber
            /\ pc[j] = "chgrp" => \A old \in crlFile : old.number < number[j]
            /\ \A old \in crlFile : old.serials \subseteq snapshot[j]

\* Only the boot and the claim routes reach the stages that make a claim
\* certificate, so only a finished regeneration acknowledges a revocation.
KindOfStage ==
    /\ kind[BootJob] = "boot"
    /\ \A j \in AllJobs :
        pc[j] \in {"serial", "meta", "keygen", "mirror", "ensure"} => kind[j] # "revoke"

Consistent ==
    /\ KindOfStage
    /\ ListedAreRevoked
    /\ ReadRevoked
    /\ AloneRun
    /\ SerializedRun
    /\ AckedListedWhenSerialized

IInv == TypeOK /\ Consistent

-----------------------------------------------------------------------------
(* Type correctness *)

\* Every variable keeps its type (CrlPublication!TypeOK); in particular each
\* file holds at most one list.
THEOREM TypeCorrect == Spec => []TypeOK
<1>1. ASSUME Init PROVE TypeOK
    <2>1. kind \in [AllJobs -> {"boot", "revoke", "renew", "generate"}]
        BY <1>1 DEF Init
    <2>2. pc \in [AllJobs -> Pcs] /\ number \in [AllJobs -> Nat]
        BY <1>1 DEF Init, Pcs
    <2>3. snapshot \in [AllJobs -> SUBSET Serials] /\ target \in [AllJobs -> SUBSET Serials]
        BY <1>1 DEF Init
    <2>4. QED
        BY <1>1, <2>1, <2>2, <2>3 DEF Init, TypeOK
<1>2. TypeOK /\ [Next]_vars => TypeOK'
    <2> SUFFICES ASSUME TypeOK, [Next]_vars PROVE TypeOK'
        OBVIOUS
    <2> USE DEF TypeOK, Pcs, Goto, tableVars, crlVars, claimVars, readVars, renewVars,
                countVars
    <2> DEFINE Keeps(j) == /\ pc' \in [AllJobs -> Pcs]
                           /\ serving' \in BOOLEAN
    <2>1. ASSUME NEW j \in AllJobs, RegenerationThrows(j) \/ AfterRegeneration(j)
          PROVE  Keeps(j)
        BY <2>1 DEF RegenerationThrows, AfterRegeneration
    <2>2. ASSUME NEW j \in AllJobs, NEW rows \in SUBSET Serials, StartRegeneration(j, rows)
          PROVE  /\ snapshot' \in [AllJobs -> SUBSET Serials]
                 /\ number' \in [AllJobs -> Nat]
                 /\ serialized' \in BOOLEAN /\ alone' \subseteq AllJobs
                 /\ pc' \in [AllJobs -> Pcs]
        BY <2>2 DEF StartRegeneration
    <2>3. ASSUME NEW j \in AllJobs, GenCrl(j) PROVE TypeOK'
        BY <2>3 DEF GenCrl, Crl
    <2>4. ASSUME NEW j \in AllJobs, GenCrlFails(j) PROVE TypeOK'
        <3>1. Keeps(j)
            BY <2>1, <2>4 DEF GenCrlFails
        <3>2. QED
            BY <3>1, <2>4 DEF GenCrlFails, Fault
    <2>5. ASSUME NEW j \in AllJobs, Rename(j) PROVE TypeOK'
        BY <2>5 DEF Rename
    <2>6. ASSUME NEW j \in AllJobs, RenameFails(j) PROVE TypeOK'
        <3>1. Keeps(j)
            BY <2>1, <2>6 DEF RenameFails
        <3>2. QED
            BY <3>1, <2>6 DEF RenameFails
    <2>7. ASSUME NEW j \in AllJobs, Reload(j) PROVE TypeOK'
        BY <2>1, <2>7 DEF Reload
    <2>8. ASSUME NEW j \in AllJobs, ReloadFails(j) PROVE TypeOK'
        BY <2>1, <2>8 DEF ReloadFails, Fault
    <2>9. ASSUME NEW j \in Jobs, NEW devices \in SUBSET Devices, Revoke(j, devices)
          PROVE  TypeOK'
        <3>1. {Device(d) : d \in devices} \in SUBSET Serials
            BY DEF Serials, Device
        <3>2. revoked' \in SUBSET Serials /\ target' \in [AllJobs -> SUBSET Serials]
            BY <2>9, <3>1 DEF Revoke
        <3>3. QED
            BY <2>2, <2>9, <3>2 DEF Revoke, AllJobs
    <2>10. ASSUME NEW j \in Jobs, RenewStart(j) \/ GenerateStart(j) PROVE TypeOK'
        <3>1. CASE RenewStart(j)
            BY <3>1 DEF RenewStart, AllJobs
        <3>2. CASE GenerateStart(j)
            BY <3>2 DEF GenerateStart, AllJobs
        <3>3. QED
            BY <2>10, <3>1, <3>2
    <2>11. ASSUME NEW j \in AllJobs, ReadOutgoing(j) \/ ReadOutgoingFails(j) PROVE TypeOK'
        BY <2>11 DEF ReadOutgoing, ReadOutgoingFails, Fault
    <2>12. ASSUME NEW j \in AllJobs, RevokeOutgoing(j) PROVE TypeOK'
        <3>1. revoked' \in SUBSET Serials
            BY <2>12 DEF RevokeOutgoing
        <3>2. QED
            BY <2>2, <2>12, <3>1 DEF RevokeOutgoing
    <2>13. ASSUME NEW j \in AllJobs, InstallClaim(j) PROVE TypeOK'
        BY <2>13 DEF InstallClaim, Claim, Serials
    <2>14. ASSUME NEW j \in AllJobs, KeygenFails(j) \/ Mirror(j) PROVE TypeOK'
        BY <2>14 DEF KeygenFails, Mirror, Fault
    <2>15. CASE Boot
        BY <2>15 DEF Boot, AllJobs
    <2>16. CASE EnsureCrl
        <3>1. CASE crlFile # {}
            BY <2>16, <3>1 DEF EnsureCrl
        <3>2. CASE crlFile = {}
            <4>1. StartRegeneration(BootJob, revoked) /\ BootJob \in AllJobs
                BY <2>16, <3>2 DEF EnsureCrl, AllJobs
            <4>2. QED
                BY <2>2, <2>16, <3>2, <4>1 DEF EnsureCrl
        <3>3. QED
            BY <3>1, <3>2
    <2>17. CASE Crash
        <3>1. pc' \in [AllJobs -> Pcs]
            BY <2>17 DEF Crash
        <3>2. crashes' = crashes + 1 /\ serving' = FALSE
            BY <2>17 DEF Crash
        <3>3. UNCHANGED <<tableVars, crlVars, claimVars, readVars, renewVars, faults, kind>>
            BY <2>17 DEF Crash
        <3>4. crashes' \in Nat
            BY <3>2
        <3>5. QED
            BY <3>1, <3>2, <3>3, <3>4
    <2>18. CASE BrokerRestart
        BY <2>18 DEF BrokerRestart
    <2>19. CASE UNCHANGED vars
        BY <2>19 DEF vars
    <2>20. QED
        BY <2>3, <2>4, <2>5, <2>6, <2>7, <2>8, <2>9, <2>10, <2>11, <2>12, <2>13, <2>14,
           <2>15, <2>16, <2>17, <2>18, <2>19 DEF Next, Progress, Failure
<1>3. QED
    BY <1>1, <1>2, PTL DEF Spec

-----------------------------------------------------------------------------
(* Consistency *)

\* Starting a regeneration keeps the files consistent with what it read,
\* whichever job starts it. The hypotheses are what its callers have in common:
\* the job runs no regeneration, and the rows are the ones revoked.
LEMMA StartRegenerationConsistent ==
    ASSUME IInv, NEW j \in AllJobs, ~Regenerating(j),
           revoked \subseteq revoked', StartRegeneration(j, revoked'),
           UNCHANGED crlVars, kind'[j] = "revoke" => target'[j] \subseteq revoked',
           \A k \in AllJobs \ {j} : kind'[k] = kind[k] /\ target'[k] = target[k]
    PROVE  ListedAreRevoked' /\ ReadRevoked' /\ AloneRun' /\ SerializedRun'
<1> USE DEF StartRegeneration, Goto, Regenerating, crlVars
<1>1. j \in AllJobs /\ pc'[j] = "gencrl" /\ snapshot'[j] = revoked' /\ number'[j] = crlNumber
    BY DEF IInv, TypeOK
<1>2. \A k \in AllJobs \ {j} : /\ pc'[k] = pc[k]
                              /\ snapshot'[k] = snapshot[k] /\ number'[k] = number[k]
    BY DEF IInv, TypeOK
<1>3. ListedAreRevoked'
    BY DEF IInv, Consistent, ListedAreRevoked
<1>4. ReadRevoked'
    BY <1>1, <1>2 DEF IInv, Consistent, ReadRevoked
<1>5. AloneRun'
    <2>1. alone \subseteq AllJobs
        BY DEF IInv, TypeOK
    <2>2. QED
        BY <1>1, <1>2, <2>1 DEF IInv, Consistent, AloneRun, Entry
<1>6. SerializedRun'
    BY <1>1, <1>2 DEF IInv, Consistent, SerializedRun, ListedAreRevoked
<1>7. QED
    BY <1>3, <1>4, <1>5, <1>6

\* IInv is inductive: the properties below are conjuncts of it or follow from it.
THEOREM Invariant == Spec => []IInv
<1>1. ASSUME Init PROVE Consistent
    <2>1. \A j \in AllJobs : pc[j] = "idle"
        BY <1>1 DEF Init
    <2>2. BootJob \in AllJobs /\ kind[BootJob] = "boot"
        BY <1>1 DEF Init, AllJobs
    <2>3. crlTmp = {} /\ crlFile = {} /\ brokerFile = {} /\ brokerCrl = {} /\ alone = {}
        BY <1>1 DEF Init
    <2>4. QED
        BY <2>1, <2>2, <2>3 DEF Consistent, KindOfStage, ListedAreRevoked, ReadRevoked,
               AloneRun, SerializedRun, AckedListedWhenSerialized, Acknowledged, Regenerating, AllJobs
<1>2. IInv /\ [Next]_vars => Consistent'
    <2> SUFFICES ASSUME IInv, [Next]_vars PROVE Consistent'
        OBVIOUS
    <2> TypeOK
        BY DEF IInv
    <2> USE BootAssumption
        DEF IInv, Consistent, TypeOK, KindOfStage, Regenerating, Ended, Goto, Entry, Acknowledged,
            Listed, AllJobs, tableVars, crlVars, claimVars, readVars, renewVars, countVars
    <2>1. ASSUME NEW j \in AllJobs, GenCrl(j) PROVE Consistent'
        <3> USE <2>1 DEF GenCrl
        <3>1. crlNumber' = number[j] + 1 /\ number[j] \in Nat /\ crlTmp' = {Entry(j)}
            OBVIOUS
        <3>2. ListedAreRevoked' /\ ReadRevoked'
            BY DEF ListedAreRevoked, ReadRevoked
        <3>3. AloneRun'
            BY DEF AloneRun
        <3>4. SerializedRun'
            <4> SUFFICES ASSUME serialized PROVE SerializedRun'
                BY DEF SerializedRun
            <4>1. \A k \in AllJobs \ {j} : ~Regenerating(k) /\ ~Regenerating(k)'
                BY DEF SerializedRun, AloneRun
            <4>2. number[j] = crlNumber /\ j \in alone
                BY DEF SerializedRun
            <4>3. \A old \in crlFile : old.number \in Nat
                BY DEF Crl
            <4>4. \A old \in crlFile : old.number < crlNumber
                BY DEF SerializedRun
            <4>5. crlNumber' = crlNumber + 1 /\ crlNumber \in Nat
                BY <3>1, <4>2
            <4>6. \A old \in crlFile' : old.number < crlNumber'
                BY <4>3, <4>4, <4>5
            <4>7. number'[j] < crlNumber'
                BY <4>2, <4>5
            <4>8. QED
                BY <4>1, <4>2, <4>4, <4>6, <4>7 DEF SerializedRun
        <3>5. KindOfStage' /\ AckedListedWhenSerialized'
            BY DEF AckedListedWhenSerialized
        <3>6. QED
            BY <3>2, <3>3, <3>4, <3>5
    <2>2. ASSUME NEW j \in AllJobs, Rename(j) PROVE Consistent'
        <3> USE <2>2 DEF Rename
        <3>1. ListedAreRevoked' /\ ReadRevoked'
            BY DEF ListedAreRevoked, ReadRevoked
        <3>2. AloneRun' /\ SerializedRun'
            BY DEF AloneRun, SerializedRun
        <3>3. KindOfStage'
            OBVIOUS
        <3>4. AckedListedWhenSerialized'
            BY DEF AckedListedWhenSerialized, AloneRun, SerializedRun
        <3>5. QED
            BY <3>1, <3>2, <3>3, <3>4
    <2>3. ASSUME NEW j \in AllJobs, Reload(j) \/ ReloadFails(j) PROVE Consistent'
        <3> USE <2>3 DEF Reload, ReloadFails, AfterRegeneration, Fault
        <3>1. ListedAreRevoked' /\ ReadRevoked' /\ AloneRun' /\ SerializedRun'
            BY DEF ListedAreRevoked, ReadRevoked, AloneRun, SerializedRun
        <3>2. KindOfStage'
            OBVIOUS
        <3>3. AckedListedWhenSerialized'
            BY DEF AckedListedWhenSerialized, ReadRevoked, AloneRun, SerializedRun
        <3>4. QED
            BY <3>1, <3>2, <3>3
    <2>4. ASSUME NEW j \in AllJobs, GenCrlFails(j) \/ RenameFails(j) PROVE Consistent'
        <3> USE <2>4 DEF GenCrlFails, RenameFails, RegenerationThrows, AfterRegeneration, Fault
        <3>1. ListedAreRevoked' /\ ReadRevoked' /\ AloneRun' /\ SerializedRun'
            BY DEF ListedAreRevoked, ReadRevoked, AloneRun, SerializedRun
        <3>2. KindOfStage' /\ AckedListedWhenSerialized'
            BY DEF AckedListedWhenSerialized
        <3>3. QED
            BY <3>1, <3>2
    <2>5. ASSUME NEW j \in Jobs, NEW devices \in SUBSET Devices, Revoke(j, devices)
          PROVE  Consistent'
        <3>1. ListedAreRevoked' /\ ReadRevoked' /\ AloneRun' /\ SerializedRun'
            BY <2>5, StartRegenerationConsistent DEF Revoke
        <3>2. KindOfStage' /\ AckedListedWhenSerialized'
            BY <2>5 DEF Revoke, StartRegeneration, AckedListedWhenSerialized
        <3>3. QED
            BY <3>1, <3>2
    <2>6. ASSUME NEW j \in AllJobs, RevokeOutgoing(j) PROVE Consistent'
        <3>1. ListedAreRevoked' /\ ReadRevoked' /\ AloneRun' /\ SerializedRun'
            BY <2>6, StartRegenerationConsistent DEF RevokeOutgoing
        <3>2. KindOfStage' /\ AckedListedWhenSerialized'
            BY <2>6 DEF RevokeOutgoing, StartRegeneration, AckedListedWhenSerialized
        <3>3. QED
            BY <3>1, <3>2
    <2>7. CASE EnsureCrl
        <3>1. CASE crlFile = {}
            <4>1. StartRegeneration(BootJob, revoked) /\ UNCHANGED revoked
                BY <2>7, <3>1 DEF EnsureCrl
            <4>2. ListedAreRevoked' /\ ReadRevoked' /\ AloneRun' /\ SerializedRun'
                BY <2>7, <4>1, StartRegenerationConsistent DEF EnsureCrl
            <4>3. KindOfStage' /\ AckedListedWhenSerialized'
                BY <2>7, <4>1 DEF EnsureCrl, StartRegeneration, AckedListedWhenSerialized
            <4>4. QED
                BY <4>2, <4>3
        <3>2. CASE crlFile # {}
            BY <2>7, <3>2 DEF EnsureCrl, ListedAreRevoked, ReadRevoked, AloneRun,
               SerializedRun, AckedListedWhenSerialized
        <3>3. QED
            BY <3>1, <3>2
    <2>8. ASSUME NEW j \in Jobs, RenewStart(j) \/ GenerateStart(j) PROVE Consistent'
        BY <2>8 DEF RenewStart, GenerateStart, ListedAreRevoked, ReadRevoked, AloneRun,
           SerializedRun, AckedListedWhenSerialized
    <2>9. ASSUME NEW j \in AllJobs, ReadOutgoing(j) \/ ReadOutgoingFails(j) PROVE Consistent'
        BY <2>9 DEF ReadOutgoing, ReadOutgoingFails, Fault, ListedAreRevoked, ReadRevoked,
           AloneRun, SerializedRun, AckedListedWhenSerialized
    <2>10. ASSUME NEW j \in AllJobs, InstallClaim(j) \/ KeygenFails(j) \/ Mirror(j)
           PROVE  Consistent'
        BY <2>10 DEF InstallClaim, KeygenFails, Mirror, Fault, ListedAreRevoked, ReadRevoked,
           AloneRun, SerializedRun, AckedListedWhenSerialized
    <2>11. CASE Boot
        BY <2>11 DEF Boot, ListedAreRevoked, ReadRevoked, AloneRun, SerializedRun,
           AckedListedWhenSerialized
    <2>12. CASE Crash
        <3>1. \A j \in AllJobs : pc'[j] = IF pc[j] \in Ended THEN pc[j] ELSE "dead"
            BY <2>12 DEF Crash
        <3>2. UNCHANGED <<tableVars, crlVars, claimVars, readVars, renewVars, kind>>
            BY <2>12 DEF Crash
        <3>3. QED
            BY <3>1, <3>2 DEF ListedAreRevoked, ReadRevoked, AloneRun, SerializedRun,
               AckedListedWhenSerialized
    <2>13. CASE BrokerRestart \/ UNCHANGED vars
        BY <2>13 DEF BrokerRestart, vars, ListedAreRevoked, ReadRevoked, AloneRun,
           SerializedRun, AckedListedWhenSerialized
    <2>14. QED
        BY <2>1, <2>2, <2>3, <2>4, <2>5, <2>6, <2>7, <2>8, <2>9, <2>10, <2>11, <2>12,
           <2>13 DEF Next, Progress, Failure
<1>3. QED
    BY <1>1, <1>2, TypeCorrect, PTL DEF Spec, IInv

-----------------------------------------------------------------------------
(* What the runs check *)

\* Only revoked certificates are listed (CrlPublication!ListedAreRevoked).
THEOREM ListedTheorem == Spec => []ListedAreRevoked
<1>1. IInv => ListedAreRevoked
    BY DEF IInv, Consistent
<1>2. QED
    BY <1>1, Invariant, PTL

\* A regeneration nothing overlapped publishes what it read, a stale temporary
\* file of a dead process or not (CrlPublication!AloneRunPublishes).
THEOREM AloneRunTheorem == Spec => []AloneRunPublishes
<1>1. IInv => AloneRunPublishes
    BY DEF IInv, Consistent, AloneRun, AloneRunPublishes, Entry
<1>2. QED
    BY <1>1, Invariant, PTL

\* While regenerations do not overlap, an acknowledged revocation stays listed,
\* whatever fails or dies (CrlPublication!AckedListedWhenSerialized).
THEOREM AckedTheorem == Spec => []AckedListedWhenSerialized
<1>1. IInv => AckedListedWhenSerialized
    BY DEF IInv, Consistent
<1>2. QED
    BY <1>1, Invariant, PTL

\* The files implement RevocationList: revocations are never undone, only
\* revoked certificates are listed and, while regenerations do not overlap,
\* lists grow in number and content (CrlPublication!ListSpec).
THEOREM Refinement == Spec => ListSpec
<1>1. Init => List!Init
    BY DEF Init, List!Init
<1>2. IInv /\ IInv' /\ [Next]_vars => [List!Next]_List!vars
    <2> SUFFICES ASSUME IInv, IInv', [Next]_vars PROVE [List!Next]_List!vars
        OBVIOUS
    <2> USE DEF List!vars, tableVars, crlVars, claimVars, readVars, renewVars, countVars
    <2> DEFINE Same == UNCHANGED <<revoked, crlFile, serialized>>
    <2>1. ASSUME NEW j \in AllJobs, Rename(j) PROVE List!Publish
        <3>1. PICK crl \in crlTmp : crlTmp = {crl}
            BY <2>1 DEF IInv, TypeOK, Rename
        <3>2. crlFile' = {crl}
            BY <2>1, <3>1 DEF Rename
        <3>3. crl.serials \subseteq revoked
            BY <3>1 DEF IInv, Consistent, ListedAreRevoked
        <3>4. ASSUME serialized, NEW old \in crlFile
              PROVE  old.number < crl.number /\ old.serials \subseteq crl.serials
            <4>1. pc[j] = "chgrp" /\ Regenerating(j)
                BY <2>1 DEF Rename, Regenerating
            <4>2. crl = Entry(j)
                BY <3>1, <3>4, <4>1 DEF IInv, Consistent, AloneRun, SerializedRun
            <4>3. QED
                BY <3>4, <4>1, <4>2 DEF IInv, Consistent, SerializedRun, Entry
        <3>5. UNCHANGED <<revoked, serialized>>
            BY <2>1 DEF Rename
        <3>6. QED
            BY <3>2, <3>3, <3>4, <3>5 DEF List!Publish
    <2>2. ASSUME NEW j \in AllJobs, StartRegeneration(j, revoked'), UNCHANGED crlFile,
                 revoked \subseteq revoked'
          PROVE  List!Revoke
        <3>1. revoked' \subseteq Serials
            BY DEF IInv, TypeOK
        <3>2. serialized' \in {serialized, FALSE}
            BY <2>2 DEF StartRegeneration, IInv, TypeOK
        <3>3. QED
            BY <2>2, <3>1, <3>2 DEF List!Revoke
    <2>3. ASSUME NEW j \in Jobs, NEW devices \in SUBSET Devices, Revoke(j, devices)
          PROVE  List!Revoke
        BY <2>2, <2>3 DEF Revoke, AllJobs
    <2>4. ASSUME NEW j \in AllJobs, RevokeOutgoing(j) PROVE List!Revoke
        BY <2>2, <2>4 DEF RevokeOutgoing
    <2>5. CASE EnsureCrl
        <3>1. CASE crlFile = {}
            <4>1. StartRegeneration(BootJob, revoked') /\ UNCHANGED <<revoked, crlFile>>
                BY <2>5, <3>1 DEF EnsureCrl
            <4>2. QED
                BY <2>2, <4>1 DEF AllJobs, List!Next
        <3>2. CASE crlFile # {}
            BY <2>5, <3>2 DEF EnsureCrl
        <3>3. QED
            BY <3>1, <3>2
    <2>6. ASSUME NEW j \in AllJobs,
                 \/ GenCrl(j) \/ RenameFails(j) \/ Reload(j) \/ ReadOutgoing(j)
                 \/ InstallClaim(j) \/ Mirror(j) \/ Failure(j)
          PROVE  Same
        BY <2>6 DEF GenCrl, RenameFails, Reload, ReadOutgoing, InstallClaim, Mirror, Failure,
           GenCrlFails, ReloadFails, ReadOutgoingFails, KeygenFails
    <2>7. ASSUME NEW j \in Jobs, RenewStart(j) \/ GenerateStart(j) PROVE Same
        BY <2>7 DEF RenewStart, GenerateStart
    <2>8. ASSUME Boot \/ Crash \/ BrokerRestart \/ UNCHANGED vars PROVE Same
        BY <2>8 DEF Boot, Crash, BrokerRestart, vars
    <2>9. QED
        BY <2>1, <2>3, <2>4, <2>5, <2>6, <2>7, <2>8 DEF Next, Progress, List!Next
<1>3. QED
    BY <1>1, <1>2, Invariant, PTL DEF Spec, ListSpec, List!Spec

-----------------------------------------------------------------------------
(* The claim certificate *)

\* Only an installed certificate that no mirror has followed yet, or a death of
\* the hub, leaves another copy (CrlPublication!MirrorIsLive).
THEOREM MirrorTheorem == Spec => []MirrorIsLive
<1>1. Init => MirrorIsLive
    BY DEF Init, MirrorIsLive
<1>2. TypeOK /\ MirrorIsLive /\ [Next]_vars => MirrorIsLive'
    <2> SUFFICES ASSUME TypeOK, MirrorIsLive, [Next]_vars PROVE MirrorIsLive'
        OBVIOUS
    <2> USE DEF MirrorIsLive, TypeOK, Goto, StartRegeneration, RegenerationThrows,
                AfterRegeneration, claimVars, countVars, Ended, AllJobs
    <2>1. ASSUME NEW j \in AllJobs, InstallClaim(j) \/ Mirror(j) PROVE MirrorIsLive'
        BY <2>1 DEF InstallClaim, Mirror
    <2>2. ASSUME NEW j \in AllJobs, GenCrl(j) \/ Rename(j) \/ RenameFails(j) \/ Reload(j)
          PROVE  MirrorIsLive'
        BY <2>2 DEF GenCrl, Rename, RenameFails, Reload
    <2>3. ASSUME NEW j \in AllJobs, Failure(j) \/ ReadOutgoing(j) \/ RevokeOutgoing(j)
          PROVE  MirrorIsLive'
        BY <2>3 DEF ReadOutgoing, RevokeOutgoing, Failure, GenCrlFails, ReloadFails,
           ReadOutgoingFails, KeygenFails, Fault
    <2>4. ASSUME NEW j \in Jobs,
                 RenewStart(j) \/ GenerateStart(j) \/ \E ds \in SUBSET Devices : Revoke(j, ds)
          PROVE  MirrorIsLive'
        BY <2>4 DEF RenewStart, GenerateStart, Revoke
    <2>5. CASE Boot \/ EnsureCrl
        BY <2>5 DEF Boot, EnsureCrl
    <2>6. CASE Crash
        <3>1. crashes' = crashes + 1 /\ crashes \in Nat
            BY <2>6 DEF Crash
        <3>2. crashes' > 0
            BY <3>1
        <3>3. QED
            BY <3>2
    <2>7. CASE BrokerRestart \/ UNCHANGED vars
        BY <2>7 DEF BrokerRestart, vars
    <2>8. QED
        BY <2>1, <2>2, <2>3, <2>4, <2>5, <2>6, <2>7 DEF Next, Progress
<1>3. QED
    BY <1>1, <1>2, TypeCorrect, PTL DEF Spec

\* The boot runs while no request does, and requests that make a claim
\* certificate exclude each other as long as none has overlapped.
Exclusive ==
    /\ \A j \in Jobs : kind[j] # "boot"
    /\ pc[BootJob] \notin Ended => ~serving
    /\ ~serving => \A j \in Jobs : pc[j] \in Ended
    /\ renewedAlone => \A j, k \in Jobs : MakingClaim(j) /\ MakingClaim(k) => j = k

\* The certificate a job is about to replace is the one it revoked.
OutgoingKnown ==
    renewedAlone => \A j \in AllJobs :
        /\ pc[j] = "meta" => claimCert \subseteq target[j]
        /\ pc[j] = "keygen" \/ (kind[j] = "renew" /\ Regenerating(j)) =>
            claimCert \subseteq revoked \cup unread

\* The file holds the last certificate made.
ClaimIsLast == claimCert = IF lastClaim = 0 THEN {} ELSE {Claim(lastClaim)}

ClaimInv == Exclusive /\ OutgoingKnown /\ ClaimIsLast /\ OldClaimRevoked

\* Steps that leave the claim certificate, its revocation and what jobs are for
\* alone, and bring no job closer to replacing it.
LEMMA ClaimKept ==
    ASSUME IInv, ClaimInv, NEW j \in AllJobs,
           UNCHANGED <<claimCert, lastClaim, kind, target, renewedAlone, revoked, unread>>,
           pc[j] \notin Ended, \A k \in AllJobs \ {j} : pc'[k] = pc[k],
           pc'[j] = "meta" => claimCert \subseteq target[j],
           pc'[j] = "keygen" \/ Regenerating(j)' =>
               pc[j] = "keygen" \/ Regenerating(j),
           pc'[j] = "keygen" => pc[j] = "keygen" \/ kind[j] = "renew",
           serving => serving', serving' => serving \/ (j = BootJob /\ pc'[j] \in Ended)
    PROVE  ClaimInv'
<1>1. Exclusive'
    BY BootAssumption DEF ClaimInv, Exclusive, MakingClaim, Ended, AllJobs
<1>2. OutgoingKnown'
    BY DEF ClaimInv, OutgoingKnown, Regenerating
<1>3. ClaimIsLast' /\ OldClaimRevoked'
    BY DEF ClaimInv, ClaimIsLast, OldClaimRevoked
<1>4. QED
    BY <1>1, <1>2, <1>3 DEF ClaimInv

\* The claim certificate's invariant, inductive given IInv.
THEOREM ClaimInvariance == Spec => []ClaimInv
<1>1. ASSUME Init PROVE ClaimInv
    <2>1. /\ \A j \in AllJobs : pc[j] = "idle"
          /\ \A j \in Jobs : kind[j] = "revoke"
          /\ claimCert = {} /\ lastClaim = 0
        BY <1>1, BootAssumption DEF Init, AllJobs
    <2>2. Exclusive /\ OutgoingKnown /\ ClaimIsLast
        BY <2>1 DEF Exclusive, OutgoingKnown, ClaimIsLast, MakingClaim, Regenerating, Ended, AllJobs
    <2>3. 1..lastClaim = {}
        BY <2>1
    <2>4. QED
        BY <2>2, <2>3 DEF ClaimInv, OldClaimRevoked
<1>2. IInv /\ ClaimInv /\ [Next]_vars => ClaimInv'
    <2> SUFFICES ASSUME IInv, ClaimInv, [Next]_vars PROVE ClaimInv'
        OBVIOUS
    <2> USE BootAssumption
        DEF Goto, Ended, tableVars, crlVars, claimVars, readVars, renewVars, countVars
    <2> TypeOK
        BY DEF IInv
    <2>0. KindOfStage
        BY DEF IInv, Consistent
    <2>1. ASSUME NEW j \in AllJobs, GenCrl(j) \/ Rename(j) PROVE ClaimInv'
        <3>1. pc[j] \in {"gencrl", "chgrp"} /\ pc'[j] \in {"chgrp", "reload"}
            BY <2>1 DEF GenCrl, Rename, TypeOK
        <3>2. \A k \in AllJobs \ {j} : pc'[k] = pc[k]
            BY <2>1 DEF GenCrl, Rename, TypeOK
        <3>3. UNCHANGED <<claimCert, lastClaim, kind, target, renewedAlone, revoked, unread,
                          serving>>
            BY <2>1 DEF GenCrl, Rename
        <3>4. Regenerating(j)
            BY <3>1 DEF Regenerating
        <3>5. (serving => serving') /\ (serving' => serving)
            BY <3>3
        <3>6. QED
            BY <3>1, <3>2, <3>3, <3>4, <3>5, ClaimKept
    <2>2. ASSUME NEW j \in AllJobs,
                 Reload(j) \/ ReloadFails(j) \/ GenCrlFails(j) \/ RenameFails(j)
          PROVE  ClaimInv'
        <3>1. kind[j] = "boot" => j = BootJob
            BY DEF ClaimInv, Exclusive, AllJobs
        <3>2. Regenerating(j)
            BY <2>2 DEF Reload, ReloadFails, GenCrlFails, RenameFails, Regenerating
        <3>3. AfterRegeneration(j) \/ RegenerationThrows(j)
            BY <2>2 DEF Reload, ReloadFails, GenCrlFails, RenameFails
        <3>4. UNCHANGED <<claimCert, lastClaim, kind, target, renewedAlone, revoked, unread>>
            BY <2>2 DEF Reload, ReloadFails, GenCrlFails, RenameFails
        <3>5. /\ \A k \in AllJobs \ {j} : pc'[k] = pc[k]
              /\ pc'[j] \in {"keygen", "done", "warned"}
              /\ pc'[j] = "keygen" => kind[j] = "renew"
            BY <3>3 DEF AfterRegeneration, RegenerationThrows, TypeOK
        <3>6. /\ kind[j] = "boot" => pc'[j] = "done"
              /\ (serving => serving') /\ (serving' => serving \/ kind[j] = "boot")
            BY <3>3 DEF AfterRegeneration, RegenerationThrows, TypeOK
        <3>7. serving' => serving \/ (j = BootJob /\ pc'[j] \in Ended)
            BY <3>1, <3>6
        <3>8. pc[j] \notin Ended /\ ~Regenerating(j)'
            BY <3>2, <3>5 DEF Regenerating
        <3>9. QED
            BY <3>2, <3>4, <3>5, <3>6, <3>7, <3>8, ClaimKept
    <2>3. ASSUME NEW j \in AllJobs, ReadOutgoing(j) PROVE ClaimInv'
        <3>1. \A k \in AllJobs \ {j} : pc'[k] = pc[k] /\ target'[k] = target[k]
            BY <2>3 DEF ReadOutgoing, TypeOK
        <3>2. pc[j] = "serial" /\ pc'[j] = "meta" /\ target'[j] = claimCert
            BY <2>3 DEF ReadOutgoing, TypeOK
        <3>3. UNCHANGED <<claimCert, lastClaim, kind, renewedAlone, revoked, unread, serving>>
            BY <2>3 DEF ReadOutgoing
        <3>4. Exclusive'
            BY <3>1, <3>2, <3>3 DEF ClaimInv, Exclusive, MakingClaim, AllJobs
        <3>5. OutgoingKnown'
            BY <3>1, <3>2, <3>3 DEF ClaimInv, OutgoingKnown, Regenerating
        <3>6. QED
            BY <3>3, <3>4, <3>5 DEF ClaimInv, ClaimIsLast, OldClaimRevoked
    <2>4. ASSUME NEW j \in AllJobs, ReadOutgoingFails(j) PROVE ClaimInv'
        <3>1. \A k \in AllJobs \ {j} : pc'[k] = pc[k]
            BY <2>4 DEF ReadOutgoingFails, TypeOK
        <3>2. pc[j] = "serial" /\ pc'[j] = "keygen" /\ unread' = unread \cup claimCert
            BY <2>4 DEF ReadOutgoingFails, TypeOK
        <3>3. UNCHANGED <<claimCert, lastClaim, kind, target, renewedAlone, revoked, serving>>
            BY <2>4 DEF ReadOutgoingFails
        <3>4. Exclusive'
            BY <3>1, <3>2, <3>3 DEF ClaimInv, Exclusive, MakingClaim, AllJobs
        <3>5. OutgoingKnown'
            BY <3>1, <3>2, <3>3 DEF ClaimInv, OutgoingKnown, Regenerating
        <3>6. QED
            BY <3>2, <3>3, <3>4, <3>5 DEF ClaimInv, ClaimIsLast, OldClaimRevoked
    <2>5. ASSUME NEW j \in AllJobs, RevokeOutgoing(j) PROVE ClaimInv'
        <3>1. \A k \in AllJobs \ {j} : pc'[k] = pc[k]
            BY <2>5 DEF RevokeOutgoing, StartRegeneration, TypeOK
        <3>2. pc[j] = "meta" /\ pc'[j] = "gencrl" /\ revoked' = revoked \cup target[j]
            BY <2>5 DEF RevokeOutgoing, StartRegeneration, TypeOK
        <3>3. UNCHANGED <<claimCert, lastClaim, kind, target, renewedAlone, unread, serving>>
            BY <2>5 DEF RevokeOutgoing
        <3>4. Exclusive'
            BY <3>1, <3>2, <3>3 DEF ClaimInv, Exclusive, MakingClaim, AllJobs
        <3>5. OutgoingKnown'
            BY <3>1, <3>2, <3>3 DEF ClaimInv, OutgoingKnown, Regenerating
        <3>6. QED
            BY <3>2, <3>3, <3>4, <3>5 DEF ClaimInv, ClaimIsLast, OldClaimRevoked
    <2>6. ASSUME NEW j \in Jobs, NEW devices \in SUBSET Devices, Revoke(j, devices)
          PROVE  ClaimInv'
        <3>1. \A k \in AllJobs \ {j} : pc'[k] = pc[k] /\ kind'[k] = kind[k] /\ target'[k] = target[k]
            BY <2>6 DEF Revoke, StartRegeneration, TypeOK, AllJobs
        <3>2. serving /\ pc'[j] = "gencrl" /\ kind'[j] = "revoke" /\ revoked \subseteq revoked'
            BY <2>6 DEF Revoke, StartRegeneration, TypeOK, AllJobs
        <3>3. UNCHANGED <<claimCert, lastClaim, renewedAlone, unread, serving>>
            BY <2>6 DEF Revoke
        <3>4. Exclusive'
            BY <3>1, <3>2, <3>3 DEF ClaimInv, Exclusive, MakingClaim, AllJobs
        <3>5. OutgoingKnown'
            BY <3>1, <3>2, <3>3 DEF ClaimInv, OutgoingKnown, Regenerating
        <3>6. QED
            BY <3>2, <3>3, <3>4, <3>5 DEF ClaimInv, ClaimIsLast, OldClaimRevoked
    <2>7. ASSUME NEW j \in Jobs, RenewStart(j) \/ GenerateStart(j) PROVE ClaimInv'
        <3>1. \A k \in AllJobs \ {j} : pc'[k] = pc[k] /\ kind'[k] = kind[k]
            BY <2>7 DEF RenewStart, GenerateStart, TypeOK, AllJobs
        <3>2. /\ serving /\ kind'[j] \in {"renew", "generate"}
              /\ pc'[j] \in {"keygen", "serial", "done"}
              /\ pc'[j] = "keygen" => claimCert = {}
              /\ renewedAlone' = (renewedAlone /\ ~\E k \in AllJobs : MakingClaim(k))
            BY <2>7 DEF RenewStart, GenerateStart, TypeOK, AllJobs
        <3>3. UNCHANGED <<claimCert, lastClaim, target, revoked, unread, serving>>
            BY <2>7 DEF RenewStart, GenerateStart
        <3>4. Exclusive'
            BY <3>1, <3>2, <3>3 DEF ClaimInv, Exclusive, MakingClaim, AllJobs
        <3>5. OutgoingKnown'
            BY <3>1, <3>2, <3>3 DEF ClaimInv, OutgoingKnown, Regenerating
        <3>6. QED
            BY <3>2, <3>3, <3>4, <3>5 DEF ClaimInv, ClaimIsLast, OldClaimRevoked
    <2>8. ASSUME NEW j \in AllJobs, InstallClaim(j) PROVE ClaimInv'
        <3>1. /\ \A k \in AllJobs \ {j} : pc'[k] = pc[k]
              /\ pc[j] = "keygen" /\ pc'[j] = "mirror"
              /\ lastClaim' = lastClaim + 1 /\ claimCert' = {Claim(lastClaim')}
            BY <2>8 DEF InstallClaim, TypeOK
        <3>2. UNCHANGED <<kind, target, renewedAlone, revoked, unread, serving>>
            BY <2>8 DEF InstallClaim
        <3>3. Exclusive'
            BY <3>1, <3>2 DEF ClaimInv, Exclusive, MakingClaim, AllJobs
        <3>4. ASSUME renewedAlone, NEW k \in AllJobs \ {j}
              PROVE  pc[k] \notin {"meta", "keygen"} /\ ~(kind[k] = "renew" /\ Regenerating(k))
            <4>1. CASE j = BootJob
                <5>1. k \in Jobs /\ pc[k] \in Ended
                    BY <3>1, <4>1 DEF ClaimInv, Exclusive, AllJobs
                <5>2. QED
                    BY <5>1 DEF Regenerating
            <4>2. CASE j \in Jobs /\ k = BootJob
                <5>1. serving
                    BY <3>1, <4>2 DEF ClaimInv, Exclusive
                <5>2. pc[k] \in Ended
                    BY <4>2, <5>1 DEF ClaimInv, Exclusive
                <5>3. QED
                    BY <5>2 DEF Regenerating
            <4>3. CASE j \in Jobs /\ k \in Jobs
                <5>1. MakingClaim(j)
                    BY <2>0, <3>1, <4>3 DEF KindOfStage, ClaimInv, Exclusive, MakingClaim, TypeOK
                <5>2. ~MakingClaim(k)
                    BY <3>4, <4>3, <5>1 DEF ClaimInv, Exclusive
                <5>3. kind[k] # "revoke" => kind[k] \in {"renew", "generate"}
                    BY <4>3 DEF ClaimInv, Exclusive, TypeOK
                <5>4. QED
                    BY <2>0, <5>2, <5>3 DEF KindOfStage, MakingClaim, Regenerating
            <4>4. QED
                BY <4>1, <4>2, <4>3 DEF AllJobs
        <3>5. OutgoingKnown'
            BY <3>1, <3>2, <3>4 DEF OutgoingKnown, Regenerating
        <3>6. ClaimIsLast'
            BY <3>1 DEF ClaimIsLast, TypeOK
        <3>7. OldClaimRevoked'
            <4> SUFFICES ASSUME renewedAlone, NEW n \in 1..lastClaim'
                         PROVE  Claim(n) \in claimCert' \cup revoked \cup unread
                BY <3>2 DEF OldClaimRevoked
            <4>1. CASE n = lastClaim'
                BY <3>1, <4>1
            <4>2. CASE n # lastClaim'
                <5>1. n \in 1..lastClaim
                    BY <3>1, <4>2 DEF TypeOK
                <5>2. Claim(n) \in claimCert \cup revoked \cup unread
                    BY <5>1 DEF ClaimInv, OldClaimRevoked
                <5>3. claimCert \subseteq revoked \cup unread
                    BY <3>1 DEF ClaimInv, OutgoingKnown
                <5>4. QED
                    BY <5>2, <5>3
            <4>3. QED
                BY <4>1, <4>2
        <3>8. QED
            BY <3>3, <3>5, <3>6, <3>7 DEF ClaimInv
    <2>9. ASSUME NEW j \in AllJobs, KeygenFails(j) \/ Mirror(j) PROVE ClaimInv'
        <3>1. pc[j] \in {"keygen", "mirror"} /\ pc'[j] \in {"ensure", "warned", "done"}
            BY <2>9 DEF KeygenFails, Mirror, TypeOK
        <3>2. \A k \in AllJobs \ {j} : pc'[k] = pc[k]
            BY <2>9 DEF KeygenFails, Mirror, TypeOK
        <3>3. UNCHANGED <<claimCert, lastClaim, kind, target, renewedAlone, revoked, unread,
                          serving>>
            BY <2>9 DEF KeygenFails, Mirror
        <3>4. ~Regenerating(j)'
            BY <3>1 DEF Regenerating
        <3>5. (serving => serving') /\ (serving' => serving)
            BY <3>3
        <3>6. QED
            BY <3>1, <3>2, <3>3, <3>4, <3>5, ClaimKept
    <2>10. CASE Boot
        <3>1. /\ \A k \in Jobs : pc'[k] = pc[k]
              /\ ~serving /\ pc'[BootJob] \in {"keygen", "ensure"}
              /\ pc'[BootJob] = "keygen" => claimCert = {}
            BY <2>10 DEF Boot, TypeOK, AllJobs
        <3>2. UNCHANGED <<claimCert, lastClaim, kind, target, renewedAlone, revoked, unread,
                          serving>>
            BY <2>10 DEF Boot
        <3>3. Exclusive'
            BY <3>1, <3>2 DEF ClaimInv, Exclusive, MakingClaim
        <3>4. OutgoingKnown'
            BY <3>1, <3>2 DEF ClaimInv, OutgoingKnown, Regenerating, AllJobs
        <3>5. QED
            BY <3>2, <3>3, <3>4 DEF ClaimInv, ClaimIsLast, OldClaimRevoked
    <2>11. CASE EnsureCrl
        <3>1. /\ \A k \in Jobs : pc'[k] = pc[k]
              /\ pc[BootJob] = "ensure" /\ pc'[BootJob] \in {"done", "gencrl"}
              /\ (serving' = TRUE /\ pc'[BootJob] = "done") \/ UNCHANGED serving
            BY <2>11 DEF EnsureCrl, StartRegeneration, TypeOK, AllJobs
        <3>2. UNCHANGED <<claimCert, lastClaim, kind, target, renewedAlone, revoked, unread>>
            BY <2>11 DEF EnsureCrl
        <3>3. Exclusive'
            BY <3>1, <3>2 DEF ClaimInv, Exclusive, MakingClaim
        <3>4. OutgoingKnown'
            BY <2>0, <3>1, <3>2 DEF KindOfStage, ClaimInv, OutgoingKnown, Regenerating, AllJobs
        <3>5. QED
            BY <3>2, <3>3, <3>4 DEF ClaimInv, ClaimIsLast, OldClaimRevoked
    <2>12. CASE Crash
        <3>1. \A k \in AllJobs : pc'[k] \in Ended
            BY <2>12 DEF Crash
        <3>2. UNCHANGED <<claimCert, lastClaim, kind, target, renewedAlone, revoked, unread>>
            BY <2>12 DEF Crash
        <3>3. Exclusive' /\ OutgoingKnown'
            BY <3>1, <3>2 DEF ClaimInv, Exclusive, OutgoingKnown, MakingClaim, Regenerating, AllJobs
        <3>4. QED
            BY <3>2, <3>3 DEF ClaimInv, ClaimIsLast, OldClaimRevoked
    <2>13. CASE BrokerRestart \/ UNCHANGED vars
        BY <2>13 DEF BrokerRestart, vars, ClaimInv, Exclusive, OutgoingKnown, ClaimIsLast,
           OldClaimRevoked, MakingClaim, Regenerating
    <2>14. QED
        BY <2>1, <2>2, <2>3, <2>4, <2>5, <2>6, <2>7, <2>8, <2>9, <2>10, <2>11, <2>12,
           <2>13 DEF Next, Progress, Failure
<1>3. QED
    BY <1>1, <1>2, Invariant, PTL DEF Spec

\* Unless two requests made a claim certificate at once, every one that was
\* replaced is revoked or its serial could not be read
\* (CrlPublication!OldClaimRevoked).
THEOREM OldClaimTheorem == Spec => []OldClaimRevoked
<1>1. ClaimInv => OldClaimRevoked
    BY DEF ClaimInv
<1>2. QED
    BY <1>1, ClaimInvariance, PTL
=============================================================================
