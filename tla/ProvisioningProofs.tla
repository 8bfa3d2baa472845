------------------------- MODULE ProvisioningProofs -------------------------
(***************************************************************************)
(* Theorems about Provisioning, for any sets of UUIDs and names, any       *)
(* number of runs, and with the whitelist enforced or not.                 *)
(***************************************************************************)
EXTENDS Provisioning, TLAPS

-----------------------------------------------------------------------------
(* Type correctness *)

\* What a response carries belongs to the message type.
LEMMA ResponseTypes ==
    /\ Rejected \in Response
    /\ \A n \in Names : Claimed(n) \in Response
    /\ \A c \in Cert : Issued(c) \in Response
BY DEF Response, Rejected, Claimed, Issued

\* Answering a board keeps its queue a queue of responses.
LEMMA RespondType ==
    ASSUME NEW u \in UUIDs, NEW msg \in Response, Respond(u, msg),
           responses \in [UUIDs -> Seq(Response)]
    PROVE  responses' \in [UUIDs -> Seq(Response)]
BY DEF Respond

\* Taking the head of a request queue keeps the types, and the head is a
\* request.
LEMMA NextRequestType ==
    ASSUME TypeOK, NEW u \in UUIDs, NEW type, NextRequest(u, type)
    PROVE  /\ requests' \in [UUIDs -> Seq(Request)]
           /\ Head(requests[u]) \in Request
           /\ Head(requests[u]).type = type
           /\ UNCHANGED <<boardVars, overlapped>>
BY DEF NextRequest, TypeOK

\* Every variable keeps its type (Provisioning!TypeOK).
THEOREM TypeCorrect == Spec => []TypeOK
<1>1. Init => TypeOK
    BY DEF Init, TypeOK, Phases
<1>2. TypeOK /\ [Next]_vars => TypeOK'
    <2> SUFFICES ASSUME TypeOK, [Next]_vars PROVE TypeOK'
        OBVIOUS
    <2> USE DEF TypeOK, Phases, hubVars, boardVars, historyVars
    <2>1. ASSUME NEW u \in UUIDs, ProvisionStart(u) PROVE TypeOK'
        BY <2>1 DEF ProvisionStart
    <2>2. ASSUME NEW u \in UUIDs, ProvisionClaim(u) PROVE TypeOK'
        <3>1. [type |-> "claim"] \in Request
            BY DEF Request
        <3>2. requests' \in [UUIDs -> Seq(Request)]
            BY <2>2, <3>1 DEF ProvisionClaim
        <3>3. QED
            BY <2>2, <3>2 DEF ProvisionClaim
    <2>3. ASSUME NEW u \in UUIDs, ReceiveClaimed(u) PROVE TypeOK'
        <3>1. Head(responses[u]) \in Response /\ Tail(responses[u]) \in Seq(Response)
            BY <2>3 DEF ReceiveClaimed
        <3>2. Head(responses[u]).deviceId \in Names
            BY <2>3, <3>1 DEF ReceiveClaimed, Response
        <3>3. [type |-> "csr", deviceId |-> Head(responses[u]).deviceId, key |-> lastKey']
                \in Request
            BY <2>3, <3>2 DEF ReceiveClaimed, Request
        <3>4. requests' \in [UUIDs -> Seq(Request)]
            BY <2>3, <3>3 DEF ReceiveClaimed
        <3>5. responses' \in [UUIDs -> Seq(Response)]
            BY <2>3, <3>1 DEF ReceiveClaimed
        <3>6. lastKey' \in Nat /\ pendingKey' \in [UUIDs -> Nat]
            BY <2>3 DEF ReceiveClaimed
        <3>7. QED
            BY <2>3, <3>4, <3>5, <3>6 DEF ReceiveClaimed
    <2>4. ASSUME NEW u \in UUIDs, ReceiveIssued(u) PROVE TypeOK'
        <3>0. Head(responses[u]) \in Response /\ Head(responses[u]).type = "issued"
            BY <2>4 DEF ReceiveIssued
        <3>1. Head(responses[u]).cert \in Cert
            BY <3>0 DEF Response
        <3>2. [cert |-> Head(responses[u]).cert, key |-> pendingKey[u]] \in Identity
            BY <3>1 DEF Identity
        <3>3. identity' \in [UUIDs -> SUBSET Identity]
            <4>1. {[cert |-> Head(responses[u]).cert, key |-> pendingKey[u]]} \in SUBSET Identity
                BY <3>2
            <4>2. CASE pendingKey[u] = 0
                BY <2>4, <4>2 DEF ReceiveIssued
            <4>3. CASE pendingKey[u] # 0
                <5>1. identity' = [identity EXCEPT ![u] =
                          {[cert |-> Head(responses[u]).cert, key |-> pendingKey[u]]}]
                    BY <2>4, <4>3 DEF ReceiveIssued
                <5>2. QED
                    BY <5>1, <4>1
            <4>4. QED
                BY <4>2, <4>3
        <3>4. responses' \in [UUIDs -> Seq(Response)] /\ phase' \in [UUIDs -> Phases]
            BY <2>4, <3>0, <<>> \in Seq(Response) DEF ReceiveIssued, Finish
        <3>5. QED
            BY <2>4, <3>3, <3>4 DEF ReceiveIssued, Finish
    <2>5. ASSUME NEW u \in UUIDs, ProvisionFail(u) PROVE TypeOK'
        BY <2>5 DEF ProvisionFail, Finish
    <2>6. ASSUME NEW u \in UUIDs, HandleClaim(u) PROVE TypeOK'
        <3>1. PICK n \in FreeNames(u) :
                  registry' = [registry EXCEPT ![u] = {n}] /\ Respond(u, Claimed(n))
            BY <2>6 DEF HandleClaim
        <3>2. n \in Names
            BY DEF FreeNames
        <3>3. responses' \in [UUIDs -> Seq(Response)]
            BY <3>1, <3>2, ResponseTypes, RespondType
        <3>4. requests' \in [UUIDs -> Seq(Request)] /\ UNCHANGED <<boardVars, overlapped>>
            BY <2>6, NextRequestType DEF HandleClaim
        <3>5. QED
            BY <2>6, <3>1, <3>2, <3>3, <3>4 DEF HandleClaim
    <2>7. ASSUME NEW u \in UUIDs, RefuseClaim(u) \/ RefuseCsr(u) PROVE TypeOK'
        <3>1. responses' \in [UUIDs -> Seq(Response)]
            BY <2>7, ResponseTypes, RespondType DEF RefuseClaim, RefuseCsr
        <3>2. requests' \in [UUIDs -> Seq(Request)] /\ UNCHANGED <<boardVars, overlapped>>
            BY <2>7, NextRequestType DEF RefuseClaim, RefuseCsr
        <3>3. QED
            BY <2>7, <3>1, <3>2 DEF RefuseClaim, RefuseCsr
    <2>8. ASSUME NEW u \in UUIDs, HandleCsr(u) PROVE TypeOK'
        <3>1. /\ requests' \in [UUIDs -> Seq(Request)]
              /\ UNCHANGED <<boardVars, overlapped>>
              /\ Head(requests[u]).deviceId \in Names /\ Head(requests[u]).key \in Nat
            BY <2>8, NextRequestType DEF HandleCsr, Request
        <3>2. issues' \subseteq Cert
            BY <2>8, <3>1 DEF HandleCsr, Cert
        <3>3. QED
            BY <2>8, <3>1, <3>2 DEF HandleCsr
    <2>9. ASSUME NEW i \in issues, IssueDone(i) PROVE TypeOK'
        <3>1. i \in Cert
            OBVIOUS
        <3>2. i.uuid \in UUIDs /\ i.deviceId \in Names /\ i.serial \in Nat
            BY <3>1 DEF Cert
        <3>3. responses' \in [UUIDs -> Seq(Response)]
            BY <2>9, <3>1, <3>2, ResponseTypes, RespondType DEF IssueDone
        <3>4. registry' \in [UUIDs -> SUBSET Names]
            <4>1. CASE UNCHANGED registry
                BY <4>1
            <4>2. CASE RegisterDevice(i)
                <5>1. {i.deviceId} \in SUBSET Names
                    BY <3>2
                <5>2. QED
                    BY <4>2, <5>1 DEF RegisterDevice
            <4>3. QED
                BY <2>9, <4>1, <4>2 DEF IssueDone
        <3>5. certificates' \subseteq Cert /\ revoked' \subseteq Nat
            BY <2>9, <3>1 DEF IssueDone, RecordIssuedCertificate
        <3>6. QED
            BY <2>9, <3>3, <3>4, <3>5 DEF IssueDone
    <2>10. ASSUME NEW i \in issues, IssueFails(i) PROVE TypeOK'
        <3>1. i.uuid \in UUIDs
            BY DEF Cert
        <3>2. responses' \in [UUIDs -> Seq(Response)]
            BY <2>10, <3>1, ResponseTypes, RespondType DEF IssueFails
        <3>3. QED
            BY <2>10, <3>2 DEF IssueFails
    <2>11. ASSUME NEW us \in SUBSET UUIDs, AddEntries(us) PROVE TypeOK'
        BY <2>11 DEF AddEntries, adminUnchanged
    <2>12. CASE HubRestart
        BY <2>12 DEF HubRestart
    <2>13. ASSUME NEW u \in UUIDs, Admin(u) PROVE TypeOK'
        <3>1. Serials(CertsOf(u)) \subseteq Nat /\ Serials(IssuesOf(u)) \subseteq Nat
            BY DEF Serials, CertsOf, IssuesOf, Cert
        <3>2. QED
            BY <2>13, <3>1 DEF Admin, DisableEntry, EnableEntry, DeleteEntry,
               DeleteEntryByDevice, Decommission, RevokeCertificatesForUuid, adminUnchanged
    <2>14. CASE UNCHANGED vars
        BY <2>14 DEF vars
    <2>15. QED
        BY <2>1, <2>2, <2>3, <2>4, <2>5, <2>6, <2>7, <2>8, <2>9, <2>10, <2>11,
           <2>12, <2>13, <2>14 DEF Next, Board, Hub
<1>3. QED
    BY <1>1, <1>2, PTL DEF Spec

-----------------------------------------------------------------------------
(* The inductive invariant *)

\* A serial names one certificate: an issue in flight has a serial no row and
\* no other issue has, and only rows are revoked.  This is what makes the
\* revoked_at NULL of recordIssuedCertificate harmless.
SerialsDistinct ==
    /\ \A c \in certificates \cup issues : c.serial <= lastSerial
    /\ \A i \in issues, c \in certificates : i.serial # c.serial
    /\ \A i, j \in issues : i.serial = j.serial => i = j
    /\ \A s \in revoked : \E c \in certificates : c.serial = s

\* An issue in flight for a UUID that is not enabled has escaped the switch.
IssuesEscaped ==
    EnforceWhitelist =>
        \A i \in issues : whitelist[i.uuid] # "enabled" => i.serial \in escaped

\* A board decommissioned with nothing in flight has neither row nor issue.
RetiredIdle == \A u \in retired : registry[u] = {} /\ IssuesOf(u) = {}

IInv ==
    /\ TypeOK
    /\ SerialsDistinct
    /\ IssuesEscaped
    /\ KillSwitch
    /\ RetiredIdle
    /\ NamesUnique

\* Steps of the boards and refusals leave the database and the issues alone.
LEMMA DatabaseUnchanged ==
    ASSUME IInv, UNCHANGED <<hubVars, escaped, retired>>
    PROVE  SerialsDistinct' /\ IssuesEscaped' /\ KillSwitch' /\ RetiredIdle' /\ NamesUnique'
BY DEF IInv, SerialsDistinct, IssuesEscaped, KillSwitch, RetiredIdle, NamesUnique,
       hubVars, IssuesOf

\* Revoking the certificates of a UUID whose entry changes keeps the invariant.
LEMMA RevocationStep ==
    ASSUME IInv, NEW u \in UUIDs, NEW status \in {"absent", "disabled"},
           whitelist' = [whitelist EXCEPT ![u] = status],
           RevokeCertificatesForUuid(u),
           UNCHANGED <<registry, certificates, issues, lastSerial, retired>>
    PROVE  SerialsDistinct' /\ IssuesEscaped' /\ KillSwitch' /\ RetiredIdle' /\ NamesUnique'
<1> USE DEF IInv, Serials, CertsOf, IssuesOf, RevokeCertificatesForUuid
<1>1. SerialsDistinct'
    BY DEF SerialsDistinct
<1>2. IssuesEscaped'
    BY DEF IssuesEscaped, TypeOK
<1>3. KillSwitch'
    BY DEF KillSwitch, TypeOK
<1>4. RetiredIdle' /\ NamesUnique'
    BY DEF RetiredIdle, NamesUnique
<1>5. QED
    BY <1>1, <1>2, <1>3, <1>4

\* Every step of the system keeps the invariant.
LEMMA InvariantStep == IInv /\ TypeOK' /\ [Next]_vars => IInv'
<1> SUFFICES ASSUME IInv, TypeOK', [Next]_vars PROVE IInv'
    OBVIOUS
<1>1. SUFFICES SerialsDistinct' /\ IssuesEscaped' /\ KillSwitch' /\ RetiredIdle' /\ NamesUnique'
    BY DEF IInv
<1>2. ASSUME NEW u \in UUIDs, Board(u) \/ RefuseClaim(u) \/ RefuseCsr(u)
      PROVE  SerialsDistinct' /\ IssuesEscaped' /\ KillSwitch' /\ RetiredIdle' /\ NamesUnique'
    <2>1. UNCHANGED <<hubVars, escaped, retired>>
        BY <1>2 DEF Board, ProvisionStart, ProvisionClaim, ReceiveClaimed, ReceiveIssued,
           ProvisionFail, Finish, RefuseClaim, RefuseCsr, historyVars
    <2>2. QED
        BY <2>1, DatabaseUnchanged
<1>3. ASSUME NEW u \in UUIDs, HandleClaim(u)
      PROVE  SerialsDistinct' /\ IssuesEscaped' /\ KillSwitch' /\ RetiredIdle' /\ NamesUnique'
    <2>1. PICK n \in FreeNames(u) : registry' = [registry EXCEPT ![u] = {n}]
        BY <1>3 DEF HandleClaim
    <2>2. \A v \in UUIDs \ {u} : n \notin registry[v]
        BY DEF FreeNames
    <2>3. NamesUnique'
        <3> SUFFICES ASSUME NEW v \in UUIDs, NEW w \in UUIDs, v # w
                     PROVE  registry'[v] \cap registry'[w] = {}
            BY DEF NamesUnique
        <3>1. /\ registry'[u] = {n}
              /\ \A x \in UUIDs \ {u} : registry'[x] = registry[x]
            BY <2>1 DEF IInv, TypeOK
        <3>2. registry[v] \cap registry[w] = {}
            BY DEF IInv, NamesUnique
        <3>3. QED
            BY <3>1, <3>2, <2>2
    <2>4. SerialsDistinct' /\ IssuesEscaped' /\ KillSwitch'
        BY <1>3 DEF HandleClaim, IInv, SerialsDistinct, IssuesEscaped, KillSwitch
    <2>5. RetiredIdle'
        BY <1>3, <2>1 DEF HandleClaim, IInv, TypeOK, RetiredIdle, IssuesOf
    <2>6. QED
        BY <2>3, <2>4, <2>5
<1>4. ASSUME NEW u \in UUIDs, HandleCsr(u)
      PROVE  SerialsDistinct' /\ IssuesEscaped' /\ KillSwitch' /\ RetiredIdle' /\ NamesUnique'
    <2> DEFINE new == [serial |-> lastSerial', uuid |-> u,
                       deviceId |-> Head(requests[u]).deviceId, key |-> Head(requests[u]).key]
    <2>1. /\ lastSerial' = lastSerial + 1 /\ lastSerial \in Nat
          /\ issues' = issues \cup {new}
          /\ UNCHANGED <<whitelist, registry, certificates, revoked, escaped, retired>>
        BY <1>4 DEF HandleCsr, IInv, TypeOK
    <2>2. \A c \in certificates \cup issues : c.serial \in Nat /\ c.serial < lastSerial'
        BY <2>1 DEF IInv, TypeOK, SerialsDistinct, Cert
    <2>3. SerialsDistinct'
        BY <2>1, <2>2 DEF IInv, SerialsDistinct
    <2>4. IssuesEscaped' /\ KillSwitch'
        BY <1>4, <2>1 DEF HandleCsr, CsrAcceptable, CheckUuid, IInv, IssuesEscaped, KillSwitch
    <2>5. u \notin retired
        BY <1>4 DEF HandleCsr, CsrAcceptable, IInv, RetiredIdle
    <2>6. RetiredIdle' /\ NamesUnique'
        BY <2>1, <2>5 DEF IInv, RetiredIdle, NamesUnique, IssuesOf
    <2>7. QED
        BY <2>3, <2>4, <2>6
<1>5. ASSUME NEW i \in issues, IssueDone(i)
      PROVE  SerialsDistinct' /\ IssuesEscaped' /\ KillSwitch' /\ RetiredIdle' /\ NamesUnique'
    <2>1. /\ issues' = issues \ {i} /\ certificates' = certificates \cup {i}
          /\ revoked' = revoked \ {i.serial}
          /\ UNCHANGED <<whitelist, lastSerial, escaped, retired>>
        BY <1>5 DEF IssueDone, RecordIssuedCertificate, historyVars
    <2>2. i.serial \notin revoked
        BY DEF IInv, SerialsDistinct
    <2>3. SerialsDistinct'
        BY <2>1 DEF IInv, SerialsDistinct
    <2>4. IssuesEscaped' /\ KillSwitch'
        BY <2>1, <2>2 DEF IInv, IssuesEscaped, KillSwitch
    <2>5. i.uuid \in UUIDs /\ i.uuid \notin retired
        BY DEF IInv, TypeOK, Cert, RetiredIdle, IssuesOf
    <2>6. RetiredIdle' /\ NamesUnique'
        <3>1. CASE UNCHANGED registry
            BY <2>1, <3>1 DEF IInv, RetiredIdle, NamesUnique, IssuesOf
        <3>2. CASE registry' = [v \in UUIDs |-> IF v = i.uuid THEN {i.deviceId}
                                    ELSE IF i.deviceId \in registry[v] THEN {} ELSE registry[v]]
            <4>1. /\ registry'[i.uuid] = {i.deviceId}
                  /\ \A x \in UUIDs \ {i.uuid} :
                         registry'[x] \subseteq registry[x] /\ i.deviceId \notin registry'[x]
                BY <2>5, <3>2
            <4>2. NamesUnique'
                <5> SUFFICES ASSUME NEW v \in UUIDs, NEW w \in UUIDs, v # w
                             PROVE  registry'[v] \cap registry'[w] = {}
                    BY DEF NamesUnique
                <5>1. registry[v] \cap registry[w] = {}
                    BY DEF IInv, NamesUnique
                <5>2. QED
                    BY <4>1, <5>1
            <4>3. RetiredIdle'
                BY <2>1, <2>5, <4>1 DEF IInv, TypeOK, RetiredIdle, IssuesOf
            <4>4. QED
                BY <4>2, <4>3
        <3>3. QED
            BY <1>5, <3>1, <3>2 DEF IssueDone, RegisterDevice
    <2>7. QED
        BY <2>3, <2>4, <2>6
<1>6. ASSUME NEW i \in issues, IssueFails(i)
      PROVE  SerialsDistinct' /\ IssuesEscaped' /\ KillSwitch' /\ RetiredIdle' /\ NamesUnique'
    BY <1>6 DEF IssueFails, historyVars, IInv, SerialsDistinct, IssuesEscaped, KillSwitch,
                RetiredIdle, NamesUnique, IssuesOf
<1>7. ASSUME NEW us \in SUBSET UUIDs, AddEntries(us)
      PROVE  SerialsDistinct' /\ IssuesEscaped' /\ KillSwitch' /\ RetiredIdle' /\ NamesUnique'
    <2>1. \A u \in UUIDs : whitelist'[u] # "enabled" => whitelist[u] # "enabled"
        BY <1>7 DEF AddEntries, IInv, TypeOK
    <2>2. \A c \in issues \cup certificates : c.uuid \in UUIDs
        BY DEF IInv, TypeOK, Cert
    <2>3. UNCHANGED <<registry, certificates, revoked, issues, lastSerial, escaped, retired>>
        BY <1>7 DEF AddEntries, adminUnchanged
    <2>4. QED
        BY <2>1, <2>2, <2>3 DEF IInv, SerialsDistinct, IssuesEscaped, KillSwitch,
           RetiredIdle, NamesUnique, IssuesOf
<1>8. CASE HubRestart
    BY <1>8 DEF HubRestart, historyVars, IInv, SerialsDistinct, IssuesEscaped, KillSwitch,
                RetiredIdle, NamesUnique, IssuesOf
<1>9. ASSUME NEW u \in UUIDs, DisableEntry(u) \/ DeleteEntry(u)
      PROVE  SerialsDistinct' /\ IssuesEscaped' /\ KillSwitch' /\ RetiredIdle' /\ NamesUnique'
    BY <1>9, RevocationStep DEF DisableEntry, DeleteEntry, adminUnchanged
<1>10. ASSUME NEW u \in UUIDs, EnableEntry(u)
      PROVE  SerialsDistinct' /\ IssuesEscaped' /\ KillSwitch' /\ RetiredIdle' /\ NamesUnique'
    BY <1>10 DEF EnableEntry, adminUnchanged, IInv, TypeOK, SerialsDistinct, IssuesEscaped,
                 KillSwitch, RetiredIdle, NamesUnique, IssuesOf
<1>11. ASSUME NEW u \in UUIDs, DeleteEntryByDevice(u)
      PROVE  SerialsDistinct' /\ IssuesEscaped' /\ KillSwitch' /\ RetiredIdle' /\ NamesUnique'
    <2>1. UNCHANGED <<registry, certificates, revoked, issues, lastSerial, retired>>
        BY <1>11 DEF DeleteEntryByDevice, adminUnchanged
    <2>2. SerialsDistinct' /\ RetiredIdle' /\ NamesUnique'
        BY <2>1 DEF IInv, SerialsDistinct, RetiredIdle, NamesUnique, IssuesOf
    <2>3. IssuesEscaped' /\ KillSwitch'
        BY <1>11, <2>1 DEF DeleteEntryByDevice, IInv, TypeOK, IssuesEscaped, KillSwitch,
           Serials, CertsOf, IssuesOf
    <2>4. QED
        BY <2>2, <2>3
<1>12. ASSUME NEW u \in UUIDs, Decommission(u)
      PROVE  SerialsDistinct' /\ IssuesEscaped' /\ KillSwitch' /\ RetiredIdle' /\ NamesUnique'
    <2>1. /\ registry' = [registry EXCEPT ![u] = {}]
          /\ UNCHANGED <<whitelist, certificates, revoked, issues, lastSerial, escaped>>
        BY <1>12 DEF Decommission, adminUnchanged
    <2>2. SerialsDistinct' /\ IssuesEscaped' /\ KillSwitch'
        BY <2>1 DEF IInv, SerialsDistinct, IssuesEscaped, KillSwitch
    <2>3. RetiredIdle' /\ NamesUnique'
        BY <1>12, <2>1 DEF Decommission, IInv, TypeOK, RetiredIdle, NamesUnique, IssuesOf
    <2>4. QED
        BY <2>2, <2>3
<1>13. CASE UNCHANGED vars
    BY <1>13, DatabaseUnchanged DEF vars, historyVars
<1>14. QED
    BY <1>2, <1>3, <1>4, <1>5, <1>6, <1>7, <1>8, <1>9, <1>10, <1>11, <1>12, <1>13
       DEF Next, Hub, Admin

\* The invariant holds throughout.
THEOREM Invariant == Spec => []IInv
<1>1. Init /\ TypeOK => IInv
    BY DEF Init, IInv, SerialsDistinct, IssuesEscaped, KillSwitch, RetiredIdle, NamesUnique
<1>2. QED
    BY <1>1, InvariantStep, TypeCorrect, PTL DEF Spec

-----------------------------------------------------------------------------
(* Theorems *)

\* The kill switch has no way out but the two its statement names
\* (Provisioning!KillSwitch).
THEOREM KillSwitchHolds == Spec => []KillSwitch
<1>1. IInv => KillSwitch
    BY DEF IInv
<1>2. QED
    BY <1>1, Invariant, PTL

\* A decommissioned device does not come back by itself
\* (Provisioning!DecommissionHolds).
THEOREM DecommissionTheorem == Spec => []DecommissionHolds
<1>1. IInv => DecommissionHolds
    BY DEF IInv, RetiredIdle, DecommissionHolds
<1>2. QED
    BY <1>1, Invariant, PTL

\* Names are never shared (Provisioning!NamesUnique).
THEOREM NamesUniqueTheorem == Spec => []NamesUnique
<1>1. IInv => NamesUnique
    BY DEF IInv
<1>2. QED
    BY <1>1, Invariant, PTL

\* No step takes a revocation back (Provisioning!RevocationPermanent).
THEOREM RevocationTheorem == Spec => RevocationPermanent
<1>1. IInv /\ [Next]_vars => [revoked \subseteq revoked']_vars
    <2> SUFFICES ASSUME IInv, Next PROVE revoked \subseteq revoked'
        OBVIOUS
    <2>1. ASSUME NEW i \in issues, IssueDone(i) PROVE revoked \subseteq revoked'
        BY <2>1 DEF IssueDone, RecordIssuedCertificate, IInv, SerialsDistinct
    <2>2. ASSUME NEW u \in UUIDs, Board(u) \/ Hub(u) PROVE UNCHANGED revoked
        BY <2>2 DEF Board, ProvisionStart, ProvisionClaim, ReceiveClaimed, ReceiveIssued,
           ProvisionFail, Finish, Hub, HandleClaim, RefuseClaim, HandleCsr, RefuseCsr, hubVars
    <2>3. ASSUME NEW u \in UUIDs, Admin(u) PROVE revoked \subseteq revoked'
        BY <2>3 DEF Admin, DisableEntry, EnableEntry, DeleteEntry, DeleteEntryByDevice,
           Decommission, RevokeCertificatesForUuid
    <2>4. QED
        BY <2>1, <2>2, <2>3 DEF Next, IssueFails, HubRestart, AddEntries
<1>2. QED
    BY <1>1, Invariant, PTL DEF Spec, RevocationPermanent
-----------------------------------------------------------------------------
(* One run of provisionDevice.  A board whose run did not overlap an older one *)
(* has one message or one issue under way, and these are its stages.           *)

Started(u) == phase[u] = "subscribed" /\ Quiet(u) /\ responses[u] = <<>>

Asked(u) ==
    /\ phase[u] = "claiming" /\ IssuesOf(u) = {} /\ responses[u] = <<>>
    /\ requests[u] = <<[type |-> "claim"]>>

Named(u) ==
    /\ phase[u] = "claiming" /\ Quiet(u)
    /\ \E n \in Names : responses[u] = <<Claimed(n)>>

Requested(u) ==
    /\ phase[u] = "claiming" /\ IssuesOf(u) = {} /\ responses[u] = <<>>
    /\ \E n \in Names :
           requests[u] = <<[type |-> "csr", deviceId |-> n, key |-> pendingKey[u]]>>

\* The row holds the name of the issue, or was taken away since.
Issuing(u) ==
    /\ phase[u] = "claiming" /\ requests[u] = <<>> /\ responses[u] = <<>>
    /\ \E i \in issues : /\ IssuesOf(u) = {i} /\ i.key = pendingKey[u]
                         /\ registry[u] \subseteq {i.deviceId}

Answered(u) ==
    /\ phase[u] = "claiming" /\ Quiet(u)
    /\ \E c \in certificates : /\ responses[u] = <<Issued(c)>> /\ c.key = pendingKey[u]
                               /\ registry[u] \subseteq {c.deviceId}

Over(u) == phase[u] = "claiming" /\ Quiet(u) /\ responses[u] \in {<<>>, <<Rejected>>}

Settled(u) ==
    /\ phase[u] = "resolved" /\ Quiet(u) /\ responses[u] = <<>>
    /\ \A id \in identity[u] : /\ id.cert \in certificates /\ id.cert.key = id.key
                               /\ registry[u] \subseteq {id.cert.deviceId}

Stopped(u) == phase[u] \in {"idle", "failed"} /\ responses[u] = <<>>

Stage(u) ==
    \/ Started(u) \/ Asked(u) \/ Named(u) \/ Requested(u) \/ Issuing(u)
    \/ Answered(u) \/ Over(u) \/ Settled(u) \/ Stopped(u)

\* A board that is not connected has nothing on its way.
Silent == \A u \in UUIDs : ~Connected(u) => responses[u] = <<>>

Flow == \A u \in UUIDs \ overlapped : Stage(u)

FlowInv == TypeOK /\ Silent /\ Flow

\* What leaves a board's messages and issues alone and takes no certificate from it leaves
\* it at its stage.
LEMMA StageStays ==
    ASSUME NEW u \in UUIDs, Stage(u),
           phase'[u] = phase[u], requests'[u] = requests[u], responses'[u] = responses[u],
           pendingKey'[u] = pendingKey[u], identity'[u] = identity[u],
           IssuesOf(u)' = IssuesOf(u),
           certificates \subseteq certificates', registry'[u] \subseteq registry[u]
    PROVE  Stage(u)'
<1>1. CASE Started(u) \/ Asked(u) \/ Named(u) \/ Requested(u) \/ Over(u) \/ Stopped(u)
    BY <1>1 DEF Stage, Started, Asked, Named, Requested, Over, Stopped, Quiet
<1>2. CASE Issuing(u)
    <2>1. PICK i \in issues : /\ IssuesOf(u) = {i} /\ i.key = pendingKey[u]
                              /\ registry[u] \subseteq {i.deviceId}
        BY <1>2 DEF Issuing
    <2>2. i \in issues'
        BY <2>1 DEF IssuesOf
    <2> QED
        BY <1>2, <2>1, <2>2 DEF Stage, Issuing
<1>3. CASE Answered(u)
    BY <1>3 DEF Stage, Answered, Quiet
<1>4. CASE Settled(u)
    BY <1>4 DEF Stage, Settled, Quiet
<1> QED
    BY <1>1, <1>2, <1>3, <1>4 DEF Stage

\* A step of one board's leaves the others where they are.
LEMMA FlowStep ==
    ASSUME FlowInv, NEW u \in UUIDs, overlapped' \ {u} = overlapped \ {u},
           \A v \in UUIDs \ {u} :
               /\ phase'[v] = phase[v] /\ requests'[v] = requests[v]
               /\ responses'[v] = responses[v] /\ pendingKey'[v] = pendingKey[v]
               /\ identity'[v] = identity[v] /\ IssuesOf(v)' = IssuesOf(v)
               /\ registry'[v] \subseteq registry[v],
           certificates \subseteq certificates',
           ~Connected(u)' => responses'[u] = <<>>,
           u \notin overlapped' => Stage(u)'
    PROVE  Silent' /\ Flow'
<1>1. Silent'
    BY DEF FlowInv, Silent, Connected
<1>2. ASSUME NEW v \in UUIDs \ overlapped' PROVE Stage(v)'
    <2>1. CASE v = u
        BY <1>2, <2>1
    <2>2. CASE v # u
        <3>1. v \notin overlapped
            BY <1>2, <2>2
        <3> QED
            BY <2>2, <3>1, StageStays DEF FlowInv, Flow
    <2> QED
        BY <2>1, <2>2
<1> QED
    BY <1>1, <1>2 DEF Flow

\* A step that leaves every board's messages and issues alone.
LEMMA FlowStays ==
    ASSUME FlowInv, UNCHANGED <<phase, requests, responses, pendingKey, identity, issues,
                                overlapped, certificates>>,
           \A v \in UUIDs : registry'[v] \subseteq registry[v]
    PROVE  Silent' /\ Flow'
<1>1. Silent'
    BY DEF FlowInv, Silent, Connected
<1>2. ASSUME NEW v \in UUIDs \ overlapped PROVE Stage(v)'
    BY StageStays DEF FlowInv, Flow, IssuesOf
<1> QED
    BY <1>1, <1>2 DEF Flow

\* What a board does moves it to its next stage.
LEMMA BoardFlow ==
    ASSUME FlowInv, TypeOK', NEW u \in UUIDs, Board(u) PROVE Silent' /\ Flow'
<1> USE DEF FlowInv, TypeOK, Connected, hubVars, historyVars, IssuesOf
<1>1. CASE ProvisionStart(u)
    <2>1. responses[u] = <<>>
        BY <1>1 DEF ProvisionStart, Silent
    <2>2. u \notin overlapped' => Quiet(u)
        BY <1>1 DEF ProvisionStart
    <2>3. u \notin overlapped' => Started(u)'
        BY <1>1, <2>1, <2>2 DEF ProvisionStart, Started, Quiet
    <2> QED
        BY <1>1, <2>1, <2>3, FlowStep DEF ProvisionStart, Stage
<1>2. CASE ProvisionClaim(u)
    <2>1. ASSUME u \notin overlapped PROVE Asked(u)'
        <3>1. Started(u)
            BY <1>2, <2>1 DEF ProvisionClaim, Flow, Stage, Started, Asked, Named, Requested,
               Issuing, Answered, Over, Settled, Stopped
        <3>2. requests'[u] = <<[type |-> "claim"]>>
            BY <1>2, <3>1 DEF ProvisionClaim, Started, Quiet
        <3> QED
            BY <1>2, <3>1, <3>2 DEF ProvisionClaim, Started, Asked, Quiet
    <2> QED
        BY <1>2, <2>1, FlowStep DEF ProvisionClaim, Stage
<1>3. CASE ReceiveClaimed(u)
    <2>1. ASSUME u \notin overlapped PROVE Requested(u)'
        <3>1. Named(u)
            BY <1>3, <2>1 DEF ReceiveClaimed, Flow, Stage, Started, Asked, Named, Requested,
               Issuing, Answered, Over, Settled, Stopped, Issued, Rejected
        <3>2. PICK n \in Names : responses[u] = <<Claimed(n)>>
            BY <3>1 DEF Named
        <3>3. Head(responses[u]).deviceId = n /\ Tail(responses[u]) = <<>>
            BY <3>2 DEF Claimed
        <3>4. requests'[u] = <<[type |-> "csr", deviceId |-> n, key |-> pendingKey'[u]]>>
            BY <1>3, <3>1, <3>3 DEF ReceiveClaimed, Named, Quiet
        <3> QED
            BY <1>3, <3>1, <3>3, <3>4 DEF ReceiveClaimed, Named, Requested, Quiet
    <2> QED
        BY <1>3, <2>1, FlowStep DEF ReceiveClaimed, Stage
<1>4. CASE ReceiveIssued(u)
    <2>1. ASSUME u \notin overlapped PROVE Settled(u)' \/ Stopped(u)'
        <3>0. responses[u] # <<>> /\ Head(responses[u]).type = "issued"
            BY <1>4 DEF ReceiveIssued
        <3>a. ~Named(u) /\ ~Over(u)
            BY <3>0 DEF Named, Over, Claimed, Rejected
        <3>1. Answered(u)
            BY <2>1, <3>0, <3>a DEF Flow, Stage, Started, Asked, Requested, Issuing, Settled,
               Stopped
        <3>2. PICK c \in certificates : /\ responses[u] = <<Issued(c)>> /\ c.key = pendingKey[u]
                                        /\ registry[u] \subseteq {c.deviceId}
            BY <3>1 DEF Answered
        <3>3. Head(responses[u]).cert = c
            BY <3>2 DEF Issued
        <3>4. CASE pendingKey[u] = 0
            BY <1>4, <3>4 DEF ReceiveIssued, Finish, Stopped
        <3>5. CASE pendingKey[u] # 0
            <4>1. identity'[u] = {[cert |-> c, key |-> pendingKey[u]]}
                BY <1>4, <3>3, <3>5 DEF ReceiveIssued
            <4>2. phase'[u] = "resolved" /\ responses'[u] = <<>> /\ Quiet(u)'
                BY <1>4, <3>1, <3>5 DEF ReceiveIssued, Finish, Answered, Quiet
            <4>3. certificates' = certificates /\ registry' = registry
                BY <1>4 DEF ReceiveIssued, Finish
            <4> QED
                BY <3>2, <4>1, <4>2, <4>3 DEF Settled
        <3> QED
            BY <3>4, <3>5
    <2>2. /\ \A v \in UUIDs \ {u} : /\ phase'[v] = phase[v] /\ responses'[v] = responses[v]
                                    /\ identity'[v] = identity[v]
          /\ responses'[u] = <<>>
          /\ UNCHANGED <<hubVars, requests, pendingKey, overlapped>>
        BY <1>4 DEF ReceiveIssued, Finish
    <2> QED
        BY <2>1, <2>2, FlowStep DEF Stage
<1>5. CASE ProvisionFail(u)
    <2>1. Stopped(u)'
        BY <1>5 DEF ProvisionFail, Finish, Stopped
    <2> QED
        BY <1>5, <2>1, FlowStep DEF ProvisionFail, Finish, Stage
<1> QED
    BY <1>1, <1>2, <1>3, <1>4, <1>5 DEF Board

\* An answer of the hub reaches the board it is for, or nobody.
LEMMA Reaches ==
    ASSUME TypeOK, NEW u \in UUIDs, NEW msg, Respond(u, msg)
    PROVE  /\ \A v \in UUIDs \ {u} : responses'[v] = responses[v]
           /\ Connected(u) => responses'[u] = Append(responses[u], msg)
           /\ ~Connected(u) => responses'[u] = responses[u]
BY DEF Respond, TypeOK

\* What the hub's handler does with a board's request moves the board on.
LEMMA HubFlow ==
    ASSUME FlowInv, TypeOK', NEW u \in UUIDs, Hub(u) PROVE Silent' /\ Flow'
<1> USE DEF FlowInv, TypeOK, boardVars, hubVars, IssuesOf
<1>0. /\ requests[u] # <<>> /\ requests' = [requests EXCEPT ![u] = Tail(@)]
      /\ UNCHANGED <<boardVars, overlapped>>
    BY DEF Hub, HandleClaim, RefuseClaim, HandleCsr, RefuseCsr, NextRequest
<1>1. u \notin overlapped => Asked(u) \/ Requested(u) \/ Stopped(u)
    BY <1>0 DEF Flow, Stage, Started, Asked, Named, Requested, Issuing, Answered, Over, Settled,
       Stopped, Quiet
<1>2. CASE HandleClaim(u)
    <2>1. PICK n \in Names :
              registry' = [registry EXCEPT ![u] = {n}] /\ Respond(u, Claimed(n))
        BY <1>2 DEF HandleClaim, FreeNames
    <2>2. Head(requests[u]).type = "claim"
        BY <1>2 DEF HandleClaim, NextRequest
    <2>3. UNCHANGED <<certificates, issues>>
        BY <1>2 DEF HandleClaim
    <2>4. ASSUME u \notin overlapped PROVE Named(u)' \/ Stopped(u)'
        <3>1. CASE Stopped(u)
            BY <1>0, <2>1, <3>1, Reaches DEF Stopped, Connected
        <3>2. CASE Asked(u)
            <4>1. responses'[u] = <<Claimed(n)>>
                BY <2>1, <3>2, Reaches DEF Asked, Connected
            <4>2. requests'[u] = <<>>
                BY <1>0, <3>2 DEF Asked
            <4> QED
                BY <1>0, <2>3, <3>2, <4>1, <4>2 DEF Asked, Named, Quiet
        <3> QED
            BY <1>1, <2>2, <2>4, <3>1, <3>2 DEF Requested
    <2>5. ~Connected(u)' => responses'[u] = <<>>
        BY <1>0, <2>1, Reaches DEF Silent, Connected
    <2>6. \A v \in UUIDs \ {u} : responses'[v] = responses[v] /\ registry'[v] = registry[v]
        BY <2>1, Reaches
    <2> QED
        BY <1>0, <2>3, <2>4, <2>5, <2>6, FlowStep DEF Stage
<1>3. CASE RefuseClaim(u) \/ RefuseCsr(u)
    <2>1. Respond(u, Rejected) /\ UNCHANGED hubVars
        BY <1>3 DEF RefuseClaim, RefuseCsr
    <2>2. ASSUME u \notin overlapped PROVE Over(u)' \/ Stopped(u)'
        <3>1. CASE Stopped(u)
            BY <1>0, <2>1, <3>1, Reaches DEF Stopped, Connected
        <3>2. CASE Asked(u) \/ Requested(u)
            <4>0. responses[u] = <<>> /\ Connected(u)
                BY <3>2 DEF Asked, Requested, Connected
            <4>1. responses'[u] = <<Rejected>>
                <5>1. responses'[u] = Append(responses[u], Rejected)
                    BY <2>1, <4>0, Reaches
                <5> QED
                    BY <4>0, <5>1
            <4>2. requests'[u] = <<>>
                <5>1. CASE Asked(u)
                    BY <1>0, <5>1 DEF Asked
                <5>2. CASE Requested(u)
                    BY <1>0, <5>2 DEF Requested
                <5> QED
                    BY <3>2, <5>1, <5>2
            <4> QED
                BY <1>0, <2>1, <3>2, <4>1, <4>2 DEF Asked, Requested, Over, Quiet
        <3> QED
            BY <1>1, <2>2, <3>1, <3>2
    <2>3. ~Connected(u)' => responses'[u] = <<>>
        BY <1>0, <2>1, Reaches DEF Silent, Connected
    <2>4. \A v \in UUIDs \ {u} : responses'[v] = responses[v]
        BY <2>1, Reaches
    <2> QED
        BY <1>0, <2>1, <2>2, <2>3, <2>4, FlowStep DEF Stage
<1>4. CASE HandleCsr(u)
    <2> DEFINE new == [serial |-> lastSerial', uuid |-> u,
                       deviceId |-> Head(requests[u]).deviceId, key |-> Head(requests[u]).key]
    <2>1. /\ issues' = issues \cup {new} /\ registry[u] = {new.deviceId}
          /\ UNCHANGED <<registry, certificates, responses>>
        BY <1>4 DEF HandleCsr, CsrAcceptable
    <2>2. \A v \in UUIDs \ {u} : IssuesOf(v)' = IssuesOf(v)
        BY <2>1
    <2>3. Head(requests[u]).type = "csr"
        BY <1>4 DEF HandleCsr, NextRequest
    <2>4. ASSUME u \notin overlapped PROVE Issuing(u)' \/ Stopped(u)'
        <3>1. CASE Stopped(u)
            BY <1>0, <2>1, <3>1 DEF Stopped
        <3>2. CASE Requested(u)
            <4>1. new.key = pendingKey[u] /\ requests'[u] = <<>>
                BY <1>0, <3>2 DEF Requested
            <4>2. IssuesOf(u)' = {new}
                BY <2>1, <3>2 DEF Requested
            <4>3. new \in issues' /\ registry'[u] \subseteq {new.deviceId}
                BY <2>1
            <4>4. phase'[u] = "claiming" /\ responses'[u] = <<>> /\ pendingKey'[u] = pendingKey[u]
                BY <1>0, <2>1, <3>2 DEF Requested
            <4> HIDE DEF new
            <4> QED
                BY <4>1, <4>2, <4>3, <4>4 DEF Issuing
        <3> QED
            BY <1>1, <2>3, <2>4, <3>1, <3>2 DEF Asked
    <2>5. ~Connected(u)' => responses'[u] = <<>>
        BY <1>0, <2>1 DEF Silent, Connected
    <2>6. \A v \in UUIDs \ {u} : requests'[v] = requests[v]
        BY <1>0
    <2>7. UNCHANGED <<registry, certificates, responses, phase, pendingKey, identity, overlapped>>
        BY <1>0, <2>1
    <2>8. u \notin overlapped' => Stage(u)'
        BY <2>4, <2>7 DEF Stage
    <2> HIDE DEF IssuesOf, TypeOK
    <2> QED
        BY <2>2, <2>5, <2>6, <2>7, <2>8, FlowStep
<1> QED
    BY <1>2, <1>3, <1>4 DEF Hub

\* The end of an issue moves its board on; the row another board held under the name may go.
LEMMA IssueFlow ==
    ASSUME FlowInv, TypeOK', NEW i \in issues, IssueDone(i) \/ IssueFails(i)
    PROVE  Silent' /\ Flow'
<1> DEFINE u == i.uuid
<1> USE DEF FlowInv, TypeOK, boardVars, historyVars, IssuesOf
<1>0. u \in UUIDs /\ issues' = issues \ {i} /\ UNCHANGED <<requests, boardVars, overlapped>>
    BY DEF Cert, IssueDone, IssueFails
<1>1. \A v \in UUIDs \ {u} : IssuesOf(v)' = IssuesOf(v)
    BY <1>0
<1>2. u \notin overlapped => Issuing(u) \/ Stopped(u)
    BY <1>0 DEF Flow, Stage, Started, Asked, Named, Requested, Issuing, Answered, Over, Settled,
       Stopped, Quiet
<1>3. ASSUME NEW msg, Respond(u, msg)
      PROVE  ~Connected(u)' => responses'[u] = <<>>
    BY <1>0, <1>3, Reaches DEF Silent, Connected
<1>4. ASSUME Issuing(u)
      PROVE  /\ Quiet(u)' /\ i.key = pendingKey[u] /\ registry[u] \subseteq {i.deviceId}
             /\ phase[u] = "claiming" /\ responses[u] = <<>>
    <2>1. PICK j \in issues : /\ IssuesOf(u) = {j} /\ j.key = pendingKey[u]
                              /\ registry[u] \subseteq {j.deviceId}
        BY <1>4 DEF Issuing
    <2>2. i = j /\ IssuesOf(u)' = {}
        BY <1>0, <2>1
    <2> QED
        BY <1>0, <1>4, <2>1, <2>2 DEF Issuing, Quiet
<1>5. ASSUME Respond(u, Rejected), certificates \subseteq certificates',
             \A v \in UUIDs \ {u} : registry'[v] \subseteq registry[v]
      PROVE  Silent' /\ Flow'
    <2>1. ASSUME u \notin overlapped PROVE Over(u)' \/ Stopped(u)'
        <3>1. CASE Stopped(u)
            BY <1>0, <1>5, <3>1, Reaches DEF Stopped, Connected
        <3>2. CASE Issuing(u)
            <4>1. responses'[u] = <<Rejected>>
                BY <1>0, <1>4, <1>5, <3>2, Reaches DEF Connected
            <4> QED
                BY <1>0, <1>4, <3>2, <4>1 DEF Over
        <3> QED
            BY <1>2, <2>1, <3>1, <3>2
    <2>2. \A v \in UUIDs \ {u} : responses'[v] = responses[v]
        BY <1>0, <1>5, Reaches
    <2> QED
        BY <1>0, <1>1, <1>3, <1>5, <2>1, <2>2, FlowStep DEF Stage
<1>6. CASE IssueFails(i)
    BY <1>5, <1>6 DEF IssueFails
<1>7. CASE IssueDone(i)
    <2>1. certificates' = certificates \cup {i}
        BY <1>7 DEF IssueDone, RecordIssuedCertificate
    <2>2. CASE UNCHANGED registry /\ Respond(u, Rejected)
        BY <1>5, <2>1, <2>2
    <2>3. CASE RegisterDevice(i) /\ Respond(u, Issued(i))
        <3>1. /\ \A v \in UUIDs \ {u} : registry'[v] \subseteq registry[v]
              /\ registry'[u] \subseteq registry[u] \cup {i.deviceId}
            BY <1>0, <2>3 DEF RegisterDevice
        <3>2. ASSUME u \notin overlapped PROVE Answered(u)' \/ Stopped(u)'
            <4>1. CASE Stopped(u)
                BY <1>0, <2>3, <4>1, Reaches DEF Stopped, Connected
            <4>2. CASE Issuing(u)
                <5>1. responses'[u] = <<Issued(i)>>
                    BY <1>0, <1>4, <2>3, <4>2, Reaches DEF Connected
                <5>2. i \in certificates' /\ registry'[u] \subseteq {i.deviceId}
                    BY <1>4, <2>1, <3>1, <4>2
                <5> QED
                    BY <1>0, <1>4, <4>2, <5>1, <5>2 DEF Answered
            <4> QED
                BY <1>2, <3>2, <4>1, <4>2
        <3>3. \A v \in UUIDs \ {u} : responses'[v] = responses[v]
            BY <1>0, <2>3, Reaches
        <3>4. certificates \subseteq certificates'
            BY <2>1
        <3>5. ~Connected(u)' => responses'[u] = <<>>
            BY <1>3, <2>3
        <3>6. u \notin overlapped' => Stage(u)'
            BY <1>0, <3>2 DEF Stage
        <3> HIDE DEF IssuesOf, TypeOK, u
        <3> QED
            BY <1>0, <1>1, <3>1, <3>3, <3>4, <3>5, <3>6, FlowStep
    <2> QED
        BY <1>7, <2>2, <2>3 DEF IssueDone
<1> QED
    BY <1>6, <1>7

\* A hub that dies takes messages and issues with it: nobody's row goes.
LEMMA RestartFlow == FlowInv /\ TypeOK' /\ HubRestart => Silent' /\ Flow'
<1> SUFFICES ASSUME FlowInv, TypeOK', HubRestart PROVE Silent' /\ Flow'
    OBVIOUS
<1> USE DEF FlowInv, TypeOK, HubRestart, boardVars, historyVars, IssuesOf
<1>1. Silent'
    BY DEF Silent, Connected
<1>2. ASSUME NEW u \in UUIDs \ overlapped PROVE Stage(u)'
    <2>1. Quiet(u)'
        BY DEF Quiet
    <2>2. CASE Asked(u) \/ Requested(u) \/ Issuing(u)
        BY <2>1, <2>2 DEF Asked, Requested, Issuing, Stage, Over
    <2>3. CASE Started(u) \/ Named(u) \/ Over(u) \/ Stopped(u)
        BY <2>1, <2>3 DEF Started, Named, Over, Stopped, Stage
    <2>4. CASE Answered(u)
        BY <2>1, <2>4 DEF Answered, Stage
    <2>5. CASE Settled(u)
        BY <2>1, <2>5 DEF Settled, Stage
    <2> QED
        BY <2>2, <2>3, <2>4, <2>5 DEF Flow, Stage
<1> QED
    BY <1>1, <1>2 DEF Flow

\* Every step keeps the boards at their stages.
LEMMA FlowInvStep == FlowInv /\ TypeOK' /\ [Next]_vars => FlowInv'
<1> SUFFICES ASSUME FlowInv, TypeOK', [Next]_vars PROVE Silent' /\ Flow'
    BY DEF FlowInv
<1>1. ASSUME NEW u \in UUIDs, Board(u) \/ Hub(u) PROVE Silent' /\ Flow'
    BY <1>1, BoardFlow, HubFlow
<1>2. ASSUME NEW u \in UUIDs, Admin(u) PROVE Silent' /\ Flow'
    <2>1. UNCHANGED <<phase, requests, responses, pendingKey, identity, issues, overlapped,
                      certificates>>
        BY <1>2 DEF Admin, DisableEntry, EnableEntry, DeleteEntry, DeleteEntryByDevice,
           Decommission, adminUnchanged, boardVars
    <2>2. \A v \in UUIDs : registry'[v] \subseteq registry[v]
        BY <1>2 DEF Admin, DisableEntry, EnableEntry, DeleteEntry, DeleteEntryByDevice,
           Decommission, FlowInv, TypeOK
    <2> QED
        BY <2>1, <2>2, FlowStays
<1>3. ASSUME NEW us \in SUBSET UUIDs, AddEntries(us) PROVE Silent' /\ Flow'
    BY <1>3, FlowStays DEF AddEntries, adminUnchanged, boardVars
<1>4. CASE UNCHANGED vars
    BY <1>4, FlowStays DEF vars, hubVars, boardVars, historyVars
<1> QED
    BY <1>1, <1>2, <1>3, <1>4, IssueFlow, RestartFlow DEF Next

\* The stages hold throughout.
LEMMA FlowInvariance == Spec => []FlowInv
<1>1. Init /\ TypeOK => FlowInv
    BY DEF Init, FlowInv, Silent, Flow, Stage, Stopped
<1> QED
    BY <1>1, FlowInvStep, TypeCorrect, PTL DEF Spec

\* A run that did not overlap an older one returns a certificate for the key it returns,
\* for any boards that provision, fail and are administered beside it (provisionDevice,
\* Provisioning!IdentityUsable).
THEOREM UsableTheorem == Spec => []IdentityUsable
<1>1. FlowInv => IdentityUsable
    BY DEF FlowInv, Flow, Stage, Started, Asked, Named, Requested, Issuing, Answered, Over,
       Settled, Stopped, IdentityUsable
<1> QED
    BY <1>1, FlowInvariance, PTL

\* The registry knows such a board by the name its certificate carries, or not at all
\* (mqtt.ts registerDevice, Provisioning!RegistryMatchesIdentity).
THEOREM MatchesTheorem == Spec => []RegistryMatchesIdentity
<1>1. FlowInv => RegistryMatchesIdentity
    BY DEF FlowInv, Flow, Stage, Started, Asked, Named, Requested, Issuing, Answered, Over,
       Settled, Stopped, RegistryMatchesIdentity
<1> QED
    BY <1>1, FlowInvariance, PTL

-----------------------------------------------------------------------------
(* What boards hold is recorded *)

\* A certificate on its way to a board has a row under its UUID, and so has one it holds.
Recorded ==
    /\ \A u \in UUIDs : \A k \in DOMAIN responses[u] :
           responses[u][k].type = "issued" => responses[u][k].cert \in CertsOf(u)
    /\ IdentityRecorded

\* A board that is answered holds or awaits only recorded certificates, if the answer is one.
LEMMA RespondRecorded ==
    ASSUME TypeOK, Recorded, NEW u \in UUIDs, NEW msg \in Response, Respond(u, msg),
           UNCHANGED identity, certificates \subseteq certificates',
           msg.type = "issued" => msg.cert \in CertsOf(u)'
    PROVE  Recorded'
<1> USE DEF Recorded, CertsOf, IdentityRecorded
<1>1. CASE responses' = responses
    BY <1>1
<1>2. CASE responses' = [responses EXCEPT ![u] = Append(@, msg)]
    <2>1. ASSUME NEW k \in DOMAIN responses'[u], responses'[u][k].type = "issued"
          PROVE  responses'[u][k].cert \in CertsOf(u)'
        <3>1. CASE k \in DOMAIN responses[u]
            <4>1. responses'[u][k] = responses[u][k]
                BY <1>2, <3>1 DEF TypeOK
            <4> QED
                BY <2>1, <3>1, <4>1
        <3>2. CASE k \notin DOMAIN responses[u]
            <4>1. responses'[u][k] = msg
                BY <1>2, <2>1, <3>2 DEF TypeOK
            <4> QED
                BY <2>1, <4>1
        <3> QED
            BY <3>1, <3>2
    <2>2. \A v \in UUIDs \ {u} : responses'[v] = responses[v]
        BY <1>2 DEF TypeOK
    <2> QED
        BY <2>1, <2>2
<1> QED
    BY <1>1, <1>2 DEF Respond

\* The k-th of the others is the next one of all.
LEMMA TailIndex ==
    ASSUME NEW S, NEW s \in Seq(S), s # <<>>, NEW k \in DOMAIN Tail(s)
    PROVE  k + 1 \in DOMAIN s /\ Tail(s)[k] = s[k + 1]
<1>1. Len(Tail(s)) = Len(s) - 1 /\ Len(s) \in Nat /\ Tail(s) \in Seq(S)
    OBVIOUS
<1>2. k \in 1..(Len(s) - 1)
    BY <1>1
<1> QED
    BY <1>1, <1>2

\* A board that drops messages, and takes at most the certificate of the first.
LEMMA ReceiveRecorded ==
    ASSUME TypeOK, Recorded, NEW u \in UUIDs, UNCHANGED certificates,
           \/ responses[u] # <<>> /\ responses' = [responses EXCEPT ![u] = Tail(@)]
           \/ responses' = [responses EXCEPT ![u] = <<>>],
           \/ UNCHANGED identity
           \/ /\ responses[u] # <<>> /\ Head(responses[u]).type = "issued"
              /\ identity' = [identity EXCEPT ![u] =
                     {[cert |-> Head(responses[u]).cert, key |-> pendingKey[u]]}]
    PROVE  Recorded'
<1> USE DEF Recorded, CertsOf
<1>1. ASSUME NEW k \in DOMAIN responses'[u], responses'[u][k].type = "issued"
      PROVE  responses'[u][k].cert \in CertsOf(u)'
    <2>1. CASE responses[u] # <<>> /\ responses' = [responses EXCEPT ![u] = Tail(@)]
        <3> DEFINE s == responses[u]
        <3>1. responses'[u] = Tail(s) /\ s \in Seq(Response) /\ s # <<>>
            BY <2>1 DEF TypeOK
        <3>2. k \in DOMAIN Tail(s)
            BY <3>1
        <3>3. k + 1 \in DOMAIN s /\ Tail(s)[k] = s[k + 1]
            <4> HIDE DEF s, Recorded
            <4> QED
                BY <3>1, <3>2, TailIndex
        <3> QED
            BY <1>1, <3>1, <3>3
    <2>2. CASE responses' = [responses EXCEPT ![u] = <<>>]
        BY <1>1, <2>2 DEF TypeOK
    <2> QED
        BY <2>1, <2>2
<1>2. \A v \in UUIDs \ {u} : responses'[v] = responses[v]
    BY DEF TypeOK
<1>3. ASSUME NEW v \in UUIDs, NEW id \in identity'[v] PROVE id.cert \in CertsOf(v)'
    <2>1. CASE id \in identity[v]
        BY <2>1 DEF IdentityRecorded
    <2>2. CASE id \notin identity[v]
        <3>1. /\ v = u /\ responses[u] # <<>> /\ Head(responses[u]).type = "issued"
              /\ id.cert = Head(responses[u]).cert
            BY <1>3, <2>2 DEF TypeOK
        <3>2. 1 \in DOMAIN responses[u] /\ Head(responses[u]) = responses[u][1]
            BY <3>1 DEF TypeOK
        <3> QED
            BY <3>1, <3>2
    <2> QED
        BY <2>1, <2>2
<1> QED
    BY <1>1, <1>2, <1>3 DEF IdentityRecorded

\* Every step keeps what boards hold recorded.
LEMMA RecordedStep == TypeOK /\ Recorded /\ [Next]_vars => Recorded'
<1> SUFFICES ASSUME TypeOK, Recorded, [Next]_vars PROVE Recorded'
    OBVIOUS
<1>1. ASSUME UNCHANGED <<responses, identity, certificates>> PROVE Recorded'
    BY <1>1 DEF Recorded, CertsOf, IdentityRecorded
<1>2. ASSUME NEW u \in UUIDs, Board(u) PROVE Recorded'
    <2>1. CASE ProvisionStart(u) \/ ProvisionClaim(u)
        BY <1>1, <2>1 DEF ProvisionStart, ProvisionClaim, hubVars
    <2>2. CASE ReceiveClaimed(u) \/ ReceiveIssued(u) \/ ProvisionFail(u)
        BY <2>2, ReceiveRecorded DEF ReceiveClaimed, ReceiveIssued, ProvisionFail, Finish, hubVars
    <2> QED
        BY <1>2, <2>1, <2>2 DEF Board
<1>3. ASSUME NEW u \in UUIDs, Hub(u) PROVE Recorded'
    <2>1. UNCHANGED <<identity, certificates>>
        BY <1>3 DEF Hub, HandleClaim, RefuseClaim, HandleCsr, RefuseCsr, NextRequest, boardVars,
           hubVars
    <2>2. CASE HandleCsr(u)
        BY <1>1, <2>1, <2>2 DEF HandleCsr
    <2>3. CASE RefuseClaim(u) \/ RefuseCsr(u)
        BY <2>1, <2>3, RespondRecorded, ResponseTypes DEF RefuseClaim, RefuseCsr, Rejected
    <2>4. CASE HandleClaim(u)
        <3>1. PICK n \in Names : Respond(u, Claimed(n))
            BY <2>4 DEF HandleClaim, FreeNames
        <3> QED
            BY <2>1, <3>1, RespondRecorded, ResponseTypes DEF Claimed
    <2> QED
        BY <1>3, <2>2, <2>3, <2>4 DEF Hub
<1>4. ASSUME NEW i \in issues, IssueDone(i) \/ IssueFails(i) PROVE Recorded'
    <2>1. i \in Cert /\ i.uuid \in UUIDs
        BY DEF TypeOK, Cert
    <2>2. UNCHANGED identity /\ certificates \subseteq certificates'
        BY <1>4 DEF IssueDone, IssueFails, RecordIssuedCertificate, boardVars
    <2>3. CASE Respond(i.uuid, Rejected)
        BY <2>1, <2>2, <2>3, RespondRecorded, ResponseTypes DEF Rejected
    <2>4. CASE IssueDone(i) /\ Respond(i.uuid, Issued(i))
        <3>1. i \in CertsOf(i.uuid)'
            BY <2>4 DEF IssueDone, RecordIssuedCertificate, CertsOf
        <3>2. Issued(i).cert = i
            BY DEF Issued
        <3> QED
            BY <2>1, <2>2, <2>4, <3>1, <3>2, RespondRecorded, ResponseTypes
    <2> QED
        BY <1>4, <2>3, <2>4 DEF IssueDone, IssueFails
<1>5. ASSUME NEW us \in SUBSET UUIDs, AddEntries(us) PROVE Recorded'
    BY <1>1, <1>5 DEF AddEntries, adminUnchanged, boardVars
<1>6. CASE HubRestart
    BY <1>1, <1>6 DEF HubRestart, boardVars
<1>7. ASSUME NEW u \in UUIDs, Admin(u) PROVE Recorded'
    BY <1>1, <1>7 DEF Admin, DisableEntry, EnableEntry, DeleteEntry, DeleteEntryByDevice,
       Decommission, adminUnchanged, boardVars
<1>8. CASE UNCHANGED vars
    BY <1>1, <1>8 DEF vars, hubVars, boardVars
<1> QED
    BY <1>2, <1>3, <1>4, <1>5, <1>6, <1>7, <1>8 DEF Next

\* Every certificate a board ever returns can be revoked: it has a row under the board's
\* UUID, whatever overlapped (certs.ts recordIssuedCertificate,
\* Provisioning!IdentityRecorded).
THEOREM RecordedTheorem == Spec => []IdentityRecorded
<1>1. Init => Recorded
    BY DEF Init, Recorded, IdentityRecorded
<1>2. Recorded => IdentityRecorded
    BY DEF Recorded
<1> QED
    BY <1>1, <1>2, RecordedStep, TypeCorrect, PTL DEF Spec
=============================================================================
