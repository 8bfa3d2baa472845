---------------------------- MODULE Provisioning ----------------------------
(***************************************************************************)
(* The fleet-provisioning exchange and the admin operations that race it.  *)
(*                                                                         *)
(* A board connects to the broker under its hardware UUID, claims a name   *)
(* (round 1, answered synchronously by the hub) and submits a CSR for that *)
(* name (round 2, answered only after several openssl child processes).    *)
(* The hub is one Node.js process: everything between two awaits is one    *)
(* step, and the admin's REST handlers run in the gaps.  The broker is     *)
(* external: it keeps one connection per client id (the UUID), delivers in *)
(* order, and drops what is published to a board that is not connected.    *)
(*                                                                         *)
(* Abstractions: a key pair is a number, a certificate is the number       *)
(* openssl gives it (serials are taken to be distinct), and the awaits of  *)
(* issueDeviceCertFromCSR, which share no state with the hub, are one      *)
(* interval during which the issue is in flight.  Writes to the database   *)
(* are taken to succeed.                                                   *)
(***************************************************************************)
EXTENDS Naturals, Sequences, FiniteSets

CONSTANTS
    UUIDs,              \* hardware identities of boards
    Names,              \* the values generateRandomDeviceName can return
    EnforceWhitelist,   \* config.ts ENFORCE_WHITELIST
    MaxRuns             \* bound: calls of provisionDevice, over all boards

ASSUME EnforceAssumption == EnforceWhitelist \in BOOLEAN
ASSUME RunsAssumption == MaxRuns \in Nat

VARIABLES
    \* devicehub.db, which survives a restart of the hub
    whitelist,      \* uuid_whitelist: absent, enabled or disabled (disabled_at)
    registry,       \* devices: the name of the row of each UUID, {} without a row
    certificates,   \* certificates: the rows, without revoked_at
    revoked,        \* serials of the rows whose revoked_at is set
    \* memory of the hub process
    issues,         \* issueDeviceCertFromCSR calls that have not returned
    lastSerial,     \* ca.srl: the serial of the newest issue
    \* the broker, and provisionDevice on each board
    requests,       \* messages to the hub on <uuid>/provision/request
    responses,      \* messages to the board on accepted and rejected
    phase,          \* the board's current or last run of provisionDevice
    pendingKey,     \* pendingKeyPem, 0 for null
    identity,       \* what the last successful run returned, {} before it
    lastKey,        \* the newest key pair
    runs,           \* runs started so far
    \* history, read by properties only
    escaped,        \* certificates an admin's revocation could not reach
    overlapped,     \* boards whose run began before the hub was done with the last
    retired         \* boards decommissioned with no issue in flight

hubVars == <<whitelist, registry, certificates, revoked, issues, lastSerial>>
boardVars == <<phase, pendingKey, identity, lastKey, runs>>
historyVars == <<escaped, overlapped, retired>>
vars == <<hubVars, requests, responses, boardVars, historyVars>>

Cert == [serial : Nat, uuid : UUIDs, deviceId : Names, key : Nat]

Request == [type : {"claim"}] \cup [type : {"csr"}, deviceId : Names, key : Nat]

Response == [type : {"rejected"}]
            \cup [type : {"claimed"}, deviceId : Names]
            \cup [type : {"issued"}, cert : Cert]

Identity == [cert : Cert, key : Nat]

Phases == {"idle", "subscribed", "claiming", "resolved", "failed"}

TypeOK ==
    /\ whitelist \in [UUIDs -> {"absent", "enabled", "disabled"}]
    /\ registry \in [UUIDs -> SUBSET Names]
    /\ certificates \subseteq Cert
    /\ revoked \subseteq Nat
    /\ issues \subseteq Cert
    /\ lastSerial \in Nat
    /\ requests \in [UUIDs -> Seq(Request)]
    /\ responses \in [UUIDs -> Seq(Response)]
    /\ phase \in [UUIDs -> Phases]
    /\ pendingKey \in [UUIDs -> Nat]
    /\ identity \in [UUIDs -> SUBSET Identity]
    /\ lastKey \in Nat
    /\ runs \in Nat
    /\ escaped \subseteq Nat
    /\ overlapped \subseteq UUIDs
    /\ retired \subseteq UUIDs

Init ==
    /\ whitelist = [u \in UUIDs |-> "absent"]
    /\ registry = [u \in UUIDs |-> {}]
    /\ certificates = {}
    /\ revoked = {}
    /\ issues = {}
    /\ lastSerial = 0
    /\ requests = [u \in UUIDs |-> <<>>]
    /\ responses = [u \in UUIDs |-> <<>>]
    /\ phase = [u \in UUIDs |-> "idle"]
    /\ pendingKey = [u \in UUIDs |-> 0]
    /\ identity = [u \in UUIDs |-> {}]
    /\ lastKey = 0
    /\ runs = 0
    /\ escaped = {}
    /\ overlapped = {}
    /\ retired = {}

-----------------------------------------------------------------------------
Connected(u) == phase[u] \in {"subscribed", "claiming"}

\* The issues in flight and the rows of one UUID.
IssuesOf(u) == {i \in issues : i.uuid = u}
CertsOf(u) == {c \in certificates : c.uuid = u}
Serials(certs) == {c.serial : c \in certs}

\* The hub has nothing left to do for the board.
Quiet(u) == requests[u] = <<>> /\ IssuesOf(u) = {}

\* The broker delivers to a live subscription only: sessions are clean.
Respond(u, msg) ==
    responses' = IF Connected(u)
                 THEN [responses EXCEPT ![u] = Append(@, msg)]
                 ELSE responses

Rejected == [type |-> "rejected"]
Claimed(n) == [type |-> "claimed", deviceId |-> n]
Issued(c) == [type |-> "issued", cert |-> c]

-----------------------------------------------------------------------------
(* provisionDevice on the board *)

\* connect with the UUID as client id, subscribe.  The broker ends an older
\* session of the same id; what that session had published is already queued.
ProvisionStart(u) ==
    /\ ~Connected(u)
    /\ runs < MaxRuns
    /\ runs' = runs + 1
    /\ phase' = [phase EXCEPT ![u] = "subscribed"]
    /\ pendingKey' = [pendingKey EXCEPT ![u] = 0]
    /\ overlapped' = IF Quiet(u) THEN overlapped \ {u} ELSE overlapped \cup {u}
    /\ UNCHANGED <<hubVars, requests, responses, identity, lastKey, escaped, retired>>

\* the subscribe callback publishes the claim
ProvisionClaim(u) ==
    /\ phase[u] = "subscribed"
    /\ phase' = [phase EXCEPT ![u] = "claiming"]
    /\ requests' = [requests EXCEPT ![u] = Append(@, [type |-> "claim"])]
    /\ UNCHANGED <<hubVars, responses, pendingKey, identity, lastKey, runs, historyVars>>

\* finish: the run settles, the client ends, undelivered messages are dropped
Finish(u, outcome) ==
    /\ phase' = [phase EXCEPT ![u] = outcome]
    /\ responses' = [responses EXCEPT ![u] = <<>>]
    /\ UNCHANGED <<hubVars, lastKey, runs, historyVars>>

\* Mutant: the CSR and the stored key come from two key generations.
ReceiveClaimedTwoKeys(u) ==
    /\ Connected(u) /\ responses[u] # <<>> /\ Head(responses[u]).type = "claimed"
    /\ lastKey' = lastKey + 2
    /\ pendingKey' = [pendingKey EXCEPT ![u] = lastKey + 1]
    /\ requests' = [requests EXCEPT ![u] = Append(@,
           [type |-> "csr", deviceId |-> Head(responses[u]).deviceId, key |-> lastKey'])]
    /\ responses' = [responses EXCEPT ![u] = Tail(@)]
    /\ UNCHANGED <<hubVars, phase, identity, runs, historyVars>>

\* a name was assigned: new key pair, CSR for that name
ReceiveClaimed(u) ==
    /\ Connected(u) /\ responses[u] # <<>> /\ Head(responses[u]).type = "claimed"
    /\ lastKey' = lastKey + 1
    /\ pendingKey' = [pendingKey EXCEPT ![u] = lastKey']
    /\ requests' = [requests EXCEPT ![u] = Append(@,
           [type |-> "csr", deviceId |-> Head(responses[u]).deviceId, key |-> lastKey'])]
    /\ responses' = [responses EXCEPT ![u] = Tail(@)]
    /\ UNCHANGED <<hubVars, phase, identity, runs, historyVars>>

\* a certificate: an error without a pending key, the result otherwise
ReceiveIssued(u) ==
    /\ Connected(u) /\ responses[u] # <<>> /\ Head(responses[u]).type = "issued"
    /\ IF pendingKey[u] = 0
       THEN Finish(u, "failed") /\ UNCHANGED identity
       ELSE /\ Finish(u, "resolved")
            /\ identity' = [identity EXCEPT ![u] =
                   {[cert |-> Head(responses[u]).cert, key |-> pendingKey[u]]}]
    /\ UNCHANGED <<requests, pendingKey>>

\* a rejection, the timeout, a client error, or the end of the board's process
ProvisionFail(u) ==
    /\ Connected(u)
    /\ Finish(u, "failed")
    /\ UNCHANGED <<requests, pendingKey, identity>>

-----------------------------------------------------------------------------
(* The hub's handler of provision/request *)

\* Mutant: disabled_at is not looked at.
CheckUuidExists(u) == EnforceWhitelist => whitelist[u] # "absent"

CheckUuid(u) == EnforceWhitelist => whitelist[u] = "enabled"

\* Mutant: no unique index on devices(name).
AllNames(u) == Names

\* names a claim may take: the unique index refuses one held by another row
FreeNames(u) == Names \ UNION {registry[v] : v \in UUIDs \ {u}}

NextRequest(u, type) ==
    /\ requests[u] # <<>>
    /\ Head(requests[u]).type = type
    /\ requests' = [requests EXCEPT ![u] = Tail(@)]
    /\ UNCHANGED <<boardVars, overlapped>>

\* Round 1: claimDeviceName upserts the row with a random free name.
HandleClaim(u) ==
    /\ NextRequest(u, "claim")
    /\ CheckUuid(u)
    /\ \E n \in FreeNames(u) :
           /\ registry' = [registry EXCEPT ![u] = {n}]
           /\ Respond(u, Claimed(n))
    /\ retired' = retired \ {u}
    /\ UNCHANGED <<whitelist, certificates, revoked, issues, lastSerial, escaped>>

\* Round 1 refused: not whitelisted, or twenty candidates all collided.
RefuseClaim(u) ==
    /\ NextRequest(u, "claim")
    /\ ~CheckUuid(u) \/ FreeNames(u) # Names
    /\ Respond(u, Rejected)
    /\ UNCHANGED <<hubVars, escaped, retired>>

\* Mutant: the row is not read back in round 2.
CsrAcceptableUnread(u, req) == CheckUuid(u)

\* Round 2: the CSR must be for the name the row holds; the issue starts.
CsrAcceptable(u, req) == CheckUuid(u) /\ registry[u] = {req.deviceId}

HandleCsr(u) ==
    /\ NextRequest(u, "csr")
    /\ CsrAcceptable(u, Head(requests[u]))
    /\ lastSerial' = lastSerial + 1
    /\ issues' = issues \cup
           {[serial |-> lastSerial', uuid |-> u,
             deviceId |-> Head(requests[u]).deviceId, key |-> Head(requests[u]).key]}
    /\ UNCHANGED <<whitelist, registry, certificates, revoked, responses, escaped, retired>>

RefuseCsr(u) ==
    /\ NextRequest(u, "csr")
    /\ ~CsrAcceptable(u, Head(requests[u]))
    /\ Respond(u, Rejected)
    /\ UNCHANGED <<hubVars, escaped, retired>>

-----------------------------------------------------------------------------
(* The end of issueDeviceCertFromCSR and the continuation of its promise *)

\* Mutant: the row is not written (no serial was parsed).
RecordNothing(i) == UNCHANGED <<certificates, revoked>>

\* INSERT OR REPLACE with revoked_at NULL
RecordIssuedCertificate(i) ==
    /\ certificates' = certificates \cup {i}
    /\ revoked' = revoked \ {i.serial}

\* Mutant: the name is sanitised into another one.
RegisterDeviceRenamed(i) ==
    \E n \in FreeNames(i.uuid) : registry' = [registry EXCEPT ![i.uuid] = {n}]

\* Mutant: the device is registered under its UUID.
RegisterDeviceByUuid(i) == registry' = [registry EXCEPT ![i.uuid] = {i.uuid}]

\* registerDevice: INSERT OR REPLACE also deletes the row another UUID has
\* under the name, and fails (a warning) when that row has device_events.
RegisterDevice(i) ==
    LET holders == {v \in UUIDs \ {i.uuid} : i.deviceId \in registry[v]}
    IN  \/ registry' = [v \in UUIDs |-> IF v = i.uuid THEN {i.deviceId}
                                        ELSE IF v \in holders THEN {} ELSE registry[v]]
        \/ holders # {} /\ UNCHANGED registry

IssueDone(i) ==
    /\ i \in issues
    /\ issues' = issues \ {i}
    /\ RecordIssuedCertificate(i)
    /\ IF EnforceWhitelist /\ whitelist[i.uuid] = "absent"     \* markUsed fails
       THEN Respond(i.uuid, Rejected) /\ UNCHANGED registry
       ELSE RegisterDevice(i) /\ Respond(i.uuid, Issued(i))
    /\ UNCHANGED <<whitelist, lastSerial, requests, boardVars, historyVars>>

\* openssl failed, or no CA: issue_failed
IssueFails(i) ==
    /\ i \in issues
    /\ issues' = issues \ {i}
    /\ Respond(i.uuid, Rejected)
    /\ UNCHANGED <<whitelist, registry, certificates, revoked, lastSerial,
                   requests, boardVars, historyVars>>

\* The process dies: issues in flight and undelivered requests are gone.
HubRestart ==
    /\ issues' = {}
    /\ requests' = [u \in UUIDs |-> <<>>]
    /\ UNCHANGED <<whitelist, registry, certificates, revoked, lastSerial,
                   responses, boardVars, historyVars>>

-----------------------------------------------------------------------------
(* The admin's routes *)

adminUnchanged == <<issues, lastSerial, requests, responses, boardVars, overlapped>>

\* POST uuid-whitelist and uuid-whitelist/batch: existing entries are skipped
AddEntries(us) ==
    /\ whitelist' = [u \in UUIDs |-> IF u \in us /\ whitelist[u] = "absent"
                                     THEN "enabled" ELSE whitelist[u]]
    /\ UNCHANGED <<registry, certificates, revoked, adminUnchanged, escaped, retired>>

\* revokeCertificatesForUuid, which runs before the handler's first await
RevokeCertificatesForUuid(u) ==
    /\ revoked' = revoked \cup Serials(CertsOf(u))
    /\ escaped' = escaped \cup Serials(IssuesOf(u))

\* PATCH uuid-whitelist/:uuid {disabled: true}
DisableEntry(u) ==
    /\ whitelist[u] # "absent"
    /\ whitelist' = [whitelist EXCEPT ![u] = "disabled"]
    /\ RevokeCertificatesForUuid(u)
    /\ UNCHANGED <<registry, certificates, adminUnchanged, retired>>

\* Mutant: re-enabling clears revoked_at.
EnableEntryUnrevokes(u) ==
    /\ whitelist[u] # "absent"
    /\ whitelist' = [whitelist EXCEPT ![u] = "enabled"]
    /\ revoked' = revoked \ Serials(CertsOf(u))
    /\ UNCHANGED <<registry, certificates, adminUnchanged, escaped, retired>>

\* PATCH uuid-whitelist/:uuid {disabled: false}
EnableEntry(u) ==
    /\ whitelist[u] # "absent"
    /\ whitelist' = [whitelist EXCEPT ![u] = "enabled"]
    /\ UNCHANGED <<registry, certificates, revoked, adminUnchanged, escaped, retired>>

\* DELETE uuid-whitelist/:uuid
DeleteEntry(u) ==
    /\ whitelist[u] # "absent"
    /\ whitelist' = [whitelist EXCEPT ![u] = "absent"]
    /\ RevokeCertificatesForUuid(u)
    /\ UNCHANGED <<registry, certificates, adminUnchanged, retired>>

\* DELETE uuid-whitelist/by-device/:deviceId, called with the UUID: nothing
\* is revoked
DeleteEntryByDevice(u) ==
    /\ whitelist[u] # "absent"
    /\ whitelist' = [whitelist EXCEPT ![u] = "absent"]
    /\ escaped' = escaped \cup Serials(IssuesOf(u))
                          \cup (Serials(CertsOf(u)) \ revoked)
    /\ UNCHANGED <<registry, certificates, revoked, adminUnchanged, retired>>

\* DELETE /api/devices/:uuid
Decommission(u) ==
    /\ registry[u] # {}
    /\ registry' = [registry EXCEPT ![u] = {}]
    /\ retired' = IF IssuesOf(u) = {} THEN retired \cup {u} ELSE retired
    /\ UNCHANGED <<whitelist, certificates, revoked, adminUnchanged, escaped>>

-----------------------------------------------------------------------------
Board(u) ==
    \/ ProvisionStart(u) \/ ProvisionClaim(u)
    \/ ReceiveClaimed(u) \/ ReceiveIssued(u) \/ ProvisionFail(u)

Hub(u) == HandleClaim(u) \/ RefuseClaim(u) \/ HandleCsr(u) \/ RefuseCsr(u)

Admin(u) ==
    \/ DisableEntry(u) \/ EnableEntry(u)
    \/ DeleteEntry(u) \/ DeleteEntryByDevice(u) \/ Decommission(u)

Next ==
    \/ \E u \in UUIDs : Board(u) \/ Hub(u) \/ Admin(u)
    \/ \E i \in issues : IssueDone(i) \/ IssueFails(i)
    \/ \E us \in SUBSET UUIDs : AddEntries(us)
    \/ HubRestart

Spec == Init /\ [][Next]_vars

-----------------------------------------------------------------------------
(* Properties *)

\* No two rows of the registry share a name, whatever order claims, late
\* registrations and decommissions come in (devices-store.ts: idx_devices_name).
NamesUnique ==
    \A u, v \in UUIDs : u # v => registry[u] \cap registry[v] = {}

\* The kill switch.  A certificate of a UUID that is disabled or removed is
\* revoked, with exactly two ways out: its issue was in flight when the switch
\* was thrown, or the entry went through the by-device route
\* (index.ts revokeAndPublishCRL, mqtt.ts checkUuid before the issue starts).
KillSwitch ==
    EnforceWhitelist =>
        \A c \in certificates :
            whitelist[c.uuid] # "enabled" => c.serial \in revoked \cup escaped

\* A revoked certificate stays revoked: neither re-enabling its UUID nor
\* reprovisioning brings it back (index.ts, PATCH uuid-whitelist).
RevocationPermanent == [][revoked \subseteq revoked']_vars

\* A decommissioned device stays out of the registry until its board claims
\* again, unless an issue was in flight when it was decommissioned.
DecommissionHolds == \A u \in retired : registry[u] = {}

\* A run that did not overlap an older one returns a certificate made for the
\* key it returns (device-client.ts pendingKeyPem).
IdentityUsable ==
    \A u \in UUIDs \ overlapped : phase[u] = "resolved" =>
        \A id \in identity[u] : id.cert.key = id.key

\* Once the hub is done with such a run, the registry knows the board by the
\* name its certificate carries, or has no row for it.
RegistryMatchesIdentity ==
    \A u \in UUIDs \ overlapped : phase[u] = "resolved" /\ Quiet(u) =>
        \A id \in identity[u] : registry[u] \subseteq {id.cert.deviceId}

\* What a returned certificate can be revoked by: its row, under the UUID of
\* the board that holds it (certs.ts recordIssuedCertificate).
IdentityRecorded ==
    \A u \in UUIDs : \A id \in identity[u] : id.cert \in CertsOf(u)

-----------------------------------------------------------------------------
(* What comments of the repository say and the code does not keep *)

\* "Disabling also revokes every certificate ever issued for this UUID"
\* (index.ts, PATCH uuid-whitelist): an issue in flight is recorded afterwards.
DisabledMeansRevoked ==
    \A c \in certificates : whitelist[c.uuid] = "disabled" => c.serial \in revoked

\* "Removing the entry entirely is at least as strong a signal as disabling
\* it" (index.ts, DELETE uuid-whitelist/:uuid), read of the certificates
\* boards hold: the by-device route removes the entry and revokes nothing.
RemovedMeansRevoked ==
    \A u \in UUIDs : whitelist[u] = "absent" =>
        \A id \in identity[u] : id.cert.serial \in revoked

\* "one claim in flight at a time" (whitelist-store.ts, markUsed) and "each
\* claim a fresh start" (mqtt.ts): with that guarantee the registry ends up
\* with the name of the newest run.  The end of an older connection does not
\* end the issue it started, which registers its name whenever it is done.
LastClaimWins ==
    \A u \in UUIDs : phase[u] = "resolved" /\ Quiet(u) =>
        \A id \in identity[u] : registry[u] \subseteq {id.cert.deviceId}
=============================================================================
