---------------------------- MODULE FleetRegistry ----------------------------
(***************************************************************************)
(* The device registry: boards, the roles they hold and the groups of      *)
(* those roles, how an identifier is resolved to a board, where a device's *)
(* message is filed and under which id a subscriber sees it                *)
(* (src/devices-store.ts, the device routes of src/index.ts, the broadcast *)
(* of services/application), and the dialogs of the device list that edit, *)
(* swap and decommission (ui/src/Pages/Overview.tsx).                      *)
(*                                                                         *)
(* A route runs in one synchronous handler; only a crash can come between  *)
(* its statements.  A name a claim assigns is eight random hex digits: a   *)
(* name given once is not given again.                                     *)
(***************************************************************************)
EXTENDS Naturals

CONSTANTS
    Boards,         \* hardware uuids
    Names,          \* device names a claim can assign
    Labels,         \* names the operator gives roles: some may be in Names
    Tags,           \* group names
    NoBoard, NoId

Ids == Boards \cup Names \cup Labels

ASSUME RegistryAssumption ==
    /\ NoBoard \notin Boards
    /\ NoId \notin Boards \cup Names \cup Labels
    /\ Boards \cap (Names \cup Labels) = {}

VARIABLES
    whitelist,      \* uuid_whitelist
    name,           \* devices: the name of a board, NoId when it has no row
    roleHolder,     \* device_roles: the board of a role
    tags,           \* device_groups: the groups of a role
    speaksAs,       \* the name a board publishes under
    used,           \* history: the names claims have assigned
    unowned,        \* history: roles tagged while no board held them
    strays,         \* history: rows filed under a board that did not send them
    dialog          \* the open dialog of one console

registryVars == <<whitelist, name, roleHolder, tags, speaksAs, used, unowned,
                  strays, dialog>>

Closed == [at |-> "closed", source |-> NoBoard, role |-> NoId, target |-> NoBoard,
           others |-> FALSE]

RegistryTypeOK ==
    /\ whitelist \subseteq Boards
    /\ name \in [Boards -> Names \cup {NoId}] /\ speaksAs \in [Boards -> Names \cup {NoId}]
    /\ used \subseteq Names
    /\ roleHolder \in [Labels -> Boards \cup {NoBoard}]
    /\ tags \in [Labels -> SUBSET Tags] /\ unowned \subseteq Labels
    /\ strays \subseteq [under : Boards, from : Boards, name : Names]
    /\ dialog \in [at : {"closed", "decommission", "swap", "swapped", "remove", "role", "groups"},
                   source : Boards \cup {NoBoard}, role : Labels \cup {NoId},
                   target : Boards \cup {NoBoard}, others : BOOLEAN]

RegistryInit ==
    /\ whitelist = Boards /\ used = {} /\ unowned = {} /\ strays = {}
    /\ name = [b \in Boards |-> NoId] /\ speaksAs = [b \in Boards |-> NoId]
    /\ roleHolder = [r \in Labels |-> NoBoard] /\ tags = [r \in Labels |-> {}]
    /\ dialog = Closed

-----------------------------------------------------------------------------
(* devices-store.ts *)

Held(r) == roleHolder[r] # NoBoard
RolesOf(b) == {r \in Labels : roleHolder[r] = b}
RoleOf(b) == IF RolesOf(b) = {} THEN NoId ELSE CHOOSE r \in RolesOf(b) : TRUE
Registered(b) == name[b] # NoId

\* resolveIdentifierToUuid: a role, else a device name, else a uuid as it stands.
Resolve(id) ==
    IF id \in Labels /\ roleHolder[id] # NoBoard THEN roleHolder[id]
    ELSE IF \E b \in Boards : name[b] = id THEN CHOOSE b \in Boards : name[b] = id
    ELSE IF id \in Boards THEN id ELSE NoBoard

\* Mutant: the device's own name comes first.
PublicIdByName(b) == IF Registered(b) THEN name[b] ELSE RoleOf(b)

\* resolvePublicIdFromUuid
PublicId(b) ==
    IF RoleOf(b) # NoId THEN RoleOf(b) ELSE IF Registered(b) THEN name[b] ELSE b

\* getDeviceGroups: only a registered device has any, through its role.
GroupsOf(b) == IF Registered(b) /\ RoleOf(b) # NoId THEN tags[RoleOf(b)] ELSE {}

\* setGroupsForRole replaces the groups of a role.
SetGroupsForRole(r, new) == tags' = [tags EXCEPT ![r] = new]

-----------------------------------------------------------------------------
(* The application service's broadcast *)

\* broadcastToSubscribers: the id under which a client that subscribed to these
\* devices and groups sees a message that arrived from the id, NoId if it does not.
Subscribed(devices, groups, id) ==
    \/ id \in devices
    \/ /\ Resolve(id) # NoBoard
       /\ \/ \E d \in devices : Resolve(d) = Resolve(id)
          \/ GroupsOf(Resolve(id)) \cap groups # {}

Shown(devices, groups, id) ==
    IF ~Subscribed(devices, groups, id) THEN NoId
    ELSE IF Resolve(id) # NoBoard THEN PublicId(Resolve(id)) ELSE id

-----------------------------------------------------------------------------
(* Devices *)

\* claimDeviceName: a fresh name replaces the one the board had.
ClaimDeviceName(b, n) ==
    /\ b \in whitelist /\ n \in Names \ used
    /\ name' = [name EXCEPT ![b] = n] /\ speaksAs' = [speaksAs EXCEPT ![b] = n]
    /\ used' = used \cup {n}
    /\ UNCHANGED <<whitelist, roleHolder, tags, unowned, strays, dialog>>

\* handleMqttMessage, telemetry: the row goes to the board the name resolves to.
\* device_events has a foreign key: a board without a row in devices gets none.
HandleTelemetry(b) ==
    LET under == Resolve(speaksAs[b])
    IN  /\ speaksAs[b] # NoId
        /\ IF under \notin {NoBoard, b} /\ Registered(under)
           THEN strays' = strays \cup {[under |-> under, from |-> b, name |-> speaksAs[b]]}
           ELSE UNCHANGED strays
        /\ UNCHANGED <<whitelist, name, roleHolder, tags, speaksAs, used, unowned, dialog>>

-----------------------------------------------------------------------------
(* The registry routes.  Meanwhile: another console changes one of the roles   *)
(* or boards an open dialog is about.                                          *)

Meanwhile(roles, boards) ==
    IF dialog.at \notin {"closed", "role", "groups"} /\ (dialog.role \in roles \/ {dialog.source, dialog.target} \cap boards # {})
    THEN dialog' = [dialog EXCEPT !.others = TRUE]
    ELSE UNCHANGED dialog

\* PUT /api/devices/:uuid/role, accepted.
MayHoldRole(b) == Registered(b) \/ b \in whitelist

\* Mutant: the groups of the role given up stay.
TakesRoleOnly(b, r) ==
    /\ roleHolder' = [x \in Labels |-> IF x = r THEN b
                                       ELSE IF roleHolder[x] = b THEN NoBoard ELSE roleHolder[x]]
    /\ UNCHANGED <<whitelist, name, tags, speaksAs, used, unowned, strays>>

TakesRole(b, r) ==
    LET previous == RoleOf(b)
        after == [x \in Labels |-> IF x = r THEN b
                                   ELSE IF roleHolder[x] = b THEN NoBoard ELSE roleHolder[x]]
        retired == IF previous \notin {NoId, r} /\ after[previous] = NoBoard
                   THEN {previous} ELSE {}
    IN  /\ roleHolder' = after
        /\ tags' = [x \in Labels |-> IF x \in retired THEN {} ELSE tags[x]]
        /\ unowned' = unowned \ (retired \cup {r})
        /\ UNCHANGED <<whitelist, name, speaksAs, used, strays>>

SetRole(b, r) ==
    /\ MayHoldRole(b)
    /\ TakesRole(b, r)
    /\ Meanwhile({r}, {b} \cup {roleHolder[x] : x \in {y \in Labels : y = r /\ Held(y)}})

\* PUT /api/devices/:uuid/groups: 409 for a device without a role.
SetDeviceGroups(b, new) ==
    /\ Registered(b) /\ RoleOf(b) # NoId
    /\ SetGroupsForRole(RoleOf(b), new)
    /\ UNCHANGED <<whitelist, name, roleHolder, speaksAs, used, unowned, strays, dialog>>

\* PUT /api/roles/:role/groups takes any role name, held or not.
SetRoleGroups(r, new) ==
    /\ SetGroupsForRole(r, new)
    /\ unowned' = IF Held(r) THEN unowned
                  ELSE IF new = {} THEN unowned \ {r} ELSE unowned \cup {r}
    /\ UNCHANGED <<whitelist, name, roleHolder, speaksAs, used, strays, dialog>>

\* DELETE /api/devices/:uuid, of which a crash may leave the first k statements:
\* events, role, groups of that role, the device.
Retire(b, k) ==
    LET role == RoleOf(b)
    IN  /\ strays' = IF k >= 1 THEN {s \in strays : s.under # b} ELSE strays
        /\ roleHolder' = IF k >= 2 THEN [r \in Labels |-> IF roleHolder[r] = b THEN NoBoard
                                                          ELSE roleHolder[r]]
                         ELSE roleHolder
        /\ tags' = IF k >= 3 /\ role # NoId THEN [tags EXCEPT ![role] = {}] ELSE tags
        /\ unowned' = IF k = 2 /\ role # NoId THEN unowned \cup {role} ELSE unowned
        /\ name' = IF k >= 4 THEN [name EXCEPT ![b] = NoId] ELSE name
        /\ UNCHANGED <<whitelist, speaksAs, used>>

Decommission(b) == Retire(b, 4) /\ Meanwhile({RoleOf(b)}, {b})

DecommissionCrashes(b) ==
    \E k \in 0..3 : Retire(b, k) /\ Meanwhile({RoleOf(b)}, {b})

\* DELETE and POST /api/admin/uuid-whitelist
ChangeWhitelist(b) ==
    /\ whitelist' = IF b \in whitelist THEN whitelist \ {b} ELSE whitelist \cup {b}
    /\ UNCHANGED <<name, roleHolder, tags, speaksAs, used, unowned, strays, dialog>>

-----------------------------------------------------------------------------
(* The dialogs of one console.  A dialog acts on the device as the list showed *)
(* it when it was opened.                                                      *)

DialogOnly ==
    UNCHANGED <<whitelist, name, roleHolder, tags, speaksAs, used, unowned, strays>>

HandleDeleteDevice(b) ==
    /\ dialog.at = "closed" /\ Registered(b)
    /\ dialog' = [Closed EXCEPT !.at = "decommission", !.source = b, !.role = RoleOf(b)]
    /\ DialogOnly

HandleSwapInstead ==
    /\ dialog.at = "decommission" /\ dialog.role # NoId
    /\ dialog' = [dialog EXCEPT !.at = "swap"]
    /\ DialogOnly

\* Mutant: a refusal is taken for a success.
DoSwapUnchecked(b) ==
    /\ dialog.at = "swap" /\ b # dialog.source
    /\ dialog' = [dialog EXCEPT !.at = "swapped", !.target = b]
    /\ IF MayHoldRole(b) THEN TakesRole(b, dialog.role) ELSE DialogOnly

\* doSwap: PUT role on the target.  A refusal leaves the dialog open.
DoSwap(b) ==
    /\ dialog.at = "swap" /\ b # dialog.source
    /\ IF MayHoldRole(b)
       THEN /\ TakesRole(b, dialog.role)
            /\ dialog' = [dialog EXCEPT !.at = "swapped", !.target = b]
       ELSE UNCHANGED dialog /\ DialogOnly

\* handleSwapped: refresh the list, then decommission the source as plain removal.
HandleSwapped ==
    /\ dialog.at = "swapped"
    /\ dialog' = [dialog EXCEPT !.at = "remove"]
    /\ DialogOnly

\* Removing the whitelist entry too, which the dialog offers, is ChangeWhitelist.
DoDecommission ==
    /\ dialog.at \in {"decommission", "remove"}
    /\ Retire(dialog.source, 4)
    /\ dialog' = Closed

HandleEditRole(b) ==
    /\ dialog.at = "closed" /\ Registered(b)
    /\ dialog' = [Closed EXCEPT !.at = "role", !.source = b, !.role = RoleOf(b)]
    /\ DialogOnly

HandleEditGroups(b) ==
    /\ dialog.at = "closed" /\ Registered(b)
    /\ dialog' = [Closed EXCEPT !.at = "groups", !.source = b]
    /\ DialogOnly

\* A refusal closes the editor like a success.  A role that the list showed on
\* another device is confirmed first; declined, the editor stays.
HandleSaveRole(r) ==
    /\ dialog.at = "role" /\ r # dialog.role
    /\ IF MayHoldRole(dialog.source) THEN TakesRole(dialog.source, r) ELSE DialogOnly
    /\ dialog' = Closed

\* 409 keeps the editor open.
HandleSaveGroups(new) ==
    /\ dialog.at = "groups"
    /\ IF Registered(dialog.source) /\ RoleOf(dialog.source) # NoId
       THEN SetGroupsForRole(RoleOf(dialog.source), new) /\ dialog' = Closed
       ELSE UNCHANGED <<tags, dialog>>
    /\ UNCHANGED <<whitelist, name, roleHolder, speaksAs, used, unowned, strays>>

CloseDialog ==
    /\ dialog.at \in {"decommission", "swap", "role", "groups"}
    /\ dialog' = Closed
    /\ DialogOnly

-----------------------------------------------------------------------------
RegistryNext ==
    \/ \E b \in Boards, n \in Names : ClaimDeviceName(b, n)
    \/ \E b \in Boards : \/ HandleTelemetry(b)
                         \/ Decommission(b)
                         \/ DecommissionCrashes(b)
                         \/ ChangeWhitelist(b)
                         \/ HandleDeleteDevice(b)
                         \/ HandleEditRole(b)
                         \/ HandleEditGroups(b)
                         \/ DoSwap(b)
    \/ \E r \in Labels \cup {NoId} : HandleSaveRole(r) \/ \E b \in Boards : SetRole(b, r)
    \/ \E new \in SUBSET Tags : HandleSaveGroups(new) \/ \E b \in Boards : SetDeviceGroups(b, new)
    \/ \E r \in Labels, new \in SUBSET Tags : SetRoleGroups(r, new)
    \/ HandleSwapInstead \/ HandleSwapped \/ DoDecommission \/ CloseDialog

RegistrySpec == RegistryInit /\ [][RegistryNext]_registryVars

-----------------------------------------------------------------------------
(* Properties *)

\* A role that no board holds keeps no groups, so that the board which gets it
\* next does not inherit the last owner's; only groups put on the role while
\* nobody held it, and those a decommission cut by a crash left, are there
\* (PUT role and DELETE device of src/index.ts).
RetiredMeansUntagged ==
    \A r \in Labels \ unowned : ~Held(r) => tags[r] = {}

\* A row of a board's history is one it sent, unless the sender's name is also
\* a role (resolveIdentifierToUuid tries roles first).
StraysAreNamesakes == \A s \in strays : s.name \in Labels

\* A client subscribed to a role hears the registered board that holds it, under
\* the role's name, whichever board that is by now, and so does a client of one of
\* the role's groups; a client of a group hears no board outside it
\* (broadcastToSubscribers).  A board whose own name is somebody's role is excepted.
SwapIsInvisible ==
    \A r \in Labels : LET b == roleHolder[r] IN
        Held(r) /\ Registered(b) /\ (name[b] \in Labels => ~Held(name[b])) =>
            /\ Shown({r}, {}, name[b]) = r
            /\ \A g \in Tags : Shown({}, {g}, name[b]) = IF g \in tags[r] THEN r ELSE NoId

\* What a board sends is filed under it and shown as its role's, however roles, names
\* and boards were exchanged since.
MessagesFollowRoles == StraysAreNamesakes /\ SwapIsInvisible

\* When the removal after a swap runs, the role is on the replacement and the old
\* board holds none, so the removal retires no identity, as long as no other
\* console touched either (handleSwapped of Overview.tsx).
RemovalIsPlain ==
    dialog.at \in {"swapped", "remove"} /\ ~dialog.others
        => roleHolder[dialog.role] = dialog.target /\ RolesOf(dialog.source) = {}
=============================================================================
