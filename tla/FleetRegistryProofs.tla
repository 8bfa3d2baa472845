------------------------- MODULE FleetRegistryProofs -------------------------
(***************************************************************************)
(* Theorems about FleetRegistry, for any boards, names, roles and groups:  *)
(* retired roles keep no groups, messages follow the roles, and a removal  *)
(* after a swap retires no identity.                                       *)
(***************************************************************************)
EXTENDS FleetRegistry, TLAPS

\* device_roles.uuid is UNIQUE: a board holds at most one role.
OneRole == \A r, s \in Labels : Held(r) /\ roleHolder[r] = roleHolder[s] => r = s

\* A board publishes under the name it is registered with, and no two share one.
OwnNames ==
    /\ \A b \in Boards : Registered(b) => speaksAs[b] = name[b]
    /\ \A b, c \in Boards : speaksAs[b] # NoId /\ speaksAs[b] = speaksAs[c] => b = c
    /\ \A b \in Boards : speaksAs[b] # NoId => speaksAs[b] \in used

\* What an open dialog knows.
DialogShape ==
    /\ dialog.at # "closed" => dialog.source \in Boards
    /\ dialog.at \in {"swap", "swapped", "remove"} => dialog.role \in Labels
    /\ dialog.at \in {"swapped", "remove"}
          => dialog.target \in Boards /\ dialog.target # dialog.source

\* The role the dialog would move is still on its device.
SourceHolds ==
    dialog.at \in {"decommission", "swap"} /\ ~dialog.others /\ dialog.role # NoId
        => roleHolder[dialog.role] = dialog.source

DialogInv == DialogShape /\ SourceHolds /\ RemovalIsPlain

RegistryInv ==
    /\ RegistryTypeOK /\ OneRole /\ OwnNames /\ DialogInv
    /\ RetiredMeansUntagged /\ StraysAreNamesakes

Dialogs == [at : {"closed", "decommission", "swap", "swapped", "remove", "role", "groups"},
            source : Boards \cup {NoBoard}, role : Labels \cup {NoId},
            target : Boards \cup {NoBoard}, others : BOOLEAN]

\* What RoleOf returns.
LEMMA RoleOfBoard ==
    ASSUME RegistryTypeOK, OneRole, NEW b \in Boards
    PROVE  /\ RoleOf(b) \in Labels \cup {NoId}
           /\ RoleOf(b) # NoId => roleHolder[RoleOf(b)] = b
           /\ \A r \in Labels : roleHolder[r] = b => RoleOf(b) = r
<1>1. CASE RolesOf(b) = {}
    BY <1>1, RegistryAssumption DEF RoleOf, RolesOf
<1>2. CASE RolesOf(b) # {}
    <2>1. RoleOf(b) \in RolesOf(b)
        BY <1>2 DEF RoleOf
    <2>2. \A r \in Labels : roleHolder[r] = b => r = RoleOf(b)
        BY <2>1, RegistryAssumption DEF RolesOf, OneRole, Held
    <2> QED
        BY <2>1, <2>2 DEF RolesOf
<1> QED
    BY <1>1, <1>2

\* A board that takes a role gives up its own, whose groups go.
LEMMA TakesRoleKeeps ==
    ASSUME RegistryTypeOK, OneRole, RetiredMeansUntagged,
           NEW b \in Boards, NEW r \in Labels \cup {NoId}, TakesRole(b, r)
    PROVE  /\ roleHolder' = [x \in Labels |-> IF x = r THEN b
                                 ELSE IF roleHolder[x] = b THEN NoBoard ELSE roleHolder[x]]
           /\ roleHolder' \in [Labels -> Boards \cup {NoBoard}]
           /\ tags' \in [Labels -> SUBSET Tags] /\ unowned' \subseteq Labels
           /\ OneRole' /\ RetiredMeansUntagged'
<1> DEFINE after == [x \in Labels |-> IF x = r THEN b
                                 ELSE IF roleHolder[x] = b THEN NoBoard ELSE roleHolder[x]]
           retired == IF RoleOf(b) \notin {NoId, r} /\ after[RoleOf(b)] = NoBoard
                      THEN {RoleOf(b)} ELSE {}
<1>1. roleHolder' = after /\ tags' = [x \in Labels |-> IF x \in retired THEN {} ELSE tags[x]]
      /\ unowned' = unowned \ (retired \cup {r})
    BY DEF TakesRole
<1>2. roleHolder' \in [Labels -> Boards \cup {NoBoard}] /\ tags' \in [Labels -> SUBSET Tags]
      /\ unowned' \subseteq Labels
    BY <1>1 DEF RegistryTypeOK
<1>3. OneRole'
    <2> SUFFICES ASSUME NEW x \in Labels, NEW y \in Labels, after[x] # NoBoard, after[x] = after[y]
                 PROVE  x = y
        BY <1>1 DEF OneRole, Held
    <2>1. CASE x = r \/ y = r
        BY <2>1
    <2>2. CASE x # r /\ y # r
        BY <2>2 DEF OneRole, Held
    <2> QED
        BY <2>1, <2>2
<1>4. RetiredMeansUntagged'
    <2> SUFFICES ASSUME NEW x \in Labels, x \notin unowned', after[x] = NoBoard
                 PROVE  tags'[x] = {}
        BY <1>1 DEF RetiredMeansUntagged, Held
    <2>1. x # r
        BY RegistryAssumption
    <2>2. CASE x \in retired
        BY <1>1, <2>2
    <2>3. CASE x \notin retired
        <3>1. roleHolder[x] # b
            <4> SUFFICES ASSUME roleHolder[x] = b PROVE FALSE
                OBVIOUS
            <4>1. RoleOf(b) = x
                BY RoleOfBoard
            <4>2. x # NoId
                BY RegistryAssumption
            <4> QED
                BY <2>1, <2>3, <4>1, <4>2
        <3>2. roleHolder[x] = NoBoard /\ x \notin unowned
            BY <1>1, <2>1, <2>3, <3>1
        <3> QED
            BY <1>1, <2>3, <3>2 DEF RetiredMeansUntagged, Held
    <2> QED
        BY <2>2, <2>3
<1> QED
    BY <1>1, <1>2, <1>3, <1>4

\* A decommission, complete or cut: its role and groups go together, or are known to be left.
LEMMA RetireKeeps ==
    ASSUME RegistryTypeOK, OneRole, OwnNames, RetiredMeansUntagged, StraysAreNamesakes,
           NEW b \in Boards, NEW k \in 0..4, Retire(b, k)
    PROVE  /\ \A r \in Labels : roleHolder'[r] = roleHolder[r]
                                    \/ (roleHolder[r] = b /\ roleHolder'[r] = NoBoard)
           /\ roleHolder' \in [Labels -> Boards \cup {NoBoard}]
           /\ tags' \in [Labels -> SUBSET Tags] /\ unowned' \subseteq Labels
           /\ strays' \subseteq strays
           /\ name' \in [Boards -> Names \cup {NoId}]
           /\ OneRole' /\ OwnNames' /\ RetiredMeansUntagged' /\ StraysAreNamesakes'
<1>1. /\ RoleOf(b) \in Labels \cup {NoId}
      /\ RoleOf(b) # NoId => roleHolder[RoleOf(b)] = b
      /\ \A r \in Labels : roleHolder[r] = b => RoleOf(b) = r
    BY RoleOfBoard
<1>2. strays' \subseteq strays
    BY DEF Retire
<1>3. /\ \A r \in Labels : roleHolder'[r] = roleHolder[r]
                               \/ (roleHolder[r] = b /\ roleHolder'[r] = NoBoard)
      /\ roleHolder' \in [Labels -> Boards \cup {NoBoard}]
    BY DEF Retire, RegistryTypeOK
<1>4. tags' \in [Labels -> SUBSET Tags] /\ unowned' \subseteq Labels
    BY <1>1 DEF Retire, RegistryTypeOK
<1>5. name' \in [Boards -> Names \cup {NoId}]
      /\ \A c \in Boards : name'[c] = name[c] \/ name'[c] = NoId
    BY DEF Retire, RegistryTypeOK
<1>6. OneRole'
    BY <1>3 DEF OneRole, Held
<1>7. OwnNames'
    <2>1. speaksAs' = speaksAs /\ used' = used
        BY DEF Retire
    <2> QED
        BY <1>5, <2>1 DEF OwnNames, Registered
<1>8. RetiredMeansUntagged'
    <2> SUFFICES ASSUME NEW r \in Labels, r \notin unowned', roleHolder'[r] = NoBoard
                 PROVE  tags'[r] = {}
        BY DEF RetiredMeansUntagged, Held
    <2>1. r \notin unowned
        BY DEF Retire
    <2>2. CASE roleHolder[r] = NoBoard
        <3>1. tags[r] = {}
            BY <2>1, <2>2 DEF RetiredMeansUntagged, Held
        <3> QED
            BY <3>1 DEF Retire, RegistryTypeOK
    <2>3. CASE roleHolder[r] # NoBoard
        <3>1. roleHolder[r] = b /\ RoleOf(b) = r /\ r # NoId
            BY <1>1, <1>3, <2>3, RegistryAssumption
        <3>2. k >= 2
            BY <2>3 DEF Retire
        <3>3. k # 2
            BY <3>1 DEF Retire
        <3> QED
            BY <3>1, <3>2, <3>3 DEF Retire, RegistryTypeOK
    <2> QED
        BY <2>2, <2>3
<1>9. StraysAreNamesakes'
    BY <1>2 DEF StraysAreNamesakes
<1> QED
    BY <1>2, <1>3, <1>4, <1>5, <1>6, <1>7, <1>8, <1>9


\* Another console's change leaves an open dialog alone, or marks it.
LEMMA MeanwhileKeeps ==
    ASSUME RegistryTypeOK, DialogInv, NEW R, NEW B, Meanwhile(R, B),
           \A x \in Labels : \/ roleHolder'[x] = roleHolder[x]
                             \/ /\ x \in R \/ roleHolder[x] \in B
                                /\ roleHolder'[x] \in B \cup {NoBoard}
    PROVE  dialog' \in Dialogs /\ DialogInv'
<1>1. dialog \in Dialogs
    BY DEF RegistryTypeOK, Dialogs
<1>2. CASE dialog' = [dialog EXCEPT !.others = TRUE]
    <2>1. /\ dialog' \in Dialogs /\ dialog'.others
          /\ dialog'.at = dialog.at /\ dialog'.source = dialog.source
          /\ dialog'.role = dialog.role /\ dialog'.target = dialog.target
        BY <1>1, <1>2 DEF Dialogs
    <2> QED
        BY <2>1 DEF DialogInv, DialogShape, SourceHolds, RemovalIsPlain
<1>3. CASE /\ dialog' = dialog
           /\ \/ dialog.at \in {"closed", "role", "groups"}
              \/ dialog.role \notin R /\ dialog.source \notin B /\ dialog.target \notin B
    <2>1. DialogShape'
        BY <1>3 DEF DialogInv, DialogShape
    <2>2. SourceHolds'
        BY <1>1, <1>3 DEF DialogInv, DialogShape, SourceHolds, Dialogs
    <2>3. RemovalIsPlain'
        <3> SUFFICES ASSUME dialog.at \in {"swapped", "remove"}, ~dialog.others
                     PROVE  /\ roleHolder'[dialog.role] = dialog.target
                            /\ \A x \in Labels : roleHolder'[x] # dialog.source
            BY <1>3 DEF RemovalIsPlain, RolesOf
        <3>1. /\ roleHolder[dialog.role] = dialog.target
              /\ \A x \in Labels : roleHolder[x] # dialog.source
            BY DEF DialogInv, RemovalIsPlain, RolesOf
        <3>2. /\ dialog.role \in Labels \ R /\ dialog.target \notin B
              /\ dialog.source \in Boards \ B
            BY <1>3 DEF DialogInv, DialogShape
        <3> QED
            BY <3>1, <3>2, RegistryAssumption
    <2> QED
        BY <1>1, <1>3, <2>1, <2>2, <2>3 DEF DialogInv
<1> QED
    BY <1>2, <1>3 DEF Meanwhile

\* A dialog that is closed, or edits a role or groups, has nothing to keep.
LEMMA DialogShut ==
    ASSUME dialog' \in Dialogs, dialog'.at \in {"closed", "role", "groups"},
           dialog'.at # "closed" => dialog'.source \in Boards
    PROVE  DialogInv'
BY DEF DialogInv, DialogShape, SourceHolds, RemovalIsPlain

\* No board is registered and no dialog open at first.
LEMMA RegistryInitInv == RegistryInit => RegistryInv
<1> SUFFICES ASSUME RegistryInit PROVE RegistryInv
    OBVIOUS
<1>1. RegistryTypeOK
    BY DEF RegistryInit, RegistryTypeOK, Closed
<1>2. OneRole /\ RetiredMeansUntagged
    BY DEF RegistryInit, OneRole, Held, RetiredMeansUntagged
<1>3. OwnNames /\ StraysAreNamesakes
    BY DEF RegistryInit, OwnNames, Registered, StraysAreNamesakes
<1>4. DialogInv
    BY DEF RegistryInit, DialogInv, DialogShape, SourceHolds, RemovalIsPlain, Closed
<1> QED
    BY <1>1, <1>2, <1>3, <1>4 DEF RegistryInv

\* A step of a dialog that changes nothing else.
LEMMA DialogOnlyKeeps ==
    ASSUME RegistryInv, DialogOnly, dialog' \in Dialogs, DialogInv'
    PROVE  RegistryInv'
<1>1. RegistryTypeOK'
    BY DEF RegistryInv, DialogOnly, RegistryTypeOK, Dialogs
<1>2. OneRole' /\ OwnNames' /\ RetiredMeansUntagged' /\ StraysAreNamesakes'
    BY DEF RegistryInv, DialogOnly, OneRole, Held, OwnNames, Registered, RetiredMeansUntagged,
           StraysAreNamesakes
<1> QED
    BY <1>1, <1>2 DEF RegistryInv

\* A change of roles, with what became of the dialog.
LEMMA RolesKeep ==
    ASSUME RegistryInv, NEW b \in Boards, NEW r \in Labels \cup {NoId}, TakesRole(b, r),
           dialog' \in Dialogs, DialogInv'
    PROVE  RegistryInv'
<1>1. OneRole' /\ RetiredMeansUntagged' /\ RegistryTypeOK'
    BY TakesRoleKeeps DEF RegistryInv, TakesRole, RegistryTypeOK, Dialogs
<1>2. OwnNames' /\ StraysAreNamesakes'
    BY DEF RegistryInv, TakesRole, OwnNames, Registered, StraysAreNamesakes
<1> QED
    BY <1>1, <1>2 DEF RegistryInv

\* A decommission, with what became of the dialog.
LEMMA RetirementKeeps ==
    ASSUME RegistryInv, NEW b \in Boards, NEW k \in 0..4, Retire(b, k),
           dialog' \in Dialogs, DialogInv'
    PROVE  RegistryInv'
<1>1. RegistryTypeOK'
    BY RetireKeeps DEF RegistryInv, Retire, RegistryTypeOK, Dialogs
<1> QED
    BY <1>1, RetireKeeps DEF RegistryInv

\* Names are found again: what a board publishes under leads to it, or to a role.
LEMMA OwnNameResolves ==
    ASSUME RegistryInv, NEW b \in Boards, speaksAs[b] # NoId, speaksAs[b] \notin Labels
    PROVE  Resolve(speaksAs[b]) \in {b, NoBoard}
<1>1. \A c \in Boards : name[c] = speaksAs[b] => c = b
    BY DEF RegistryInv, OwnNames, Registered
<1>2. speaksAs[b] \notin Boards
    BY RegistryAssumption DEF RegistryInv, RegistryTypeOK
<1> QED
    BY <1>1, <1>2 DEF Resolve

\* Every route, message and step of a dialog keeps the invariant.
LEMMA RegistryStep == RegistryInv /\ [RegistryNext]_registryVars => RegistryInv'
<1> SUFFICES ASSUME RegistryInv, [RegistryNext]_registryVars PROVE RegistryInv'
    OBVIOUS
<1> USE DEF RegistryInv
<1>d. dialog \in Dialogs
    BY DEF RegistryTypeOK, Dialogs
<1>c. Closed \in Dialogs /\ Closed.at = "closed"
    BY DEF Closed, Dialogs
<1>1. ASSUME NEW b \in Boards, NEW n \in Names, ClaimDeviceName(b, n) PROVE RegistryInv'
    <2>1. RegistryTypeOK'
        BY <1>1 DEF ClaimDeviceName, RegistryTypeOK
    <2>2. OneRole' /\ RetiredMeansUntagged' /\ StraysAreNamesakes' /\ DialogInv'
        BY <1>1 DEF ClaimDeviceName, OneRole, Held, RetiredMeansUntagged, StraysAreNamesakes,
                    DialogInv, DialogShape, SourceHolds, RemovalIsPlain, RolesOf
    <2>3. OwnNames'
        BY <1>1, RegistryAssumption DEF ClaimDeviceName, OwnNames, Registered, RegistryTypeOK
    <2> QED
        BY <2>1, <2>2, <2>3
<1>2. ASSUME NEW b \in Boards, HandleTelemetry(b) PROVE RegistryInv'
    <2>1. strays' \subseteq strays
             \cup (IF speaksAs[b] \in Labels
                   THEN {[under |-> Resolve(speaksAs[b]), from |-> b, name |-> speaksAs[b]]} ELSE {})
        BY <1>2, OwnNameResolves DEF HandleTelemetry
    <2>2. StraysAreNamesakes'
        BY <2>1 DEF StraysAreNamesakes
    <2>3. strays' \subseteq [under : Boards, from : Boards, name : Names]
        <3>1. Resolve(speaksAs[b]) \in Boards \cup {NoBoard}
            BY DEF Resolve, RegistryTypeOK
        <3>2. speaksAs[b] \in Names
            BY <1>2 DEF HandleTelemetry, RegistryTypeOK
        <3> QED
            BY <1>2, <3>1, <3>2 DEF HandleTelemetry, RegistryTypeOK
    <2>4. RegistryTypeOK'
        BY <1>2, <2>3 DEF HandleTelemetry, RegistryTypeOK
    <2>5. OneRole' /\ OwnNames' /\ RetiredMeansUntagged' /\ DialogInv'
        BY <1>2 DEF HandleTelemetry, OneRole, Held, OwnNames, Registered, RetiredMeansUntagged,
                    DialogInv, DialogShape, SourceHolds, RemovalIsPlain, RolesOf
    <2> QED
        BY <2>2, <2>4, <2>5
<1>3. ASSUME NEW b \in Boards, Decommission(b) \/ DecommissionCrashes(b) PROVE RegistryInv'
    <2>1. PICK k \in 0..4 : Retire(b, k) /\ Meanwhile({RoleOf(b)}, {b})
        BY <1>3 DEF Decommission, DecommissionCrashes
    <2>2. \A x \in Labels : roleHolder'[x] = roleHolder[x]
                               \/ (roleHolder[x] = b /\ roleHolder'[x] = NoBoard)
        BY <2>1, RetireKeeps
    <2>3. dialog' \in Dialogs /\ DialogInv'
        BY <2>1, <2>2, MeanwhileKeeps
    <2> QED
        BY <2>1, <2>3, RetirementKeeps
<1>4. ASSUME NEW b \in Boards, ChangeWhitelist(b) PROVE RegistryInv'
    <2>1. RegistryTypeOK'
        BY <1>4 DEF ChangeWhitelist, RegistryTypeOK
    <2>2. OneRole' /\ OwnNames' /\ RetiredMeansUntagged' /\ StraysAreNamesakes' /\ DialogInv'
        BY <1>4 DEF ChangeWhitelist, OneRole, Held, OwnNames, Registered, RetiredMeansUntagged,
                    StraysAreNamesakes, DialogInv, DialogShape, SourceHolds, RemovalIsPlain, RolesOf
    <2> QED
        BY <2>1, <2>2
<1>5. ASSUME NEW b \in Boards, HandleDeleteDevice(b) PROVE RegistryInv'
    <2>1. /\ RoleOf(b) \in Labels \cup {NoId}
          /\ RoleOf(b) # NoId => roleHolder[RoleOf(b)] = b
        BY RoleOfBoard
    <2>2. /\ dialog' \in Dialogs /\ dialog'.at = "decommission" /\ dialog'.source = b
          /\ dialog'.role = RoleOf(b)
        BY <1>5, <2>1 DEF HandleDeleteDevice, Closed, Dialogs
    <2>3. DialogInv'
        BY <1>5, <2>1, <2>2 DEF HandleDeleteDevice, DialogOnly, DialogInv, DialogShape, SourceHolds,
                                RemovalIsPlain
    <2> QED
        BY <1>5, <2>2, <2>3, DialogOnlyKeeps DEF HandleDeleteDevice
<1>6. ASSUME NEW b \in Boards, HandleEditRole(b) \/ HandleEditGroups(b) PROVE RegistryInv'
    <2>1. RoleOf(b) \in Labels \cup {NoId}
        BY RoleOfBoard
    <2>2. dialog' \in Dialogs /\ dialog'.at \in {"role", "groups"} /\ dialog'.source = b
        BY <1>6, <2>1 DEF HandleEditRole, HandleEditGroups, Closed, Dialogs
    <2> QED
        BY <1>6, <2>2, DialogShut, DialogOnlyKeeps DEF HandleEditRole, HandleEditGroups
<1>7. CASE HandleSwapInstead
    <2>1. /\ dialog' \in Dialogs /\ dialog'.at = "swap" /\ dialog'.source = dialog.source
          /\ dialog'.role = dialog.role /\ dialog'.others = dialog.others
        BY <1>7, <1>d DEF HandleSwapInstead, Dialogs
    <2>2. DialogInv'
        BY <1>7, <1>d, <2>1 DEF HandleSwapInstead, DialogOnly, DialogInv, DialogShape, SourceHolds,
                                RemovalIsPlain, Dialogs
    <2> QED
        BY <1>7, <2>1, <2>2, DialogOnlyKeeps DEF HandleSwapInstead
<1>8. ASSUME NEW b \in Boards, DoSwap(b) PROVE RegistryInv'
    <2>1. CASE MayHoldRole(b)
        <3>1. /\ dialog.at = "swap" /\ b # dialog.source /\ TakesRole(b, dialog.role)
              /\ dialog.role \in Labels /\ dialog.source \in Boards
            BY <1>8, <2>1 DEF DoSwap, DialogInv, DialogShape
        <3>2. /\ dialog' \in Dialogs /\ dialog'.at = "swapped" /\ dialog'.source = dialog.source
              /\ dialog'.role = dialog.role /\ dialog'.target = b /\ dialog'.others = dialog.others
            BY <1>8, <1>d, <2>1 DEF DoSwap, Dialogs
        <3>3. roleHolder' = [x \in Labels |-> IF x = dialog.role THEN b
                                 ELSE IF roleHolder[x] = b THEN NoBoard ELSE roleHolder[x]]
            BY <3>1, TakesRoleKeeps
        <3>4. DialogShape' /\ SourceHolds'
            BY <3>1, <3>2 DEF DialogShape, SourceHolds
        <3>5. RemovalIsPlain'
            <4> SUFFICES ASSUME ~dialog.others
                         PROVE  /\ roleHolder'[dialog.role] = b
                                /\ \A x \in Labels : roleHolder'[x] # dialog.source
                BY <3>2 DEF RemovalIsPlain, RolesOf
            <4>1. roleHolder[dialog.role] = dialog.source
                BY <3>1, RegistryAssumption DEF DialogInv, SourceHolds
            <4>2. \A x \in Labels : roleHolder[x] = dialog.source => x = dialog.role
                BY <3>1, <4>1, RegistryAssumption DEF OneRole, Held
            <4> QED
                BY <3>1, <3>3, <4>2, RegistryAssumption
        <3> QED
            BY <3>1, <3>2, <3>4, <3>5, RolesKeep DEF DialogInv
    <2>2. CASE ~MayHoldRole(b)
        <3>1. dialog' = dialog /\ DialogOnly
            BY <1>8, <2>2 DEF DoSwap
        <3>2. DialogInv'
            BY <3>1 DEF DialogOnly, DialogInv, DialogShape, SourceHolds, RemovalIsPlain, RolesOf
        <3> QED
            BY <1>d, <3>1, <3>2, DialogOnlyKeeps
    <2> QED
        BY <2>1, <2>2
<1>9. CASE HandleSwapped
    <2>1. /\ dialog' \in Dialogs /\ dialog'.at = "remove" /\ dialog'.source = dialog.source
          /\ dialog'.role = dialog.role /\ dialog'.target = dialog.target
          /\ dialog'.others = dialog.others
        BY <1>9, <1>d DEF HandleSwapped, Dialogs
    <2>2. DialogInv'
        BY <1>9, <2>1 DEF HandleSwapped, DialogOnly, DialogInv, DialogShape, SourceHolds,
                          RemovalIsPlain, RolesOf
    <2> QED
        BY <1>9, <2>1, <2>2, DialogOnlyKeeps DEF HandleSwapped
<1>10. CASE DoDecommission
    <2>1. dialog.source \in Boards
        BY <1>10 DEF DoDecommission, DialogInv, DialogShape
    <2> QED
        BY <1>10, <1>c, <2>1, DialogShut, RetirementKeeps DEF DoDecommission
<1>11. CASE CloseDialog
    BY <1>11, <1>c, DialogShut, DialogOnlyKeeps DEF CloseDialog
<1>12. ASSUME NEW r \in Labels \cup {NoId}, HandleSaveRole(r) PROVE RegistryInv'
    <2>1. dialog.source \in Boards
        BY <1>12 DEF HandleSaveRole, DialogInv, DialogShape
    <2>2. dialog' \in Dialogs /\ DialogInv'
        BY <1>12, <1>c, DialogShut DEF HandleSaveRole
    <2> QED
        BY <1>12, <2>1, <2>2, RolesKeep, DialogOnlyKeeps DEF HandleSaveRole
<1>13. ASSUME NEW r \in Labels \cup {NoId}, NEW b \in Boards, SetRole(b, r) PROVE RegistryInv'
    <2> DEFINE B == {b} \cup {roleHolder[x] : x \in {y \in Labels : y = r /\ Held(y)}}
    <2>1. TakesRole(b, r) /\ Meanwhile({r}, B)
        BY <1>13 DEF SetRole
    <2>2. roleHolder' = [x \in Labels |-> IF x = r THEN b
                             ELSE IF roleHolder[x] = b THEN NoBoard ELSE roleHolder[x]]
        BY <2>1, TakesRoleKeeps
    <2>3. \A x \in Labels : \/ roleHolder'[x] = roleHolder[x]
                            \/ /\ x \in {r} \/ roleHolder[x] \in B
                               /\ roleHolder'[x] \in B \cup {NoBoard}
        BY <2>2
    <2> HIDE DEF B
    <2>4. dialog' \in Dialogs /\ DialogInv'
        BY <2>1, <2>3, MeanwhileKeeps
    <2> QED
        BY <2>1, <2>4, RolesKeep
<1>14. ASSUME NEW r \in Labels, NEW new \in SUBSET Tags, SetGroupsForRole(r, new),
              UNCHANGED <<whitelist, name, roleHolder, speaksAs, used, strays>>,
              unowned' \subseteq Labels,
              \A x \in Labels : Held(x) \/ (x # r /\ x \notin unowned' => x \notin unowned),
              Held(r) \/ r \in unowned' \/ new = {},
              dialog' \in Dialogs, DialogInv'
       PROVE  RegistryInv'
    <2>1. tags' \in [Labels -> SUBSET Tags]
        BY <1>14 DEF SetGroupsForRole, RegistryTypeOK
    <2>2. RegistryTypeOK'
        BY <1>14, <2>1 DEF RegistryTypeOK, Dialogs
    <2>3. RetiredMeansUntagged'
        BY <1>14 DEF SetGroupsForRole, RegistryTypeOK, RetiredMeansUntagged, Held
    <2>4. OneRole' /\ OwnNames' /\ StraysAreNamesakes'
        BY <1>14 DEF OneRole, Held, OwnNames, Registered, StraysAreNamesakes
    <2> QED
        BY <1>14, <2>2, <2>3, <2>4
<1>15. ASSUME NEW new \in SUBSET Tags, HandleSaveGroups(new) PROVE RegistryInv'
    <2>1. dialog.source \in Boards /\ dialog.at = "groups"
        BY <1>15 DEF HandleSaveGroups, DialogInv, DialogShape
    <2>2. CASE Registered(dialog.source) /\ RoleOf(dialog.source) # NoId
        <3>1. RoleOf(dialog.source) \in Labels /\ Held(RoleOf(dialog.source))
            BY <2>1, <2>2, RoleOfBoard, RegistryAssumption DEF Held
        <3>2. dialog' \in Dialogs /\ DialogInv'
            BY <1>15, <1>c, <2>2, DialogShut DEF HandleSaveGroups
        <3> QED
            BY <1>15, <2>2, <3>1, <3>2, <1>14 DEF HandleSaveGroups, RegistryTypeOK
    <2>3. CASE ~(Registered(dialog.source) /\ RoleOf(dialog.source) # NoId)
        <3>1. UNCHANGED registryVars
            BY <1>15, <2>3 DEF HandleSaveGroups, registryVars
        <3> QED
            BY <3>1 DEF registryVars, RegistryTypeOK, OneRole, Held, OwnNames, Registered,
                        RetiredMeansUntagged, StraysAreNamesakes, DialogInv, DialogShape,
                        SourceHolds, RemovalIsPlain, RolesOf
    <2> QED
        BY <2>2, <2>3
<1>16. ASSUME NEW new \in SUBSET Tags, NEW b \in Boards, SetDeviceGroups(b, new)
       PROVE  RegistryInv'
    <2>1. RoleOf(b) \in Labels /\ Held(RoleOf(b))
        BY <1>16, RoleOfBoard, RegistryAssumption DEF SetDeviceGroups, Held
    <2>2. dialog' \in Dialogs /\ DialogInv'
        BY <1>16, <1>d DEF SetDeviceGroups, DialogInv, DialogShape, SourceHolds, RemovalIsPlain, RolesOf
    <2> QED
        BY <1>16, <2>1, <2>2, <1>14 DEF SetDeviceGroups, RegistryTypeOK
<1>17. ASSUME NEW r \in Labels, NEW new \in SUBSET Tags, SetRoleGroups(r, new)
       PROVE  RegistryInv'
    <2>1. dialog' \in Dialogs /\ DialogInv'
        BY <1>17, <1>d DEF SetRoleGroups, DialogInv, DialogShape, SourceHolds, RemovalIsPlain, RolesOf
    <2>2. /\ unowned' \subseteq Labels
          /\ \A x \in Labels : Held(x) \/ (x # r /\ x \notin unowned' => x \notin unowned)
          /\ Held(r) \/ r \in unowned' \/ new = {}
        BY <1>17 DEF SetRoleGroups, RegistryTypeOK
    <2> QED
        BY <1>17, <2>1, <2>2, <1>14 DEF SetRoleGroups
<1>18. CASE UNCHANGED registryVars
    BY <1>18 DEF registryVars, RegistryTypeOK, OneRole, Held, OwnNames, Registered,
                 RetiredMeansUntagged, StraysAreNamesakes, DialogInv, DialogShape,
                 SourceHolds, RemovalIsPlain, RolesOf
<1> QED
    BY <1>1, <1>2, <1>3, <1>4, <1>5, <1>6, <1>7, <1>8, <1>9, <1>10, <1>11, <1>12, <1>13, <1>15,
       <1>16, <1>17, <1>18 DEF RegistryNext

\* The invariant holds in every state.
LEMMA RegistryInvariance == RegistrySpec => []RegistryInv
<1> QED
    BY RegistryInitInv, RegistryStep, PTL DEF RegistrySpec

\* A message of a registered board that holds a role is shown as the role's.
LEMMA RolesAreShown == RegistryInv => SwapIsInvisible
<1> SUFFICES ASSUME RegistryInv, NEW r \in Labels, Held(r), Registered(roleHolder[r]),
                    name[roleHolder[r]] \in Labels => ~Held(name[roleHolder[r]])
             PROVE  /\ Shown({r}, {}, name[roleHolder[r]]) = r
                    /\ \A g \in Tags : Shown({}, {g}, name[roleHolder[r]])
                                          = IF g \in tags[r] THEN r ELSE NoId
    BY DEF SwapIsInvisible
<1> DEFINE b == roleHolder[r]
<1>1. b \in Boards /\ r # NoId
    BY RegistryAssumption DEF RegistryInv, RegistryTypeOK, Held
<1>2. RoleOf(b) = r
    BY <1>1, RoleOfBoard DEF RegistryInv
<1>3. Resolve(name[b]) = b
    <2>1. \A c \in Boards : name[c] = name[b] => c = b
        BY <1>1 DEF RegistryInv, OwnNames, Registered
    <2>2. ~(name[b] \in Labels /\ roleHolder[name[b]] # NoBoard)
        BY DEF Held
    <2> QED
        BY <1>1, <2>1, <2>2 DEF Resolve
<1>4. Resolve(r) = b
    BY DEF Resolve, Held
<1>5. PublicId(b) = r /\ GroupsOf(b) = tags[r]
    BY <1>1, <1>2 DEF PublicId, GroupsOf
<1>6. b # NoBoard
    BY <1>1, RegistryAssumption
<1> HIDE DEF b
<1>7. Subscribed({r}, {}, name[b])
    BY <1>3, <1>4, <1>6 DEF Subscribed
<1>8. \A g \in Tags : Subscribed({}, {g}, name[b]) <=> g \in tags[r]
    BY <1>3, <1>5, <1>6 DEF Subscribed
<1>9. Shown({r}, {}, name[b]) = r
    BY <1>3, <1>5, <1>6, <1>7 DEF Shown
<1>10. \A g \in Tags : Shown({}, {g}, name[b]) = IF g \in tags[r] THEN r ELSE NoId
    BY <1>3, <1>5, <1>6, <1>8 DEF Shown
<1> QED
    BY <1>9, <1>10 DEF b

\* Every variable of FleetRegistry keeps its type (devices-store.ts, the device routes).
THEOREM RegistryTypeCorrect == RegistrySpec => []RegistryTypeOK
<1>1. RegistryInv => RegistryTypeOK
    BY DEF RegistryInv
<1> QED
    BY RegistryInvariance, <1>1, PTL

\* However roles are moved, taken over and decommissioned, a role that no board holds keeps
\* no groups of its last owner (PUT role and DELETE device of src/index.ts).
THEOREM RetiredTheorem == RegistrySpec => []RetiredMeansUntagged
<1>1. RegistryInv => RetiredMeansUntagged
    BY DEF RegistryInv
<1> QED
    BY RegistryInvariance, <1>1, PTL

\* For any boards, names and roles, a board's messages are filed under it and shown under
\* the role it holds (resolveIdentifierToUuid, broadcastToSubscribers).
THEOREM MessagesTheorem == RegistrySpec => []MessagesFollowRoles
<1>1. RegistryInv => MessagesFollowRoles
    BY RolesAreShown DEF RegistryInv, MessagesFollowRoles
<1> QED
    BY RegistryInvariance, <1>1, PTL

\* The removal after a swap retires no identity unless another console interfered
\* (handleSwapped, doDecommission of Overview.tsx).
THEOREM RemovalTheorem == RegistrySpec => []RemovalIsPlain
<1>1. RegistryInv => RemovalIsPlain
    BY DEF RegistryInv, DialogInv
<1> QED
    BY RegistryInvariance, <1>1, PTL
=============================================================================
