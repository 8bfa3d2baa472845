----------------------------- MODULE DeviceTwin -----------------------------
(***************************************************************************)
(* The digital twin of one device: the hub's documents and its handler of  *)
(* twin/get and twin/update (services/twin, twin-store.ts), applications   *)
(* that set desired properties (services/application) and the device       *)
(* client, whose application applies each delta and reports it             *)
(* (sdk/device-client and its examples).  Acceptances and rejections       *)
(* change nothing at the device but the promise of a getTwin(), and are    *)
(* left out with it.                                                       *)
(*                                                                         *)
(* The broker (external) keeps the order of the messages to one receiver.  *)
(* The device's session is persistent and QoS 1: a lost connection repeats *)
(* what it had not acknowledged.  The twin service's session is clean:     *)
(* what it has not handled when it loses the broker is lost.               *)
(***************************************************************************)
EXTENDS Naturals, Sequences, SequencesExt

CONSTANTS
    Keys,           \* properties of the documents
    Values, None,   \* their values, and that of a property not there
    MaxPatches,     \* bound: updates by applications, and by the device unasked
    MaxCuts2,       \* bound: lost connections and restarts
    MaxQueue        \* bound: messages on their way to one receiver

ASSUME TwinAssumption ==
    /\ None \notin Values
    /\ MaxPatches \in Nat /\ MaxCuts2 \in Nat /\ MaxQueue \in Nat

VARIABLES
    desired, reported,      \* the documents, [version, doc]
    toTwin,                 \* messages on their way to the twin service
    twinUp,                 \* it is connected
    toDevice,               \* messages on their way to the device
    unacked,                \* the last one it took, if the broker may not know
    deviceUp,               \* it is connected
    state,                  \* the device's own properties
    lost,                   \* history: an update never reached the twin service
    patches, cuts2

hubTwin == <<desired, reported>>
deviceTwin == <<unacked, deviceUp, state>>
twinVars == <<hubTwin, toTwin, twinUp, toDevice, deviceTwin, lost, patches, cuts2>>

Docs == [Keys -> Values \cup {None}]
Twins == [version : Nat, doc : Docs]
Empty == [k \in Keys |-> None]
Updates == [type : {"desired", "reported"}, patch : Docs]

TwinTypeOK ==
    /\ desired \in Twins /\ reported \in Twins
    /\ toTwin \in Seq(Updates) /\ toDevice \in Seq(Docs) /\ unacked \in Seq(Docs)
    /\ twinUp \in BOOLEAN /\ deviceUp \in BOOLEAN /\ lost \in BOOLEAN
    /\ state \in Docs
    /\ patches \in Nat /\ cuts2 \in Nat

TwinInit ==
    /\ desired = [version |-> 0, doc |-> Empty] /\ reported = [version |-> 0, doc |-> Empty]
    /\ toTwin = <<>> /\ twinUp = TRUE
    /\ toDevice = <<>> /\ unacked = <<>> /\ deviceUp = TRUE
    /\ state = Empty
    /\ lost = FALSE /\ patches = 0 /\ cuts2 = 0

-----------------------------------------------------------------------------
CutOff == cuts2 < MaxCuts2 /\ cuts2' = cuts2 + 1

Single(k, v) == [Empty EXCEPT ![k] = v]

\* An update is acknowledged by the broker whether the twin service is there or not.
Update(m) ==
    IF twinUp
    THEN Len(toTwin) < MaxQueue /\ toTwin' = Append(toTwin, m) /\ UNCHANGED lost
    ELSE lost' = TRUE /\ UNCHANGED toTwin

-----------------------------------------------------------------------------
(* Applications *)

\* PATCH /api/devices/:id/twin: published on the device's own update topic.
PatchDesired(k, v) ==
    /\ patches < MaxPatches /\ patches' = patches + 1
    /\ Update([type |-> "desired", patch |-> Single(k, v)])
    /\ UNCHANGED <<hubTwin, twinUp, toDevice, deviceTwin, cuts2>>

\* It answers ok all the same when it has no broker.
PatchUnsent ==
    /\ patches < MaxPatches /\ patches' = patches + 1
    /\ lost' = TRUE
    /\ UNCHANGED <<hubTwin, toTwin, twinUp, toDevice, deviceTwin, cuts2>>

-----------------------------------------------------------------------------
(* The twin service *)

\* Mutant: the patch replaces the document.
MergeReplaces(twin, patch) == [version |-> twin.version + 1, doc |-> patch]

\* setTwinDoc: a partial patch is merged, the version counts the updates.
Merge(twin, patch) ==
    [version |-> twin.version + 1,
     doc |-> [k \in Keys |-> IF patch[k] # None THEN patch[k] ELSE twin.doc[k]]]

\* shallowDelta: the desired value where the two differ; a property only in
\* reported has none.
Differ(d, r) == \E k \in Keys : d[k] # r[k]
ShallowDelta(d, r) == [k \in Keys |-> IF d[k] # r[k] THEN d[k] ELSE None]

\* The update, then the delta of the two documents as they now are.
HandleUpdate ==
    /\ toTwin # <<>>
    /\ LET m == Head(toTwin)
           d == IF m.type = "desired" THEN Merge(desired, m.patch) ELSE desired
           r == IF m.type = "reported" THEN Merge(reported, m.patch) ELSE reported
       IN /\ desired' = d /\ reported' = r
          /\ IF Differ(d.doc, r.doc)
             THEN /\ Len(toDevice) < MaxQueue
                  /\ toDevice' = Append(toDevice, ShallowDelta(d.doc, r.doc))
             ELSE UNCHANGED toDevice
    /\ toTwin' = Tail(toTwin)
    /\ UNCHANGED <<twinUp, deviceTwin, lost, patches, cuts2>>

TwinDrops ==
    /\ twinUp /\ CutOff
    /\ twinUp' = FALSE
    /\ lost' = (lost \/ toTwin # <<>>)
    /\ toTwin' = <<>>
    /\ UNCHANGED <<hubTwin, toDevice, deviceTwin, patches>>

TwinBack ==
    /\ ~twinUp /\ twinUp' = TRUE
    /\ UNCHANGED <<hubTwin, toTwin, toDevice, deviceTwin, lost, patches, cuts2>>

-----------------------------------------------------------------------------
(* The device *)

\* updateTwinReported, updateState: a property changes on the device itself.
\* It only changes to what is desired, or where nothing is.
ReportState(k, v) ==
    /\ deviceUp /\ patches < MaxPatches /\ patches' = patches + 1
    /\ state[k] = None
    /\ state' = [state EXCEPT ![k] = v]
    /\ Update([type |-> "reported", patch |-> Single(k, v)])
    /\ UNCHANGED <<hubTwin, twinUp, toDevice, unacked, deviceUp, cuts2>>

\* handleTwinDelta emits 'twinDesired'; the application applies what it is
\* given and reports it.  Properties without a desired value are not on the wire.
Apply(delta) == [k \in Keys |-> IF delta[k] # None THEN delta[k] ELSE state[k]]

HandleTwinDelta ==
    /\ deviceUp /\ toDevice # <<>>
    /\ LET delta == Head(toDevice) IN
       /\ state' = Apply(delta)
       /\ IF delta = Empty THEN UNCHANGED <<toTwin, lost>>
          ELSE Update([type |-> "reported", patch |-> delta])
    /\ toDevice' = Tail(toDevice) /\ unacked' = <<Head(toDevice)>>
    /\ UNCHANGED <<hubTwin, twinUp, deviceUp, patches, cuts2>>

\* The broker gets the device's acknowledgement.
Acknowledged ==
    /\ unacked # <<>> /\ deviceUp
    /\ unacked' = <<>>
    /\ UNCHANGED <<hubTwin, toTwin, twinUp, toDevice, deviceUp, state, lost, patches,
                   cuts2>>

DeviceDisconnects ==
    /\ deviceUp /\ CutOff
    /\ deviceUp' = FALSE
    /\ UNCHANGED <<hubTwin, toTwin, twinUp, toDevice, unacked, state, lost, patches>>

\* The session resumes with what is not acknowledged, in its order.
DeviceResumes ==
    /\ ~deviceUp /\ deviceUp' = TRUE
    /\ toDevice' = unacked \o toDevice /\ unacked' = <<>>
    /\ UNCHANGED <<hubTwin, toTwin, twinUp, state, lost, patches, cuts2>>

-----------------------------------------------------------------------------
TwinNext ==
    \/ \E k \in Keys, v \in Values : PatchDesired(k, v) \/ ReportState(k, v)
    \/ PatchUnsent \/ HandleUpdate \/ TwinDrops \/ TwinBack
    \/ HandleTwinDelta \/ Acknowledged
    \/ DeviceDisconnects \/ DeviceResumes

TwinSpec == TwinInit /\ [][TwinNext]_twinVars

-----------------------------------------------------------------------------
(* Properties *)

\* When nothing is on its way and the twin service missed no update, the device
\* has what is desired and the hub knows it, through any repeated delivery and
\* any crossing of updates with reports.
QuietMeansSynced ==
    toTwin = <<>> /\ toDevice = <<>> /\ unacked = <<>> /\ ~lost =>
        \A k \in Keys :
            /\ reported.doc[k] = state[k]
            /\ desired.doc[k] # None => state[k] = desired.doc[k]
=============================================================================
