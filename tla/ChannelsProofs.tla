--------------------------- MODULE ChannelsProofs ---------------------------
(***************************************************************************)
(* Theorems about the channels between devices, hub, applications and      *)
(* pages, for any devices, clients, properties, lost connections and       *)
(* bounds: presence, the digital twin, the Node-RED nodes, the page's      *)
(* session and its terminal; and that MCChannels explores the              *)
(* specification of each of them.                                          *)
(***************************************************************************)
EXTENDS MCChannels, DirectMethodsProofs, QueueLemmas

-----------------------------------------------------------------------------
(* DevicePresence.  The last line on its way to the hub tells what the broker *)
(* holds, and without one the hub has recorded it, unless it missed a line.   *)

HeldWord == IF holder = NoLink THEN "disconnect" ELSE "connect"
RecordedWord == IF recorded = "online" THEN "connect" ELSE "disconnect"

LinesTell ==
    LastIs(toHub, "heartbeat", IF missed THEN HeldWord ELSE RecordedWord, HeldWord)

\* A heartbeat that no line follows is of a device the broker holds.
BeatsTell ==
    \A i \in DOMAIN toHub :
        (\A j \in DOMAIN toHub : j >= i => toHub[j] = "heartbeat") => holder # NoLink

UpIsHeld == \A k \in Links : link[k] = "up" => holder = k

PresenceInv ==
    /\ PresenceTypeOK /\ LinesTell /\ BeatsTell /\ UpIsHeld
    /\ ~hubLink => toHub = <<>>

Lines == {"connect", "disconnect", "heartbeat"}

\* Nothing is connected at first.
LEMMA PresenceInitInv == PresenceInit => PresenceInv
<1> SUFFICES ASSUME PresenceInit PROVE PresenceInv
    OBVIOUS
<1>1. toHub = <<>> /\ toHub \in Seq(Lines) /\ DOMAIN toHub = {}
    BY DEF PresenceInit
<1>2. PresenceTypeOK
    BY <1>1 DEF PresenceInit, PresenceTypeOK, LinkStates, Lines
<1>3. LinesTell
    BY <1>1, LastOfNone DEF PresenceInit, LinesTell, HeldWord, RecordedWord
<1> QED
    BY <1>1, <1>2, <1>3 DEF PresenceInit, PresenceInv, BeatsTell, UpIsHeld

\* A line goes out as the broker's connection changes: it says what is held now, or is
\* missed.
LEMMA LineSent ==
    ASSUME PresenceInv, NEW w \in {"connect", "disconnect"}, Logged(<<w>>), w = HeldWord',
           UpIsHeld'
    PROVE  /\ toHub' \in Seq(Lines) /\ missed' \in BOOLEAN
           /\ UNCHANGED <<hubLink, recorded>>
           /\ LinesTell' /\ BeatsTell' /\ UpIsHeld' /\ (~hubLink' => toHub' = <<>>)
<1> USE DEF PresenceInv
<1>1. toHub \in Seq(Lines) /\ w \in Lines
    BY DEF PresenceTypeOK, Lines
<1>2. UNCHANGED <<hubLink, recorded>>
    BY DEF Logged
<1>3. CASE hubLink
    <2>1. toHub' = Append(toHub, w) /\ UNCHANGED missed
        BY <1>1, <1>3 DEF Logged
    <2> DEFINE n == Len(toHub)
    <2>2. /\ toHub' \in Seq(Lines) /\ n \in Nat /\ DOMAIN toHub = 1..n /\ DOMAIN toHub' = 1..(n + 1)
          /\ toHub'[n + 1] = w
        BY <1>1, <2>1, Added
    <2> HIDE DEF n
    <2>3. LinesTell'
        BY <2>2, LastSaid DEF LinesTell
    <2>4. BeatsTell'
        <3>1. n + 1 \in DOMAIN toHub' /\ \A i \in DOMAIN toHub' : n + 1 >= i
            BY <2>2
        <3> QED
            BY <2>2, <3>1 DEF BeatsTell
    <2> QED
        BY <1>2, <1>3, <2>1, <2>2, <2>3, <2>4 DEF PresenceTypeOK
<1>4. CASE ~hubLink
    <2>1. missed' = TRUE /\ toHub' = <<>>
        BY <1>1, <1>4 DEF Logged
    <2>2. DOMAIN toHub' = {}
        BY <2>1
    <2>3. LinesTell'
        BY <2>1, <2>2, LastOfNone DEF LinesTell
    <2> QED
        BY <1>1, <1>2, <1>4, <2>1, <2>2, <2>3 DEF BeatsTell, Logged
<1> QED
    BY <1>3, <1>4

\* Steps of the device's client objects and of the broker.
LEMMA DevicePresenceStep ==
    ASSUME PresenceInv,
           \/ Connect \/ Disconnect \/ BrokerNotices
           \/ \E k \in Links : LinkConnects(k) \/ LinkError(k) \/ LinkCloses(k) \/ LinkEnded(k)
    PROVE  PresenceInv'
<1> USE DEF PresenceInv
<1> DEFINE Same == UNCHANGED <<holder, hubSide>>
<1>1. ASSUME Same, UpIsHeld' PROVE LinesTell' /\ BeatsTell' /\ (~hubLink' => toHub' = <<>>)
    BY <1>1 DEF hubSide, LinesTell, BeatsTell, HeldWord, RecordedWord
<1>2. CASE Connect
    <2>1. PICK k \in Links : link' = [link EXCEPT ![k] = "trying"] /\ client' = k
        BY <1>2 DEF Connect
    <2>2. PresenceTypeOK' /\ UpIsHeld'
        BY <1>2, <2>1 DEF Connect, PresenceTypeOK, LinkStates, UpIsHeld, hubSide
    <2> QED
        BY <1>1, <1>2, <2>2 DEF Connect
<1>3. CASE Disconnect
    <2>1. PresenceTypeOK' /\ UpIsHeld'
        BY <1>3 DEF Disconnect, PresenceTypeOK, LinkStates, UpIsHeld, hubSide
    <2> QED
        BY <1>1, <1>3, <2>1 DEF Disconnect
<1>4. CASE BrokerNotices
    <2>1. UNCHANGED <<deviceSide, cuts>> /\ holder' = NoLink /\ Logged(<<"disconnect">>)
        BY <1>4 DEF BrokerNotices
    <2>2. UpIsHeld'
        BY <1>4, <2>1 DEF BrokerNotices, UpIsHeld, deviceSide, PresenceTypeOK
    <2>3. HeldWord' = "disconnect"
        BY <2>1 DEF HeldWord
    <2>4. /\ toHub' \in Seq(Lines) /\ missed' \in BOOLEAN
          /\ UNCHANGED <<hubLink, recorded>>
          /\ LinesTell' /\ BeatsTell' /\ UpIsHeld' /\ (~hubLink' => toHub' = <<>>)
        BY <2>1, <2>2, <2>3, LineSent
    <2> QED
        BY <2>1, <2>4 DEF deviceSide, PresenceTypeOK, Lines
<1>5. ASSUME NEW k \in Links, LinkConnects(k) PROVE PresenceInv'
    <2>1. /\ holder' = k /\ Logged(<<"connect">>)
          /\ link' = [j \in Links |-> IF j = k THEN "up"
                        ELSE IF j = holder /\ link[j] = "up" THEN "trying" ELSE link[j]]
        BY <1>5 DEF LinkConnects
    <2>2. link' \in [Links -> LinkStates] /\ UpIsHeld'
        BY <2>1 DEF PresenceTypeOK, LinkStates, UpIsHeld
    <2>3. HeldWord' = "connect"
        BY <2>1, PresenceAssumption DEF HeldWord
    <2>4. /\ toHub' \in Seq(Lines) /\ missed' \in BOOLEAN
          /\ UNCHANGED <<hubLink, recorded>>
          /\ LinesTell' /\ BeatsTell' /\ UpIsHeld' /\ (~hubLink' => toHub' = <<>>)
        BY <2>1, <2>2, <2>3, LineSent
    <2>5. PresenceTypeOK'
        BY <1>5, <2>2, <2>4 DEF LinkConnects, PresenceTypeOK, Lines
    <2> QED
        BY <2>4, <2>5
<1>6. ASSUME NEW k \in Links, LinkError(k) PROVE PresenceInv'
    <2>1. PresenceTypeOK' /\ UpIsHeld'
        BY <1>6 DEF LinkError, PresenceTypeOK, UpIsHeld, hubSide
    <2> QED
        BY <1>1, <1>6, <2>1 DEF LinkError
<1>7. ASSUME NEW k \in Links, LinkCloses(k) PROVE PresenceInv'
    <2>1. /\ link' = [link EXCEPT ![k] = "trying"] /\ connected' = FALSE /\ heartbeat' = FALSE
          /\ UNCHANGED <<client, connecting, holder, hubSide>>
        BY <1>7 DEF LinkCloses
    <2>2. cuts' \in Nat
        BY <1>7 DEF LinkCloses, Cut, PresenceTypeOK
    <2>3. PresenceTypeOK' /\ UpIsHeld'
        BY <2>1, <2>2 DEF PresenceTypeOK, LinkStates, UpIsHeld, hubSide
    <2> QED
        BY <1>1, <2>1, <2>3
<1>8. ASSUME NEW k \in Links, LinkEnded(k) PROVE PresenceInv'
    <2>1. /\ link' = [link EXCEPT ![k] = "none"] /\ client' = NoLink /\ connected' = FALSE
          /\ UNCHANGED <<heartbeat, connecting, cuts>> /\ link[k] = "ending"
        BY <1>8 DEF LinkEnded
    <2>2. link' \in [Links -> LinkStates]
        BY <2>1 DEF PresenceTypeOK, LinkStates
    <2>3. CASE holder = k
        <3>1. holder' = NoLink /\ Logged(<<"disconnect">>)
            BY <1>8, <2>3 DEF LinkEnded
        <3>2. UpIsHeld' /\ HeldWord' = "disconnect"
            BY <2>1, <2>3, <3>1 DEF UpIsHeld, HeldWord, PresenceTypeOK
        <3>3. /\ toHub' \in Seq(Lines) /\ missed' \in BOOLEAN
              /\ UNCHANGED <<hubLink, recorded>>
              /\ LinesTell' /\ BeatsTell' /\ UpIsHeld' /\ (~hubLink' => toHub' = <<>>)
            BY <3>1, <3>2, LineSent
        <3> QED
            BY <2>1, <2>2, <3>1, <3>3 DEF PresenceTypeOK, Lines
    <2>4. CASE holder # k
        <3>1. Same
            BY <1>8, <2>4 DEF LinkEnded
        <3>2. PresenceTypeOK' /\ UpIsHeld'
            BY <2>1, <2>2, <3>1 DEF PresenceTypeOK, UpIsHeld, hubSide
        <3> QED
            BY <1>1, <3>1, <3>2
    <2> QED
        BY <2>3, <2>4
<1> QED
    BY <1>2, <1>3, <1>4, <1>5, <1>6, <1>7, <1>8

\* A heartbeat goes out, and what is on its way to the hub is handled or lost.
LEMMA HubPresenceStep ==
    ASSUME PresenceInv,
           SendHeartbeat \/ HandleLine \/ HandleHeartbeat \/ HubLinkDrops \/ HubLinkBack
    PROVE  PresenceInv'
<1> USE DEF PresenceInv
<1>0. toHub \in Seq(Lines) /\ "heartbeat" \in Lines
    BY DEF PresenceTypeOK, Lines
<1>1. CASE SendHeartbeat
    <2>1. toHub' = Append(toHub, "heartbeat")
          /\ UNCHANGED <<deviceSide, holder, hubLink, recorded, missed, cuts>>
        BY <1>1 DEF SendHeartbeat
    <2> DEFINE n == Len(toHub)
    <2>2. /\ toHub' \in Seq(Lines) /\ n \in Nat /\ DOMAIN toHub = 1..n /\ DOMAIN toHub' = 1..(n + 1)
          /\ \A i \in 1..n : toHub'[i] = toHub[i]
          /\ toHub'[n + 1] = "heartbeat"
        BY <1>0, <2>1, Added
    <2> HIDE DEF n
    <2>3. holder # NoLink
        BY <1>1, PresenceAssumption DEF SendHeartbeat, UpIsHeld, PresenceTypeOK
    <2>4. LinesTell'
        BY <2>1, <2>2, LastKept DEF LinesTell, HeldWord, RecordedWord
    <2>5. PresenceTypeOK'
        BY <2>1, <2>2 DEF PresenceTypeOK, deviceSide, Lines
    <2> QED
        BY <1>1, <2>1, <2>3, <2>4, <2>5 DEF SendHeartbeat, BeatsTell, UpIsHeld, deviceSide
<1>2. CASE HandleLine
    <2> DEFINE n == Len(Tail(toHub))
    <2>1. /\ toHub' \in Seq(Lines) /\ n \in Nat /\ DOMAIN toHub' = 1..n
          /\ DOMAIN toHub = 1..(n + 1) /\ Head(toHub) = toHub[1]
          /\ \A i \in 1..n : toHub'[i] = toHub[i + 1]
        BY <1>0, <1>2, Taken DEF HandleLine
    <2> HIDE DEF n
    <2>2. UNCHANGED <<deviceSide, holder, hubLink, cuts>> /\ missed' = FALSE
        BY <1>2 DEF HandleLine
    <2>3. /\ recorded' = IF toHub[1] = "connect" THEN "online" ELSE "offline"
          /\ toHub[1] \in {"connect", "disconnect"}
        <3>1. toHub[1] \in Lines
            BY <1>0, <2>1, ElementOfSeq
        <3> QED
            BY <1>2, <2>1, <3>1 DEF HandleLine, UpdateDeviceStatus, Lines
    <2>4. LinesTell'
        <3>1. RecordedWord' = toHub[1] /\ HeldWord' = HeldWord
            BY <2>2, <2>3 DEF RecordedWord, HeldWord
        <3>2. toHub[1] # "heartbeat"
            BY <2>3
        <3>3. LastIs(toHub', "heartbeat", toHub[1], HeldWord)
            BY <2>1, <3>2, LastTaken DEF LinesTell
        <3> QED
            BY <2>2, <3>1, <3>3 DEF LinesTell
    <2>5. BeatsTell'
        <3> SUFFICES ASSUME NEW i \in DOMAIN toHub',
                            \A j \in DOMAIN toHub' : j >= i => toHub'[j] = "heartbeat"
                     PROVE  holder # NoLink
            BY <2>2 DEF BeatsTell
        <3>1. i + 1 \in DOMAIN toHub
            BY <2>1
        <3>2. ASSUME NEW j \in DOMAIN toHub, j >= i + 1 PROVE toHub[j] = "heartbeat"
            <4>1. j - 1 \in DOMAIN toHub' /\ j - 1 >= i /\ toHub'[j - 1] = toHub[j]
                BY <2>1, <3>2
            <4> QED
                BY <4>1
        <3> QED
            BY <3>1, <3>2 DEF BeatsTell
    <2>6. PresenceTypeOK'
        BY <2>1, <2>2, <2>3 DEF PresenceTypeOK, deviceSide, Lines
    <2>7. ~hubLink' => toHub' = <<>>
        BY <1>2, <2>2 DEF HandleLine
    <2> QED
        BY <2>2, <2>4, <2>5, <2>6, <2>7 DEF UpIsHeld, deviceSide
<1>3. CASE HandleHeartbeat
    <2>1. PICK b \in DOMAIN toHub : toHub[b] = "heartbeat" /\ toHub' = RemoveAt(toHub, b)
        BY <1>3 DEF HandleHeartbeat
    <2> DEFINE n == Len(RemoveAt(toHub, b))
    <2>2. /\ toHub' \in Seq(Lines) /\ n \in Nat /\ DOMAIN toHub' = 1..n
          /\ DOMAIN toHub = 1..(n + 1)
          /\ \A j \in 1..n : toHub'[j] = toHub[IF j < b THEN j ELSE j + 1]
        BY <1>0, <2>1, Removed
    <2> HIDE DEF n
    <2>3. UNCHANGED <<deviceSide, holder, hubLink, missed, cuts>> /\ recorded' = "online"
        BY <1>3 DEF HandleHeartbeat, UpdateDeviceStatus
    <2>4. HeldWord' = HeldWord /\ RecordedWord' = "connect"
        BY <2>3 DEF HeldWord, RecordedWord
    <2>5. LastIs(toHub', "heartbeat", IF missed THEN HeldWord ELSE RecordedWord, HeldWord)
        BY <2>1, <2>2, LastWithout DEF LinesTell
    <2>6. (\A i \in DOMAIN toHub' : toHub'[i] = "heartbeat") => holder # NoLink
        <3> SUFFICES ASSUME \A i \in DOMAIN toHub' : toHub'[i] = "heartbeat"
                     PROVE  holder # NoLink
            OBVIOUS
        <3>1. ASSUME NEW j \in DOMAIN toHub, j # b PROVE toHub[j] = "heartbeat"
            <4>1. CASE j < b
                BY <2>2, <3>1, <4>1
            <4>2. CASE ~(j < b)
                <5>1. j - 1 \in DOMAIN toHub' /\ ~(j - 1 < b) /\ (j - 1) + 1 = j
                    BY <2>1, <2>2, <3>1, <4>2
                <5> QED
                    BY <2>2, <5>1
            <4> QED
                BY <4>1, <4>2
        <3>2. 1 \in DOMAIN toHub /\ \A j \in DOMAIN toHub : toHub[j] = "heartbeat"
            BY <2>1, <2>2, <3>1
        <3> QED
            BY <3>2 DEF BeatsTell
    <2>7. LinesTell'
        <3>1. holder # NoLink => HeldWord = "connect"
            BY DEF HeldWord
        <3> QED
            BY <2>3, <2>4, <2>5, <2>6, <3>1 DEF LinesTell, LastIs
    <2>8. BeatsTell'
        <3> SUFFICES ASSUME NEW i \in DOMAIN toHub',
                            \A j \in DOMAIN toHub' : j >= i => toHub'[j] = "heartbeat"
                     PROVE  holder # NoLink
            BY <2>3 DEF BeatsTell
        <3> DEFINE At == IF i < b THEN i ELSE i + 1
        <3>1. At \in DOMAIN toHub
            BY <2>1, <2>2
        <3>2. ASSUME NEW j \in DOMAIN toHub, j >= At PROVE toHub[j] = "heartbeat"
            <4>1. CASE j < b
                BY <2>2, <3>2, <4>1
            <4>2. CASE j = b
                BY <2>1, <4>2
            <4>3. CASE j > b
                <5>1. j - 1 \in DOMAIN toHub' /\ j - 1 >= i /\ ~(j - 1 < b) /\ (j - 1) + 1 = j
                    BY <2>1, <2>2, <3>2, <4>3
                <5> QED
                    BY <2>2, <5>1
            <4> QED
                BY <2>1, <2>2, <4>1, <4>2, <4>3
        <3> QED
            BY <3>1, <3>2 DEF BeatsTell
    <2>9. PresenceTypeOK'
        BY <2>2, <2>3 DEF PresenceTypeOK, deviceSide, Lines
    <2>10. ~hubLink' => toHub' = <<>>
        BY <2>1, <2>3
    <2> QED
        BY <2>3, <2>7, <2>8, <2>9, <2>10 DEF UpIsHeld, deviceSide
<1>4. CASE HubLinkDrops
    <2>1. /\ hubLink' = FALSE /\ toHub' = <<>> /\ Cut
          /\ missed' = (missed \/ \E i \in DOMAIN toHub : toHub[i] # "heartbeat")
          /\ UNCHANGED <<deviceSide, holder, recorded>>
        BY <1>4 DEF HubLinkDrops
    <2>2. DOMAIN toHub' = {} /\ toHub' \in Seq(Lines)
        BY <2>1
    <2>3. HeldWord' = HeldWord /\ RecordedWord' = RecordedWord
        BY <2>1 DEF HeldWord, RecordedWord
    <2>4. ~missed' => RecordedWord = HeldWord
        BY <2>1 DEF LinesTell, LastIs
    <2>5. LinesTell'
        BY <2>2, <2>3, <2>4, LastOfNone DEF LinesTell
    <2>6. PresenceTypeOK'
        <3>1. cuts' \in Nat
            BY <2>1 DEF Cut, PresenceTypeOK
        <3>2. missed' \in BOOLEAN
            BY <2>1
        <3> QED
            BY <2>1, <2>2, <3>1, <3>2 DEF PresenceTypeOK, deviceSide, Lines
    <2> QED
        BY <2>1, <2>2, <2>5, <2>6 DEF BeatsTell, UpIsHeld, deviceSide
<1>5. CASE HubLinkBack
    <2>1. UNCHANGED <<deviceSide, holder, toHub, recorded, missed, cuts>> /\ hubLink' = TRUE
        BY <1>5 DEF HubLinkBack
    <2>2. PresenceTypeOK'
        BY <2>1 DEF PresenceTypeOK, deviceSide
    <2> QED
        BY <2>1, <2>2 DEF LinesTell, BeatsTell, UpIsHeld, HeldWord, RecordedWord, deviceSide
<1> QED
    BY <1>1, <1>2, <1>3, <1>4, <1>5

\* The invariant holds in every state.
LEMMA PresenceInvariance == PresenceSpec => []PresenceInv
<1>1. PresenceInv /\ [PresenceNext]_presenceVars => PresenceInv'
    <2> SUFFICES ASSUME PresenceInv, [PresenceNext]_presenceVars PROVE PresenceInv'
        OBVIOUS
    <2>1. CASE UNCHANGED presenceVars
        BY <2>1 DEF presenceVars, deviceSide, hubSide, PresenceInv, PresenceTypeOK, LinesTell,
           BeatsTell, UpIsHeld, HeldWord, RecordedWord
    <2> QED
        BY <2>1, DevicePresenceStep, HubPresenceStep DEF PresenceNext
<1> QED
    BY PresenceInitInv, <1>1, PTL DEF PresenceSpec

\* Every variable of DevicePresence keeps its type (sdk/device-client, services/twin).
THEOREM PresenceTypeCorrect == PresenceSpec => []PresenceTypeOK
<1>1. PresenceInv => PresenceTypeOK
    BY DEF PresenceInv
<1> QED
    BY PresenceInvariance, <1>1, PTL

\* For any number of client objects, connections cut and heartbeats that overtake lines:
\* once the last line has been handled and none was missed, the hub shows what the broker
\* holds (updateDeviceStatus, twin/mqtt.ts).
THEOREM RecordedIsHeldTheorem == PresenceSpec => []RecordedIsHeld
<1>1. PresenceInv => RecordedIsHeld
    <2> SUFFICES ASSUME PresenceInv, toHub = <<>>, ~missed
                 PROVE  recorded = "online" <=> holder # NoLink
        BY DEF RecordedIsHeld
    <2>1. DOMAIN toHub = {}
        OBVIOUS
    <2>2. RecordedWord = HeldWord
        BY <2>1, LastOfNone DEF PresenceInv, LinesTell
    <2> QED
        BY <2>2 DEF RecordedWord, HeldWord
<1> QED
    BY PresenceInvariance, <1>1, PTL

-----------------------------------------------------------------------------
(* DeviceTwin.  The deltas on their way bring each property to what is        *)
(* desired, wherever the documents differ; the reports on their way bring the *)
(* hub's document to the device's properties.                                 *)

DeltasFor(k) == [i \in DOMAIN toDevice |-> toDevice[i][k]]
ReportWord(m, k) == IF m.type = "reported" THEN m.patch[k] ELSE None
ReportsFor(k) == [i \in DOMAIN toTwin |-> ReportWord(toTwin[i], k)]

DesiredComes ==
    \A k \in Keys : desired.doc[k] \notin {None, reported.doc[k]} =>
        LastIs(DeltasFor(k), None, state[k], desired.doc[k])

ReportsCome ==
    ~lost => \A k \in Keys : LastIs(ReportsFor(k), None, reported.doc[k], state[k])

\* What the device took last and may be sent again is still what it has.
UnackedIsState ==
    /\ unacked = <<>> \/ \E delta \in Docs : unacked = <<delta>>
    /\ \A i \in DOMAIN unacked, k \in Keys : unacked[i][k] \in {None, state[k]}

TwinInv == TwinTypeOK /\ DesiredComes /\ ReportsCome /\ UnackedIsState

\* Patches are documents.
LEMMA SingleDoc ==
    ASSUME NEW k \in Keys, NEW v \in Values
    PROVE  /\ Single(k, v) \in Docs
           /\ \A l \in Keys : Single(k, v)[l] = IF l = k THEN v ELSE None
BY DEF Single, Empty, Docs

\* There is nothing in the documents at first.
LEMMA TwinInitInv == TwinInit => TwinInv
<1> SUFFICES ASSUME TwinInit PROVE TwinInv
    OBVIOUS
<1>1. TwinTypeOK
    <2>1. Empty \in Docs
        BY DEF Empty, Docs
    <2>2. <<>> \in Seq(Updates) /\ <<>> \in Seq(Docs)
        OBVIOUS
    <2>3. desired \in Twins /\ reported \in Twins
        BY <2>1 DEF TwinInit, Twins
    <2> QED
        BY <2>1, <2>2, <2>3 DEF TwinInit, TwinTypeOK
<1>2. \A k \in Keys : desired.doc[k] = None /\ reported.doc[k] = state[k]
    BY DEF TwinInit, Empty
<1>3. ReportsCome
    <2>1. \A k \in Keys : DOMAIN ReportsFor(k) = {}
        BY DEF TwinInit, ReportsFor
    <2> QED
        BY <1>2, <2>1, LastOfNone DEF ReportsCome
<1>4. UnackedIsState
    BY DEF TwinInit, UnackedIsState
<1> QED
    BY <1>1, <1>2, <1>3, <1>4 DEF TwinInv, DesiredComes

\* An update sent to the twin service, whatever it says: the reports on their way still
\* end at the device's properties if it reports what it changes.
LEMMA UpdateSent ==
    ASSUME TwinTypeOK, ReportsCome, NEW m \in Updates, Update(m), UNCHANGED reported,
           \A k \in Keys : \/ ReportWord(m, k) = None /\ state'[k] = state[k]
                           \/ ReportWord(m, k) # None /\ state'[k] = ReportWord(m, k)
    PROVE  toTwin' \in Seq(Updates) /\ lost' \in BOOLEAN /\ ReportsCome'
<1>0. toTwin \in Seq(Updates)
    BY DEF TwinTypeOK
<1>1. CASE twinUp
    <2>1. toTwin' = Append(toTwin, m) /\ UNCHANGED lost
        BY <1>1 DEF Update
    <2> DEFINE n == Len(toTwin)
    <2>2. /\ toTwin' \in Seq(Updates) /\ n \in Nat /\ DOMAIN toTwin = 1..n
          /\ DOMAIN toTwin' = 1..(n + 1) /\ toTwin'[n + 1] = m
          /\ \A i \in 1..n : toTwin'[i] = toTwin[i]
        BY <1>0, <2>1, Added
    <2> HIDE DEF n
    <2>3. ASSUME ~lost, NEW k \in Keys
          PROVE  LastIs(ReportsFor(k)', None, reported.doc[k], state'[k])
        <3> DEFINE old == ReportsFor(k)
                   new == ReportsFor(k)'
        <3>1. /\ DOMAIN old = 1..n /\ DOMAIN new = 1..(n + 1)
              /\ \A i \in 1..n : new[i] = old[i]
              /\ new[n + 1] = ReportWord(m, k)
            BY <2>2 DEF ReportsFor, ReportWord
        <3>2. LastIs(old, None, reported.doc[k], state[k])
            BY <2>3 DEF ReportsCome
        <3> HIDE DEF old, new
        <3>3. CASE ReportWord(m, k) = None /\ state'[k] = state[k]
            BY <2>2, <3>1, <3>2, <3>3, LastKept DEF new
        <3>4. CASE ReportWord(m, k) # None /\ state'[k] = ReportWord(m, k)
            BY <2>2, <3>1, <3>4, LastSaid DEF new
        <3> QED
            BY <3>3, <3>4
    <2> QED
        BY <2>1, <2>2, <2>3 DEF ReportsCome, TwinTypeOK
<1>2. CASE ~twinUp
    BY <1>0, <1>2 DEF Update, ReportsCome
<1> QED
    BY <1>1, <1>2

\* Steps of applications and of the device's own properties.
LEMMA PatchStep ==
    ASSUME TwinInv, NEW k \in Keys, NEW v \in Values, PatchDesired(k, v) \/ ReportState(k, v)
    PROVE  TwinInv'
<1> USE DEF TwinInv
<1>0. patches' \in Nat
    BY DEF PatchDesired, ReportState, TwinTypeOK
<1>1. CASE PatchDesired(k, v)
    <2> DEFINE m == [type |-> "desired", patch |-> Single(k, v)]
    <2>1. m \in Updates /\ \A l \in Keys : ReportWord(m, l) = None
        BY SingleDoc DEF Updates, ReportWord
    <2>2. Update(m) /\ UNCHANGED <<hubTwin, twinUp, toDevice, deviceTwin, cuts2>>
        BY <1>1 DEF PatchDesired
    <2> HIDE DEF m
    <2>3. toTwin' \in Seq(Updates) /\ lost' \in BOOLEAN /\ ReportsCome'
        BY <2>1, <2>2, UpdateSent DEF hubTwin, deviceTwin
    <2>4. TwinTypeOK'
        BY <1>0, <2>2, <2>3 DEF hubTwin, deviceTwin, TwinTypeOK
    <2>5. DesiredComes' /\ UnackedIsState'
        BY <2>2 DEF hubTwin, deviceTwin, DesiredComes, DeltasFor, UnackedIsState
    <2> QED
        BY <2>3, <2>4, <2>5
<1>2. CASE ReportState(k, v)
    <2> DEFINE m == [type |-> "reported", patch |-> Single(k, v)]
    <2>1. /\ m \in Updates
          /\ \A l \in Keys : ReportWord(m, l) = IF l = k THEN v ELSE None
        BY SingleDoc DEF Updates, ReportWord
    <2>2. /\ Update(m) /\ state[k] = None /\ state' = [state EXCEPT ![k] = v]
          /\ UNCHANGED <<hubTwin, twinUp, toDevice, unacked, deviceUp, cuts2>>
        BY <1>2 DEF ReportState
    <2> HIDE DEF m
    <2>3. state' \in Docs /\ \A l \in Keys : state'[l] = IF l = k THEN v ELSE state[l]
        BY <2>2 DEF TwinTypeOK, Docs
    <2>4. toTwin' \in Seq(Updates) /\ lost' \in BOOLEAN /\ ReportsCome'
        BY <2>1, <2>2, <2>3, UpdateSent, TwinAssumption DEF hubTwin
    <2>5. TwinTypeOK'
        BY <1>0, <2>2, <2>3, <2>4 DEF hubTwin, TwinTypeOK
    <2>6. DesiredComes'
        BY <2>2, <2>3 DEF hubTwin, DesiredComes, DeltasFor, LastIs
    <2>7. UnackedIsState'
        BY <2>2, <2>3 DEF UnackedIsState
    <2> QED
        BY <2>4, <2>5, <2>6, <2>7
<1> QED
    BY <1>1, <1>2

\* The twin service handles an update and sends the delta of the documents.
LEMMA UpdateHandled == ASSUME TwinInv, HandleUpdate PROVE TwinInv'
<1> USE DEF TwinInv
<1> DEFINE m == Head(toTwin)
           d == IF m.type = "desired" THEN Merge(desired, m.patch) ELSE desired
           r == IF m.type = "reported" THEN Merge(reported, m.patch) ELSE reported
           n == Len(Tail(toTwin))
<1>1. /\ desired' = d /\ reported' = r /\ toTwin' = Tail(toTwin) /\ toTwin # <<>>
      /\ UNCHANGED <<twinUp, deviceTwin, lost, patches, cuts2>>
      /\ IF Differ(d.doc, r.doc) THEN toDevice' = Append(toDevice, ShallowDelta(d.doc, r.doc))
                                 ELSE UNCHANGED toDevice
    BY DEF HandleUpdate
<1>2. /\ toTwin' \in Seq(Updates) /\ n \in Nat /\ DOMAIN toTwin' = 1..n
      /\ DOMAIN toTwin = 1..(n + 1) /\ m = toTwin[1] /\ m \in Updates
      /\ \A i \in 1..n : toTwin'[i] = toTwin[i + 1]
    BY <1>1, Taken DEF TwinTypeOK
<1> HIDE DEF m, n
<1>3. d \in Twins /\ r \in Twins
    BY <1>2 DEF Merge, TwinTypeOK, Twins, Updates, Docs
<1>4. \A k \in Keys : r.doc[k] = IF ReportWord(m, k) = None THEN reported.doc[k] ELSE ReportWord(m, k)
    BY <1>2 DEF Merge, ReportWord, TwinTypeOK, Twins, Updates
<1> HIDE DEF d, r
<1>5. ShallowDelta(d.doc, r.doc) \in Docs
    BY <1>3 DEF ShallowDelta, Twins, Docs
<1>6. toDevice' \in Seq(Docs)
    <2>1. CASE Differ(d.doc, r.doc)
        <3>1. toDevice \in Seq(Docs)
            BY DEF TwinTypeOK
        <3>2. Append(toDevice, ShallowDelta(d.doc, r.doc)) \in Seq(Docs)
            BY <1>5, <3>1, Added
        <3>3. toDevice' = Append(toDevice, ShallowDelta(d.doc, r.doc))
            BY <1>1, <2>1
        <3> QED
            BY <3>2, <3>3
    <2>2. CASE ~Differ(d.doc, r.doc)
        BY <1>1, <2>2 DEF TwinTypeOK
    <2> QED
        BY <2>1, <2>2
<1>7. TwinTypeOK'
    BY <1>1, <1>2, <1>3, <1>6 DEF TwinTypeOK, deviceTwin
<1>8. DesiredComes'
    <2> SUFFICES ASSUME NEW k \in Keys, d.doc[k] \notin {None, r.doc[k]}
                 PROVE  LastIs(DeltasFor(k)', None, state[k], d.doc[k])
        BY <1>1 DEF DesiredComes, deviceTwin
    <2>1. toDevice' = Append(toDevice, ShallowDelta(d.doc, r.doc))
        BY <1>1 DEF Differ
    <2>2. ShallowDelta(d.doc, r.doc)[k] = d.doc[k]
        BY DEF ShallowDelta
    <2> DEFINE l == Len(toDevice)
    <2>3. l \in Nat /\ DOMAIN toDevice' = 1..(l + 1) /\ toDevice'[l + 1] = ShallowDelta(d.doc, r.doc)
        BY <1>5, <2>1, Added DEF TwinTypeOK
    <2> HIDE DEF l
    <2> DEFINE new == DeltasFor(k)'
    <2>4. DOMAIN new = 1..(l + 1) /\ new[l + 1] = d.doc[k]
        BY <2>2, <2>3 DEF DeltasFor
    <2> HIDE DEF new
    <2>5. LastIs(new, None, state[k], d.doc[k])
        BY <2>3, <2>4, LastSaid
    <2> QED
        BY <2>5 DEF new
<1>9. ReportsCome'
    <2> SUFFICES ASSUME ~lost, NEW k \in Keys
                 PROVE  LastIs(ReportsFor(k)', None, r.doc[k], state[k])
        BY <1>1 DEF ReportsCome, deviceTwin
    <2> DEFINE old == ReportsFor(k)
               new == ReportsFor(k)'
    <2>1. /\ DOMAIN old = 1..(n + 1) /\ DOMAIN new = 1..n
          /\ old[1] = ReportWord(m, k) /\ \A i \in 1..n : new[i] = old[i + 1]
        BY <1>2 DEF ReportsFor
    <2>2. LastIs(old, None, reported.doc[k], state[k])
        BY DEF ReportsCome
    <2> HIDE DEF old, new
    <2>3. LastIs(new, None, IF old[1] = None THEN reported.doc[k] ELSE old[1], state[k])
        BY <1>2, <2>1, <2>2, LastTaken
    <2> QED
        BY <1>4, <2>1, <2>3 DEF new
<1>10. UnackedIsState'
    BY <1>1 DEF UnackedIsState, deviceTwin
<1> QED
    BY <1>7, <1>8, <1>9, <1>10

\* The device applies a delta and reports it.
LEMMA DeltaHandled == ASSUME TwinInv, HandleTwinDelta PROVE TwinInv'
<1> USE DEF TwinInv
<1> DEFINE delta == Head(toDevice)
           n == Len(Tail(toDevice))
           m == [type |-> "reported", patch |-> delta]
<1>1. /\ toDevice # <<>> /\ toDevice' = Tail(toDevice) /\ unacked' = <<delta>>
      /\ state' = Apply(delta)
      /\ IF delta = Empty THEN UNCHANGED <<toTwin, lost>> ELSE Update(m)
      /\ UNCHANGED <<hubTwin, twinUp, deviceUp, patches, cuts2>>
    BY DEF HandleTwinDelta
<1>2. /\ toDevice' \in Seq(Docs) /\ n \in Nat /\ DOMAIN toDevice' = 1..n
      /\ DOMAIN toDevice = 1..(n + 1) /\ delta = toDevice[1] /\ delta \in Docs
      /\ \A i \in 1..n : toDevice'[i] = toDevice[i + 1]
    BY <1>1, Taken DEF TwinTypeOK
<1> HIDE DEF delta, n
<1>3. /\ state' \in Docs
      /\ \A k \in Keys : state'[k] = IF delta[k] # None THEN delta[k] ELSE state[k]
    BY <1>1, <1>2 DEF Apply, TwinTypeOK, Docs
<1>4. m \in Updates /\ \A k \in Keys : ReportWord(m, k) = delta[k]
    BY <1>2 DEF Updates, ReportWord
<1> HIDE DEF m
<1>5. toTwin' \in Seq(Updates) /\ lost' \in BOOLEAN /\ ReportsCome'
    <2>1. CASE delta = Empty
        <3>1. \A k \in Keys : state'[k] = state[k]
            BY <1>3, <2>1 DEF Empty
        <3> QED
            BY <1>1, <2>1, <3>1 DEF TwinTypeOK, ReportsCome, ReportsFor, hubTwin
    <2>2. CASE delta # Empty
        BY <1>1, <1>3, <1>4, <2>2, UpdateSent DEF hubTwin
    <2> QED
        BY <2>1, <2>2
<1>6. TwinTypeOK'
    <2>1. unacked' \in Seq(Docs)
        BY <1>1, <1>2
    <2> QED
        BY <1>1, <1>2, <1>3, <1>5, <2>1 DEF TwinTypeOK, hubTwin
<1>7. DesiredComes'
    <2> SUFFICES ASSUME NEW k \in Keys, desired.doc[k] \notin {None, reported.doc[k]}
                 PROVE  LastIs(DeltasFor(k)', None, state'[k], desired.doc[k])
        BY <1>1 DEF DesiredComes, hubTwin
    <2> DEFINE old == DeltasFor(k)
               new == DeltasFor(k)'
    <2>1. /\ DOMAIN old = 1..(n + 1) /\ DOMAIN new = 1..n
          /\ old[1] = delta[k] /\ \A i \in 1..n : new[i] = old[i + 1]
        BY <1>2 DEF DeltasFor
    <2>2. LastIs(old, None, state[k], desired.doc[k])
        BY DEF DesiredComes
    <2> HIDE DEF old, new
    <2>3. LastIs(new, None, IF old[1] = None THEN state[k] ELSE old[1], desired.doc[k])
        BY <1>2, <2>1, <2>2, LastTaken
    <2> QED
        BY <1>3, <2>1, <2>3 DEF new
<1>8. UnackedIsState'
    BY <1>1, <1>2, <1>3 DEF UnackedIsState
<1> QED
    BY <1>5, <1>6, <1>7, <1>8

\* Connections that are lost and come back.
LEMMA LinkStep ==
    ASSUME TwinInv,
           \/ PatchUnsent \/ TwinDrops \/ TwinBack \/ Acknowledged
           \/ DeviceDisconnects \/ DeviceResumes
    PROVE  TwinInv'
<1> USE DEF TwinInv
<1>1. CASE PatchUnsent
    <2>1. patches' \in Nat
        BY <1>1 DEF PatchUnsent, TwinTypeOK
    <2>2. TwinTypeOK'
        BY <1>1, <2>1 DEF PatchUnsent, TwinTypeOK, hubTwin, deviceTwin
    <2> QED
        BY <1>1, <2>2 DEF PatchUnsent, DesiredComes, DeltasFor, ReportsCome, UnackedIsState,
           hubTwin, deviceTwin
<1>2. CASE TwinDrops
    <2>1. /\ toTwin' = <<>> /\ lost' = (lost \/ toTwin # <<>>) /\ twinUp' = FALSE
          /\ UNCHANGED <<hubTwin, toDevice, deviceTwin, patches>>
        BY <1>2 DEF TwinDrops
    <2>2. cuts2' \in Nat
        BY <1>2 DEF TwinDrops, CutOff, TwinTypeOK
    <2>3. toTwin' \in Seq(Updates) /\ lost' \in BOOLEAN
        BY <2>1
    <2>4. TwinTypeOK'
        BY <2>1, <2>2, <2>3 DEF TwinTypeOK, hubTwin, deviceTwin
    <2>5. ~lost' => ~lost /\ toTwin' = toTwin
        BY <2>1
    <2> QED
        BY <2>1, <2>4, <2>5 DEF DesiredComes, DeltasFor, ReportsCome, ReportsFor,
           UnackedIsState, hubTwin, deviceTwin
<1>3. CASE TwinBack
    <2>1. TwinTypeOK'
        BY <1>3 DEF TwinBack, TwinTypeOK, hubTwin, deviceTwin
    <2> QED
        BY <1>3, <2>1 DEF TwinBack, DesiredComes, DeltasFor, ReportsCome, ReportsFor,
           UnackedIsState, hubTwin, deviceTwin
<1>4. CASE Acknowledged
    <2>1. /\ unacked' = <<>>
          /\ UNCHANGED <<hubTwin, toTwin, twinUp, toDevice, deviceUp, state, lost, patches, cuts2>>
        BY <1>4 DEF Acknowledged
    <2>2. unacked' \in Seq(Docs) /\ DOMAIN unacked' = {}
        BY <2>1
    <2>3. TwinTypeOK'
        BY <2>1, <2>2 DEF TwinTypeOK, hubTwin
    <2> QED
        BY <2>1, <2>2, <2>3 DEF DesiredComes, DeltasFor, ReportsCome, ReportsFor,
           UnackedIsState, hubTwin
<1>5. CASE DeviceDisconnects
    <2>1. deviceUp' = FALSE
          /\ UNCHANGED <<hubTwin, toTwin, twinUp, toDevice, unacked, state, lost, patches>>
        BY <1>5 DEF DeviceDisconnects
    <2>2. cuts2' \in Nat
        BY <1>5 DEF DeviceDisconnects, CutOff, TwinTypeOK
    <2>3. TwinTypeOK'
        BY <2>1, <2>2 DEF TwinTypeOK, hubTwin
    <2> QED
        BY <2>1, <2>3 DEF DesiredComes, DeltasFor, ReportsCome, ReportsFor,
           UnackedIsState, hubTwin
<1>6. CASE DeviceResumes
    <2>1. /\ toDevice' = unacked \o toDevice /\ unacked' = <<>> /\ deviceUp' = TRUE
          /\ UNCHANGED <<hubTwin, toTwin, twinUp, state, lost, patches, cuts2>>
        BY <1>6 DEF DeviceResumes
    <2>2. unacked' \in Seq(Docs) /\ DOMAIN unacked' = {}
        BY <2>1
    <2>3. toDevice' \in Seq(Docs)
        BY <2>1, ConcatProperties DEF TwinTypeOK
    <2>4. TwinTypeOK'
        BY <2>1, <2>2, <2>3 DEF TwinTypeOK, hubTwin
    <2>5. CASE unacked = <<>>
        <3>1. toDevice' = toDevice
            BY <2>1, <2>5, ConcatEmptySeq DEF TwinTypeOK
        <3> QED
            BY <2>1, <2>2, <2>4, <3>1 DEF DesiredComes, DeltasFor, ReportsCome, ReportsFor,
               UnackedIsState, hubTwin
    <2>6. ASSUME NEW delta \in Docs, unacked = <<delta>> PROVE DesiredComes'
        <3> SUFFICES ASSUME NEW k \in Keys, desired.doc[k] \notin {None, reported.doc[k]}
                     PROVE  LastIs(DeltasFor(k)', None, state[k], desired.doc[k])
            BY <2>1 DEF DesiredComes, hubTwin
        <3> DEFINE n == Len(toDevice)
                   old == DeltasFor(k)
                   new == DeltasFor(k)'
        <3>1. n \in Nat /\ DOMAIN toDevice = 1..n
            BY LenProperties DEF TwinTypeOK
        <3>2. Len(unacked) = 1 /\ unacked[1] = delta /\ unacked \in Seq(Docs)
            BY <2>6 DEF TwinTypeOK
        <3>3. /\ Len(toDevice') = 1 + n
              /\ \A i \in 1..(1 + n) : toDevice'[i] = IF i <= 1 THEN unacked[i] ELSE toDevice[i - 1]
            <4>1. toDevice \in Seq(Docs) /\ toDevice' = unacked \o toDevice
                BY <2>1 DEF TwinTypeOK
            <4>2. /\ Len(unacked \o toDevice) = Len(unacked) + n
                  /\ \A i \in 1..(Len(unacked) + n) :
                        (unacked \o toDevice)[i]
                            = IF i <= Len(unacked) THEN unacked[i] ELSE toDevice[i - Len(unacked)]
                BY <3>2, <4>1, ConcatProperties
            <4> HIDE DEF n
            <4> QED
                BY <3>2, <4>1, <4>2
        <3>4. DOMAIN toDevice' = 1..(1 + n)
            BY <2>3, <3>3, LenProperties
        <3> HIDE DEF n
        <3>5. toDevice'[1] = delta /\ \A i \in 1..n : toDevice'[i + 1] = toDevice[i]
            BY <3>1, <3>2, <3>3
        <3>6. /\ DOMAIN old = 1..n /\ DOMAIN new = 1..(n + 1)
              /\ new[1] = delta[k] /\ \A i \in 1..n : new[i + 1] = old[i]
            BY <3>1, <3>4, <3>5 DEF DeltasFor
        <3>7. delta[k] \in {None, state[k]}
            <4>1. 1 \in DOMAIN unacked
                BY <3>2, LenProperties
            <4> QED
                BY <3>2, <4>1 DEF UnackedIsState
        <3>8. LastIs(old, None, state[k], desired.doc[k])
            BY DEF DesiredComes
        <3> HIDE DEF old, new
        <3>9. LastIs(new, None, state[k], desired.doc[k])
            BY <3>1, <3>6, <3>7, <3>8, LastRepeated
        <3> QED
            BY <3>9 DEF new
    <2>7. ReportsCome' /\ UnackedIsState'
        BY <2>1, <2>2 DEF ReportsCome, ReportsFor, UnackedIsState, hubTwin
    <2> QED
        BY <2>4, <2>5, <2>6, <2>7 DEF UnackedIsState
<1> QED
    BY <1>1, <1>2, <1>3, <1>4, <1>5, <1>6

\* The invariant holds in every state.
LEMMA TwinInvariance == TwinSpec => []TwinInv
<1>1. TwinInv /\ [TwinNext]_twinVars => TwinInv'
    <2> SUFFICES ASSUME TwinInv, [TwinNext]_twinVars PROVE TwinInv'
        OBVIOUS
    <2>1. CASE UNCHANGED twinVars
        BY <2>1 DEF twinVars, hubTwin, deviceTwin, TwinInv, TwinTypeOK, DesiredComes, DeltasFor,
           ReportsCome, ReportsFor, UnackedIsState
    <2> QED
        BY <2>1, PatchStep, UpdateHandled, DeltaHandled, LinkStep DEF TwinNext
<1> QED
    BY TwinInitInv, <1>1, PTL DEF TwinSpec

\* Every variable of DeviceTwin keeps its type (services/twin, sdk/device-client).
THEOREM TwinTypeCorrect == TwinSpec => []TwinTypeOK
<1>1. TwinInv => TwinTypeOK
    BY DEF TwinInv
<1> QED
    BY TwinInvariance, <1>1, PTL

\* For any properties, values, queue lengths, repeated deliveries and crossings of updates
\* with reports: when nothing is on its way and no update was lost, the device has what is
\* desired and the hub knows it (handleTwinUpdate, shallowDelta, handleTwinDelta).
THEOREM QuietMeansSyncedTheorem == TwinSpec => []QuietMeansSynced
<1>1. TwinInv => QuietMeansSynced
    <2> SUFFICES ASSUME TwinInv, toTwin = <<>>, toDevice = <<>>, ~lost, NEW k \in Keys
                 PROVE  /\ reported.doc[k] = state[k]
                        /\ desired.doc[k] # None => state[k] = desired.doc[k]
        BY DEF QuietMeansSynced
    <2>1. DOMAIN ReportsFor(k) = {} /\ DOMAIN DeltasFor(k) = {}
        BY DEF ReportsFor, DeltasFor
    <2>2. reported.doc[k] = state[k]
        BY <2>1, LastOfNone DEF TwinInv, ReportsCome
    <2>3. desired.doc[k] \notin {None, reported.doc[k]} => state[k] = desired.doc[k]
        BY <2>1, LastOfNone DEF TwinInv, DesiredComes
    <2> QED
        BY <2>2, <2>3
<1> QED
    BY TwinInvariance, <1>1, PTL

-----------------------------------------------------------------------------
(* NodeRed.  An open connection is subscribed to what the nodes watch.         *)

\* The configuration node holds a client exactly while it has nodes, and polls while up.
Holds == /\ registered = {} <=> hubClient = NoClient
         /\ hubState = "up" => polling

NodeRedInv == NodeRedTypeOK /\ Holds /\ ServedWhenUp

Conns == {"unused", "checking", "refused", "opening", "open", "waiting", "closing", "gone"}
States == {"idle", "connecting", "up", "down"}
DeviceStates == {"none", "online", "offline", "absent"}

\* Nodes watch devices that the flows name.
LEMMA WatchedDevices == ASSUME NEW S \in SUBSET Nodes PROVE {Device[n] : n \in S} \subseteq DeviceIds
BY NodeRedAssumption DEF DeviceIds, Range

\* No device has an entry.
LEMMA NothingKnown == Nothing \in [DeviceIds -> DeviceStates]
BY DEF Nothing, DeviceStates

\* A change of the hub's state leaves a state per device.
LEMMA SetHubStateKeeps ==
    ASSUME NodeRedTypeOK, NEW s \in States, SetHubState(s)
    PROVE  hubState' = s /\ deviceState' \in [DeviceIds -> DeviceStates]
BY NothingKnown DEF SetHubState, NodeRedTypeOK, DeviceStates

\* A fault is counted up to its bound.
LEMMA Faulty ==
    ASSUME NodeRedTypeOK, Fault PROVE faults' \in 0..MaxFaults
<1>1. faults \in 0..MaxFaults /\ faults < MaxFaults /\ faults' = faults + 1
    BY DEF NodeRedTypeOK, Fault
<1> QED
    BY <1>1, NodeRedAssumption

\* There are no nodes and no clients at first.
LEMMA NodeRedInitInv == NodeRedInit => NodeRedInv
<1> SUFFICES ASSUME NodeRedInit PROVE NodeRedInv
    OBVIOUS
<1>1. NodeRedTypeOK
    <2>1. 0 \in 0..MaxAsked /\ 0 \in 0..MaxFaults
        BY NodeRedAssumption
    <2> QED
        BY <2>1, NothingKnown DEF NodeRedInit, NodeRedTypeOK, DeviceStates
<1>2. Holds /\ ServedWhenUp
    BY DEF NodeRedInit, Holds, ServedWhenUp
<1> QED
    BY <1>1, <1>2 DEF NodeRedInv

\* The last node leaves: the client is let go.
LEMMA LetGoKeeps ==
    ASSUME NodeRedInv, NEW n \in registered, registered' = {}, LetGo, UNCHANGED <<asking, faults>>
    PROVE  NodeRedInv'
<1>1. hubClient \in Clients
    BY DEF NodeRedInv, NodeRedTypeOK, Holds
<1>2. conn' \in [Clients -> Conns]
    <2>1. conn \in [Clients -> Conns]
        BY DEF NodeRedInv, NodeRedTypeOK, Conns
    <2> QED
        BY <1>1, <2>1 DEF LetGo, Conns
<1>3. left' \in [Clients -> BOOLEAN]
    BY <1>1 DEF LetGo, NodeRedInv, NodeRedTypeOK
<1>4. NodeRedTypeOK'
    BY <1>2, <1>3, NothingKnown DEF LetGo, NodeRedInv, NodeRedTypeOK, Conns, DeviceStates
<1>5. Holds' /\ ServedWhenUp'
    BY DEF LetGo, Holds, ServedWhenUp
<1> QED
    BY <1>4, <1>5 DEF NodeRedInv

\* Every event of a node or of a client, current or left, keeps the invariant.
LEMMA NodeRedStep == NodeRedInv /\ [NodeRedNext]_nodeRedVars => NodeRedInv'
<1> SUFFICES ASSUME NodeRedInv, [NodeRedNext]_nodeRedVars PROVE NodeRedInv'
    OBVIOUS
<1> USE DEF NodeRedInv
<1>c. conn \in [Clients -> Conns]
    BY DEF NodeRedTypeOK, Conns
<1>w. Watched \in SUBSET DeviceIds
    BY WatchedDevices DEF Watched, NodeRedTypeOK
<1>1. ASSUME NEW n \in Nodes, Register(n) PROVE NodeRedInv'
    <2> DEFINE watched == Watched \cup {Device[n]}
    <2>1. /\ registered' = registered \cup {n} /\ registered' \subseteq Nodes /\ registered' # {}
          /\ Watched' = watched /\ watched \in SUBSET DeviceIds
          /\ UNCHANGED <<polling, asking, left, faults>>
        <3>1. registered' = registered \cup {n} /\ UNCHANGED <<polling, asking, left, faults>>
            BY <1>1 DEF Register
        <3>2. Watched' = watched
            BY <3>1 DEF Watched
        <3>3. registered' \in SUBSET Nodes /\ registered' # {}
            BY <1>1, <3>1 DEF NodeRedTypeOK
        <3> QED
            BY <3>1, <3>2, <3>3, WatchedDevices DEF Watched
    <2>2. PushSubscription(hubClient', hubState', watched, conn', subscription)
        BY <1>1 DEF Register
    <2> HIDE DEF watched
    <2>3. CASE hubClient = NoClient
        <3>1. PICK c \in Clients : /\ hubClient' = c /\ conn' = [conn EXCEPT ![c] = "checking"]
                                   /\ SetHubState("connecting")
            BY <1>1, <2>3 DEF Register
        <3>2. hubState' = "connecting" /\ deviceState' \in [DeviceIds -> DeviceStates]
            BY <3>1, SetHubStateKeeps DEF States
        <3>3. subscription' \in [Clients -> SUBSET DeviceIds]
            BY <2>1, <2>2, <3>1
               DEF PushSubscription, SubscribeToDevices, HandleSubscribe, NodeRedTypeOK
        <3>4. conn' \in [Clients -> Conns]
            BY <1>c, <3>1 DEF Conns
        <3>5. NodeRedTypeOK'
            BY <2>1, <3>1, <3>2, <3>3, <3>4 DEF NodeRedTypeOK, Conns, DeviceStates
        <3>6. Holds' /\ ServedWhenUp'
            BY <2>1, <3>1, <3>2, NodeRedAssumption DEF Holds, ServedWhenUp
        <3> QED
            BY <3>5, <3>6
    <2>4. CASE hubClient # NoClient
        <3>1. UNCHANGED <<hubClient, conn, hubState, deviceState>>
            BY <1>1, <2>4 DEF Register
        <3>2. /\ subscription' \in [Clients -> SUBSET DeviceIds]
              /\ hubState = "up" /\ watched # {} /\ conn[hubClient] = "open"
                    => subscription'[hubClient] = watched
            <4>1. PushSubscription(hubClient, hubState, watched, conn, subscription)
                BY <2>2, <3>1
            <4>2. hubClient \in Clients \cup {NoClient} /\ subscription \in [Clients -> SUBSET DeviceIds]
                BY DEF NodeRedTypeOK
            <4> QED
                BY <2>1, <2>4, <4>1, <4>2
                    DEF PushSubscription, SubscribeToDevices, HandleSubscribe
        <3>3. watched # {}
            BY DEF watched
        <3>4. NodeRedTypeOK'
            BY <2>1, <3>1, <3>2 DEF NodeRedTypeOK
        <3>5. Holds' /\ ServedWhenUp'
            BY <2>1, <2>4, <3>1, <3>2, <3>3 DEF Holds, ServedWhenUp
        <3> QED
            BY <3>4, <3>5
    <2> QED
        BY <2>3, <2>4
<1>2. ASSUME NEW n \in Nodes, Unregister(n) PROVE NodeRedInv'
    <2> DEFINE others == {Device[m] : m \in registered \ {n}}
    <2>1. n \in registered /\ registered' = registered \ {n} /\ UNCHANGED <<asking, faults>>
        BY <1>2 DEF Unregister
    <2>2. CASE registered = {n}
        BY <1>2, <2>1, <2>2, LetGoKeeps DEF Unregister
    <2>3. CASE registered # {n}
        <3>1. /\ deviceState' = IF Device[n] \in others THEN deviceState
                                ELSE [deviceState EXCEPT ![Device[n]] = "none"]
              /\ PushSubscription(hubClient, hubState, others, conn, subscription)
              /\ UNCHANGED <<hubClient, hubState, polling, conn, left>>
            BY <1>2, <2>3 DEF Unregister
        <3>2. Watched' = others /\ others \in SUBSET DeviceIds /\ others # {} /\ registered' # {}
            <4>1. Watched' = others
                BY <2>1 DEF Watched
            <4>2. registered \ {n} \in SUBSET Nodes /\ registered \ {n} # {}
                BY <2>1, <2>3 DEF NodeRedTypeOK
            <4> QED
                BY <2>1, <4>1, <4>2, WatchedDevices
        <3> HIDE DEF others
        <3>3. hubClient # NoClient
            BY <2>1 DEF Holds
        <3>4. /\ subscription' \in [Clients -> SUBSET DeviceIds]
              /\ hubState = "up" /\ conn[hubClient] = "open" => subscription'[hubClient] = others
            BY <3>1, <3>2, <3>3
               DEF PushSubscription, SubscribeToDevices, HandleSubscribe, NodeRedTypeOK
        <3>5. deviceState' \in [DeviceIds -> {"none", "online", "offline", "absent"}]
            BY <3>1 DEF NodeRedTypeOK
        <3>6. NodeRedTypeOK'
            BY <2>1, <3>1, <3>4, <3>5 DEF NodeRedTypeOK
        <3>7. Holds' /\ ServedWhenUp'
            BY <2>1, <3>1, <3>2, <3>3, <3>4 DEF Holds, ServedWhenUp
        <3> QED
            BY <3>6, <3>7
    <2> QED
        BY <2>2, <2>3
<1>3. CASE Poll \/ RefreshAnswered \/ RefreshFails
    <2>1. /\ UNCHANGED <<registered, hubClient, hubState, polling, conn, left, subscription>>
          /\ deviceState' \in [DeviceIds -> {"none", "online", "offline", "absent"}]
        BY <1>3 DEF Poll, RefreshAnswered, RefreshFails, NodeRedTypeOK
    <2>2. asking' \in 0..MaxAsked
        <3>1. asking \in 0..MaxAsked
            BY DEF NodeRedTypeOK
        <3>2. CASE asking < MaxAsked /\ asking' = asking + 1
            BY <3>1, <3>2, NodeRedAssumption
        <3>3. CASE asking > 0 /\ asking' = asking - 1
            BY <3>1, <3>3, NodeRedAssumption
        <3> QED
            BY <1>3, <3>2, <3>3 DEF Poll, RefreshAnswered, RefreshFails
    <2>3. faults' \in 0..MaxFaults
        BY <1>3, Faulty DEF Poll, RefreshAnswered, RefreshFails, NodeRedTypeOK
    <2>4. NodeRedTypeOK'
        BY <2>1, <2>2, <2>3 DEF NodeRedTypeOK
    <2>5. Holds' /\ ServedWhenUp'
        BY <2>1 DEF Holds, ServedWhenUp, Watched
    <2> QED
        BY <2>4, <2>5
<1>4. ASSUME NEW c \in Clients, NEW d \in DeviceIds, Deliver(c, d) PROVE NodeRedInv'
    <2>1. deviceState' \in [DeviceIds -> {"none", "online", "offline", "absent"}]
        BY <1>4 DEF Deliver, NodeRedTypeOK
    <2>2. NodeRedTypeOK'
        BY <1>4, <2>1 DEF Deliver, NodeRedTypeOK
    <2>3. Holds' /\ ServedWhenUp'
        BY <1>4 DEF Deliver, Holds, ServedWhenUp, Watched
    <2> QED
        BY <2>2, <2>3
<1>5. ASSUME Down, UNCHANGED <<left, subscription>>, conn' \in [Clients -> Conns],
             faults' \in 0..MaxFaults
      PROVE  NodeRedInv'
    <2>1. hubState' = "down" /\ deviceState' \in [DeviceIds -> DeviceStates]
        BY <1>5, SetHubStateKeeps DEF Down, States
    <2>2. NodeRedTypeOK'
        BY <1>5, <2>1 DEF Down, NodeRedTypeOK, Conns, DeviceStates
    <2>3. Holds' /\ ServedWhenUp'
        BY <1>5, <2>1 DEF Down, Holds, ServedWhenUp
    <2> QED
        BY <2>2, <2>3
<1>6. ASSUME NEW c \in Clients, HealthFails(c) PROVE NodeRedInv'
    <2>1. conn' \in [Clients -> Conns]
        BY <1>6, <1>c DEF HealthFails, Conns
    <2> QED
        BY <1>5, <1>6, <2>1, Faulty DEF HealthFails
<1>7. ASSUME NEW c \in Clients, Closes(c) \/ Breaks(c) PROVE NodeRedInv'
    <2>1. conn' \in [Clients -> Conns] /\ Down /\ UNCHANGED <<left, subscription>>
        BY <1>7, <1>c DEF Closes, Breaks, SocketEnded, Conns
    <2>2. faults' \in 0..MaxFaults
        BY <1>7, Faulty DEF Closes, Breaks, NodeRedTypeOK
    <2> QED
        BY <1>5, <2>1, <2>2
<1>8. ASSUME NEW c \in Clients, HealthOk(c) \/ Retries(c) PROVE NodeRedInv'
    <2>1. conn' = [conn EXCEPT ![c] = "opening"] /\ UNCHANGED <<configNode, left, subscription, faults>>
        BY <1>8 DEF HealthOk, Retries
    <2>2. conn' \in [Clients -> Conns]
        BY <1>c, <2>1 DEF Conns
    <2>3. NodeRedTypeOK'
        BY <2>1, <2>2 DEF configNode, NodeRedTypeOK, Conns
    <2>4. Holds' /\ ServedWhenUp'
        <3>1. hubClient \in Clients /\ conn'[hubClient] = "open" => conn[hubClient] = "open"
            BY <1>c, <2>1
        <3> QED
            BY <2>1, <3>1 DEF configNode, Holds, ServedWhenUp, Watched, NodeRedTypeOK
    <2> QED
        BY <2>3, <2>4
<1>9. ASSUME NEW c \in Clients, Opens(c) PROVE NodeRedInv'
    <2> DEFINE subs == [subscription EXCEPT ![c] = {}]
    <2>1. /\ conn' = [x \in Clients |-> IF x = c THEN "open"
                                        ELSE IF conn[x] = "open" THEN "closing" ELSE conn[x]]
          /\ SetHubState("up") /\ PushSubscription(hubClient, "up", Watched, conn', subs)
          /\ Refreshes(hubClient # NoClient /\ registered # {})
          /\ polling' = TRUE /\ UNCHANGED <<registered, hubClient, left, faults>>
        BY <1>9 DEF Opens
    <2>2. conn' \in [Clients -> Conns]
        BY <1>c, <2>1 DEF Conns
    <2>3. hubState' = "up" /\ deviceState' \in [DeviceIds -> DeviceStates]
        BY <2>1, SetHubStateKeeps DEF States
    <2>4. subs \in [Clients -> SUBSET DeviceIds]
        BY DEF NodeRedTypeOK
    <2> HIDE DEF subs
    <2>5. /\ subscription' \in [Clients -> SUBSET DeviceIds]
          /\ hubClient # NoClient /\ Watched # {} /\ conn'[hubClient] = "open"
                => subscription'[hubClient] = Watched
        <3>1. hubClient \in Clients \cup {NoClient}
            BY DEF NodeRedTypeOK
        <3>2. PushSubscription(hubClient, "up", Watched, conn', subs)
            BY <2>1
        <3> QED
            BY <1>w, <2>4, <3>1, <3>2 DEF PushSubscription, SubscribeToDevices, HandleSubscribe
    <2>6. asking' \in 0..MaxAsked
        <3>1. asking \in 0..MaxAsked
            BY DEF NodeRedTypeOK
        <3>2. asking' = asking \/ (asking < MaxAsked /\ asking' = asking + 1)
            BY <2>1 DEF Refreshes
        <3> QED
            BY <3>1, <3>2, NodeRedAssumption
    <2>7. NodeRedTypeOK'
        BY <2>1, <2>2, <2>3, <2>5, <2>6 DEF NodeRedTypeOK, Conns, DeviceStates
    <2>8. registered # {} => Watched # {}
        BY DEF Watched
    <2>9. Watched' = Watched
        BY <2>1 DEF Watched
    <2>10. Holds' /\ ServedWhenUp'
        BY <2>1, <2>3, <2>5, <2>8, <2>9 DEF Holds, ServedWhenUp
    <2> QED
        BY <2>7, <2>10
<1>10. CASE UNCHANGED nodeRedVars
    BY <1>10 DEF nodeRedVars, configNode, NodeRedTypeOK, Holds, ServedWhenUp, Watched
<1> QED
    BY <1>1, <1>2, <1>3, <1>4, <1>6, <1>7, <1>8, <1>9, <1>10 DEF NodeRedNext

\* The invariant holds in every state.
LEMMA NodeRedInvariance == NodeRedSpec => []NodeRedInv
<1> QED
    BY NodeRedInitInv, NodeRedStep, PTL DEF NodeRedSpec

\* Every variable of NodeRed keeps its type (sdk/node-red-contrib).
THEOREM NodeRedTypeCorrect == NodeRedSpec => []NodeRedTypeOK
<1>1. NodeRedInv => NodeRedTypeOK
    BY DEF NodeRedInv
<1> QED
    BY NodeRedInvariance, <1>1, PTL

\* However nodes come and go and clients replace each other, an open connection that the
\* badge shows is subscribed to exactly the watched devices and polled (pushSubscription,
\* startPolling of the configuration node).
THEOREM ServedTheorem == NodeRedSpec => []ServedWhenUp
<1>1. NodeRedInv => ServedWhenUp
    BY DEF NodeRedInv
<1> QED
    BY NodeRedInvariance, <1>1, PTL

-----------------------------------------------------------------------------
(* PageSession and WebTerminal *)

\* What a page that starts anew has.
LEMMA ReloadTypes ==
    ASSUME SessionTypeOK, Reload
    PROVE  /\ expires' \in 0..Ttl /\ renewed' \in 0..Ttl /\ page' = "loading"
           /\ {known', showWarning', warningShown', fetching', checking'} \subseteq BOOLEAN
           /\ renewal' = "none"
<1>1. expires' \in 0..Ttl /\ renewed' \in 0..Ttl
    BY SessionAssumption DEF Reload
<1>2. {known', showWarning', warningShown', fetching', checking'} \subseteq BOOLEAN
    BY DEF Reload
<1> QED
    BY <1>1, <1>2 DEF Reload

\* Time that is left only gets less.
LEMMA Minus1Types == \A t \in 0..Ttl : Minus1(t) \in 0..Ttl
BY SessionAssumption DEF Minus1

\* Every step of the page, of the hub and of the other pages keeps the types.
LEMMA SessionStep == SessionTypeOK /\ [SessionNext]_sessionVars => SessionTypeOK'
<1> SUFFICES ASSUME SessionTypeOK, [SessionNext]_sessionVars PROVE SessionTypeOK'
    OBVIOUS
<1>0. Ttl \in Nat \ {0} /\ MaxFails \in Nat /\ 0 \in 0..Ttl /\ Ttl \in 0..Ttl
    BY SessionAssumption
<1>1. ASSUME Fails PROVE fails' \in 0..MaxFails
    BY <1>0, <1>1 DEF Fails, SessionTypeOK
<1>2. CASE UNCHANGED sessionVars
    BY <1>2 DEF sessionVars, pageState, SessionTypeOK
<1>3. CASE Boots
    BY <1>3 DEF Boots, Authenticated, HasSession, SessionTypeOK
<1>4. CASE BootFails
    BY <1>1, <1>4 DEF BootFails, SessionTypeOK
<1>5. CASE Fetched
    BY <1>5 DEF Fetched, Learns, SessionTypeOK
<1>6. CASE FetchFails
    BY <1>1, <1>6 DEF FetchFails, SessionTypeOK
<1>7. CASE Checked
    BY <1>7, ReloadTypes DEF Checked, Learns, Expire, SessionTypeOK
<1>8. CASE CheckFails
    BY <1>1, <1>8, ReloadTypes DEF CheckFails, Expire, SessionTypeOK
<1>9. CASE Sleeps
    BY <1>9 DEF Sleeps, pageState, SessionTypeOK
<1>10. CASE Wakes
    BY <1>10 DEF Wakes, SessionTypeOK
<1>11. CASE HandleExtendSession
    BY <1>11 DEF HandleExtendSession, SessionTypeOK
<1>12. CASE RefreshHandled
    BY <1>0, <1>12 DEF RefreshHandled, SessionTypeOK
<1>13. CASE Extended
    BY <1>0, <1>13 DEF Extended, SetCookie, Learns, SessionTypeOK
<1>14. CASE ExtendFails
    BY <1>1, <1>14, ReloadTypes DEF ExtendFails, Expire, SessionTypeOK
<1>15. CASE Login
    BY <1>0, <1>15, ReloadTypes DEF Login, SessionTypeOK
<1>16. CASE Logout
    BY <1>0, <1>1, <1>16, ReloadTypes DEF Logout, SessionTypeOK
<1>17. CASE Tick
    <2>1. /\ cookie' \in 0..Ttl /\ Minus1(expires) \in 0..Ttl /\ Minus1(renewed) \in 0..Ttl
          /\ UNCHANGED <<authDisabled, awake, fails, cleared>>
        BY <1>17, Minus1Types DEF Tick, SessionTypeOK
    <2>2. CASE awake /\ page = "user" /\ known /\ Minus1(expires) = 0
        BY <1>17, <2>1, <2>2, ReloadTypes DEF Tick, CheckExpiration, Expire, SessionTypeOK
    <2>3. CASE awake /\ page = "user" /\ known /\ Minus1(expires) # 0
        BY <1>17, <2>1, <2>3 DEF Tick, CheckExpiration, SessionTypeOK
    <2>4. CASE ~(awake /\ page = "user" /\ known)
        BY <1>17, <2>1, <2>4 DEF Tick, SessionTypeOK
    <2> QED
        BY <2>2, <2>3, <2>4
<1>18. CASE OtherPageLogsOut
    BY <1>0, <1>18 DEF OtherPageLogsOut, pageState, SessionTypeOK
<1>19. CASE OtherPageRenews
    BY <1>0, <1>19 DEF OtherPageRenews, pageState, SessionTypeOK
<1>20. CASE \E disabled \in BOOLEAN : SetAuthDisabled(disabled)
    BY <1>20 DEF SetAuthDisabled, pageState, SessionTypeOK
<1> QED
    BY <1>2, <1>3, <1>4, <1>5, <1>6, <1>7, <1>8, <1>9, <1>10, <1>11, <1>12, <1>13, <1>14, <1>15,
       <1>16, <1>17, <1>18, <1>19, <1>20 DEF SessionNext

\* A page that is loaded has no time left.
LEMMA SessionInitTypes == SessionInit => SessionTypeOK
<1> SUFFICES ASSUME SessionInit PROVE SessionTypeOK
    OBVIOUS
<1>1. 0 \in 0..Ttl /\ 0 \in 0..MaxFails
    BY SessionAssumption
<1>2. {authDisabled, known, showWarning, warningShown} \subseteq BOOLEAN
    BY DEF SessionInit
<1>3. {awake, fetching, checking, cleared} \subseteq BOOLEAN
    BY DEF SessionInit
<1> QED
    BY <1>1, <1>2, <1>3 DEF SessionInit, SessionTypeOK

\* Every variable of PageSession keeps its type: no time is left that a token does not give
\* (SessionManager.tsx, src/auth.ts).
THEOREM SessionTypeCorrect == SessionSpec => []SessionTypeOK
BY SessionInitTypes, SessionStep, PTL DEF SessionSpec

\* Only a page with a user asks how long its session lasts, and warns of its end.
AsksAsUser ==
    page # "user" => ~known /\ ~fetching /\ ~checking /\ ~showWarning /\ renewal = "none"

ExpiryInv == SessionTypeOK /\ AsksAsUser /\ ExpiryIsReal

\* Time runs for the page as for the hub.
LEMMA Minus1Monotone ==
    \A t, u \in 0..Ttl : t <= u => Minus1(t) <= Minus1(u)
BY SessionAssumption DEF Minus1

\* Each answer the page learns from is of the cookie the browser has when it does.
LEMMA ExpiryStep == ExpiryInv /\ [SessionNext]_sessionVars => ExpiryInv'
<1> SUFFICES ASSUME ExpiryInv, [SessionNext]_sessionVars PROVE ExpiryInv'
    OBVIOUS
<1>1. SessionTypeOK /\ SessionTypeOK'
    BY SessionStep DEF ExpiryInv
<1>2. /\ {cookie, expires, renewed, Ttl, 0} \subseteq 0..Ttl
      /\ {known, cleared, fetching, checking} \subseteq BOOLEAN
    BY <1>1, SessionAssumption DEF SessionTypeOK
<1>3. SUFFICES AsksAsUser' /\ ExpiryIsReal'
    BY <1>1 DEF ExpiryInv
<1> USE DEF ExpiryInv, AsksAsUser, ExpiryIsReal
<1>4. CASE UNCHANGED sessionVars
    BY <1>4 DEF sessionVars, pageState
<1>5. ASSUME Reload PROVE AsksAsUser' /\ ExpiryIsReal'
    BY <1>5 DEF Reload
<1>6. CASE Boots
    BY <1>6 DEF Boots
<1>7. CASE BootFails
    BY <1>7 DEF BootFails
<1>8. CASE Fetched
    BY <1>2, <1>8 DEF Fetched, Learns
<1>9. CASE FetchFails
    BY <1>9 DEF FetchFails
<1>10. CASE Checked
    BY <1>2, <1>5, <1>10 DEF Checked, Learns, Expire
<1>11. CASE CheckFails \/ ExtendFails
    BY <1>5, <1>11 DEF CheckFails, ExtendFails, Expire
<1>12. CASE Sleeps \/ Wakes
    <2>1. CASE Sleeps
        BY <2>1 DEF Sleeps, pageState
    <2>2. CASE Wakes
        <3>1. checking' => page = "user"
            BY <2>2 DEF Wakes
        <3> QED
            BY <2>2, <3>1 DEF Wakes
    <2> QED
        BY <1>12, <2>1, <2>2
<1>13. CASE HandleExtendSession \/ RefreshHandled
    BY <1>13 DEF HandleExtendSession, RefreshHandled
<1>14. CASE Extended
    BY <1>2, <1>14 DEF Extended, SetCookie, Learns
<1>15. CASE Login \/ Logout
    BY <1>5, <1>15 DEF Login, Logout
<1>16. CASE Tick
    <2>1. cookie' = Minus1(cookie) /\ UNCHANGED cleared
        BY <1>16 DEF Tick
    <2>2. CASE awake /\ page = "user" /\ known /\ Minus1(expires) = 0
        BY <1>5, <1>16, <2>2 DEF Tick, CheckExpiration, Expire
    <2>3. CASE ~(awake /\ page = "user" /\ known /\ Minus1(expires) = 0)
        <3>1. expires' = Minus1(expires) /\ UNCHANGED <<page, known, fetching, checking, renewal>>
            BY <1>16, <2>3 DEF Tick, CheckExpiration
        <3>2. page # "user" => UNCHANGED showWarning
            BY <1>16 DEF Tick
        <3>3. ExpiryIsReal'
            BY <1>2, <2>1, <3>1, Minus1Monotone
        <3> QED
            BY <3>1, <3>2, <3>3
    <2> QED
        BY <2>2, <2>3
<1>17. CASE OtherPageLogsOut
    BY <1>17 DEF OtherPageLogsOut, pageState
<1>18. CASE OtherPageRenews
    BY <1>2, <1>18 DEF OtherPageRenews, pageState
<1>19. CASE \E disabled \in BOOLEAN : SetAuthDisabled(disabled)
    BY <1>19 DEF SetAuthDisabled, pageState
<1> QED
    BY <1>4, <1>6, <1>7, <1>8, <1>9, <1>10, <1>11, <1>12, <1>13, <1>14, <1>15, <1>16, <1>17,
       <1>18, <1>19 DEF SessionNext

\* For any lifetime of the token, a page never counts on more time than its cookie has,
\* unless another page cleared the cookie (SessionManager.tsx, the auth routes of
\* src/index.ts).
THEOREM ExpiryTheorem == SessionSpec => []ExpiryIsReal
<1>1. SessionInit => AsksAsUser /\ ExpiryIsReal
    BY DEF SessionInit, AsksAsUser, ExpiryIsReal
<1>2. SessionTypeOK /\ AsksAsUser /\ ExpiryIsReal => ExpiryInv
    BY DEF ExpiryInv
<1>3. SessionInit => SessionTypeOK
    BY SessionInitTypes
<1>4. ExpiryInv => ExpiryIsReal
    BY DEF ExpiryInv
<1> QED
    BY <1>1, <1>2, <1>3, <1>4, ExpiryStep, PTL DEF SessionSpec

\* Closing the dialog closes one socket.
LEMMA DialogClosed ==
    ASSUME TerminalTypeOK, NEW s, CloseDialogOf(s)
    PROVE  /\ {show', mountTimer', shownError'} \subseteq BOOLEAN
           /\ termSocket' \in Sockets \cup {NoSocket}
           /\ side' \in [Sockets -> {"none", "connecting", "open", "closed"}]
BY DEF CloseDialogOf, TerminalTypeOK

\* Every step of the dialog and of the terminal service keeps the types.
LEMMA TerminalStep == TerminalTypeOK /\ [TerminalNext]_terminalVars => TerminalTypeOK'
<1> SUFFICES ASSUME TerminalTypeOK, [TerminalNext]_terminalVars PROVE TerminalTypeOK'
    OBVIOUS
<1>1. CASE UNCHANGED terminalVars
    BY <1>1 DEF terminalVars, TerminalTypeOK
<1>2. CASE ShowTerminal \/ MountTimer
    BY <1>2 DEF ShowTerminal, MountTimer, hubEnd, TerminalTypeOK
<1>3. CASE CloseTerminal
    BY <1>3, DialogClosed DEF CloseTerminal, hubEnd, TerminalTypeOK
<1>4. CASE SetWebTerminalEnabled \/ SessionChanges
    BY <1>4 DEF SetWebTerminalEnabled, SessionChanges, dialogEnd, hubEnd, TerminalTypeOK
<1>5. ASSUME NEW s \in Sockets, HandleExit(s) PROVE TerminalTypeOK'
    BY <1>5, DialogClosed DEF HandleExit, hubEnd, TerminalTypeOK
<1>6. ASSUME NEW s \in Sockets, SocketClosed(s) PROVE TerminalTypeOK'
    BY <1>6, DialogClosed DEF SocketClosed, hubEnd, TerminalTypeOK
<1>7. ASSUME NEW s \in Sockets, HandleUpgrade(s) \/ Imported(s) \/ ImportFails(s) PROVE TerminalTypeOK'
    BY <1>7 DEF HandleUpgrade, Imported, ImportFails, dialogEnd, TerminalTypeOK
<1>8. ASSUME NEW s \in Sockets, TerminalOpens(s) PROVE TerminalTypeOK'
    BY <1>8 DEF TerminalOpens, hubEnd, TerminalTypeOK
<1>9. ASSUME NEW s \in Sockets, SocketGone(s) \/ ShellExits(s) PROVE TerminalTypeOK'
    BY <1>9 DEF SocketGone, ShellExits, dialogEnd, TerminalTypeOK
<1> QED
    BY <1>1, <1>2, <1>3, <1>4, <1>5, <1>6, <1>7, <1>8, <1>9 DEF TerminalNext

\* Every variable of WebTerminal keeps its type (src/terminal.ts, TerminalModal.tsx).
THEOREM TerminalTypeCorrect == TerminalSpec => []TerminalTypeOK
<1>1. TerminalInit => TerminalTypeOK
    BY DEF TerminalInit, TerminalTypeOK
<1> QED
    BY <1>1, TerminalStep, PTL DEF TerminalSpec

\* The dialog has one socket, which it holds from its timer on, and the hub has a shell
\* only for a socket that was opened.
DialogShape ==
    /\ mountTimer => show /\ termSocket = NoSocket
    /\ ~show => termSocket = NoSocket
    /\ \A s \in Sockets :
          /\ side[s] \in {"connecting", "open"} => show /\ termSocket = s
          /\ server[s] # "none" => side[s] # "none"
          /\ pty[s] = "running" => server[s] # "none"

TerminalInv == TerminalTypeOK /\ DialogShape

\* A dialog that goes takes its socket with it.
LEMMA DialogGone ==
    ASSUME TerminalInv, NEW s, s = termSocket, CloseDialogOf(s), UNCHANGED <<server, pty>>
    PROVE  DialogShape'
<1>1. /\ ~show' /\ ~mountTimer' /\ termSocket' = NoSocket
      /\ \A x \in Sockets : side'[x] = IF x = s THEN "closed" ELSE side[x]
    BY DEF CloseDialogOf
<1>2. ASSUME NEW x \in Sockets PROVE side'[x] \notin {"connecting", "open"}
    BY <1>1 DEF TerminalInv, DialogShape
<1>3. ASSUME NEW x \in Sockets, server'[x] # "none" PROVE side'[x] # "none"
    BY <1>1, <1>3 DEF TerminalInv, DialogShape
<1>4. ASSUME NEW x \in Sockets, pty'[x] = "running" PROVE server'[x] # "none"
    BY <1>4 DEF TerminalInv, DialogShape
<1> QED
    BY <1>1, <1>2, <1>3, <1>4 DEF DialogShape

\* Every step of the dialog and of the terminal service keeps it.
LEMMA DialogStep == TerminalInv /\ [TerminalNext]_terminalVars => TerminalInv'
<1> SUFFICES ASSUME TerminalInv, [TerminalNext]_terminalVars PROVE DialogShape'
    BY TerminalStep DEF TerminalInv
<1>0. TerminalTypeOK /\ DialogShape
    BY DEF TerminalInv
<1>1. CASE UNCHANGED terminalVars
    BY <1>0, <1>1 DEF terminalVars, DialogShape
<1>2. CASE ShowTerminal
    BY <1>0, <1>2 DEF ShowTerminal, hubEnd, DialogShape
<1>3. CASE MountTimer
    <2>1. show /\ termSocket = NoSocket
        BY <1>0, <1>3 DEF MountTimer, DialogShape
    <2>2. PICK s \in Sockets :
             /\ side[s] = "none" /\ termSocket' = s
             /\ side' = [side EXCEPT ![s] = "connecting"]
        BY <1>3 DEF MountTimer
    <2>3. ~mountTimer' /\ show' = show /\ UNCHANGED <<server, pty>>
        BY <1>3 DEF MountTimer, hubEnd
    <2>4. \A x \in Sockets : side'[x] = IF x = s THEN "connecting" ELSE side[x]
        BY <1>0, <2>2 DEF TerminalTypeOK
    <2>5. \A x \in Sockets : side[x] \notin {"connecting", "open"}
        BY <1>0, <2>1, TerminalAssumption DEF DialogShape
    <2> QED
        BY <1>0, <2>1, <2>2, <2>3, <2>4, <2>5 DEF DialogShape
<1>4. CASE CloseTerminal
    BY <1>4, DialogGone DEF CloseTerminal, hubEnd
<1>5. ASSUME NEW s \in Sockets, HandleExit(s) PROVE DialogShape'
    <2>1. s = termSocket
        BY <1>0, <1>5 DEF HandleExit, DialogShape
    <2> QED
        BY <1>5, <2>1, DialogGone DEF HandleExit, hubEnd
<1>6. ASSUME NEW s \in Sockets, SocketClosed(s) PROVE DialogShape'
    <2>1. CASE side[s] = "open" /\ CloseDialogOf(s)
        BY <1>6, <2>1, DialogGone DEF SocketClosed, hubEnd
    <2>2. CASE /\ side' = [side EXCEPT ![s] = "closed"]
               /\ UNCHANGED <<show, mountTimer, termSocket>>
        <3>1. \A x \in Sockets : side'[x] = IF x = s THEN "closed" ELSE side[x]
            BY <1>0, <2>2 DEF TerminalTypeOK
        <3>2. UNCHANGED <<server, pty>>
            BY <1>6 DEF SocketClosed, hubEnd
        <3> QED
            BY <1>0, <2>2, <3>1, <3>2 DEF DialogShape
    <2> QED
        BY <1>6, <2>1, <2>2 DEF SocketClosed
<1>7. ASSUME NEW s \in Sockets, TerminalOpens(s) PROVE DialogShape'
    <2>1. side[s] = "connecting" /\ UNCHANGED <<show, mountTimer, termSocket, server, pty>>
        BY <1>7 DEF TerminalOpens, hubEnd
    <2>2. \A x \in Sockets : side'[x] = IF x = s THEN "open" ELSE side[x]
        BY <1>0, <1>7 DEF TerminalOpens, TerminalTypeOK
    <2> QED
        BY <1>0, <2>1, <2>2 DEF DialogShape
<1>8. ASSUME NEW s \in Sockets,
             \/ HandleUpgrade(s) \/ Imported(s) \/ ImportFails(s) \/ SocketGone(s) \/ ShellExits(s)
      PROVE  DialogShape'
    <2>1. UNCHANGED dialogEnd \/ UNCHANGED <<show, mountTimer, termSocket, side>>
        BY <1>8 DEF HandleUpgrade, Imported, ImportFails, SocketGone, ShellExits
    <2>2. UNCHANGED <<show, mountTimer, termSocket, side>>
        BY <2>1 DEF dialogEnd
    <2>3. side[s] # "none"
        BY <1>0, <1>8 DEF HandleUpgrade, Imported, ImportFails, SocketGone, ShellExits, DialogShape
    <2>4. \A x \in Sockets \ {s} : server'[x] = server[x] /\ pty'[x] = pty[x]
        BY <1>0, <1>8
           DEF HandleUpgrade, Imported, ImportFails, SocketGone, ShellExits, TerminalTypeOK
    <2>5. pty'[s] = "running" => server'[s] # "none"
        BY <1>0, <1>8
           DEF HandleUpgrade, Imported, ImportFails, SocketGone, ShellExits, TerminalTypeOK,
               DialogShape
    <2> QED
        BY <1>0, <2>2, <2>3, <2>4, <2>5 DEF DialogShape
<1>9. CASE SetWebTerminalEnabled \/ SessionChanges
    BY <1>0, <1>9 DEF SetWebTerminalEnabled, SessionChanges, dialogEnd, hubEnd, DialogShape
<1> QED
    BY <1>1, <1>2, <1>3, <1>4, <1>5, <1>6, <1>7, <1>8, <1>9 DEF TerminalNext

\* For any number of sockets, a running shell is that of the dialog on the screen, or its
\* socket has been closed (src/terminal.ts, TerminalModal.tsx).
THEOREM ShellTheorem == TerminalSpec => []ShellHasDialog
<1>1. TerminalInit => TerminalInv
    BY DEF TerminalInit, TerminalInv, TerminalTypeOK, DialogShape
<1>2. TerminalInv => ShellHasDialog
    <2> SUFFICES ASSUME TerminalInv, NEW s \in Sockets, pty[s] = "running"
                 PROVE  \/ show /\ termSocket = s /\ side[s] \in {"connecting", "open"}
                        \/ side[s] = "closed"
        BY DEF ShellHasDialog
    <2>1. side[s] # "none"
        BY DEF TerminalInv, DialogShape
    <2>2. side[s] \in {"none", "connecting", "open", "closed"}
        BY DEF TerminalInv, TerminalTypeOK
    <2> QED
        BY <2>1, <2>2 DEF TerminalInv, DialogShape
<1> QED
    BY <1>1, <1>2, DialogStep, PTL DEF TerminalSpec

-----------------------------------------------------------------------------
(* MCChannels *)

\* Within each focus the run follows the specification of its component, and the others
\* stand still: what is proved of a component holds of the run, whatever its constants.
THEOREM ChannelsFollowComponents ==
    ChannelsSpec => /\ MethodsSpec /\ PresenceSpec /\ TwinSpec /\ NodeRedSpec
                    /\ SessionSpec /\ TerminalSpec
<1>1. ChannelsInit => /\ MethodsInit /\ PresenceInit /\ TwinInit /\ NodeRedInit
                      /\ SessionInit /\ TerminalInit
    BY DEF ChannelsInit
<1>2. [ChannelsNext]_channelVars => [MethodsNext]_methodVars
    BY DEF ChannelsNext, MethodsStep, MethodsNext, channelVars
<1>3. [ChannelsNext]_channelVars => [PresenceNext]_presenceVars
    BY DEF ChannelsNext, channelVars, deviceSideVars
<1>4. [ChannelsNext]_channelVars => [TwinNext]_twinVars
    BY DEF ChannelsNext, channelVars, deviceSideVars
<1>5. [ChannelsNext]_channelVars => [NodeRedNext]_nodeRedVars
    BY DEF ChannelsNext, channelVars
<1>6. [ChannelsNext]_channelVars => [SessionNext]_sessionVars
    BY DEF ChannelsNext, channelVars, pageVars
<1>7. [ChannelsNext]_channelVars => [TerminalNext]_terminalVars
    BY DEF ChannelsNext, channelVars, pageVars
<1> QED
    BY <1>1, <1>2, <1>3, <1>4, <1>5, <1>6, <1>7, PTL
       DEF ChannelsSpec, MethodsSpec, PresenceSpec, TwinSpec, NodeRedSpec, SessionSpec, TerminalSpec

\* Every variable of the channels keeps its type.
THEOREM ChannelsTypeCorrect == ChannelsSpec => []ChannelsTypeOK
<1>1. MethodsTypeOK /\ PresenceTypeOK /\ TwinTypeOK /\ NodeRedTypeOK /\ SessionTypeOK
         /\ TerminalTypeOK => ChannelsTypeOK
    BY DEF ChannelsTypeOK
<1> QED
    BY <1>1, ChannelsFollowComponents, MethodsTypeCorrect, PresenceTypeCorrect, TwinTypeCorrect,
       NodeRedTypeCorrect, SessionTypeCorrect, TerminalTypeCorrect, PTL
=============================================================================
