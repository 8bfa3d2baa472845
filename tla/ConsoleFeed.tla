----------------------------- MODULE ConsoleFeed -----------------------------
(***************************************************************************)
(* The console's feed: the hub's web socket with its topics, samplers and  *)
(* on-change broadcasts (src/index.ts), the page's socket client           *)
(* (ui/src/api/socket.ts), the device list (Overview.tsx) and the metrics  *)
(* chart (SystemWidget.tsx), for one page.                                 *)
(*                                                                         *)
(* A socket keeps the order of its messages; a request over HTTP goes      *)
(* beside it.  A topic has one handler in the page, as in its components.  *)
(* A sample is the number it was taken under, and a list of devices a      *)
(* value; the services' status is broadcast as the list is.                *)
(***************************************************************************)
EXTENDS Naturals, Sequences, FiniteSets, SequencesExt

CONSTANTS
    Lists,          \* what the device list may show
    NoList,
    MaxSamples,     \* bound: samples taken
    MaxBreaks,      \* bound: connections lost and restarts of the hub
    MaxFeed         \* bound: messages on their way

ASSUME FeedAssumption ==
    /\ NoList \notin Lists
    /\ MaxSamples \in Nat \ {0} /\ MaxBreaks \in Nat /\ MaxFeed \in Nat \ {0}

VARIABLES
    \* the hub
    list,           \* getDevicesListSync()
    lastDevices,    \* _lastDevicesJson
    samples,        \* METRICS_HISTORY, by the number of the latest
    topics,         \* ctx.topics of the page's socket
    \* between them
    toFeed, toPage,
    \* the page
    ws,             \* "closed" (a reconnection is due), "connecting", "open"
    subs,           \* topics with a handler
    sawOpen,        \* wsIsConnected() when SystemWidget was last rendered
    devices,        \* the list shown
    chart,          \* history.samples
    rest,           \* GET /api/devices: the answer on its way, or none
    broken,
    single          \* history: the list shown came by itself, not by a broadcast

hubFeed == <<list, lastDevices, samples, topics>>
pageFeed == <<subs, sawOpen, devices, chart>>
feedVars == <<hubFeed, toFeed, toPage, ws, pageFeed, rest, broken, single>>

Topics == {"devices.list", "metrics.snapshots", "metrics.history"}
Widget == {"metrics.snapshots", "metrics.history"}

Upto(n) == [i \in 1..n |-> i]
DeviceMessages == [type : {"devices.list"}, data : Lists, pushed : BOOLEAN]
SampleMessages == [type : {"metrics.snapshots"}, data : 1..MaxSamples]
HistoryMessages == [type : {"metrics.history"}, data : {Upto(n) : n \in 1..MaxSamples}]

FeedTypeOK ==
    /\ list \in Lists /\ lastDevices \in Lists \cup {NoList} /\ devices \in Lists \cup {NoList}
    /\ samples \in 1..MaxSamples /\ chart \in Seq(1..MaxSamples)
    /\ topics \subseteq Topics /\ subs \subseteq Topics
    /\ toFeed \in Seq([type : {"subscribe", "unsubscribe"}, topics : SUBSET Topics])
    /\ toPage \in Seq(DeviceMessages \cup SampleMessages \cup HistoryMessages)
    /\ ws \in {"closed", "connecting", "open"}
    /\ {sawOpen, single} \subseteq BOOLEAN
    /\ rest \in Lists \cup {NoList, "asked"}
    /\ broken \in Nat

\* The hub has taken its first sample; the page is about to open.
FeedInit ==
    /\ list \in Lists /\ lastDevices = NoList /\ samples = 1 /\ topics = {}
    /\ toFeed = <<>> /\ toPage = <<>>
    /\ ws = "closed" /\ subs = {} /\ sawOpen = FALSE
    /\ devices = NoList /\ chart = <<>>
    /\ rest = NoList /\ broken = 0 /\ single = TRUE

-----------------------------------------------------------------------------
(* The hub *)

\* broadcast: to the open sockets that have the topic.
Broadcast(topic, message) ==
    /\ Len(toPage) < MaxFeed
    /\ toPage' = IF topic \in topics /\ ws = "open" THEN Append(toPage, message) ELSE toPage

ListChanges ==
    /\ list' \in Lists \ {list}
    /\ UNCHANGED <<lastDevices, samples, topics, toFeed, toPage, ws, pageFeed, rest, broken,
                   single>>

\* Every ten seconds: the list, if it is not the one broadcast last.
DevicesTick ==
    /\ list # lastDevices /\ lastDevices' = list
    /\ Broadcast("devices.list", [type |-> "devices.list", data |-> list, pushed |-> TRUE])
    /\ UNCHANGED <<list, samples, topics, toFeed, ws, pageFeed, rest, broken, single>>

\* sampleAndBroadcast.  The history topic carries the sample too, which the page's
\* handler of that topic ignores: it looks for a list of samples.
SampleAndBroadcast ==
    /\ samples < MaxSamples /\ samples' = samples + 1
    /\ Broadcast("metrics.snapshots", [type |-> "metrics.snapshots", data |-> samples + 1])
    /\ UNCHANGED <<list, lastDevices, topics, toFeed, ws, pageFeed, rest, broken, single>>

\* Mutant: the history's snapshot is one sample too long.
SnapshotsOneMore(subscribed) ==
    IF "metrics.history" \in subscribed
    THEN <<[type |-> "metrics.history", data |-> Upto(samples + 1)]>> ELSE <<>>

\* Whatever the message names, the snapshots are of everything subscribed to so far.
Snapshots(subscribed) ==
    (IF "metrics.history" \in subscribed
     THEN <<[type |-> "metrics.history", data |-> Upto(samples)]>> ELSE <<>>)
    \o (IF "devices.list" \in subscribed
        THEN <<[type |-> "devices.list", data |-> list, pushed |-> FALSE]>> ELSE <<>>)

HandleFeedMessage ==
    /\ toFeed # <<>> /\ toFeed' = Tail(toFeed)
    /\ LET m == Head(toFeed) IN
       IF m.type = "subscribe"
       THEN /\ topics' = topics \cup m.topics
            /\ Len(toPage) < MaxFeed
            /\ toPage' = toPage \o Snapshots(topics')
       ELSE topics' = topics \ m.topics /\ UNCHANGED toPage
    /\ UNCHANGED <<list, lastDevices, samples, ws, pageFeed, rest, broken, single>>

-----------------------------------------------------------------------------
(* socket.ts *)

\* send: to an open socket.
Send(messages) == toFeed' = IF ws = "open" THEN toFeed \o messages ELSE toFeed

Message(type, names) == [type |-> type, topics |-> names]

\* open: by the first subscription, then by the timer of scheduleReconnect.
OpenSocket ==
    /\ ws = "closed" /\ subs # {}
    /\ ws' = "connecting"
    /\ UNCHANGED <<hubFeed, toFeed, toPage, pageFeed, rest, broken, single>>

\* Mutant: a new connection subscribes to nothing.
ResubscribedToNothing == <<>>

\* 'open': all topics are subscribed to again.  The hub has a new context.
Resubscribed == IF subs = {} THEN <<>> ELSE <<Message("subscribe", subs)>>

SocketOpens ==
    /\ ws = "connecting" /\ ws' = "open"
    /\ topics' = {} /\ toPage' = <<>>
    /\ toFeed' = Resubscribed
    /\ UNCHANGED <<list, lastDevices, samples, pageFeed, rest, broken, single>>

Break == broken < MaxBreaks /\ broken' = broken + 1

\* 'close': of an open socket or of an attempt.
SocketBreaks ==
    /\ ws # "closed" /\ Break
    /\ ws' = "closed" /\ topics' = {} /\ toFeed' = <<>> /\ toPage' = <<>>
    /\ UNCHANGED <<list, lastDevices, samples, pageFeed, rest, single>>

\* With the hub go what it remembers and every connection; it samples anew.
HubRestarts ==
    /\ Break
    /\ lastDevices' = NoList /\ samples' = 1
    /\ ws' = "closed" /\ topics' = {} /\ toFeed' = <<>> /\ toPage' = <<>>
    /\ rest' = NoList
    /\ UNCHANGED <<list, pageFeed, single>>

-----------------------------------------------------------------------------
(* Overview and SystemWidget *)

\* Overview mounts: the topic, and the list over HTTP as there is no socket yet.
Mount ==
    /\ subs = {} /\ rest = NoList
    /\ subs' = {"devices.list"}
    /\ rest' = "asked"
    /\ UNCHANGED <<hubFeed, toFeed, toPage, ws, sawOpen, devices, chart, broken, single>>

\* refreshDevices, after an operation of the user's.
RefreshDevices ==
    /\ subs # {} /\ rest = NoList /\ rest' = "asked"
    /\ UNCHANGED <<hubFeed, toFeed, toPage, ws, pageFeed, broken, single>>

DevicesRoute ==
    /\ rest = "asked" /\ rest' = list
    /\ UNCHANGED <<hubFeed, toFeed, toPage, ws, pageFeed, broken, single>>

DevicesAnswered ==
    /\ rest \in Lists /\ rest' = NoList
    /\ devices' = rest /\ single' = TRUE
    /\ UNCHANGED <<hubFeed, toFeed, toPage, ws, subs, sawOpen, chart, broken>>

\* SystemWidget is rendered every second; its effect depends on wsIsConnected().
Render ==
    /\ subs # {} /\ sawOpen # (ws = "open")
    /\ sawOpen' = (ws = "open")
    /\ IF sawOpen'
       THEN /\ subs' = subs \cup Widget
            /\ Send(<<Message("subscribe", {"metrics.snapshots"}),
                      Message("subscribe", {"metrics.history"})>>)
       ELSE /\ subs' = subs \ Widget
            /\ Send(<<Message("unsubscribe", {"metrics.snapshots"}),
                      Message("unsubscribe", {"metrics.history"})>>)
    /\ UNCHANGED <<hubFeed, toPage, ws, devices, chart, rest, broken, single>>

\* onDevices, onMetrics, onHistory.
HandlePush ==
    /\ toPage # <<>> /\ toPage' = Tail(toPage)
    /\ LET m == Head(toPage) IN
       /\ devices' = IF m.type = "devices.list" THEN m.data ELSE devices
       /\ single' = IF m.type = "devices.list" THEN ~m.pushed ELSE single
       /\ chart' = IF m.type \notin subs THEN chart
                   ELSE IF m.type = "metrics.snapshots" THEN Append(chart, m.data)
                   ELSE IF m.type = "metrics.history" THEN m.data ELSE chart
    /\ UNCHANGED <<hubFeed, toFeed, ws, subs, sawOpen, rest, broken>>

-----------------------------------------------------------------------------
FeedNext ==
    \/ ListChanges \/ DevicesTick \/ SampleAndBroadcast \/ HandleFeedMessage
    \/ OpenSocket \/ SocketOpens \/ SocketBreaks \/ HubRestarts
    \/ Mount \/ RefreshDevices \/ DevicesRoute \/ DevicesAnswered \/ Render \/ HandlePush

FeedSpec == FeedInit /\ [][FeedNext]_feedVars

-----------------------------------------------------------------------------
(* Properties *)

AllHandled == ws = "open" /\ toFeed = <<>> /\ toPage = <<>> /\ rest = NoList

\* When everything sent has been handled and the hub has nothing to broadcast, the page
\* shows the hub's list and the whole history in its order, through lost connections,
\* restarts and samples taken between two subscriptions; except a list that came by
\* itself, as an answer or a snapshot: when the hub's list returns before the next tick
\* to what was broadcast last, or the answer is overtaken, nothing corrects it.
PageCatchesUp ==
    AllHandled =>
        /\ list = lastDevices /\ ~single => devices = list
        /\ sawOpen => chart = Upto(samples)
=============================================================================
