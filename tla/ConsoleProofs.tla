---------------------------- MODULE ConsoleProofs ----------------------------
(***************************************************************************)
(* Theorems about the console and what it administers, for any messages,   *)
(* requests, passwords, upgrades and bounds: the page's feed, the          *)
(* administrator's password and what the hub keeps on disk (the root CA    *)
(* and the whitelist table); and that MCConsole explores the specification *)
(* of each of them.                                                        *)
(***************************************************************************)
EXTENDS MCConsole, FleetRegistryProofs, QueueLemmas

-----------------------------------------------------------------------------
(* ConsoleFeed.  The messages on their way bring the list to the one the hub  *)
(* broadcast last, unless the last of them is a snapshot, and the chart to    *)
(* the samples there are; what the page's components have a handler for is    *)
(* subscribed to, or about to be.                                             *)

PageMessages == DeviceMessages \cup SampleMessages \cup HistoryMessages
Subscriptions == [type : {"subscribe"}, topics : SUBSET Topics]

\* What a message makes of the list shown; the snapshot's list counts as the one
\* broadcast last, since nothing is claimed of it.
ListWord(m) ==
    IF m.type = "devices.list" THEN {IF m.pushed THEN m.data ELSE lastDevices} ELSE {}
ListWords(page) == [i \in DOMAIN page |-> ListWord(page[i])]

ListComes ==
    "devices.list" \in topics =>
        LastIs(ListWords(toPage), {}, {IF single THEN lastDevices ELSE devices}, {lastDevices})

\* What a message makes of the chart: its length.
Level(m) == CASE m.type = "metrics.history" -> Len(m.data)
              [] m.type = "metrics.snapshots" -> m.data
              [] OTHER -> 0
Before(page, j) == [i \in 1..(j - 1) |-> Level(page[i])]

Histories(page) == {i \in DOMAIN page : page[i].type = "metrics.history"}
Snaps(page) == {i \in DOMAIN page : page[i].type = "metrics.snapshots"}

\* The messages bring the chart to n samples, and each sample that no history follows
\* comes when the chart holds those before it.
ChartTold(page, c, n) ==
    /\ LastIs(Before(page, Len(page) + 1), 0, Len(c), n)
    /\ Histories(page) # {} \/ c = Upto(Len(c))
    /\ \A j \in Snaps(page) :
          (\A k \in Histories(page) : k < j) =>
              LastIs(Before(page, j), 0, Len(c), page[j].data - 1)

ChartComes == "metrics.history" \in topics => ChartTold(toPage, chart, samples)

Comes(topic) == topic \in topics \/ \E i \in DOMAIN toFeed : topic \in toFeed[i].topics

Linked ==
    /\ ws # "open" => toFeed = <<>> /\ toPage = <<>> /\ topics = {}
    /\ \A i \in DOMAIN toFeed : toFeed[i].type = "subscribe" /\ toFeed[i].topics \subseteq subs
    /\ topics \subseteq subs
    /\ ws # "closed" => subs # {}
    /\ subs # {} => "devices.list" \in subs
    /\ sawOpen => Widget \subseteq subs
    /\ ~sawOpen => Widget \cap subs = {}
    /\ ws = "open" => \A t \in {"devices.list", "metrics.history"} \cap subs : Comes(t)
    /\ \A i \in DOMAIN toFeed : "metrics.history" \in toFeed[i].topics =>
          \/ "metrics.snapshots" \in topics
          \/ \E j \in DOMAIN toFeed : j <= i /\ "metrics.snapshots" \in toFeed[j].topics
    /\ "metrics.history" \in topics => "metrics.snapshots" \in topics
    /\ \A i \in DOMAIN toPage : toPage[i].type \in topics

FeedInv == FeedTypeOK /\ Linked /\ ListComes /\ ChartComes


\* The first n samples.
LEMMA UptoIs ==
    ASSUME NEW n \in Nat
    PROVE  /\ Len(Upto(n)) = n /\ Upto(n) \in Seq(1..n)
           /\ Append(Upto(n), n + 1) = Upto(n + 1)
<1>1. Upto(n) \in Seq(1..n) /\ Len(Upto(n)) = n
    BY DEF Upto
<1> QED
    BY <1>1 DEF Upto

\* A message of a page is of one topic, and of the chart's two each says a length.
LEMMA Levels ==
    ASSUME NEW m \in PageMessages
    PROVE  /\ m.type \in Topics /\ Level(m) \in Nat
           /\ Level(m) = 0 <=> m.type = "devices.list"
           /\ m.type = "metrics.snapshots" => m.data \in 1..MaxSamples /\ Level(m) = m.data
           /\ m.type = "metrics.history" =>
                 /\ \E n \in 1..MaxSamples : m.data = Upto(n)
                 /\ Len(m.data) \in 1..MaxSamples /\ Level(m) = Len(m.data)
                 /\ m.data = Upto(Len(m.data))
           /\ m.type = "devices.list" => m.data \in Lists /\ m.pushed \in BOOLEAN
<1>1. CASE m \in DeviceMessages
    BY <1>1 DEF DeviceMessages, Level, Topics
<1>2. CASE m \in SampleMessages
    BY <1>2, FeedAssumption DEF SampleMessages, Level, Topics
<1>3. CASE m \in HistoryMessages
    <2>1. m.type = "metrics.history"
        BY <1>3 DEF HistoryMessages
    <2>2. PICK n \in 1..MaxSamples : m.data = Upto(n)
        BY <1>3 DEF HistoryMessages
    <2>3. n \in Nat /\ n # 0 /\ Len(m.data) = n
        BY <2>2, UptoIs, FeedAssumption
    <2>4. Level(m) = Len(m.data)
        BY <2>1 DEF Level
    <2> QED
        BY <2>1, <2>2, <2>3, <2>4 DEF Topics
<1> QED
    BY <1>1, <1>2, <1>3 DEF PageMessages

\* What came before a message does not depend on what comes after.
LEMMA BeforeKept ==
    ASSUME NEW page \in Seq(PageMessages), NEW m \in PageMessages, NEW j \in 1..(Len(page) + 1)
    PROVE  Before(Append(page, m), j) = Before(page, j)
<1>1. \A i \in 1..(j - 1) : Append(page, m)[i] = page[i]
    BY Added
<1> QED
    BY <1>1 DEF Before

\* All that came, with one message more.
LEMMA BeforeAll ==
    ASSUME NEW page \in Seq(PageMessages), NEW m \in PageMessages
    PROVE  LET n == Len(page)
               words == Before(page, Len(page) + 1)
               more == Before(Append(page, m), Len(Append(page, m)) + 1)
           IN  /\ n \in Nat /\ DOMAIN words = 1..n /\ DOMAIN more = 1..(n + 1)
               /\ \A i \in 1..n : more[i] = words[i]
               /\ more[n + 1] = Level(m)
<1>1. Len(page) \in Nat /\ Len(Append(page, m)) = Len(page) + 1
    BY AppendProperties, LenProperties
<1>2. /\ \A i \in 1..Len(page) : Append(page, m)[i] = page[i]
      /\ Append(page, m)[Len(page) + 1] = m
    BY Added
<1> QED
    BY <1>1, <1>2 DEF Before

\* A message is added that is not of the chart.
LEMMA ChartKept ==
    ASSUME NEW page \in Seq(PageMessages), NEW m \in PageMessages, m.type = "devices.list",
           NEW c, NEW n, ChartTold(page, c, n)
    PROVE  ChartTold(Append(page, m), c, n)
<1> DEFINE more == Append(page, m)
<1>1. Histories(more) = Histories(page) /\ Snaps(more) = Snaps(page)
    BY Added DEF Histories, Snaps
<1>2. \A j \in Snaps(page) : more[j] = page[j] /\ Before(more, j) = Before(page, j)
    BY Added, BeforeKept DEF Snaps
<1>3. Level(m) = 0
    BY Levels
<1>4. LastIs(Before(more, Len(more) + 1), 0, Len(c), n)
    <2> DEFINE words == Before(page, Len(page) + 1)
               after == Before(more, Len(more) + 1)
    <2>1. /\ Len(page) \in Nat /\ DOMAIN words = 1..Len(page)
          /\ DOMAIN after = 1..(Len(page) + 1)
          /\ \A i \in 1..Len(page) : after[i] = words[i]
          /\ after[Len(page) + 1] = 0
        BY <1>3, BeforeAll
    <2>2. LastIs(words, 0, Len(c), n)
        BY DEF ChartTold
    <2> HIDE DEF words, after
    <2>3. LastIs(after, 0, Len(c), n)
        BY <2>1, <2>2, LastKept
    <2> QED
        BY <2>3 DEF after
<1> QED
    BY <1>1, <1>2, <1>4 DEF ChartTold

\* The history is added.
LEMMA ChartSent ==
    ASSUME NEW page \in Seq(PageMessages), NEW m \in PageMessages, m.type = "metrics.history",
           NEW c
    PROVE  ChartTold(Append(page, m), c, Len(m.data))
<1> DEFINE more == Append(page, m)
<1>0. Len(page) \in Nat /\ DOMAIN more = 1..(Len(page) + 1) /\ more[Len(page) + 1] = m
    BY Added
<1>1. Len(page) + 1 \in Histories(more)
    BY <1>0 DEF Histories
<1>2. \A j \in Snaps(more) : j < Len(page) + 1
    BY <1>0 DEF Snaps
<1>3. Level(m) = Len(m.data) /\ Level(m) # 0
    BY Levels
<1>4. LastIs(Before(more, Len(more) + 1), 0, Len(c), Len(m.data))
    BY <1>3, BeforeAll, LastSaid
<1>5. \A j \in Snaps(more) : ~(\A k \in Histories(more) : k < j)
    BY <1>0, <1>1, <1>2 DEF Snaps
<1> QED
    BY <1>1, <1>4, <1>5 DEF ChartTold

\* The next sample is added.
LEMMA SampleSent ==
    ASSUME NEW page \in Seq(PageMessages), NEW m \in PageMessages,
           m.type = "metrics.snapshots", NEW c, NEW n \in Nat, m.data = n + 1,
           ChartTold(page, c, n)
    PROVE  ChartTold(Append(page, m), c, n + 1)
<1> DEFINE more == Append(page, m)
           l == Len(page) + 1
<1>0. /\ Len(page) \in Nat /\ DOMAIN more = 1..l /\ DOMAIN page = 1..Len(page) /\ more[l] = m
      /\ \A i \in 1..Len(page) : more[i] = page[i]
    BY Added
<1>1. Histories(more) = Histories(page) /\ Snaps(more) = Snaps(page) \cup {l}
    BY <1>0 DEF Histories, Snaps
<1>2. \A j \in Snaps(page) : more[j] = page[j] /\ Before(more, j) = Before(page, j)
    BY <1>0, BeforeKept DEF Snaps
<1>3. Level(m) = n + 1 /\ Level(m) # 0
    BY Levels
<1>4. LastIs(Before(more, Len(more) + 1), 0, Len(c), n + 1)
    BY <1>3, BeforeAll, LastSaid
<1>5. Before(more, l) = Before(page, l) /\ more[l].data - 1 = n
    BY <1>0, BeforeKept
<1>6. LastIs(Before(more, l), 0, Len(c), more[l].data - 1)
    BY <1>5 DEF ChartTold
<1> QED
    BY <1>1, <1>2, <1>4, <1>6 DEF ChartTold

\* Where something is said, it does not matter what is so far.
LEMMA LastOfSome ==
    ASSUME NEW words, NEW silent, NEW base, NEW other, NEW v, LastIs(words, silent, base, v),
           NEW i \in DOMAIN words, words[i] # silent
    PROVE  LastIs(words, silent, other, v)
BY DEF LastIs

\* What the page makes of the chart's messages (onMetrics, onHistory).
Charted(m, c) == IF m.type = "metrics.snapshots" THEN Append(c, m.data)
                 ELSE IF m.type = "metrics.history" THEN m.data ELSE c

\* The first of the messages is taken: what the ones before another bring, from then on.
LEMMA BeforeTaken ==
    ASSUME NEW page \in Seq(PageMessages), page # <<>>, NEW c \in Seq(Nat), NEW v,
           NEW j \in 1..Len(page), LastIs(Before(page, j + 1), 0, Len(c), v),
           \/ \E k \in Histories(Tail(page)) : k < j
           \/ Level(page[1]) = 0
           \/ Len(Charted(page[1], c)) = Level(page[1])
    PROVE  LastIs(Before(Tail(page), j), 0, Len(Charted(page[1], c)), v)
<1> DEFINE words == Before(page, j + 1)
           left == Before(Tail(page), j)
           m == page[1]
<1>1. /\ Tail(page) \in Seq(PageMessages) /\ Len(Tail(page)) \in Nat
      /\ Len(page) = Len(Tail(page)) + 1 /\ m \in PageMessages
      /\ DOMAIN Tail(page) = 1..Len(Tail(page))
      /\ \A i \in 1..Len(Tail(page)) : Tail(page)[i] = page[i + 1]
    BY Taken
<1>2. /\ j - 1 \in Nat /\ DOMAIN words = 1..((j - 1) + 1) /\ DOMAIN left = 1..(j - 1)
      /\ \A i \in 1..(j - 1) : left[i] = words[i + 1]
      /\ words[1] = Level(m)
    BY <1>1 DEF Before
<1>3. \A k \in Histories(Tail(page)) : k < j => k \in DOMAIN left /\ left[k] # 0
    <2> SUFFICES ASSUME NEW k \in Histories(Tail(page)), k < j PROVE k \in 1..(j - 1) /\ left[k] # 0
        BY <1>2
    <2>1. k \in 1..Len(Tail(page)) /\ Tail(page)[k].type = "metrics.history" /\ k \in 1..(j - 1)
        BY <1>1 DEF Histories
    <2>2. Tail(page)[k] \in PageMessages
        BY <1>1, <2>1, ElementOfSeq
    <2>3. Level(Tail(page)[k]) # 0
        BY <2>1, <2>2, Levels
    <2> QED
        BY <2>1, <2>3 DEF Before
<1>4. Level(m) = 0 => Charted(m, c) = c
    BY <1>1, Levels DEF Charted
<1> HIDE DEF words, left, m
<1>5. LastIs(left, 0, IF words[1] = 0 THEN Len(c) ELSE words[1], v)
    BY <1>2, LastTaken DEF words
<1>6. CASE \E k \in Histories(Tail(page)) : k < j
    BY <1>3, <1>5, <1>6, LastOfSome DEF left, m
<1>7. CASE Level(m) = 0
    BY <1>2, <1>4, <1>5, <1>7 DEF left, m
<1>8. CASE Level(m) # 0 /\ Len(Charted(m, c)) = Level(m)
    BY <1>2, <1>5, <1>8 DEF left, m
<1> QED
    BY <1>6, <1>7, <1>8 DEF left, m

\* The first of the messages is taken.
LEMMA ChartTaken ==
    ASSUME NEW page \in Seq(PageMessages), page # <<>>, NEW c \in Seq(Nat), NEW n,
           ChartTold(page, c, n)
    PROVE  ChartTold(Tail(page), Charted(page[1], c), n)
<1> DEFINE m == page[1]
           left == Tail(page)
           l == Len(left)
           d == Charted(m, c)
<1>1. /\ left \in Seq(PageMessages) /\ l \in Nat /\ DOMAIN left = 1..l
      /\ Len(page) = l + 1 /\ DOMAIN page = 1..(l + 1) /\ m \in PageMessages
      /\ \A i \in 1..l : left[i] = page[i + 1]
    BY Taken
<1>2. \A k : k \in Histories(left) <=> k \in 1..l /\ k + 1 \in Histories(page)
    BY <1>1 DEF Histories
<1>3. \A k : k \in Snaps(left) <=> k \in 1..l /\ k + 1 \in Snaps(page)
    BY <1>1 DEF Snaps
<1>4. \A k \in Histories(page) : k # 1 => k - 1 \in Histories(left)
    BY <1>1 DEF Histories
\* The chart is whole when no history comes any more.
<1>5. ASSUME Histories(left) = {}
      PROVE  d = Upto(Len(d)) /\ (Level(m) = 0 \/ Len(d) = Level(m))
    <2>1. CASE m.type = "metrics.history"
        BY <1>1, <2>1, Levels DEF Charted
    <2>2. ASSUME m.type # "metrics.history" PROVE Histories(page) = {} /\ c = Upto(Len(c))
        <3>1. Histories(page) = {}
            BY <1>4, <1>5, <2>2 DEF Histories
        <3> QED
            BY <3>1 DEF ChartTold
    <2>3. CASE m.type = "metrics.snapshots"
        <3>1. 1 \in Snaps(page)
            BY <1>1, <2>3 DEF Snaps
        <3>2. LastIs(Before(page, 1), 0, Len(c), m.data - 1)
            BY <2>2, <2>3, <3>1 DEF ChartTold
        <3>3. DOMAIN Before(page, 1) = {}
            BY DEF Before
        <3>4. Len(c) = m.data - 1
            BY <3>2, <3>3, LastOfNone
        <3>5. Len(c) \in Nat /\ m.data = Len(c) + 1 /\ Level(m) = m.data
            BY <1>1, <2>3, <3>4, Levels, LenProperties, FeedAssumption
        <3>6. d = Append(Upto(Len(c)), Len(c) + 1)
            BY <2>2, <2>3, <3>5 DEF Charted
        <3>7. Append(Upto(Len(c)), Len(c) + 1) = Upto(Len(c) + 1)
            BY <3>5, UptoIs
        <3>8. Len(Upto(Len(c) + 1)) = Len(c) + 1
            BY <3>5, UptoIs
        <3> QED
            BY <3>5, <3>6, <3>7, <3>8
    <2>4. CASE m.type = "devices.list"
        BY <1>1, <2>2, <2>4, Levels DEF Charted
    <2> QED
        BY <1>1, <2>1, <2>3, <2>4, Levels DEF Topics
<1>6. LastIs(Before(left, l + 1), 0, Len(d), n)
    <2>1. l + 1 \in 1..Len(page) /\ LastIs(Before(page, (l + 1) + 1), 0, Len(c), n)
        BY <1>1 DEF ChartTold
    <2>2. CASE Histories(left) = {}
        BY <1>5, <2>1, <2>2, BeforeTaken
    <2>3. CASE Histories(left) # {}
        <3>1. \E k \in Histories(left) : k < l + 1
            BY <1>1, <2>3 DEF Histories
        <3> QED
            BY <2>1, <3>1, BeforeTaken
    <2> QED
        BY <2>2, <2>3
<1>7. ASSUME NEW j \in Snaps(left), \A k \in Histories(left) : k < j
      PROVE  LastIs(Before(left, j), 0, Len(d), left[j].data - 1)
    <2>1. j \in 1..l /\ j \in 1..Len(page) /\ j + 1 \in Snaps(page) /\ left[j] = page[j + 1]
        BY <1>1, <1>3, <1>7
    <2>2. \A k \in Histories(page) : k < j + 1
        <3> SUFFICES ASSUME NEW k \in Histories(page) PROVE k < j + 1
            OBVIOUS
        <3>1. k \in 1..(l + 1)
            BY <1>1 DEF Histories
        <3>2. k = 1 \/ k - 1 < j
            BY <1>4, <1>7
        <3> QED
            BY <2>1, <3>1, <3>2
    <2>3. LastIs(Before(page, j + 1), 0, Len(c), left[j].data - 1)
        BY <2>1, <2>2 DEF ChartTold
    <2>4. CASE Histories(left) = {}
        BY <1>5, <2>1, <2>3, <2>4, BeforeTaken
    <2>5. CASE Histories(left) # {}
        <3>1. \E k \in Histories(left) : k < j
            BY <1>7, <2>5
        <3> QED
            BY <2>1, <2>3, <3>1, BeforeTaken
    <2> QED
        BY <2>4, <2>5
<1>8. Histories(left) # {} \/ d = Upto(Len(d))
    BY <1>5
<1> QED
    BY <1>6, <1>7, <1>8 DEF ChartTold


\* Nothing is said before the page has opened its socket.
LEMMA FeedInitInv == FeedInit => FeedInv
<1> SUFFICES ASSUME FeedInit PROVE FeedInv
    OBVIOUS
<1>1. FeedTypeOK
    <2>1. 1 \in 1..MaxSamples /\ <<>> \in Seq(1..MaxSamples)
        BY FeedAssumption
    <2>2. toFeed \in Seq([type : {"subscribe", "unsubscribe"}, topics : SUBSET Topics])
        BY DEF FeedInit
    <2>3. toPage \in Seq(DeviceMessages \cup SampleMessages \cup HistoryMessages)
        BY DEF FeedInit
    <2>4. {sawOpen, single} \subseteq BOOLEAN
        BY DEF FeedInit
    <2> QED
        BY <2>1, <2>2, <2>3, <2>4 DEF FeedInit, FeedTypeOK
<1>2. Linked
    BY DEF FeedInit, Linked, Widget
<1> QED
    BY <1>1, <1>2 DEF FeedInit, FeedInv, ListComes, ChartComes

\* A connection lost takes everything on its way with it.
LEMMA CutInv ==
    ASSUME FeedInv, ws' \in {"closed", "connecting", "open"}, ws' # "open",
           topics' = {}, toFeed' = <<>>, toPage' = <<>>, ws' # "closed" => subs # {},
           UNCHANGED <<list, subs, sawOpen, devices, chart, single>>,
           lastDevices' \in Lists \cup {NoList}, samples' \in 1..MaxSamples,
           rest' \in {rest, NoList}, broken' \in Nat
    PROVE  FeedInv'
<1>1. FeedTypeOK'
    BY DEF FeedInv, FeedTypeOK
<1>2. Linked'
    BY DEF FeedInv, Linked, Widget
<1> QED
    BY <1>1, <1>2 DEF FeedInv, ListComes, ChartComes

\* The steps of the connection that send nothing.
LEMMA OpenSocketInv == ASSUME FeedInv, OpenSocket PROVE FeedInv'
<1>1. topics = {} /\ toFeed = <<>> /\ toPage = <<>>
    BY DEF FeedInv, Linked, OpenSocket
<1> QED
    BY <1>1, CutInv DEF OpenSocket, FeedInv, FeedTypeOK, hubFeed, pageFeed

\* A connection or the hub goes.
LEMMA BreaksInv == ASSUME FeedInv, SocketBreaks \/ HubRestarts PROVE FeedInv'
BY CutInv, FeedAssumption DEF SocketBreaks, HubRestarts, Break, FeedInv, FeedTypeOK, pageFeed

\* The steps of the requests over HTTP, and of the list itself.
LEMMA BesideInv ==
    ASSUME FeedInv, ListChanges \/ RefreshDevices \/ DevicesRoute
    PROVE  FeedInv'
<1>1. FeedTypeOK'
    BY DEF FeedInv, FeedTypeOK, ListChanges, RefreshDevices, DevicesRoute, hubFeed, pageFeed
<1>2. UNCHANGED <<lastDevices, samples, topics, toFeed, toPage, ws, subs, sawOpen, devices, chart,
                  single>>
    BY DEF ListChanges, RefreshDevices, DevicesRoute, hubFeed, pageFeed
<1>3. Linked'
    BY <1>2 DEF FeedInv, Linked, Comes
<1>4. ListComes' /\ ChartComes'
    BY <1>2 DEF FeedInv, ListComes, ListWords, ListWord, ChartComes
<1> QED
    BY <1>1, <1>3, <1>4 DEF FeedInv

\* The page opens: nothing is subscribed to before.
LEMMA MountInv == ASSUME FeedInv, Mount PROVE FeedInv'
<1>1. FeedTypeOK'
    BY DEF FeedInv, FeedTypeOK, Mount, hubFeed, Topics
<1>2. ws = "closed" /\ topics = {} /\ toFeed = <<>> /\ toPage = <<>> /\ ~sawOpen
    BY DEF FeedInv, Linked, Mount, FeedTypeOK, Widget
<1>3. Linked'
    BY <1>2 DEF Linked, Comes, Mount, hubFeed, Widget
<1> QED
    BY <1>1, <1>2, <1>3 DEF FeedInv, ListComes, ChartComes, Mount, hubFeed

\* A list that came by itself: nothing is claimed of it.
LEMMA DevicesAnsweredInv == ASSUME FeedInv, DevicesAnswered PROVE FeedInv'
<1>1. FeedTypeOK'
    BY DEF FeedInv, FeedTypeOK, DevicesAnswered, hubFeed
<1>2. Linked' /\ ChartComes'
    BY DEF FeedInv, Linked, Comes, ChartComes, DevicesAnswered, hubFeed
<1>3. ListComes'
    <2>1. ListWords(toPage)' = ListWords(toPage) /\ UNCHANGED <<topics, lastDevices>> /\ single'
        BY DEF DevicesAnswered, hubFeed, ListWords, ListWord
    <2> QED
        BY <2>1 DEF FeedInv, ListComes, LastIs
<1> QED
    BY <1>1, <1>2, <1>3 DEF FeedInv

\* The widget subscribes, the samples before the history, or forgets its topics while there
\* is no connection to say so on.
LEMMA RenderInv == ASSUME FeedInv, Render PROVE FeedInv'
<1> DEFINE Ups == [type : {"subscribe", "unsubscribe"}, topics : SUBSET Topics]
           s == Message("subscribe", {"metrics.snapshots"})
           h == Message("subscribe", {"metrics.history"})
<1>0. /\ UNCHANGED <<hubFeed, toPage, ws, devices, chart, rest, broken, single>>
      /\ subs # {} /\ toFeed \in Seq(Ups)
    BY DEF Render, FeedInv, FeedTypeOK
<1>1. ASSUME ws = "open", sawOpen', ~sawOpen, subs' = subs \cup Widget, toFeed' = toFeed \o <<s, h>>
      PROVE  FeedTypeOK' /\ Linked'
    <2> DEFINE n == Len(toFeed)
    <2>1. s \in Ups /\ h \in Ups
        BY DEF Message, Topics
    <2>2. toFeed' = Append(Append(toFeed, s), h)
        BY <1>0, <1>1, <2>1
    <2>3. Append(toFeed, s) \in Seq(Ups) /\ Len(Append(toFeed, s)) = n + 1
        BY <1>0, <2>1, AppendProperties
    <2>4. /\ toFeed' \in Seq(Ups) /\ n \in Nat /\ DOMAIN toFeed' = 1..(n + 2)
          /\ DOMAIN toFeed = 1..n /\ toFeed'[n + 1] = s /\ toFeed'[n + 2] = h
          /\ \A i \in 1..n : toFeed'[i] = toFeed[i]
        BY <1>0, <2>1, <2>2, <2>3, Added
    <2>5. FeedTypeOK'
        BY <1>0, <1>1, <2>4 DEF FeedInv, FeedTypeOK, hubFeed, Widget, Topics
    <2> HIDE DEF n
    <2>6. \A i \in DOMAIN toFeed' :
             \/ i \in DOMAIN toFeed /\ toFeed'[i] = toFeed[i]
             \/ i = n + 1 /\ toFeed'[i].type = "subscribe" /\ toFeed'[i].topics = {"metrics.snapshots"}
             \/ /\ i = n + 2 /\ toFeed'[i].type = "subscribe" /\ toFeed'[i].topics = {"metrics.history"}
                /\ n + 1 \in DOMAIN toFeed' /\ n + 1 <= i
                /\ "metrics.snapshots" \in toFeed'[n + 1].topics
        BY <2>4 DEF Message
    <2>7. \A i \in DOMAIN toFeed : i \in DOMAIN toFeed' /\ toFeed'[i] = toFeed[i]
        BY <2>4
    <2>8. /\ \A i \in DOMAIN toFeed' : /\ toFeed'[i].type = "subscribe"
                                       /\ toFeed'[i].topics \subseteq subs'
          /\ \A i \in DOMAIN toFeed' : "metrics.history" \in toFeed'[i].topics =>
                \/ "metrics.snapshots" \in topics'
                \/ \E j \in DOMAIN toFeed' : j <= i /\ "metrics.snapshots" \in toFeed'[j].topics
        <3>1. \A i \in DOMAIN toFeed : /\ toFeed[i].type = "subscribe"
                                       /\ toFeed[i].topics \subseteq subs
                                       /\ "metrics.history" \notin toFeed[i].topics
            BY <1>1 DEF FeedInv, Linked, Widget
        <3>2. ASSUME NEW i \in DOMAIN toFeed'
              PROVE  toFeed'[i].type = "subscribe" /\ toFeed'[i].topics \subseteq subs'
            BY <1>1, <2>6, <3>1 DEF Widget
        <3>3. ASSUME NEW i \in DOMAIN toFeed', "metrics.history" \in toFeed'[i].topics
              PROVE  \E j \in DOMAIN toFeed' : j <= i /\ "metrics.snapshots" \in toFeed'[j].topics
            <4>1. i \notin DOMAIN toFeed \/ toFeed'[i] # toFeed[i]
                BY <3>1, <3>3
            <4>2. i # n + 1 \/ toFeed'[i].topics # {"metrics.snapshots"}
                BY <3>3
            <4> QED
                BY <2>6, <4>1, <4>2
        <3> QED
            BY <3>2, <3>3
    <2>9. \A t \in {"devices.list", "metrics.history"} \cap subs' : Comes(t)'
        <3>1. n + 2 \in DOMAIN toFeed' /\ "metrics.history" \in toFeed'[n + 2].topics
            BY <2>4 DEF Message
        <3>2. Comes("devices.list")
            BY <1>0, <1>1 DEF FeedInv, Linked
        <3>3. Comes("metrics.history")'
            BY <3>1 DEF Comes
        <3>4. Comes("devices.list")'
            BY <1>0, <2>7, <3>2 DEF Comes, hubFeed
        <3> QED
            BY <3>3, <3>4
    <2>10. Linked'
        BY <1>0, <1>1, <2>8, <2>9 DEF FeedInv, Linked, hubFeed, Widget
    <2> QED
        BY <2>5, <2>10
<1>2. ASSUME ws # "open", ~sawOpen', sawOpen' \in BOOLEAN, subs' = subs \ Widget, toFeed' = toFeed
      PROVE  FeedTypeOK' /\ Linked'
    <2>1. FeedTypeOK'
        BY <1>0, <1>2 DEF FeedInv, FeedTypeOK, hubFeed
    <2>2. topics = {} /\ toFeed = <<>> /\ toPage = <<>> /\ "devices.list" \in subs'
        BY <1>0, <1>2 DEF FeedInv, Linked, Widget
    <2>3. Linked'
        BY <1>0, <1>2, <2>2 DEF Linked, hubFeed, Widget
    <2> QED
        BY <2>1, <2>3
<1>3. FeedTypeOK' /\ Linked'
    <2>1. CASE ws = "open"
        BY <1>1, <2>1 DEF Render, Send, FeedInv, FeedTypeOK
    <2>2. CASE ws # "open"
        BY <1>2, <2>2 DEF Render, Send, FeedInv, FeedTypeOK
    <2> QED
        BY <2>1, <2>2
<1>4. ListComes' /\ ChartComes'
    BY <1>0 DEF FeedInv, ListComes, ListWords, ListWord, ChartComes, hubFeed
<1> QED
    BY <1>3, <1>4 DEF FeedInv

\* What a message adds to the words about the list.
LEMMA ListAdded ==
    ASSUME NEW page \in Seq(PageMessages), NEW m \in PageMessages
    PROVE  LET n == Len(page) IN
           /\ n \in Nat /\ DOMAIN ListWords(page) = 1..n
           /\ DOMAIN ListWords(Append(page, m)) = 1..(n + 1)
           /\ \A i \in 1..n : ListWords(Append(page, m))[i] = ListWords(page)[i]
           /\ ListWords(Append(page, m))[n + 1] = ListWord(m)
BY Added DEF ListWords

\* The list is broadcast: the page will show what the hub broadcast last.
LEMMA DevicesTickInv == ASSUME FeedInv, DevicesTick PROVE FeedInv'
<1> DEFINE m == [type |-> "devices.list", data |-> list, pushed |-> TRUE]
<1>0. /\ UNCHANGED <<list, samples, topics, toFeed, ws, subs, sawOpen, devices, chart, rest, broken,
                     single>>
      /\ lastDevices' = list
      /\ toPage' = IF "devices.list" \in topics THEN Append(toPage, m) ELSE toPage
    BY DEF DevicesTick, Broadcast, pageFeed, FeedInv, Linked
<1>1. toPage \in Seq(PageMessages) /\ m \in PageMessages /\ m.type = "devices.list"
    BY DEF FeedInv, FeedTypeOK, PageMessages, DeviceMessages
<1> HIDE DEF m
<1>2. CASE "devices.list" \in topics
    <2>1. toPage' = Append(toPage, m) /\ toPage' \in Seq(PageMessages)
        BY <1>0, <1>1, <1>2, Added
    <2>2. FeedTypeOK'
        BY <1>0, <2>1 DEF FeedInv, FeedTypeOK, PageMessages
    <2>3. \A i \in DOMAIN toPage' : toPage'[i].type \in topics
        <3>1. \A i \in DOMAIN toPage' : toPage'[i] = m \/ (i \in DOMAIN toPage /\ toPage'[i] = toPage[i])
            BY <1>1, <2>1, Added
        <3> QED
            BY <1>1, <1>2, <3>1 DEF FeedInv, Linked
    <2>4. Linked'
        BY <1>0, <2>1, <2>3 DEF FeedInv, Linked, Comes
    <2>5. ChartComes'
        BY <1>0, <1>1, <2>1, ChartKept DEF FeedInv, ChartComes
    <2>6. ListComes'
        <3> DEFINE more == ListWords(toPage)'
        <3>1. toPage'[Len(toPage) + 1] = m /\ Len(toPage) + 1 \in DOMAIN toPage'
            BY <1>1, <2>1, Added
        <3>2. Len(toPage) \in Nat /\ DOMAIN more = 1..(Len(toPage) + 1)
            BY <1>1, <2>1, Added DEF ListWords
        <3>3. more[Len(toPage) + 1] = {list}
            <4>1. more = [i \in DOMAIN toPage' |->
                              IF toPage'[i].type = "devices.list"
                              THEN {IF toPage'[i].pushed THEN toPage'[i].data ELSE lastDevices'}
                              ELSE {}]
                BY DEF ListWords, ListWord
            <4>2. m.type = "devices.list" /\ m.pushed /\ m.data = list
                BY DEF m
            <4> QED
                BY <3>1, <4>1, <4>2
        <3> HIDE DEF more
        <3>4. LastIs(more, {}, {IF single THEN list ELSE devices}, {list})
            BY <3>2, <3>3, LastSaid
        <3> QED
            BY <1>0, <3>4 DEF ListComes, more
    <2> QED
        BY <2>2, <2>4, <2>5, <2>6 DEF FeedInv
<1>3. CASE "devices.list" \notin topics
    <2>1. FeedTypeOK'
        BY <1>0, <1>3 DEF FeedInv, FeedTypeOK
    <2>2. Linked' /\ ChartComes'
        BY <1>0, <1>3 DEF FeedInv, Linked, Comes, ChartComes
    <2> QED
        BY <1>0, <1>3, <2>1, <2>2 DEF FeedInv, ListComes
<1> QED
    BY <1>2, <1>3

\* A sample is taken: it is broadcast to the pages that have the history.
LEMMA SampleInv == ASSUME FeedInv, SampleAndBroadcast PROVE FeedInv'
<1> DEFINE m == [type |-> "metrics.snapshots", data |-> samples + 1]
<1>0. /\ UNCHANGED <<list, lastDevices, topics, toFeed, ws, subs, sawOpen, devices, chart, rest,
                     broken, single>>
      /\ samples' = samples + 1 /\ samples' \in 1..MaxSamples /\ samples \in Nat
      /\ toPage' = IF "metrics.snapshots" \in topics THEN Append(toPage, m) ELSE toPage
    BY FeedAssumption DEF SampleAndBroadcast, Broadcast, pageFeed, FeedInv, FeedTypeOK, Linked
<1>1. /\ toPage \in Seq(PageMessages) /\ m \in PageMessages
      /\ m.type = "metrics.snapshots" /\ m.data = samples + 1
    BY <1>0 DEF FeedInv, FeedTypeOK, PageMessages, SampleMessages
<1> HIDE DEF m
<1>2. CASE "metrics.snapshots" \in topics
    <2>1. toPage' = Append(toPage, m) /\ toPage' \in Seq(PageMessages)
        BY <1>0, <1>1, <1>2, Added
    <2>2. FeedTypeOK'
        BY <1>0, <2>1 DEF FeedInv, FeedTypeOK, PageMessages
    <2>3. \A i \in DOMAIN toPage' : toPage'[i].type \in topics
        <3>1. \A i \in DOMAIN toPage' : toPage'[i] = m \/ (i \in DOMAIN toPage /\ toPage'[i] = toPage[i])
            BY <1>1, <2>1, Added
        <3> QED
            BY <1>1, <1>2, <3>1 DEF FeedInv, Linked
    <2>4. Linked'
        BY <1>0, <2>1, <2>3 DEF FeedInv, Linked, Comes
    <2>5. ChartComes'
        BY <1>0, <1>1, <2>1, SampleSent DEF FeedInv, ChartComes
    <2>6. ListComes'
        <3> DEFINE more == ListWords(toPage)'
                   words == ListWords(toPage)
        <3>1. ListWord(m) = {}
            BY <1>1 DEF ListWord
        <3>2. more = ListWords(Append(toPage, m))
            BY <1>0, <2>1 DEF ListWords, ListWord
        <3>3. /\ Len(toPage) \in Nat /\ DOMAIN words = 1..Len(toPage)
              /\ DOMAIN more = 1..(Len(toPage) + 1)
              /\ \A i \in 1..Len(toPage) : more[i] = words[i]
              /\ more[Len(toPage) + 1] = {}
            BY <1>1, <3>1, <3>2, ListAdded
        <3> HIDE DEF more, words
        <3>4. ASSUME NEW base, NEW v, LastIs(words, {}, base, v) PROVE LastIs(more, {}, base, v)
            BY <3>3, <3>4, LastKept
        <3> QED
            BY <1>0, <3>4 DEF FeedInv, ListComes, more, words
    <2> QED
        BY <2>2, <2>4, <2>5, <2>6 DEF FeedInv
<1>3. CASE "metrics.snapshots" \notin topics
    <2>1. FeedTypeOK'
        BY <1>0, <1>3 DEF FeedInv, FeedTypeOK
    <2>2. Linked' /\ ListComes'
        BY <1>0, <1>3 DEF FeedInv, Linked, Comes, ListComes, ListWords, ListWord
    <2>3. "metrics.history" \notin topics
        BY <1>3 DEF FeedInv, Linked
    <2> QED
        BY <1>0, <2>1, <2>2, <2>3 DEF FeedInv, ChartComes
<1> QED
    BY <1>2, <1>3

\* A message is taken by the page.
LEMMA HandlePushInv == ASSUME FeedInv, HandlePush PROVE FeedInv'
<1> DEFINE m == toPage[1]
           n == Len(toPage')
<1>0. /\ UNCHANGED <<list, lastDevices, samples, topics, toFeed, ws, subs, sawOpen, rest, broken>>
      /\ toPage # <<>> /\ toPage' = Tail(toPage) /\ toPage \in Seq(PageMessages)
      /\ chart \in Seq(1..MaxSamples)
    BY DEF HandlePush, hubFeed, FeedInv, FeedTypeOK, PageMessages
<1>1. /\ toPage' \in Seq(PageMessages) /\ n \in Nat /\ DOMAIN toPage' = 1..n
      /\ DOMAIN toPage = 1..(n + 1) /\ Head(toPage) = m /\ m \in PageMessages
      /\ \A i \in 1..n : toPage'[i] = toPage[i + 1]
    BY <1>0, Taken
<1>2. m.type \in topics /\ m.type \in subs
    BY <1>1 DEF FeedInv, Linked
<1>3. /\ devices' = (IF m.type = "devices.list" THEN m.data ELSE devices)
      /\ single' = (IF m.type = "devices.list" THEN ~m.pushed ELSE single)
      /\ chart' = Charted(m, chart)
    BY <1>1, <1>2 DEF HandlePush, Charted
<1> HIDE DEF m, n
<1>4. FeedTypeOK'
    <2>1. chart' \in Seq(1..MaxSamples)
        <3>1. CASE m.type = "metrics.snapshots"
            BY <1>0, <1>1, <1>3, <3>1, Levels, Added DEF Charted
        <3>2. CASE m.type = "metrics.history"
            <4>1. PICK k \in 1..MaxSamples : m.data = Upto(k)
                BY <1>1, <3>2, Levels
            <4>2. k \in Nat /\ Upto(k) \in Seq(1..k) /\ 1..k \subseteq 1..MaxSamples
                BY UptoIs, FeedAssumption
            <4> QED
                BY <1>3, <3>2, <4>1, <4>2, SeqMonotonic DEF Charted
        <3>3. CASE m.type = "devices.list"
            BY <1>0, <1>3, <3>3 DEF Charted
        <3> QED
            BY <1>1, <3>1, <3>2, <3>3, Levels DEF Topics
    <2>2. devices' \in Lists \cup {NoList} /\ single' \in BOOLEAN
        BY <1>1, <1>3, Levels DEF FeedInv, FeedTypeOK
    <2> QED
        BY <1>0, <1>1, <2>1, <2>2 DEF FeedInv, FeedTypeOK, PageMessages
<1>5. Linked'
    <2>1. \A i \in DOMAIN toPage' : toPage'[i].type \in topics
        BY <1>1 DEF FeedInv, Linked
    <2>2. ws = "open"
        BY <1>0 DEF FeedInv, Linked
    <2> QED
        BY <1>0, <2>1, <2>2 DEF FeedInv, Linked, Comes
<1>6. ChartComes'
    <2>1. chart \in Seq(Nat)
        BY <1>0, FeedAssumption, SeqMonotonic
    <2> QED
        BY <1>0, <1>3, <2>1, ChartTaken DEF FeedInv, ChartComes, m
<1>7. ListComes'
    <2> DEFINE words == ListWords(toPage)
               left == ListWords(toPage)'
               base == {IF single THEN lastDevices ELSE devices}
    <2>1. /\ DOMAIN words = 1..(n + 1) /\ DOMAIN left = 1..n
          /\ \A i \in 1..n : left[i] = words[i + 1]
          /\ words[1] = ListWord(m)
        <3>1. DOMAIN words = 1..(n + 1) /\ DOMAIN left = 1..n /\ words[1] = ListWord(m)
            BY <1>1 DEF ListWords, m
        <3>2. left = [i \in DOMAIN toPage' |-> ListWord(toPage'[i])]
            BY <1>0 DEF ListWords, ListWord
        <3> QED
            BY <1>1, <3>1, <3>2 DEF ListWords
    <2>2. (IF ListWord(m) = {} THEN base ELSE ListWord(m))
            = {IF single THEN lastDevices ELSE devices}'
        <3>1. CASE m.type = "devices.list"
            <4>1. m.pushed \in BOOLEAN
                BY <1>1, <3>1, Levels
            <4> QED
                BY <1>0, <1>3, <3>1, <4>1 DEF ListWord
        <3>2. CASE m.type # "devices.list"
            BY <1>0, <1>3, <3>2 DEF ListWord
        <3> QED
            BY <3>1, <3>2
    <2> SUFFICES ASSUME "devices.list" \in topics
                 PROVE  LastIs(left, {}, {IF single THEN lastDevices ELSE devices}', {lastDevices})
        BY <1>0 DEF ListComes
    <2>3. LastIs(words, {}, base, {lastDevices})
        BY DEF FeedInv, ListComes
    <2> HIDE DEF words, left, base
    <2>4. LastIs(left, {}, IF words[1] = {} THEN base ELSE words[1], {lastDevices})
        BY <1>1, <2>1, <2>3, LastTaken
    <2> QED
        BY <2>1, <2>2, <2>4
<1> QED
    BY <1>4, <1>5, <1>6, <1>7 DEF FeedInv

\* The socket opens: everything is subscribed to again.
LEMMA SocketOpensInv == ASSUME FeedInv, SocketOpens PROVE FeedInv'
<1>0. /\ UNCHANGED <<list, lastDevices, samples, subs, sawOpen, devices, chart, rest, broken, single>>
      /\ ws = "connecting" /\ ws' = "open" /\ topics' = {} /\ toPage' = <<>> /\ toFeed' = Resubscribed
    BY DEF SocketOpens, pageFeed
<1>1. subs # {} /\ subs \subseteq Topics
    BY <1>0 DEF FeedInv, Linked, FeedTypeOK
<1>2. /\ toFeed' = <<Message("subscribe", subs)>>
      /\ toFeed' \in Seq([type : {"subscribe", "unsubscribe"}, topics : SUBSET Topics])
    <2>1. toFeed' = <<Message("subscribe", subs)>>
        BY <1>0, <1>1 DEF Resubscribed
    <2>2. Message("subscribe", subs) \in [type : {"subscribe", "unsubscribe"}, topics : SUBSET Topics]
        BY <1>1 DEF Message
    <2> HIDE DEF Message
    <2> QED
        BY <2>1, <2>2
<1>3. /\ DOMAIN toFeed' = {1} /\ toFeed'[1].type = "subscribe" /\ toFeed'[1].topics = subs
    BY <1>2 DEF Message
<1>4. FeedTypeOK'
    BY <1>0, <1>2 DEF FeedInv, FeedTypeOK
<1>5. "metrics.history" \in subs => "metrics.snapshots" \in subs
    BY DEF FeedInv, Linked, Widget, FeedTypeOK
<1>6. Linked'
    <2>1. \A i \in DOMAIN toFeed' : "metrics.history" \in toFeed'[i].topics =>
              \E j \in DOMAIN toFeed' : j <= i /\ "metrics.snapshots" \in toFeed'[j].topics
        BY <1>3, <1>5
    <2>2. \A t \in subs : \E i \in DOMAIN toFeed' : t \in toFeed'[i].topics
        BY <1>3
    <2>3. \A i \in DOMAIN toFeed' : toFeed'[i].type = "subscribe" /\ toFeed'[i].topics \subseteq subs
        BY <1>3
    <2> QED
        BY <1>0, <1>1, <2>1, <2>2, <2>3 DEF FeedInv, Linked, Comes
<1> QED
    BY <1>0, <1>4, <1>6 DEF FeedInv, ListComes, ChartComes

HistoryNow == [type |-> "metrics.history", data |-> Upto(samples)]
ListNow == [type |-> "devices.list", data |-> list, pushed |-> FALSE]
WithHistory(page, subscribed) ==
    IF "metrics.history" \in subscribed THEN Append(page, HistoryNow) ELSE page

\* The snapshots are the history, and after it the list.
LEMMA SnapshotsAre ==
    ASSUME NEW page \in Seq(PageMessages), NEW subscribed,
           HistoryNow \in PageMessages, ListNow \in PageMessages
    PROVE  page \o Snapshots(subscribed)
               = IF "devices.list" \in subscribed
                 THEN Append(WithHistory(page, subscribed), ListNow)
                 ELSE WithHistory(page, subscribed)
<1> DEFINE h == HistoryNow
           d == ListNow
<1>0. h \in PageMessages /\ d \in PageMessages
    OBVIOUS
<1>1. /\ page \o <<h>> = Append(page, h) /\ page \o <<d>> = Append(page, d)
      /\ page \o <<>> = page /\ <<>> \o <<>> = <<>> /\ <<h>> \o <<>> = <<h>> /\ <<>> \o <<d>> = <<d>>
    BY <1>0
<1>2. page \o (<<h>> \o <<d>>) = Append(Append(page, h), d)
    <2>1. <<h>> \o <<d>> = <<h, d>>
        <3> HIDE DEF h, d
        <3>1. <<h>> \in Seq({h, d}) /\ <<d>> \in Seq({h, d}) /\ <<h, d>> \in Seq({h, d})
            OBVIOUS
        <3>2. /\ <<h>> \o <<d>> \in Seq({h, d}) /\ Len(<<h>> \o <<d>>) = 2
              /\ (<<h>> \o <<d>>)[1] = h /\ (<<h>> \o <<d>>)[2] = d
            BY <3>1, ConcatProperties
        <3> QED
            <4> DEFINE one == <<h>> \o <<d>>
                       two == <<h, d>>
            <4>1. Len(two) = 2 /\ two[1] = h /\ two[2] = d /\ \A i \in 1..2 : i = 1 \/ i = 2
                OBVIOUS
            <4> HIDE DEF one, two
            <4>2. one = two
                BY <3>1, <3>2, <4>1, SeqEqual DEF one, two
            <4> QED
                BY <4>2 DEF one, two
    <2>2. page \o <<h, d>> = Append(Append(page, h), d)
        BY <1>0
    <2> QED
        BY <2>1, <2>2
<1>3. Snapshots(subscribed) = (IF "metrics.history" \in subscribed THEN <<h>> ELSE <<>>)
                              \o (IF "devices.list" \in subscribed THEN <<d>> ELSE <<>>)
    BY DEF Snapshots, HistoryNow, ListNow
<1> HIDE DEF h, d
<1> QED
    BY <1>1, <1>2, <1>3 DEF WithHistory, h, d

\* The hub takes a subscription and answers it with snapshots of all that is subscribed to.
LEMMA HandleFeedInv == ASSUME FeedInv, HandleFeedMessage PROVE FeedInv'
<1> DEFINE m == toFeed[1]
           n == Len(toFeed')
           h == HistoryNow
           d == ListNow
           more == WithHistory(toPage, topics')
           Ups == [type : {"subscribe", "unsubscribe"}, topics : SUBSET Topics]
<1>0. /\ UNCHANGED <<list, lastDevices, samples, ws, subs, sawOpen, devices, chart, rest, broken,
                     single>>
      /\ toFeed # <<>> /\ toFeed' = Tail(toFeed) /\ toFeed \in Seq(Ups)
      /\ toPage \in Seq(PageMessages)
    BY DEF HandleFeedMessage, pageFeed, FeedInv, FeedTypeOK, PageMessages
<1>1. /\ toFeed' \in Seq(Ups) /\ n \in Nat /\ DOMAIN toFeed' = 1..n /\ DOMAIN toFeed = 1..(n + 1)
      /\ Head(toFeed) = m /\ m \in Ups /\ \A i \in 1..n : toFeed'[i] = toFeed[i + 1]
    BY <1>0, Taken
<1>2. m.type = "subscribe" /\ m.topics \subseteq subs /\ ws = "open"
    BY <1>0, <1>1 DEF FeedInv, Linked
<1>3. topics' = topics \cup m.topics /\ toPage' = toPage \o Snapshots(topics')
    BY <1>1, <1>2 DEF HandleFeedMessage
<1> HIDE DEF m, n
<1>4. h \in PageMessages /\ d \in PageMessages /\ h.type = "metrics.history" /\ d.type = "devices.list"
      /\ Len(h.data) = samples /\ ListWord(d) = {lastDevices} /\ h.data = Upto(samples)
    <2>1. samples \in 1..MaxSamples /\ samples \in Nat /\ list \in Lists
        BY FeedAssumption DEF FeedInv, FeedTypeOK
    <2> QED
        BY <2>1, UptoIs DEF PageMessages, HistoryMessages, DeviceMessages, ListWord, HistoryNow, ListNow
<1>5. toPage' = IF "devices.list" \in topics' THEN Append(more, d) ELSE more
    BY <1>0, <1>3, <1>4, SnapshotsAre
<1> HIDE DEF h, d
<1>6. /\ more \in Seq(PageMessages)
      /\ "metrics.history" \in topics' => ChartTold(more, chart, samples)
    <2>1. CASE "metrics.history" \in topics'
        <3>1. more = Append(toPage, h)
            BY <2>1 DEF WithHistory, more, h
        <3> HIDE DEF more
        <3> QED
            BY <1>0, <1>4, <3>1, Added, ChartSent
    <2>2. CASE "metrics.history" \notin topics'
        BY <1>0, <2>2 DEF WithHistory
    <2> QED
        BY <2>1, <2>2
<1>7. \A i \in DOMAIN more : \/ i \in DOMAIN toPage /\ more[i] = toPage[i]
                             \/ "metrics.history" \in topics' /\ more[i] = h
    <2>1. CASE "metrics.history" \in topics'
        <3>1. more = Append(toPage, h)
            BY <2>1 DEF WithHistory, more, h
        <3> HIDE DEF more
        <3> QED
            BY <1>0, <1>4, <2>1, <3>1, Added
    <2>2. CASE "metrics.history" \notin topics'
        BY <1>0, <2>2 DEF WithHistory
    <2> QED
        BY <2>1, <2>2
<1> HIDE DEF more
<1>8. /\ toPage' \in Seq(PageMessages)
      /\ "metrics.history" \in topics' => ChartTold(toPage', chart, samples)
    BY <1>4, <1>5, <1>6, Added, ChartKept
<1>9. \A i \in DOMAIN toPage' : toPage'[i].type \in topics'
    <2>1. \A i \in DOMAIN toPage' : \/ i \in DOMAIN more /\ toPage'[i] = more[i]
                                    \/ "devices.list" \in topics' /\ toPage'[i] = d
        <3>1. CASE "devices.list" \in topics'
            <4>1. toPage' = Append(more, d)
                BY <1>5, <3>1
            <4> QED
                BY <1>4, <1>6, <3>1, <4>1, Added
        <3>2. CASE "devices.list" \notin topics'
            BY <1>5, <3>2
        <3> QED
            BY <3>1, <3>2
    <2> QED
        BY <1>3, <1>4, <1>7, <2>1 DEF FeedInv, Linked
<1>10. FeedTypeOK'
    BY <1>0, <1>1, <1>3, <1>8 DEF FeedInv, FeedTypeOK, PageMessages
<1>11. Linked'
    <2>1. \A i \in DOMAIN toFeed : i = 1 \/ (i - 1 \in DOMAIN toFeed' /\ toFeed'[i - 1] = toFeed[i])
        BY <1>1
    <2>2. \A i \in DOMAIN toFeed' : i + 1 \in DOMAIN toFeed /\ toFeed'[i] = toFeed[i + 1]
        BY <1>1
    <2>3. \A t : Comes(t) => Comes(t)'
        BY <1>3, <2>1 DEF Comes, m
    <2>4. ASSUME NEW i \in DOMAIN toFeed', "metrics.history" \in toFeed'[i].topics
          PROVE  \/ "metrics.snapshots" \in topics'
                 \/ \E j \in DOMAIN toFeed' : j <= i /\ "metrics.snapshots" \in toFeed'[j].topics
        <3>1. \/ "metrics.snapshots" \in topics
              \/ \E j \in DOMAIN toFeed : j <= i + 1 /\ "metrics.snapshots" \in toFeed[j].topics
            BY <2>2, <2>4 DEF FeedInv, Linked
        <3>2. ASSUME NEW j \in DOMAIN toFeed, j <= i + 1, "metrics.snapshots" \in toFeed[j].topics,
                     j # 1
              PROVE  j - 1 \in DOMAIN toFeed' /\ j - 1 <= i
                     /\ "metrics.snapshots" \in toFeed'[j - 1].topics
            BY <1>1, <2>1, <3>2
        <3> QED
            BY <1>3, <3>1, <3>2 DEF m
    <2>5. "metrics.history" \in topics' => "metrics.snapshots" \in topics'
        <3>1. CASE "metrics.history" \in topics
            BY <1>3, <3>1 DEF FeedInv, Linked
        <3>2. CASE "metrics.history" \in m.topics
            <4>1. 1 \in DOMAIN toFeed /\ \A j \in DOMAIN toFeed : j <= 1 => j = 1
                BY <1>1
            <4>2. "metrics.snapshots" \in topics \/ "metrics.snapshots" \in toFeed[1].topics
                BY <3>2, <4>1 DEF FeedInv, Linked, m
            <4> QED
                BY <1>3, <4>2 DEF m
        <3> QED
            BY <1>3, <3>1, <3>2
    <2>6. \A i \in DOMAIN toFeed' : toFeed'[i].type = "subscribe" /\ toFeed'[i].topics \subseteq subs
        BY <2>2 DEF FeedInv, Linked
    <2>7. topics' \subseteq subs
        BY <1>2, <1>3 DEF FeedInv, Linked
    <2>8. \A t \in {"devices.list", "metrics.history"} \cap subs : Comes(t)'
        BY <1>2, <2>3 DEF FeedInv, Linked
    <2> QED
        BY <1>0, <1>2, <1>9, <2>4, <2>5, <2>6, <2>7, <2>8 DEF FeedInv, Linked
<1>12. ListComes'
    <2> SUFFICES ASSUME "devices.list" \in topics'
                 PROVE  LastIs(ListWords(toPage)', {}, {IF single THEN lastDevices ELSE devices},
                               {lastDevices})
        BY <1>0 DEF ListComes
    <2> DEFINE words == ListWords(toPage)'
    <2>1. words = ListWords(Append(more, d))
        BY <1>0, <1>5 DEF ListWords, ListWord
    <2>2. /\ Len(more) \in Nat /\ DOMAIN words = 1..(Len(more) + 1)
          /\ words[Len(more) + 1] = {lastDevices}
        BY <1>4, <1>6, <2>1, ListAdded
    <2> HIDE DEF words
    <2>3. LastIs(words, {}, {IF single THEN lastDevices ELSE devices}, {lastDevices})
        BY <2>2, LastSaid
    <2> QED
        BY <2>3 DEF words
<1>13. ChartComes'
    BY <1>0, <1>8 DEF ChartComes
<1> QED
    BY <1>10, <1>11, <1>12, <1>13 DEF FeedInv

\* Every step keeps the invariant.
LEMMA FeedNextInv == FeedInv /\ [FeedNext]_feedVars => FeedInv'
<1> SUFFICES ASSUME FeedInv, [FeedNext]_feedVars PROVE FeedInv'
    OBVIOUS
<1>1. CASE UNCHANGED feedVars
    BY <1>1 DEF FeedInv, FeedTypeOK, Linked, Comes, ListComes, ListWords, ListWord, ChartComes,
                feedVars, hubFeed, pageFeed
<1>2. CASE FeedNext
    BY <1>2, BesideInv, DevicesTickInv, SampleInv, HandleFeedInv, OpenSocketInv, SocketOpensInv,
       BreaksInv, MountInv, DevicesAnsweredInv, RenderInv, HandlePushInv DEF FeedNext
<1> QED
    BY <1>1, <1>2

\* What has been handled is shown.
LEMMA FeedInvCatchesUp == FeedInv => PageCatchesUp
<1> SUFFICES ASSUME FeedInv, AllHandled PROVE
        /\ list = lastDevices /\ ~single => devices = list
        /\ sawOpen => chart = Upto(samples)
    BY DEF PageCatchesUp
<1>1. /\ ws = "open" /\ toPage = <<>> /\ toFeed = <<>> /\ Histories(toPage) = {}
      /\ DOMAIN ListWords(toPage) = {} /\ DOMAIN Before(toPage, Len(toPage) + 1) = {}
    BY DEF AllHandled, ListWords, Before, Histories
<1>2. \A t \in {"devices.list", "metrics.history"} \cap subs : t \in topics
    BY <1>1 DEF FeedInv, Linked, Comes
<1>3. ASSUME list = lastDevices, ~single PROVE devices = list
    <2>1. "devices.list" \in topics
        BY <1>1, <1>2 DEF FeedInv, Linked
    <2>2. {IF single THEN lastDevices ELSE devices} = {lastDevices}
        BY <1>1, <2>1, LastOfNone DEF FeedInv, ListComes
    <2> QED
        BY <1>3, <2>2
<1>4. ASSUME sawOpen PROVE chart = Upto(samples)
    <2>1. "metrics.history" \in topics
        BY <1>2, <1>4 DEF FeedInv, Linked, Widget
    <2>2. ChartTold(toPage, chart, samples)
        BY <2>1 DEF FeedInv, ChartComes
    <2>3. Len(chart) = samples
        BY <1>1, <2>2, LastOfNone DEF ChartTold
    <2> QED
        BY <1>1, <2>2, <2>3 DEF ChartTold
<1> QED
    BY <1>3, <1>4

\* Every variable of ConsoleFeed keeps its type (src/index.ts, ui/src/api/socket.ts).
THEOREM FeedTypeCorrect == FeedSpec => []FeedTypeOK
<1>1. FeedInv => FeedTypeOK
    BY DEF FeedInv
<1> QED
    BY <1>1, FeedInitInv, FeedNextInv, PTL DEF FeedSpec

\* For any lists, number of samples, lost connections and restarts of the hub, and wherever
\* a sample falls between the page's subscriptions: when everything sent has been handled,
\* the chart shows the whole history in order, and the list is the hub's unless it came by
\* itself (the socket's handler and broadcast of src/index.ts, onHistory of SystemWidget.tsx).
THEOREM PageCatchesUpTheorem == FeedSpec => []PageCatchesUp
    BY FeedInitInv, FeedNextInv, FeedInvCatchesUp, PTL DEF FeedSpec

-----------------------------------------------------------------------------
(* AdminPassword.  Who is let in gave a password that counted during the      *)
(* request, and the environment's password is replaced once.                  *)

\* What a request that awaits bcrypt may rely on.
Awaited ==
    /\ \A l \in Logins :
          attempt[l].at = "verifying" => attempt[l].read # NoRow /\ attempt[l].read \in inForce[l]
    /\ \A c \in Changes :
          /\ change[c].at = "verifying"
                => change[c].read # NoRow /\ change[c].read \in inForce[c]
          /\ change[c].at = "hashing" => change[c].given \in inForce[c]

LetIn == \A l \in Logins : attempt[l].at = "accepted" => attempt[l].given \in inForce[l]
Changed == \A c \in Changes : change[c].at = "ok" => change[c].given \in inForce[c]

\* The environment's password gave way to a row, and to one change only.
Replaced == /\ \A c, d \in Replacers : c = d
            /\ Replacers # {} => row # NoRow

PasswordInv == PasswordTypeOK /\ Awaited /\ LetIn /\ Changed /\ Replaced

\* No request has been made at first.
LEMMA PasswordInitInv == PasswordInit => PasswordInv
<1> SUFFICES ASSUME PasswordInit PROVE PasswordInv
    OBVIOUS
<1>1. PasswordTypeOK
    BY PasswordAssumption DEF PasswordInit, PasswordTypeOK, Rows, Requests, NotAsked, NoChange
<1>2. Awaited /\ LetIn /\ Changed
    BY DEF PasswordInit, Awaited, LetIn, Changed, NotAsked, NoChange
<1>3. Replaced
    BY DEF PasswordInit, Replaced, Replacers, NoChange
<1> QED
    BY <1>1, <1>2, <1>3 DEF PasswordInv

\* A write of the row takes nothing from what was in force for a request.
LEMMA WritesKeeps ==
    ASSUME PasswordTypeOK, NEW p \in Passwords, Writes(p)
    PROVE  /\ row' \in Rows /\ row' # NoRow
           /\ inForce' \in [Requests -> SUBSET Passwords]
           /\ \A q \in Requests : inForce[q] \subseteq inForce'[q]
BY PasswordAssumption DEF Writes, PasswordTypeOK, Rows

\* Every step of a request, the command line and a restart keep the invariant.
LEMMA PasswordStep == PasswordInv /\ [PasswordNext]_passwordVars => PasswordInv'
<1> SUFFICES ASSUME PasswordInv, [PasswordNext]_passwordVars PROVE PasswordInv'
    OBVIOUS
<1> USE DEF PasswordInv
<1>a. Logins \subseteq Requests /\ Changes \subseteq Requests /\ Logins \cap Changes = {}
    BY PasswordAssumption DEF Requests
<1>b. Current(row) \in Passwords
    BY PasswordAssumption DEF Current, PasswordTypeOK, Rows
<1>1. ASSUME NEW l \in Logins, NEW p \in Passwords, LoginRequest(l, p) PROVE PasswordInv'
    <2>1. /\ attempt' = [attempt EXCEPT ![l] =
                 [at |-> IF row = NoRow THEN "accepted" ELSE "verifying", given |-> p, read |-> row]]
          /\ inForce' = [inForce EXCEPT ![l] = {Current(row)}]
          /\ UNCHANGED <<row, change, cli>>
        BY <1>1 DEF LoginRequest, Begins
    <2>2. PasswordTypeOK'
        BY <2>1, <1>a, <1>b DEF PasswordTypeOK
    <2>3. row = NoRow => p = Current(row)
        BY <1>1 DEF LoginRequest, Fallback, Current
    <2>4. row # NoRow => row = Current(row)
        BY DEF Current
    <2>5. Awaited' /\ LetIn' /\ Changed'
        BY <2>1, <2>3, <2>4, <1>a DEF PasswordTypeOK, Awaited, LetIn, Changed
    <2>6. Replaced'
        BY <2>1 DEF Replaced, Replacers
    <2> QED
        BY <2>2, <2>5, <2>6
<1>2. ASSUME NEW l \in Logins, LoginVerified(l) PROVE PasswordInv'
    <2>1. CASE attempt[l].given = attempt[l].read \/ Fallback(attempt[l].given, attempt[l].read)
        <3>1. attempt' = [attempt EXCEPT ![l].at = "accepted"] /\ UNCHANGED <<inForce, row, change, cli>>
            BY <1>2, <2>1 DEF LoginVerified
        <3>2. attempt[l].given \in inForce[l]
            BY <1>2, <2>1 DEF LoginVerified, Fallback, Awaited
        <3>3. PasswordTypeOK'
            BY <3>1 DEF PasswordTypeOK
        <3>4. Awaited' /\ LetIn' /\ Changed'
            BY <3>1, <3>2 DEF PasswordTypeOK, Awaited, LetIn, Changed
        <3>5. Replaced'
            BY <3>1 DEF Replaced, Replacers
        <3> QED
            BY <3>3, <3>4, <3>5
    <2>2. CASE ~(attempt[l].given = attempt[l].read \/ Fallback(attempt[l].given, attempt[l].read))
        <3>1. /\ attempt' = [attempt EXCEPT ![l] = NotAsked]
              /\ inForce' = [inForce EXCEPT ![l] = {}] /\ UNCHANGED <<row, change, cli>>
            BY <1>2, <2>2 DEF LoginVerified, Ends
        <3>3. PasswordTypeOK'
            BY <3>1, PasswordAssumption DEF PasswordTypeOK, NotAsked, Rows
        <3>4. Awaited' /\ LetIn' /\ Changed'
            BY <3>1, <1>a DEF PasswordTypeOK, Awaited, LetIn, Changed, NotAsked
        <3>5. Replaced'
            BY <3>1 DEF Replaced, Replacers
        <3> QED
            BY <3>3, <3>4, <3>5
    <2> QED
        BY <2>1, <2>2
<1>3. ASSUME NEW c \in Changes, NEW p \in Passwords, NEW new \in Passwords, ChangePassword(c, p, new)
      PROVE  PasswordInv'
    <2>1. /\ change' = [change EXCEPT ![c] =
                 [at |-> IF row = NoRow THEN "hashing" ELSE "verifying",
                  given |-> p, new |-> new, read |-> row]]
          /\ inForce' = [inForce EXCEPT ![c] = {Current(row)}]
          /\ UNCHANGED <<row, attempt, cli>>
        BY <1>3 DEF ChangePassword, Begins
    <2>2. PasswordTypeOK'
        BY <2>1, <1>a, <1>b DEF PasswordTypeOK
    <2>3. row = NoRow => p = Current(row)
        BY <1>3 DEF ChangePassword, Fallback, Current
    <2>4. row # NoRow => row = Current(row)
        BY DEF Current
    <2>5. Awaited' /\ LetIn' /\ Changed'
        BY <2>1, <2>3, <2>4, <1>a DEF PasswordTypeOK, Awaited, LetIn, Changed
    <2>6. Replacers' \subseteq Replacers
        BY <2>1 DEF Replacers, PasswordTypeOK
    <2> QED
        BY <2>1, <2>2, <2>5, <2>6 DEF Replaced
<1>4. ASSUME NEW c \in Changes, ChangeVerified(c) PROVE PasswordInv'
    <2>1. CASE change[c].given = change[c].read
        <3>1. /\ change' = [change EXCEPT ![c].at = "hashing"]
              /\ UNCHANGED <<inForce, row, attempt, cli>>
            BY <1>4, <2>1 DEF ChangeVerified
        <3>2. change[c].given \in inForce[c]
            BY <1>4, <2>1 DEF ChangeVerified, Awaited
        <3>3. PasswordTypeOK'
            BY <3>1 DEF PasswordTypeOK
        <3>4. Awaited' /\ LetIn' /\ Changed'
            BY <3>1, <3>2 DEF PasswordTypeOK, Awaited, LetIn, Changed
        <3>5. Replacers' \subseteq Replacers
            BY <3>1 DEF Replacers, PasswordTypeOK
        <3> QED
            BY <3>1, <3>3, <3>4, <3>5 DEF Replaced
    <2>2. CASE change[c].given # change[c].read
        <3>1. /\ change' = [change EXCEPT ![c] = NoChange]
              /\ inForce' = [inForce EXCEPT ![c] = {}] /\ UNCHANGED <<row, attempt, cli>>
            BY <1>4, <2>2 DEF ChangeVerified, Ends
        <3>3. PasswordTypeOK'
            BY <3>1, PasswordAssumption DEF PasswordTypeOK, NoChange, Rows
        <3>4. Awaited' /\ LetIn' /\ Changed'
            BY <3>1, <1>a DEF PasswordTypeOK, Awaited, LetIn, Changed, NoChange
        <3>5. Replacers' \subseteq Replacers
            BY <3>1 DEF Replacers, PasswordTypeOK, NoChange
        <3> QED
            BY <3>1, <3>3, <3>4, <3>5 DEF Replaced
    <2> QED
        BY <2>1, <2>2
<1>5. ASSUME NEW c \in Changes, ChangeHashed(c) PROVE PasswordInv'
    <2>1. CASE Stores(change[c].read)
        <3>1. /\ Writes(change[c].new) /\ change' = [change EXCEPT ![c].at = "ok"]
              /\ UNCHANGED <<attempt, cli>>
            BY <1>5, <2>1 DEF ChangeHashed
        <3>2. /\ row' \in Rows /\ row' # NoRow
              /\ inForce' \in [Requests -> SUBSET Passwords]
              /\ \A q \in Requests : inForce[q] \subseteq inForce'[q]
            BY <3>1, WritesKeeps DEF PasswordTypeOK
        <3>3. PasswordTypeOK'
            BY <3>1, <3>2 DEF PasswordTypeOK
        <3>4. Awaited' /\ LetIn' /\ Changed'
            BY <1>5, <3>1, <3>2, <1>a DEF ChangeHashed, PasswordTypeOK, Awaited, LetIn, Changed
        <3>5. Replacers' \subseteq Replacers \cup (IF change[c].read = NoRow THEN {c} ELSE {})
            BY <3>1 DEF Replacers, PasswordTypeOK
        <3>6. change[c].read = NoRow => Replacers = {}
            BY <2>1 DEF Stores, Replaced
        <3> QED
            BY <3>2, <3>3, <3>4, <3>5, <3>6 DEF Replaced
    <2>2. CASE ~Stores(change[c].read)
        <3>1. /\ change' = [change EXCEPT ![c] = NoChange]
              /\ inForce' = [inForce EXCEPT ![c] = {}] /\ UNCHANGED <<row, attempt, cli>>
            BY <1>5, <2>2 DEF ChangeHashed, Ends
        <3>3. PasswordTypeOK'
            BY <3>1, PasswordAssumption DEF PasswordTypeOK, NoChange, Rows
        <3>4. Awaited' /\ LetIn' /\ Changed'
            BY <3>1, <1>a DEF PasswordTypeOK, Awaited, LetIn, Changed, NoChange
        <3>5. Replacers' \subseteq Replacers
            BY <3>1 DEF Replacers, PasswordTypeOK, NoChange
        <3> QED
            BY <3>1, <3>3, <3>4, <3>5 DEF Replaced
    <2> QED
        BY <2>1, <2>2
<1>6. CASE HubStops
    <2> DEFINE stopped == {l \in Logins : attempt[l].at = "verifying"}
                           \cup {c \in Changes : change[c].at \in {"verifying", "hashing"}}
    <2>1. /\ attempt' = [l \in Logins |-> IF l \in stopped THEN NotAsked ELSE attempt[l]]
          /\ change' = [c \in Changes |-> IF c \in stopped THEN NoChange ELSE change[c]]
          /\ inForce' = [q \in Requests |-> IF q \in stopped THEN {} ELSE inForce[q]]
          /\ UNCHANGED <<row, cli>>
        BY <1>6 DEF HubStops
    <2>2. PasswordTypeOK'
        BY <2>1, PasswordAssumption DEF PasswordTypeOK, NotAsked, NoChange, Rows
    <2>3. Awaited' /\ LetIn' /\ Changed'
        BY <2>1, <1>a DEF PasswordTypeOK, Awaited, LetIn, Changed, NotAsked, NoChange
    <2>4. Replacers' \subseteq Replacers
        BY <2>1 DEF Replacers, NoChange
    <2> QED
        BY <2>1, <2>2, <2>3, <2>4 DEF Replaced
<1>7. ASSUME NEW new \in Passwords, CliUpdates(new) PROVE PasswordInv'
    <2>1. UNCHANGED <<row, attempt, change, inForce>>
        BY <1>7 DEF CliUpdates
    <2>2. PasswordTypeOK'
        BY <1>7, <2>1 DEF CliUpdates, PasswordTypeOK
    <2> QED
        BY <2>1, <2>2 DEF Awaited, LetIn, Changed, Replaced, Replacers
<1>8. CASE CliLooks
    <2>1. UNCHANGED <<row, attempt, change, inForce>>
        BY <1>8 DEF CliLooks
    <2>2. PasswordTypeOK'
        BY <1>8, <2>1 DEF CliLooks, PasswordTypeOK
    <2> QED
        BY <2>1, <2>2 DEF Awaited, LetIn, Changed, Replaced, Replacers
<1>9. CASE CliWrites
    <2>1. UNCHANGED <<attempt, change>>
          /\ cli' = [at |-> "idle", new |-> EnvPassword, found |-> FALSE]
        BY <1>9 DEF CliWrites
    <2>2. CASE cli.found \/ row = NoRow
        <3>1. Writes(cli.new)
            BY <1>9, <2>2 DEF CliWrites
        <3>2. /\ row' \in Rows /\ row' # NoRow
              /\ inForce' \in [Requests -> SUBSET Passwords]
              /\ \A q \in Requests : inForce[q] \subseteq inForce'[q]
            BY <3>1, WritesKeeps DEF PasswordTypeOK
        <3>3. PasswordTypeOK'
            BY <2>1, <3>2, PasswordAssumption DEF PasswordTypeOK
        <3>4. Awaited' /\ LetIn' /\ Changed'
            BY <2>1, <3>2, <1>a DEF Awaited, LetIn, Changed
        <3> QED
            BY <2>1, <3>2, <3>3, <3>4 DEF Replaced, Replacers
    <2>3. CASE ~(cli.found \/ row = NoRow)
        <3>1. UNCHANGED <<row, inForce>>
            BY <1>9, <2>3 DEF CliWrites
        <3>2. PasswordTypeOK'
            BY <2>1, <3>1, PasswordAssumption DEF PasswordTypeOK
        <3> QED
            BY <2>1, <3>1, <3>2 DEF Awaited, LetIn, Changed, Replaced, Replacers
    <2> QED
        BY <2>2, <2>3
<1>10. CASE UNCHANGED passwordVars
    BY <1>10 DEF passwordVars, PasswordTypeOK, Awaited, LetIn, Changed, Replaced, Replacers
<1> QED
    BY <1>1, <1>2, <1>3, <1>4, <1>5, <1>6, <1>7, <1>8, <1>9, <1>10 DEF PasswordNext

\* The invariant holds in every state.
LEMMA PasswordInvariance == PasswordSpec => []PasswordInv
<1> QED
    BY PasswordInitInv, PasswordStep, PTL DEF PasswordSpec

\* Every variable of AdminPassword keeps its type (src/index.ts, src/cli.ts).
THEOREM PasswordTypeCorrect == PasswordSpec => []PasswordTypeOK
<1>1. PasswordInv => PasswordTypeOK
    BY DEF PasswordInv
<1> QED
    BY PasswordInvariance, <1>1, PTL

\* For any number of logins and changes that run at once with restarts and the command
\* line: nobody is let in with a password that did not count, and only one change is
\* granted on the environment's password (POST login and change-password of src/index.ts).
THEOREM PasswordsTheorem == PasswordSpec => []PasswordsHonoured
<1>1. PasswordInv => PasswordsHonoured
    BY DEF PasswordInv, LetIn, Changed, Replaced, PasswordsHonoured
<1> QED
    BY PasswordInvariance, <1>1, PTL

-----------------------------------------------------------------------------
(* RootAuthority.  As long as generations do not overlap, one runs only while *)
(* there is no certificate, and so no key is replaced that has one.           *)

\* No two generations run, and none while there is a root certificate.
Sole ==
    /\ \A i, j \in Running : i = j
    /\ \A j \in Running : caCrt = {}
    /\ \A j \in RootJobs : at[j] = "req" => using[j] = caKey

Matching == \A crt \in caCrt : crt.key \in caKey

RootInv == RootTypeOK /\ (~met => Sole /\ Matching /\ issued \subseteq caCrt)

\* No key is made at first.
LEMMA RootInitInv == RootInit => RootInv
<1> SUFFICES ASSUME RootInit PROVE RootInv
    OBVIOUS
<1>1. RootTypeOK
    BY DEF RootInit, RootTypeOK
<1>2. Sole /\ Matching /\ issued \subseteq caCrt
    BY DEF RootInit, Sole, Matching, Running
<1> QED
    BY <1>1, <1>2 DEF RootInv

\* Every step keeps the types.
LEMMA RootTypeStep == RootTypeOK /\ [RootNext]_rootVars => RootTypeOK'
<1> SUFFICES ASSUME RootTypeOK, [RootNext]_rootVars PROVE RootTypeOK'
    OBVIOUS
<1> USE DEF RootTypeOK
<1>0. ASSUME NEW j \in RootJobs, Generate(j) PROVE RootTypeOK'
    BY <1>0 DEF Generate, rootFiles
<1>1. CASE EnsurePki
    BY <1>0, <1>1 DEF EnsurePki, RootJobs, rootFiles
<1>2. ASSUME NEW r \in RootRequests, PostRoot(r) PROVE RootTypeOK'
    BY <1>0, <1>2 DEF PostRoot, RootJobs
<1>3. CASE IssueDeviceCert
    BY <1>3 DEF IssueDeviceCert, rootFiles
<1>4. CASE HubDies
    BY <1>4 DEF HubDies, rootFiles
<1>5. ASSUME NEW j \in RootJobs, KeyWritten(j) PROVE RootTypeOK'
    BY <1>5 DEF KeyWritten
<1>6. ASSUME NEW j \in RootJobs, KeyRead(j) PROVE RootTypeOK'
    BY <1>6 DEF KeyRead, rootFiles
<1>7. ASSUME NEW j \in RootJobs, CrtWritten(j) PROVE RootTypeOK'
    <2>1. using[j] \subseteq Nat
        OBVIOUS
    <2>2. caCrt' \subseteq Roots
        BY <1>7, <2>1 DEF CrtWritten, Roots
    <2> QED
        BY <1>7, <2>2 DEF CrtWritten
<1>8. ASSUME NEW j \in RootJobs, GenerationFails(j) PROVE RootTypeOK'
    BY <1>8 DEF GenerationFails, rootFiles
<1>9. CASE UNCHANGED rootVars
    BY <1>9 DEF rootVars, rootFiles
<1> QED
    BY <1>1, <1>2, <1>3, <1>4, <1>5, <1>6, <1>7, <1>8, <1>9 DEF RootNext

\* A job starts to generate when there is no certificate.
LEMMA GenerateKeeps ==
    ASSUME RootInv, NEW j \in RootJobs, Generate(j), ~CaExists, ~met'
    PROVE  Sole' /\ Matching' /\ (issued \subseteq caCrt)'
<1>1. ~met /\ Running = {} /\ UNCHANGED <<caKey, caCrt, using, issued>>
    BY DEF Generate, rootFiles
<1>2. caCrt = {}
    BY <1>1 DEF RootInv, Matching, CaExists
<1>3. Running' = {j}
    BY <1>1 DEF Generate, Running, RootInv, RootTypeOK
<1>4. \A i \in RootJobs : at'[i] = "req" => at[i] = "req"
    BY DEF Generate, RootInv, RootTypeOK
<1>5. Sole'
    BY <1>1, <1>2, <1>3, <1>4 DEF Sole, RootInv
<1> QED
    BY <1>1, <1>5 DEF RootInv, Matching

\* While no generations overlap, every step keeps root and certificates together.
LEMMA RootStep ==
    ASSUME RootInv, [RootNext]_rootVars, ~met'
    PROVE  Sole' /\ Matching' /\ (issued \subseteq caCrt)'
<1> USE DEF RootTypeOK
<1>a. RootTypeOK /\ (~met => Sole /\ Matching /\ issued \subseteq caCrt)
    BY DEF RootInv
<1>0. ~met
    <2>1. ASSUME NEW j \in RootJobs, Generate(j) PROVE ~met
        BY <2>1 DEF Generate
    <2> QED
        BY <2>1 DEF RootNext, EnsurePki, PostRoot, KeyWritten, KeyRead, CrtWritten, GenerationFails,
                    IssueDeviceCert, HubDies, rootVars, RootJobs
<1>b. Sole /\ Matching /\ issued \subseteq caCrt
    BY <1>a, <1>0
<1>1. CASE EnsurePki
    <2>1. CASE CaExists
        <3>1. UNCHANGED <<caKey, caCrt, using, issued>>
            BY <1>1, <2>1 DEF EnsurePki, rootFiles
        <3>2. Running' = Running
            BY <1>1, <2>1, <1>a DEF EnsurePki, Running, RootJobs
        <3>3. \A i \in RootJobs : at'[i] = "req" => at[i] = "req"
            BY <1>1, <2>1, <1>a DEF EnsurePki
        <3> QED
            BY <1>b, <3>1, <3>2, <3>3 DEF Sole, Matching
    <2>2. CASE ~CaExists
        BY <1>1, <2>2, GenerateKeeps DEF EnsurePki, RootJobs
    <2> QED
        BY <2>1, <2>2
<1>2. ASSUME NEW r \in RootRequests, PostRoot(r)
      PROVE  Sole' /\ Matching' /\ (issued \subseteq caCrt)'
    BY <1>2, GenerateKeeps DEF PostRoot, RootJobs
<1>3. CASE IssueDeviceCert
    BY <1>3, <1>b DEF IssueDeviceCert, Sole, Matching, Running, rootFiles
<1>4. CASE HubDies
    <2>1. Running' = {}
        BY <1>4 DEF HubDies, Running, RootJobs
    <2>2. UNCHANGED <<caKey, caCrt, issued>>
        BY <1>4 DEF HubDies, rootFiles
    <2>3. \A j \in RootJobs : at'[j] # "req"
        BY <2>1 DEF Running
    <2> QED
        BY <1>b, <2>1, <2>2, <2>3 DEF Sole, Matching
<1>5. ASSUME NEW j \in RootJobs, KeyWritten(j)
      PROVE  Sole' /\ Matching' /\ (issued \subseteq caCrt)'
    <2>1. j \in Running /\ caCrt = {} /\ \A i \in Running : i = j
        BY <1>5, <1>b DEF KeyWritten, Running, Sole
    <2>2. caCrt' = {} /\ issued' = {}
        BY <1>5, <1>b, <2>1 DEF KeyWritten
    <2>3. Running' = Running
        BY <1>5, <1>a DEF KeyWritten, Running
    <2>4. \A i \in RootJobs : at'[i] # "req"
        BY <1>5, <1>a, <2>1 DEF KeyWritten, Running
    <2> QED
        BY <2>1, <2>2, <2>3, <2>4 DEF Sole, Matching
<1>6. ASSUME NEW j \in RootJobs, KeyRead(j)
      PROVE  Sole' /\ Matching' /\ (issued \subseteq caCrt)'
    <2>1. UNCHANGED <<caKey, caCrt, issued>>
        BY <1>6 DEF KeyRead, rootFiles
    <2>2. Running' = Running
        BY <1>6, <1>a DEF KeyRead, Running
    <2>3. \A i \in RootJobs : at'[i] = "req" => using'[i] = caKey
        BY <1>6, <1>a, <1>b DEF KeyRead, Sole
    <2> QED
        BY <1>b, <2>1, <2>2, <2>3 DEF Sole, Matching
<1>7. ASSUME NEW j \in RootJobs, CrtWritten(j)
      PROVE  Sole' /\ Matching' /\ (issued \subseteq caCrt)'
    <2>1. j \in Running /\ caCrt = {} /\ using[j] = caKey /\ \A i \in Running : i = j
        BY <1>7, <1>b DEF CrtWritten, Running, Sole
    <2>2. issued' = {} /\ caKey' = caKey
        BY <1>7, <1>b, <2>1 DEF CrtWritten
    <2>3. Running' = {}
        BY <1>7, <1>a, <2>1 DEF CrtWritten, Running
    <2>4. \A i \in RootJobs : at'[i] # "req"
        BY <2>3 DEF Running
    <2>5. Matching'
        BY <1>7, <2>1, <2>2 DEF CrtWritten, Matching
    <2> QED
        BY <2>2, <2>3, <2>4, <2>5 DEF Sole
<1>8. ASSUME NEW j \in RootJobs, GenerationFails(j)
      PROVE  Sole' /\ Matching' /\ (issued \subseteq caCrt)'
    <2>1. UNCHANGED <<caKey, caCrt, issued>>
        BY <1>8 DEF GenerationFails, rootFiles
    <2>2. Running' \subseteq Running
        BY <1>8, <1>a DEF GenerationFails, Running
    <2>3. \A i \in RootJobs : at'[i] = "req" => at[i] = "req" /\ using'[i] = using[i]
        BY <1>8, <1>a DEF GenerationFails
    <2> QED
        BY <1>b, <2>1, <2>2, <2>3 DEF Sole, Matching
<1>9. CASE UNCHANGED rootVars
    BY <1>9, <1>b DEF rootVars, rootFiles, Sole, Matching, Running
<1> QED
    BY <1>1, <1>2, <1>3, <1>4, <1>5, <1>6, <1>7, <1>8, <1>9 DEF RootNext

\* The invariant holds in every state.
LEMMA RootInvariance == RootSpec => []RootInv
<1>1. RootInv /\ [RootNext]_rootVars => RootInv'
    BY RootTypeStep, RootStep DEF RootInv
<1> QED
    BY RootInitInv, <1>1, PTL DEF RootSpec

\* Every variable of RootAuthority keeps its type (src/certs.ts, generateRootCA).
THEOREM RootTypeCorrect == RootSpec => []RootTypeOK
<1>1. RootInv => RootTypeOK
    BY DEF RootInv
<1> QED
    BY RootInvariance, <1>1, PTL

\* As long as no two generations of the root overlapped, every device certificate signed
\* verifies against the root there is, and its key signs for it, for any number of
\* requests, failures and deaths of the hub (generateRootCA, POST root and ensurePki).
THEOREM ChainsToRootTheorem == RootSpec => []ChainsToRoot
<1>1. RootInv => ChainsToRoot
    BY DEF RootInv, ChainsToRoot, Matching
<1> QED
    BY RootInvariance, <1>1, PTL

-----------------------------------------------------------------------------
(* WhitelistSchema.  Nothing is forgotten by a rebuild, since a table that is *)
(* rebuilt has no disabled_at, and only legacy tables are rebuilt.            *)

AfterWhitelist == {"disabled_at", "note", "tables", "up"}
Rebuilding == {"create", "restore"}

\* Where the boot is, and what it has done by then.
Progress ==
    /\ boot = "create" => columns = {}
    /\ boot = "restore" => columns = {"details", "note"}
    /\ boot \in AfterWhitelist => columns \subseteq CurrentColumns /\ "details" \in columns
    /\ boot \in {"note", "tables", "up"} => "disabled_at" \in columns
    /\ boot \in {"tables", "up"} => "note" \in columns
    /\ boot = "up" => tables = AllTables
    /\ boot \notin Rebuilding => existingData = Blank

\* The table has one of the shapes a hub leaves, and its rows fit it.
Shape ==
    /\ columns = {} \/ columns = {"legacy", "note"}
          \/ ("details" \in columns /\ "legacy" \notin columns)
    /\ Fits(rows, columns)
    /\ \A u \in Present(existingData) : ~existingData[u].disabled

\* Every entry is in the table or still to be inserted again.
Kept == \A u \in Uuids :
    entries[u] = IF existingData[u] = NoEntry THEN rows[u] ELSE existingData[u]

SchemaInv == SchemaTypeOK /\ Progress /\ Shape /\ (~lost => Kept)

\* A database of any version fits its tables.
LEMMA SchemaInitInv == SchemaInit => SchemaInv
<1> SUFFICES ASSUME SchemaInit PROVE SchemaInv
    OBVIOUS
<1>1. rows \in Tables /\ Blank \in Tables
    BY DEF SchemaInit, Tables, Blank
<1>2. columns \subseteq Columns /\ tables \subseteq AllTables \cup {"devices by id"}
    <2>1. AllTables = {"devices", "device_roles", "device_groups", "app_settings",
                       "device_events", "users"}
        BY DEF AllTables, OtherTables
    <2> QED
        BY <2>1 DEF SchemaInit, Versions, Columns, CurrentColumns
<1>3. SchemaTypeOK
    <2>1. rows \in Tables /\ existingData \in Tables /\ entries \in Tables
        BY <1>1 DEF SchemaInit
    <2>2. edits = 0 /\ crashes = 0
        BY DEF SchemaInit
    <2>3. edits \in 0..MaxEdits /\ crashes \in 0..MaxCrashes
        BY <2>2, SchemaAssumption
    <2> QED
        BY <1>2, <2>1, <2>3 DEF SchemaInit, SchemaTypeOK
<1>4. Progress
    BY DEF SchemaInit, Progress, AfterWhitelist, Rebuilding
<1>5. Shape
    BY DEF SchemaInit, Shape, Versions, CurrentColumns, Present, Blank
<1>6. Kept
    BY DEF SchemaInit, Kept, Blank
<1> QED
    BY <1>3, <1>4, <1>5, <1>6 DEF SchemaInv

\* An edit by the operator, while the hub is up.
LEMMA EditKeeps ==
    ASSUME SchemaInv, NEW table \in Tables, Edit(table)
    PROVE  SchemaInv'
<1>1. SchemaTypeOK'
    <2>1. edits' \in 0..MaxEdits
        <3>1. edits \in 0..MaxEdits /\ edits < MaxEdits /\ edits' = edits + 1
            BY DEF SchemaInv, SchemaTypeOK, Edit
        <3> QED
            BY <3>1, SchemaAssumption
    <2>2. rows' \in Tables /\ entries' \in Tables
        BY DEF Edit
    <2> QED
        BY <2>1, <2>2 DEF SchemaInv, SchemaTypeOK, Edit
<1>2. Progress'
    BY DEF SchemaInv, Progress, Edit
<1>3. columns = CurrentColumns /\ existingData = Blank
    BY DEF SchemaInv, Progress, Edit, AfterWhitelist, CurrentColumns, Rebuilding
<1>4. Shape'
    BY <1>3 DEF Shape, Edit, Fits, CurrentColumns, Present, Blank
<1>5. Kept'
    BY <1>3 DEF Kept, Edit, Blank
<1> QED
    BY <1>1, <1>2, <1>4, <1>5 DEF SchemaInv

\* Every statement of a boot, edit and death of the hub keeps the invariant.
LEMMA SchemaStep == SchemaInv /\ [SchemaNext]_schemaVars => SchemaInv'
<1> SUFFICES ASSUME SchemaInv, [SchemaNext]_schemaVars PROVE SchemaInv'
    OBVIOUS
<1> USE DEF tableVars
<1>a. SchemaTypeOK /\ Progress /\ Shape /\ (~lost => Kept)
    BY DEF SchemaInv
<1>1. CASE KeepTable
    BY <1>1, <1>a DEF KeepTable, NeedsRebuild, SchemaInv, SchemaTypeOK, Progress, Shape, Kept,
                      AfterWhitelist, Rebuilding, CurrentColumns, Columns
<1>2. CASE CreateFirst
    <2>1. SchemaTypeOK'
        BY <1>2, <1>a DEF CreateFirst, SchemaTypeOK, Columns
    <2>2. Progress'
        BY <1>2, <1>a DEF CreateFirst, Progress, AfterWhitelist, Rebuilding, CurrentColumns
    <2>3. Shape'
        BY <1>2, <1>a DEF CreateFirst, Shape, Fits, Present, Blank
    <2>4. Kept' = Kept
        BY <1>2 DEF CreateFirst, Kept
    <2> QED
        BY <1>2, <1>a, <2>1, <2>2, <2>3, <2>4 DEF SchemaInv, CreateFirst
<1>3. CASE ReadAndDrop
    <2>1. columns = {"legacy", "note"} /\ existingData = Blank
        BY <1>3, <1>a DEF ReadAndDrop, NeedsRebuild, Shape, Progress, Rebuilding
    <2>2. \A u \in Uuids : rows[u] # NoEntry => rows[u] \in Entries /\ ~rows[u].disabled
        BY <1>a, <2>1 DEF SchemaTypeOK, Tables, Shape, Fits, Present
    <2>3. \A u \in Uuids : Carried(rows)[u] = rows[u]
        BY <2>2 DEF Carried, Entries
    <2>4. Carried(rows) \in Tables /\ Blank \in Tables
        BY <2>3, <1>a DEF Carried, Tables, Blank, SchemaTypeOK
    <2>5. SchemaTypeOK'
        BY <1>3, <1>a, <2>4 DEF ReadAndDrop, SchemaTypeOK
    <2>6. Progress'
        BY <1>3, <1>a DEF ReadAndDrop, Progress, AfterWhitelist, Rebuilding
    <2>7. Shape'
        BY <1>3, <1>a, <2>2, <2>3 DEF ReadAndDrop, Shape, Fits, Present, Blank
    <2>8. Kept => Kept'
        BY <1>3, <1>a, <2>1, <2>3 DEF ReadAndDrop, Kept, Blank
    <2> QED
        BY <1>3, <1>a, <2>5, <2>6, <2>7, <2>8 DEF SchemaInv, ReadAndDrop
<1>4. CASE Create
    <2>1. rows = Blank
        BY <1>4, <1>a DEF Create, Progress, Shape, Fits
    <2>2. SchemaTypeOK'
        BY <1>4, <1>a DEF Create, SchemaTypeOK, Columns
    <2>3. Progress'
        BY <1>4, <1>a DEF Create, Progress, AfterWhitelist, Rebuilding
    <2>4. Shape'
        BY <1>4, <1>a, <2>1 DEF Create, Shape, Fits, Present, Blank
    <2>5. Kept' = Kept
        BY <1>4 DEF Create, Kept
    <2> QED
        BY <1>4, <1>a, <2>2, <2>3, <2>4, <2>5 DEF SchemaInv, Create
<1>5. ASSUME NEW u \in Uuids, RestoreRow(u) PROVE SchemaInv'
    <2>1. existingData[u] \in Entries /\ ~existingData[u].disabled
        BY <1>5, <1>a DEF RestoreRow, SchemaTypeOK, Tables, Shape, Present
    <2>2. SchemaTypeOK'
        BY <1>5, <1>a, <2>1 DEF RestoreRow, SchemaTypeOK, Tables
    <2>3. Progress'
        BY <1>5, <1>a DEF RestoreRow, Progress, AfterWhitelist, Rebuilding
    <2>4. /\ \A v \in Uuids : rows'[v] = IF v = u THEN existingData[u] ELSE rows[v]
          /\ \A v \in Uuids : existingData'[v] = IF v = u THEN NoEntry ELSE existingData[v]
        BY <1>5, <1>a DEF RestoreRow, SchemaTypeOK, Tables
    <2>5. columns = {"details", "note"} /\ columns' = columns
        BY <1>5, <1>a DEF RestoreRow, Progress
    <2>6. Fits(rows, columns)'
        BY <1>a, <2>1, <2>4, <2>5 DEF Shape, Fits, Present
    <2>7. Shape'
        BY <1>a, <2>4, <2>5, <2>6 DEF Shape, Present
    <2>8. Kept => Kept'
        BY <1>5, <1>a, <2>4 DEF RestoreRow, Kept
    <2> QED
        BY <1>5, <1>a, <2>2, <2>3, <2>7, <2>8 DEF SchemaInv, RestoreRow
<1>6. CASE Restored
    BY <1>6, <1>a DEF Restored, SchemaInv, SchemaTypeOK, Progress, Shape, Kept,
                      AfterWhitelist, Rebuilding, CurrentColumns
<1>7. CASE AddDisabledAt
    <2>1. SchemaTypeOK'
        BY <1>7, <1>a DEF AddDisabledAt, SchemaTypeOK, Columns
    <2>2. Progress'
        BY <1>7, <1>a DEF AddDisabledAt, Progress, AfterWhitelist, Rebuilding, CurrentColumns
    <2>3. Shape'
        BY <1>7, <1>a DEF AddDisabledAt, Shape, Fits, Present, Progress, AfterWhitelist
    <2>4. Kept' = Kept
        BY <1>7 DEF AddDisabledAt, Kept
    <2> QED
        BY <1>7, <1>a, <2>1, <2>2, <2>3, <2>4 DEF SchemaInv, AddDisabledAt
<1>8. CASE AddNote
    <2>1. SchemaTypeOK'
        BY <1>8, <1>a DEF AddNote, SchemaTypeOK, Columns
    <2>2. Progress'
        BY <1>8, <1>a DEF AddNote, Progress, AfterWhitelist, Rebuilding, CurrentColumns
    <2>3. Shape'
        BY <1>8, <1>a DEF AddNote, Shape, Fits, Present, Progress, AfterWhitelist
    <2>4. Kept' = Kept
        BY <1>8 DEF AddNote, Kept
    <2> QED
        BY <1>8, <1>a, <2>1, <2>2, <2>3, <2>4 DEF SchemaInv, AddNote
<1>9. ASSUME DropLegacyDevices \/ \E i \in 1..6 : EnsureTable(i) PROVE SchemaInv'
    <2>1. tables' \subseteq AllTables \cup {"devices by id"}
        <3>1. ASSUME NEW i \in 1..6, EnsureTable(i)
              PROVE  tables' \subseteq AllTables \cup {"devices by id"}
            BY <3>1, <1>a DEF EnsureTable, AllTables, SchemaTypeOK
        <3> QED
            BY <1>9, <3>1, <1>a DEF DropLegacyDevices, SchemaTypeOK
    <2>2. boot = "tables" /\ UNCHANGED <<columns, rows, existingData, boot, entries, lost,
                                          edits, crashes>>
        BY <1>9 DEF DropLegacyDevices, EnsureTable
    <2> QED
        BY <1>a, <2>1, <2>2 DEF SchemaInv, SchemaTypeOK, Progress, Shape, Kept
<1>10. CASE SchemaReady
    BY <1>10, <1>a DEF SchemaReady, SchemaInv, SchemaTypeOK, Progress, Shape, Kept,
                       AfterWhitelist, Rebuilding
<1>11. CASE Dies
    <2>1. SchemaTypeOK'
        <3>1. existingData' \in Tables
            BY <1>11 DEF Dies, Tables, Blank
        <3>2. crashes' \in 0..MaxCrashes
            <4>1. crashes \in 0..MaxCrashes /\ crashes < MaxCrashes /\ crashes' = crashes + 1
                BY <1>11, <1>a DEF Dies, SchemaTypeOK
            <4> QED
                BY <4>1, SchemaAssumption
        <3> QED
            BY <1>11, <1>a, <3>1, <3>2 DEF Dies, SchemaTypeOK
    <2>2. Progress'
        BY <1>11 DEF Dies, Progress, AfterWhitelist, Rebuilding
    <2>3. Shape'
        BY <1>11, <1>a DEF Dies, Shape, Present, Blank
    <2>4. ~lost' => Kept'
        BY <1>11, <1>a DEF Dies, Kept, Blank
    <2> QED
        BY <2>1, <2>2, <2>3, <2>4 DEF SchemaInv
<1>12. ASSUME NEW u \in Uuids, NEW note \in Notes \cup {NoNote}, PostEntry(u, note)
       PROVE  SchemaInv'
    <2>1. [rows EXCEPT ![u] = [note |-> note, disabled |-> FALSE]] \in Tables
        BY <1>a DEF SchemaTypeOK, Tables, Entries
    <2> QED
        BY <1>12, <2>1, EditKeeps DEF PostEntry
<1>13. ASSUME NEW u \in Uuids, NEW entry \in Entries, PatchEntry(u, entry) PROVE SchemaInv'
    <2>1. [rows EXCEPT ![u] = entry] \in Tables
        BY <1>a DEF SchemaTypeOK, Tables
    <2> QED
        BY <1>13, <2>1, EditKeeps DEF PatchEntry
<1>14. ASSUME NEW u \in Uuids, RemoveEntry(u) PROVE SchemaInv'
    <2>1. [rows EXCEPT ![u] = NoEntry] \in Tables
        BY <1>a DEF SchemaTypeOK, Tables
    <2> QED
        BY <1>14, <2>1, EditKeeps DEF RemoveEntry
<1>15. CASE UNCHANGED schemaVars
    BY <1>15, <1>a DEF schemaVars, SchemaInv, SchemaTypeOK, Progress, Shape, Kept
<1> QED
    BY <1>1, <1>2, <1>3, <1>4, <1>5, <1>6, <1>7, <1>8, <1>9, <1>10, <1>11, <1>12, <1>13, <1>14,
       <1>15 DEF SchemaNext

\* The invariant holds in every state.
LEMMA SchemaInvariance == SchemaSpec => []SchemaInv
<1> QED
    BY SchemaInitInv, SchemaStep, PTL DEF SchemaSpec

\* Every variable of WhitelistSchema keeps its type (ensureDeviceHubSchema).
THEOREM SchemaTypeCorrect == SchemaSpec => []SchemaTypeOK
<1>1. SchemaInv => SchemaTypeOK
    BY DEF SchemaInv
<1> QED
    BY SchemaInvariance, <1>1, PTL

\* Through any number of upgrades, edits and deaths of the hub, a hub that is up has all its
\* tables and every whitelist entry as the operator last left it, unless one died between
\* dropping a legacy table and inserting its last row again (ensureDeviceHubSchema).
THEOREM BootsKeepEntriesTheorem == SchemaSpec => []BootsKeepEntries
<1>1. SchemaInv => BootsKeepEntries
    <2> SUFFICES ASSUME SchemaInv, boot = "up" 
                 PROVE  /\ columns = CurrentColumns /\ tables = AllTables
                        /\ ~lost => rows = entries
        BY DEF BootsKeepEntries
    <2>1. columns = CurrentColumns /\ tables = AllTables /\ existingData = Blank
        BY DEF SchemaInv, Progress, AfterWhitelist, CurrentColumns, Rebuilding
    <2>2. ASSUME Kept PROVE rows = entries
        <3>1. \A u \in Uuids : rows[u] = entries[u]
            BY <2>1, <2>2 DEF Kept, Blank
        <3>2. rows \in [Uuids -> Entries \cup {NoEntry}] /\ entries \in [Uuids -> Entries \cup {NoEntry}]
            BY DEF SchemaInv, SchemaTypeOK, Tables
        <3> QED
            BY <3>1, <3>2
    <2> QED
        BY <2>1, <2>2 DEF SchemaInv
<1> QED
    BY SchemaInvariance, <1>1, PTL

-----------------------------------------------------------------------------
(* MCConsole *)

\* Within each focus the run follows the specification of its component, and the others
\* stand still: what is proved of a component holds of the run, whatever its constants.
THEOREM ConsoleFollowsComponents ==
    ConsoleSpec => RegistrySpec /\ PasswordSpec /\ FeedSpec /\ SchemaSpec /\ RootSpec
<1>1. ConsoleInit => RegistryInit /\ PasswordInit /\ FeedInit /\ SchemaInit /\ RootInit
    BY DEF ConsoleInit
<1>2. [ConsoleNext]_consoleVars => [RegistryNext]_registryVars
    BY DEF ConsoleNext, consoleVars
<1>3. [ConsoleNext]_consoleVars => [PasswordNext]_passwordVars
    BY DEF ConsoleNext, consoleVars
<1>4. [ConsoleNext]_consoleVars => [FeedNext]_feedVars
    BY DEF ConsoleNext, consoleVars
<1>5. [ConsoleNext]_consoleVars => [SchemaNext]_schemaVars
    BY DEF ConsoleNext, consoleVars
<1>6. [ConsoleNext]_consoleVars => [RootNext]_rootVars
    BY DEF ConsoleNext, consoleVars
<1> QED
    BY <1>1, <1>2, <1>3, <1>4, <1>5, <1>6, PTL
       DEF ConsoleSpec, RegistrySpec, PasswordSpec, FeedSpec, SchemaSpec, RootSpec

\* Every variable of the console and of what it administers keeps its type.
THEOREM ConsoleTypeCorrect == ConsoleSpec => []ConsoleTypeOK
<1>1. RegistryTypeOK /\ PasswordTypeOK /\ FeedTypeOK /\ SchemaTypeOK /\ RootTypeOK
         => ConsoleTypeOK
    BY DEF ConsoleTypeOK
<1> QED
    BY <1>1, ConsoleFollowsComponents, RegistryTypeCorrect, PasswordTypeCorrect, FeedTypeCorrect,
       SchemaTypeCorrect, RootTypeCorrect, PTL
=============================================================================
