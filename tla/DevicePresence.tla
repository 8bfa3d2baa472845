--------------------------- MODULE DevicePresence ---------------------------
(***************************************************************************)
(* Who is online: the device client's connections and heartbeat            *)
(* (sdk/device-client) and the hub's record of them (services/twin), for   *)
(* one device identity.                                                    *)
(*                                                                         *)
(* Each connect() makes an mqtt.js client object that keeps connecting     *)
(* until it is ended.  All of them use the identity as their client id,    *)
(* and the broker (external) lets the latest take over.  The broker logs a *)
(* line when a client connects and when it has gone, and these reach the   *)
(* hub in order; a heartbeat is QoS 0 and may overtake them.  The hub's    *)
(* session is clean: what the broker sends while it is away is lost.       *)
(***************************************************************************)
EXTENDS Naturals, Sequences, SequencesExt

CONSTANTS
    Links,          \* mqtt.js client objects of the device client
    NoLink,
    MaxCuts,        \* bound: connections of the device and of the hub cut
    MaxLog          \* bound: lines and heartbeats on their way to the hub

ASSUME PresenceAssumption == NoLink \notin Links /\ MaxCuts \in Nat /\ MaxLog \in Nat

VARIABLES
    \* the device
    client,         \* this.client
    connected,      \* this.connected
    heartbeat,      \* this.heartbeatInterval is set
    link,           \* state of each client object
    connecting,     \* the caller awaits connect()
    \* the broker
    holder,         \* the object whose connection the broker holds
    \* the hub
    hubLink,        \* the twin service is connected
    toHub,          \* lines and heartbeats on their way to it
    recorded,       \* the latest connection event of the device
    missed,         \* history: the last line did not reach it
    cuts

deviceSide == <<client, connected, heartbeat, link, connecting>>
hubSide == <<hubLink, toHub, recorded, missed>>
presenceVars == <<deviceSide, holder, hubSide, cuts>>

LinkStates == {"none", "trying", "up", "ending"}

PresenceTypeOK ==
    /\ client \in Links \cup {NoLink} /\ holder \in Links \cup {NoLink}
    /\ connected \in BOOLEAN /\ heartbeat \in BOOLEAN /\ connecting \in BOOLEAN
    /\ link \in [Links -> LinkStates]
    /\ hubLink \in BOOLEAN /\ missed \in BOOLEAN
    /\ toHub \in Seq({"connect", "disconnect", "heartbeat"})
    /\ recorded \in {"none", "online", "offline"}
    /\ cuts \in Nat

PresenceInit ==
    /\ client = NoLink /\ connected = FALSE /\ heartbeat = FALSE /\ connecting = FALSE
    /\ link = [k \in Links |-> "none"]
    /\ holder = NoLink
    /\ hubLink = TRUE /\ toHub = <<>> /\ recorded = "none" /\ missed = FALSE
    /\ cuts = 0

-----------------------------------------------------------------------------
(* The broker *)

Cut == cuts < MaxCuts /\ cuts' = cuts + 1

\* A line is sent to a hub that is there.
Logged(lines) ==
    /\ Len(toHub) + Len(lines) <= MaxLog
    /\ IF hubLink
       THEN toHub' = toHub \o lines /\ UNCHANGED missed
       ELSE missed' = (missed \/ lines # <<>>) /\ UNCHANGED toHub
    /\ UNCHANGED <<hubLink, recorded>>

-----------------------------------------------------------------------------
(* EdgeberryDeviceHubClient *)

\* isRetrying: "discarding one that is still retrying leaves it reconnecting in
\* the background while a replacement is built on the same clientId".
IsRetrying == client # NoLink /\ ~connected /\ link[client] \in {"trying", "up"}

\* The caller keeps to that: it connects when it holds no client that works or
\* retries, and awaits disconnect().
MayConnect ==
    /\ ~connecting /\ ~connected /\ ~IsRetrying
    /\ \A k \in Links : link[k] # "ending"

Connect ==
    /\ MayConnect
    /\ \E k \in Links :
          /\ link[k] = "none" /\ k = CHOOSE j \in Links : link[j] = "none"
          /\ link' = [link EXCEPT ![k] = "trying"]
          /\ client' = k
    /\ connecting' = TRUE
    /\ UNCHANGED <<connected, heartbeat, holder, hubSide, cuts>>

\* The broker takes the connection, over an older one of the client id, which it
\* closes without a line the hub looks for.  'connect': the subscriptions are
\* made, startHeartbeat replaces the interval, connect() resolves.
LinkConnects(k) ==
    /\ link[k] = "trying"
    /\ link' = [j \in Links |-> IF j = k THEN "up"
                                ELSE IF j = holder /\ link[j] = "up" THEN "trying" ELSE link[j]]
    /\ holder' = k
    /\ connected' = TRUE /\ heartbeat' = TRUE /\ connecting' = FALSE
    /\ Logged(<<"connect">>)
    /\ UNCHANGED <<client, cuts>>

\* 'error' before the first success rejects connect(); mqtt.js goes on trying.
LinkError(k) ==
    /\ link[k] = "trying" /\ connecting
    /\ connecting' = FALSE
    /\ UNCHANGED <<client, connected, heartbeat, link, holder, hubSide, cuts>>

\* 'close': the connection is gone and the device knows.  The broker may not.
LinkCloses(k) ==
    /\ link[k] = "up" /\ Cut
    /\ link' = [link EXCEPT ![k] = "trying"]
    /\ connected' = FALSE /\ heartbeat' = FALSE
    /\ UNCHANGED <<client, connecting, holder, hubSide>>

\* The broker notices (keepalive, closed socket) and logs it.
BrokerNotices ==
    /\ holder # NoLink /\ link[holder] # "up"
    /\ holder' = NoLink
    /\ Logged(<<"disconnect">>)
    /\ UNCHANGED <<deviceSide, cuts>>

\* disconnect(): stopHeartbeat and end(), whose callback comes later.
Disconnect ==
    /\ client # NoLink /\ ~connecting /\ link[client] # "ending"
    /\ heartbeat' = FALSE
    /\ link' = [link EXCEPT ![client] = "ending"]
    /\ UNCHANGED <<client, connected, connecting, holder, hubSide, cuts>>

LinkEnded(k) ==
    /\ link[k] = "ending"
    /\ link' = [link EXCEPT ![k] = "none"]
    /\ client' = NoLink /\ connected' = FALSE
    /\ IF holder = k
       THEN holder' = NoLink /\ Logged(<<"disconnect">>)
       ELSE UNCHANGED <<holder, hubSide>>
    /\ UNCHANGED <<heartbeat, connecting, cuts>>

\* sendHeartbeat, every 30 seconds.
SendHeartbeat ==
    /\ heartbeat /\ connected
    /\ client # NoLink /\ link[client] = "up"
    /\ hubLink /\ Len(toHub) < MaxLog /\ "heartbeat" \notin ToSet(toHub)
    /\ toHub' = Append(toHub, "heartbeat")
    /\ UNCHANGED <<deviceSide, holder, hubLink, recorded, missed, cuts>>

-----------------------------------------------------------------------------
(* The twin service *)

\* Mutant: the broker's word is recorded.
UpdateDeviceStatusRaw(isOnline) == recorded' = IF isOnline THEN "connect" ELSE "disconnect"

UpdateDeviceStatus(isOnline) == recorded' = IF isOnline THEN "online" ELSE "offline"

\* Mutant: a disconnect line is not told from a connect line.
HandleLineAsOnline ==
    /\ toHub # <<>> /\ Head(toHub) # "heartbeat"
    /\ UpdateDeviceStatus(TRUE)
    /\ toHub' = Tail(toHub)
    /\ missed' = FALSE
    /\ UNCHANGED <<deviceSide, holder, hubLink, cuts>>

HandleLine ==
    /\ toHub # <<>> /\ Head(toHub) # "heartbeat"
    /\ UpdateDeviceStatus(Head(toHub) = "connect")
    /\ toHub' = Tail(toHub)
    /\ missed' = FALSE
    /\ UNCHANGED <<deviceSide, holder, hubLink, cuts>>

\* Mutant: a heartbeat is not recorded.
HandleHeartbeatIgnored ==
    /\ \E i \in DOMAIN toHub : toHub[i] = "heartbeat" /\ toHub' = RemoveAt(toHub, i)
    /\ UNCHANGED <<deviceSide, holder, hubLink, recorded, missed, cuts>>

\* Wherever in the stream it is: QoS 0 does not wait for the lines before it.
HandleHeartbeat ==
    /\ UpdateDeviceStatus(TRUE)
    /\ \E i \in DOMAIN toHub : toHub[i] = "heartbeat" /\ toHub' = RemoveAt(toHub, i)
    /\ UNCHANGED <<deviceSide, holder, hubLink, missed, cuts>>

\* The hub loses the broker or restarts; what is on its way is lost.
HubLinkDrops ==
    /\ hubLink /\ Cut
    /\ hubLink' = FALSE
    /\ missed' = (missed \/ \E i \in DOMAIN toHub : toHub[i] # "heartbeat")
    /\ toHub' = <<>>
    /\ UNCHANGED <<deviceSide, holder, recorded>>

HubLinkBack ==
    /\ ~hubLink /\ hubLink' = TRUE
    /\ UNCHANGED <<deviceSide, holder, toHub, recorded, missed, cuts>>

-----------------------------------------------------------------------------
PresenceNext ==
    \/ Connect \/ Disconnect \/ SendHeartbeat \/ BrokerNotices
    \/ \E k \in Links : LinkConnects(k) \/ LinkError(k) \/ LinkCloses(k) \/ LinkEnded(k)
    \/ HandleLine \/ HandleHeartbeat \/ HubLinkDrops \/ HubLinkBack

PresenceSpec == PresenceInit /\ [][PresenceNext]_presenceVars

\* The interval ticks and the hub handles what reaches it.
PresenceFairness ==
    /\ WF_presenceVars(SendHeartbeat)
    /\ WF_presenceVars(HandleLine)
    /\ WF_presenceVars(HandleHeartbeat)

-----------------------------------------------------------------------------
(* Properties *)

\* Once the last line has been handled, the hub shows what the broker holds,
\* however the heartbeats were ordered.
RecordedIsHeld == toHub = <<>> /\ ~missed => (recorded = "online" <=> holder # NoLink)

\* A device that stays connected comes to be shown online and stays so, also
\* after the hub has missed its connect line: "the connect line only fires
\* once, so without this a device shows whatever it showed at that one moment
\* forever" (twin/mqtt.ts, the heartbeat subscription).
ConnectedShowsOnline ==
    <>[](connected /\ heartbeat /\ client # NoLink /\ link[client] = "up" /\ hubLink)
        => <>[](recorded = "online")
=============================================================================
