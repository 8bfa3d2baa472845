------------------------------- MODULE NodeRed -------------------------------
(***************************************************************************)
(* The Node-RED nodes: the configuration node that owns the connection to  *)
(* a hub, and the device and endpoint nodes registered with it             *)
(* (sdk/node-red-contrib).  The application client under it is reduced to  *)
(* the events the configuration node listens to; AppSession models it.     *)
(*                                                                         *)
(* A client object that was left goes on to its last event: the close of   *)
(* its socket, or, when it was left during its health check, the opening   *)
(* of a socket.  All its events reach the listeners of the configuration   *)
(* node, which may have made another client by then.                       *)
(***************************************************************************)
EXTENDS Naturals, FiniteSets, Functions

CONSTANTS
    Nodes,          \* device and endpoint nodes of the flows
    Device,         \* the device each of them names
    Clients,        \* application clients the configuration node may make
    NoClient,
    MaxAsked,       \* bound: requests for the device list under way
    MaxFaults       \* bound: failed health checks, failed or broken sockets

DeviceIds == Range(Device)

ASSUME NodeRedAssumption ==
    /\ Device \in [Nodes -> DeviceIds]
    /\ NoClient \notin Clients
    /\ MaxAsked \in Nat /\ MaxFaults \in Nat

VARIABLES
    \* the configuration node
    registered,     \* the nodes in subscribers
    hubClient,      \* client
    hubState,
    polling,        \* pollTimer is set
    deviceState,    \* "none": no entry
    asking,         \* getDevices() requests under way
    \* the application clients
    conn,
    left,           \* disconnect() was called
    subscription,   \* the devices of the last subscribe message of the socket
    faults

configNode == <<registered, hubClient, hubState, polling, deviceState, asking>>
nodeRedVars == <<configNode, conn, left, subscription, faults>>

Watched == {Device[n] : n \in registered}
Nothing == [d \in DeviceIds |-> "none"]

NodeRedTypeOK ==
    /\ registered \subseteq Nodes
    /\ hubClient \in Clients \cup {NoClient}
    /\ hubState \in {"idle", "connecting", "up", "down"}
    /\ polling \in BOOLEAN
    /\ deviceState \in [DeviceIds -> {"none", "online", "offline", "absent"}]
    /\ asking \in 0..MaxAsked
    /\ conn \in [Clients -> {"unused", "checking", "refused", "opening", "open", "waiting",
                             "closing", "gone"}]
    /\ left \in [Clients -> BOOLEAN]
    /\ subscription \in [Clients -> SUBSET DeviceIds]
    /\ faults \in 0..MaxFaults

NodeRedInit ==
    /\ registered = {} /\ hubClient = NoClient /\ hubState = "idle" /\ polling = FALSE
    /\ deviceState = Nothing /\ asking = 0
    /\ conn = [c \in Clients |-> "unused"] /\ left = [c \in Clients |-> FALSE]
    /\ subscription = [c \in Clients |-> {}]
    /\ faults = 0

Fault == faults < MaxFaults /\ faults' = faults + 1

-----------------------------------------------------------------------------
(* The configuration node *)

\* setHubState: what was known of the devices goes when the hub is not up.
SetHubState(next) ==
    /\ hubState' = next
    /\ deviceState' = IF next # "up" /\ hubState # next THEN Nothing ELSE deviceState

\* refreshDeviceStates asks once more (the bound leaves requests unasked).
Refreshes(allowed) == asking' = IF allowed /\ asking < MaxAsked THEN asking + 1 ELSE asking

\* Mutant: devices nobody watches any more stay in the subscription.
HandleSubscribeGrows(subs, c, devices) == [subs EXCEPT ![c] = @ \cup devices]

\* The hub's side of a session: the devices named replace those of before.
HandleSubscribe(subs, c, devices) == [subs EXCEPT ![c] = devices]

\* subscribeToDevices sends if the socket is open, for the sockets as they are in links.
SubscribeToDevices(subs, c, devices, links) ==
    IF links[c] = "open" THEN HandleSubscribe(subs, c, devices) ELSE subs

\* pushSubscription: all watched devices, if there are any and the hub is up.
PushSubscription(to, state, watched, links, subs) ==
    subscription' = IF to # NoClient /\ state = "up" /\ watched # {}
                    THEN SubscribeToDevices(subs, to, watched, links) ELSE subs

\* register: the first node makes the client.
Register(n) ==
    /\ n \in Nodes \ registered
    /\ registered' = registered \cup {n}
    /\ IF hubClient = NoClient
       THEN \E c \in Clients :
            /\ conn[c] = "unused"
            /\ hubClient' = c
            /\ conn' = [conn EXCEPT ![c] = "checking"]
            /\ SetHubState("connecting")
       ELSE UNCHANGED <<hubClient, conn, hubState, deviceState>>
    /\ PushSubscription(hubClient', hubState', Watched \cup {Device[n]}, conn', subscription)
    /\ UNCHANGED <<polling, asking, left, faults>>

\* disconnect: the client's own 'disconnected' event follows at once and turns
\* the "idle" into "down".
LetGo ==
    /\ polling' = FALSE /\ hubClient' = NoClient /\ hubState' = "down" /\ deviceState' = Nothing
    /\ left' = [left EXCEPT ![hubClient] = TRUE]
    /\ conn' = [conn EXCEPT ![hubClient] =
                    CASE @ \in {"opening", "open", "closing"} -> "closing"
                      [] @ \in {"waiting", "refused"} -> "gone"
                      [] OTHER -> @]
    /\ UNCHANGED subscription

\* unregister: the last node closes the connection.
Unregister(n) ==
    LET others == {Device[m] : m \in registered \ {n}}
    IN  /\ n \in registered
        /\ registered' = registered \ {n}
        /\ IF registered = {n}
           THEN LetGo
           ELSE /\ deviceState' = IF Device[n] \in others THEN deviceState
                                  ELSE [deviceState EXCEPT ![Device[n]] = "none"]
                /\ PushSubscription(hubClient, hubState, others, conn, subscription)
                /\ UNCHANGED <<hubClient, hubState, polling, conn, left>>
        /\ UNCHANGED <<asking, faults>>

\* The timer of startPolling.
Poll ==
    /\ polling /\ hubClient # NoClient /\ hubState = "up" /\ registered # {}
    /\ asking < MaxAsked /\ asking' = asking + 1
    /\ UNCHANGED <<registered, hubClient, hubState, polling, deviceState, conn, left,
                   subscription, faults>>

\* The answer to getDevices() is applied to the nodes and the state of the moment.
RefreshAnswered ==
    /\ asking > 0 /\ asking' = asking - 1
    /\ \E answer \in [DeviceIds -> {"online", "offline", "absent"}] :
           deviceState' = [d \in DeviceIds |-> IF d \in Watched THEN answer[d]
                                               ELSE deviceState[d]]
    /\ UNCHANGED <<registered, hubClient, hubState, polling, conn, left, subscription, faults>>

RefreshFails ==
    /\ asking > 0 /\ asking' = asking - 1
    /\ Fault
    /\ UNCHANGED <<registered, hubClient, hubState, polling, deviceState, conn, left, subscription>>

\* deliver: what a device sends shows it online; a status message says which.
Deliver(c, d) ==
    /\ conn[c] = "open" /\ d \in subscription[c]
    /\ \E state \in {"online", "offline"} : deviceState' = [deviceState EXCEPT ![d] = state]
    /\ UNCHANGED <<registered, hubClient, hubState, polling, asking, conn, left, subscription,
                   faults>>

\* The listeners of 'websocket-disconnected', 'websocket-error', 'disconnected' and
\* of a failed connect().
Down ==
    /\ polling' = FALSE
    /\ SetHubState("down")
    /\ UNCHANGED <<registered, hubClient, asking>>

-----------------------------------------------------------------------------
(* The application clients *)

\* connect(): a refused health check ends it; nothing tries again.
HealthFails(c) ==
    /\ conn[c] = "checking"
    /\ conn' = [conn EXCEPT ![c] = IF left[c] THEN "gone" ELSE "refused"]
    /\ Down /\ Fault
    /\ UNCHANGED <<left, subscription>>

\* A client that was left meanwhile opens its socket all the same.
HealthOk(c) ==
    /\ conn[c] = "checking"
    /\ conn' = [conn EXCEPT ![c] = "opening"]
    /\ UNCHANGED <<configNode, left, subscription, faults>>

\* 'websocket-connected'.  The hub closes the other sessions of the token.
Opens(c) ==
    /\ conn[c] = "opening"
    /\ conn' = [x \in Clients |-> IF x = c THEN "open"
                                  ELSE IF conn[x] = "open" THEN "closing" ELSE conn[x]]
    /\ SetHubState("up")
    /\ PushSubscription(hubClient, "up", Watched, conn', [subscription EXCEPT ![c] = {}])
    /\ Refreshes(hubClient # NoClient /\ registered # {})
    /\ polling' = TRUE
    /\ UNCHANGED <<registered, hubClient, left, faults>>

\* Mutant: nothing tries again.
SocketEndedForGood(c) ==
    /\ conn' = [conn EXCEPT ![c] = "gone"]
    /\ Down
    /\ UNCHANGED <<left, subscription>>

\* A socket is closed, broken, or could not be opened: a client that was not left
\* waits and tries again.
SocketEnded(c) ==
    /\ conn' = [conn EXCEPT ![c] = IF left[c] THEN "gone" ELSE "waiting"]
    /\ Down
    /\ UNCHANGED <<left, subscription>>

Closes(c) == conn[c] = "closing" /\ SocketEnded(c) /\ UNCHANGED faults

Breaks(c) == conn[c] \in {"opening", "open"} /\ SocketEnded(c) /\ Fault

Retries(c) ==
    /\ conn[c] = "waiting"
    /\ conn' = [conn EXCEPT ![c] = "opening"]
    /\ UNCHANGED <<configNode, left, subscription, faults>>

-----------------------------------------------------------------------------
NodeRedNext ==
    \/ \E n \in Nodes : Register(n) \/ Unregister(n)
    \/ Poll \/ RefreshAnswered \/ RefreshFails
    \/ \E c \in Clients, d \in DeviceIds : Deliver(c, d)
    \/ \E c \in Clients : \/ HealthFails(c)
                          \/ HealthOk(c)
                          \/ Opens(c)
                          \/ Closes(c)
                          \/ Breaks(c)
                          \/ Retries(c)

\* A request is answered, a socket opens or closes, a retry timer fires.
NodeRedFairness ==
    \A c \in Clients :
        WF_nodeRedVars(HealthOk(c) \/ Opens(c) \/ Closes(c) \/ Retries(c))

NodeRedSpec == NodeRedInit /\ [][NodeRedNext]_nodeRedVars /\ NodeRedFairness

-----------------------------------------------------------------------------
(* Properties *)

\* While the badge shows devices and the socket is open, the hub sends the messages of
\* exactly the devices that some node watches, and the list is polled, which is what
\* shows a device going offline (pushSubscription, startPolling).
ServedWhenUp ==
    hubState = "up" /\ registered # {} /\ conn[hubClient] = "open"
        => subscription[hubClient] = Watched /\ polling

Overlapped == \E c \in Clients : c # hubClient /\ conn[c] # "unused"
Refused == hubClient # NoClient /\ conn[hubClient] = "refused"

\* Nodes that stay end up seeing the hub, through any breaks, unless the first health
\* check of their client failed or an earlier client of the node had been left.
NodesSeeHub == <>[](registered = {} \/ Overlapped \/ Refused \/ hubState = "up")
=============================================================================
