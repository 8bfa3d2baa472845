----------------------------- MODULE AppSession -----------------------------
(***************************************************************************)
(* The sessions of one application token: the application client's         *)
(* connect, reconnect and disconnect (sdk/app-client) and the hub's web    *)
(* socket handlers and heartbeat (services/application).                   *)
(*                                                                         *)
(* The hub compares sessions of the same token only, so the module is      *)
(* about the client objects that use one token, usually a single one.  A   *)
(* socket has two ends, each with its own state; a cut socket delivers     *)
(* nothing more and tells neither end.  Backoff delays are left to the     *)
(* scheduler, and enableWebSocket is true.                                 *)
(***************************************************************************)
EXTENDS Naturals, FiniteSets

CONSTANTS
    Clients,        \* DeviceHubAppClient objects that use the token
    Sockets,        \* web sockets, taken again when both ends are done with them
    MaxConnects,    \* bound: calls of connect()
    MaxFaults       \* bound: cut links, failed connections, restarts of the hub

ASSUME BoundsAssumption == MaxConnects \in Nat /\ MaxFaults \in Nat

VARIABLES
    \* the client objects
    health,         \* calls of connect() awaiting GET /health
    websocket,      \* this.websocket, {} for null and for a closed one
    connected,      \* this.connected
    closing,        \* this.closing
    timer,          \* this.reconnectTimer is set
    \* the sockets
    own,            \* those a client has made and not seen close
    clientEnd,      \* readyState at the client
    hubEnd,         \* and at the hub, "none" before the upgrade is handled
    cut,            \* those whose link is silently lost
    \* the hub
    tokenValid,     \* verifyToken accepts the token
    sessions,       \* the sockets in the clients map
    alive,          \* those that answered the last ping
    \* counters
    connects, faults,
    \* history, read by properties only
    started,        \* clients past the health check since their last disconnect()
    raced,          \* clients whose connect() or disconnect() overtook earlier work,
    overlapped      \* and those where that was more than the close of an old socket

flagVars == <<connected, closing, timer>>
clientVars == <<health, websocket, flagVars, own, clientEnd>>
hubVars == <<tokenValid, sessions, alive, hubEnd>>
countVars == <<connects, faults>>
history == <<started, raced, overlapped>>
vars == <<clientVars, cut, hubVars, countVars, history>>

TypeOK ==
    /\ health \in [Clients -> Nat]
    /\ websocket \in [Clients -> SUBSET Sockets]
    /\ connected \subseteq Clients /\ closing \subseteq Clients /\ timer \subseteq Clients
    /\ own \in [Clients -> SUBSET Sockets]
    /\ clientEnd \in [Sockets -> {"connecting", "open", "closing", "closed"}]
    /\ hubEnd \in [Sockets -> {"none", "open", "closing", "closed"}]
    /\ cut \subseteq Sockets
    /\ tokenValid \in BOOLEAN
    /\ sessions \subseteq Sockets /\ alive \subseteq sessions
    /\ connects \in Nat /\ faults \in Nat
    /\ started \subseteq Clients /\ overlapped \subseteq raced /\ raced \subseteq Clients

Init ==
    /\ health = [c \in Clients |-> 0]
    /\ websocket = [c \in Clients |-> {}]
    /\ connected = {} /\ closing = {} /\ timer = {}
    /\ own = [c \in Clients |-> {}]
    /\ clientEnd = [s \in Sockets |-> "closed"]
    /\ hubEnd = [s \in Sockets |-> "closed"]
    /\ cut = {}
    /\ tokenValid = TRUE /\ sessions = {} /\ alive = {}
    /\ connects = 0 /\ faults = 0
    /\ started = {} /\ raced = {} /\ overlapped = {}

-----------------------------------------------------------------------------
Free(s) == clientEnd[s] = "closed" /\ hubEnd[s] \in {"none", "closed"}
Idle(c) == health[c] = 0 /\ c \notin timer /\ own[c] = {}
Fault == faults < MaxFaults /\ faults' = faults + 1 /\ UNCHANGED connects

-----------------------------------------------------------------------------
(* DeviceHubAppClient *)

\* new WebSocket: it replaces this.websocket, whatever that was.  Which of the
\* free sockets stands for the new one does not matter.
OpenSocket(c) ==
    \E s \in Sockets :
        /\ Free(s) /\ s = CHOOSE t \in Sockets : Free(t)
        /\ own' = [own EXCEPT ![c] = @ \cup {s}]
        /\ websocket' = [websocket EXCEPT ![c] = {s}]
        /\ clientEnd' = [clientEnd EXCEPT ![s] = "connecting"]
        /\ hubEnd' = [hubEnd EXCEPT ![s] = "none"]
        /\ cut' = cut \ {s}

Connect(c) ==
    /\ connects < MaxConnects
    /\ connects' = connects + 1
    /\ closing' = closing \ {c}
    /\ health' = [health EXCEPT ![c] = @ + 1]
    /\ raced' = IF Idle(c) THEN raced ELSE raced \cup {c}
    /\ overlapped' = IF Idle(c) \/ (health[c] = 0 /\ c \in closing)
                     THEN overlapped ELSE overlapped \cup {c}
    /\ UNCHANGED <<websocket, connected, timer, own, clientEnd, cut, hubVars, faults, started>>

\* connect() goes on to connectWebSocket
Healthy(c) ==
    /\ health[c] > 0
    /\ health' = [health EXCEPT ![c] = @ - 1]
    /\ OpenSocket(c)
    /\ started' = started \cup ({c} \ closing)
    /\ UNCHANGED <<flagVars, tokenValid, sessions, alive, countVars, raced, overlapped>>

\* connect() throws
Unhealthy(c) ==
    /\ health[c] > 0
    /\ Fault
    /\ health' = [health EXCEPT ![c] = @ - 1]
    /\ UNCHANGED <<websocket, flagVars, own, clientEnd, cut, hubVars, history>>

\* the upgrade was answered: 'open', and the promise of connectWebSocket
Opened(c, s) ==
    /\ s \in own[c] \ cut
    /\ clientEnd[s] = "connecting" /\ hubEnd[s] \in {"open", "closing"}
    /\ clientEnd' = [clientEnd EXCEPT ![s] = "open"]
    /\ connected' = connected \cup {c}
    /\ UNCHANGED <<health, websocket, closing, timer, own, cut, hubVars, countVars, history>>

\* Mutant of OnClose: a close that was asked for is followed by a reconnection.
OnCloseRevives(c, s) ==
    /\ clientEnd' = [clientEnd EXCEPT ![s] = "closed"]
    /\ own' = [own EXCEPT ![c] = @ \ {s}]
    /\ websocket' = [websocket EXCEPT ![c] = @ \ {s}]
    /\ connected' = connected \ {c}
    /\ timer' = timer \cup {c}
    /\ UNCHANGED <<health, closing, cut, hubVars, connects, history>>

\* Mutant of OnClose: the connected flag is left as it was.
OnCloseKeepsFlag(c, s) ==
    /\ clientEnd' = [clientEnd EXCEPT ![s] = "closed"]
    /\ own' = [own EXCEPT ![c] = @ \ {s}]
    /\ websocket' = [websocket EXCEPT ![c] = @ \ {s}]
    /\ timer' = IF c \in closing THEN timer ELSE timer \cup {c}
    /\ UNCHANGED <<health, connected, closing, cut, hubVars, connects, history>>

\* Mutant of OnClose: no reconnection is scheduled.
OnCloseGivesUp(c, s) ==
    /\ clientEnd' = [clientEnd EXCEPT ![s] = "closed"]
    /\ own' = [own EXCEPT ![c] = @ \ {s}]
    /\ websocket' = [websocket EXCEPT ![c] = @ \ {s}]
    /\ connected' = connected \ {c}
    /\ UNCHANGED <<health, closing, timer, cut, hubVars, connects, history>>

\* The 'close' event of any socket of the client, its current one or not:
\* reconnect, unless disconnect() was the last word or a retry is pending.
OnClose(c, s) ==
    /\ clientEnd' = [clientEnd EXCEPT ![s] = "closed"]
    /\ own' = [own EXCEPT ![c] = @ \ {s}]
    /\ websocket' = [websocket EXCEPT ![c] = @ \ {s}]
    /\ connected' = connected \ {c}
    /\ timer' = IF c \in closing THEN timer ELSE timer \cup {c}
    /\ UNCHANGED <<health, closing, cut, hubVars, connects, history>>

\* This end or the hub closed the socket, or the connection attempt got no answer.
Closed(c, s) ==
    /\ s \in own[c]
    /\ \/ clientEnd[s] = "closing"
       \/ clientEnd[s] = "open" /\ hubEnd[s] \in {"closing", "closed"} /\ s \notin cut
       \/ clientEnd[s] = "connecting" /\ (hubEnd[s] = "closed" \/ s \in cut)
    /\ OnClose(c, s)
    /\ UNCHANGED faults

\* 'error', then 'close': the attempt fails, or the transport breaks and both
\* ends are told; a cut link may be noticed, or not.
Broken(c, s) ==
    /\ s \in own[c] /\ clientEnd[s] \in {"connecting", "open"}
    /\ Fault
    /\ OnClose(c, s)

TimerFires(c) ==
    /\ c \in timer
    /\ timer' = timer \ {c}
    /\ IF c \in closing
       THEN UNCHANGED <<own, websocket, clientEnd, hubEnd, cut>>
       ELSE OpenSocket(c)
    /\ UNCHANGED <<health, connected, closing, tokenValid, sessions, alive, countVars, history>>

\* disconnect(): close() ends the handshake of the socket, or its attempt
Disconnect(c) ==
    /\ closing' = closing \cup {c}
    /\ connected' = connected \ {c}
    /\ timer' = timer \ {c}
    /\ clientEnd' = [s \in Sockets |-> IF s \in websocket[c] THEN "closing" ELSE clientEnd[s]]
    /\ websocket' = [websocket EXCEPT ![c] = {}]
    /\ started' = started \ {c}
    /\ raced' = IF health[c] = 0 THEN raced ELSE raced \cup {c}
    /\ overlapped' = IF health[c] = 0 THEN overlapped ELSE overlapped \cup {c}
    /\ UNCHANGED <<health, own, cut, hubVars, countVars>>

-----------------------------------------------------------------------------
(* The hub *)

\* A socket the hub has not handled yet; the client may have given up meanwhile.
Arrives(s) == clientEnd[s] \in {"connecting", "closing"} /\ hubEnd[s] = "none" /\ s \notin cut

\* Mutant of Accept: the older session stays.
AcceptBeside(s) ==
    /\ Arrives(s) /\ tokenValid
    /\ sessions' = sessions \cup {s}
    /\ alive' = alive \cup {s}
    /\ hubEnd' = [hubEnd EXCEPT ![s] = "open"]
    /\ UNCHANGED <<clientVars, cut, tokenValid, countVars, history>>

\* The newest connection wins: older sessions of the token are closed.
Accept(s) ==
    /\ Arrives(s) /\ tokenValid
    /\ sessions' = {s}
    /\ alive' = {s}
    /\ hubEnd' = [t \in Sockets |-> IF t = s THEN "open"
                                    ELSE IF t \in sessions THEN "closing" ELSE hubEnd[t]]
    /\ UNCHANGED <<clientVars, cut, tokenValid, countVars, history>>

\* no such token: close(1008)
Refuse(s) ==
    /\ Arrives(s) /\ ~tokenValid
    /\ hubEnd' = [hubEnd EXCEPT ![s] = "closing"]
    /\ UNCHANGED <<clientVars, cut, tokenValid, sessions, alive, countVars, history>>

\* the 'close' event at the hub
HubClosed(s) ==
    /\ \/ hubEnd[s] = "closing"
       \/ hubEnd[s] = "open" /\ clientEnd[s] \in {"closing", "closed"} /\ s \notin cut
    /\ hubEnd' = [hubEnd EXCEPT ![s] = "closed"]
    /\ sessions' = sessions \ {s}
    /\ alive' = alive \ {s}
    /\ UNCHANGED <<clientVars, cut, tokenValid, countVars, history>>

\* The pong of a socket that works.
Answers(s) == s \in sessions \ cut /\ clientEnd[s] \in {"connecting", "open"}

Pong(s) ==
    /\ Answers(s)
    /\ alive' = alive \cup {s}
    /\ UNCHANGED <<clientVars, cut, tokenValid, sessions, hubEnd, countVars, history>>

\* Mutant of Sweep: sessions are pinged and never terminated.
SweepOnlyPings ==
    /\ \A s \in Sockets : Answers(s) => s \in alive
    /\ sessions # {}
    /\ alive' = {}
    /\ UNCHANGED <<clientVars, cut, tokenValid, sessions, hubEnd, countVars, history>>

\* Every 30 seconds, more than a pong takes: sessions that did not answer the
\* last ping are terminated, the others pinged.
Sweep ==
    /\ \A s \in Sockets : Answers(s) => s \in alive
    /\ sessions # {}
    /\ sessions' = alive
    /\ alive' = {}
    /\ hubEnd' = [s \in Sockets |-> IF s \in sessions \ alive THEN "closed" ELSE hubEnd[s]]
    /\ UNCHANGED <<clientVars, cut, tokenValid, countVars, history>>

\* the admin deletes, deactivates or reactivates the token: live sessions are
\* not touched
SetToken ==
    /\ tokenValid' = ~tokenValid
    /\ UNCHANGED <<clientVars, cut, sessions, alive, hubEnd, countVars, history>>

HubRestart ==
    /\ Fault
    /\ sessions' = {} /\ alive' = {}
    /\ hubEnd' = [s \in Sockets |-> IF hubEnd[s] = "none" THEN "none" ELSE "closed"]
    /\ UNCHANGED <<clientVars, cut, tokenValid, history>>

\* The link is lost, and nobody is told.
Cut(s) ==
    /\ Fault
    /\ clientEnd[s] \in {"connecting", "open"} /\ s \notin cut
    /\ cut' = cut \cup {s}
    /\ UNCHANGED <<clientVars, hubVars, history>>

-----------------------------------------------------------------------------
Client(c) ==
    \/ Healthy(c) \/ TimerFires(c)
    \/ \E s \in Sockets : Opened(c, s) \/ Closed(c, s)

Next ==
    \/ \E c \in Clients :
           \/ Client(c) \/ Connect(c) \/ Unhealthy(c) \/ Disconnect(c)
           \/ \E s \in Sockets : Broken(c, s)
    \/ \E s \in Sockets :
           Accept(s) \/ Refuse(s) \/ HubClosed(s) \/ Pong(s) \/ Cut(s)
    \/ Sweep \/ SetToken \/ HubRestart

Spec == Init /\ [][Next]_vars

\* Timers fire, working links deliver, and each end runs what they bring.
FairSpec ==
    /\ Spec
    /\ \A c \in Clients :
        /\ WF_vars(Healthy(c)) /\ WF_vars(TimerFires(c))
        /\ \A s \in Sockets : WF_vars(Opened(c, s)) /\ WF_vars(Closed(c, s))
    /\ \A s \in Sockets :
        WF_vars(Accept(s)) /\ WF_vars(Refuse(s)) /\ WF_vars(HubClosed(s)) /\ WF_vars(Pong(s))
    /\ WF_vars(Sweep)

-----------------------------------------------------------------------------
(* Properties *)

\* "One live session per token" (services/application/index.ts), whatever
\* stale upgrades, replacements and reconnections come in.
OneSession == Cardinality(sessions) <= 1

\* After disconnect(), and unless the application overlapped its calls, the
\* client neither retries nor holds a socket (app-client.ts, "Only disconnect()
\* stops it").
QuietAfterDisconnect ==
    \A c \in closing \ raced :
        c \notin timer /\ \A s \in own[c] : clientEnd[s] = "closing"

\* Unless calls overlapped, the flag the application reads tells whether the
\* socket it would send on is open (app-client.ts isConnected).
FlagMatchesSocket ==
    \A c \in Clients \ raced :
        c \in connected <=> \E s \in websocket[c] : clientEnd[s] = "open"

\* The hub does not keep the session of a dead client ("held a socket open
\* against the hub for good", "never reaped").
DeadSessionsReaped ==
    \A s \in Sockets : (s \in sessions /\ s \in cut) ~> (s \notin sessions \/ s \notin cut)

\* A client that got past connect()'s health check and was not told to
\* disconnect ends up with a session, however often the connection breaks
\* (app-client.ts: no attempt limit, "only disconnect() stops it"), unless its
\* token was revoked, another client uses the token, or its link is cut and it
\* has not noticed.
Wanting(c) ==
    /\ c \in started
    /\ tokenValid
    /\ \A d \in Clients \ {c} : Idle(d)
    /\ \A s \in websocket[c] \cap cut : clientEnd[s] # "open"

InSession(c) ==
    c \in connected /\ \E s \in websocket[c] : clientEnd[s] = "open" /\ s \in sessions

\* It does if the application did not overlap its calls.
SettlesConnected == \A c \in Clients : <>[](Wanting(c) /\ c \notin raced) => <>[]InSession(c)

\* connect() "clears any previous disconnect(), so a client that was shut down
\* can be brought back up deliberately" (app-client.ts), so it should also when
\* connect() follows before the old socket's close event.  That event then
\* schedules a second socket; the hub lets the two replace each other, and each
\* replacement schedules the next, for ever.
BroughtBackUp ==
    \A c \in Clients : <>[](Wanting(c) /\ c \notin overlapped) => <>[]InSession(c)

\* "Set by disconnect() so the socket's own 'close' handler can tell a
\* deliberate shutdown from a dropped connection" (app-client.ts): once
\* disconnect() was the last call and no call is pending, no socket is open or
\* opening.  A disconnect() during the health check of connect() does not stop
\* it from opening one.
DisconnectIsFinal ==
    \A c \in closing : health[c] = 0 => \A s \in own[c] : clientEnd[s] = "closing"
=============================================================================
