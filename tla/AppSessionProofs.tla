-------------------------- MODULE AppSessionProofs --------------------------
(***************************************************************************)
(* Theorems about AppSession, for any clients, sockets and bounds.         *)
(*                                                                         *)
(* OneSession needs only that sessions shrink or become a singleton.  The  *)
(* two properties of the client need more: that sockets have one owner, so *)
(* that clients cannot disturb one another, and that a client whose calls  *)
(* did not overlap does one thing at a time: it awaits a health check, or  *)
(* a retry, or has one socket, which is this.websocket unless it is being  *)
(* closed.                                                                 *)
(***************************************************************************)
EXTENDS AppSession, FiniteSetTheorems, TLAPS

\* A socket in use has one client, and this.websocket is one of its sockets.
Ownership ==
    /\ \A c \in Clients : websocket[c] \subseteq own[c]
    /\ \A c \in Clients : \A s \in own[c] : clientEnd[s] # "closed"
    /\ \A c, d \in Clients : c # d => own[c] \cap own[d] = {}

OneThing(c) ==
    /\ health[c] > 0 => own[c] = {} /\ c \notin timer /\ c \notin closing
    /\ health[c] <= 1
    /\ c \in timer => own[c] = {} /\ c \notin closing
    /\ \A s, t \in own[c] : s = t
    /\ \A s \in own[c] : IF c \in closing THEN clientEnd[s] = "closing" ELSE s \in websocket[c]
    /\ c \in connected <=> \E s \in websocket[c] : clientEnd[s] = "open"

Calm == \A c \in Clients \ raced : OneThing(c)

Single == \A s, t \in sessions : s = t

IInv == TypeOK /\ Ownership /\ Calm /\ Single

USE BoundsAssumption

-----------------------------------------------------------------------------
(* The invariant holds initially. *)

LEMMA InitInv == Init => IInv
<1> SUFFICES ASSUME Init PROVE IInv
    OBVIOUS
<1>1. TypeOK
    BY DEF Init, TypeOK
<1>2. Ownership
    BY DEF Init, Ownership
<1>3. Calm
    BY DEF Init, Calm, OneThing
<1>4. Single
    BY DEF Init, Single
<1> QED
    BY <1>1, <1>2, <1>3, <1>4 DEF IInv

-----------------------------------------------------------------------------
(* Types *)

LEMMA OpenSocketType ==
    ASSUME TypeOK, NEW c \in Clients, OpenSocket(c)
    PROVE  /\ own' \in [Clients -> SUBSET Sockets]
           /\ websocket' \in [Clients -> SUBSET Sockets]
           /\ clientEnd' \in [Sockets -> {"connecting", "open", "closing", "closed"}]
           /\ hubEnd' \in [Sockets -> {"none", "open", "closing", "closed"}]
           /\ cut' \subseteq Sockets
<1> PICK s \in Sockets :
        /\ own' = [own EXCEPT ![c] = @ \cup {s}]
        /\ websocket' = [websocket EXCEPT ![c] = {s}]
        /\ clientEnd' = [clientEnd EXCEPT ![s] = "connecting"]
        /\ hubEnd' = [hubEnd EXCEPT ![s] = "none"]
        /\ cut' = cut \ {s}
    BY DEF OpenSocket
<1> QED
    BY DEF TypeOK

LEMMA OnCloseType ==
    ASSUME TypeOK, NEW c \in Clients, NEW s \in Sockets, OnClose(c, s),
           faults' \in Nat
    PROVE  TypeOK'
BY DEF TypeOK, OnClose, hubVars, history

LEMMA TypeStep == TypeOK /\ [Next]_vars => TypeOK'
<1> SUFFICES ASSUME TypeOK, [Next]_vars PROVE TypeOK'
    OBVIOUS
<1> USE DEF clientVars, flagVars, hubVars, countVars, history
<1>1. ASSUME NEW c \in Clients, Connect(c) PROVE TypeOK'
    BY <1>1 DEF TypeOK, Connect
<1>2. ASSUME NEW c \in Clients, Healthy(c) PROVE TypeOK'
    <2>1. health' \in [Clients -> Nat]
        BY <1>2 DEF TypeOK, Healthy
    <2>2. started' \subseteq Clients
        BY <1>2 DEF TypeOK, Healthy
    <2> QED
        BY <1>2, <2>1, <2>2, OpenSocketType DEF TypeOK, Healthy
<1>3. ASSUME NEW c \in Clients, Unhealthy(c) PROVE TypeOK'
    BY <1>3 DEF TypeOK, Unhealthy, Fault
<1>4. ASSUME NEW c \in Clients, NEW s \in Sockets, Opened(c, s) PROVE TypeOK'
    BY <1>4 DEF TypeOK, Opened
<1>5. ASSUME NEW c \in Clients, NEW s \in Sockets, Closed(c, s) PROVE TypeOK'
    BY <1>5, OnCloseType DEF TypeOK, Closed
<1>6. ASSUME NEW c \in Clients, NEW s \in Sockets, Broken(c, s) PROVE TypeOK'
    BY <1>6, OnCloseType DEF TypeOK, Broken, Fault
<1>7. ASSUME NEW c \in Clients, TimerFires(c) PROVE TypeOK'
    BY <1>7, OpenSocketType DEF TypeOK, TimerFires
<1>8. ASSUME NEW c \in Clients, Disconnect(c) PROVE TypeOK'
    BY <1>8 DEF TypeOK, Disconnect
<1>9. ASSUME NEW s \in Sockets, Accept(s) PROVE TypeOK'
    BY <1>9 DEF TypeOK, Accept
<1>10. ASSUME NEW s \in Sockets, Refuse(s) PROVE TypeOK'
    BY <1>10 DEF TypeOK, Refuse
<1>11. ASSUME NEW s \in Sockets, HubClosed(s) PROVE TypeOK'
    BY <1>11 DEF TypeOK, HubClosed
<1>12. ASSUME NEW s \in Sockets, Pong(s) PROVE TypeOK'
    BY <1>12 DEF TypeOK, Pong, Answers
<1>13. ASSUME NEW s \in Sockets, Cut(s) PROVE TypeOK'
    BY <1>13 DEF TypeOK, Cut, Fault
<1>14. CASE Sweep
    BY <1>14 DEF TypeOK, Sweep
<1>15. CASE SetToken
    BY <1>15 DEF TypeOK, SetToken
<1>16. CASE HubRestart
    BY <1>16 DEF TypeOK, HubRestart, Fault
<1>17. CASE UNCHANGED vars
    BY <1>17 DEF TypeOK, vars
<1> QED
    BY <1>1, <1>2, <1>3, <1>4, <1>5, <1>6, <1>7, <1>8, <1>9, <1>10, <1>11, <1>12,
       <1>13, <1>14, <1>15, <1>16, <1>17 DEF Next, Client

\* Every variable keeps its type (AppSession!TypeOK); in particular the hub
\* remembers an answer to a ping for sessions only.
THEOREM TypeCorrect == Spec => []TypeOK
<1>1. Init => TypeOK
    BY InitInv DEF IInv
<1> QED
    BY <1>1, TypeStep, PTL DEF Spec

-----------------------------------------------------------------------------
(* One session *)

LEMMA SingleStep == Single /\ TypeOK /\ [Next]_vars => Single'
<1> SUFFICES ASSUME Single, TypeOK, [Next]_vars PROVE Single'
    OBVIOUS
<1> USE DEF hubVars
<1>1. ASSUME NEW c \in Clients, Client(c) \/ Connect(c) \/ Unhealthy(c) \/ Disconnect(c)
      PROVE  sessions' = sessions
    BY <1>1 DEF Client, Healthy, TimerFires, Opened, Closed, OnClose, Connect, Unhealthy, Disconnect
<1>2. ASSUME NEW c \in Clients, NEW s \in Sockets, Broken(c, s) PROVE sessions' = sessions
    BY <1>2 DEF Broken, OnClose
<1>3. ASSUME NEW s \in Sockets, Refuse(s) \/ HubClosed(s) \/ Pong(s) \/ Cut(s)
      PROVE  sessions' \subseteq sessions
    BY <1>3 DEF Refuse, HubClosed, Pong, Cut
<1>4. ASSUME NEW s \in Sockets, Accept(s) PROVE sessions' = {s}
    BY <1>4 DEF Accept
<1>5. CASE Sweep \/ SetToken \/ HubRestart
    <2> sessions' \subseteq sessions
        BY <1>5 DEF Sweep, SetToken, HubRestart, TypeOK
    <2> QED
        BY DEF Single
<1>6. CASE UNCHANGED vars
    BY <1>6 DEF vars, Single
<1> QED
    BY <1>1, <1>2, <1>3, <1>4, <1>5, <1>6 DEF Next, Single

\* The hub never has two live sessions of one token (AppSession!OneSession),
\* however upgrades, replacements, sweeps and restarts interleave.
THEOREM OneSessionTheorem == Spec => []OneSession
<1>1. Single => OneSession
    <2> SUFFICES ASSUME Single PROVE Cardinality(sessions) <= 1
        BY DEF OneSession
    <2>1. CASE sessions = {}
        BY <2>1, FS_EmptySet
    <2>2. CASE sessions # {}
        <3> PICK s : s \in sessions
            BY <2>2
        <3>1. sessions = {s}
            BY DEF Single
        <3>2. Cardinality({s}) = 1
            BY FS_Singleton
        <3> QED
            BY <3>1, <3>2
    <2> QED
        BY <2>1, <2>2
<1>2. Init => Single
    BY InitInv DEF IInv
<1>3. Spec => []Single
    BY <1>2, SingleStep, TypeCorrect, PTL DEF Spec
<1> QED
    BY <1>1, <1>3, PTL

-----------------------------------------------------------------------------
(* Clients *)

\* A new socket was nobody's, and becomes the client's current one.
LEMMA OpenSocketOwnership ==
    ASSUME TypeOK, Ownership, NEW c \in Clients, OpenSocket(c)
    PROVE  /\ Ownership'
           /\ \E s \in Sockets :
                /\ own'[c] = own[c] \cup {s} /\ websocket'[c] = {s}
                /\ clientEnd'[s] = "connecting"
           /\ \A d \in Clients \ {c} :
                /\ own'[d] = own[d] /\ websocket'[d] = websocket[d]
                /\ \A t \in own[d] : clientEnd'[t] = clientEnd[t]
<1> PICK s \in Sockets :
        /\ clientEnd[s] = "closed"
        /\ own' = [own EXCEPT ![c] = @ \cup {s}]
        /\ websocket' = [websocket EXCEPT ![c] = {s}]
        /\ clientEnd' = [clientEnd EXCEPT ![s] = "connecting"]
    BY DEF OpenSocket, Free
<1>1. own'[c] = own[c] \cup {s} /\ websocket'[c] = {s} /\ clientEnd'[s] = "connecting"
    BY DEF TypeOK
<1>2. \A d \in Clients : s \notin own[d]
    BY DEF Ownership
<1>3. ASSUME NEW d \in Clients \ {c}
      PROVE  own'[d] = own[d] /\ websocket'[d] = websocket[d]
    BY DEF TypeOK
<1>4. \A t \in Sockets \ {s} : clientEnd'[t] = clientEnd[t]
    BY DEF TypeOK
<1>5. \A d \in Clients : own[d] \subseteq Sockets
    BY DEF TypeOK
<1>6. \A d \in Clients : \A t \in own[d] : clientEnd'[t] = clientEnd[t]
    BY <1>2, <1>4, <1>5
<1>7. Ownership'
    <2>1. \A d \in Clients : websocket'[d] \subseteq own'[d]
        BY <1>1, <1>3 DEF Ownership
    <2>2. \A d \in Clients : \A t \in own'[d] : clientEnd'[t] # "closed"
        BY <1>1, <1>3, <1>6 DEF Ownership
    <2>3. \A d, e \in Clients : d # e => own'[d] \cap own'[e] = {}
        BY <1>1, <1>2, <1>3 DEF Ownership
    <2> QED
        BY <2>1, <2>2, <2>3 DEF Ownership
<1> QED
    BY <1>1, <1>3, <1>6, <1>7

\* A closed socket is no longer its client's, and no other client's changes.
LEMMA OnCloseOwnership ==
    ASSUME TypeOK, Ownership, NEW c \in Clients, NEW s \in own[c], OnClose(c, s)
    PROVE  /\ Ownership'
           /\ own'[c] = own[c] \ {s} /\ websocket'[c] = websocket[c] \ {s}
           /\ \A d \in Clients \ {c} : own'[d] = own[d] /\ websocket'[d] = websocket[d]
           /\ \A d \in Clients : \A t \in own'[d] : clientEnd'[t] = clientEnd[t]
<1> USE DEF OnClose
<1>1. own'[c] = own[c] \ {s} /\ websocket'[c] = websocket[c] \ {s}
    BY DEF TypeOK
<1>2. \A d \in Clients \ {c} : own'[d] = own[d] /\ websocket'[d] = websocket[d]
    BY DEF TypeOK
<1>3. \A d \in Clients : s \notin own'[d]
    BY <1>1, <1>2 DEF Ownership
<1>4. \A d \in Clients : own'[d] \subseteq own[d] /\ own[d] \subseteq Sockets
    BY <1>1, <1>2 DEF TypeOK
<1>5. \A d \in Clients : \A t \in own'[d] : clientEnd'[t] = clientEnd[t]
    BY <1>3, <1>4 DEF TypeOK
<1>6. Ownership'
    <2>1. \A d \in Clients : websocket'[d] \subseteq own'[d]
        BY <1>1, <1>2 DEF Ownership
    <2>2. \A d \in Clients : \A t \in own'[d] : clientEnd'[t] # "closed"
        BY <1>4, <1>5 DEF Ownership
    <2>3. \A d, e \in Clients : d # e => own'[d] \cap own'[e] = {}
        BY <1>4 DEF Ownership
    <2> QED
        BY <2>1, <2>2, <2>3 DEF Ownership
<1> QED
    BY <1>1, <1>2, <1>5, <1>6

\* What a client does is its own affair: the others keep doing one thing.
LEMMA OthersUndisturbed ==
    ASSUME NEW d \in Clients, OneThing(d), Ownership,
           health'[d] = health[d], own'[d] = own[d], websocket'[d] = websocket[d],
           \A t \in own[d] : clientEnd'[t] = clientEnd[t],
           d \in timer' <=> d \in timer, d \in closing' <=> d \in closing,
           d \in connected' <=> d \in connected
    PROVE  OneThing(d)'
<1>1. websocket[d] \subseteq own[d]
    BY DEF Ownership
<1> QED
    BY <1>1 DEF OneThing

\* The sockets of a client in use: at most one when it does one thing.
LEMMA OpensOne ==
    ASSUME TypeOK, Ownership, NEW c \in Clients, OpenSocket(c), c \notin closing,
           own[c] = {}, c \notin connected,
           health' = [health EXCEPT ![c] = 0], c \notin timer',
           closing' = closing, connected' = connected
    PROVE  OneThing(c)'
<1> PICK s \in Sockets :
        /\ own'[c] = own[c] \cup {s} /\ websocket'[c] = {s}
        /\ clientEnd'[s] = "connecting"
    BY OpenSocketOwnership
<1>1. health'[c] = 0
    BY DEF TypeOK
<1>2. own'[c] = {s}
    OBVIOUS
<1> QED
    BY <1>1, <1>2 DEF OneThing

LEMMA ClosesOne ==
    ASSUME TypeOK, Ownership, NEW c \in Clients, NEW s \in own[c], OnClose(c, s),
           OneThing(c)
    PROVE  OneThing(c)'
<1>1. own'[c] = {} /\ websocket'[c] = {}
    BY OnCloseOwnership DEF OneThing, Ownership
<1>2. health'[c] = 0
    BY DEF OnClose, OneThing, TypeOK
<1>3. c \notin connected' /\ closing' = closing /\ (c \in closing => c \notin timer')
    BY DEF OnClose, OneThing
<1> QED
    BY <1>1, <1>2, <1>3 DEF OneThing

LEMMA ClientStep ==
    TypeOK /\ Ownership /\ Calm /\ [Next]_vars => Ownership' /\ Calm'
<1> SUFFICES ASSUME TypeOK, Ownership, Calm, [Next]_vars PROVE Ownership' /\ Calm'
    OBVIOUS
<1>1. ASSUME NEW c \in Clients, Connect(c) PROVE Ownership' /\ Calm'
    <2> USE DEF Connect
    <2>1. Ownership'
        BY <1>1 DEF Ownership
    <2>2. ASSUME NEW d \in Clients \ raced', d # c PROVE OneThing(d)'
        <3>1. d \notin raced
            BY <1>1
        <3>2. health'[d] = health[d]
            BY <1>1, <2>2 DEF TypeOK
        <3> QED
            BY <1>1, <2>2, <3>1, <3>2, OthersUndisturbed DEF Calm
    <2>3. ASSUME c \notin raced' PROVE OneThing(c)'
        <3>1. Idle(c) /\ c \notin raced
            BY <1>1, <2>3
        <3>2. health'[c] = 1
            BY <1>1, <3>1 DEF Idle, TypeOK
        <3>3. websocket[c] = {}
            BY <3>1 DEF Idle, Ownership
        <3>4. OneThing(c)
            BY <3>1 DEF Calm
        <3> QED
            BY <1>1, <3>1, <3>2, <3>3, <3>4 DEF OneThing, Idle
    <2> QED
        BY <2>1, <2>2, <2>3 DEF Calm
<1>2. ASSUME NEW c \in Clients, Healthy(c) PROVE Ownership' /\ Calm'
    <2> USE DEF Healthy, flagVars
    <2>1. ASSUME NEW d \in Clients \ raced', d # c PROVE OneThing(d)'
        <3>1. health'[d] = health[d]
            BY <1>2, <2>1 DEF TypeOK
        <3> QED
            BY <1>2, <2>1, <3>1, OpenSocketOwnership, OthersUndisturbed DEF Calm
    <2>2. ASSUME c \notin raced' PROVE OneThing(c)'
        <3>1. OneThing(c)
            BY <1>2, <2>2 DEF Calm
        <3>2. own[c] = {} /\ c \notin timer /\ c \notin closing /\ health[c] = 1
            BY <1>2, <3>1 DEF OneThing, TypeOK
        <3>3. c \notin connected
            BY <3>1, <3>2 DEF OneThing, Ownership
        <3>4. health' = [health EXCEPT ![c] = 0]
            BY <1>2, <3>2
        <3> QED
            BY <1>2, <3>2, <3>3, <3>4, OpensOne
    <2> QED
        BY <1>2, <2>1, <2>2, OpenSocketOwnership DEF Calm
<1>3. ASSUME NEW c \in Clients, Unhealthy(c) PROVE Ownership' /\ Calm'
    <2> USE DEF Unhealthy, flagVars, history
    <2>1. Ownership'
        BY <1>3 DEF Ownership
    <2>2. ASSUME NEW d \in Clients \ raced', d # c PROVE OneThing(d)'
        <3>1. health'[d] = health[d]
            BY <1>3, <2>2 DEF TypeOK
        <3> QED
            BY <1>3, <2>2, <3>1, OthersUndisturbed DEF Calm
    <2>3. ASSUME c \notin raced' PROVE OneThing(c)'
        <3>1. OneThing(c)
            BY <1>3, <2>3 DEF Calm
        <3>2. health[c] = 1 /\ health'[c] = 0
            BY <1>3, <3>1 DEF OneThing, TypeOK
        <3> QED
            BY <1>3, <3>1, <3>2 DEF OneThing
    <2> QED
        BY <2>1, <2>2, <2>3 DEF Calm
<1>4. ASSUME NEW c \in Clients, NEW s \in Sockets, Opened(c, s) PROVE Ownership' /\ Calm'
    <2> USE DEF Opened, history
    <2>1. \A t \in Sockets \ {s} : clientEnd'[t] = clientEnd[t]
        BY <1>4 DEF TypeOK
    <2>2. clientEnd'[s] = "open" /\ s \in own[c]
        BY <1>4 DEF TypeOK
    <2>3. Ownership'
        <3> \A d \in Clients : own[d] \subseteq Sockets
            BY DEF TypeOK
        <3> QED
            BY <1>4, <2>1, <2>2 DEF Ownership
    <2>4. ASSUME NEW d \in Clients \ raced', d # c PROVE OneThing(d)'
        <3>1. s \notin own[d] /\ own[d] \subseteq Sockets
            BY <1>4, <2>4 DEF Ownership, TypeOK
        <3> QED
            BY <1>4, <2>1, <2>4, <3>1, OthersUndisturbed DEF Calm
    <2>5. ASSUME c \notin raced' PROVE OneThing(c)'
        <3>1. OneThing(c)
            BY <1>4, <2>5 DEF Calm
        <3>2. c \notin closing /\ s \in websocket[c]
            BY <1>4, <3>1 DEF OneThing
        <3> QED
            BY <1>4, <2>2, <3>1, <3>2 DEF OneThing
    <2> QED
        BY <2>3, <2>4, <2>5 DEF Calm
<1>5. ASSUME NEW c \in Clients, NEW s \in Sockets, Closed(c, s) \/ Broken(c, s)
      PROVE  Ownership' /\ Calm'
    <2>1. s \in own[c] /\ OnClose(c, s)
        BY <1>5 DEF Closed, Broken
    <2>2. ASSUME NEW d \in Clients \ raced', d # c PROVE OneThing(d)'
        <3>1. d \notin raced /\ health' = health /\ closing' = closing
              /\ (d \in timer' <=> d \in timer) /\ (d \in connected' <=> d \in connected)
            BY <2>1, <2>2 DEF OnClose, history
        <3> QED
            BY <2>1, <2>2, <3>1, OnCloseOwnership, OthersUndisturbed DEF Calm
    <2>3. ASSUME c \notin raced' PROVE OneThing(c)'
        BY <2>1, <2>3, ClosesOne DEF Calm, OnClose, history
    <2> QED
        BY <2>1, <2>2, <2>3, OnCloseOwnership DEF Calm
<1>6. ASSUME NEW c \in Clients, TimerFires(c) PROVE Ownership' /\ Calm'
    <2> USE DEF TimerFires, history
    <2>1. CASE c \in closing
        <3>1. Ownership'
            BY <1>6, <2>1 DEF Ownership
        <3>2. ASSUME NEW d \in Clients \ raced' PROVE OneThing(d)'
            BY <1>6, <2>1, <3>2 DEF Calm, OneThing
        <3> QED
            BY <3>1, <3>2 DEF Calm
    <2>2. CASE c \notin closing
        <3>1. ASSUME NEW d \in Clients \ raced', d # c PROVE OneThing(d)'
            BY <1>6, <2>2, <3>1, OpenSocketOwnership, OthersUndisturbed DEF Calm
        <3>2. ASSUME c \notin raced' PROVE OneThing(c)'
            <4>1. OneThing(c)
                BY <1>6, <3>2 DEF Calm
            <4>2. own[c] = {} /\ health[c] = 0
                BY <1>6, <4>1 DEF OneThing, TypeOK
            <4>3. c \notin connected
                BY <4>1, <4>2 DEF OneThing, Ownership
            <4>4. health' = [health EXCEPT ![c] = 0]
                BY <1>6, <4>2 DEF TypeOK
            <4> QED
                BY <1>6, <2>2, <4>2, <4>3, <4>4, OpensOne
        <3> QED
            BY <1>6, <2>2, <3>1, <3>2, OpenSocketOwnership DEF Calm
    <2> QED
        BY <2>1, <2>2
<1>7. ASSUME NEW c \in Clients, Disconnect(c) PROVE Ownership' /\ Calm'
    <2> USE DEF Disconnect
    <2>1. \A t \in Sockets : clientEnd'[t] = IF t \in websocket[c] THEN "closing" ELSE clientEnd[t]
        BY <1>7
    <2>2. /\ websocket'[c] = {}
          /\ \A d \in Clients \ {c} : websocket'[d] = websocket[d]
        BY <1>7 DEF TypeOK
    <2>3. \A d \in Clients : own[d] \subseteq Sockets
        BY DEF TypeOK
    <2>4. Ownership'
        <3>1. \A d \in Clients : websocket'[d] \subseteq own'[d]
            BY <1>7, <2>2 DEF Ownership
        <3>2. \A d \in Clients : \A t \in own'[d] : clientEnd'[t] # "closed"
            BY <1>7, <2>1, <2>3 DEF Ownership
        <3> QED
            BY <1>7, <3>1, <3>2 DEF Ownership
    <2>5. ASSUME NEW d \in Clients \ raced', d # c PROVE OneThing(d)'
        <3>1. d \notin raced
            BY <1>7
        <3>2. \A t \in own[d] : clientEnd'[t] = clientEnd[t]
            BY <2>1, <2>3, <2>5 DEF Ownership
        <3> QED
            BY <1>7, <2>2, <2>5, <3>1, <3>2, OthersUndisturbed DEF Calm
    <2>6. ASSUME c \notin raced' PROVE OneThing(c)'
        <3>1. OneThing(c) /\ health[c] = 0
            BY <1>7, <2>6 DEF Calm
        <3>2. \A t \in own'[c] : clientEnd'[t] = "closing"
            BY <1>7, <2>1, <2>3, <3>1 DEF OneThing
        <3> QED
            BY <1>7, <2>2, <3>1, <3>2 DEF OneThing
    <2> QED
        BY <2>4, <2>5, <2>6 DEF Calm
<1>8. ASSUME UNCHANGED <<clientVars, raced>> PROVE Ownership' /\ Calm'
    <2>1. Ownership'
        BY <1>8 DEF Ownership, clientVars
    <2>2. Calm'
        BY <1>8 DEF Calm, OneThing, clientVars, flagVars
    <2> QED
        BY <2>1, <2>2
<1>9. ASSUME NEW s \in Sockets,
             Accept(s) \/ Refuse(s) \/ HubClosed(s) \/ Pong(s) \/ Cut(s)
      PROVE  UNCHANGED <<clientVars, raced>>
    BY <1>9 DEF Accept, Refuse, HubClosed, Pong, Cut, history
<1>10. CASE Sweep \/ SetToken \/ HubRestart \/ UNCHANGED vars
    <2> UNCHANGED <<clientVars, raced>>
        BY <1>10 DEF Sweep, SetToken, HubRestart, vars, history
    <2> QED
        BY <1>8
<1> QED
    BY <1>1, <1>2, <1>3, <1>4, <1>5, <1>6, <1>7, <1>8, <1>9, <1>10 DEF Next, Client

LEMMA Inductive == Spec => []IInv
<1>1. IInv /\ [Next]_vars => IInv'
    BY TypeStep, SingleStep, ClientStep DEF IInv
<1> QED
    BY InitInv, <1>1, PTL DEF Spec

\* A client whose calls did not overlap neither retries nor holds a socket
\* after disconnect() (AppSession!QuietAfterDisconnect).
THEOREM QuietTheorem == Spec => []QuietAfterDisconnect
<1>1. IInv => QuietAfterDisconnect
    BY DEF IInv, TypeOK, Calm, OneThing, QuietAfterDisconnect
<1> QED
    BY Inductive, <1>1, PTL

\* Its connected flag says whether the socket it would send on is open
\* (AppSession!FlagMatchesSocket), whichever sockets closed before.
THEOREM FlagTheorem == Spec => []FlagMatchesSocket
<1>1. IInv => FlagMatchesSocket
    BY DEF IInv, Calm, OneThing, FlagMatchesSocket
<1> QED
    BY Inductive, <1>1, PTL
=============================================================================
