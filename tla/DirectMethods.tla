--------------------------- MODULE DirectMethods ---------------------------
(***************************************************************************)
(* Direct methods and cloud-to-device messages of one device: the admin    *)
(* console's sendDirectMethod (index.ts), the application service's method *)
(* calls and messages (services/application), the client objects that ask  *)
(* for them (sdk/app-client) and the device's handlers (sdk/device-client).*)
(*                                                                         *)
(* Topics of different devices and of different methods are disjoint, so   *)
(* the module is about one method of one device.  The broker is external:  *)
(* it keeps the order of one connection, drops what nobody subscribed to,  *)
(* and forgets what was in flight on a connection that closes.  A call is  *)
(* its own request: a message in flight is the call it belongs to.         *)
(***************************************************************************)
EXTENDS Naturals, FiniteSets

CONSTANTS
    AdminCalls,     \* calls of sendDirectMethod
    AppCalls,       \* method calls of applications, over the socket or REST
    RequestIds,     \* request ids the applications choose from
    Messages,       \* cloud-to-device messages of applications
    MaxDrops        \* bound: connections lost

ASSUME DropsAssumption == MaxDrops \in Nat
ASSUME CallsAssumption == AdminCalls \cap AppCalls = {} /\ AppCalls \cap Messages = {}

VARIABLES
    \* the admin console
    adminLink,      \* mqttClient.connected
    responseSub,    \* its subscription to the response topic
    admin,          \* per call: phase, timer, listener, outcome
    toAdmin,        \* answers on their way to it
    overlapped,     \* history: calls that shared the topic with an earlier one
    \* the application service
    appLink,        \* its mqttClient.connected
    call,           \* per call: request id, timer, outcome
    asked,          \* requests of clients on their way to the service
    reply,          \* its reply on the way to the client
    toApp,          \* answers on their way to it
    promise,        \* what the client's caller sees
    \* the device
    deviceLink,     \* connected
    session,        \* the broker holds its session, with its subscriptions
    requests,       \* method requests on their way to it
    running,        \* requests whose handler may still send
    answers,        \* answers sent per call
    inbox,          \* messages the broker holds for it
    heard,          \* messages it was given
    drops

adminVars == <<adminLink, responseSub, admin, toAdmin, overlapped>>
appVars == <<appLink, call, asked, reply, toApp, promise>>
deviceVars == <<deviceLink, session, requests, running, answers, inbox, heard>>
methodVars == <<adminVars, appVars, deviceVars, drops>>

Calls == AdminCalls \cup AppCalls
Asks == AppCalls \cup Messages
MaxAnswers == 2     \* a handler that throws after it has sent answers twice

AdminCall == [phase : {"idle", "subscribing", "ready"}, timer : BOOLEAN, listener : BOOLEAN,
              outcome : {"none", "answered", "timeout", "failed"}]
AppCall == [id : RequestIds, timer : BOOLEAN,
            outcome : {"none", "waiting", "answered", "timeout", "failed", "submitted"}]

MethodsTypeOK ==
    /\ adminLink \in BOOLEAN /\ responseSub \in BOOLEAN
    /\ admin \in [AdminCalls -> AdminCall] /\ toAdmin \subseteq AdminCalls
    /\ overlapped \subseteq AdminCalls
    /\ appLink \in BOOLEAN
    /\ call \in [AppCalls -> AppCall] /\ toApp \subseteq AppCalls
    /\ asked \subseteq Asks /\ reply \in [Asks -> {"none", "ok", "error"}]
    /\ promise \in [Asks -> {"none", "pending", "resolved", "rejected"}]
    /\ deviceLink \in BOOLEAN /\ session \in BOOLEAN
    /\ requests \subseteq Calls /\ running \subseteq Calls
    /\ answers \in [Calls -> Nat]
    /\ inbox \subseteq Messages /\ heard \subseteq Messages
    /\ drops \in Nat

MethodsInit ==
    /\ adminLink = TRUE /\ responseSub = FALSE
    /\ admin = [c \in AdminCalls |->
                   [phase |-> "idle", timer |-> FALSE, listener |-> FALSE, outcome |-> "none"]]
    /\ toAdmin = {} /\ overlapped = {}
    /\ appLink = TRUE
    /\ call \in [AppCalls -> [id : RequestIds, timer : {FALSE}, outcome : {"none"}]]
    /\ asked = {} /\ reply = [x \in Asks |-> "none"] /\ toApp = {}
    /\ promise = [x \in Asks |-> "none"]
    /\ deviceLink = FALSE /\ session = FALSE
    /\ requests = {} /\ running = {} /\ answers = [c \in Calls |-> 0]
    /\ inbox = {} /\ heard = {}
    /\ drops = 0

-----------------------------------------------------------------------------
(* The broker *)

\* A request reaches a device that is connected; its subscription is QoS 0, so
\* the broker keeps none for a device that is away.
Request(c) == requests' = IF deviceLink THEN requests \cup {c} ELSE requests

\* A response goes to those subscribed and connected.
Route(c) ==
    /\ toAdmin' = IF c \in AdminCalls /\ adminLink /\ responseSub THEN toAdmin \cup {c} ELSE toAdmin
    /\ toApp' = IF c \in AppCalls /\ appLink THEN toApp \cup {c} ELSE toApp

Drop == drops < MaxDrops /\ drops' = drops + 1

-----------------------------------------------------------------------------
(* sendDirectMethod *)

\* The call ends: a promise resolves once, whatever comes after.
Ended(a, outcome) == IF a.outcome = "none" THEN [a EXCEPT !.outcome = outcome] ELSE a

SendOffline(c) ==
    /\ admin[c].phase = "idle" /\ ~adminLink
    /\ admin' = [admin EXCEPT ![c] = [@ EXCEPT !.phase = "ready", !.outcome = "failed"]]
    /\ UNCHANGED <<adminLink, responseSub, toAdmin, overlapped, appVars, deviceVars, drops>>

\* A call is open until it has ended and nothing of it is left behind: one that
\* timed out leaves its listener, or a subscription still to be acknowledged.
\* The timer is armed, then the response topic is subscribed to.  Packets of
\* one connection keep their order, so the broker's view is that of the caller.
Open(a) ==
    \/ a.phase # "idle" /\ a.outcome = "none"
    \/ a.outcome = "timeout" /\ (a.listener \/ a.phase = "subscribing")

SendDirectMethod(c) ==
    /\ admin[c].phase = "idle" /\ adminLink
    /\ admin' = [admin EXCEPT ![c] = [@ EXCEPT !.phase = "subscribing", !.timer = TRUE]]
    /\ responseSub' = TRUE
    /\ LET others == {o \in AdminCalls : Open(admin[o])} IN
       overlapped' = IF others = {} THEN overlapped ELSE overlapped \cup others \cup {c}
    /\ UNCHANGED <<adminLink, toAdmin, appVars, deviceVars, drops>>

\* The acknowledgement may come after the timer: the request goes out anyway.
Subscribed(c) ==
    /\ admin[c].phase = "subscribing" /\ adminLink
    /\ admin' = [admin EXCEPT ![c] = [@ EXCEPT !.phase = "ready", !.listener = TRUE]]
    /\ Request(c)
    /\ UNCHANGED <<adminLink, responseSub, toAdmin, overlapped, appVars, deviceLink, session, running,
                   answers, inbox, heard, drops>>

\* Mutant: the error goes to nobody.
SubscribeFailsSilent(c) ==
    /\ admin[c].phase = "subscribing"
    /\ admin' = [admin EXCEPT ![c] = [@ EXCEPT !.phase = "ready", !.timer = FALSE]]
    /\ UNCHANGED <<adminLink, responseSub, toAdmin, overlapped, appVars, deviceVars, drops>>

SubscribeFails(c) ==
    /\ admin[c].phase = "subscribing"
    /\ admin' = [admin EXCEPT ![c] =
                    [Ended(@, "failed") EXCEPT !.phase = "ready", !.timer = FALSE]]
    /\ UNCHANGED <<adminLink, responseSub, toAdmin, overlapped, appVars, deviceVars, drops>>

\* Mutant: the timer is not cleared.
PublishFailsTimed(c) ==
    /\ admin[c].phase = "subscribing"
    /\ admin' = [admin EXCEPT ![c] = [Ended(@, "failed") EXCEPT !.phase = "ready"]]
    /\ responseSub' = FALSE
    /\ UNCHANGED <<adminLink, toAdmin, overlapped, appVars, deviceVars, drops>>

\* The publish of the request is refused: the subscription and the listener go.
PublishFails(c) ==
    /\ admin[c].phase = "subscribing"
    /\ admin' = [admin EXCEPT ![c] =
                    [Ended(@, "failed") EXCEPT !.phase = "ready", !.timer = FALSE]]
    /\ responseSub' = FALSE
    /\ UNCHANGED <<adminLink, toAdmin, overlapped, appVars, deviceVars, drops>>

\* The listener stays.
AdminTimeout(c) ==
    /\ admin[c].timer
    /\ admin' = [admin EXCEPT ![c] = [Ended(@, "timeout") EXCEPT !.timer = FALSE]]
    /\ responseSub' = FALSE
    /\ UNCHANGED <<adminLink, toAdmin, overlapped, appVars, deviceVars, drops>>

\* Mutant: the request id is not compared.
TakesAny(listening, c) == TRUE

\* Every listener sees the answer c and compares the request id: it takes its own.
Takes(listening, c) == listening = c

AdminReceives(c) ==
    /\ c \in toAdmin
    /\ toAdmin' = toAdmin \ {c}
    /\ LET takers == {l \in AdminCalls : admin[l].listener /\ Takes(l, c)} IN
       /\ admin' = [l \in AdminCalls |->
                       IF l \in takers
                       THEN [Ended(admin[l], "answered") EXCEPT !.timer = FALSE, !.listener = FALSE]
                       ELSE admin[l]]
       /\ responseSub' = IF takers = {} THEN responseSub ELSE FALSE
    /\ UNCHANGED <<adminLink, overlapped, appVars, deviceVars, drops>>

\* mqtt.js connects again and subscribes again to what it still wants.
AdminLinkDrops ==
    /\ adminLink /\ Drop
    /\ adminLink' = FALSE /\ toAdmin' = {}
    /\ UNCHANGED <<responseSub, admin, overlapped, appVars, deviceVars>>

AdminLinkBack ==
    /\ ~adminLink /\ adminLink' = TRUE
    /\ UNCHANGED <<responseSub, admin, toAdmin, overlapped, appVars, deviceVars, drops>>

-----------------------------------------------------------------------------
(* DeviceHubAppClient: callDeviceMethod, sendMessageToDevice *)

\* The promise, its timer and its once-listener are made and the request sent.
ClientAsks(x) ==
    /\ promise[x] = "none"
    /\ promise' = [promise EXCEPT ![x] = "pending"]
    /\ asked' = asked \cup {x}
    /\ UNCHANGED <<adminVars, appLink, call, reply, toApp, deviceVars, drops>>

\* After the timer the listener is off and the reply goes unheard.
ClientHears(x) ==
    /\ reply[x] # "none"
    /\ reply' = [reply EXCEPT ![x] = "none"]
    /\ promise' = IF promise[x] # "pending" THEN promise
                  ELSE [promise EXCEPT ![x] = IF reply[x] = "ok" THEN "resolved" ELSE "rejected"]
    /\ UNCHANGED <<adminVars, appLink, call, asked, toApp, deviceVars, drops>>

ClientTimeout(x) ==
    /\ promise[x] = "pending"
    /\ promise' = [promise EXCEPT ![x] = "rejected"]
    /\ UNCHANGED <<adminVars, appLink, call, asked, reply, toApp, deviceVars, drops>>

\* The socket closes: what was on its way is lost, the promises wait for their timers.
SocketCloses ==
    /\ Drop
    /\ asked' = {} /\ reply' = [x \in Asks |-> "none"]
    /\ UNCHANGED <<adminVars, appLink, call, toApp, promise, deviceVars>>

-----------------------------------------------------------------------------
(* The application service *)

Reply(x, r) == reply' = [reply EXCEPT ![x] = r]

\* The listener is the event name with the request id, the timer is armed, the
\* request published.
Forwards(p) ==
    /\ p \in asked /\ appLink
    /\ asked' = asked \ {p}
    /\ call' = [call EXCEPT ![p] = [@ EXCEPT !.timer = TRUE, !.outcome = "waiting"]]
    /\ Request(p)
    /\ UNCHANGED <<adminVars, appLink, reply, toApp, promise, deviceLink, session, running,
                   answers, inbox, heard, drops>>

\* Over the socket, under the id the client chose.
HandleMethodCall(p) == Forwards(p)

\* Over REST, under a fresh uuid.
PostMethod(p) == (\A q \in AppCalls \ {p} : call[q].id # call[p].id) /\ Forwards(p)

\* A field is missing, the broker is away, or the device is not found.
RefuseMethodCall(p) ==
    /\ p \in asked
    /\ asked' = asked \ {p}
    /\ call' = [call EXCEPT ![p].outcome = "failed"]
    /\ Reply(p, "error")
    /\ UNCHANGED <<adminVars, appLink, toApp, promise, deviceVars, drops>>

\* POST batch/methods publishes and answers at once; nobody listens.
BatchMethod(p) ==
    /\ p \in asked /\ appLink
    /\ asked' = asked \ {p}
    /\ call' = [call EXCEPT ![p].outcome = "submitted"]
    /\ Request(p)
    /\ Reply(p, "ok")
    /\ UNCHANGED <<adminVars, appLink, toApp, promise, deviceLink, session, running, answers,
                   inbox, heard, drops>>

\* off() of the listener, then the error goes to the client.
CallTimeout(p) ==
    /\ call[p].timer
    /\ call' = [call EXCEPT ![p] = [@ EXCEPT !.timer = FALSE, !.outcome = "timeout"]]
    /\ Reply(p, "error")
    /\ UNCHANGED <<adminVars, appLink, asked, toApp, promise, deviceVars, drops>>

\* emit(method-response-<id>) runs, once, every listener of that id.
Listening(p, id) == call[p].outcome = "waiting" /\ call[p].id = id

\* Mutant: the timer is not cleared.
AppReceivesTimed(p) ==
    /\ p \in toApp
    /\ toApp' = toApp \ {p}
    /\ LET takers == {q \in AppCalls : Listening(q, call[p].id)} IN
       /\ call' = [q \in AppCalls |->
                      IF q \in takers THEN [call[q] EXCEPT !.outcome = "answered"] ELSE call[q]]
       /\ reply' = [x \in Asks |-> IF x \in takers THEN "ok" ELSE reply[x]]
    /\ UNCHANGED <<adminVars, appLink, asked, promise, deviceVars, drops>>

AppReceives(p) ==
    /\ p \in toApp
    /\ toApp' = toApp \ {p}
    /\ LET takers == {q \in AppCalls : Listening(q, call[p].id)} IN
       /\ call' = [q \in AppCalls |->
                      IF q \in takers
                      THEN [call[q] EXCEPT !.timer = FALSE, !.outcome = "answered"]
                      ELSE call[q]]
       /\ reply' = [x \in Asks |-> IF x \in takers THEN "ok" ELSE reply[x]]
    /\ UNCHANGED <<adminVars, appLink, asked, promise, deviceVars, drops>>

\* handleSendMessage: acknowledged when the broker has it.  The device's
\* subscription is QoS 1 and its session persistent, so the broker keeps it.
HandleSendMessage(m) ==
    /\ m \in asked /\ appLink
    /\ asked' = asked \ {m}
    /\ inbox' = IF session THEN inbox \cup {m} ELSE inbox
    /\ Reply(m, "ok")
    /\ UNCHANGED <<adminVars, appLink, call, toApp, promise, deviceLink, session, requests,
                   running, answers, heard, drops>>

RefuseMessage(m) ==
    /\ m \in asked
    /\ asked' = asked \ {m}
    /\ Reply(m, "error")
    /\ UNCHANGED <<adminVars, appLink, call, toApp, promise, deviceVars, drops>>

AppLinkDrops ==
    /\ appLink /\ Drop
    /\ appLink' = FALSE /\ toApp' = {}
    /\ UNCHANGED <<adminVars, call, asked, reply, promise, deviceVars>>

AppLinkBack ==
    /\ ~appLink /\ appLink' = TRUE
    /\ UNCHANGED <<adminVars, call, asked, reply, toApp, promise, deviceVars, drops>>

-----------------------------------------------------------------------------
(* EdgeberryDeviceHubClient *)

\* 'connect', then setupSubscriptions; clean: false keeps the session.
DeviceConnects ==
    /\ ~deviceLink
    /\ deviceLink' = TRUE /\ session' = TRUE
    /\ UNCHANGED <<adminVars, appVars, requests, running, answers, inbox, heard, drops>>

DeviceDrops ==
    /\ deviceLink /\ Drop
    /\ deviceLink' = FALSE
    /\ requests' = {}
    /\ UNCHANGED <<adminVars, appVars, session, running, answers, inbox, heard>>

\* handleDirectMethod calls the registered handler, which may send now or later;
\* an unknown method is answered with 404 at once.
HandleDirectMethod(c) ==
    /\ c \in requests /\ deviceLink
    /\ requests' = requests \ {c}
    /\ running' = running \cup {c}
    /\ UNCHANGED <<adminVars, appVars, deviceLink, session, answers, inbox, heard, drops>>

RespondToDirectMethod(c) ==
    /\ c \in running /\ deviceLink /\ answers[c] < MaxAnswers
    /\ answers' = [answers EXCEPT ![c] = @ + 1]
    /\ Route(c)
    /\ UNCHANGED <<adminLink, responseSub, admin, overlapped, appLink, call, asked, reply, promise,
                   deviceLink, session, requests, running, inbox, heard, drops>>

HandleDevicebound(m) ==
    /\ m \in inbox /\ deviceLink
    /\ inbox' = inbox \ {m} /\ heard' = heard \cup {m}
    /\ UNCHANGED <<adminVars, appVars, deviceLink, session, requests, running, answers,
                   drops>>

-----------------------------------------------------------------------------
ConsoleNext ==
    \/ \E c \in AdminCalls :
          \/ SendOffline(c) \/ SendDirectMethod(c) \/ Subscribed(c) \/ SubscribeFails(c)
          \/ PublishFails(c) \/ AdminTimeout(c) \/ AdminReceives(c)
    \/ AdminLinkDrops \/ AdminLinkBack

ClientNext(x) == ClientAsks(x) \/ ClientHears(x) \/ ClientTimeout(x)

ServiceNext ==
    \/ \E p \in AppCalls :
          \/ ClientNext(p) \/ HandleMethodCall(p) \/ PostMethod(p) \/ RefuseMethodCall(p)
          \/ BatchMethod(p) \/ CallTimeout(p) \/ AppReceives(p)
    \/ SocketCloses
    \/ AppLinkDrops \/ AppLinkBack

MessagesNext ==
    \/ \E m \in Messages :
          ClientNext(m) \/ HandleSendMessage(m) \/ RefuseMessage(m) \/ HandleDevicebound(m)

DeviceNext ==
    \/ DeviceConnects \/ DeviceDrops
    \/ \E c \in Calls : HandleDirectMethod(c) \/ RespondToDirectMethod(c)

MethodsNext == ConsoleNext \/ ServiceNext \/ MessagesNext \/ DeviceNext

MethodsSpec == MethodsInit /\ [][MethodsNext]_methodVars

\* Timers fire; nothing else is certain to happen.
MethodsFairness ==
    /\ WF_methodVars(\E c \in AdminCalls : AdminTimeout(c))
    /\ WF_methodVars(\E p \in AppCalls : CallTimeout(p))
    /\ WF_methodVars(\E x \in Asks : ClientTimeout(x))

-----------------------------------------------------------------------------
(* Properties *)

\* A caller that is told its method was answered was told by an answer to its
\* own request, whatever else the topic carries: always for the console
\* ("Generate unique request ID", "Check if this response matches our
\* request"), and for an application if no other call uses its request id.
OwnAnswer ==
    /\ \A c \in AdminCalls : admin[c].outcome = "answered" => answers[c] > 0
    /\ \A p \in AppCalls :
          call[p].outcome = "answered" =>
              \/ answers[p] > 0
              \/ \E q \in AppCalls \ {p} : call[q].id = call[p].id

\* While the console waits for an answer it is subscribed to it, unless two
\* calls shared the topic: the first that ends unsubscribes for both, and so
\* does the late answer to a call that timed out.
SoleCallSubscribed ==
    \A c \in AdminCalls \ overlapped :
        admin[c].phase # "idle" /\ admin[c].timer => responseSub

\* The service decides an application's call once, whatever races: the answer, the timer, a
\* second answer of the device, the answer to a call with the same id.  A decided call
\* keeps its outcome, and no second reply to it is sent (the timer and the once-listener
\* of handleMethodCall in services/application).
DecidedOnce ==
    [][\A p \in AppCalls :
          call[p].outcome \notin {"none", "waiting"} =>
              /\ call'[p].outcome = call[p].outcome
              /\ reply'[p] \in {reply[p], "none"}]_methodVars

\* A caller that still waits: the console's route, the service, an application.
Waiting ==
    \/ \E c \in AdminCalls : admin[c].phase # "idle" /\ admin[c].outcome = "none"
    \/ \E p \in AppCalls : call[p].outcome = "waiting"
    \/ \E x \in Asks : promise[x] = "pending"

\* Every call ends for its caller, whichever messages are lost: calls are made once, and
\* in the end nobody waits (the timers of sendDirectMethod, handleMethodCall and the
\* application client).
EveryCallSettles == <>[]~Waiting
=============================================================================
