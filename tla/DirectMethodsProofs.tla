------------------------- MODULE DirectMethodsProofs -------------------------
(***************************************************************************)
(* Theorems about DirectMethods, for any calls, request ids, messages and  *)
(* lost connections: an answered call was answered by its own device       *)
(* request, a console call that shares its topic with none is subscribed   *)
(* while it waits, and the service decides an application's call once.     *)
(***************************************************************************)
EXTENDS DirectMethods, TLAPS

\* An answer on its way was sent.
Sent == /\ \A c \in toAdmin : answers[c] > 0
        /\ \A p \in toApp : answers[p] > 0

\* How a console call lives: its timer runs only until it ends, its listener is there from
\* the acknowledged subscription to the answer.
CallShape ==
    \A c \in AdminCalls :
        /\ admin[c].phase = "idle" => admin[c].outcome = "none"
        /\ admin[c].timer => admin[c].phase # "idle" /\ admin[c].outcome = "none"
        /\ admin[c].phase = "subscribing"
              => admin[c].outcome \in {"none", "timeout"} /\ ~admin[c].listener
        /\ admin[c].listener
              => admin[c].phase # "idle" /\ admin[c].outcome \in {"none", "timeout"}

\* A call that shares the topic with none: no other one is open.
Alone ==
    \A c \in AdminCalls \ overlapped :
        admin[c].timer => \A o \in AdminCalls \ {c} : ~Open(admin[o])

ConsoleInv == CallShape /\ Alone /\ SoleCallSubscribed
AnswerInv == Sent /\ OwnAnswer

MethodsInv == MethodsTypeOK /\ ConsoleInv /\ AnswerInv

\* No call has been made at first.
LEMMA MethodsInitInv == MethodsInit => MethodsInv
<1> SUFFICES ASSUME MethodsInit PROVE MethodsInv
    OBVIOUS
<1>1. MethodsTypeOK
    BY DEF MethodsInit, MethodsTypeOK, AdminCall, AppCall
<1>2. Sent /\ OwnAnswer
    BY DEF MethodsInit, Sent, OwnAnswer
<1>3. CallShape /\ Alone /\ SoleCallSubscribed
    BY DEF MethodsInit, CallShape, Alone, SoleCallSubscribed
<1> QED
    BY <1>1, <1>2, <1>3 DEF MethodsInv, ConsoleInv, AnswerInv

-----------------------------------------------------------------------------
(* Types *)

\* What the end of a console call leaves.
LEMMA EndedIsCall ==
    ASSUME NEW a \in AdminCall, NEW o \in {"answered", "timeout", "failed"}
    PROVE  /\ Ended(a, o) \in AdminCall
           /\ Ended(a, o) = [a EXCEPT !.outcome = IF a.outcome = "none" THEN o ELSE @]
BY DEF Ended, AdminCall

\* The console's actions keep the types.
LEMMA ConsoleTypes == MethodsTypeOK /\ ConsoleNext => MethodsTypeOK'
<1> SUFFICES ASSUME MethodsTypeOK, ConsoleNext PROVE MethodsTypeOK'
    OBVIOUS
<1> USE DEF MethodsTypeOK, appVars, deviceVars
<1>1. ASSUME NEW c \in AdminCalls,
             SendOffline(c) \/ SubscribeFails(c) \/ PublishFails(c) \/ AdminTimeout(c)
      PROVE  MethodsTypeOK'
    <2>1. admin' \in [AdminCalls -> AdminCall]
        <3>0. admin[c] \in AdminCall
            OBVIOUS
        <3>1. CASE SendOffline(c)
            BY <3>0, <3>1 DEF SendOffline, AdminCall
        <3>2. CASE SubscribeFails(c) \/ PublishFails(c)
            <4>1. Ended(admin[c], "failed") \in AdminCall
                BY <3>0, EndedIsCall
            <4>2. admin' = [admin EXCEPT ![c] =
                      [Ended(admin[c], "failed") EXCEPT !.phase = "ready", !.timer = FALSE]]
                BY <3>2 DEF SubscribeFails, PublishFails
            <4> QED
                BY <4>1, <4>2 DEF AdminCall
        <3>3. CASE AdminTimeout(c)
            <4>1. Ended(admin[c], "timeout") \in AdminCall
                BY <3>0, EndedIsCall
            <4>2. admin' = [admin EXCEPT ![c] = [Ended(admin[c], "timeout") EXCEPT !.timer = FALSE]]
                BY <3>3 DEF AdminTimeout
            <4> QED
                BY <4>1, <4>2 DEF AdminCall
        <3> QED
            BY <1>1, <3>1, <3>2, <3>3
    <2> QED
        BY <1>1, <2>1 DEF SendOffline, SubscribeFails, PublishFails, AdminTimeout
<1>2. ASSUME NEW c \in AdminCalls, SendDirectMethod(c) PROVE MethodsTypeOK'
    <2>1. admin' \in [AdminCalls -> AdminCall]
        BY <1>2 DEF SendDirectMethod, AdminCall
    <2>2. overlapped' \subseteq AdminCalls
        BY <1>2 DEF SendDirectMethod
    <2> QED
        BY <1>2, <2>1, <2>2 DEF SendDirectMethod
<1>3. ASSUME NEW c \in AdminCalls, Subscribed(c) PROVE MethodsTypeOK'
    <2>1. admin' \in [AdminCalls -> AdminCall]
        BY <1>3 DEF Subscribed, AdminCall
    <2>2. requests' \subseteq Calls
        BY <1>3 DEF Subscribed, Request, Calls
    <2> QED
        BY <1>3, <2>1, <2>2 DEF Subscribed
<1>4. ASSUME NEW c \in AdminCalls, AdminReceives(c) PROVE MethodsTypeOK'
    <2>1. admin' \in [AdminCalls -> AdminCall]
        BY <1>4 DEF AdminReceives, Ended, AdminCall
    <2> QED
        BY <1>4, <2>1 DEF AdminReceives
<1>5. CASE AdminLinkDrops \/ AdminLinkBack
    <2>1. drops' \in Nat
        BY <1>5 DEF AdminLinkDrops, AdminLinkBack, Drop
    <2> QED
        BY <1>5, <2>1 DEF AdminLinkDrops, AdminLinkBack
<1> QED
    BY <1>1, <1>2, <1>3, <1>4, <1>5 DEF ConsoleNext

\* A client object changes what was asked and promised, and no call.
LEMMA ClientTypes ==
    ASSUME MethodsTypeOK, NEW x \in Asks, ClientNext(x) PROVE MethodsTypeOK'
<1> USE DEF MethodsTypeOK, adminVars, deviceVars
<1>1. promise' \in [Asks -> {"none", "pending", "resolved", "rejected"}]
    BY DEF ClientNext, ClientAsks, ClientHears, ClientTimeout
<1>2. asked' \subseteq Asks /\ reply' \in [Asks -> {"none", "ok", "error"}]
    BY DEF ClientNext, ClientAsks, ClientHears, ClientTimeout
<1> QED
    BY <1>1, <1>2 DEF ClientNext, ClientAsks, ClientHears, ClientTimeout

\* A call of the service whose timer or outcome changes is a call.
LEMMA CallChanged ==
    ASSUME call \in [AppCalls -> AppCall], NEW p \in AppCalls, NEW t \in BOOLEAN,
           NEW o \in {"none", "waiting", "answered", "timeout", "failed", "submitted"},
           call' = [call EXCEPT ![p] = [call[p] EXCEPT !.timer = t, !.outcome = o]]
    PROVE  call' \in [AppCalls -> AppCall]
<1>1. [call[p] EXCEPT !.timer = t, !.outcome = o] \in AppCall
    BY DEF AppCall
<1> QED
    BY <1>1

\* The application service's actions keep the types.
LEMMA ServiceTypes == MethodsTypeOK /\ ServiceNext => MethodsTypeOK'
<1> SUFFICES ASSUME MethodsTypeOK, ServiceNext PROVE MethodsTypeOK'
    OBVIOUS
<1> USE DEF MethodsTypeOK, adminVars, deviceVars
<1>1. ASSUME NEW p \in AppCalls, ClientNext(p) PROVE MethodsTypeOK'
    BY <1>1, ClientTypes DEF Asks
<1>2. ASSUME NEW p \in AppCalls, HandleMethodCall(p) \/ PostMethod(p) \/ BatchMethod(p)
      PROVE  MethodsTypeOK'
    <2>1. call' \in [AppCalls -> AppCall]
        <3>1. call[p] \in AppCall
            OBVIOUS
        <3>2. CASE BatchMethod(p)
            <4>1. call' = [call EXCEPT ![p] =
                              [call[p] EXCEPT !.timer = call[p].timer, !.outcome = "submitted"]]
                BY <3>1, <3>2 DEF BatchMethod, AppCall
            <4> QED
                BY <3>1, <4>1, CallChanged DEF AppCall
        <3>3. CASE Forwards(p)
            <4>1. call' = [call EXCEPT ![p] = [call[p] EXCEPT !.timer = TRUE, !.outcome = "waiting"]]
                BY <3>3 DEF Forwards
            <4> QED
                BY <4>1, CallChanged
        <3> QED
            BY <1>2, <3>2, <3>3 DEF HandleMethodCall, PostMethod
    <2>2. requests' \subseteq Calls
        BY <1>2 DEF HandleMethodCall, PostMethod, Forwards, BatchMethod, Request, Calls
    <2>3. reply' \in [Asks -> {"none", "ok", "error"}]
        BY <1>2 DEF HandleMethodCall, PostMethod, Forwards, BatchMethod, Reply
    <2> QED
        BY <1>2, <2>1, <2>2, <2>3 DEF HandleMethodCall, PostMethod, Forwards, BatchMethod
<1>3. ASSUME NEW p \in AppCalls, RefuseMethodCall(p) \/ CallTimeout(p) PROVE MethodsTypeOK'
    <2>1. call' \in [AppCalls -> AppCall]
        <3>1. call[p] \in AppCall
            OBVIOUS
        <3>2. CASE RefuseMethodCall(p)
            <4>1. call' = [call EXCEPT ![p] =
                              [call[p] EXCEPT !.timer = call[p].timer, !.outcome = "failed"]]
                BY <3>1, <3>2 DEF RefuseMethodCall, AppCall
            <4> QED
                BY <3>1, <4>1, CallChanged DEF AppCall
        <3>3. CASE CallTimeout(p)
            <4>1. call' = [call EXCEPT ![p] = [call[p] EXCEPT !.timer = FALSE, !.outcome = "timeout"]]
                BY <3>3 DEF CallTimeout
            <4> QED
                BY <4>1, CallChanged
        <3> QED
            BY <1>3, <3>2, <3>3
    <2>2. reply' \in [Asks -> {"none", "ok", "error"}]
        BY <1>3 DEF RefuseMethodCall, CallTimeout, Reply
    <2> QED
        BY <1>3, <2>1, <2>2 DEF RefuseMethodCall, CallTimeout
<1>4. ASSUME NEW p \in AppCalls, AppReceives(p) PROVE MethodsTypeOK'
    <2>1. call' \in [AppCalls -> AppCall]
        BY <1>4 DEF AppReceives, AppCall
    <2>2. reply' \in [Asks -> {"none", "ok", "error"}]
        BY <1>4 DEF AppReceives
    <2> QED
        BY <1>4, <2>1, <2>2 DEF AppReceives
<1>5. CASE SocketCloses \/ AppLinkDrops \/ AppLinkBack
    <2>1. drops' \in Nat
        BY <1>5 DEF SocketCloses, AppLinkDrops, AppLinkBack, Drop
    <2> QED
        BY <1>5, <2>1 DEF SocketCloses, AppLinkDrops, AppLinkBack
<1> QED
    BY <1>1, <1>2, <1>3, <1>4, <1>5 DEF ServiceNext

\* So do messages to the device.
LEMMA MessagesTypes == MethodsTypeOK /\ MessagesNext => MethodsTypeOK'
<1> SUFFICES ASSUME MethodsTypeOK, NEW m \in Messages,
                    ClientNext(m) \/ HandleSendMessage(m) \/ RefuseMessage(m) \/ HandleDevicebound(m)
             PROVE  MethodsTypeOK'
    BY DEF MessagesNext
<1> USE DEF MethodsTypeOK
<1>1. CASE ClientNext(m)
    BY <1>1, ClientTypes DEF Asks
<1>2. CASE HandleSendMessage(m) \/ RefuseMessage(m)
    <2>1. reply' \in [Asks -> {"none", "ok", "error"}]
        BY <1>2 DEF HandleSendMessage, RefuseMessage, Reply
    <2> QED
        BY <1>2, <2>1 DEF HandleSendMessage, RefuseMessage, adminVars, deviceVars
<1>3. CASE HandleDevicebound(m)
    BY <1>3 DEF HandleDevicebound, adminVars, appVars
<1> QED
    BY <1>1, <1>2, <1>3

\* So do the device's actions.
LEMMA DeviceTypes == MethodsTypeOK /\ DeviceNext => MethodsTypeOK'
<1> SUFFICES ASSUME MethodsTypeOK, DeviceNext PROVE MethodsTypeOK'
    OBVIOUS
<1> USE DEF MethodsTypeOK, adminVars, appVars
<1>1. CASE DeviceConnects \/ DeviceDrops
    <2>1. drops' \in Nat
        BY <1>1 DEF DeviceConnects, DeviceDrops, Drop
    <2> QED
        BY <1>1, <2>1 DEF DeviceConnects, DeviceDrops
<1>2. ASSUME NEW c \in Calls, HandleDirectMethod(c) PROVE MethodsTypeOK'
    BY <1>2 DEF HandleDirectMethod
<1>3. ASSUME NEW c \in Calls, RespondToDirectMethod(c) PROVE MethodsTypeOK'
    <2>1. answers' \in [Calls -> Nat]
        BY <1>3 DEF RespondToDirectMethod
    <2>2. toAdmin' \subseteq AdminCalls /\ toApp' \subseteq AppCalls
        BY <1>3 DEF RespondToDirectMethod, Route
    <2> QED
        BY <1>3, <2>1, <2>2 DEF RespondToDirectMethod
<1> QED
    BY <1>1, <1>2, <1>3 DEF DeviceNext

\* Every step keeps the types.
LEMMA MethodsTypeStep == MethodsTypeOK /\ [MethodsNext]_methodVars => MethodsTypeOK'
<1>1. MethodsTypeOK /\ UNCHANGED methodVars => MethodsTypeOK'
    BY DEF MethodsTypeOK, methodVars, adminVars, appVars, deviceVars
<1> QED
    BY <1>1, ConsoleTypes, ServiceTypes, MessagesTypes, DeviceTypes DEF MethodsNext

-----------------------------------------------------------------------------
(* The console's calls *)

\* One call changes: it does not become open or start a timer, and if it takes the
\* subscription away it was open and no longer waits.
LEMMA OneCallChanges ==
    ASSUME MethodsTypeOK, ConsoleInv, NEW c \in AdminCalls, NEW a,
           admin' = [admin EXCEPT ![c] = a], UNCHANGED overlapped,
           Open(a) => Open(admin[c]), a.timer => admin[c].timer,
           \/ UNCHANGED responseSub
           \/ Open(admin[c]) /\ ~a.timer
    PROVE  Alone' /\ SoleCallSubscribed'
<1>1. /\ admin'[c] = a /\ \A o \in AdminCalls \ {c} : admin'[o] = admin[o]
    BY DEF MethodsTypeOK
<1>2. \A o \in AdminCalls : Open(admin'[o]) => Open(admin[o])
    BY <1>1
<1>3. \A o \in AdminCalls : admin'[o].timer => admin[o].timer
    BY <1>1
<1>4. Alone'
    <2> SUFFICES ASSUME NEW d \in AdminCalls \ overlapped, admin'[d].timer,
                        NEW o \in AdminCalls \ {d}
                 PROVE  ~Open(admin'[o])
        BY DEF Alone
    <2> QED
        BY <1>2, <1>3 DEF ConsoleInv, Alone
<1>5. SoleCallSubscribed'
    <2> SUFFICES ASSUME NEW d \in AdminCalls \ overlapped, admin'[d].timer
                 PROVE  responseSub'
        BY DEF SoleCallSubscribed
    <2>1. admin[d].timer /\ admin[d].phase # "idle"
        BY <1>3 DEF ConsoleInv, CallShape
    <2>2. responseSub
        BY <2>1 DEF ConsoleInv, SoleCallSubscribed
    <2>3. CASE UNCHANGED responseSub
        BY <2>2, <2>3
    <2>4. CASE Open(admin[c]) /\ ~a.timer
        <3>1. d # c
            BY <1>1, <2>4
        <3> QED
            BY <2>1, <2>4, <3>1 DEF ConsoleInv, Alone
    <2> QED
        BY <2>3, <2>4
<1> QED
    BY <1>4, <1>5

\* The console's actions keep what is known of its calls.
LEMMA ConsoleStep == MethodsTypeOK /\ ConsoleInv /\ ConsoleNext => ConsoleInv'
<1> SUFFICES ASSUME MethodsTypeOK, ConsoleInv, ConsoleNext PROVE ConsoleInv'
    OBVIOUS
<1>a. \A c \in AdminCalls : admin[c] \in AdminCall
    BY DEF MethodsTypeOK
<1>1. ASSUME NEW c \in AdminCalls, SendOffline(c) PROVE ConsoleInv'
    <2> DEFINE a == [admin[c] EXCEPT !.phase = "ready", !.outcome = "failed"]
    <2>1. admin' = [admin EXCEPT ![c] = a] /\ UNCHANGED <<overlapped, responseSub>>
        BY <1>1 DEF SendOffline
    <2>2. /\ admin[c].phase = "idle" /\ ~admin[c].timer /\ ~admin[c].listener
        BY <1>1 DEF SendOffline, ConsoleInv, CallShape
    <2>3. a.phase = "ready" /\ a.outcome = "failed" /\ ~a.timer /\ ~a.listener
        BY <1>a, <2>2 DEF AdminCall
    <2> HIDE DEF a
    <2>4. Alone' /\ SoleCallSubscribed'
        BY <2>1, <2>3, OneCallChanges DEF Open
    <2>5. CallShape'
        BY <2>1, <2>3 DEF ConsoleInv, CallShape, MethodsTypeOK
    <2> QED
        BY <2>4, <2>5 DEF ConsoleInv
<1>2. ASSUME NEW c \in AdminCalls, SendDirectMethod(c) PROVE ConsoleInv'
    <2> DEFINE a == [admin[c] EXCEPT !.phase = "subscribing", !.timer = TRUE]
               others == {o \in AdminCalls : Open(admin[o])}
    <2>1. /\ admin' = [admin EXCEPT ![c] = a] /\ responseSub' = TRUE
          /\ overlapped' = IF others = {} THEN overlapped ELSE overlapped \cup others \cup {c}
        BY <1>2 DEF SendDirectMethod
    <2>2. /\ admin[c].phase = "idle" /\ ~admin[c].timer /\ ~admin[c].listener
        BY <1>2 DEF SendDirectMethod, ConsoleInv, CallShape
    <2>3. /\ a.phase = "subscribing" /\ a.outcome = admin[c].outcome /\ a.timer /\ ~a.listener
        BY <1>a, <2>2 DEF AdminCall
    <2>4. a.outcome = "none"
        BY <2>2, <2>3 DEF ConsoleInv, CallShape
    <2>5. admin'[c] = a /\ \A o \in AdminCalls \ {c} : admin'[o] = admin[o]
        BY <2>1 DEF MethodsTypeOK
    <2> HIDE DEF a
    <2>6. Alone'
        <3> SUFFICES ASSUME NEW d \in AdminCalls \ overlapped', admin'[d].timer,
                            NEW o \in AdminCalls \ {d}
                     PROVE  ~Open(admin'[o])
            BY DEF Alone
        <3>1. CASE d = c
            <4>1. others = {}
                BY <2>1, <3>1
            <4> QED
                BY <2>5, <3>1, <4>1
        <3>2. CASE d # c
            <4>1. Open(admin[d])
                BY <2>5, <3>2 DEF ConsoleInv, CallShape, Open
            <4> QED
                BY <2>1, <4>1
        <3> QED
            BY <3>1, <3>2
    <2>7. CallShape'
        BY <2>3, <2>4, <2>5 DEF ConsoleInv, CallShape
    <2>8. SoleCallSubscribed'
        BY <2>1 DEF SoleCallSubscribed
    <2> QED
        BY <2>6, <2>7, <2>8 DEF ConsoleInv
<1>3. ASSUME NEW c \in AdminCalls, Subscribed(c) PROVE ConsoleInv'
    <2> DEFINE a == [admin[c] EXCEPT !.phase = "ready", !.listener = TRUE]
    <2>1. admin' = [admin EXCEPT ![c] = a] /\ UNCHANGED <<overlapped, responseSub>>
        BY <1>3 DEF Subscribed
    <2>2. admin[c].phase = "subscribing" /\ admin[c].outcome \in {"none", "timeout"}
        BY <1>3 DEF Subscribed, ConsoleInv, CallShape
    <2>3. /\ a.phase = "ready" /\ a.outcome = admin[c].outcome /\ a.listener
          /\ a.timer = admin[c].timer
        BY <1>a DEF AdminCall
    <2> HIDE DEF a
    <2>4. Alone' /\ SoleCallSubscribed'
        BY <2>1, <2>2, <2>3, OneCallChanges DEF Open
    <2>5. CallShape'
        BY <2>1, <2>2, <2>3 DEF ConsoleInv, CallShape, MethodsTypeOK
    <2> QED
        BY <2>4, <2>5 DEF ConsoleInv
<1>4. ASSUME NEW c \in AdminCalls, SubscribeFails(c) \/ PublishFails(c) PROVE ConsoleInv'
    <2> DEFINE a == [Ended(admin[c], "failed") EXCEPT !.phase = "ready", !.timer = FALSE]
    <2>1. admin' = [admin EXCEPT ![c] = a] /\ UNCHANGED overlapped
        BY <1>4 DEF SubscribeFails, PublishFails
    <2>2. /\ admin[c].phase = "subscribing" /\ admin[c].outcome \in {"none", "timeout"}
          /\ ~admin[c].listener
        BY <1>4 DEF SubscribeFails, PublishFails, ConsoleInv, CallShape
    <2>3. /\ a.phase = "ready" /\ a.outcome \in {"failed", "timeout"} /\ ~a.timer /\ ~a.listener
        BY <1>a, <2>2 DEF AdminCall, Ended
    <2> HIDE DEF a
    <2>4. Open(admin[c]) /\ ~Open(a)
        BY <2>2, <2>3 DEF Open
    <2>5. Alone' /\ SoleCallSubscribed'
        BY <2>1, <2>3, <2>4, OneCallChanges
    <2>6. CallShape'
        BY <2>1, <2>3 DEF ConsoleInv, CallShape, MethodsTypeOK
    <2> QED
        BY <2>5, <2>6 DEF ConsoleInv
<1>5. ASSUME NEW c \in AdminCalls, AdminTimeout(c) PROVE ConsoleInv'
    <2> DEFINE a == [Ended(admin[c], "timeout") EXCEPT !.timer = FALSE]
    <2>1. admin' = [admin EXCEPT ![c] = a] /\ UNCHANGED overlapped
        BY <1>5 DEF AdminTimeout
    <2>2. /\ admin[c].timer /\ admin[c].phase # "idle" /\ admin[c].outcome = "none"
          /\ admin[c].phase = "subscribing" => ~admin[c].listener
        BY <1>5 DEF AdminTimeout, ConsoleInv, CallShape
    <2>3. /\ a.phase = admin[c].phase /\ a.outcome = "timeout" /\ ~a.timer
          /\ a.listener = admin[c].listener
        BY <1>a, <2>2 DEF AdminCall, Ended
    <2> HIDE DEF a
    <2>4. Open(admin[c])
        BY <2>2 DEF Open
    <2>5. Alone' /\ SoleCallSubscribed'
        BY <2>1, <2>3, <2>4, OneCallChanges
    <2>6. CallShape'
        BY <2>1, <2>2, <2>3 DEF ConsoleInv, CallShape, MethodsTypeOK
    <2> QED
        BY <2>5, <2>6 DEF ConsoleInv
<1>6. ASSUME NEW c \in AdminCalls, AdminReceives(c) PROVE ConsoleInv'
    <2> DEFINE a == [Ended(admin[c], "answered") EXCEPT !.timer = FALSE, !.listener = FALSE]
    <2>1. CASE ~admin[c].listener
        <3>1. \A l \in AdminCalls : ~(admin[l].listener /\ Takes(l, c))
            BY <2>1 DEF Takes
        <3>2. admin' = [l \in AdminCalls |-> admin[l]] /\ UNCHANGED <<overlapped, responseSub>>
            BY <1>6, <3>1 DEF AdminReceives
        <3>3. admin' = admin
            BY <3>2 DEF MethodsTypeOK
        <3> QED
            BY <3>2, <3>3 DEF ConsoleInv, CallShape, Alone, SoleCallSubscribed
    <2>2. CASE admin[c].listener
        <3>1. {l \in AdminCalls : admin[l].listener /\ Takes(l, c)} = {c}
            BY <2>2 DEF Takes
        <3>2. /\ admin' = [l \in AdminCalls |-> IF l \in {c}
                               THEN [Ended(admin[l], "answered") EXCEPT !.timer = FALSE, !.listener = FALSE]
                               ELSE admin[l]]
              /\ UNCHANGED overlapped
            BY <1>6, <3>1 DEF AdminReceives
        <3>3. admin' = [admin EXCEPT ![c] = a]
            BY <3>2 DEF MethodsTypeOK
        <3>4. admin[c].phase \notin {"idle", "subscribing"} /\ admin[c].outcome \in {"none", "timeout"}
            BY <2>2 DEF ConsoleInv, CallShape
        <3>5. /\ a.phase = admin[c].phase /\ a.outcome \in {"answered", "timeout"}
              /\ ~a.timer /\ ~a.listener
            BY <1>a, <3>4 DEF AdminCall, Ended
        <3> HIDE DEF a
        <3>6. Open(admin[c]) /\ ~Open(a)
            BY <2>2, <3>4, <3>5 DEF Open
        <3>7. Alone' /\ SoleCallSubscribed'
            BY <3>2, <3>3, <3>5, <3>6, OneCallChanges
        <3>8. CallShape'
            BY <3>3, <3>4, <3>5 DEF ConsoleInv, CallShape, MethodsTypeOK
        <3> QED
            BY <3>7, <3>8 DEF ConsoleInv
    <2> QED
        BY <2>1, <2>2
<1>7. CASE AdminLinkDrops \/ AdminLinkBack
    BY <1>7 DEF AdminLinkDrops, AdminLinkBack, ConsoleInv, CallShape, Alone, SoleCallSubscribed
<1> QED
    BY <1>1, <1>2, <1>3, <1>4, <1>5, <1>6, <1>7 DEF ConsoleNext

\* Nothing but the console touches its calls.
LEMMA OthersLeaveConsole ==
    ServiceNext \/ MessagesNext \/ DeviceNext => UNCHANGED <<admin, responseSub, overlapped>>
<1>1. ASSUME NEW x, ClientNext(x) PROVE UNCHANGED <<admin, responseSub, overlapped>>
    BY <1>1 DEF ClientNext, ClientAsks, ClientHears, ClientTimeout, adminVars
<1>2. ServiceNext => UNCHANGED <<admin, responseSub, overlapped>>
    BY <1>1 DEF ServiceNext, HandleMethodCall, PostMethod, Forwards, RefuseMethodCall, BatchMethod,
                CallTimeout, AppReceives, SocketCloses, AppLinkDrops, AppLinkBack, adminVars
<1>3. MessagesNext => UNCHANGED <<admin, responseSub, overlapped>>
    BY <1>1 DEF MessagesNext, HandleSendMessage, RefuseMessage, HandleDevicebound, adminVars
<1>4. DeviceNext => UNCHANGED <<admin, responseSub, overlapped>>
    BY DEF DeviceNext, DeviceConnects, DeviceDrops, HandleDirectMethod, RespondToDirectMethod,
           adminVars
<1> QED
    BY <1>2, <1>3, <1>4

-----------------------------------------------------------------------------
(* The answers *)

\* Answers are kept; what is on its way was sent; a call ends as answered by one.
LEMMA AnswersKeep ==
    ASSUME MethodsTypeOK, AnswerInv,
           \A c \in Calls : answers[c] > 0 => answers'[c] > 0,
           toAdmin' \subseteq AdminCalls, toApp' \subseteq AppCalls,
           \A c \in toAdmin' : c \in toAdmin \/ answers'[c] > 0,
           \A p \in toApp' : p \in toApp \/ answers'[p] > 0,
           \A c \in AdminCalls :
              admin'[c].outcome = "answered" => admin[c].outcome = "answered" \/ answers[c] > 0,
           \A p \in AppCalls :
              /\ call'[p].id = call[p].id
              /\ call'[p].outcome = "answered"
                    => \/ call[p].outcome = "answered" \/ answers[p] > 0
                       \/ \E q \in AppCalls \ {p} : call[q].id = call[p].id
    PROVE  AnswerInv'
<1>1. AdminCalls \subseteq Calls /\ AppCalls \subseteq Calls
    BY DEF Calls
<1>2. Sent'
    BY <1>1 DEF AnswerInv, Sent
<1>3. ASSUME NEW c \in AdminCalls, admin'[c].outcome = "answered" PROVE answers'[c] > 0
    BY <1>1, <1>3 DEF AnswerInv, OwnAnswer
<1>4. ASSUME NEW p \in AppCalls, call'[p].outcome = "answered"
      PROVE  answers'[p] > 0 \/ \E q \in AppCalls \ {p} : call'[q].id = call'[p].id
    <2>1. answers[p] > 0 \/ \E q \in AppCalls \ {p} : call[q].id = call[p].id
        BY <1>4 DEF AnswerInv, OwnAnswer
    <2> QED
        BY <1>1, <2>1
<1>5. OwnAnswer'
    BY <1>3, <1>4 DEF OwnAnswer
<1> QED
    BY <1>2, <1>5 DEF AnswerInv

\* A step that touches none of it.
LEMMA AnswersUntouched ==
    ASSUME MethodsTypeOK, AnswerInv, UNCHANGED <<answers, admin, call>>,
           toAdmin' \subseteq toAdmin, toApp' \subseteq toApp
    PROVE  AnswerInv'
BY AnswersKeep DEF MethodsTypeOK

\* The console takes no answer but to its own request.
LEMMA AnswerConsoleStep == MethodsTypeOK /\ AnswerInv /\ ConsoleNext => AnswerInv'
<1> SUFFICES ASSUME MethodsTypeOK, AnswerInv, ConsoleNext PROVE AnswerInv'
    OBVIOUS
<1>a. \A c \in AdminCalls : admin[c] \in AdminCall
    BY DEF MethodsTypeOK
<1>1. ASSUME UNCHANGED <<answers, call, toApp>>, toAdmin' \subseteq toAdmin,
             \A c \in AdminCalls :
                admin'[c].outcome = "answered" => admin[c].outcome = "answered" \/ answers[c] > 0
      PROVE  AnswerInv'
    BY <1>1, AnswersKeep DEF MethodsTypeOK
<1>2. ASSUME NEW c \in AdminCalls,
             SendOffline(c) \/ SendDirectMethod(c) \/ Subscribed(c)
      PROVE  AnswerInv'
    <2>1. UNCHANGED <<answers, call, toApp, toAdmin>>
        BY <1>2 DEF SendOffline, SendDirectMethod, Subscribed, appVars, deviceVars
    <2>2. ASSUME NEW d \in AdminCalls, admin'[d].outcome = "answered"
          PROVE  admin[d].outcome = "answered"
        <3>1. d # c => admin'[d] = admin[d]
            BY <1>2 DEF SendOffline, SendDirectMethod, Subscribed, MethodsTypeOK
        <3>2. CASE SendOffline(c)
            <4>1. admin' = [admin EXCEPT ![c] = [admin[c] EXCEPT !.phase = "ready", !.outcome = "failed"]]
                BY <3>2 DEF SendOffline
            <4>2. admin'[c].outcome = "failed"
                BY <1>a, <4>1 DEF MethodsTypeOK, AdminCall
            <4> QED
                BY <2>2, <3>1, <4>2
        <3>3. CASE SendDirectMethod(c)
            <4>1. admin' = [admin EXCEPT ![c] =
                               [admin[c] EXCEPT !.phase = "subscribing", !.timer = TRUE]]
                BY <3>3 DEF SendDirectMethod
            <4>2. admin'[c].outcome = admin[c].outcome
                BY <1>a, <4>1 DEF MethodsTypeOK, AdminCall
            <4> QED
                BY <2>2, <3>1, <4>2
        <3>4. CASE Subscribed(c)
            <4>1. admin' = [admin EXCEPT ![c] = [admin[c] EXCEPT !.phase = "ready", !.listener = TRUE]]
                BY <3>4 DEF Subscribed
            <4>2. admin'[c].outcome = admin[c].outcome
                BY <1>a, <4>1 DEF MethodsTypeOK, AdminCall
            <4> QED
                BY <2>2, <3>1, <4>2
        <3> QED
            BY <1>2, <3>2, <3>3, <3>4
    <2> QED
        BY <1>1, <2>1, <2>2
<1>3. ASSUME NEW c \in AdminCalls,
             SubscribeFails(c) \/ PublishFails(c) \/ AdminTimeout(c)
      PROVE  AnswerInv'
    <2>1. UNCHANGED <<answers, call, toApp, toAdmin>>
        BY <1>3 DEF SubscribeFails, PublishFails, AdminTimeout, appVars, deviceVars
    <2>2. ASSUME NEW d \in AdminCalls, admin'[d].outcome = "answered"
          PROVE  admin[d].outcome = "answered"
        <3>1. d # c => admin'[d] = admin[d]
            BY <1>3 DEF SubscribeFails, PublishFails, AdminTimeout, MethodsTypeOK
        <3>2. PICK o \in {"failed", "timeout"} :
                 \/ admin' = [admin EXCEPT ![c] =
                                 [Ended(admin[c], o) EXCEPT !.phase = "ready", !.timer = FALSE]]
                 \/ admin' = [admin EXCEPT ![c] = [Ended(admin[c], o) EXCEPT !.timer = FALSE]]
            BY <1>3 DEF SubscribeFails, PublishFails, AdminTimeout
        <3>3. Ended(admin[c], o) \in AdminCall
              /\ Ended(admin[c], o).outcome \in {admin[c].outcome, o}
            BY <1>a DEF Ended, AdminCall
        <3>4. admin'[c].outcome = Ended(admin[c], o).outcome
            <4> DEFINE e == Ended(admin[c], o)
            <4>1. /\ [e EXCEPT !.phase = "ready", !.timer = FALSE].outcome = e.outcome
                  /\ [e EXCEPT !.timer = FALSE].outcome = e.outcome
                BY <3>3 DEF AdminCall
            <4> HIDE DEF e
            <4>2. \/ admin' = [admin EXCEPT ![c] = [e EXCEPT !.phase = "ready", !.timer = FALSE]]
                  \/ admin' = [admin EXCEPT ![c] = [e EXCEPT !.timer = FALSE]]
                BY <3>2 DEF e
            <4>3. admin'[c].outcome = e.outcome
                BY <4>1, <4>2 DEF MethodsTypeOK
            <4> QED
                BY <4>3 DEF e
        <3> QED
            BY <2>2, <3>1, <3>3, <3>4
    <2> QED
        BY <1>1, <2>1, <2>2
<1>4. ASSUME NEW c \in AdminCalls, AdminReceives(c) PROVE AnswerInv'
    <2>1. UNCHANGED <<answers, call, toApp>> /\ toAdmin' \subseteq toAdmin
        BY <1>4 DEF AdminReceives, appVars, deviceVars
    <2>2. answers[c] > 0
        BY <1>4 DEF AdminReceives, AnswerInv, Sent
    <2>3. ASSUME NEW d \in AdminCalls, admin'[d].outcome = "answered"
          PROVE  admin[d].outcome = "answered" \/ answers[d] > 0
        <3>1. CASE d = c
            BY <2>2, <3>1
        <3>2. CASE d # c
            BY <1>4, <2>3, <3>2 DEF AdminReceives, Takes
        <3> QED
            BY <3>1, <3>2
    <2> QED
        BY <1>1, <2>1, <2>3
<1>5. CASE AdminLinkDrops \/ AdminLinkBack
    BY <1>5, AnswersUntouched DEF AdminLinkDrops, AdminLinkBack, appVars, deviceVars
<1> QED
    BY <1>2, <1>3, <1>4, <1>5 DEF ConsoleNext

\* Client objects do not touch the answers.
LEMMA AnswerClientStep ==
    ASSUME MethodsTypeOK, AnswerInv, NEW x, ClientNext(x) PROVE AnswerInv'
BY AnswersUntouched DEF ClientNext, ClientAsks, ClientHears, ClientTimeout, adminVars, deviceVars

\* The service takes no answer but to the request id it waits for.
LEMMA AnswerServiceStep == MethodsTypeOK /\ AnswerInv /\ ServiceNext => AnswerInv'
<1> SUFFICES ASSUME MethodsTypeOK, AnswerInv, ServiceNext PROVE AnswerInv'
    OBVIOUS
<1>a. \A p \in AppCalls : call[p] \in AppCall
    BY DEF MethodsTypeOK
<1>1. ASSUME UNCHANGED <<answers, admin, toAdmin>>, toApp' \subseteq toApp,
             \A p \in AppCalls :
                /\ call'[p].id = call[p].id
                /\ call'[p].outcome = "answered"
                      => \/ call[p].outcome = "answered" \/ answers[p] > 0
                         \/ \E q \in AppCalls \ {p} : call[q].id = call[p].id
      PROVE  AnswerInv'
    BY <1>1, AnswersKeep DEF MethodsTypeOK
<1>2. ASSUME NEW p \in AppCalls, ClientNext(p) PROVE AnswerInv'
    BY <1>2, AnswerClientStep
<1>3. ASSUME NEW p \in AppCalls,
             \/ HandleMethodCall(p) \/ PostMethod(p) \/ RefuseMethodCall(p)
             \/ BatchMethod(p) \/ CallTimeout(p)
      PROVE  AnswerInv'
    <2>1. UNCHANGED <<answers, admin, toAdmin, toApp>>
        BY <1>3 DEF HandleMethodCall, PostMethod, Forwards, RefuseMethodCall, BatchMethod,
                    CallTimeout, adminVars, deviceVars
    <2>2. \A q \in AppCalls :
             call'[q].id = call[q].id /\ (call'[q].outcome = "answered" => call[q].outcome = "answered")
        <3>1. PICK t \in BOOLEAN, o \in {"waiting", "failed", "submitted", "timeout"} :
                 call' = [call EXCEPT ![p] = [call[p] EXCEPT !.timer = t, !.outcome = o]]
            <4>1. CASE HandleMethodCall(p) \/ PostMethod(p)
                BY <4>1 DEF HandleMethodCall, PostMethod, Forwards
            <4>2. CASE RefuseMethodCall(p)
                <5>1. call' = [call EXCEPT ![p] =
                                  [call[p] EXCEPT !.timer = call[p].timer, !.outcome = "failed"]]
                    BY <1>a, <4>2 DEF RefuseMethodCall, AppCall
                <5> QED
                    BY <1>a, <5>1 DEF AppCall
            <4>3. CASE BatchMethod(p)
                <5>1. call' = [call EXCEPT ![p] =
                                  [call[p] EXCEPT !.timer = call[p].timer, !.outcome = "submitted"]]
                    BY <1>a, <4>3 DEF BatchMethod, AppCall
                <5> QED
                    BY <1>a, <5>1 DEF AppCall
            <4>4. CASE CallTimeout(p)
                BY <4>4 DEF CallTimeout
            <4> QED
                BY <1>3, <4>1, <4>2, <4>3, <4>4
        <3>2. /\ call'[p].id = call[p].id /\ call'[p].outcome = o
              /\ \A q \in AppCalls \ {p} : call'[q] = call[q]
            BY <1>a, <3>1 DEF MethodsTypeOK, AppCall
        <3> QED
            BY <3>2
    <2> QED
        BY <1>1, <2>1, <2>2
<1>4. ASSUME NEW p \in AppCalls, AppReceives(p) PROVE AnswerInv'
    <2>1. UNCHANGED <<answers, admin, toAdmin>> /\ toApp' \subseteq toApp
        BY <1>4 DEF AppReceives, adminVars, deviceVars
    <2>2. answers[p] > 0
        BY <1>4 DEF AppReceives, AnswerInv, Sent
    <2>3. \A q \in AppCalls :
             call'[q] = IF Listening(q, call[p].id)
                        THEN [call[q] EXCEPT !.timer = FALSE, !.outcome = "answered"] ELSE call[q]
        BY <1>4 DEF AppReceives
    <2>4. ASSUME NEW q \in AppCalls
          PROVE  /\ call'[q].id = call[q].id
                 /\ call'[q].outcome = "answered"
                       => \/ call[q].outcome = "answered" \/ answers[q] > 0
                          \/ \E r \in AppCalls \ {q} : call[r].id = call[q].id
        <3>1. call'[q].id = call[q].id
            BY <1>a, <2>3 DEF AppCall
        <3>2. CASE Listening(q, call[p].id) /\ q # p
            BY <3>1, <3>2 DEF Listening
        <3>3. CASE ~Listening(q, call[p].id) \/ q = p
            BY <2>2, <2>3, <3>1, <3>3
        <3> QED
            BY <3>1, <3>2, <3>3
    <2> QED
        BY <1>1, <2>1, <2>4
<1>5. CASE SocketCloses \/ AppLinkDrops \/ AppLinkBack
    BY <1>5, AnswersUntouched DEF SocketCloses, AppLinkDrops, AppLinkBack, adminVars, deviceVars
<1> QED
    BY <1>2, <1>3, <1>4, <1>5 DEF ServiceNext

\* Messages do not touch the answers.
LEMMA AnswerMessagesStep == MethodsTypeOK /\ AnswerInv /\ MessagesNext => AnswerInv'
<1> SUFFICES ASSUME MethodsTypeOK, AnswerInv, NEW m \in Messages,
                    ClientNext(m) \/ HandleSendMessage(m) \/ RefuseMessage(m) \/ HandleDevicebound(m)
             PROVE  AnswerInv'
    BY DEF MessagesNext
<1>1. CASE ClientNext(m)
    BY <1>1, AnswerClientStep
<1>2. CASE HandleSendMessage(m) \/ RefuseMessage(m) \/ HandleDevicebound(m)
    BY <1>2, AnswersUntouched
       DEF HandleSendMessage, RefuseMessage, HandleDevicebound, adminVars, appVars, deviceVars
<1> QED
    BY <1>1, <1>2

\* The device answers what it was asked.
LEMMA AnswerDeviceStep == MethodsTypeOK /\ AnswerInv /\ DeviceNext => AnswerInv'
<1> SUFFICES ASSUME MethodsTypeOK, AnswerInv, DeviceNext PROVE AnswerInv'
    OBVIOUS
<1>1. CASE \/ DeviceConnects \/ DeviceDrops
           \/ \E c \in Calls : HandleDirectMethod(c)
    BY <1>1, AnswersUntouched
       DEF DeviceConnects, DeviceDrops, HandleDirectMethod, adminVars, appVars
<1>2. ASSUME NEW c \in Calls, RespondToDirectMethod(c) PROVE AnswerInv'
    <2>1. answers' = [answers EXCEPT ![c] = @ + 1] /\ UNCHANGED <<admin, call>>
        BY <1>2 DEF RespondToDirectMethod
    <2>2. answers \in [Calls -> Nat]
        BY DEF MethodsTypeOK
    <2>3. answers'[c] > 0 /\ \A d \in Calls : answers[d] > 0 => answers'[d] > 0
        BY <2>1, <2>2
    <2>4. /\ toAdmin' \subseteq toAdmin \cup {c} /\ toAdmin' \subseteq AdminCalls
          /\ toApp' \subseteq toApp \cup {c} /\ toApp' \subseteq AppCalls
        BY <1>2 DEF RespondToDirectMethod, Route, MethodsTypeOK
    <2> QED
        BY <2>1, <2>3, <2>4, AnswersKeep
<1> QED
    BY <1>1, <1>2 DEF DeviceNext

-----------------------------------------------------------------------------
\* Every step keeps the invariant.
LEMMA MethodsInductive == MethodsInv /\ [MethodsNext]_methodVars => MethodsInv'
<1> SUFFICES ASSUME MethodsInv, [MethodsNext]_methodVars PROVE MethodsInv'
    OBVIOUS
<1>1. MethodsTypeOK'
    BY MethodsTypeStep DEF MethodsInv
<1>2. ConsoleInv'
    <2>1. CASE ConsoleNext
        BY <2>1, ConsoleStep DEF MethodsInv
    <2>2. CASE ServiceNext \/ MessagesNext \/ DeviceNext \/ UNCHANGED methodVars
        <3>1. UNCHANGED <<admin, responseSub, overlapped>>
            BY <2>2, OthersLeaveConsole DEF methodVars, adminVars
        <3> QED
            BY <3>1 DEF MethodsInv, ConsoleInv, CallShape, Alone, SoleCallSubscribed
    <2> QED
        BY <2>1, <2>2 DEF MethodsNext
<1>3. AnswerInv'
    <2>1. CASE UNCHANGED methodVars
        BY <2>1, AnswersUntouched DEF MethodsInv, methodVars, adminVars, appVars, deviceVars
    <2> QED
        BY <2>1, AnswerConsoleStep, AnswerServiceStep, AnswerMessagesStep, AnswerDeviceStep
           DEF MethodsInv, MethodsNext
<1> QED
    BY <1>1, <1>2, <1>3 DEF MethodsInv

\* The invariant holds in every state.
LEMMA MethodsInvariance == MethodsSpec => []MethodsInv
<1> QED
    BY MethodsInitInv, MethodsInductive, PTL DEF MethodsSpec

\* Every variable of DirectMethods keeps its type.
THEOREM MethodsTypeCorrect == MethodsSpec => []MethodsTypeOK
<1>1. MethodsInv => MethodsTypeOK
    BY DEF MethodsInv
<1> QED
    BY MethodsInvariance, <1>1, PTL

\* For any number of calls, whatever is lost, late or repeated, a call ends as answered only
\* by an answer to its own request, if no other uses its id (sendDirectMethod of
\* src/index.ts, handleMethodCall of services/application).
THEOREM OwnAnswerTheorem == MethodsSpec => []OwnAnswer
<1>1. MethodsInv => OwnAnswer
    BY DEF MethodsInv, AnswerInv
<1> QED
    BY MethodsInvariance, <1>1, PTL

\* A console call whose topic no other call shares stays subscribed until it ends
\* (sendDirectMethod of src/index.ts).
THEOREM SoleCallTheorem == MethodsSpec => []SoleCallSubscribed
<1>1. MethodsInv => SoleCallSubscribed
    BY DEF MethodsInv, ConsoleInv
<1> QED
    BY MethodsInvariance, <1>1, PTL

-----------------------------------------------------------------------------
(* The outcome of an application's call *)

Undecided(p) == call[p].outcome \in {"none", "waiting"}

\* The service's timer runs exactly while the call waits, and a request is handled once.
CallOnce(p) ==
    /\ call[p].timer <=> call[p].outcome = "waiting"
    /\ p \in asked => call[p].outcome = "none"
    /\ promise[p] = "none" => call[p].outcome = "none" /\ p \notin asked

OnceInv == MethodsTypeOK /\ \A p \in AppCalls : CallOnce(p)

KeepsOutcome(p) ==
    ~Undecided(p) => call'[p].outcome = call[p].outcome /\ reply'[p] \in {reply[p], "none"}

\* A step that neither touches the call nor replies to it.
LEMMA CallUntouched ==
    ASSUME OnceInv, NEW p \in AppCalls, call'[p] = call[p], reply'[p] \in {reply[p], "none"},
           promise'[p] = "none" => promise[p] = "none", p \in asked' => p \in asked
    PROVE  CallOnce(p)' /\ KeepsOutcome(p)
BY DEF OnceInv, CallOnce, KeepsOutcome

\* What a client object does for another request, or hears and gives up of this one.
LEMMA ClientLeavesCall ==
    ASSUME OnceInv, NEW p \in AppCalls, NEW x, ClientNext(x)
    PROVE  CallOnce(p)' /\ KeepsOutcome(p)
<1>1. /\ reply \in [Asks -> {"none", "ok", "error"}]
      /\ promise \in [Asks -> {"none", "pending", "resolved", "rejected"}]
      /\ p \in Asks /\ call' = call
    BY DEF OnceInv, MethodsTypeOK, Asks, ClientNext, ClientAsks, ClientHears, ClientTimeout
<1>2. CASE ClientAsks(x)
    <2>1. CASE x = p
        <3>1. call[p].outcome = "none" /\ promise'[p] = "pending"
            BY <1>1, <1>2, <2>1 DEF ClientAsks, OnceInv, CallOnce
        <3> QED
            BY <1>1, <3>1 DEF OnceInv, CallOnce, KeepsOutcome, Undecided
    <2>2. CASE x # p
        <3>1. promise'[p] = promise[p] /\ reply'[p] = reply[p] /\ (p \in asked' => p \in asked)
            BY <1>1, <1>2, <2>2 DEF ClientAsks
        <3> QED
            BY <1>1, <3>1, CallUntouched
    <2> QED
        BY <2>1, <2>2
<1>3. CASE ClientHears(x) \/ ClientTimeout(x)
    <2>1. asked' = asked /\ reply'[p] \in {reply[p], "none"}
        BY <1>1, <1>3 DEF ClientHears, ClientTimeout
    <2>2. promise'[p] = "none" => promise[p] = "none"
        BY <1>1, <1>3 DEF ClientHears, ClientTimeout
    <2> QED
        BY <1>1, <2>1, <2>2, CallUntouched
<1> QED
    BY <1>2, <1>3 DEF ClientNext

\* The service takes up a request once, and ends it only while it waits.
LEMMA ServiceDecides ==
    ASSUME OnceInv, NEW p \in AppCalls, NEW q \in AppCalls,
           \/ HandleMethodCall(q) \/ PostMethod(q) \/ RefuseMethodCall(q)
           \/ BatchMethod(q) \/ CallTimeout(q)
    PROVE  CallOnce(p)' /\ KeepsOutcome(p)
<1>1. /\ call \in [AppCalls -> AppCall] /\ reply \in [Asks -> {"none", "ok", "error"}]
      /\ p \in Asks /\ q \in Asks /\ promise' = promise
    BY DEF OnceInv, MethodsTypeOK, Asks, HandleMethodCall, PostMethod, Forwards,
           RefuseMethodCall, BatchMethod, CallTimeout
<1>2. CASE p # q
    <2>1. call'[p] = call[p] /\ reply'[p] = reply[p] /\ (p \in asked' => p \in asked)
        BY <1>1, <1>2 DEF HandleMethodCall, PostMethod, Forwards, RefuseMethodCall, BatchMethod,
                          CallTimeout, Reply
    <2> QED
        BY <1>1, <2>1, CallUntouched
<1>3. CASE p = q
    <2>a. call[q] \in AppCall
        BY <1>1
    <2>1. Undecided(p)
        BY <1>3 DEF OnceInv, CallOnce, Undecided, HandleMethodCall, PostMethod, Forwards,
                    RefuseMethodCall, BatchMethod, CallTimeout
    <2>2. promise[p] # "none" /\ p \notin asked'
        BY <1>3 DEF OnceInv, CallOnce, HandleMethodCall, PostMethod, Forwards, RefuseMethodCall,
                    BatchMethod, CallTimeout
    <2>3. call'[p].timer <=> call'[p].outcome = "waiting"
        <3>1. CASE HandleMethodCall(q) \/ PostMethod(q)
            <4>1. call' = [call EXCEPT ![q] = [call[q] EXCEPT !.timer = TRUE, !.outcome = "waiting"]]
                BY <3>1 DEF HandleMethodCall, PostMethod, Forwards
            <4>2. call'[q].timer = TRUE /\ call'[q].outcome = "waiting"
                BY <1>1, <2>a, <4>1 DEF AppCall
            <4> QED
                BY <1>3, <4>2
        <3>2. CASE RefuseMethodCall(q) \/ BatchMethod(q)
            <4>1. ~call[q].timer
                BY <3>2 DEF OnceInv, CallOnce, RefuseMethodCall, BatchMethod
            <4>2. PICK o \in {"failed", "submitted"} : call' = [call EXCEPT ![q].outcome = o]
                BY <3>2 DEF RefuseMethodCall, BatchMethod
            <4>3. call'[q].timer = call[q].timer /\ call'[q].outcome = o
                BY <1>1, <2>a, <4>2 DEF AppCall
            <4> QED
                BY <1>3, <4>1, <4>3
        <3>3. CASE CallTimeout(q)
            <4>1. call' = [call EXCEPT ![q] = [call[q] EXCEPT !.timer = FALSE, !.outcome = "timeout"]]
                BY <3>3 DEF CallTimeout
            <4>2. call'[q].timer = FALSE /\ call'[q].outcome = "timeout"
                BY <1>1, <2>a, <4>1 DEF AppCall
            <4> QED
                BY <1>3, <4>2
        <3> QED
            BY <3>1, <3>2, <3>3
    <2> QED
        BY <1>1, <2>1, <2>2, <2>3 DEF CallOnce, KeepsOutcome
<1> QED
    BY <1>2, <1>3

\* Whatever answer comes, it ends calls that wait.
LEMMA AnswerDecides ==
    ASSUME OnceInv, NEW p \in AppCalls, NEW q \in AppCalls, AppReceives(q)
    PROVE  CallOnce(p)' /\ KeepsOutcome(p)
<1>1. /\ call[p] \in AppCall /\ p \in Asks /\ UNCHANGED <<asked, promise>>
    BY DEF OnceInv, MethodsTypeOK, Asks, AppReceives
<1>2. CASE Listening(p, call[q].id)
    <2>1. call'[p] = [call[p] EXCEPT !.timer = FALSE, !.outcome = "answered"]
        BY <1>2 DEF AppReceives
    <2>2. call'[p].timer = FALSE /\ call'[p].outcome = "answered"
        BY <1>1, <2>1 DEF AppCall
    <2>3. Undecided(p) /\ p \notin asked /\ promise[p] # "none"
        BY <1>2 DEF Listening, Undecided, OnceInv, CallOnce
    <2> QED
        BY <1>1, <2>2, <2>3 DEF CallOnce, KeepsOutcome
<1>3. CASE ~Listening(p, call[q].id)
    <2>1. call'[p] = call[p] /\ reply'[p] = reply[p]
        BY <1>1, <1>3 DEF AppReceives
    <2> QED
        BY <1>1, <2>1, CallUntouched
<1> QED
    BY <1>2, <1>3

\* Every step of the system keeps the invariant, and the outcome of a decided call.
LEMMA OnceStep ==
    ASSUME OnceInv, [MethodsNext]_methodVars, NEW p \in AppCalls
    PROVE  CallOnce(p)' /\ KeepsOutcome(p)
<1>0. /\ p \in Asks /\ reply \in [Asks -> {"none", "ok", "error"}] /\ p \notin Messages
    BY CallsAssumption DEF OnceInv, MethodsTypeOK, Asks
<1>1. ASSUME UNCHANGED <<call, promise, reply, asked>> PROVE CallOnce(p)' /\ KeepsOutcome(p)
    BY <1>1, CallUntouched
<1>2. CASE UNCHANGED methodVars
    BY <1>1, <1>2 DEF methodVars, appVars
<1>3. CASE ConsoleNext
    BY <1>1, <1>3
       DEF ConsoleNext, SendOffline, SendDirectMethod, Subscribed, SubscribeFails, PublishFails,
           AdminTimeout, AdminReceives, AdminLinkDrops, AdminLinkBack, appVars
<1>4. CASE ServiceNext
    <2>1. ASSUME NEW q \in AppCalls, ClientNext(q) PROVE CallOnce(p)' /\ KeepsOutcome(p)
        BY <2>1, ClientLeavesCall
    <2>2. CASE SocketCloses
        <3>1. /\ UNCHANGED <<call, promise>> /\ asked' = {}
              /\ reply'[p] = "none"
            BY <1>0, <2>2 DEF SocketCloses
        <3> QED
            BY <3>1, CallUntouched
    <2>3. CASE AppLinkDrops \/ AppLinkBack
        BY <1>1, <2>3 DEF AppLinkDrops, AppLinkBack
    <2> QED
        BY <1>4, <2>1, <2>2, <2>3, ServiceDecides, AnswerDecides DEF ServiceNext
<1>5. ASSUME NEW m \in Messages,
             ClientNext(m) \/ HandleSendMessage(m) \/ RefuseMessage(m) \/ HandleDevicebound(m)
      PROVE  CallOnce(p)' /\ KeepsOutcome(p)
    <2>1. CASE ClientNext(m)
        BY <2>1, ClientLeavesCall
    <2>2. CASE HandleSendMessage(m) \/ RefuseMessage(m)
        <3>1. UNCHANGED <<call, promise>> /\ (p \in asked' => p \in asked)
            BY <2>2 DEF HandleSendMessage, RefuseMessage
        <3>2. reply'[p] = reply[p]
            BY <1>0, <1>5, <2>2 DEF HandleSendMessage, RefuseMessage, Reply
        <3> QED
            BY <3>1, <3>2, CallUntouched
    <2>3. CASE HandleDevicebound(m)
        BY <1>1, <2>3 DEF HandleDevicebound, appVars
    <2> QED
        BY <1>5, <2>1, <2>2, <2>3
<1>6. CASE DeviceNext
    BY <1>1, <1>6 DEF DeviceNext, DeviceConnects, DeviceDrops, HandleDirectMethod,
                      RespondToDirectMethod, appVars
<1> QED
    BY <1>2, <1>3, <1>4, <1>5, <1>6 DEF MethodsNext, MessagesNext

\* For any number of calls and ids, the service decides a call once and replies to it once,
\* whatever its timer, its answers and those of calls with the same id race for
\* (handleMethodCall of services/application).
THEOREM DecidedOnceTheorem == MethodsSpec => DecidedOnce
<1>1. MethodsInit => \A p \in AppCalls : CallOnce(p)
    BY DEF MethodsInit, CallOnce, Asks
<1>2. MethodsTypeOK /\ (\A p \in AppCalls : CallOnce(p)) => OnceInv
    BY DEF OnceInv
<1>3. OnceInv => \A p \in AppCalls : CallOnce(p)
    BY DEF OnceInv
<1>4. OnceInv /\ [MethodsNext]_methodVars => (\A p \in AppCalls : CallOnce(p))'
    BY OnceStep
<1>5. OnceInv /\ [MethodsNext]_methodVars
        => [\A p \in AppCalls :
               call[p].outcome \notin {"none", "waiting"} =>
                   /\ call'[p].outcome = call[p].outcome
                   /\ reply'[p] \in {reply[p], "none"}]_methodVars
    BY OnceStep DEF KeepsOutcome, Undecided
<1> QED
    BY <1>1, <1>2, <1>3, <1>4, <1>5, MethodsTypeCorrect, PTL DEF MethodsSpec, DecidedOnce
=============================================================================
