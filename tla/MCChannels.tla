------------------------------ MODULE MCChannels ------------------------------
(***************************************************************************)
(* A small instance of the channels between devices, hub, applications and *)
(* pages.  Direct methods, presence, the twin, the Node-RED nodes, the     *)
(* session of a page and its terminal share no state, and the two kinds of *)
(* method calls and the messages share only the device's connection: the   *)
(* run explores each on its own.                                           *)
(***************************************************************************)
EXTENDS DirectMethods, DevicePresence, DeviceTwin, NodeRed, PageSession, WebTerminal

CONSTANTS i1, p1, d1, d2, x1, x2, x3

VARIABLE focus

pageVars == <<sessionVars, terminalVars>>
deviceSideVars == <<presenceVars, twinVars>>
channelVars == <<methodVars, deviceSideVars, nodeRedVars, pageVars, focus>>

DevicesOf == x1 :> d1 @@ x2 :> d1 @@ x3 :> d2

MethodFoci == {"console", "service", "messages"}

ChannelsInit ==
    /\ focus \in MethodFoci \cup {"presence", "twin", "nodered", "page", "terminal"}
    /\ MethodsInit
    /\ \A p \in AppCalls : call[p].id = i1 \/ (focus = "service" /\ p # p1)
    /\ PresenceInit /\ TwinInit /\ NodeRedInit /\ SessionInit /\ TerminalInit

\* Within a focus: the actions of its component.
MethodsStep ==
    \/ focus = "console" /\ ConsoleNext
    \/ focus = "service" /\ ServiceNext
    \/ focus = "messages" /\ MessagesNext
    \/ focus \in MethodFoci /\ DeviceNext

ChannelsNext ==
    /\ \/ MethodsStep /\ UNCHANGED <<deviceSideVars, nodeRedVars, pageVars>>
       \/ /\ focus = "presence" /\ PresenceNext
          /\ UNCHANGED <<methodVars, twinVars, nodeRedVars, pageVars>>
       \/ /\ focus = "twin" /\ TwinNext
          /\ UNCHANGED <<methodVars, presenceVars, nodeRedVars, pageVars>>
       \/ /\ focus = "nodered" /\ NodeRedNext
          /\ UNCHANGED <<methodVars, deviceSideVars, pageVars>>
       \/ /\ focus = "page" /\ SessionNext
          /\ UNCHANGED <<methodVars, deviceSideVars, nodeRedVars, terminalVars>>
       \/ /\ focus = "terminal" /\ TerminalNext
          /\ UNCHANGED <<methodVars, deviceSideVars, nodeRedVars, sessionVars>>
    /\ UNCHANGED focus

ChannelsSpec ==
    /\ ChannelsInit /\ [][ChannelsNext]_channelVars
    /\ MethodsFairness /\ PresenceFairness /\ NodeRedFairness
    /\ SessionFairness /\ TerminalFairness

ChannelsTypeOK ==
    /\ MethodsTypeOK /\ PresenceTypeOK /\ TwinTypeOK /\ NodeRedTypeOK
    /\ SessionTypeOK /\ TerminalTypeOK
=============================================================================
