----------------------------- MODULE WebTerminal -----------------------------
(***************************************************************************)
(* The browser terminal: the hub's terminal service, which runs a shell    *)
(* for each of its sockets (src/terminal.ts), and the dialog that opens    *)
(* one (ui/src/components/TerminalModal.tsx).                              *)
(*                                                                         *)
(* The native module behind the shell is imported while the socket is      *)
(* already open and before its listeners are there: what the socket says   *)
(* meanwhile is not heard.                                                 *)
(***************************************************************************)
EXTENDS Naturals

CONSTANTS
    Sockets,        \* the sockets the dialog may open, one at a time
    NoSocket

ASSUME TerminalAssumption == NoSocket \notin Sockets

VARIABLES
    enabled,        \* app_settings: web_terminal_enabled
    loggedIn,       \* the browser's cookie holds a session
    show,           \* the dialog is open
    mountTimer,     \* it is about to open its socket
    termSocket,             \* its socket
    shownError,     \* it says that the terminal could not be opened
    side,           \* per socket, the page's end
    server,         \* per socket, the hub's handler of it
    pty,            \* per socket, the shell
    unheard         \* history: sockets closed before the hub listened to them

terminalVars == <<enabled, loggedIn, show, mountTimer, termSocket, shownError, side, server, pty,
                  unheard>>

TerminalTypeOK ==
    /\ {enabled, loggedIn, show, mountTimer, shownError} \subseteq BOOLEAN
    /\ termSocket \in Sockets \cup {NoSocket}
    /\ side \in [Sockets -> {"none", "connecting", "open", "closed"}]
    /\ server \in [Sockets -> {"none", "importing", "serving", "closed"}]
    /\ pty \in [Sockets -> {"none", "running", "exited"}]
    /\ unheard \subseteq Sockets

TerminalInit ==
    /\ enabled = FALSE /\ loggedIn = TRUE
    /\ show = FALSE /\ mountTimer = FALSE /\ termSocket = NoSocket /\ shownError = FALSE
    /\ side = [s \in Sockets |-> "none"] /\ server = [s \in Sockets |-> "none"]
    /\ pty = [s \in Sockets |-> "none"]
    /\ unheard = {}

hubEnd == <<server, pty, unheard>>
dialogEnd == <<show, mountTimer, termSocket, shownError, side>>

-----------------------------------------------------------------------------
(* The dialog *)

ShowTerminal ==
    /\ ~show /\ show' = TRUE /\ mountTimer' = TRUE
    /\ UNCHANGED <<enabled, loggedIn, termSocket, shownError, side, hubEnd>>

\* After the dialog has settled.
MountTimer ==
    /\ mountTimer /\ mountTimer' = FALSE
    /\ \E s \in Sockets :
          /\ side[s] = "none"
          /\ termSocket' = s /\ side' = [side EXCEPT ![s] = "connecting"]
    /\ UNCHANGED <<enabled, loggedIn, show, shownError, hubEnd>>

\* onClose, and the effect's cleanup: the listeners are off, the socket is closed.
CloseDialogOf(s) ==
    /\ show' = FALSE /\ mountTimer' = FALSE /\ termSocket' = NoSocket /\ shownError' = FALSE
    /\ side' = [x \in Sockets |-> IF x = s THEN "closed" ELSE side[x]]

CloseTerminal ==
    /\ show
    /\ CloseDialogOf(termSocket)
    /\ UNCHANGED <<enabled, loggedIn, hubEnd>>

\* 'exit': the shell has ended.
HandleExit(s) ==
    /\ side[s] = "open" /\ pty[s] = "exited"
    /\ CloseDialogOf(s)
    /\ UNCHANGED <<enabled, loggedIn, hubEnd>>

\* onclose: an error if it never opened, else the dialog goes with it.
SocketClosed(s) ==
    /\ s = termSocket /\ server[s] = "closed"
    /\ \/ /\ side[s] = "connecting"
          /\ shownError' = TRUE /\ side' = [side EXCEPT ![s] = "closed"]
          /\ UNCHANGED <<show, mountTimer, termSocket>>
       \/ side[s] = "open" /\ CloseDialogOf(s)
    /\ UNCHANGED <<enabled, loggedIn, hubEnd>>

-----------------------------------------------------------------------------
(* The terminal service *)

\* handleUpgrade asks for the setting and for the session.
MayOpen == enabled /\ loggedIn

HandleUpgrade(s) ==
    /\ side[s] \in {"connecting", "closed"} /\ server[s] = "none" /\ s # NoSocket
    /\ server' = [server EXCEPT ![s] = IF MayOpen THEN "importing" ELSE "closed"]
    /\ UNCHANGED <<enabled, loggedIn, dialogEnd, pty, unheard>>

\* onopen at the page; the size it sends to the shell is left out.
TerminalOpens(s) ==
    /\ side[s] = "connecting" /\ server[s] \in {"importing", "serving"}
    /\ side' = [side EXCEPT ![s] = "open"]
    /\ UNCHANGED <<enabled, loggedIn, show, mountTimer, termSocket, shownError, hubEnd>>

\* The shell is spawned and the listeners are set, whatever became of the socket.
Imported(s) ==
    /\ server[s] = "importing"
    /\ server' = [server EXCEPT ![s] = "serving"]
    /\ pty' = [pty EXCEPT ![s] = "running"]
    /\ UNCHANGED <<enabled, loggedIn, dialogEnd, unheard>>

\* "node-pty unavailable": a word to the page, and the socket is closed.
ImportFails(s) ==
    /\ server[s] = "importing"
    /\ server' = [server EXCEPT ![s] = "closed"]
    /\ UNCHANGED <<enabled, loggedIn, dialogEnd, pty, unheard>>

\* Mutant: the listener does not kill the shell.
SocketGoneOnly(s) ==
    /\ side[s] = "closed" /\ s \notin unheard
    /\ \/ server[s] = "serving" /\ server' = [server EXCEPT ![s] = "closed"] /\ UNCHANGED unheard
       \/ server[s] = "importing" /\ unheard' = unheard \cup {s} /\ UNCHANGED server
    /\ UNCHANGED <<enabled, loggedIn, dialogEnd, pty>>

\* 'close' of the socket: the shell is killed by the listener, if there is one.
SocketGone(s) ==
    /\ side[s] = "closed" /\ s \notin unheard
    /\ \/ /\ server[s] = "serving"
          /\ server' = [server EXCEPT ![s] = "closed"]
          /\ pty' = [pty EXCEPT ![s] = "exited"]
          /\ UNCHANGED unheard
       \/ /\ server[s] = "importing"
          /\ unheard' = unheard \cup {s}
          /\ UNCHANGED <<server, pty>>
    /\ UNCHANGED <<enabled, loggedIn, dialogEnd>>

\* The user leaves the shell: onExit closes the socket.
ShellExits(s) ==
    /\ pty[s] = "running" /\ side[s] = "open"
    /\ pty' = [pty EXCEPT ![s] = "exited"] /\ server' = [server EXCEPT ![s] = "closed"]
    /\ UNCHANGED <<enabled, loggedIn, dialogEnd, unheard>>

-----------------------------------------------------------------------------
\* The command line switches the terminal on and off; the session ends or begins.
SetWebTerminalEnabled ==
    /\ enabled' = ~enabled
    /\ UNCHANGED <<loggedIn, dialogEnd, hubEnd>>

SessionChanges ==
    /\ loggedIn' = ~loggedIn
    /\ UNCHANGED <<enabled, dialogEnd, hubEnd>>

TerminalNext ==
    \/ ShowTerminal \/ MountTimer \/ CloseTerminal
    \/ SetWebTerminalEnabled \/ SessionChanges
    \/ \E s \in Sockets : \/ HandleExit(s) \/ SocketClosed(s)
                          \/ HandleUpgrade(s) \/ TerminalOpens(s)
                          \/ Imported(s) \/ ImportFails(s) \/ SocketGone(s) \/ ShellExits(s)

TerminalSpec == TerminalInit /\ [][TerminalNext]_terminalVars

\* The hub handles what reaches it and the import ends; the page hears of its socket.
TerminalFairness ==
    \A s \in Sockets :
        /\ WF_terminalVars(HandleUpgrade(s) \/ Imported(s) \/ ImportFails(s) \/ SocketGone(s))
        /\ WF_terminalVars(SocketClosed(s) \/ HandleExit(s))

-----------------------------------------------------------------------------
(* Properties *)

\* A shell that runs is that of the dialog on the screen, or its socket has been closed:
\* no dialog is closed, by its timer, its user or its shell, with a shell behind it that
\* a socket still holds (the effect of TerminalModal.tsx and its cleanup).
ShellHasDialog ==
    \A s \in Sockets :
        pty[s] = "running" => \/ show /\ termSocket = s /\ side[s] \in {"connecting", "open"}
                              \/ side[s] = "closed"

\* In the end no shell runs without its dialog, unless its socket was closed while the
\* module behind it was being imported: that one nobody ends (the 'close' listener of
\* src/terminal.ts is set after the import).
ShellsEnd ==
    <>[](\A s \in Sockets : side[s] = "closed" /\ pty[s] = "running" => s \in unheard)
=============================================================================
