----------------------------- MODULE PageSession -----------------------------
(***************************************************************************)
(* The session of one page of the console: the cookie with its signed      *)
(* token, the auth routes that issue, renew and clear it (src/index.ts,    *)
(* src/auth.ts), and what the page makes of it (App.tsx, SessionManager.tsx *)
(* and its dialogs, Logout.tsx).                                           *)
(*                                                                         *)
(* The hub keeps no sessions: a cookie is good until its token expires.    *)
(* Other pages of the browser share it.  Times are the ticks left; a tick  *)
(* is a run of the page's one-second interval.  A request for /me is       *)
(* answered and the answer used in one step; a renewal is not, since its   *)
(* cookie reaches the browser with the answer.                             *)
(***************************************************************************)
EXTENDS Naturals

CONSTANTS
    Ttl,        \* JWT_TTL_SECONDS
    Warn,       \* how long before the expiry the warning is shown
    MaxFails    \* bound: requests that fail on the network

ASSUME SessionAssumption == Ttl \in Nat \ {0} /\ Warn \in Nat /\ MaxFails \in Nat

VARIABLES
    \* the browser and the hub
    cookie,         \* ticks its token is good for
    authDisabled,   \* app_settings
    \* the page
    page,           \* "loading", "login" (no user), "user"
    known, expires, \* expiresAt: whether it is set, and the ticks until then
    showWarning, warningShown,
    awake,          \* timers run
    fetching,       \* fetchSessionExpiration() after login
    checking,       \* checkSessionValidity()
    renewal,        \* handleExtendSession(): its request and the answer
    renewed,        \* ticks left of the token in the answer
    fails,
    cleared         \* history: the cookie was cleared since the expiry was learnt

pageState == <<page, known, expires, showWarning, warningShown, fetching, checking, renewal,
               renewed>>
sessionVars == <<cookie, authDisabled, pageState, awake, fails, cleared>>

SessionTypeOK ==
    /\ cookie \in 0..Ttl /\ expires \in 0..Ttl /\ renewed \in 0..Ttl
    /\ page \in {"loading", "login", "user"}
    /\ {authDisabled, known, showWarning, warningShown, awake, fetching, checking, cleared}
            \subseteq BOOLEAN
    /\ renewal \in {"none", "sent", "granted", "refused"}
    /\ fails \in 0..MaxFails

SessionInit ==
    /\ cookie = 0 /\ authDisabled = FALSE
    /\ page = "loading" /\ known = FALSE /\ expires = 0
    /\ showWarning = FALSE /\ warningShown = FALSE /\ awake = TRUE
    /\ fetching = FALSE /\ checking = FALSE /\ renewal = "none" /\ renewed = 0
    /\ fails = 0 /\ cleared = FALSE

-----------------------------------------------------------------------------
(* The hub *)

\* getSession: a token that is there and not expired.
HasSession == cookie > 0

\* GET /api/auth/me: authenticated, and an expiry only if a session is what made it so.
Authenticated == authDisabled \/ HasSession
SaysExpiry == ~authDisabled /\ HasSession

Fails == fails < MaxFails /\ fails' = fails + 1

-----------------------------------------------------------------------------
(* The page *)

\* A new document: nothing of the old one's state or requests is left.
Reload ==
    /\ page' = "loading" /\ known' = FALSE /\ expires' = 0
    /\ showWarning' = FALSE /\ warningShown' = FALSE
    /\ fetching' = FALSE /\ checking' = FALSE /\ renewal' = "none" /\ renewed' = 0

\* handleSessionExpired
Expire == Reload

Learns(ticks) ==
    /\ known' = TRUE /\ expires' = ticks
    /\ showWarning' = FALSE /\ warningShown' = FALSE

\* App: the first /me decides between the page and the login; a failure is no user.
Boots ==
    /\ page = "loading"
    /\ page' = IF Authenticated THEN "user" ELSE "login"
    /\ fetching' = Authenticated
    /\ cleared' = FALSE
    /\ UNCHANGED <<cookie, authDisabled, known, expires, showWarning, warningShown, awake,
                   checking, renewal, renewed, fails>>

BootFails ==
    /\ page = "loading" /\ Fails
    /\ page' = "login"
    /\ UNCHANGED <<cookie, authDisabled, known, expires, showWarning, warningShown, awake,
                   fetching, checking, renewal, renewed, cleared>>

\* fetchSessionExpiration after the login.
Fetched ==
    /\ fetching /\ fetching' = FALSE
    /\ IF SaysExpiry THEN Learns(cookie) /\ cleared' = FALSE
       ELSE UNCHANGED <<known, expires, showWarning, warningShown, cleared>>
    /\ UNCHANGED <<cookie, authDisabled, page, awake, checking, renewal, renewed, fails>>

\* "return null": the page goes on without an expiry.
FetchFails ==
    /\ fetching /\ Fails /\ fetching' = FALSE
    /\ UNCHANGED <<cookie, authDisabled, page, known, expires, showWarning, warningShown, awake,
                   checking, renewal, renewed, cleared>>

\* checkSessionValidity: no expiry is no session.
Checked ==
    /\ checking
    /\ IF SaysExpiry
       THEN /\ Learns(cookie) /\ cleared' = FALSE /\ checking' = FALSE
            /\ UNCHANGED <<page, fetching, renewal, renewed>>
       ELSE Expire /\ UNCHANGED cleared
    /\ UNCHANGED <<cookie, authDisabled, awake, fails>>

CheckFails ==
    /\ checking /\ Fails
    /\ Expire
    /\ UNCHANGED <<cookie, authDisabled, awake, cleared>>

\* 'visibilitychange', and a machine that slept.
Sleeps ==
    /\ awake /\ awake' = FALSE
    /\ UNCHANGED <<cookie, authDisabled, pageState, fails, cleared>>

Wakes ==
    /\ ~awake /\ awake' = TRUE
    /\ checking' = (page = "user")
    /\ UNCHANGED <<cookie, authDisabled, page, known, expires, showWarning, warningShown,
                   fetching, renewal, renewed, fails, cleared>>

\* "Stay Logged In": POST /api/auth/refresh.
HandleExtendSession ==
    /\ showWarning /\ renewal = "none" /\ renewal' = "sent"
    /\ UNCHANGED <<cookie, authDisabled, page, known, expires, showWarning, warningShown, awake,
                   fetching, checking, renewed, fails, cleared>>

RefreshHandled ==
    /\ renewal = "sent"
    /\ IF HasSession THEN renewal' = "granted" /\ renewed' = Ttl
                     ELSE renewal' = "refused" /\ renewed' = 0
    /\ UNCHANGED <<cookie, authDisabled, page, known, expires, showWarning, warningShown, awake,
                   fetching, checking, fails, cleared>>

\* The answer brings the cookie: also one that was cleared meanwhile comes back.
SetCookie(ticks) == cookie' = ticks

Extended ==
    /\ renewal = "granted"
    /\ SetCookie(renewed)
    /\ Learns(renewed) /\ cleared' = FALSE
    /\ renewal' = "none" /\ renewed' = 0
    /\ UNCHANGED <<authDisabled, page, awake, fetching, checking, fails>>

ExtendFails ==
    /\ \/ renewal = "refused" /\ UNCHANGED fails
       \/ renewal \in {"sent", "granted"} /\ Fails
    /\ Expire
    /\ UNCHANGED <<cookie, authDisabled, awake, cleared>>

\* LoginModal and handleLogin: the cookie, /me, then a reload.
Login ==
    /\ page = "login"
    /\ cookie' = Ttl
    /\ Reload
    /\ UNCHANGED <<authDisabled, awake, fails, cleared>>

\* Logout.tsx leaves for '/' whether the request succeeds or not.
Logout ==
    /\ page = "user"
    /\ \/ cookie' = 0 /\ UNCHANGED fails
       \/ Fails /\ UNCHANGED cookie
    /\ Reload
    /\ UNCHANGED <<authDisabled, awake, cleared>>

Minus1(t) == IF t > 0 THEN t - 1 ELSE 0

\* Mutant: the end of the session only shows the warning.
CheckExpirationWarns(left) ==
    /\ expires' = left
    /\ showWarning' = (showWarning \/ (left <= Warn /\ ~warningShown))
    /\ warningShown' = (warningShown \/ left <= Warn)
    /\ UNCHANGED <<page, known, fetching, checking, renewal>>
    /\ renewed' = Minus1(renewed)

\* checkExpiration, run by the interval while a user and an expiry are there.
CheckExpiration(left) ==
    IF left = 0
    THEN Expire
    ELSE /\ expires' = left
         /\ showWarning' = (showWarning \/ (left <= Warn /\ ~warningShown))
         /\ warningShown' = (warningShown \/ left <= Warn)
         /\ UNCHANGED <<page, known, fetching, checking, renewal>>
         /\ renewed' = Minus1(renewed)

Tick ==
    /\ cookie' = Minus1(cookie)
    /\ IF awake /\ page = "user" /\ known
       THEN CheckExpiration(Minus1(expires))
       ELSE /\ expires' = Minus1(expires) /\ renewed' = Minus1(renewed)
            /\ UNCHANGED <<page, known, showWarning, warningShown, fetching, checking, renewal>>
    /\ UNCHANGED <<authDisabled, awake, fails, cleared>>

-----------------------------------------------------------------------------
(* Other pages, and the command line *)

OtherPageLogsOut ==
    /\ cookie' = 0 /\ cleared' = TRUE
    /\ UNCHANGED <<authDisabled, pageState, awake, fails>>

OtherPageRenews ==
    /\ HasSession /\ cookie' = Ttl
    /\ UNCHANGED <<authDisabled, pageState, awake, fails, cleared>>

SetAuthDisabled(disabled) ==
    /\ authDisabled' = disabled
    /\ UNCHANGED <<cookie, pageState, awake, fails, cleared>>

-----------------------------------------------------------------------------
SessionNext ==
    \/ Boots \/ BootFails \/ Fetched \/ FetchFails \/ Checked \/ CheckFails
    \/ Sleeps \/ Wakes
    \/ HandleExtendSession \/ RefreshHandled \/ Extended \/ ExtendFails
    \/ Login \/ Logout \/ Tick
    \/ OtherPageLogsOut \/ OtherPageRenews
    \/ \E disabled \in BOOLEAN : SetAuthDisabled(disabled)

\* Time passes and /me is answered.
SessionFairness == WF_sessionVars(Tick) /\ WF_sessionVars(Fetched \/ Checked)

SessionSpec == SessionInit /\ [][SessionNext]_sessionVars

FairSessionSpec == SessionSpec /\ SessionFairness

-----------------------------------------------------------------------------
(* Properties *)

\* A page never counts on more time than its cookie has, whatever renewals, sleep, other
\* pages and failed requests come between, unless another page has cleared the cookie
\* since: what it knows is of the cookie the browser holds, not of one replaced
\* (fetchSessionExpiration, handleExtendSession, the refresh route).
ExpiryIsReal == known /\ ~cleared => expires <= cookie

\* A page that knows when its session ends does not show the hub's data for ever after:
\* it leaves when the session has, whatever other pages do, unless it sleeps or login
\* is disabled meanwhile (checkExpiration, the 'visibilitychange' handler).
ExpiryNoticed ==
    page = "user" /\ known /\ ~HasSession
        ~> page # "user" \/ HasSession \/ authDisabled \/ ~awake

\* "Automatically logs out when session expires" (SessionManager.tsx), for a page that
\* stays awake, with login enabled and nobody logging out elsewhere.
LogsOutOnExpiry ==
    [](awake /\ ~authDisabled /\ ~cleared)
        => (page = "user" /\ ~HasSession ~> page # "user" \/ HasSession)
=============================================================================
