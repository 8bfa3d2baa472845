---------------------------- MODULE AdminPassword ----------------------------
(***************************************************************************)
(* The administrator's password: the login and change-password routes of   *)
(* the hub (src/index.ts) and `devicehub --update-password` (src/cli.ts),  *)
(* a process of its own that writes the same row.                          *)
(*                                                                         *)
(* The users table has no row until the password is first changed; until   *)
(* then the one of the environment counts.  bcrypt runs in a worker: a     *)
(* request reads the row, and goes on when the comparison or the hash is   *)
(* done.  A hash stands for the password it was made from.                 *)
(***************************************************************************)
EXTENDS Naturals

CONSTANTS
    Logins, Changes,    \* requests
    Passwords,
    EnvPassword,        \* ADMIN_PASSWORD
    NoRow

ASSUME PasswordAssumption ==
    EnvPassword \in Passwords /\ NoRow \notin Passwords /\ Logins \cap Changes = {}

VARIABLES
    row,        \* users: the administrator's password, NoRow before there is one
    attempt,    \* login requests
    change,     \* change-password requests
    cli,        \* the command line's update
    inForce     \* history: the passwords in force since each request began

passwordVars == <<row, attempt, change, cli, inForce>>

Requests == Logins \cup Changes
Rows == Passwords \cup {NoRow}
Current(r) == IF r = NoRow THEN EnvPassword ELSE r

NotAsked == [at |-> "idle", given |-> EnvPassword, read |-> NoRow]
NoChange == [at |-> "idle", given |-> EnvPassword, new |-> EnvPassword, read |-> NoRow]

PasswordTypeOK ==
    /\ row \in Rows
    /\ attempt \in [Logins -> [at : {"idle", "verifying", "accepted"},
                               given : Passwords, read : Rows]]
    /\ change \in [Changes -> [at : {"idle", "verifying", "hashing", "ok"},
                               given : Passwords, new : Passwords, read : Rows]]
    /\ cli \in [at : {"idle", "hashing", "looked"}, new : Passwords, found : BOOLEAN]
    /\ inForce \in [Requests -> SUBSET Passwords]

PasswordInit ==
    /\ row = NoRow
    /\ attempt = [l \in Logins |-> NotAsked] /\ change = [c \in Changes |-> NoChange]
    /\ cli = [at |-> "idle", new |-> EnvPassword, found |-> FALSE]
    /\ inForce = [q \in Requests |-> {}]

-----------------------------------------------------------------------------
\* A request begins; one that is refused may be made again.
Begins(q) == inForce' = [inForce EXCEPT ![q] = {Current(row)}]
Ends(q) == inForce' = [inForce EXCEPT ![q] = {}]

\* The row is written: every request under way may from now on meet its password.
Writes(p) ==
    /\ row' = p
    /\ inForce' = [q \in Requests |-> IF inForce[q] = {} THEN {} ELSE inForce[q] \cup {p}]

-----------------------------------------------------------------------------
(* POST /api/auth/login *)

\* Mutant: the environment's password always counts.
FallbackAlways(p, read) == p = EnvPassword

\* "Only fallback to environment variable if user doesn't exist in DB."
Fallback(p, read) == read = NoRow /\ p = EnvPassword

\* The row is read.  Without one the environment's password decides at once.
LoginRequest(l, p) ==
    /\ attempt[l].at = "idle"
    /\ row = NoRow => Fallback(p, row)
    /\ attempt' = [attempt EXCEPT ![l] =
          [at |-> IF row = NoRow THEN "accepted" ELSE "verifying", given |-> p, read |-> row]]
    /\ Begins(l)
    /\ UNCHANGED <<row, change, cli>>

LoginVerified(l) ==
    LET a == attempt[l] IN
    /\ a.at = "verifying"
    /\ IF a.given = a.read \/ Fallback(a.given, a.read)
       THEN attempt' = [attempt EXCEPT ![l].at = "accepted"] /\ UNCHANGED inForce
       ELSE attempt' = [attempt EXCEPT ![l] = NotAsked] /\ Ends(l)
    /\ UNCHANGED <<row, change, cli>>

-----------------------------------------------------------------------------
(* POST /api/auth/change-password, of a valid session, with an acceptable new   *)
(* password                                                                     *)

ChangePassword(c, p, new) ==
    /\ change[c].at = "idle"
    /\ row = NoRow => Fallback(p, row)
    /\ change' = [change EXCEPT ![c] =
          [at |-> IF row = NoRow THEN "hashing" ELSE "verifying",
           given |-> p, new |-> new, read |-> row]]
    /\ Begins(c)
    /\ UNCHANGED <<row, attempt, cli>>

ChangeVerified(c) ==
    /\ change[c].at = "verifying"
    /\ IF change[c].given = change[c].read
       THEN change' = [change EXCEPT ![c].at = "hashing"] /\ UNCHANGED inForce
       ELSE change' = [change EXCEPT ![c] = NoChange] /\ Ends(c)
    /\ UNCHANGED <<row, attempt, cli>>

\* UPDATE if there was a row, INSERT if there was none: the primary key refuses it
\* when somebody else has inserted meanwhile.
Stores(read) == read # NoRow \/ row = NoRow

ChangeHashed(c) ==
    /\ change[c].at = "hashing"
    /\ IF Stores(change[c].read)
       THEN Writes(change[c].new) /\ change' = [change EXCEPT ![c].at = "ok"]
       ELSE change' = [change EXCEPT ![c] = NoChange] /\ Ends(c) /\ UNCHANGED row
    /\ UNCHANGED <<attempt, cli>>

\* A restart of the hub takes the requests under way with it.
HubStops ==
    LET lost == {l \in Logins : attempt[l].at = "verifying"}
                    \cup {c \in Changes : change[c].at \in {"verifying", "hashing"}}
    IN  /\ attempt' = [l \in Logins |-> IF l \in lost THEN NotAsked ELSE attempt[l]]
        /\ change' = [c \in Changes |-> IF c \in lost THEN NoChange ELSE change[c]]
        /\ inForce' = [q \in Requests |-> IF q \in lost THEN {} ELSE inForce[q]]
        /\ UNCHANGED <<row, cli>>

-----------------------------------------------------------------------------
(* updatePassword of the command line: hash, look for the row, write it *)

CliUpdates(new) ==
    /\ cli.at = "idle"
    /\ cli' = [cli EXCEPT !.at = "hashing", !.new = new]
    /\ UNCHANGED <<row, attempt, change, inForce>>

CliLooks ==
    /\ cli.at = "hashing"
    /\ cli' = [cli EXCEPT !.at = "looked", !.found = (row # NoRow)]
    /\ UNCHANGED <<row, attempt, change, inForce>>

CliWrites ==
    /\ cli.at = "looked"
    /\ cli' = [at |-> "idle", new |-> EnvPassword, found |-> FALSE]
    /\ IF cli.found \/ row = NoRow THEN Writes(cli.new) ELSE UNCHANGED <<row, inForce>>
    /\ UNCHANGED <<attempt, change>>

-----------------------------------------------------------------------------
PasswordNext ==
    \/ \E l \in Logins, p \in Passwords : LoginRequest(l, p)
    \/ \E l \in Logins : LoginVerified(l)
    \/ \E c \in Changes, p, new \in Passwords : ChangePassword(c, p, new)
    \/ \E c \in Changes : ChangeVerified(c) \/ ChangeHashed(c)
    \/ HubStops
    \/ \E new \in Passwords : CliUpdates(new)
    \/ CliLooks \/ CliWrites

PasswordSpec == PasswordInit /\ [][PasswordNext]_passwordVars

-----------------------------------------------------------------------------
(* Properties *)

\* Changes that were granted on the environment's password.
Replacers == {c \in Changes : change[c].at = "ok" /\ change[c].read = NoRow}

\* Whoever is let in, and whoever changes the password, gave one that was in force at
\* some moment of the request, however the comparison of a request, the writes of others
\* and a restart interleave; and the environment's password, once replaced, is not
\* replaced again ("This prevents old env password from working after password change",
\* POST login of src/index.ts).
PasswordsHonoured ==
    /\ \A l \in Logins : attempt[l].at = "accepted" => attempt[l].given \in inForce[l]
    /\ \A c \in Changes : change[c].at = "ok" => change[c].given \in inForce[c]
    /\ \A c, d \in Replacers : c = d
=============================================================================
