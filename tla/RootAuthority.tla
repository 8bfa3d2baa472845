---------------------------- MODULE RootAuthority ----------------------------
(***************************************************************************)
(* The root CA: generateRootCA (src/certs.ts), called by ensurePki at boot *)
(* and by POST /api/settings/certs/root (src/index.ts), and the device     *)
(* certificates signed with it.                                            *)
(*                                                                         *)
(* A generation is two runs of openssl over two shared files: genrsa       *)
(* writes the key, req reads the key that is there by then and writes the  *)
(* certificate.  A key is a number, a certificate the key it was made for  *)
(* and a number of its own.  A process writes its file in one step.        *)
(***************************************************************************)
EXTENDS Naturals, FiniteSets

CONSTANTS
    RootRequests,   \* requests that generate the root
    BootJob,        \* ensurePki, which ends before the hub listens
    MaxKeys,        \* bound: keys made
    MaxDeaths       \* bound: deaths of the hub

ASSUME RootAssumption ==
    BootJob \notin RootRequests /\ MaxKeys \in Nat /\ MaxDeaths \in Nat

VARIABLES
    caKey,          \* CA_KEY, {} when there is no file
    caCrt,          \* CA_CRT, as [key, serial]
    at,             \* per job, the openssl it awaits
    using,          \* the key a running req has read
    made,           \* keys and certificates made so far
    issued,         \* history: root certificates that device certificates were signed under
    met,            \* history: a generation started while another ran
    deaths

rootFiles == <<caKey, caCrt>>
rootVars == <<rootFiles, at, using, made, issued, met, deaths>>

RootJobs == RootRequests \cup {BootJob}
Roots == [key : Nat, serial : Nat]

RootTypeOK ==
    /\ caKey \subseteq Nat /\ caCrt \subseteq Roots
    /\ at \in [RootJobs -> {"idle", "genrsa", "selfSign", "req", "done"}]
    /\ using \in [RootJobs -> SUBSET Nat]
    /\ made \in Nat /\ issued \subseteq Roots /\ met \in BOOLEAN /\ deaths \in Nat

RootInit ==
    /\ caKey = {} /\ caCrt = {} /\ made = 0
    /\ at = [j \in RootJobs |-> "idle"] /\ using = [j \in RootJobs |-> {}]
    /\ issued = {} /\ met = FALSE /\ deaths = 0

-----------------------------------------------------------------------------
CaExists == caKey # {} /\ caCrt # {}

Running == {j \in RootJobs : at[j] \in {"genrsa", "selfSign", "req"}}

\* generateRootCA up to its first await.
Generate(j) ==
    /\ at' = [at EXCEPT ![j] = "genrsa"]
    /\ met' = (met \/ Running # {})
    /\ UNCHANGED <<rootFiles, using, made, issued, deaths>>

\* Nothing listens until ensurePki is through.
Listening == at[BootJob] = "done"

EnsurePki ==
    /\ at[BootJob] = "idle"
    /\ IF CaExists
       THEN at' = [at EXCEPT ![BootJob] = "done"]
            /\ UNCHANGED <<rootFiles, using, made, issued, met, deaths>>
       ELSE Generate(BootJob)

\* Mutant: a root that is there is generated again.
PostRootAnyway(r) == Listening /\ at[r] = "idle" /\ Generate(r)

\* 409 when there is a root already.
PostRoot(r) == Listening /\ at[r] = "idle" /\ ~CaExists /\ Generate(r)

KeyWritten(j) ==
    /\ at[j] = "genrsa" /\ made < MaxKeys /\ made' = made + 1
    /\ caKey' = {made'}
    /\ at' = [at EXCEPT ![j] = "selfSign"]
    /\ UNCHANGED <<caCrt, using, issued, met, deaths>>

\* openssl req reads the key file.
KeyRead(j) ==
    /\ at[j] = "selfSign"
    /\ using' = [using EXCEPT ![j] = caKey]
    /\ at' = [at EXCEPT ![j] = "req"]
    /\ UNCHANGED <<rootFiles, made, issued, met, deaths>>

CrtWritten(j) ==
    /\ at[j] = "req" /\ made < MaxKeys /\ made' = made + 1
    /\ caCrt' = {[key |-> k, serial |-> made'] : k \in using[j]}
    /\ at' = [at EXCEPT ![j] = "done"] /\ using' = [using EXCEPT ![j] = {}]
    /\ UNCHANGED <<caKey, issued, met, deaths>>

\* openssl fails: the request ends with 500, the boot goes on.
GenerationFails(j) ==
    /\ j \in Running
    /\ at' = [at EXCEPT ![j] = "done"] /\ using' = [using EXCEPT ![j] = {}]
    /\ UNCHANGED <<rootFiles, made, issued, met, deaths>>

\* openssl x509 -req refuses a certificate and a key that do not belong together.
IssueDeviceCert ==
    /\ Listening
    /\ \E crt \in caCrt : /\ crt.key \in caKey
                          /\ issued' = issued \cup {crt}
    /\ UNCHANGED <<rootFiles, at, using, made, met, deaths>>

\* The files stay, and what ran is gone.
HubDies ==
    /\ deaths < MaxDeaths /\ deaths' = deaths + 1
    /\ at' = [j \in RootJobs |-> IF j = BootJob THEN "idle"
                             ELSE IF j \in Running THEN "done" ELSE at[j]]
    /\ using' = [j \in RootJobs |-> {}]
    /\ UNCHANGED <<rootFiles, made, issued, met>>

-----------------------------------------------------------------------------
RootNext ==
    \/ EnsurePki \/ IssueDeviceCert \/ HubDies
    \/ \E r \in RootRequests : PostRoot(r)
    \/ \E j \in RootJobs : KeyWritten(j) \/ KeyRead(j) \/ CrtWritten(j) \/ GenerationFails(j)

RootSpec == RootInit /\ [][RootNext]_rootVars

-----------------------------------------------------------------------------
(* Properties *)

\* Every device certificate ever signed verifies against the root certificate the hub
\* has, and the root's key signs for it, through failed generations and deaths of the hub;
\* unless two generations overlapped: the check for a root is made before the first of two
\* files is written (POST root and ensurePki of src/index.ts, generateRootCA of
\* src/certs.ts).
ChainsToRoot ==
    ~met => /\ issued \subseteq caCrt
            /\ CaExists => \A crt \in caCrt : crt.key \in caKey
=============================================================================
