------------------------------- MODULE MCConsole -------------------------------
(***************************************************************************)
(* A small instance of the hub's console and what it administers: the      *)
(* registry with its dialogs, the administrator's password, the page's     *)
(* feed, the whitelist table through upgrades and the root CA.  They share *)
(* no state: the run explores each on its own.                             *)
(***************************************************************************)
EXTENDS FleetRegistry, AdminPassword, ConsoleFeed, WhitelistSchema, RootAuthority

CONSTANT s1

VARIABLE focus

consoleVars == <<registryVars, passwordVars, feedVars, schemaVars, rootVars, focus>>

ConsoleInit ==
    /\ focus \in {"registry", "password", "feed", "schema", "root"}
    /\ RegistryInit /\ PasswordInit /\ FeedInit /\ SchemaInit /\ RootInit
    /\ focus # "schema" => columns = {}
    /\ list = s1

ConsoleNext ==
    /\ \/ /\ focus = "registry" /\ RegistryNext
          /\ UNCHANGED <<passwordVars, feedVars, schemaVars, rootVars>>
       \/ /\ focus = "password" /\ PasswordNext
          /\ UNCHANGED <<registryVars, feedVars, schemaVars, rootVars>>
       \/ /\ focus = "feed" /\ FeedNext
          /\ UNCHANGED <<registryVars, passwordVars, schemaVars, rootVars>>
       \/ /\ focus = "schema" /\ SchemaNext
          /\ UNCHANGED <<registryVars, passwordVars, feedVars, rootVars>>
       \/ /\ focus = "root" /\ RootNext
          /\ UNCHANGED <<registryVars, passwordVars, feedVars, schemaVars>>
    /\ UNCHANGED focus

ConsoleSpec == ConsoleInit /\ [][ConsoleNext]_consoleVars

ConsoleTypeOK ==
    RegistryTypeOK /\ PasswordTypeOK /\ FeedTypeOK /\ SchemaTypeOK /\ RootTypeOK
=============================================================================
