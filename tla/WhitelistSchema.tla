--------------------------- MODULE WhitelistSchema ---------------------------
(***************************************************************************)
(* The database through upgrades of the hub, above all the whitelist       *)
(* table: what ensureDeviceHubSchema (src/index.ts) does at each boot to   *)
(* the tables an older hub left, and the routes that edit the whitelist    *)
(* between boots.                                                          *)
(*                                                                         *)
(* Each statement commits by itself, so a hub may die between any two.     *)
(* The time a UUID was claimed is carried over as its note is and left     *)
(* out; a statement that fails while the hub lives is left out too.        *)
(***************************************************************************)
EXTENDS Naturals, FiniteSets

CONSTANTS
    Uuids,
    Notes, NoNote,
    NoEntry,
    MaxEdits,       \* bound: edits by the operator
    MaxCrashes      \* bound: deaths and restarts of the hub

Entries == [note : Notes \cup {NoNote}, disabled : BOOLEAN]

ASSUME SchemaAssumption ==
    /\ NoNote \notin Notes /\ NoEntry \notin Entries
    /\ MaxEdits \in Nat /\ MaxCrashes \in Nat

VARIABLES
    columns,        \* of uuid_whitelist that tell its versions apart, {}: no table
    rows,
    tables,         \* the other tables, "devices by id" is the legacy devices table
    boot,           \* the statement ensureDeviceHubSchema is at, "up" after it
    existingData,   \* rows read and not yet inserted again
    entries,        \* history: the rows as the operator last left them
    lost,           \* history: the hub died with rows to insert
    edits, crashes

tableVars == <<columns, rows, existingData, tables>>
schemaVars == <<tableVars, boot, entries, lost, edits, crashes>>

\* device_id and name; hardware_version and manufacturer; disabled_at; note
Columns == {"legacy", "details", "disabled_at", "note"}
CurrentColumns == {"details", "disabled_at", "note"}

\* The tables hubs have had.
Versions == {{}, {"legacy", "note"}, {"details"}, {"details", "disabled_at"}, CurrentColumns}

\* In the order they are created in.
OtherTables == <<"devices", "device_roles", "device_groups", "app_settings", "device_events",
                 "users">>
AllTables == {OtherTables[i] : i \in 1..6}

Tables == [Uuids -> Entries \cup {NoEntry}]
Blank == [u \in Uuids |-> NoEntry]
Present(table) == {u \in Uuids : table[u] # NoEntry}

\* A column that is not there has no value.
Fits(table, cols) ==
    /\ cols = {} => table = Blank
    /\ \A u \in Present(table) : /\ "note" \notin cols => table[u].note = NoNote
                                 /\ "disabled_at" \notin cols => ~table[u].disabled

SchemaTypeOK ==
    /\ columns \subseteq Columns /\ rows \in Tables /\ existingData \in Tables
    /\ entries \in Tables /\ lost \in BOOLEAN
    /\ tables \subseteq AllTables \cup {"devices by id"}
    /\ boot \in {"down", "create", "restore", "disabled_at", "note", "tables", "up"}
    /\ edits \in 0..MaxEdits /\ crashes \in 0..MaxCrashes

SchemaInit ==
    /\ columns \in Versions
    /\ rows \in {table \in Tables : Fits(table, columns)}
    /\ tables \in {{}, {"devices by id"}, {"devices", "device_events"}, AllTables}
    /\ columns = {} => tables = {}
    /\ boot = "down" /\ existingData = Blank
    /\ entries = rows /\ lost = FALSE
    /\ edits = 0 /\ crashes = 0

-----------------------------------------------------------------------------
(* ensureDeviceHubSchema *)

\* Mutant: the note marks a legacy table, as it once did.
NeedsRebuildByNote(cols) == cols \cap {"legacy", "note"} # {} \/ "details" \notin cols

\* hasLegacyColumns || !hasNewColumns
NeedsRebuild(cols) == "legacy" \in cols \/ "details" \notin cols

\* What a rebuild reads of a row: the note if there is one, never disabled_at.
Carried(table) ==
    [u \in Uuids |-> IF table[u] = NoEntry THEN NoEntry
                     ELSE [note |-> table[u].note, disabled |-> FALSE]]

KeepTable ==
    /\ boot = "down" /\ columns # {} /\ ~NeedsRebuild(columns)
    /\ boot' = "disabled_at"
    /\ UNCHANGED <<tableVars, entries, lost, edits, crashes>>

\* Reading a table that is not there throws, and the catch creates it.
CreateFirst ==
    /\ boot = "down" /\ columns = {}
    /\ columns' = {"details"} /\ boot' = "disabled_at"
    /\ UNCHANGED <<rows, existingData, tables, entries, lost, edits, crashes>>

ReadAndDrop ==
    /\ boot = "down" /\ columns # {} /\ NeedsRebuild(columns)
    /\ existingData' = Carried(rows)
    /\ columns' = {} /\ rows' = Blank
    /\ boot' = "create"
    /\ UNCHANGED <<tables, entries, lost, edits, crashes>>

Create ==
    /\ boot = "create"
    /\ columns' = {"details", "note"} /\ boot' = "restore"
    /\ UNCHANGED <<rows, existingData, tables, entries, lost, edits, crashes>>

RestoreRow(u) ==
    /\ boot = "restore" /\ existingData[u] # NoEntry
    /\ rows' = [rows EXCEPT ![u] = existingData[u]]
    /\ existingData' = [existingData EXCEPT ![u] = NoEntry]
    /\ UNCHANGED <<columns, tables, boot, entries, lost, edits, crashes>>

Restored ==
    /\ boot = "restore" /\ existingData = Blank
    /\ boot' = "disabled_at"
    /\ UNCHANGED <<tableVars, entries, lost, edits, crashes>>

AddDisabledAt ==
    /\ boot = "disabled_at"
    /\ columns' = columns \cup {"disabled_at"} /\ boot' = "note"
    /\ UNCHANGED <<rows, existingData, tables, entries, lost, edits, crashes>>

AddNote ==
    /\ boot = "note"
    /\ columns' = columns \cup {"note"} /\ boot' = "tables"
    /\ UNCHANGED <<rows, existingData, tables, entries, lost, edits, crashes>>

DropLegacyDevices ==
    /\ boot = "tables" /\ "devices by id" \in tables
    /\ tables' = tables \ {"devices by id"}
    /\ UNCHANGED <<columns, rows, existingData, boot, entries, lost, edits, crashes>>

\* CREATE TABLE IF NOT EXISTS, one after the other.
EnsureTable(i) ==
    /\ boot = "tables" /\ "devices by id" \notin tables
    /\ OtherTables[i] \notin tables
    /\ \A k \in 1..(i - 1) : OtherTables[k] \in tables
    /\ tables' = tables \cup {OtherTables[i]}
    /\ UNCHANGED <<columns, rows, existingData, boot, entries, lost, edits, crashes>>

\* The schema is there: the hub goes on to listen.
SchemaReady ==
    /\ boot = "tables" /\ tables = AllTables
    /\ boot' = "up"
    /\ UNCHANGED <<tableVars, entries, lost, edits, crashes>>

\* At any statement, or later.
Dies ==
    /\ boot # "down" /\ crashes < MaxCrashes /\ crashes' = crashes + 1
    /\ boot' = "down"
    /\ lost' = (lost \/ existingData # Blank)
    /\ existingData' = Blank
    /\ UNCHANGED <<columns, rows, tables, entries, edits>>

-----------------------------------------------------------------------------
(* The whitelist routes *)

Edit(table) ==
    /\ boot = "up" /\ edits < MaxEdits /\ edits' = edits + 1
    /\ rows' = table /\ entries' = table
    /\ UNCHANGED <<columns, existingData, tables, boot, lost, crashes>>

PostEntry(u, note) ==
    /\ rows[u] = NoEntry
    /\ Edit([rows EXCEPT ![u] = [note |-> note, disabled |-> FALSE]])

PatchEntry(u, entry) ==
    /\ rows[u] # NoEntry
    /\ Edit([rows EXCEPT ![u] = entry])

RemoveEntry(u) ==
    /\ rows[u] # NoEntry
    /\ Edit([rows EXCEPT ![u] = NoEntry])

-----------------------------------------------------------------------------
SchemaNext ==
    \/ KeepTable \/ CreateFirst \/ ReadAndDrop \/ Create \/ Restored
    \/ AddDisabledAt \/ AddNote \/ DropLegacyDevices \/ SchemaReady \/ Dies
    \/ \E i \in 1..6 : EnsureTable(i)
    \/ \E u \in Uuids : \/ RestoreRow(u)
                        \/ \E note \in Notes \cup {NoNote} : PostEntry(u, note)
                        \/ \E entry \in Entries : PatchEntry(u, entry)
                        \/ RemoveEntry(u)

SchemaSpec == SchemaInit /\ [][SchemaNext]_schemaVars

-----------------------------------------------------------------------------
(* Properties *)

\* A hub that is up has all tables, and in the whitelist every entry as the operator
\* last left it, its note and its being disabled, whatever version it was upgraded from
\* and however often it was started; unless it died between dropping a legacy table and
\* inserting its last row again, which is not done in a transaction ("Backup data, drop
\* table, recreate with correct schema", ensureDeviceHubSchema of src/index.ts).
BootsKeepEntries ==
    boot = "up" =>
        /\ columns = CurrentColumns /\ tables = AllTables
        /\ ~lost => rows = entries
=============================================================================
