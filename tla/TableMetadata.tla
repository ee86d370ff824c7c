--------------------------- MODULE TableMetadata ---------------------------
(***************************************************************************)
(* How a table finds its contract again.  CREATE TABLE deploys a contract, *)
(* or joins one whose address is in the connection string, and rewrites    *)
(* the metadata file of the table (.sdi) with the address; open reads it   *)
(* back and gives the table an adapter.                                    *)
(*                                                                         *)
(* External, as the code relies on it: the server makes the metadata file, *)
(* with the connection string of the statement, before it calls create,    *)
(* and removes it when create fails and when the table is dropped.  Creates*)
(* of different tables run side by side.  After a crash in create a table  *)
(* may or may not exist, and its file is left.                             *)
(***************************************************************************)
EXTENDS Integers, FiniteSets, FiniteSetsExt

CONSTANTS
    Table,
    Address,        \* contract addresses
    Joinable,       \* the contracts that others deployed
    NoTable, NoFile, Nobody,
    Empty,          \* the text of a truncated metadata file
    Absent,         \* a connection string without table_address
    Blank,          \* table_address is the empty string
    MaxFiles,       \* bound: slots of the database's directory
    Faults          \* "crash": the server stops; "node": no node, or no accounts;
                    \* "reject": the deployment script exits with an error;
                    \* "silent": it exits without one and prints no address

ASSUME AddressAssumption == Joinable \subseteq Address /\ {Absent, Blank} \cap Address = {}
ASSUME TableAssumption == Nobody \notin Table
ASSUME MaxFilesAssumption == MaxFiles \in Nat \ {0}

VARIABLES
    owner,          \* on chain: the table each contract was deployed for, Nobody
                    \* for an address that is not in use
    dir,            \* the directory: the file in each of its slots
    tables,         \* the server's dictionary: each table's file, or NoTable
    creating,       \* the call of create for each table, or NoTable
    adapters,       \* bc_adapter_map: the address each open table's adapter has
    up,
    \* History.
    made,           \* the address that the create of a table which returned 0
                    \* was about (Absent: it did not return 0)
    joined          \* the addresses given for a table

vars == <<owner, dir, tables, creating, adapters, up, made, joined>>

Slot == 1..MaxFiles
Type == {"ETHEREUM", "FABRIC"}
Conn == [type : Type, address : Address \cup {Absent, Blank}]
File == [table : Table, text : Conn \cup {Empty}]
Call == [file : Slot, conn : Conn, address : Address \cup {Absent, Blank},
         at : {"parse", "deploy", "read", "write"}]

ASSUME DistinctAssumption ==
    NoTable \notin Slot \cup Address /\ Absent # Blank /\ Empty \notin Conn /\ NoFile \notin File

Foreign == "other"      \* the owner of what is joinable

TypeOK ==
    /\ owner \in [Address -> Table \cup {Nobody, Foreign}]
    /\ dir \in [Slot -> File \cup {NoFile}]
    /\ tables \in [Table -> Slot \cup {NoTable}]
    /\ creating \in [Table -> Call \cup {NoTable}]
    /\ adapters \in [Table -> Address \cup {Blank, NoTable}]
    /\ up \in BOOLEAN
    /\ made \in [Table -> Address \cup {Absent, Blank}]
    /\ joined \in [Table -> SUBSET Address]

Init ==
    /\ owner = [a \in Address |-> IF a \in Joinable THEN Foreign ELSE Nobody]
    /\ dir = [s \in Slot |-> NoFile]
    /\ tables = [t \in Table |-> NoTable]
    /\ creating = [t \in Table |-> NoTable]
    /\ adapters = [t \in Table |-> NoTable]
    /\ up = TRUE
    /\ made = [t \in Table |-> Absent]
    /\ joined = [t \in Table |-> {}]

-----------------------------------------------------------------------------
(* The directory. *)

Used == {s \in Slot : dir[s] # NoFile}
FilesOf(t) == {s \in Used : dir[s].table = t}

\* The first file the directory iterator finds whose name is the table's; else
\* the last one it saw.  Wrongly: the first file of all.
get_path_to_file_with_table_metadata_First(t) == Min(Used)
get_path_to_file_with_table_metadata(t) ==
    IF FilesOf(t) # {} THEN Min(FilesOf(t)) ELSE Max(Used)

Text(t) == dir[get_path_to_file_with_table_metadata(t)].text
Rewritten(t, text) == [dir EXCEPT ![get_path_to_file_with_table_metadata(t)].text = text]
Unlinked(s) == [dir EXCEPT ![s] = NoFile]

\* An exception no handler catches, or a crash: of the tables being created some
\* are in the dictionary afterwards.
Dies ==
    LET begun == {t \in Table : creating[t] # NoTable} IN
    /\ up' = FALSE
    /\ \E S \in SUBSET begun :
         tables' = [t \in Table |-> IF t \in S THEN creating[t].file ELSE tables[t]]
    /\ creating' = [t \in Table |-> NoTable]
    /\ adapters' = [t \in Table |-> NoTable]

-----------------------------------------------------------------------------
(* CREATE TABLE *)

Step(t, at) == up /\ creating[t] # NoTable /\ creating[t].at = at

\* The server writes the file and calls create.
Create(t, conn, s) ==
    /\ up /\ tables[t] = NoTable /\ creating[t] = NoTable /\ s \notin Used
    /\ dir' = [dir EXCEPT ![s] = [table |-> t, text |-> conn]]
    /\ creating' = [creating EXCEPT ![t] =
            [file |-> s, conn |-> conn, address |-> Absent, at |-> "parse"]]
    /\ joined' = [joined EXCEPT ![t] = @ \cup ({conn.address} \cap Address)]
    /\ UNCHANGED <<owner, tables, adapters, up, made>>

\* create returns 1: not JSON, no adapter of that type, init failed.
Fail(t) ==
    /\ dir' = Unlinked(creating[t].file)
    /\ creating' = [creating EXCEPT ![t] = NoTable]
    /\ UNCHANGED <<owner, tables, adapters, up, made, joined>>

create_NotJson(t) == Step(t, "parse") /\ Fail(t)

\* JOIN: the address is parsed into a variable of the inner block; the one that
\* is written to the file stays empty.
create_Join(t) ==
    /\ Step(t, "parse") /\ creating[t].conn.address # Absent
    /\ creating' = [creating EXCEPT ![t].at = "read", ![t].address = Blank]
    /\ UNCHANGED <<owner, dir, tables, adapters, up, made, joined>>

create_adapter(type) == type = "ETHEREUM"
InitFails == "node" \in Faults

create_New(t) ==
    /\ Step(t, "parse") /\ creating[t].conn.address = Absent
    /\ \/ ~create_adapter(creating[t].conn.type) /\ Fail(t)
       \/ create_adapter(creating[t].conn.type) /\ InitFails /\ Fail(t)
       \/ /\ create_adapter(creating[t].conn.type)
          /\ creating' = [creating EXCEPT ![t].at = "deploy"]
          /\ UNCHANGED <<owner, dir, tables, adapters, up, made, joined>>

\* The script deployed the contract and printed its address (wrongly: one that
\* is in use already).
NewContract_Reused(a) == a \notin Joinable
NewContract(a) == owner[a] = Nobody

create_table(t) ==
    /\ Step(t, "deploy")
    /\ \E a \in Address :
         /\ NewContract(a)
         /\ owner' = [owner EXCEPT ![a] = t]
         /\ creating' = [creating EXCEPT ![t].at = "read", ![t].address = a]
    /\ UNCHANGED <<dir, tables, adapters, up, made, joined>>

\* The script did not print an address.  With an error code exec throws; without
\* one the empty text is the address (or its last character, read before its
\* beginning, ends the server).  The contract may be there all the same.
create_table_Fails(t) ==
    /\ Step(t, "deploy") /\ Faults \cap {"reject", "silent"} # {}
    /\ \/ UNCHANGED owner
       \/ \E a \in Address : NewContract(a) /\ owner' = [owner EXCEPT ![a] = t]
    /\ \/ Dies
       \/ /\ "silent" \in Faults
          /\ creating' = [creating EXCEPT ![t].at = "read", ![t].address = Blank]
          /\ UNCHANGED <<tables, adapters, up>>
    /\ UNCHANGED <<dir, made, joined>>

\* The file is read and opened for writing, which empties it.  An empty text has
\* no connection string: substr throws.
create_Read(t) ==
    /\ Step(t, "read")
    /\ \/ /\ Text(t) = Empty
          /\ Dies /\ UNCHANGED dir
       \/ /\ Text(t) # Empty
          /\ dir' = Rewritten(t, Empty)
          /\ creating' = [creating EXCEPT ![t].at = "write"]
          /\ UNCHANGED <<tables, adapters, up>>
    /\ UNCHANGED <<owner, made, joined>>

\* The text is written, create returns 0 (wrongly: the address alone is).
Updated_AddressOnly(t) == [address |-> creating[t].address]
Updated(t) == [creating[t].conn EXCEPT !.address = creating[t].address]

create_Write(t) ==
    /\ Step(t, "write")
    /\ dir' = Rewritten(t, Updated(t))
    /\ tables' = [tables EXCEPT ![t] = creating[t].file]
    /\ made' = [made EXCEPT ![t] = creating[t].address]
    /\ creating' = [creating EXCEPT ![t] = NoTable]
    /\ UNCHANGED <<owner, adapters, up, joined>>

-----------------------------------------------------------------------------
(* Open, close, DROP TABLE *)

\* The address in the file; load_table refuses an empty one, which open ignores:
\* the adapter has no contract then.
load_table(t) == Text(t).address

\* An adapter of no type, or one whose init fails, is an error of open, which
\* changes nothing.
open(t) ==
    /\ up /\ tables[t] # NoTable
    /\ \/ Text(t) = Empty /\ Dies
       \/ /\ Text(t) # Empty
          /\ \/ load_table(t) = Absent /\ Dies
             \/ /\ load_table(t) # Absent /\ create_adapter(Text(t).type)
                /\ adapters' = [adapters EXCEPT ![t] = IF @ = NoTable THEN load_table(t) ELSE @]
                /\ UNCHANGED <<tables, creating, up>>
    /\ UNCHANGED <<owner, dir, made, joined>>

close(t) ==
    /\ up /\ adapters[t] # NoTable
    /\ adapters' = [adapters EXCEPT ![t] = NoTable]
    /\ UNCHANGED <<owner, dir, tables, creating, up, made, joined>>

\* The server closes the table first and removes its file; delete_table does
\* nothing, the contract stays.
delete_table(t) ==
    /\ up /\ tables[t] # NoTable /\ adapters[t] = NoTable
    /\ dir' = Unlinked(tables[t])
    /\ tables' = [tables EXCEPT ![t] = NoTable]
    /\ made' = [made EXCEPT ![t] = Absent]
    /\ UNCHANGED <<owner, creating, adapters, up, joined>>

Crash == up /\ "crash" \in Faults /\ Dies /\ UNCHANGED <<owner, dir, made, joined>>

Restart == /\ ~up /\ up' = TRUE
           /\ UNCHANGED <<owner, dir, tables, creating, adapters, made, joined>>

Conns == {c \in Conn : c.address \in {Absent} \cup {a \in Address : owner[a] # Nobody}}

Next ==
    \/ \E t \in Table :
        \/ \E c \in Conns, s \in Slot : Create(t, c, s)
        \/ create_NotJson(t) \/ create_Join(t) \/ create_New(t)
        \/ create_table(t) \/ create_table_Fails(t)
        \/ create_Read(t) \/ create_Write(t)
        \/ open(t) \/ close(t) \/ delete_table(t)
    \/ Crash \/ Restart

Spec == Init /\ [][Next]_vars

-----------------------------------------------------------------------------
(* Properties *)

\* The adapter of a table is connected to a contract that was deployed for the
\* table or whose address was given for it, and to no other table's (creates
\* side by side, the files of crashed creates and of dropped tables that are
\* left in the directory, open).
OwnContract ==
    \A t \in Table : adapters[t] \in Address =>
        owner[adapters[t]] = t \/ adapters[t] \in joined[t]

\* When create returned 0, the file that open will find holds the address that
\* create was about, whatever files of crashed creates of the same name are in
\* the directory: opening the table ends the server never, and never connects it
\* to the contract of an earlier table of its name.
MetadataNamesContract ==
    \A t \in Table : made[t] # Absent =>
        Text(t) # Empty /\ Text(t).address = made[t]

=============================================================================
