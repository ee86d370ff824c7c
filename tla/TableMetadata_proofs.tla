------------------------ MODULE TableMetadata_proofs ------------------------
(***************************************************************************)
(* TableMetadata, for every set of tables and addresses, any number of     *)
(* files and all failures: its types, that a table has only contracts of   *)
(* its own, and that the metadata file of a table that was created names   *)
(* its contract.                                                           *)
(***************************************************************************)
EXTENDS TableMetadata, WellFoundedInduction, TLAPS

(* A table has its file in the directory, and so has a call of create,     *)
(* which is of no table that exists.                                       *)
HasFile ==
    \A t \in Table :
        /\ tables[t] # NoTable => tables[t] \in FilesOf(t)
        /\ creating[t] # NoTable => creating[t].file \in FilesOf(t) /\ tables[t] = NoTable
        /\ made[t] # Absent => tables[t] # NoTable

(* A contract that t may have.                                             *)
Known(t, a) == a \in Address => owner[a] = t \/ a \in joined[t]

(* Addresses are known wherever they are kept.                             *)
Owned ==
    /\ \A s \in Used : dir[s].text # Empty => Known(dir[s].table, dir[s].text.address)
    /\ \A t \in Table :
        /\ Known(t, adapters[t])
        /\ creating[t] # NoTable =>
                Known(t, creating[t].address) /\ Known(t, creating[t].conn.address)

(* The inductive invariant.                                                *)
IInv == TypeOK /\ HasFile /\ Owned /\ MetadataNamesContract
-----------------------------------------------------------------------------
(* A set of numbers that is not empty has a least member.                  *)
LEMMA LeastMember ==
    ASSUME NEW S, S \subseteq Nat, S # {}
    PROVE  Min(S) \in S
<1> DEFINE R == OpToRel(<, Nat)
<1>1. IsWellFoundedOn(R, Nat)
  BY NatLessThanWellFounded
<1> HIDE DEF R
<1>2. \E x \in S : \A y \in S : <<y, x>> \notin R
  BY ONLY <1>1, WFMin, S \subseteq Nat, S # {}
<1>3. \A x, y \in Nat : <<y, x>> \notin R => x <= y
  BY DEF R, OpToRel
<1>4. \E x \in S : \A y \in S : x <= y
  BY <1>2, <1>3
<1> QED
  BY <1>4 DEF Min

(* The path that is found is a file of the table when it has one.          *)
LEMMA PathIsFileOf ==
    ASSUME NEW t, FilesOf(t) # {}
    PROVE  get_path_to_file_with_table_metadata(t) \in FilesOf(t)
<1>1. FilesOf(t) \subseteq Nat
  BY MaxFilesAssumption DEF FilesOf, Used, Slot
<1> QED
  BY <1>1, LeastMember DEF get_path_to_file_with_table_metadata

(* The directory when files are made and removed and their texts change,   *)
(* seen from one table.                                                    *)
LEMMA SameFilesSamePath ==
    ASSUME NEW t, FilesOf(t)' = FilesOf(t), FilesOf(t) # {}
    PROVE  get_path_to_file_with_table_metadata(t)' = get_path_to_file_with_table_metadata(t)
BY DEF get_path_to_file_with_table_metadata

(* Typed texts.                                                            *)
LEMMA PathType ==
    ASSUME TypeOK, NEW t \in Table, FilesOf(t) # {}
    PROVE  /\ get_path_to_file_with_table_metadata(t) \in Slot
           /\ get_path_to_file_with_table_metadata(t) \in Used
           /\ dir[get_path_to_file_with_table_metadata(t)] \in File
           /\ dir[get_path_to_file_with_table_metadata(t)].table = t
           /\ Text(t) \in Conn \cup {Empty}
<1>1. get_path_to_file_with_table_metadata(t) \in FilesOf(t)
  BY PathIsFileOf
<1> QED
  BY <1>1 DEF TypeOK, FilesOf, Used, Text, File

(* Rewriting the file of one table changes its text and nothing else.      *)
LEMMA Rewriting ==
    ASSUME TypeOK, NEW t \in Table, FilesOf(t) # {},
           NEW text \in Conn \cup {Empty}, dir' = Rewritten(t, text)
    PROVE  /\ dir' \in [Slot -> File \cup {NoFile}]
           /\ Used' = Used
           /\ \A u \in Table : FilesOf(u)' = FilesOf(u)
           /\ Text(t)' = text
           /\ \A u \in Table \ {t} : FilesOf(u) # {} => Text(u)' = Text(u)
           /\ \A s \in Used : /\ dir'[s].table = dir[s].table
                             /\ \/ dir'[s] = dir[s]
                                \/ dir[s].table = t /\ dir'[s].text = text
<1> DEFINE p == get_path_to_file_with_table_metadata(t)
<1>1. p \in Slot /\ p \in Used /\ dir[p] \in File /\ dir[p].table = t
  BY PathType
<1>2. dir' = [dir EXCEPT ![p].text = text]
  BY DEF Rewritten
<1> HIDE DEF p
<1>3. /\ dir'[p] \in File /\ dir'[p].table = t /\ dir'[p].text = text
      /\ \A s \in Slot \ {p} : dir'[s] = dir[s]
  BY <1>1, <1>2 DEF TypeOK, File
<1>4. dir' \in [Slot -> File \cup {NoFile}]
  BY <1>2, <1>3, <1>1 DEF TypeOK
<1>5. Used' = Used
  BY <1>1, <1>3, DistinctAssumption DEF Used
<1>6. \A u \in Table : FilesOf(u)' = FilesOf(u)
  BY <1>1, <1>3, <1>5 DEF FilesOf, Used
<1>7. Text(t)' = text
  <2>1. get_path_to_file_with_table_metadata(t)' = p
    BY <1>6, SameFilesSamePath DEF p
  <2> QED
    BY <2>1, <1>3 DEF Text
<1>8. ASSUME NEW u \in Table \ {t}, FilesOf(u) # {}
      PROVE  Text(u)' = Text(u)
  <2>1. get_path_to_file_with_table_metadata(u)' = get_path_to_file_with_table_metadata(u)
    BY <1>6, <1>8, SameFilesSamePath
  <2>2. /\ get_path_to_file_with_table_metadata(u) \in Slot
        /\ dir[get_path_to_file_with_table_metadata(u)].table = u
    BY <1>8, PathType
  <2>3. get_path_to_file_with_table_metadata(u) # p
    BY <2>2, <1>1
  <2> QED
    BY <2>1, <2>2, <2>3, <1>3 DEF Text
<1>9. \A s \in Used : /\ dir'[s].table = dir[s].table
                     /\ \/ dir'[s] = dir[s]
                        \/ dir[s].table = t /\ dir'[s].text = text
  BY <1>1, <1>3 DEF Used
<1> QED
  BY <1>4, <1>5, <1>6, <1>7, <1>8, <1>9

(* A new file is its table's, and no other table sees it.                  *)
LEMMA Making ==
    ASSUME TypeOK, NEW t \in Table, NEW conn \in Conn, NEW s \in Slot, s \notin Used,
           dir' = [dir EXCEPT ![s] = [table |-> t, text |-> conn]]
    PROVE  /\ dir' \in [Slot -> File \cup {NoFile}]
           /\ Used' = Used \cup {s}
           /\ FilesOf(t)' = FilesOf(t) \cup {s}
           /\ \A u \in Table \ {t} :
                /\ FilesOf(u)' = FilesOf(u)
                /\ FilesOf(u) # {} => Text(u)' = Text(u)
           /\ dir'[s] = [table |-> t, text |-> conn]
           /\ \A r \in Used : dir'[r] = dir[r]
<1>1. [table |-> t, text |-> conn] \in File
  BY DEF File
<1>2. /\ dir' \in [Slot -> File \cup {NoFile}]
      /\ dir'[s] = [table |-> t, text |-> conn]
      /\ \A r \in Slot \ {s} : dir'[r] = dir[r]
  BY <1>1 DEF TypeOK
<1>3. Used' = Used \cup {s}
  BY <1>1, <1>2, DistinctAssumption DEF Used
<1>4. FilesOf(t)' = FilesOf(t) \cup {s}
  BY <1>2, <1>3 DEF FilesOf, Used
<1>5. ASSUME NEW u \in Table \ {t}
      PROVE  FilesOf(u)' = FilesOf(u) /\ (FilesOf(u) # {} => Text(u)' = Text(u))
  <2>1. FilesOf(u)' = FilesOf(u)
    BY <1>2, <1>3 DEF FilesOf, Used
  <2>2. ASSUME FilesOf(u) # {}
        PROVE  Text(u)' = Text(u)
    <3>1. get_path_to_file_with_table_metadata(u)' = get_path_to_file_with_table_metadata(u)
      BY <2>1, <2>2, SameFilesSamePath
    <3>2. get_path_to_file_with_table_metadata(u) \in Slot \ {s}
      BY <2>2, PathType
    <3> QED
      BY <3>1, <3>2, <1>2 DEF Text
  <2> QED
    BY <2>1, <2>2
<1> QED
  BY <1>2, <1>3, <1>4, <1>5 DEF Used

(* A file that is removed is missed by its own table only.                 *)
LEMMA Removing ==
    ASSUME TypeOK, NEW t \in Table, NEW s \in FilesOf(t), dir' = Unlinked(s)
    PROVE  /\ dir' \in [Slot -> File \cup {NoFile}]
           /\ Used' = Used \ {s}
           /\ \A u \in Table \ {t} :
                /\ FilesOf(u)' = FilesOf(u)
                /\ FilesOf(u) # {} => Text(u)' = Text(u)
           /\ \A r \in Used \ {s} : dir'[r] = dir[r]
<1>1. s \in Slot /\ dir[s].table = t
  BY DEF FilesOf, Used
<1>2. /\ dir' \in [Slot -> File \cup {NoFile}]
      /\ dir'[s] = NoFile
      /\ \A r \in Slot \ {s} : dir'[r] = dir[r]
  BY <1>1 DEF TypeOK, Unlinked
<1>3. Used' = Used \ {s}
  BY <1>1, <1>2 DEF Used
<1>4. ASSUME NEW u \in Table \ {t}
      PROVE  FilesOf(u)' = FilesOf(u) /\ (FilesOf(u) # {} => Text(u)' = Text(u))
  <2>1. FilesOf(u)' = FilesOf(u)
    BY <1>1, <1>2, <1>3 DEF FilesOf, Used
  <2>2. ASSUME FilesOf(u) # {}
        PROVE  Text(u)' = Text(u)
    <3>1. get_path_to_file_with_table_metadata(u)' = get_path_to_file_with_table_metadata(u)
      BY <2>1, <2>2, SameFilesSamePath
    <3>2. get_path_to_file_with_table_metadata(u) \in Slot \ {s}
      BY <1>1, <2>2, PathType
    <3> QED
      BY <3>1, <3>2, <1>2 DEF Text
  <2> QED
    BY <2>1, <2>2
<1> QED
  BY <1>2, <1>3, <1>4 DEF Used
-----------------------------------------------------------------------------
(* The first state.                                                        *)
LEMMA InitIInv == Init => IInv
<1> SUFFICES ASSUME Init PROVE IInv
  OBVIOUS
<1>1. TypeOK
  BY AddressAssumption, DistinctAssumption DEF Init, TypeOK
<1>2. HasFile
  BY DEF Init, HasFile
<1>3. Owned
  <2>1. Used = {}
    BY DEF Init, Used
  <2>2. \A t \in Table : adapters[t] = NoTable
    BY DEF Init
  <2> QED
    BY <2>1, <2>2, <1>1, DistinctAssumption DEF Owned, Known, Init
<1>4. MetadataNamesContract
  BY DEF Init, MetadataNamesContract
<1> QED
  BY <1>1, <1>2, <1>3, <1>4 DEF IInv

(* The server ends, whatever became of the directory and of the chain, as  *)
(* long as the texts are known and the tables' files are there.            *)
LEMMA DiesIInv ==
    ASSUME IInv, Dies, UNCHANGED <<dir, made, joined>>,
           owner' \in [Address -> Table \cup {Nobody, Foreign}],
           \A a \in Address : owner'[a] = owner[a] \/ owner[a] = Nobody
    PROVE  IInv'
<1>1. TypeOK /\ HasFile /\ Owned /\ MetadataNamesContract
  BY DEF IInv
<1>2. PICK S \in SUBSET {t \in Table : creating[t] # NoTable} :
         tables' = [t \in Table |-> IF t \in S THEN creating[t].file ELSE tables[t]]
  BY DEF Dies
<1>3. \A t \in Table : creating'[t] = NoTable /\ adapters'[t] = NoTable
  BY DEF Dies
<1>4. \A t \in S : creating[t] \in Call
  BY <1>1 DEF TypeOK
<1>5. TypeOK'
  BY <1>1, <1>2, <1>4 DEF TypeOK, Dies, Call
<1>6. Used' = Used /\ (\A t \in Table : FilesOf(t)' = FilesOf(t))
  BY DEF Used, FilesOf
<1>7. HasFile'
  BY <1>1, <1>2, <1>3, <1>6, DistinctAssumption DEF HasFile, TypeOK, FilesOf, Used
<1>8. \A t \in Table : \A a : Known(t, a) => Known(t, a)'
  BY TableAssumption DEF Known
<1>9. Owned'
  <2>1. \A s \in Used : dir[s] \in File
    BY <1>1 DEF TypeOK, Used
  <2>2. \A t \in Table : Known(t, adapters[t])'
    BY <1>3, DistinctAssumption DEF Known
  <2> QED
    BY <1>1, <1>3, <1>6, <1>8, <2>1, <2>2 DEF Owned, File
<1>10. MetadataNamesContract'
  BY <1>1 DEF MetadataNamesContract, Text, get_path_to_file_with_table_metadata, FilesOf, Used
<1> QED
  BY <1>5, <1>7, <1>9, <1>10 DEF IInv

(* A call of create goes on, and a contract may be deployed for its table. *)
LEMMA CallIInv ==
    ASSUME IInv, NEW t \in Table, creating[t] # NoTable,
           NEW c \in Call, c.file = creating[t].file, c.conn = creating[t].conn,
           creating' = [creating EXCEPT ![t] = c],
           UNCHANGED <<dir, tables, adapters, up, made, joined>>,
           owner' \in [Address -> Table \cup {Nobody, Foreign}],
           \A a \in Address : owner'[a] = owner[a] \/ owner[a] = Nobody,
           c.address \in Address => owner'[c.address] = t
    PROVE  IInv'
<1>1. TypeOK /\ HasFile /\ Owned /\ MetadataNamesContract
  BY DEF IInv
<1>2. TypeOK'
  BY <1>1 DEF TypeOK
<1>3. Used' = Used /\ (\A u \in Table : FilesOf(u)' = FilesOf(u))
  BY DEF Used, FilesOf
<1>4. creating'[t] = c /\ \A u \in Table \ {t} : creating'[u] = creating[u]
  BY <1>1 DEF TypeOK
<1>5. HasFile'
  BY <1>1, <1>3, <1>4 DEF HasFile
<1>6. \A u \in Table : \A a : Known(u, a) => Known(u, a)'
  BY TableAssumption DEF Known
<1>7. Owned'
  <2>1. \A s \in Used : dir[s] \in File
    BY <1>1 DEF TypeOK, Used
  <2>2. Known(t, c.address)'
    BY DEF Known
  <2>3. Known(t, c.conn.address)'
    BY <1>1, <1>6 DEF Owned
  <2>4. \A s \in Used : dir[s].text # Empty => Known(dir[s].table, dir[s].text.address)'
    BY <1>1, <1>6, <2>1 DEF Owned, File
  <2>5. \A u \in Table \ {t} : creating[u] # NoTable =>
            Known(u, creating[u].address)' /\ Known(u, creating[u].conn.address)'
    BY <1>1, <1>6 DEF Owned
  <2>6. \A u \in Table : Known(u, adapters[u])'
    BY <1>1, <1>6 DEF Owned
  <2> QED
    BY <1>3, <1>4, <2>2, <2>3, <2>4, <2>5, <2>6 DEF Owned
<1>8. MetadataNamesContract'
  BY <1>1 DEF MetadataNamesContract, Text, get_path_to_file_with_table_metadata, FilesOf, Used
<1> QED
  BY <1>2, <1>5, <1>7, <1>8 DEF IInv

(* The server writes a file and calls create.                              *)
LEMMA CreateIInv ==
    ASSUME IInv, NEW t \in Table, NEW conn \in Conn, NEW s \in Slot, Create(t, conn, s)
    PROVE  IInv'
<1>1. TypeOK /\ HasFile /\ Owned /\ MetadataNamesContract
  BY DEF IInv
<1> DEFINE c == [file |-> s, conn |-> conn, address |-> Absent, at |-> "parse"]
<1>2. c \in Call
  BY DEF Call
<1>3. /\ creating' = [creating EXCEPT ![t] = c]
      /\ tables[t] = NoTable
      /\ s \notin Used
      /\ dir' = [dir EXCEPT ![s] = [table |-> t, text |-> conn]]
      /\ joined' = [joined EXCEPT ![t] = @ \cup ({conn.address} \cap Address)]
      /\ UNCHANGED <<owner, tables, adapters, up, made>>
  BY DEF Create
<1>4. creating'[t] = c /\ \A u \in Table \ {t} : creating'[u] = creating[u]
  BY <1>1, <1>3 DEF TypeOK
<1> HIDE DEF c
<1>5. /\ dir' \in [Slot -> File \cup {NoFile}]
      /\ Used' = Used \cup {s}
      /\ FilesOf(t)' = FilesOf(t) \cup {s}
      /\ \A u \in Table \ {t} :
           /\ FilesOf(u)' = FilesOf(u)
           /\ FilesOf(u) # {} => Text(u)' = Text(u)
      /\ dir'[s] = [table |-> t, text |-> conn]
      /\ \A r \in Used : dir'[r] = dir[r]
  BY <1>1, <1>3, Making
<1>6. TypeOK'
  BY <1>1, <1>2, <1>3, <1>5 DEF TypeOK
<1>7. c.file = s /\ c.conn = conn /\ c.address = Absent
  BY DEF c
<1>8. HasFile'
  BY <1>1, <1>3, <1>4, <1>5, <1>7 DEF HasFile
<1>9. \A u \in Table : \A a : Known(u, a) => Known(u, a)'
  BY <1>1, <1>3 DEF Known, TypeOK
<1>10. Owned'
  <2>1. \A r \in Used : dir[r] \in File
    BY <1>1 DEF TypeOK, Used
  <2>2. Known(t, conn.address)'
    BY <1>1, <1>3 DEF Known, TypeOK
  <2>3. Known(t, Absent)'
    BY AddressAssumption DEF Known
  <2>4. \A r \in Used : dir[r].text # Empty => Known(dir[r].table, dir[r].text.address)'
    BY <1>1, <1>5, <1>9, <2>1 DEF Owned, File
  <2>5. \A u \in Table \ {t} : creating[u] # NoTable =>
            Known(u, creating[u].address)' /\ Known(u, creating[u].conn.address)'
    BY <1>1, <1>4, <1>9 DEF Owned
  <2>6. \A u \in Table : Known(u, adapters[u])'
    BY <1>1, <1>3, <1>9 DEF Owned
  <2>7. (\A r \in Used : dir[r].text # Empty => Known(dir[r].table, dir[r].text.address))'
    <3>1. ASSUME NEW r \in Used
          PROVE  (dir[r].text # Empty => Known(dir[r].table, dir[r].text.address))'
      <4>1. dir'[r] = dir[r]
        BY <1>5
      <4> QED
        BY <4>1, <2>4
    <3>2. Known(dir[s].table, dir[s].text.address)'
      <4>1. dir'[s].table = t /\ dir'[s].text = conn
        BY <1>5
      <4> QED
        BY <4>1, <2>2 DEF Known
    <3> QED
      BY <1>5, <3>1, <3>2
  <2> QED
    BY <1>3, <1>4, <1>7, <2>2, <2>3, <2>5, <2>6, <2>7 DEF Owned, Known
<1>11. MetadataNamesContract'
  <2>1. \A u \in Table : made[u] # Absent => u # t /\ FilesOf(u) # {}
    BY <1>1, <1>3 DEF HasFile
  <2> QED
    BY <1>1, <1>3, <1>5, <2>1 DEF MetadataNamesContract
<1> QED
  BY <1>6, <1>8, <1>10, <1>11 DEF IInv

(* create returns 1.                                                       *)
LEMMA FailIInv ==
    ASSUME IInv, NEW t \in Table, creating[t] # NoTable, Fail(t)
    PROVE  IInv'
<1>1. TypeOK /\ HasFile /\ Owned /\ MetadataNamesContract
  BY DEF IInv
<1>2. creating[t].file \in FilesOf(t) /\ tables[t] = NoTable
  BY <1>1 DEF HasFile
<1>3. /\ dir' = Unlinked(creating[t].file)
      /\ creating' = [creating EXCEPT ![t] = NoTable]
      /\ UNCHANGED <<owner, tables, adapters, up, made, joined>>
  BY DEF Fail
<1>4. /\ dir' \in [Slot -> File \cup {NoFile}]
      /\ Used' = Used \ {creating[t].file}
      /\ \A u \in Table \ {t} :
           /\ FilesOf(u)' = FilesOf(u)
           /\ FilesOf(u) # {} => Text(u)' = Text(u)
      /\ \A r \in Used \ {creating[t].file} : dir'[r] = dir[r]
  BY <1>1, <1>2, <1>3, Removing
<1>5. creating'[t] = NoTable /\ \A u \in Table \ {t} : creating'[u] = creating[u]
  BY <1>1, <1>3 DEF TypeOK
<1>6. TypeOK'
  BY <1>1, <1>3, <1>4 DEF TypeOK
<1>7. HasFile'
  BY <1>1, <1>2, <1>3, <1>4, <1>5 DEF HasFile
<1>8. Owned'
  BY <1>1, <1>3, <1>4, <1>5 DEF Owned, Known
<1>9. MetadataNamesContract'
  <2>1. \A u \in Table : made[u] # Absent => u # t /\ FilesOf(u) # {}
    BY <1>1, <1>2 DEF HasFile
  <2> QED
    BY <1>1, <1>3, <1>4, <2>1 DEF MetadataNamesContract
<1> QED
  BY <1>6, <1>7, <1>8, <1>9 DEF IInv

(* The file of a table is emptied.                                         *)
LEMMA ReadIInv ==
    ASSUME IInv, NEW t \in Table, Step(t, "read"), dir' = Rewritten(t, Empty),
           creating' = [creating EXCEPT ![t].at = "write"],
           UNCHANGED <<owner, tables, adapters, up, made, joined>>
    PROVE  IInv'
<1>1. TypeOK /\ HasFile /\ Owned /\ MetadataNamesContract
  BY DEF IInv
<1>2. creating[t] # NoTable
  BY DEF Step
<1>3. FilesOf(t) # {} /\ tables[t] = NoTable
  BY <1>1, <1>2 DEF HasFile
<1>4. /\ dir' \in [Slot -> File \cup {NoFile}]
      /\ Used' = Used
      /\ \A u \in Table : FilesOf(u)' = FilesOf(u)
      /\ \A u \in Table \ {t} : FilesOf(u) # {} => Text(u)' = Text(u)
      /\ \A s \in Used : /\ dir'[s].table = dir[s].table
                        /\ \/ dir'[s] = dir[s]
                           \/ dir[s].table = t /\ dir'[s].text = Empty
  BY <1>1, <1>3, Rewriting
<1>5. /\ creating[t] \in Call
      /\ creating'[t] = [creating[t] EXCEPT !.at = "write"]
      /\ \A u \in Table \ {t} : creating'[u] = creating[u]
  BY <1>1, <1>2 DEF TypeOK
<1>6. /\ creating'[t] \in Call
      /\ creating'[t].file = creating[t].file
      /\ creating'[t].address = creating[t].address
      /\ creating'[t].conn = creating[t].conn
  BY <1>5 DEF Call
<1>7. TypeOK'
  BY <1>1, <1>4, <1>6 DEF TypeOK
<1>8. HasFile'
  BY <1>1, <1>2, <1>4, <1>5, <1>6 DEF HasFile
<1>9. Owned'
  BY <1>1, <1>2, <1>4, <1>5, <1>6 DEF Owned, Known
<1>10. MetadataNamesContract'
  <2>1. \A u \in Table : made[u] # Absent => u # t /\ FilesOf(u) # {}
    BY <1>1, <1>3 DEF HasFile
  <2> QED
    BY <1>1, <1>4, <2>1 DEF MetadataNamesContract
<1> QED
  BY <1>7, <1>8, <1>9, <1>10 DEF IInv

(* The file of a table gets the address, create returns 0.                 *)
LEMMA WriteIInv ==
    ASSUME IInv, NEW t \in Table, create_Write(t)
    PROVE  IInv'
<1>1. TypeOK /\ HasFile /\ Owned /\ MetadataNamesContract
  BY DEF IInv
<1>2. /\ creating[t] # NoTable
      /\ dir' = Rewritten(t, Updated(t))
      /\ tables' = [tables EXCEPT ![t] = creating[t].file]
      /\ made' = [made EXCEPT ![t] = creating[t].address]
      /\ creating' = [creating EXCEPT ![t] = NoTable]
      /\ UNCHANGED <<owner, adapters, up, joined>>
  BY DEF create_Write, Step
<1>3. creating[t] \in Call /\ creating[t].file \in FilesOf(t) /\ FilesOf(t) # {}
  BY <1>1, <1>2 DEF HasFile, TypeOK
<1>4. Updated(t) \in Conn /\ Updated(t).address = creating[t].address
  BY <1>3 DEF Updated, Call, Conn
<1>5. /\ dir' \in [Slot -> File \cup {NoFile}]
      /\ Used' = Used
      /\ \A u \in Table : FilesOf(u)' = FilesOf(u)
      /\ Text(t)' = Updated(t)
      /\ \A u \in Table \ {t} : FilesOf(u) # {} => Text(u)' = Text(u)
      /\ \A s \in Used : /\ dir'[s].table = dir[s].table
                        /\ \/ dir'[s] = dir[s]
                           \/ dir[s].table = t /\ dir'[s].text = Updated(t)
  BY <1>1, <1>2, <1>3, <1>4, Rewriting
<1>6. /\ creating'[t] = NoTable /\ tables'[t] = creating[t].file
      /\ made'[t] = creating[t].address
      /\ \A u \in Table \ {t} : /\ creating'[u] = creating[u]
                              /\ tables'[u] = tables[u] /\ made'[u] = made[u]
  BY <1>1, <1>2 DEF TypeOK
<1>7. TypeOK'
  BY <1>1, <1>2, <1>3, <1>5 DEF TypeOK, Call
<1>8. HasFile'
  <2>1. tables'[t] # NoTable
    BY <1>3, <1>6, DistinctAssumption DEF Call
  <2> QED
    BY <1>1, <1>3, <1>5, <1>6, <2>1 DEF HasFile
<1>9. Owned'
  BY <1>1, <1>2, <1>4, <1>5, <1>6 DEF Owned, Known
<1>10. MetadataNamesContract'
  <2>1. \A u \in Table \ {t} : made[u] # Absent => FilesOf(u) # {}
    BY <1>1 DEF HasFile
  <2>2. Updated(t) # Empty
    BY <1>4, DistinctAssumption
  <2> QED
    BY <1>1, <1>4, <1>5, <1>6, <2>1, <2>2 DEF MetadataNamesContract
<1> QED
  BY <1>7, <1>8, <1>9, <1>10 DEF IInv

(* A table is opened or closed.                                            *)
LEMMA AdapterIInv ==
    ASSUME IInv, NEW t \in Table, NEW a \in Address \cup {Blank, NoTable}, Known(t, a),
           adapters' = [adapters EXCEPT ![t] = a],
           UNCHANGED <<owner, dir, tables, creating, up, made, joined>>
    PROVE  IInv'
<1>1. TypeOK /\ HasFile /\ Owned /\ MetadataNamesContract
  BY DEF IInv
<1>2. adapters'[t] = a /\ \A u \in Table \ {t} : adapters'[u] = adapters[u]
  BY <1>1 DEF TypeOK
<1>3. TypeOK'
  BY <1>1 DEF TypeOK
<1>4. HasFile'
  BY <1>1 DEF HasFile, FilesOf, Used
<1>5. Owned'
  BY <1>1, <1>2 DEF Owned, Known, Used
<1>6. MetadataNamesContract'
  BY <1>1 DEF MetadataNamesContract, Text, get_path_to_file_with_table_metadata, FilesOf, Used
<1> QED
  BY <1>3, <1>4, <1>5, <1>6 DEF IInv

(* A table is dropped.                                                     *)
LEMMA DropIInv ==
    ASSUME IInv, NEW t \in Table, delete_table(t)
    PROVE  IInv'
<1>1. TypeOK /\ HasFile /\ Owned /\ MetadataNamesContract
  BY DEF IInv
<1>2. /\ tables[t] # NoTable
      /\ dir' = Unlinked(tables[t])
      /\ tables' = [tables EXCEPT ![t] = NoTable]
      /\ made' = [made EXCEPT ![t] = Absent]
      /\ UNCHANGED <<owner, creating, adapters, up, joined>>
  BY DEF delete_table
<1>3. tables[t] \in FilesOf(t) /\ creating[t] = NoTable
  BY <1>1, <1>2 DEF HasFile
<1>4. /\ dir' \in [Slot -> File \cup {NoFile}]
      /\ Used' = Used \ {tables[t]}
      /\ \A u \in Table \ {t} :
           /\ FilesOf(u)' = FilesOf(u)
           /\ FilesOf(u) # {} => Text(u)' = Text(u)
      /\ \A r \in Used \ {tables[t]} : dir'[r] = dir[r]
  BY <1>1, <1>2, <1>3, Removing
<1>5. /\ tables'[t] = NoTable /\ made'[t] = Absent
      /\ \A u \in Table \ {t} : tables'[u] = tables[u] /\ made'[u] = made[u]
  BY <1>1, <1>2 DEF TypeOK
<1>6. TypeOK'
  BY <1>1, <1>2, <1>4 DEF TypeOK
<1>7. HasFile'
  BY <1>1, <1>2, <1>3, <1>4, <1>5 DEF HasFile
<1>8. Owned'
  BY <1>1, <1>2, <1>4 DEF Owned, Known
<1>9. MetadataNamesContract'
  <2>1. \A u \in Table : made[u] # Absent => FilesOf(u) # {}
    BY <1>1 DEF HasFile
  <2> QED
    BY <1>1, <1>4, <1>5, <2>1 DEF MetadataNamesContract
<1> QED
  BY <1>6, <1>7, <1>8, <1>9 DEF IInv
-----------------------------------------------------------------------------
(* Every step keeps the invariant.                                         *)
LEMMA NextIInv == IInv /\ [Next]_vars => IInv'
<1> SUFFICES ASSUME IInv, [Next]_vars PROVE IInv'
  OBVIOUS
<1>1. TypeOK /\ HasFile /\ Owned /\ MetadataNamesContract
  BY DEF IInv
<1>2. ASSUME NEW t \in Table, NEW c \in Conns, NEW s \in Slot, Create(t, c, s)
      PROVE  IInv'
  BY <1>2, CreateIInv DEF Conns
<1>3. ASSUME NEW t \in Table, create_NotJson(t)
      PROVE  IInv'
  BY <1>3, FailIInv DEF create_NotJson, Step
<1>4. ASSUME NEW t \in Table, create_Join(t)
      PROVE  IInv'
  <2> DEFINE c == [creating[t] EXCEPT !.at = "read", !.address = Blank]
  <2>1. creating[t] # NoTable /\ creating[t] \in Call
    BY <1>1, <1>4 DEF create_Join, Step, TypeOK
  <2>2. /\ c \in Call /\ c.file = creating[t].file /\ c.conn = creating[t].conn
        /\ c.address \notin Address
    BY <2>1, AddressAssumption DEF Call
  <2>3. creating' = [creating EXCEPT ![t] = c]
    BY <1>1, <1>4 DEF create_Join, TypeOK
  <2>4. /\ owner' = owner /\ owner' \in [Address -> Table \cup {Nobody, Foreign}]
        /\ UNCHANGED <<dir, tables, adapters, up, made, joined>>
    BY <1>1, <1>4 DEF create_Join, TypeOK
  <2> HIDE DEF c
  <2> QED
    BY <2>1, <2>2, <2>3, <2>4, CallIInv
<1>5. ASSUME NEW t \in Table, create_New(t)
      PROVE  IInv'
  <2> DEFINE c == [creating[t] EXCEPT !.at = "deploy"]
  <2>1. creating[t] # NoTable /\ creating[t] \in Call
    BY <1>1, <1>5 DEF create_New, Step, TypeOK
  <2>2. CASE Fail(t)
    BY <2>1, <2>2, FailIInv
  <2>3. CASE /\ creating' = [creating EXCEPT ![t].at = "deploy"]
             /\ UNCHANGED <<owner, dir, tables, adapters, up, made, joined>>
    <3>1. /\ c \in Call /\ c.file = creating[t].file /\ c.conn = creating[t].conn
          /\ c.address = creating[t].address
      BY <2>1 DEF Call
    <3>2. creating' = [creating EXCEPT ![t] = c]
      BY <1>1, <2>3 DEF TypeOK
    <3> HIDE DEF c
    <3>3. TypeOK'
      BY <1>1, <2>3, <3>1, <3>2 DEF TypeOK
    <3>4. HasFile'
      BY <1>1, <2>1, <2>3, <3>1, <3>2 DEF HasFile, FilesOf, Used, TypeOK
    <3>5. Owned'
      BY <1>1, <2>1, <2>3, <3>1, <3>2 DEF Owned, Known, Used, TypeOK
    <3>6. MetadataNamesContract'
      BY <1>1, <2>3 DEF MetadataNamesContract, Text, get_path_to_file_with_table_metadata, FilesOf, Used
    <3> QED
      BY <3>3, <3>4, <3>5, <3>6 DEF IInv
  <2> QED
    BY <1>5, <2>2, <2>3 DEF create_New
<1>6. ASSUME NEW t \in Table, create_table(t)
      PROVE  IInv'
  <2>1. creating[t] # NoTable /\ creating[t] \in Call
    BY <1>1, <1>6 DEF create_table, Step, TypeOK
  <2>2. PICK a \in Address :
          /\ owner[a] = Nobody
          /\ owner' = [owner EXCEPT ![a] = t]
          /\ creating' = [creating EXCEPT ![t].at = "read", ![t].address = a]
    BY <1>6 DEF create_table, NewContract
  <2> DEFINE c == [creating[t] EXCEPT !.at = "read", !.address = a]
  <2>3. /\ c \in Call /\ c.file = creating[t].file /\ c.conn = creating[t].conn
        /\ c.address = a
    BY <2>1 DEF Call
  <2>4. creating' = [creating EXCEPT ![t] = c]
    BY <1>1, <2>2 DEF TypeOK
  <2>5. /\ owner' \in [Address -> Table \cup {Nobody, Foreign}]
        /\ \A b \in Address : owner'[b] = owner[b] \/ owner[b] = Nobody
        /\ owner'[a] = t
    BY <1>1, <2>2 DEF TypeOK
  <2>6. UNCHANGED <<dir, tables, adapters, up, made, joined>>
    BY <1>6 DEF create_table
  <2> HIDE DEF c
  <2> QED
    BY <2>1, <2>3, <2>4, <2>5, <2>6, CallIInv
<1>7. ASSUME NEW t \in Table, create_table_Fails(t)
      PROVE  IInv'
  <2>1. creating[t] # NoTable /\ creating[t] \in Call
    BY <1>1, <1>7 DEF create_table_Fails, Step, TypeOK
  <2>2. /\ owner' \in [Address -> Table \cup {Nobody, Foreign}]
        /\ \A b \in Address : owner'[b] = owner[b] \/ owner[b] = Nobody
    BY <1>1, <1>7 DEF create_table_Fails, NewContract, TypeOK
  <2>3. UNCHANGED <<dir, made, joined>>
    BY <1>7 DEF create_table_Fails
  <2>4. CASE Dies
    BY <2>2, <2>3, <2>4, DiesIInv
  <2>5. CASE /\ creating' = [creating EXCEPT ![t].at = "read", ![t].address = Blank]
             /\ UNCHANGED <<tables, adapters, up>>
    <3> DEFINE c == [creating[t] EXCEPT !.at = "read", !.address = Blank]
    <3>1. /\ c \in Call /\ c.file = creating[t].file /\ c.conn = creating[t].conn
          /\ c.address \notin Address
      BY <2>1, AddressAssumption DEF Call
    <3>2. creating' = [creating EXCEPT ![t] = c]
      BY <1>1, <2>5 DEF TypeOK
    <3> HIDE DEF c
    <3> QED
      BY <2>1, <2>2, <2>3, <2>5, <3>1, <3>2, CallIInv
  <2> QED
    BY <1>7, <2>4, <2>5 DEF create_table_Fails
<1>8. ASSUME NEW t \in Table, create_Read(t)
      PROVE  IInv'
  <2>1. CASE Dies /\ UNCHANGED dir
    BY <1>1, <1>8, <2>1, DiesIInv DEF create_Read, TypeOK
  <2>2. CASE /\ dir' = Rewritten(t, Empty)
             /\ creating' = [creating EXCEPT ![t].at = "write"]
             /\ UNCHANGED <<tables, adapters, up>>
    BY <1>8, <2>2, ReadIInv DEF create_Read
  <2> QED
    BY <1>8, <2>1, <2>2 DEF create_Read
<1>9. ASSUME NEW t \in Table, create_Write(t)
      PROVE  IInv'
  BY <1>9, WriteIInv
<1>10. ASSUME NEW t \in Table, open(t)
       PROVE  IInv'
  <2>1. CASE Dies
    BY <1>1, <1>10, <2>1, DiesIInv DEF open, TypeOK
  <2>2. CASE /\ Text(t) # Empty /\ load_table(t) # Absent
             /\ adapters' = [adapters EXCEPT ![t] = IF @ = NoTable THEN load_table(t) ELSE @]
             /\ UNCHANGED <<tables, creating, up>>
    <3>1. FilesOf(t) # {}
      BY <1>1, <1>10 DEF open, HasFile
    <3>2. /\ get_path_to_file_with_table_metadata(t) \in Used
          /\ dir[get_path_to_file_with_table_metadata(t)].table = t
          /\ Text(t) \in Conn
      BY <1>1, <2>2, <3>1, PathType
    <3>3. Known(t, load_table(t)) /\ load_table(t) \in Address \cup {Blank}
      BY <1>1, <2>2, <3>2 DEF Owned, load_table, Text, Conn
    <3>4. PICK a : a = IF adapters[t] = NoTable THEN load_table(t) ELSE adapters[t]
      OBVIOUS
    <3>5. a \in Address \cup {Blank, NoTable} /\ Known(t, a)
      BY <1>1, <3>3, <3>4 DEF Owned, TypeOK
    <3>6. adapters' = [adapters EXCEPT ![t] = a]
      BY <1>1, <2>2, <3>4 DEF TypeOK
    <3>7. UNCHANGED <<owner, dir, tables, creating, up, made, joined>>
      BY <1>10, <2>2 DEF open
    <3> QED
      BY <3>5, <3>6, <3>7, AdapterIInv
  <2> QED
    BY <1>10, <2>1, <2>2 DEF open
<1>11. ASSUME NEW t \in Table, close(t)
       PROVE  IInv'
  <2>1. Known(t, NoTable)
    BY DistinctAssumption DEF Known
  <2> QED
    BY <1>11, <2>1, AdapterIInv DEF close
<1>12. ASSUME NEW t \in Table, delete_table(t)
       PROVE  IInv'
  BY <1>12, DropIInv
<1>13. ASSUME Crash
       PROVE  IInv'
  BY <1>1, <1>13, DiesIInv DEF Crash, TypeOK
<1>14. ASSUME Restart
       PROVE  IInv'
  <2>1. TypeOK'
    BY <1>1, <1>14 DEF Restart, TypeOK
  <2>2. HasFile'
    BY <1>1, <1>14 DEF Restart, HasFile, FilesOf, Used
  <2>3. Owned'
    BY <1>1, <1>14 DEF Restart, Owned, Known, Used
  <2>4. MetadataNamesContract'
    BY <1>1, <1>14 DEF Restart, MetadataNamesContract, Text, get_path_to_file_with_table_metadata, FilesOf, Used
  <2> QED
    BY <2>1, <2>2, <2>3, <2>4 DEF IInv
<1>15. ASSUME UNCHANGED vars
       PROVE  IInv'
  <2>1. TypeOK'
    BY <1>1, <1>15 DEF vars, TypeOK
  <2>2. HasFile'
    BY <1>1, <1>15 DEF vars, HasFile, FilesOf, Used
  <2>3. Owned'
    BY <1>1, <1>15 DEF vars, Owned, Known, Used
  <2>4. MetadataNamesContract'
    BY <1>1, <1>15 DEF vars, MetadataNamesContract, Text, get_path_to_file_with_table_metadata, FilesOf, Used
  <2> QED
    BY <2>1, <2>2, <2>3, <2>4 DEF IInv
<1> QED
  BY <1>2, <1>3, <1>4, <1>5, <1>6, <1>7, <1>8, <1>9, <1>10, <1>11, <1>12,
     <1>13, <1>14, <1>15 DEF Next

(* The inductive invariant holds in every state.                           *)
THEOREM Invariance == Spec => []IInv
<1> QED
  BY InitIInv, NextIInv, PTL DEF Spec

(* The state of creates, files and adapters has the types the code's       *)
(* variables have.                                                         *)
THEOREM TypeCorrect == Spec => []TypeOK
<1>1. IInv => TypeOK
  BY DEF IInv
<1> QED
  BY <1>1, Invariance, PTL

(* An open table is connected to a contract that was deployed for it or    *)
(* whose address was given for it (open, create).                          *)
THEOREM TablesKeepApart == Spec => []OwnContract
<1>1. IInv => OwnContract
  BY DEF IInv, Owned, Known, OwnContract
<1> QED
  BY <1>1, Invariance, PTL

(* The file that open finds for a table whose create returned 0 holds the  *)
(* address of that create (create, get_path_to_file_with_table_metadata).  *)
THEOREM CreatedIsNamed == Spec => []MetadataNamesContract
<1>1. IInv => MetadataNamesContract
  BY DEF IInv
<1> QED
  BY <1>1, Invariance, PTL
=============================================================================
