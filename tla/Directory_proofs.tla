-------------------------- MODULE Directory_proofs --------------------------
(***************************************************************************)
(* The tables of directory entries, and where the calls of the host lead,  *)
(* for any directories, paths and number of listings.                      *)
(*                                                                         *)
(* IInv says which inode and which place of a directory get_dir_entry is   *)
(* at, that a table that is being read fits its chunks, and that the       *)
(* number kept with a table that is there is the number of its entries.    *)
(*                                                                         *)
(* CallsInv relates a call to the tree: what get_dir_entry has read is the *)
(* first part of the entries of its directory, this is the directory that  *)
(* the walked names of the path mean, and the listing of the handle the    *)
(* table belongs to has been given the names up to its place.  Entries,    *)
(* paths and names of a listing are recursive functions of the model;      *)
(* Iterates is what their equations rest on.                               *)
(***************************************************************************)
EXTENDS Directory, FiniteSetTheorems, WellFoundedInduction, SequenceTheorems, TLAPS

(* Where get_dir_entry is. *)
AtPlace ==
  /\ pc \in {"inode", "block", "entry", "null"} => reading \in DOMAIN tree \cup {0}
  /\ pc \in {"block", "entry"} => reading \in DOMAIN tree
  /\ pc \in {"inode", "block"} => nr_blk < blk
  /\ pc = "entry" => /\ blk \in 1 .. Len(tree[reading]) /\ nr_blk \in 1 .. blk
                     /\ off \in 1 .. Len(tree[reading][nr_blk])

(* The chunks of the table that is being read. *)
HasRoom ==
  /\ tab_dir \in Seq(DirEntries)
  /\ Len(tab_dir) <= ChunkSize * nChunks

(* The table of the plugin, and that of get_ext2_inode. *)
Tables ==
  /\ dir_entries \in Seq(DirEntries) \cup {NULL}
  /\ dirs \in Seq(DirEntries) \cup {NULL}
  /\ dir_entries # NULL => dir_entry_num = Len(dir_entries)
  /\ dirs # NULL => entry_num = Len(dirs)
  /\ op = "find" /\ pc = "walk" => dir_entries # NULL

(* The part of the path that is still to be walked ends where the path ends. *)
IsRest ==
  \E k \in 0 .. Len(asked) : rest = SubSeq(convPath(asked), k + 1, Len(asked))

(* The types of what get_dir_entry changes, of the truth values and of the
   rest. *)
ReadTypes ==
  /\ pc \in {"idle", "inode", "block", "entry", "null", "no table", "walk", "undefined"}
  /\ reading \in Nat /\ blk \in Nat \ {0} /\ nr_blk \in Nat /\ off \in Nat \ {0}
  /\ nChunks \in Nat

Flags == found \in BOOLEAN /\ failed \in {"no", "read", "map"}

Types ==
  /\ tree \in Trees
  /\ op \in {"none", "find", "get"} /\ caller \in Handles \cup {NULL}
  /\ asked \in Paths \cup {<<>>}
  /\ dir_entry_num \in Nat /\ entry_num \in Nat
  /\ got \in Nat \cup {NULL}
  /\ find \in [Handles -> Nat \cup {NULL}]
  /\ owner \in Handles \cup {NULL} /\ owned \in Paths \cup {<<>>}

IInv == Types /\ ReadTypes /\ Flags /\ IsRest /\ AtPlace /\ HasRoom /\ Tables

(* Why get_dir_entry returns NULL without a failure, and why get_ext2_inode
   then has a number of entries without a table. *)
NullHasCause ==
  failed = "no" =>
    /\ pc = "null" => reading = 0
    /\ pc = "walk" /\ op = "get" /\ dirs = NULL /\ entry_num > 0 => reading \notin DOMAIN tree

-----------------------------------------------------------------------------
(* What the assumptions say of a tree. *)
LEMMA TreeFacts ==
  ASSUME tree \in Trees
  PROVE  /\ EXT4_ROOT_INO \in DOMAIN tree
         /\ 0 \notin DOMAIN tree
         /\ \A ino \in DOMAIN tree : tree[ino] \in Seq(Seq(DirEntries))
         /\ \A ino \in DOMAIN tree : \A b \in 1 .. Len(tree[ino]) :
              /\ tree[ino][b] \in Seq(DirEntries)
              /\ Len(tree[ino][b]) \in Nat \ {0}
<1>1. IsTree(tree)
  BY DirectoryAssumption
<1>2. \A ino \in DOMAIN tree : tree[ino] \in Seq(Seq(DirEntries))
  BY <1>1 DEF IsTree
<1>3. ASSUME NEW ino \in DOMAIN tree, NEW b \in 1 .. Len(tree[ino])
      PROVE  tree[ino][b] \in Seq(DirEntries) /\ Len(tree[ino][b]) \in Nat \ {0}
  <2>1. tree[ino][b] \in Seq(DirEntries)
    BY <1>2, <1>3, ElementOfSeq
  <2>2. tree[ino][b] # <<>>
    BY <1>1, <1>3 DEF IsTree
  <2> QED BY <2>1, <2>2, EmptySeq
<1> QED BY <1>1, <1>2, <1>3 DEF IsTree

(* Every non-empty set of numbers has a smallest element, so First is one. *)
LEMMA FirstIsIn ==
  ASSUME NEW S \in SUBSET Nat, S # {}
  PROVE  First(S) \in S /\ \A k \in S : First(S) <= k
<1>1. PICK m \in S : \A k \in S : ~(<<k, m>> \in OpToRel(<, Nat))
  BY NatLessThanWellFounded, WFMin
<1>2. \A k \in S : k \in Nat /\ m \in Nat
  OBVIOUS
<1>3. \A k \in S : ~(k < m)
  BY <1>1, <1>2 DEF OpToRel
<1>4. \A k \in S : m <= k
  BY <1>2, <1>3
<1> QED BY <1>4 DEF First

(* The converted path has a name for every name of the path. *)
LEMMA ConvPathIsPath ==
  ASSUME NEW path \in Paths \cup {<<>>}
  PROVE  /\ Len(path) \in Nat
         /\ convPath(path) \in Seq({ToUtf8[name] : name \in DOMAIN ToUtf8})
         /\ Len(convPath(path)) = Len(path)
<1>1. path \in Seq(DOMAIN ToUtf8)
  BY DirectoryAssumption, EmptySeq
<1>2. DOMAIN path = 1 .. Len(path) /\ Len(path) \in Nat
  BY <1>1, LenProperties
<1>3. \A k \in 1 .. Len(path) : path[k] \in DOMAIN ToUtf8
  BY <1>1, ElementOfSeq
<1>4. convPath(path) \in [1 .. Len(path) -> {ToUtf8[name] : name \in DOMAIN ToUtf8}]
  BY <1>2, <1>3 DEF convPath
<1> QED BY <1>2, <1>4, SeqDef, LenProperties

(* At the begin of a call the whole path is to be walked. *)
LEMMA WholePath ==
  ASSUME NEW path \in Paths \cup {<<>>}
  PROVE  convPath(path) = SubSeq(convPath(path), 0 + 1, Len(path))
<1> DEFINE S == {ToUtf8[name] : name \in DOMAIN ToUtf8}
           c == convPath(path)
<1>1. c \in Seq(S) /\ Len(c) = Len(path) /\ Len(c) \in Nat
  BY ConvPathIsPath
<1> HIDE DEF S, c
<1>2. c = SubSeq(c, 1, Len(c))
  BY <1>1, SubSeqFull
<1> QED BY <1>1, <1>2 DEF c

(* A name taken off, what is left still ends where the path ends. *)
LEMMA TailIsRest ==
  ASSUME asked \in Paths \cup {<<>>}, IsRest, rest # <<>>
  PROVE  \E k \in 0 .. Len(asked) : Tail(rest) = SubSeq(convPath(asked), k + 1, Len(asked))
<1> DEFINE S == {ToUtf8[name] : name \in DOMAIN ToUtf8}
           c == convPath(asked)
<1>1. c \in Seq(S) /\ Len(c) = Len(asked) /\ Len(c) \in Nat
  BY ConvPathIsPath
<1>2. PICK k \in 0 .. Len(asked) : rest = SubSeq(c, k + 1, Len(asked))
  BY DEF IsRest
<1> HIDE DEF S, c
<1>3. k + 1 <= Len(c)
  BY <1>1, <1>2, SubSeqEmpty
<1>4. Tail(rest) = SubSeq(c, (k + 1) + 1, Len(c))
  BY <1>1, <1>2, <1>3, HeadTailOfSubSeq
<1> QED BY <1>1, <1>3, <1>4 DEF c

-----------------------------------------------------------------------------
(* The steps that several actions share. *)

(* get_dir_entry begins at the first block, with no table. *)
LEMMA BeginOfRead ==
  ASSUME IInv, NEW n \in Nat, get_dir_entry(n), tree' = tree
  PROVE  /\ pc' \in {"inode", "undefined"}
         /\ reading' \in Nat /\ blk' \in Nat \ {0} /\ nr_blk' \in Nat /\ off' \in Nat \ {0}
         /\ nChunks' \in Nat /\ AtPlace' /\ HasRoom'
<1>1. <<>> \in Seq(DirEntries) /\ Len(<<>>) = 0
  BY EmptySeq
<1>2. ChunkSize * 0 = 0
  BY DirectoryAssumption
<1> QED BY <1>1, <1>2 DEF get_dir_entry, AtPlace, HasRoom

(* The table that get_dir_entry returns, and its length. *)
LEMMA ReturnedTable ==
  ASSUME IInv, NEW num \in Nat
  PROVE  /\ table \in Seq(DirEntries) \cup {NULL}
         /\ table # NULL => read_dirs(num) = Len(table)
         /\ read_dirs(num) \in Nat
<1>1. tab_dir \in Seq(DirEntries) /\ Len(tab_dir) \in Nat
  BY LenProperties DEF IInv, HasRoom
<1> QED BY <1>1 DEF table, read_dirs

(* An entry of a table of the right length has an inode number. *)
LEMMA EntryHasInode ==
  ASSUME NEW t \in Seq(DirEntries), NEW S \in SUBSET (1 .. Len(t)), S # {}
  PROVE  /\ First(S) \in S
         /\ t[First(S)] \in DirEntries
         /\ t[First(S)].inode \in Nat
<1>1. Len(t) \in Nat
  BY LenProperties
<1>2. First(S) \in S
  BY <1>1, FirstIsIn
<1>3. t[First(S)] \in DirEntries
  BY <1>2, ElementOfSeq
<1> QED BY <1>2, <1>3 DEF DirEntries

(* A listing that is shown an entry keeps its place. *)
LEMMA PlaceIsKept ==
  ASSUME find \in [Handles -> Nat \cup {NULL}], NEW h, NEW k \in Nat
  PROVE  [find EXCEPT ![h] = k] \in [Handles -> Nat \cup {NULL}]
OBVIOUS

-----------------------------------------------------------------------------
LEMMA InitEstablishes == Init => IInv
<1> SUFFICES ASSUME Init PROVE IInv
  OBVIOUS
<1>1. <<>> \in Seq(DirEntries) /\ Len(<<>>) = 0
  BY EmptySeq
<1>2. Types /\ ReadTypes
  BY DEF Init, Types, ReadTypes, EXT4_ROOT_INO
<1>3. found = FALSE /\ failed = "no"
  BY DEF Init
<1>4. IsRest
  <2>1. convPath(<<>>) \in Seq({ToUtf8[name] : name \in DOMAIN ToUtf8}) /\ Len(convPath(<<>>)) = 0
    BY ConvPathIsPath, EmptySeq
  <2>2. SubSeq(convPath(<<>>), 0 + 1, 0) = <<>>
    BY SubSeqEmpty
  <2> QED BY <1>1, <2>2 DEF Init, IsRest
<1>5. AtPlace /\ HasRoom /\ Tables
  <2>1. ChunkSize * 0 = 0
    BY DirectoryAssumption
  <2> QED BY <1>1, <2>1 DEF Init, AtPlace, HasRoom, Tables
<1> QED BY <1>2, <1>3, <1>4, <1>5 DEF IInv, Flags

(* Nothing of the directories is read. *)
LEMMA ReadInodeInv == IInv /\ ReadInode => IInv'
<1> SUFFICES ASSUME IInv, ReadInode PROVE IInv'
  OBVIOUS
<1>1. Types' /\ ReadTypes'
  <2>1. Types'
    BY DEF IInv, Types, ReadInode, callVars, tableVars, lookupVars, listingVars
  <2>2. ReadTypes'
    BY DEF IInv, ReadTypes, ReadInode, ReadFails, readVars
  <2> QED BY <2>1, <2>2
<1>2. Flags'
  <2>1. found' = found /\ (failed' = AfterFailedRead \/ failed' = failed)
    BY Zenon DEF ReadInode, ReadFails, lookupVars
  <2> QED BY <2>1 DEF IInv, Flags, AfterFailedRead
<1>3. IsRest'
  BY DEF IInv, IsRest, ReadInode, callVars, convPath
<1>4. AtPlace' /\ HasRoom' /\ Tables'
  BY DEF IInv, AtPlace, HasRoom, Tables, ReadInode, ReadFails, callVars, readVars, tableVars,
         lookupVars
<1> QED BY <1>1, <1>2, <1>3, <1>4 DEF IInv

LEMMA ReadBlockInv == IInv /\ ReadBlock => IInv'
<1> SUFFICES ASSUME IInv, ReadBlock PROVE IInv'
  OBVIOUS
<1>1. Types' /\ ReadTypes'
  <2>1. Types'
    BY DEF IInv, Types, ReadBlock, callVars, tableVars, lookupVars, listingVars
  <2>2. ReadTypes'
    <3>1. /\ pc' \in {"null", "entry", "undefined"}
          /\ reading' = reading /\ blk' = blk /\ nChunks' = nChunks
      BY DEF ReadBlock, ReadFails, Mapped, Unmapped, MapCrashes, readVars
    <3>2. (off' = off \/ off' = 1) /\ nr_blk' \in {nr_blk, nr_blk + 1, blk}
      BY DEF ReadBlock, ReadFails, Mapped, Unmapped, MapCrashes, readVars
    <3>3. pc' \in {"idle", "inode", "block", "entry", "null", "no table", "walk", "undefined"}
      BY <3>1
    <3>4. reading \in Nat /\ blk \in Nat \ {0} /\ nr_blk \in Nat /\ off \in Nat \ {0} /\ nChunks \in Nat
      BY DEF IInv, ReadTypes
    <3>5. off' \in Nat \ {0} /\ nr_blk' \in Nat
      BY <3>2, <3>4
    <3> QED BY <3>1, <3>3, <3>4, <3>5 DEF ReadTypes
  <2> QED BY <2>1, <2>2
<1>2. Flags'
  <2>1. found' = found /\ failed' \in {"map", AfterFailedRead, failed}
    BY Zenon DEF ReadBlock, ReadFails, Mapped, Unmapped, MapCrashes, lookupVars
  <2> QED BY <2>1 DEF IInv, Flags, AfterFailedRead
<1>3. IsRest'
  BY DEF IInv, IsRest, ReadBlock, callVars, convPath
<1>4. AtPlace'
  <2>1. reading \in DOMAIN tree /\ blk \in Nat \ {0} /\ blk <= Len(tree[reading])
    BY DEF IInv, AtPlace, ReadTypes, ReadBlock
  <2>2. Len(tree[reading]) \in Nat
    BY <2>1, TreeFacts, LenProperties DEF IInv, Types
  <2>3. blk \in 1 .. Len(tree[reading])
    BY <2>1, <2>2
  <2>4. nr_blk \in Nat /\ nr_blk < blk
    BY DEF IInv, AtPlace, ReadTypes, ReadBlock
  <2>5. \A k \in 1 .. Len(tree[reading]) : Len(tree[reading][k]) \in Nat \ {0}
    BY <2>1, TreeFacts DEF IInv, Types
  <2>6. CASE ReadFails
    BY <2>1, <2>6 DEF AtPlace, ReadBlock, ReadFails, readVars
  <2>7. CASE Unmapped
    <3>1. /\ reading' = reading /\ blk' = blk /\ nr_blk' = nr_blk /\ off' = 1 /\ tree' = tree
          /\ pc' = IF nr_blk = 0 THEN "undefined" ELSE "entry"
      BY <2>7 DEF ReadBlock, Unmapped
    <3>2. CASE nr_blk = 0
      BY <3>1, <3>2 DEF AtPlace
    <3>3. CASE nr_blk # 0
      <4>1. nr_blk \in 1 .. blk /\ nr_blk \in 1 .. Len(tree[reading])
        BY <2>3, <2>4, <3>3
      <4>2. 1 \in 1 .. Len(tree[reading][nr_blk])
        BY <2>5, <4>1
      <4> QED BY <2>1, <2>3, <3>1, <3>3, <4>1, <4>2 DEF AtPlace
    <3> QED BY <3>2, <3>3
  <2>8. CASE Mapped
    <3>1. /\ reading' = reading /\ blk' = blk /\ off' = 1 /\ tree' = tree /\ pc' = "entry"
          /\ nr_blk' = blk \/ nr_blk' = nr_blk + 1
      BY <2>8 DEF ReadBlock, Mapped
    <3>2. nr_blk' \in 1 .. blk /\ nr_blk' \in 1 .. Len(tree[reading])
      BY <2>3, <2>4, <3>1
    <3>3. 1 \in 1 .. Len(tree[reading][nr_blk'])
      BY <2>5, <3>2
    <3> QED BY <2>1, <2>3, <3>1, <3>2, <3>3 DEF AtPlace
  <2>9. CASE MapCrashes
    BY <2>9 DEF AtPlace, MapCrashes
  <2> QED BY <2>6, <2>7, <2>8, <2>9 DEF ReadBlock
<1>5. HasRoom' /\ Tables'
  BY DEF IInv, HasRoom, Tables, ReadBlock, ReadFails, Mapped, Unmapped, MapCrashes, callVars,
         readVars, tableVars, lookupVars
<1> QED BY <1>1, <1>2, <1>3, <1>4, <1>5 DEF IInv

(* There is room for the entry, and after it for another one. *)
LEMMA ReadEntryInv == IInv /\ ReadEntry => IInv'
<1> SUFFICES ASSUME IInv, ReadEntry PROVE IInv'
  OBVIOUS
<1>1. /\ reading \in DOMAIN tree /\ blk \in 1 .. Len(tree[reading])
      /\ nr_blk \in 1 .. blk /\ off \in 1 .. Len(tree[reading][nr_blk])
  BY DEF IInv, AtPlace, ReadEntry
<1>2. tree[reading][nr_blk] \in Seq(DirEntries)
  <2>1. nr_blk \in 1 .. Len(tree[reading])
    BY <1>1
  <2> QED BY <1>1, <2>1, TreeFacts DEF IInv, Types
<1>3. tree[reading][nr_blk][off] \in DirEntries
  BY <1>1, <1>2, ElementOfSeq
<1>4. /\ tab_dir' \in Seq(DirEntries) /\ Len(tab_dir') = Len(tab_dir) + 1
      /\ Len(tab_dir) \in Nat
  BY <1>3, AppendProperties, LenProperties DEF IInv, HasRoom, ReadEntry
<1>5. ChunkSize \in Nat \ {0} /\ nChunks \in Nat
  BY DirectoryAssumption DEF IInv, ReadTypes
<1>6. nChunks' = (IF Len(tab_dir) + 1 >= ChunkSize * nChunks THEN nChunks + 1 ELSE nChunks)
  BY DEF ReadEntry, Chunks
<1>7. HasRoom'
  <2> DEFINE room == ChunkSize * nChunks
  <2>1. ChunkSize * (nChunks + 1) = room + ChunkSize
    BY <1>5
  <2>2. room \in Nat /\ Len(tab_dir) <= room
    BY <1>5 DEF IInv, HasRoom
  <2>3. ChunkSize * nChunks' = (IF Len(tab_dir) + 1 >= room THEN room + ChunkSize ELSE room)
    BY <1>6, <2>1
  <2> HIDE DEF room
  <2>4. Len(tab_dir) + 1 <= ChunkSize * nChunks'
    BY <1>4, <1>5, <2>2, <2>3
  <2> QED BY <1>4, <2>4 DEF HasRoom
<1>8. Types' /\ ReadTypes'
  <2>1. Types'
    BY DEF IInv, Types, ReadEntry, callVars, tableVars, lookupVars, listingVars
  <2>2. nChunks' \in Nat
    BY <1>5, <1>6
  <2>3. pc' \in {"entry", "block"} /\ reading' = reading /\ nr_blk' = nr_blk
    BY DEF ReadEntry
  <2>4. (blk' = blk \/ blk' = blk + 1) /\ (off' = off \/ off' = off + 1)
    <3>1. CASE off < Len(tree[reading][nr_blk])
      BY <3>1 DEF ReadEntry
    <3>2. CASE ~(off < Len(tree[reading][nr_blk]))
      BY <3>2 DEF ReadEntry
    <3> QED BY <3>1, <3>2
  <2>5. reading \in Nat /\ blk \in Nat \ {0} /\ nr_blk \in Nat /\ off \in Nat \ {0}
    BY DEF IInv, ReadTypes
  <2>6. blk' \in Nat \ {0} /\ nr_blk' \in Nat /\ off' \in Nat \ {0} /\ reading' \in Nat
    BY <2>3, <2>4, <2>5
  <2>7. pc' \in {"idle", "inode", "block", "entry", "null", "no table", "walk", "undefined"}
    BY <2>3
  <2> QED BY <2>1, <2>2, <2>6, <2>7 DEF ReadTypes
<1>9. Flags'
  <2>1. found' = found /\ failed' = failed
    BY Zenon DEF ReadEntry, lookupVars
  <2> QED BY <2>1 DEF IInv, Flags
<1>10. IsRest'
  BY DEF IInv, IsRest, ReadEntry, callVars, convPath
<1>11. AtPlace'
  <2>1. reading' = reading /\ nr_blk' = nr_blk /\ tree' = tree
    BY DEF ReadEntry
  <2>2. Len(tree[reading][nr_blk]) \in Nat
    BY <1>2, LenProperties
  <2>3. CASE off < Len(tree[reading][nr_blk])
    <3>1. off' = off + 1 /\ pc' = pc /\ blk' = blk /\ pc = "entry"
      BY <2>3 DEF ReadEntry
    <3> QED BY <1>1, <2>1, <2>2, <2>3, <3>1 DEF AtPlace
  <2>4. CASE ~(off < Len(tree[reading][nr_blk]))
    <3>1. pc' = "block" /\ blk' = blk + 1
      BY <2>4 DEF ReadEntry
    <3>2. nr_blk' < blk'
      BY <1>1, <2>1, <3>1
    <3> QED BY <1>1, <2>1, <3>1, <3>2 DEF AtPlace
  <2> QED BY <2>3, <2>4
<1>12. Tables'
  BY DEF IInv, Tables, ReadEntry, callVars, tableVars, lookupVars
<1> QED BY <1>7, <1>8, <1>9, <1>10, <1>11, <1>12 DEF IInv

-----------------------------------------------------------------------------
(* The steps outside get_dir_entry leave its variables alone. *)
LEMMA ReadKept ==
  ASSUME IInv, UNCHANGED readVars, pc' \in {"idle", "no table", "walk", "undefined"}
  PROVE  ReadTypes' /\ AtPlace' /\ HasRoom'
<1>1. /\ reading' = reading /\ blk' = blk /\ nr_blk' = nr_blk /\ off' = off
      /\ tab_dir' = tab_dir /\ nChunks' = nChunks
  BY DEF readVars
<1>2. ReadTypes'
  BY <1>1 DEF IInv, ReadTypes
<1>3. AtPlace'
  BY DEF AtPlace
<1>4. HasRoom'
  BY <1>1 DEF IInv, HasRoom
<1> QED BY <1>2, <1>3, <1>4

LEMMA FlushNoPathInv ==
  ASSUME IInv, FlushNoPath
  PROVE  IInv'
<1>1. ReadTypes' /\ AtPlace' /\ HasRoom'
  <2>1. UNCHANGED readVars /\ pc' \in {"undefined"}
    BY DEF FlushNoPath
  <2> QED BY <2>1, ReadKept
<1>2. Flags'
  <2>1. found' = found /\ failed' = failed
    BY Zenon DEF FlushNoPath, lookupVars
  <2> QED BY <2>1 DEF IInv, Flags
<1>3. Types'
  BY DEF IInv, Types, FlushNoPath, callVars, tableVars, lookupVars, listingVars
<1>4. IsRest'
  BY DEF IInv, IsRest, FlushNoPath, callVars, convPath
<1>5. Tables'
  BY DEF IInv, Tables, FlushNoPath, callVars, tableVars, lookupVars
<1> QED BY <1>1, <1>2, <1>3, <1>4, <1>5 DEF IInv

LEMMA FsFindFirstInv ==
  ASSUME IInv, NEW h \in Handles, NEW path \in Paths, FsFindFirst(h, path)
  PROVE  IInv'
<1>1. ReadTypes' /\ AtPlace' /\ HasRoom' /\ pc' \in {"inode", "undefined"}
  <2>1. EXT4_ROOT_INO \in Nat
    BY DEF EXT4_ROOT_INO
  <2>2. get_dir_entry(EXT4_ROOT_INO) /\ tree' = tree
    BY DEF FsFindFirst
  <2> QED BY <2>1, <2>2, BeginOfRead DEF ReadTypes
<1>2. Flags'
  <2>1. found' = found /\ failed' = "no"
    BY Zenon DEF FsFindFirst, lookupVars
  <2> QED BY <2>1 DEF IInv, Flags
<1>3. Types'
  BY DEF IInv, Types, FsFindFirst, tableVars, lookupVars
<1>4. IsRest'
  <2>1. asked' = path /\ rest' = convPath(path)
    BY DEF FsFindFirst
  <2>2. Len(path) \in Nat
    BY ConvPathIsPath
  <2>3. rest' = SubSeq(convPath(path), 0 + 1, Len(path))
    BY <2>1, WholePath
  <2>4. 0 \in 0 .. Len(path)
    BY <2>2
  <2> QED BY <2>1, <2>3, <2>4 DEF IsRest, convPath
<1>5. Tables'
  BY <1>1 DEF IInv, Tables, FsFindFirst, tableVars, lookupVars
<1> QED BY <1>1, <1>2, <1>3, <1>4, <1>5 DEF IInv

LEMMA GetInodeInv ==
  ASSUME IInv, NEW path \in Paths, get_ext2_inode(path)
  PROVE  IInv'
<1>1. ReadTypes' /\ AtPlace' /\ HasRoom' /\ pc' \in {"inode", "undefined"}
  <2>1. EXT4_ROOT_INO \in Nat
    BY DEF EXT4_ROOT_INO
  <2>2. get_dir_entry(EXT4_ROOT_INO) /\ tree' = tree
    BY DEF get_ext2_inode
  <2> QED BY <2>1, <2>2, BeginOfRead DEF ReadTypes
<1>2. Flags'
  <2>1. found' = FALSE /\ failed' = "no"
    BY Zenon DEF get_ext2_inode
  <2> QED BY <2>1 DEF Flags
<1>3. Types'
  BY DEF IInv, Types, get_ext2_inode, tableVars, listingVars
<1>4. IsRest'
  <2>1. asked' = path /\ rest' = convPath(path)
    BY DEF get_ext2_inode
  <2>2. Len(path) \in Nat
    BY ConvPathIsPath
  <2>3. rest' = SubSeq(convPath(path), 0 + 1, Len(path))
    BY <2>1, WholePath
  <2>4. 0 \in 0 .. Len(path)
    BY <2>2
  <2> QED BY <2>1, <2>3, <2>4 DEF IsRest, convPath
<1>5. Tables'
  BY <1>1 DEF IInv, Tables, get_ext2_inode, tableVars
<1> QED BY <1>1, <1>2, <1>3, <1>4, <1>5 DEF IInv

(* A table that is there comes with its length. *)
LEMMA LoadInv ==
  ASSUME IInv, load_ext2_dir_entry
  PROVE  IInv'
<1>1. ReadTypes' /\ AtPlace' /\ HasRoom'
  <2>1. UNCHANGED readVars /\ pc' \in {"no table", "walk"}
    BY DEF load_ext2_dir_entry
  <2> QED BY <2>1, ReadKept
<1>2. Flags'
  <2>1. found' = found /\ failed' = failed
    BY Zenon DEF load_ext2_dir_entry, lookupVars
  <2> QED BY <2>1 DEF IInv, Flags
<1>3. /\ dir_entries' \in Seq(DirEntries) \cup {NULL}
      /\ dir_entries' # NULL => dir_entry_num' = Len(dir_entries')
      /\ dir_entry_num' \in Nat
  <2>1. dir_entry_num \in Nat
    BY DEF IInv, Types
  <2> QED BY <2>1, ReturnedTable DEF load_ext2_dir_entry
<1>4. Types'
  BY <1>3 DEF IInv, Types, load_ext2_dir_entry, callVars, lookupVars, listingVars
<1>5. IsRest'
  BY DEF IInv, IsRest, load_ext2_dir_entry, callVars, convPath
<1>6. Tables'
  BY <1>3 DEF IInv, Tables, load_ext2_dir_entry, callVars, lookupVars
<1> QED BY <1>1, <1>2, <1>4, <1>5, <1>6 DEF IInv

LEMMA DirsReadInv ==
  ASSUME IInv, DirsRead
  PROVE  IInv'
<1>1. ReadTypes' /\ AtPlace' /\ HasRoom'
  <2>1. UNCHANGED readVars /\ pc' \in {"walk", "undefined"}
    BY DEF DirsRead
  <2> QED BY <2>1, ReadKept
<1>2. Flags'
  <2>1. found' = found /\ failed' = failed
    BY Zenon DEF DirsRead
  <2> QED BY <2>1 DEF IInv, Flags
<1>3. /\ dirs' \in Seq(DirEntries) \cup {NULL}
      /\ dirs' # NULL => entry_num' = Len(dirs')
      /\ entry_num' \in Nat
  <2>1. entry_num \in Nat
    BY DEF IInv, Types
  <2> QED BY <2>1, ReturnedTable DEF DirsRead
<1>4. Types'
  BY <1>3 DEF IInv, Types, DirsRead, callVars, tableVars, listingVars
<1>5. IsRest'
  BY DEF IInv, IsRest, DirsRead, callVars, convPath
<1>6. Tables'
  BY <1>3 DEF IInv, Tables, DirsRead, callVars, tableVars
<1> QED BY <1>1, <1>2, <1>4, <1>5, <1>6 DEF IInv

(* The walk goes on in a directory whose number is in the table. *)
LEMMA FindComponentInv ==
  ASSUME IInv, FindComponent
  PROVE  IInv'
<1>1. dir_entries \in Seq(DirEntries) /\ dir_entry_num = Len(dir_entries)
  BY DEF IInv, Tables, FindComponent
<1>2. ReadTypes' /\ AtPlace' /\ HasRoom'
  <2>1. CASE Matching = {}
    <3>1. UNCHANGED readVars /\ pc' = "walk"
      BY <2>1 DEF FindComponent
    <3> QED BY <3>1, ReadKept
  <2>2. CASE Matching # {}
    <3>1. Matching \in SUBSET (1 .. Len(dir_entries))
      BY <1>1 DEF Matching
    <3>2. dir_entries[First(Matching)].inode \in Nat
      BY <1>1, <2>2, <3>1, EntryHasInode
    <3>3. get_dir_entry(dir_entries[First(Matching)].inode) /\ tree' = tree
      BY <2>2 DEF FindComponent
    <3> QED BY <3>2, <3>3, BeginOfRead DEF ReadTypes
  <2> QED BY <2>1, <2>2
<1>3. Flags'
  <2>1. found' = found /\ failed' = failed
    BY Zenon DEF FindComponent, lookupVars
  <2> QED BY <2>1 DEF IInv, Flags
<1>4. Types'
  BY DEF IInv, Types, FindComponent, callVars, tableVars, lookupVars, listingVars
<1>5. IsRest'
  <2>1. rest # <<>> /\ rest' = Tail(rest) /\ asked' = asked
    BY DEF FindComponent, callVars
  <2>2. \E k \in 0 .. Len(asked) : Tail(rest) = SubSeq(convPath(asked), k + 1, Len(asked))
    BY <2>1, TailIsRest DEF IInv, Types
  <2> QED BY <2>1, <2>2 DEF IsRest, convPath
<1>6. Tables'
  <2>1. dir_entries' = dir_entries /\ dir_entry_num' = dir_entry_num /\ dir_entries # NULL
    BY DEF IInv, Tables, FindComponent, tableVars
  <2> QED BY <2>1 DEF IInv, Tables, FindComponent, lookupVars
<1> QED BY <1>2, <1>3, <1>4, <1>5, <1>6 DEF IInv

LEMMA FirstEntryInv ==
  ASSUME IInv, get_first_dir_entry
  PROVE  IInv'
<1>1. ReadTypes' /\ AtPlace' /\ HasRoom'
  <2>1. UNCHANGED readVars /\ pc' \in {"idle", "undefined"}
    BY DEF get_first_dir_entry, ShowEntry
  <2> QED BY <2>1, ReadKept
<1>2. Flags'
  <2>1. found' = found /\ (failed' = AfterFailedRead \/ failed' = failed)
    BY Zenon DEF get_first_dir_entry, lookupVars, ShowEntry
  <2> QED BY <2>1 DEF IInv, Flags, AfterFailedRead
<1>3. Types'
  <2>1. find' \in [Handles -> Nat \cup {NULL}]
    <3> DEFINE shown == {k \in 1 .. dir_entry_num : IsShown(dir_entries[k])}
    <3>1. dir_entries \in Seq(DirEntries) /\ dir_entry_num = Len(dir_entries) /\ dir_entry_num \in Nat
      BY DEF IInv, Types, Tables, get_first_dir_entry
    <3>2. shown # {} => First(shown) \in Nat
      <4>1. shown \in SUBSET Nat
        BY <3>1
      <4> HIDE DEF shown
      <4>2. shown # {} => First(shown) \in shown
        BY <4>1, FirstIsIn
      <4> QED BY <4>1, <4>2
    <3>3. find \in [Handles -> Nat \cup {NULL}]
      BY DEF IInv, Types
    <3>4. \/ find' = [find EXCEPT ![caller] = dir_entry_num + 1]
          \/ shown # {} /\ find' = [find EXCEPT ![caller] = First(shown)]
          \/ find' = find
      BY DEF get_first_dir_entry, ShowEntry
    <3>5. dir_entry_num + 1 \in Nat
      BY <3>1
    <3> HIDE DEF shown
    <3> QED BY <3>2, <3>3, <3>4, <3>5, PlaceIsKept
  <2> QED BY <2>1 DEF IInv, Types, get_first_dir_entry, callVars, tableVars, lookupVars
<1>4. IsRest'
  BY DEF IInv, IsRest, get_first_dir_entry, callVars, convPath
<1>5. Tables'
  BY DEF IInv, Tables, get_first_dir_entry, ShowEntry, callVars, tableVars, lookupVars
<1> QED BY <1>1, <1>2, <1>3, <1>4, <1>5 DEF IInv

LEMMA NoDirectoryInv ==
  ASSUME IInv, NoDirectory
  PROVE  IInv'
<1>1. ReadTypes' /\ AtPlace' /\ HasRoom'
  <2>1. UNCHANGED readVars /\ pc' \in {"idle"}
    BY DEF NoDirectory
  <2> QED BY <2>1, ReadKept
<1>2. Flags'
  <2>1. found' = found /\ failed' = failed
    BY Zenon DEF NoDirectory, lookupVars
  <2> QED BY <2>1 DEF IInv, Flags
<1>3. Types'
  <2>1. find' \in [Handles -> Nat \cup {NULL}]
    BY DEF IInv, Types, NoDirectory
  <2> QED BY <2>1 DEF IInv, Types, NoDirectory, callVars, tableVars, lookupVars
<1>4. IsRest'
  BY DEF IInv, IsRest, NoDirectory, callVars, convPath
<1>5. Tables'
  BY DEF IInv, Tables, NoDirectory, callVars, tableVars, lookupVars
<1> QED BY <1>1, <1>2, <1>3, <1>4, <1>5 DEF IInv

LEMMA FindNextInv ==
  ASSUME IInv, NEW h \in Handles, FsFindNext(h)
  PROVE  IInv'
<1>1. ReadTypes' /\ AtPlace' /\ HasRoom'
  <2>1. UNCHANGED readVars /\ pc' \in {"idle", "undefined"}
    BY DEF FsFindNext, ShowEntry
  <2> QED BY <2>1, ReadKept
<1>2. Flags'
  <2>1. found' = found /\ (failed' = AfterFailedRead \/ failed' = failed)
    BY Zenon DEF FsFindNext, lookupVars, ShowEntry
  <2> QED BY <2>1 DEF IInv, Flags, AfterFailedRead
<1>3. Types'
  <2>1. find' \in [Handles -> Nat \cup {NULL}]
    <3>1. find \in [Handles -> Nat \cup {NULL}] /\ find[h] \in Nat /\ dir_entry_num \in Nat
      BY DEF IInv, Types, FsFindNext
    <3>2. Following(h) \in SUBSET Nat /\ Following(h) # {}
      BY <3>1 DEF Following, FsFindNext
    <3>3. First(Following(h)) \in Nat
      BY <3>2, FirstIsIn
    <3>4. find' = [find EXCEPT ![h] = First(Following(h))] \/ find' = find
      BY DEF FsFindNext, ShowEntry
    <3> QED BY <3>1, <3>3, <3>4, PlaceIsKept
  <2> QED BY <2>1 DEF IInv, Types, FsFindNext, callVars, tableVars, lookupVars
<1>4. IsRest'
  BY DEF IInv, IsRest, FsFindNext, callVars, convPath
<1>5. Tables'
  BY DEF IInv, Tables, FsFindNext, ShowEntry, callVars, tableVars, lookupVars
<1> QED BY <1>1, <1>2, <1>3, <1>4, <1>5 DEF IInv

LEMMA FindCloseInv ==
  ASSUME IInv, NEW h \in Handles, FsFindClose(h)
  PROVE  IInv'
<1>1. ReadTypes' /\ AtPlace' /\ HasRoom'
  <2>1. UNCHANGED readVars /\ pc' \in {"idle"}
    BY DEF FsFindClose
  <2> QED BY <2>1, ReadKept
<1>2. Flags'
  <2>1. found' = found /\ failed' = failed
    BY Zenon DEF FsFindClose, lookupVars
  <2> QED BY <2>1 DEF IInv, Flags
<1>3. Types'
  <2>1. find' \in [Handles -> Nat \cup {NULL}]
    BY DEF IInv, Types, FsFindClose
  <2> QED BY <2>1 DEF IInv, Types, FsFindClose, callVars, tableVars, lookupVars
<1>4. IsRest'
  BY DEF IInv, IsRest, FsFindClose, callVars, convPath
<1>5. Tables'
  BY DEF IInv, Tables, FsFindClose, callVars, tableVars, lookupVars
<1> QED BY <1>1, <1>2, <1>3, <1>4, <1>5 DEF IInv

LEMMA NullTableInv ==
  ASSUME IInv, NullTable
  PROVE  IInv'
<1>1. ReadTypes' /\ AtPlace' /\ HasRoom'
  <2>1. UNCHANGED readVars /\ pc' \in {"undefined"}
    BY DEF NullTable
  <2> QED BY <2>1, ReadKept
<1>2. Flags'
  <2>1. found' = found /\ failed' = failed
    BY Zenon DEF NullTable, lookupVars
  <2> QED BY <2>1 DEF IInv, Flags
<1>3. Types'
  BY DEF IInv, Types, NullTable, callVars, tableVars, lookupVars, listingVars
<1>4. IsRest'
  BY DEF IInv, IsRest, NullTable, callVars, convPath
<1>5. Tables'
  BY DEF IInv, Tables, NullTable, callVars, tableVars, lookupVars
<1> QED BY <1>1, <1>2, <1>3, <1>4, <1>5 DEF IInv

LEMMA GetComponentInv ==
  ASSUME IInv, GetComponent
  PROVE  IInv'
<1>1. Subdirs # {} => dirs \in Seq(DirEntries) /\ Subdirs \in SUBSET (1 .. Len(dirs))
  <2>1. CASE dirs = NULL
    <3>1. entry_num = 0
      BY <2>1 DEF GetComponent
    <3> QED BY <3>1 DEF Subdirs
  <2>2. CASE dirs # NULL
    BY <2>2 DEF IInv, Tables, Subdirs
  <2> QED BY <2>1, <2>2
<1>2. ReadTypes' /\ AtPlace' /\ HasRoom'
  <2>1. CASE Subdirs # {} /\ get_dir_entry(dirs[First(Subdirs)].inode)
    <3>1. dirs[First(Subdirs)].inode \in Nat
      BY <1>1, <2>1, EntryHasInode
    <3>2. tree' = tree
      BY DEF GetComponent
    <3> QED BY <2>1, <3>1, <3>2, BeginOfRead DEF ReadTypes
  <2>2. CASE ~(Subdirs # {} /\ get_dir_entry(dirs[First(Subdirs)].inode))
    <3>1. UNCHANGED readVars /\ pc' \in {"walk", "idle"}
      BY <2>2 DEF GetComponent
    <3> QED BY <3>1, ReadKept
  <2> QED BY <2>1, <2>2
<1>3. Flags'
  <2>1. (found' = TRUE \/ found' = found) /\ failed' = failed
    BY Zenon DEF GetComponent
  <2> QED BY <2>1 DEF IInv, Flags
<1>4. Types'
  BY DEF IInv, Types, GetComponent, callVars, tableVars, listingVars
<1>5. IsRest'
  <2>1. rest # <<>> /\ asked' = asked
    BY DEF GetComponent, callVars
  <2>2. \E k \in 0 .. Len(asked) : Tail(rest) = SubSeq(convPath(asked), k + 1, Len(asked))
    BY <2>1, TailIsRest DEF IInv, Types
  <2>3. rest' = Tail(rest) \/ rest' = rest
    BY DEF GetComponent
  <2> QED BY <2>1, <2>2, <2>3 DEF IInv, IsRest, convPath
<1>6. Tables'
  BY DEF IInv, Tables, GetComponent, callVars, tableVars
<1> QED BY <1>2, <1>3, <1>4, <1>5, <1>6 DEF IInv

LEMMA GetFileInv ==
  ASSUME IInv, GetFile
  PROVE  IInv'
<1>1. ReadTypes' /\ AtPlace' /\ HasRoom'
  <2>1. UNCHANGED readVars /\ pc' = "idle"
    BY DEF GetFile
  <2> QED BY <2>1, ReadKept
<1>2. Flags'
  <2>1. found' = found /\ (failed' = AfterFailedRead \/ failed' = failed)
    BY Zenon DEF GetFile
  <2> QED BY <2>1 DEF IInv, Flags, AfterFailedRead
<1>3. Files # {} => dirs \in Seq(DirEntries) /\ Files \in SUBSET (1 .. Len(dirs))
  <2>1. CASE dirs = NULL
    <3>1. entry_num = 0
      BY <2>1 DEF GetFile
    <3> QED BY <3>1 DEF Files
  <2>2. CASE dirs # NULL
    BY <2>2 DEF IInv, Tables, Files
  <2> QED BY <2>1, <2>2
<1>4. got' \in Nat \cup {NULL}
  <2>1. Files # {} => dirs[First(Files)].inode \in Nat
    BY <1>3, EntryHasInode
  <2>2. got' = got \/ got' = (IF Files = {} THEN 0 ELSE dirs[First(Files)].inode)
    BY DEF GetFile
  <2>3. got \in Nat \cup {NULL}
    BY DEF IInv, Types
  <2> QED BY <2>1, <2>2, <2>3
<1>5. Types'
  BY <1>4 DEF IInv, Types, GetFile, callVars, tableVars, listingVars
<1>6. IsRest'
  BY DEF IInv, IsRest, GetFile, callVars, convPath
<1>7. Tables'
  BY DEF IInv, Tables, GetFile, callVars, tableVars
<1> QED BY <1>1, <1>2, <1>5, <1>6, <1>7 DEF IInv

LEMMA StutterInv ==
  ASSUME IInv, UNCHANGED vars
  PROVE  IInv'
<1>1. found' = found /\ failed' = failed
  BY Zenon DEF vars, lookupVars
<1>2. Flags'
  BY <1>1 DEF IInv, Flags
<1>3. Types' /\ ReadTypes'
  BY DEF IInv, Types, ReadTypes, vars, callVars, readVars, tableVars, lookupVars, listingVars
<1>4. IsRest'
  BY DEF IInv, IsRest, vars, callVars, convPath
<1>5. AtPlace' /\ HasRoom' /\ Tables'
  BY DEF IInv, AtPlace, HasRoom, Tables, vars, callVars, readVars, tableVars, lookupVars
<1> QED BY <1>2, <1>3, <1>4, <1>5 DEF IInv

LEMMA StepKeeps == IInv /\ [Next]_vars => IInv'
<1> SUFFICES ASSUME IInv, [Next]_vars PROVE IInv'
  OBVIOUS
<1>1. CASE ReadInode
  BY <1>1, ReadInodeInv
<1>2. CASE ReadBlock
  BY <1>2, ReadBlockInv
<1>3. CASE ReadEntry
  BY <1>3, ReadEntryInv
<1>4. CASE load_ext2_dir_entry
  BY <1>4, LoadInv
<1>5. CASE FindComponent
  BY <1>5, FindComponentInv
<1>6. CASE get_first_dir_entry
  BY <1>6, FirstEntryInv
<1>7. CASE NoDirectory
  BY <1>7, NoDirectoryInv
<1>8. CASE DirsRead
  BY <1>8, DirsReadInv
<1>9. CASE NullTable
  BY <1>9, NullTableInv
<1>10. CASE GetComponent
  BY <1>10, GetComponentInv
<1>11. CASE GetFile
  BY <1>11, GetFileInv
<1>12. CASE \E h \in Handles, path \in Paths : FsFindFirst(h, path)
  BY <1>12, FsFindFirstInv
<1>13. CASE \E h \in Handles : FsFindNext(h)
  BY <1>13, FindNextInv
<1>14. CASE \E h \in Handles : FsFindClose(h)
  BY <1>14, FindCloseInv
<1>15. CASE \E path \in Paths : get_ext2_inode(path)
  BY <1>15, GetInodeInv
<1>16. CASE FlushNoPath
  BY <1>16, FlushNoPathInv
<1>17. CASE UNCHANGED vars
  BY <1>17, StutterInv
<1> QED BY <1>1, <1>2, <1>3, <1>4, <1>5, <1>6, <1>7, <1>8, <1>9, <1>10, <1>11, <1>12, <1>13,
           <1>14, <1>15, <1>16, <1>17 DEF Next, CallStep, HostCalls

(* What has no table has a cause. *)
LEMMA CauseKept ==
  ASSUME IInv, [Next]_vars, NullHasCause, UndefinedHasCause
  PROVE  NullHasCause' /\ UndefinedHasCause'
<1> USE DEF NullHasCause, UndefinedHasCause, Hollow, HasExtents
<1>0. 0 \notin DOMAIN tree /\ failed \in {"no", "read", "map"}
  BY TreeFacts DEF IInv, Types, Flags
<1>1. CASE ReadInode
  BY <1>0, <1>1 DEF ReadInode, ReadFails, AfterFailedRead, readVars, callVars
<1>2. CASE ReadBlock
  BY <1>0, <1>2 DEF ReadBlock, ReadFails, Mapped, Unmapped, MapCrashes, AfterFailedRead, readVars,
                    callVars
<1>3. CASE ReadEntry
  BY <1>0, <1>3 DEF ReadEntry
<1>4. CASE load_ext2_dir_entry
  BY <1>0, <1>4 DEF load_ext2_dir_entry, readVars, callVars
<1>5. CASE FindComponent
  BY <1>0, <1>5 DEF FindComponent, get_dir_entry, readVars, callVars
<1>6. CASE get_first_dir_entry
  BY <1>0, <1>6 DEF get_first_dir_entry, ShowEntry, AfterFailedRead, readVars, callVars
<1>7. CASE NoDirectory
  BY <1>0, <1>7 DEF NoDirectory, readVars, callVars
<1>8. CASE DirsRead
  <2>1. /\ UNCHANGED <<tree, op, asked, reading, failed>> /\ dirs' = table /\ op = "get"
        /\ pc' = IF asked = <<>> THEN "undefined" ELSE "walk"
    BY <1>8 DEF DirsRead, callVars, readVars
  <2>2. pc = "null" \/ entry_num' = Len(tab_dir)
    BY <1>8 DEF DirsRead, read_dirs
  <2>3. pc # "null" /\ tab_dir = <<>> => entry_num' = 0
    BY <2>2, EmptySeq
  <2>4. tab_dir # <<>> /\ pc # "null" => dirs' = tab_dir
    BY <2>1 DEF table
  <2>5. tab_dir # <<>> /\ pc # "null" => dirs' # NULL
    BY <2>4, DirectoryAssumption DEF IInv, HasRoom
  <2> QED BY <1>0, <2>1, <2>3, <2>5
<1>9. CASE NullTable
  BY <1>0, <1>9 DEF NullTable, readVars, callVars
<1>10. CASE GetComponent
  BY <1>0, <1>10 DEF GetComponent, get_dir_entry, readVars, callVars
<1>11. CASE GetFile
  BY <1>0, <1>11 DEF GetFile
<1>12. CASE \E h \in Handles, path \in Paths : FsFindFirst(h, path)
  BY <1>0, <1>12 DEF FsFindFirst, get_dir_entry
<1>13. CASE \E h \in Handles : FsFindNext(h)
  BY <1>0, <1>13 DEF FsFindNext, ShowEntry, AfterFailedRead
<1>14. CASE \E h \in Handles : FsFindClose(h)
  BY <1>0, <1>14 DEF FsFindClose
<1>15. CASE \E path \in Paths : get_ext2_inode(path)
  BY <1>0, <1>15 DEF get_ext2_inode, get_dir_entry
<1>16. CASE FlushNoPath
  BY <1>0, <1>16 DEF FlushNoPath, readVars, callVars
<1>17. CASE UNCHANGED vars
  BY <1>0, <1>17 DEF vars, callVars, readVars, lookupVars
<1> QED BY <1>1, <1>2, <1>3, <1>4, <1>5, <1>6, <1>7, <1>8, <1>9, <1>10, <1>11, <1>12, <1>13,
           <1>14, <1>15, <1>16, <1>17 DEF Next, CallStep, HostCalls

-----------------------------------------------------------------------------
(* Every variable has its type.  That what is still to be walked is a part of
   the path, and that the places and inode numbers are numbers, relies on the
   entries in the tables. *)
THEOREM TypeCorrect == Spec => []TypeOK
<1>1. IInv => TypeOK
  BY DEF IInv, Types, ReadTypes, Flags, IsRest, TypeOK
<1> QED BY <1>1, InitEstablishes, StepKeeps, PTL DEF Spec

(* The entries that get_dir_entry stores fit in the chunks it has allocated
   (partition_linux_ext2.cpp:256-280), and a table of the plugin has as many
   entries as load_ext2_dir_entry frees and the loops look at, whatever reads
   fail, and however the calls on several listings are mixed. *)
THEOREM TablesCorrect == Spec => []TablesHold
<1>1. IInv => TablesHold
  BY DEF IInv, HasRoom, Tables, TablesHold
<1> QED BY <1>1, InitEstablishes, StepKeeps, PTL DEF Spec

(* Whatever the path is, a NULL pointer is used only after a read or a mapping
   failed, in a directory with extents but without blocks, whose block map is
   destroyed unused (partition_linux_ext2.cpp:220, blocks.h:71-77), in a lookup
   without a name, or when the walk has entered an entry that is not in use, or
   a file. *)
THEOREM UndefinedExplained == Spec => []UndefinedHasCause
<1>1. Init => NullHasCause /\ UndefinedHasCause
  BY DEF Init, NullHasCause, UndefinedHasCause
<1>2. IInv /\ [Next]_vars /\ NullHasCause /\ UndefinedHasCause
        => NullHasCause' /\ UndefinedHasCause'
  BY CauseKept
<1> QED BY <1>1, <1>2, InitEstablishes, StepKeeps, PTL DEF Spec

-----------------------------------------------------------------------------
(* Where a call is on its path *)

InRead == {"inode", "block", "entry", "null"}

(* The names of the path that are walked. *)
Walked == Len(asked) - Len(rest)

(* As long as nothing failed, get_dir_entry has read what is before its place;
   after a failure there is no table to walk in. *)
ReadInv ==
  /\ pc \in {"inode", "block", "entry"} => failed # "read"
  /\ pc = "walk" /\ failed = "read" => op = "get" /\ dirs = NULL
  /\ failed = "no" =>
       /\ pc = "inode" => tab_dir = <<>> /\ blk = 1 /\ nr_blk = 0
       /\ pc = "block" => /\ nr_blk = blk - 1 /\ nr_blk <= Len(tree[reading])
                          /\ tab_dir = EntriesUpTo(tree, reading)[nr_blk]
       /\ pc = "entry" => /\ nr_blk = blk
                          /\ tab_dir = EntriesUpTo(tree, reading)[blk - 1]
                                         \o SubSeq(tree[reading][blk], 1, off - 1)

(* The table in which the walk goes on is that of the directory. *)
WalkedTable ==
  pc = "walk" /\ failed = "no" /\ reading \in DOMAIN tree =>
    /\ op = "find" => dir_entries = Entries(tree, reading)
    /\ op = "get" /\ Entries(tree, reading) = <<>> => dirs = NULL /\ entry_num = 0
    /\ op = "get" /\ Entries(tree, reading) # <<>> => dirs = Entries(tree, reading)

(* The directory that is read or walked in is the one the walked names mean. *)
OnPath ==
  pc \in InRead \cup {"walk"} =>
    /\ op \in {"find", "get"}
    /\ op = "find" /\ failed = "no" /\ DirAt(tree, asked) # NULL =>
         reading = DirsAlong(tree, asked)[Walked]
    /\ op = "get" => got = NULL /\ (asked = <<>> \/ rest # <<>>)
    /\ op = "get" /\ pc = "walk" => asked # <<>>
    /\ op = "get" /\ failed = "no" /\ IsPlain(tree, asked) =>
         reading = DirsAlong(tree, Front(asked))[Walked]

(* The listing whose directory is in the table has been given the names up to
   its place. *)
Listing ==
  /\ op = "find" /\ pc \in InRead \cup {"walk", "no table"} =>
       owner = NULL /\ listed = <<>> /\ caller \in Handles
  /\ owner # NULL /\ pc # "undefined" /\ DirAt(tree, owned) # NULL =>
       /\ dir_entries = Entries(tree, DirAt(tree, owned))
       /\ \E k \in 0 .. Len(dir_entries) :
            /\ listed = NamesUpTo(dir_entries)[k]
            /\ find[owner] = k \/ (k = Len(dir_entries) /\ find[owner] = k + 1)

CallsInv == ReadInv /\ WalkedTable /\ OnPath /\ Listing /\ FileIsRight /\ DefinedUnlessFailed

-----------------------------------------------------------------------------
(* The recursive functions that say what a directory and a path are: each is
   what comes of a first value by as many steps as there are. *)

IsIteration(f, S, a, N, step) ==
  /\ f \in [0 .. N -> S]
  /\ f[0] = a
  /\ \A k \in 1 .. N : f[k] = step[<<f[k - 1], k>>]

LEMMA Iterates ==
  ASSUME NEW S, NEW a \in S, NEW N \in Nat, NEW step \in [S \X (1 .. N) -> S]
  PROVE  \E f : IsIteration(f, S, a, N, step)
<1> DEFINE Upto(n, f) == f[0] = a /\ \A k \in 1 .. n : f[k] = step[<<f[k - 1], k>>]
           Bad == {n \in 0 .. N : ~ \E f \in [0 .. n -> S] : Upto(n, f)}
<1>1. ASSUME Bad # {} PROVE FALSE
  <2>1. Bad \in SUBSET Nat
    OBVIOUS
  <2>2. PICK n \in Bad : \A m \in Bad : n <= m
    <3> HIDE DEF Bad
    <3> QED BY <1>1, <2>1, FirstIsIn
  <2>3. CASE n = 0
    <3> DEFINE f == [k \in 0 .. 0 |-> a]
    <3>1. f \in [0 .. 0 -> S] /\ Upto(0, f)
      OBVIOUS
    <3> QED BY <2>2, <2>3, <3>1
  <2>4. CASE n # 0
    <3>1. n \in 1 .. N /\ n - 1 \in 0 .. N /\ n - 1 \notin Bad
      BY <2>2, <2>4
    <3>2. PICK f \in [0 .. n - 1 -> S] : Upto(n - 1, f)
      BY <3>1
    <3> DEFINE last == step[<<f[n - 1], n>>]
               g == [k \in 0 .. n |-> IF k = n THEN last ELSE f[k]]
    <3>3. f[n - 1] \in S
      BY <3>1
    <3>4. last \in S
      BY <3>1, <3>3
    <3> HIDE DEF last
    <3>5. g \in [0 .. n -> S]
      BY <3>1, <3>4
    <3>6. g[0] = a
      BY <3>1, <3>2
    <3>7. ASSUME NEW k \in 1 .. n PROVE g[k] = step[<<g[k - 1], k>>]
      <4>1. k - 1 \in 0 .. n - 1 /\ g[k - 1] = f[k - 1]
        BY <3>1
      <4>2. CASE k = n
        <5>1. n \in 0 .. n /\ last = step[<<f[n - 1], n>>]
          BY <3>1 DEF last
        <5>2. g[n] = last
          BY <5>1
        <5>3. f[n - 1] = g[n - 1]
          BY <4>1, <4>2
        <5> HIDE DEF g
        <5>4. g[n] = step[<<g[n - 1], n>>]
          BY <5>1, <5>2, <5>3
        <5> QED BY <4>2, <5>4
      <4>3. CASE k # n
        <5>1. k \in 1 .. n - 1 /\ k \in 0 .. n
          BY <3>1, <4>3
        <5>2. g[k] = f[k]
          BY <5>1, <4>3
        <5> HIDE DEF g
        <5>3. f[k] = step[<<f[k - 1], k>>]
          BY <3>2, <5>1
        <5> QED BY <4>1, <5>2, <5>3
      <4> QED BY <4>2, <4>3
    <3> HIDE DEF g
    <3>8. Upto(n, g)
      BY <3>6, <3>7
    <3> QED BY <2>2, <3>5, <3>8
  <2> QED BY <2>3, <2>4
<1>2. N \notin Bad
  BY <1>1
<1> QED BY <1>2 DEF IsIteration

(* The entries that may be in a directory of the tree. *)
TreeEntries == {e \in DirEntries : e.type = "dir" => e.inode \in DOMAIN tree \cup {0}}

LEMMA BlockOfTree ==
  ASSUME tree \in Trees, NEW ino \in DOMAIN tree, NEW b \in 1 .. Len(tree[ino])
  PROVE  tree[ino][b] \in Seq(TreeEntries)
<1> DEFINE block == tree[ino][b]
<1>1. block \in Seq(DirEntries) /\ Len(block) \in Nat
  BY TreeFacts, LenProperties
<1>2. \A k \in 1 .. Len(block) : block[k].type = "dir" => block[k].inode \in DOMAIN tree \cup {0}
  BY DirectoryAssumption DEF IsTree
<1> HIDE DEF block
<1>3. \A k \in 1 .. Len(block) : block[k] \in TreeEntries
  BY <1>1, <1>2, ElementOfSeq DEF TreeEntries
<1>4. block \in [1 .. Len(block) -> TreeEntries]
  BY <1>1, <1>3, LenProperties
<1>5. block \in Seq(TreeEntries)
  BY <1>1, <1>4, SeqDef
<1> QED BY <1>5 DEF block

LEMMA EntriesGrow ==
  ASSUME tree \in Trees, NEW ino \in DOMAIN tree
  PROVE  /\ Len(tree[ino]) \in Nat
         /\ EntriesUpTo(tree, ino)[0] = <<>>
         /\ \A b \in 1 .. Len(tree[ino]) :
              EntriesUpTo(tree, ino)[b] = EntriesUpTo(tree, ino)[b - 1] \o tree[ino][b]
         /\ \A b \in 0 .. Len(tree[ino]) : EntriesUpTo(tree, ino)[b] \in Seq(TreeEntries)
<1> DEFINE N == Len(tree[ino])
           S == Seq(TreeEntries)
           Unfolded(f) == [b \in 0 .. N |-> IF b = 0 THEN <<>> ELSE f[b - 1] \o tree[ino][b]]
           step == [x \in S \X (1 .. N) |-> x[1] \o tree[ino][x[2]]]
           f == EntriesUpTo(tree, ino)
           none == <<>>
<1>1. N \in Nat
  BY TreeFacts, LenProperties
<1>2. none \in S
  BY EmptySeq
<1>3. \A b \in 1 .. N : tree[ino][b] \in S
  BY BlockOfTree
<1>4. f = CHOOSE g : g = Unfolded(g)
  BY DEF EntriesUpTo
<1>5. \A s \in S, b \in 1 .. N : s \o tree[ino][b] \in S
  BY <1>3, ConcatProperties
<1> HIDE DEF N, S, f
<1>6. step \in [S \X (1 .. N) -> S]
  BY <1>5
<1>7. \A s \in S, b \in 1 .. N : step[<<s, b>>] = s \o tree[ino][b]
  OBVIOUS
<1> HIDE DEF step
<1>8. PICK g \in [0 .. N -> S] : g[0] = none /\ \A b \in 1 .. N : g[b] = step[<<g[b - 1], b>>]
  <2> HIDE DEF none
  <2>1. PICK g : IsIteration(g, S, none, N, step)
    BY <1>1, <1>2, <1>6, Iterates
  <2> QED BY <2>1 DEF IsIteration
<1>9. \A b \in 1 .. N : g[b - 1] \in S
  BY <1>1, <1>8
<1>10. \A b \in 1 .. N : g[b] = g[b - 1] \o tree[ino][b]
  BY <1>7, <1>8, <1>9
<1>11. g = Unfolded(g)
  <2>1. ASSUME NEW b \in 0 .. N
        PROVE  g[b] = IF b = 0 THEN <<>> ELSE g[b - 1] \o tree[ino][b]
    <3>1. CASE b = 0
      BY <1>8, <3>1
    <3>2. CASE b # 0
      <4>1. b \in 1 .. N
        BY <1>1, <3>2
      <4> QED BY <1>10, <3>2, <4>1
    <3> QED BY <3>1, <3>2
  <2> QED BY <1>8, <2>1
<1>12. f = Unfolded(f)
  BY <1>4, <1>11
<1>13. f[0] = <<>> /\ \A b \in 1 .. N : f[b] = f[b - 1] \o tree[ino][b]
  BY <1>1, <1>12
<1> DEFINE Bad == {b \in 0 .. N : f[b] \notin S}
<1>14. ASSUME Bad # {} PROVE FALSE
  <2>1. Bad \in SUBSET Nat
    BY <1>1
  <2>2. PICK b \in Bad : \A c \in Bad : b <= c
    <3> HIDE DEF Bad
    <3> QED BY <1>14, <2>1, FirstIsIn
  <2>3. b # 0
    BY <1>2, <1>13, <2>2
  <2>4. b \in 1 .. N /\ b - 1 \in 0 .. N /\ b - 1 \notin Bad
    BY <1>1, <2>2, <2>3
  <2> QED BY <1>5, <1>13, <2>2, <2>4
<1> QED BY <1>1, <1>13, <1>14 DEF N, S, f

LEMMA EntriesOfDir ==
  ASSUME tree \in Trees, NEW ino \in DOMAIN tree
  PROVE  /\ Entries(tree, ino) \in Seq(DirEntries) /\ Len(Entries(tree, ino)) \in Nat
         /\ \A k \in 1 .. Len(Entries(tree, ino)) : Entries(tree, ino)[k] \in TreeEntries
<1> DEFINE e == Entries(tree, ino)
<1>1. e \in Seq(TreeEntries)
  <2>1. Len(tree[ino]) \in 0 .. Len(tree[ino])
    BY EntriesGrow
  <2> QED BY <2>1, EntriesGrow DEF Entries
<1> HIDE DEF e
<1>2. TreeEntries \subseteq DirEntries
  BY DEF TreeEntries
<1>3. e \in Seq(DirEntries)
  BY <1>1, <1>2, SeqMonotonic
<1>4. Len(e) \in Nat /\ \A k \in 1 .. Len(e) : e[k] \in TreeEntries
  BY <1>1, LenProperties, ElementOfSeq
<1> QED BY <1>3, <1>4 DEF e

(* The function with which the names of a listing are collected. *)
LEMMA NamesGrow ==
  ASSUME NEW e \in Seq(DirEntries)
  PROVE  /\ NamesUpTo(e)[0] = <<>>
         /\ \A k \in 1 .. Len(e) :
              NamesUpTo(e)[k] = IF IsShown(e[k]) THEN Append(NamesUpTo(e)[k - 1], cFileName(e[k]))
                                ELSE NamesUpTo(e)[k - 1]
<1> DEFINE N == Len(e)
           S == Seq({ToAcp[name] : name \in DOMAIN ToAcp})
           Step(s, k) == IF e[k].inode = 0 \/ e[k].name \in {".", ".."} THEN s
                         ELSE Append(s, ToAcp[e[k].name])
           Unfolded(f) == [k \in 0 .. N |-> IF k = 0 THEN <<>> ELSE Step(f[k - 1], k)]
           step == [x \in S \X (1 .. N) |-> Step(x[1], x[2])]
           f == NamesUpTo(e)
           none == <<>>
<1>1. N \in Nat
  BY LenProperties
<1>2. none \in S
  BY EmptySeq
<1>3. \A k \in 1 .. N : e[k].name \in DOMAIN ToAcp
  <2>1. \A k \in 1 .. N : e[k] \in DirEntries
    BY ElementOfSeq
  <2> QED BY <2>1 DEF DirEntries
<1>4. f = CHOOSE g : g = Unfolded(g)
  BY DEF NamesUpTo
<1>5. \A s \in S, k \in 1 .. N : Step(s, k) \in S
  BY <1>3, AppendProperties
<1>6. \A s, k : Step(s, k) = IF IsShown(e[k]) THEN Append(s, cFileName(e[k])) ELSE s
  BY DEF IsShown, cFileName
<1> HIDE DEF N, S, f, Step
<1>7. step \in [S \X (1 .. N) -> S]
  BY <1>5
<1>8. \A s \in S, k \in 1 .. N : step[<<s, k>>] = Step(s, k)
  OBVIOUS
<1> HIDE DEF step
<1>9. PICK g \in [0 .. N -> S] : g[0] = none /\ \A k \in 1 .. N : g[k] = step[<<g[k - 1], k>>]
  <2> HIDE DEF none
  <2>1. PICK g : IsIteration(g, S, none, N, step)
    BY <1>1, <1>2, <1>7, Iterates
  <2> QED BY <2>1 DEF IsIteration
<1>10. \A k \in 1 .. N : g[k - 1] \in S
  BY <1>1, <1>9
<1>11. \A k \in 1 .. N : g[k] = Step(g[k - 1], k)
  BY <1>8, <1>9, <1>10
<1>12. g = Unfolded(g)
  <2>1. \A k \in 0 .. N : g[k] = IF k = 0 THEN <<>> ELSE Step(g[k - 1], k)
    BY <1>1, <1>9, <1>11
  <2> QED BY <1>9, <2>1
<1>13. f = Unfolded(f)
  BY <1>4, <1>12
<1>14. f[0] = <<>> /\ \A k \in 1 .. N : f[k] = Step(f[k - 1], k)
  BY <1>1, <1>13
<1> QED BY <1>6, <1>14 DEF N, f

(* Where nothing is shown no name is added. *)
LEMMA NamesStay ==
  ASSUME NEW e \in Seq(DirEntries), NEW i \in 0 .. Len(e), NEW j \in i .. Len(e),
         \A k \in i + 1 .. j : ~IsShown(e[k])
  PROVE  NamesUpTo(e)[j] = NamesUpTo(e)[i]
<1> DEFINE Bad == {k \in i .. j : NamesUpTo(e)[k] # NamesUpTo(e)[i]}
<1>1. Len(e) \in Nat
  BY LenProperties
<1>2. ASSUME Bad # {} PROVE FALSE
  <2>1. Bad \in SUBSET Nat
    BY <1>1
  <2>2. PICK k \in Bad : \A l \in Bad : k <= l
    <3> HIDE DEF Bad
    <3> QED BY <1>2, <2>1, FirstIsIn
  <2>3. k \in i + 1 .. j /\ k - 1 \in i .. j /\ k - 1 \notin Bad /\ k \in 1 .. Len(e)
    BY <1>1, <2>2
  <2> QED BY <2>2, <2>3, NamesGrow
<1> QED BY <1>2, <1>1

-----------------------------------------------------------------------------
(* What a path means *)

(* A child that is there is the one entry with its name. *)
LEMMA ChildIsEntry ==
  ASSUME tree \in Trees, NEW ino \in DOMAIN tree, NEW name, NEW type,
         Child(tree, ino, name, type) # NULL
  PROVE  \E j \in 1 .. Len(Entries(tree, ino)) :
           /\ Named(tree, ino, name) = {j}
           /\ Entries(tree, ino)[j].type = type /\ CanBeAsked(Entries(tree, ino)[j])
           /\ Child(tree, ino, name, type) = Entries(tree, ino)[j].inode
<1> DEFINE E == Entries(tree, ino)
           K == Named(tree, ino, name)
           named == {E[k] : k \in K}
<1>1. Len(E) \in Nat
  BY EntriesOfDir
<1>2. K \in SUBSET (1 .. Len(E))
  BY DEF Named
<1>3. /\ Cardinality(K) = 1 /\ \E e \in named : e.type = type /\ CanBeAsked(e)
      /\ Child(tree, ino, name, type) = (CHOOSE e \in named : TRUE).inode
  BY DEF Child
<1> HIDE DEF E, K
<1>4. IsFiniteSet(K)
  <2>1. IsFiniteSet(1 .. Len(E))
    BY <1>1, FS_Interval
  <2> QED BY <1>2, <2>1, FS_Subset
<1>5. PICK j : K = {j}
  BY <1>3, <1>4, FS_Singleton
<1>6. named = {E[j]}
  BY <1>5
<1> HIDE DEF named
<1>7. (CHOOSE e \in named : TRUE) = E[j]
  BY <1>6
<1>8. E[j].type = type /\ CanBeAsked(E[j])
  BY <1>3, <1>6
<1>9. j \in 1 .. Len(E)
  BY <1>2, <1>5
<1> QED BY <1>3, <1>5, <1>7, <1>8, <1>9 DEF E, K

(* The conversion of a name finds the entries that are listed with it, and
   only those, if their names survive the conversion there and back. *)
LEMMA SameName ==
  ASSUME tree \in Trees, NEW ino \in DOMAIN tree, NEW name \in DOMAIN ToUtf8,
         \A k \in Named(tree, ino, name) : CanBeAsked(Entries(tree, ino)[k])
  PROVE  {k \in 1 .. Len(Entries(tree, ino)) : Entries(tree, ino)[k].name = ToUtf8[name]}
           = Named(tree, ino, name)
<1> DEFINE E == Entries(tree, ino)
<1>1. \A k \in 1 .. Len(E) : E[k].name \in DOMAIN ToAcp
  <2>1. \A k \in 1 .. Len(E) : E[k] \in DirEntries
    BY EntriesOfDir DEF TreeEntries
  <2> QED BY <2>1 DEF DirEntries
<1>2. ASSUME NEW k \in 1 .. Len(E), E[k].name = ToUtf8[name]
      PROVE  ToAcp[E[k].name] = name
  BY <1>1, <1>2, DirectoryAssumption
<1>3. ASSUME NEW k \in 1 .. Len(E), ToAcp[E[k].name] = name
      PROVE  E[k].name = ToUtf8[name]
  <2>1. k \in Named(tree, ino, name)
    BY <1>3 DEF Named
  <2> QED BY <1>3, <2>1 DEF CanBeAsked
<1> QED BY <1>2, <1>3 DEF Named

LEMMA ChildOfTree ==
  ASSUME tree \in Trees, NEW ino \in DOMAIN tree, NEW name
  PROVE  Child(tree, ino, name, "dir") \in DOMAIN tree \cup {NULL}
<1> SUFFICES ASSUME Child(tree, ino, name, "dir") # NULL
             PROVE  Child(tree, ino, name, "dir") \in DOMAIN tree
  OBVIOUS
<1>1. PICK j \in 1 .. Len(Entries(tree, ino)) :
        /\ Entries(tree, ino)[j].type = "dir" /\ CanBeAsked(Entries(tree, ino)[j])
        /\ Child(tree, ino, name, "dir") = Entries(tree, ino)[j].inode
  BY ChildIsEntry
<1>2. Entries(tree, ino)[j] \in TreeEntries
  BY EntriesOfDir
<1> QED BY <1>1, <1>2 DEF TreeEntries, CanBeAsked

LEMMA PathGrows ==
  ASSUME tree \in Trees, NEW path \in Seq(DOMAIN ToUtf8)
  PROVE  /\ DirsAlong(tree, path)[0] = EXT4_ROOT_INO
         /\ \A k \in 1 .. Len(path) :
              DirsAlong(tree, path)[k] =
                IF DirsAlong(tree, path)[k - 1] = NULL THEN NULL
                ELSE Child(tree, DirsAlong(tree, path)[k - 1], path[k], "dir")
         /\ \A k \in 0 .. Len(path) : DirsAlong(tree, path)[k] \in DOMAIN tree \cup {NULL}
<1> DEFINE N == Len(path)
           S == DOMAIN tree \cup {NULL}
           Step(x, k) == IF x = NULL THEN NULL ELSE Child(tree, x, path[k], "dir")
           Unfolded(f) == [k \in 0 .. N |-> IF k = 0 THEN EXT4_ROOT_INO ELSE Step(f[k - 1], k)]
           step == [x \in S \X (1 .. N) |-> Step(x[1], x[2])]
           f == DirsAlong(tree, path)
<1>1. N \in Nat
  BY LenProperties
<1>2. EXT4_ROOT_INO \in S
  BY TreeFacts
<1>3. f = CHOOSE g : g = Unfolded(g)
  BY DEF DirsAlong
<1>4. \A x \in S, k \in 1 .. N : Step(x, k) \in S
  BY ChildOfTree
<1>5. \A x, k : Step(x, k) = IF x = NULL THEN NULL ELSE Child(tree, x, path[k], "dir")
  OBVIOUS
<1> HIDE DEF N, S, f, Step
<1>6. step \in [S \X (1 .. N) -> S]
  BY <1>4
<1>7. \A x \in S, k \in 1 .. N : step[<<x, k>>] = Step(x, k)
  OBVIOUS
<1> HIDE DEF step
<1>8. PICK g \in [0 .. N -> S] :
        g[0] = EXT4_ROOT_INO /\ \A k \in 1 .. N : g[k] = step[<<g[k - 1], k>>]
  <2>1. PICK g : IsIteration(g, S, EXT4_ROOT_INO, N, step)
    BY <1>1, <1>2, <1>6, Iterates
  <2> QED BY <2>1 DEF IsIteration
<1>9. \A k \in 1 .. N : g[k - 1] \in S
  BY <1>1, <1>8
<1>10. \A k \in 1 .. N : g[k] = Step(g[k - 1], k)
  BY <1>7, <1>8, <1>9
<1>11. g = Unfolded(g)
  <2>1. \A k \in 0 .. N : g[k] = IF k = 0 THEN EXT4_ROOT_INO ELSE Step(g[k - 1], k)
    BY <1>1, <1>8, <1>10
  <2> QED BY <1>8, <2>1
<1>12. f = Unfolded(f)
  BY <1>3, <1>11
<1>13. f[0] = EXT4_ROOT_INO /\ \A k \in 1 .. N : f[k] = Step(f[k - 1], k)
  BY <1>1, <1>12
<1> DEFINE Bad == {k \in 0 .. N : f[k] \notin S}
<1>14. ASSUME Bad # {} PROVE FALSE
  <2>1. Bad \in SUBSET Nat
    BY <1>1
  <2>2. PICK k \in Bad : \A l \in Bad : k <= l
    <3> HIDE DEF Bad
    <3> QED BY <1>14, <2>1, FirstIsIn
  <2>3. k # 0
    BY <1>2, <1>13, <2>2
  <2>4. k \in 1 .. N /\ k - 1 \in 0 .. N /\ k - 1 \notin Bad
    BY <1>1, <2>2, <2>3
  <2> QED BY <1>4, <1>13, <2>2, <2>4
<1> QED BY <1>5, <1>13, <1>14 DEF N, S, f

(* A path that means a directory means one at each of its names. *)
LEMMA AllDirsThere ==
  ASSUME tree \in Trees, NEW path \in Seq(DOMAIN ToUtf8), DirAt(tree, path) # NULL,
         NEW k \in 0 .. Len(path)
  PROVE  DirsAlong(tree, path)[k] \in DOMAIN tree /\ DirsAlong(tree, path)[k] # NULL
<1> DEFINE D == DirsAlong(tree, path)
           Later == {m \in k .. Len(path) : D[m] # NULL}
<1>1. Len(path) \in Nat
  BY LenProperties
<1>2. D[Len(path)] # NULL
  BY DEF DirAt
<1> HIDE DEF D
<1>3. ASSUME D[k] = NULL PROVE FALSE
  <2>1. Later \in SUBSET Nat /\ Later # {}
    BY <1>1, <1>2
  <2>2. PICK m \in Later : \A l \in Later : m <= l
    <3> HIDE DEF Later
    <3> QED BY <2>1, FirstIsIn
  <2>3. m # k
    BY <1>3, <2>2
  <2>4. m - 1 \in k .. Len(path) /\ m - 1 \notin Later /\ m \in 1 .. Len(path)
    BY <1>1, <2>2, <2>3
  <2>5. D[m - 1] = NULL
    BY <2>4
  <2>6. D[m] = NULL
    BY <2>4, <2>5, PathGrows DEF D
  <2> QED BY <2>2, <2>6
<1> QED BY <1>3, PathGrows DEF D

(* There is nothing in a directory without blocks, so a path that means a
   directory cannot go on behind it. *)
LEMMA HollowIsLast ==
  ASSUME tree \in Trees, NEW path \in Seq(DOMAIN ToUtf8), DirAt(tree, path) # NULL,
         NEW k \in 0 .. Len(path), tree[DirsAlong(tree, path)[k]] = <<>>
  PROVE  k = Len(path)
<1> DEFINE ino == DirsAlong(tree, path)[k]
<1> SUFFICES ASSUME k # Len(path) PROVE FALSE
  OBVIOUS
<1>1. Len(path) \in Nat /\ k + 1 \in 1 .. Len(path) /\ k + 1 \in 0 .. Len(path) /\ (k + 1) - 1 = k
  <2>1. Len(path) \in Nat
    BY LenProperties
  <2> QED BY <2>1
<1>2. ino \in DOMAIN tree /\ ino # NULL /\ DirsAlong(tree, path)[k + 1] # NULL
  BY <1>1, AllDirsThere
<1>3. Child(tree, ino, path[k + 1], "dir") # NULL
  BY <1>1, <1>2, PathGrows
<1> HIDE DEF ino
<1>4. PICK j : j \in 1 .. Len(Entries(tree, ino))
  BY <1>2, <1>3, ChildIsEntry
<1>5. Entries(tree, ino) = <<>>
  <2>1. Len(tree[ino]) = 0
    BY EmptySeq DEF ino
  <2> QED BY <1>2, <2>1, EntriesGrow DEF Entries
<1>6. Len(Entries(tree, ino)) = 0
  BY <1>5, EmptySeq
<1> QED BY <1>4, <1>6

(* The entries with the name of a child are that child. *)
LEMMA FindsChild ==
  ASSUME tree \in Trees, NEW ino \in DOMAIN tree, NEW name \in DOMAIN ToUtf8, NEW type,
         Child(tree, ino, name, type) # NULL
  PROVE  \E j \in 1 .. Len(Entries(tree, ino)) :
           /\ {k \in 1 .. Len(Entries(tree, ino)) : Entries(tree, ino)[k].name = ToUtf8[name]} = {j}
           /\ Entries(tree, ino)[j].type = type /\ Entries(tree, ino)[j].inode # 0
           /\ Child(tree, ino, name, type) = Entries(tree, ino)[j].inode
<1>1. PICK j \in 1 .. Len(Entries(tree, ino)) :
        /\ Named(tree, ino, name) = {j}
        /\ Entries(tree, ino)[j].type = type /\ CanBeAsked(Entries(tree, ino)[j])
        /\ Child(tree, ino, name, type) = Entries(tree, ino)[j].inode
  BY ChildIsEntry
<1>2. \A k \in Named(tree, ino, name) : CanBeAsked(Entries(tree, ino)[k])
  BY <1>1
<1>3. {k \in 1 .. Len(Entries(tree, ino)) : Entries(tree, ino)[k].name = ToUtf8[name]} = {j}
  BY <1>1, <1>2, SameName
<1> QED BY <1>1, <1>3 DEF CanBeAsked

(* The only element of a set is its first. *)
LEMMA FirstOfOne == ASSUME NEW j \in Nat PROVE First({j}) = j
<1>1. {j} \in SUBSET Nat /\ {j} # {}
  OBVIOUS
<1>2. First({j}) \in {j}
  BY <1>1, FirstIsIn
<1> QED BY <1>2

(* The next name to be walked is the next one of the path, converted. *)
LEMMA NextName ==
  ASSUME IInv
  PROVE  /\ asked \in Seq(DOMAIN ToUtf8) /\ Len(asked) \in Nat /\ Len(rest) \in Nat
         /\ Walked \in 0 .. Len(asked)
         /\ rest = <<>> <=> Walked = Len(asked)
         /\ rest # <<>> => /\ Walked + 1 \in 1 .. Len(asked)
                           /\ Head(rest) = ToUtf8[asked[Walked + 1]]
                           /\ Len(Tail(rest)) = Len(rest) - 1
<1> DEFINE S == {ToUtf8[name] : name \in DOMAIN ToUtf8}
           c == convPath(asked)
<1>1. asked \in Seq(DOMAIN ToUtf8)
  BY DirectoryAssumption, EmptySeq DEF IInv, Types
<1>2. c \in Seq(S) /\ Len(c) = Len(asked) /\ Len(c) \in Nat
  BY ConvPathIsPath DEF IInv, Types
<1>3. PICK n \in 0 .. Len(asked) : rest = SubSeq(c, n + 1, Len(asked))
  BY DEF IInv, IsRest
<1>4. \A k \in 1 .. Len(asked) : c[k] = ToUtf8[asked[k]]
  BY <1>1, LenProperties DEF convPath
<1> HIDE DEF S, c
<1>5. \A i \in n + 1 .. Len(asked) : c[i] \in S
  BY <1>2, <1>3, ElementOfSeq
<1>6. rest \in Seq(S) /\ Len(rest) = Len(asked) - n
  <2>1. n + 1 \in Int /\ Len(asked) \in Int
    BY <1>2, <1>3
  <2>2. /\ SubSeq(c, n + 1, Len(asked)) \in Seq(S)
        /\ Len(SubSeq(c, n + 1, Len(asked))) =
             IF n + 1 <= Len(asked) THEN Len(asked) - (n + 1) + 1 ELSE 0
    BY <1>5, <2>1, SubSeqProperties
  <2> QED BY <1>2, <1>3, <2>2
<1>7. Walked = n
  BY <1>2, <1>3, <1>6 DEF Walked
<1>8. rest = <<>> => n = Len(asked)
  <2>1. rest = <<>> => Len(rest) = 0
    BY EmptySeq
  <2> QED BY <1>2, <1>3, <1>6, <2>1
<1>9. rest # <<>> => n + 1 \in 1 .. Len(asked) /\ Len(Tail(rest)) = Len(rest) - 1
                     /\ Head(rest) = ToUtf8[asked[n + 1]]
  <2> SUFFICES ASSUME rest # <<>>
               PROVE  n + 1 \in 1 .. Len(asked) /\ Len(Tail(rest)) = Len(rest) - 1
                      /\ Head(rest) = ToUtf8[asked[n + 1]]
    OBVIOUS
  <2>1. Len(rest) \in Nat \ {0}
    BY <1>6, EmptySeq
  <2>2. n + 1 \in 1 .. Len(asked)
    BY <1>2, <1>3, <1>6, <2>1
  <2>3. Len(Tail(rest)) = Len(rest) - 1
    BY <1>6, HeadTailProperties
  <2>4. Len(asked) \in n + 1 .. Len(c)
    BY <1>2, <2>2
  <2>5. Head(rest) = c[n + 1]
    BY <1>2, <1>3, <2>2, <2>4, HeadTailOfSubSeq
  <2> QED BY <1>4, <2>2, <2>3, <2>5
<1>10. n = Len(asked) => rest = <<>>
  BY <1>2, <1>6, <1>9
<1>11. Len(rest) \in Nat
  BY <1>2, <1>3, <1>6
<1> QED BY <1>1, <1>2, <1>3, <1>7, <1>8, <1>9, <1>10, <1>11

(* The names of a path without its last one. *)
LEMMA FrontOfPath ==
  ASSUME NEW path \in Seq(DOMAIN ToUtf8), path # <<>>
  PROVE  /\ Front(path) \in Seq(DOMAIN ToUtf8)
         /\ Len(path) \in Nat \ {0} /\ Len(Front(path)) = Len(path) - 1
         /\ \A k \in 1 .. Len(path) - 1 : Front(path)[k] = path[k]
         /\ Last(path) = path[Len(path)] /\ Last(path) \in DOMAIN ToUtf8
<1>1. Len(path) \in Nat \ {0}
  BY EmptySeq
<1>2. \A k \in 1 .. Len(path) : path[k] \in DOMAIN ToUtf8
  BY ElementOfSeq
<1>3. \A k \in 1 .. Len(path) - 1 : path[k] \in DOMAIN ToUtf8
  BY <1>1, <1>2
<1>4. Len(path) - 1 \in Int /\ 1 \in Int
  BY <1>1
<1>5. /\ SubSeq(path, 1, Len(path) - 1) \in Seq(DOMAIN ToUtf8)
      /\ Len(SubSeq(path, 1, Len(path) - 1)) =
           IF 1 <= Len(path) - 1 THEN (Len(path) - 1) - 1 + 1 ELSE 0
      /\ \A i \in 1 .. (Len(path) - 1) - 1 + 1 :
           SubSeq(path, 1, Len(path) - 1)[i] = path[1 + i - 1]
  BY <1>3, <1>4, SubSeqProperties
<1>6. \A i \in 1 .. Len(path) - 1 : i \in 1 .. (Len(path) - 1) - 1 + 1 /\ 1 + i - 1 = i
  BY <1>1
<1>7. \A k \in 1 .. Len(path) - 1 : Front(path)[k] = path[k]
  BY <1>5, <1>6 DEF Front
<1>8. Front(path) \in Seq(DOMAIN ToUtf8) /\ Len(Front(path)) = Len(path) - 1
  <2>1. (IF 1 <= Len(path) - 1 THEN (Len(path) - 1) - 1 + 1 ELSE 0) = Len(path) - 1
    <3>1. \A m \in Nat \ {0} : (IF 1 <= m - 1 THEN (m - 1) - 1 + 1 ELSE 0) = m - 1
      OBVIOUS
    <3> QED BY <1>1, <3>1
  <2>2. Front(path) = SubSeq(path, 1, Len(path) - 1)
    BY DEF Front
  <2>3. Front(path) \in Seq(DOMAIN ToUtf8)
    BY <1>5, <2>2
  <2>4. Len(Front(path)) = Len(path) - 1
    BY <1>5, <2>1, <2>2
  <2> QED BY <2>3, <2>4
<1>9. Last(path) = path[Len(path)] /\ Last(path) \in DOMAIN ToUtf8
  BY <1>1, <1>2 DEF Last
<1> QED BY <1>1, <1>7, <1>8, <1>9

-----------------------------------------------------------------------------
(* get_dir_entry reads the entries of the directory *)

(* What is done outside of get_dir_entry and of the walks says nothing of
   them. *)
LEMMA Quiet ==
  ASSUME pc' \in {"idle", "no table", "undefined"}
  PROVE  ReadInv' /\ WalkedTable' /\ OnPath'
BY DEF ReadInv, WalkedTable, OnPath, InRead

LEMMA ReadBegins ==
  ASSUME NEW ino, get_dir_entry(ino), failed' # "read"
  PROVE  /\ ReadInv' /\ WalkedTable' /\ reading' = ino
         /\ pc' = IF ino \in DOMAIN tree \cup {0} THEN "inode" ELSE "undefined"
BY DEF get_dir_entry, ReadInv, WalkedTable

LEMMA ReadInodeReads ==
  ASSUME IInv, ReadInv, ReadInode
  PROVE  ReadInv' /\ WalkedTable'
<1>1. pc = "inode" /\ tree' = tree
  BY DEF ReadInode
<1>2. CASE pc' = "null"
  BY <1>2 DEF ReadInv, WalkedTable
<1>3. CASE reading # 0 /\ pc' = "block" /\ UNCHANGED <<readVars, failed>>
  <2>1. reading \in DOMAIN tree
    BY <1>1, <1>3 DEF IInv, AtPlace
  <2>2. Len(tree[reading]) \in Nat /\ EntriesUpTo(tree, reading)[0] = <<>>
    BY <2>1, EntriesGrow DEF IInv, Types
  <2>3. /\ reading' = reading /\ blk' = blk /\ nr_blk' = nr_blk /\ tab_dir' = tab_dir
        /\ failed' = failed
    BY <1>3 DEF readVars
  <2>4. failed # "read" /\ (failed = "no" => tab_dir = <<>> /\ blk = 1 /\ nr_blk = 0)
    BY <1>1 DEF ReadInv
  <2> QED BY <1>1, <1>3, <2>2, <2>3, <2>4 DEF ReadInv, WalkedTable
<1> QED BY <1>2, <1>3 DEF ReadInode, ReadFails

LEMMA ReadBlockReads ==
  ASSUME IInv, ReadInv, ReadBlock
  PROVE  ReadInv' /\ WalkedTable'
<1>1. pc = "block" /\ tree' = tree /\ blk <= Len(tree[reading]) /\ failed # "read"
  BY DEF ReadBlock, ReadInv
<1>2. CASE pc' = "null"
  BY <1>2 DEF ReadInv, WalkedTable
<1>3. CASE Unmapped
  <2>1. failed' = "map" /\ pc' \in {"undefined", "entry"}
    BY <1>3 DEF Unmapped
  <2> QED BY <2>1 DEF ReadInv, WalkedTable
<1>4. CASE MapCrashes
  BY <1>4 DEF ReadInv, WalkedTable, MapCrashes
<1>5. CASE Mapped
  <2>1. failed = "no" => /\ nr_blk = blk - 1
                         /\ tab_dir = EntriesUpTo(tree, reading)[nr_blk]
    BY <1>1 DEF ReadInv
  <2>2. reading \in DOMAIN tree /\ blk \in Nat \ {0} /\ nr_blk \in Nat
    BY <1>1 DEF IInv, AtPlace, ReadTypes
  <2>3. Len(tree[reading]) \in Nat
    BY <2>2, EntriesGrow DEF IInv, Types
  <2>4. blk - 1 \in 0 .. Len(tree[reading])
    BY <1>1, <2>2, <2>3
  <2>5. EntriesUpTo(tree, reading)[blk - 1] \in Seq(TreeEntries)
    BY <2>2, <2>4, EntriesGrow DEF IInv, Types
  <2>6. SubSeq(tree[reading][blk], 1, 0) = <<>>
    BY SubSeqEmpty
  <2>7. EntriesUpTo(tree, reading)[blk - 1] \o SubSeq(tree[reading][blk], 1, 1 - 1)
          = EntriesUpTo(tree, reading)[blk - 1]
    <3>1. 1 - 1 = 0
      OBVIOUS
    <3> QED BY <2>5, <2>6, <3>1, ConcatEmptySeq
  <2>8. /\ pc' = "entry" /\ off' = 1 /\ reading' = reading /\ blk' = blk /\ tab_dir' = tab_dir
        /\ failed' = failed /\ (nr_blk' = blk \/ nr_blk' = nr_blk + 1)
    BY <1>5 DEF Mapped
  <2>9. failed = "no" => /\ nr_blk' = blk
                         /\ tab_dir = EntriesUpTo(tree, reading)[blk - 1]
                                        \o SubSeq(tree[reading][blk], 1, 1 - 1)
    BY <2>1, <2>2, <2>7, <2>8
  <2> QED BY <1>1, <2>8, <2>9 DEF ReadInv, WalkedTable
<1> QED BY <1>2, <1>3, <1>4, <1>5 DEF ReadBlock, ReadFails

LEMMA ReadEntryReads ==
  ASSUME IInv, ReadInv, ReadEntry
  PROVE  ReadInv' /\ WalkedTable'
<1> DEFINE block == tree[reading][nr_blk]
           before == EntriesUpTo(tree, reading)[blk - 1]
<1>1. /\ pc = "entry" /\ tree' = tree /\ reading' = reading /\ nr_blk' = nr_blk
      /\ failed' = failed /\ tab_dir' = Append(tab_dir, block[off]) /\ failed # "read"
  BY DEF ReadEntry, ReadInv
<1>2. /\ reading \in DOMAIN tree /\ blk \in 1 .. Len(tree[reading])
      /\ nr_blk \in 1 .. blk /\ off \in 1 .. Len(block)
  BY <1>1 DEF IInv, AtPlace
<1>3. Len(tree[reading]) \in Nat
  BY <1>2, EntriesGrow DEF IInv, Types
<1>4. block \in Seq(TreeEntries) /\ Len(block) \in Nat
  <2>1. nr_blk \in 1 .. Len(tree[reading])
    BY <1>2, <1>3
  <2> QED BY <1>2, <2>1, BlockOfTree, LenProperties DEF IInv, Types
<1>5. before \in Seq(TreeEntries)
  <2>1. blk - 1 \in 0 .. Len(tree[reading])
    BY <1>2, <1>3
  <2> QED BY <1>2, <2>1, EntriesGrow DEF IInv, Types
<1>6. failed = "no" => nr_blk = blk /\ tab_dir = before \o SubSeq(block, 1, off - 1)
  BY <1>1 DEF ReadInv
<1>7. EntriesUpTo(tree, reading)[blk] = before \o tree[reading][blk]
  BY <1>2, EntriesGrow DEF IInv, Types
<1> HIDE DEF before, block
<1>8. failed = "no" => tab_dir' = before \o SubSeq(block, 1, off)
  <2> SUFFICES ASSUME failed = "no" PROVE tab_dir' = before \o SubSeq(block, 1, off)
    OBVIOUS
  <2> DEFINE read == SubSeq(block, 1, off - 1)
             e == block[off]
  <2>1. e \in TreeEntries
    BY <1>2, <1>4, ElementOfSeq
  <2>2. read \in Seq(TreeEntries)
    <3>1. \A i \in 1 .. off - 1 : block[i] \in TreeEntries
      BY <1>2, <1>4, ElementOfSeq
    <3>2. off - 1 \in Int /\ 1 \in Int
      BY <1>2, <1>4
    <3> QED BY <3>1, <3>2, SubSeqProperties
  <2>3. SubSeq(block, 1, off) = read \o <<e>>
    <3>1. 1 \in 1 .. Len(block) /\ off \in 1 .. Len(block)
      BY <1>2, <1>4
    <3> QED BY <1>4, <3>1, SubSeqRecursiveSecond
  <2>4. tab_dir = before \o read /\ tab_dir' = Append(tab_dir, e)
    BY <1>1, <1>6
  <2> HIDE DEF read, e
  <2>5. <<e>> \in Seq(TreeEntries)
    BY <2>1
  <2>6. before \o read \in Seq(TreeEntries)
    BY <1>5, <2>2, ConcatProperties
  <2>7. tab_dir' = (before \o read) \o <<e>>
    BY <2>1, <2>4, <2>6, AppendIsConcat
  <2>8. (before \o read) \o <<e>> = before \o (read \o <<e>>)
    BY <1>5, <2>2, <2>5, ConcatAssociative
  <2> QED BY <2>3, <2>7, <2>8
<1>9. CASE off < Len(block)
  <2>1. off' = off + 1 /\ pc' = pc /\ blk' = blk
    BY <1>9 DEF ReadEntry, block
  <2>2. off' - 1 = off
    BY <1>2, <1>4, <2>1
  <2>3. failed = "no" => block = tree[reading][blk]
    BY <1>6 DEF block
  <2>4. failed = "no" => nr_blk' = blk' /\ tab_dir' = EntriesUpTo(tree, reading)[blk' - 1]
                                            \o SubSeq(tree[reading][blk'], 1, off' - 1)
    BY <1>1, <1>6, <1>8, <2>1, <2>2, <2>3 DEF before
  <2> QED BY <1>1, <2>1, <2>4 DEF ReadInv, WalkedTable
<1>10. CASE ~(off < Len(block))
  <2>1. pc' = "block" /\ blk' = blk + 1
    BY <1>10 DEF ReadEntry, block
  <2>2. off = Len(block)
    BY <1>2, <1>4, <1>10
  <2>3. SubSeq(block, 1, Len(block)) = block
    BY <1>4, SubSeqFull
  <2>4. failed = "no" => tab_dir' = EntriesUpTo(tree, reading)[nr_blk] /\ nr_blk = blk
    BY <1>6, <1>7, <1>8, <2>2, <2>3 DEF block
  <2>5. blk' - 1 = blk /\ blk <= Len(tree[reading])
    BY <1>2, <1>3, <2>1
  <2> QED BY <1>1, <2>1, <2>4, <2>5 DEF ReadInv, WalkedTable
<1> QED BY <1>9, <1>10

(* What a read that did not fail returns. *)
LEMMA ReturnsEntries ==
  ASSUME IInv, ReadInv, NullHasCause, Returned, failed = "no", reading \in DOMAIN tree
  PROVE  /\ pc = "block"
         /\ table = IF Entries(tree, reading) = <<>> THEN NULL ELSE Entries(tree, reading)
         /\ \A num : read_dirs(num) = Len(Entries(tree, reading))
<1>1. pc = "block" /\ blk > Len(tree[reading])
  <2>1. pc # "null"
    BY TreeFacts DEF NullHasCause, IInv, Types
  <2> QED BY <2>1 DEF Returned
<1>2. /\ nr_blk = blk - 1 /\ nr_blk <= Len(tree[reading]) /\ blk \in Nat \ {0}
      /\ tab_dir = EntriesUpTo(tree, reading)[nr_blk]
  BY <1>1 DEF ReadInv, IInv, ReadTypes
<1>3. Len(tree[reading]) \in Nat
  BY EntriesGrow DEF IInv, Types
<1>4. nr_blk = Len(tree[reading])
  BY <1>1, <1>2, <1>3
<1>5. tab_dir = Entries(tree, reading)
  BY <1>2, <1>4 DEF Entries
<1> QED BY <1>1, <1>5 DEF table, read_dirs

-----------------------------------------------------------------------------
(* The walks follow the path *)

LEMMA FindFirstWalks ==
  ASSUME IInv, IInv', NEW h \in Handles, NEW path \in Paths, FsFindFirst(h, path)
  PROVE  ReadInv' /\ WalkedTable' /\ OnPath' /\ DefinedUnlessFailed'
<1>1. /\ op' = "find" /\ asked' = path /\ rest' = convPath(path) /\ tree' = tree
      /\ failed' = "no" /\ get_dir_entry(EXT4_ROOT_INO)
  BY DEF FsFindFirst
<1>2. EXT4_ROOT_INO \in DOMAIN tree
  BY TreeFacts DEF IInv, Types
<1>3. ReadInv' /\ WalkedTable' /\ reading' = EXT4_ROOT_INO /\ pc' = "inode"
  BY <1>1, <1>2, ReadBegins
<1>4. OnPath'
  <2>1. Walked' = 0
    <3>1. Len(convPath(path)) = Len(path) /\ Len(path) \in Nat
      BY ConvPathIsPath
    <3> QED BY <1>1, <3>1 DEF Walked
  <2>2. path \in Seq(DOMAIN ToUtf8)
    BY DirectoryAssumption
  <2>3. DirsAlong(tree, path)[0] = EXT4_ROOT_INO
    BY <2>2, PathGrows DEF IInv, Types
  <2> QED BY <1>1, <1>3, <2>1, <2>3 DEF OnPath, InRead
<1> QED BY <1>3, <1>4 DEF DefinedUnlessFailed

LEMMA GetInodeWalks ==
  ASSUME IInv, NEW path \in Paths, get_ext2_inode(path)
  PROVE  ReadInv' /\ WalkedTable' /\ OnPath' /\ DefinedUnlessFailed'
<1>1. /\ op' = "get" /\ asked' = path /\ rest' = convPath(path) /\ tree' = tree
      /\ failed' = "no" /\ got' = NULL /\ get_dir_entry(EXT4_ROOT_INO)
  BY DEF get_ext2_inode
<1>2. EXT4_ROOT_INO \in DOMAIN tree
  BY TreeFacts DEF IInv, Types
<1>3. ReadInv' /\ WalkedTable' /\ reading' = EXT4_ROOT_INO /\ pc' = "inode"
  BY <1>1, <1>2, ReadBegins
<1>4. path \in Seq(DOMAIN ToUtf8)
  BY DirectoryAssumption
<1>5. Len(rest') = Len(path) /\ Len(path) \in Nat
  BY <1>1, ConvPathIsPath
<1>6. path = <<>> \/ rest' # <<>>
  BY <1>4, <1>5, EmptySeq
<1>7. Walked' = 0
  BY <1>1, <1>5 DEF Walked
<1>8. IsPlain(tree, path) => DirsAlong(tree, Front(path))[0] = EXT4_ROOT_INO
  <2>1. IsPlain(tree, path) => path # <<>>
    BY DEF IsPlain
  <2> QED BY <1>4, <2>1, FrontOfPath, PathGrows DEF IInv, Types
<1>9. OnPath'
  BY <1>1, <1>3, <1>6, <1>7, <1>8 DEF OnPath, InRead
<1> QED BY <1>3, <1>9 DEF DefinedUnlessFailed

(* A read goes on with the path as it was. *)
LEMMA ReadStays ==
  ASSUME IInv, OnPath, pc \in InRead,
         pc' \in InRead \cup {"undefined"}, failed' = failed \/ failed' # "no",
         UNCHANGED <<tree, callVars, rest, reading, got>>
  PROVE  OnPath'
<1>1. /\ op' = op /\ asked' = asked /\ rest' = rest /\ reading' = reading /\ got' = got
      /\ tree' = tree
  BY DEF callVars
<1>2. failed' = "no" => failed = "no"
  OBVIOUS
<1>3. pc \in InRead \cup {"walk"} /\ pc' # "walk"
  BY DEF InRead
<1> QED BY <1>1, <1>2, <1>3 DEF OnPath, Walked

LEMMA LoadWalks ==
  ASSUME IInv, ReadInv, OnPath, NullHasCause, load_ext2_dir_entry
  PROVE  ReadInv' /\ WalkedTable' /\ OnPath' /\ DefinedUnlessFailed'
<1>1. /\ op = "find" /\ Returned /\ dir_entries' = table
      /\ pc' = IF table = NULL THEN "no table" ELSE "walk"
      /\ tree' = tree /\ op' = op /\ asked' = asked /\ rest' = rest /\ failed' = failed
      /\ reading' = reading /\ got' = got
  BY DEF load_ext2_dir_entry, callVars, readVars, lookupVars
<1>2. CASE table = NULL
  BY <1>1, <1>2, Quiet DEF DefinedUnlessFailed
<1>3. CASE table # NULL
  <2>1. pc' = "walk" /\ pc = "block" /\ failed # "read"
    BY <1>1, <1>3 DEF table, Returned, ReadInv
  <2>2. ReadInv'
    BY <1>1, <2>1 DEF ReadInv
  <2>3. WalkedTable'
    BY <1>1, <1>3, ReturnsEntries DEF WalkedTable
  <2>4. OnPath'
    BY <1>1, <2>1 DEF OnPath, InRead, Walked
  <2> QED BY <2>1, <2>2, <2>3, <2>4 DEF DefinedUnlessFailed
<1> QED BY <1>2, <1>3

LEMMA DirsReadWalks ==
  ASSUME IInv, ReadInv, OnPath, NullHasCause, DirsRead
  PROVE  ReadInv' /\ WalkedTable' /\ OnPath' /\ DefinedUnlessFailed'
<1>1. /\ op = "get" /\ Returned /\ dirs' = table
      /\ pc' = (IF asked = <<>> THEN "undefined" ELSE "walk")
      /\ entry_num' = read_dirs(entry_num)
      /\ tree' = tree /\ op' = op /\ asked' = asked /\ rest' = rest /\ failed' = failed
      /\ reading' = reading /\ got' = got
  BY DEF DirsRead, callVars, readVars
<1>2. pc \in {"block", "null"}
  BY <1>1 DEF Returned
<1>3. ReadInv'
  <2>1. failed = "read" => pc = "null"
    BY <1>2 DEF ReadInv
  <2> QED BY <1>1, <2>1 DEF ReadInv, table
<1>4. WalkedTable'
  <2>1. <<>> \in Seq(DirEntries) /\ Len(<<>>) = 0
    BY EmptySeq
  <2> QED BY <1>1, <2>1, ReturnsEntries DEF WalkedTable
<1>5. OnPath'
  BY <1>1, <1>2 DEF OnPath, InRead, Walked
<1>6. DefinedUnlessFailed'
  BY <1>1 DEF DefinedUnlessFailed, IsPlain
<1> QED BY <1>3, <1>4, <1>5, <1>6

(* The directory that the walked names mean, and the next one. *)
LEMMA FindComponentWalks ==
  ASSUME IInv, ReadInv, WalkedTable, OnPath, FindComponent
  PROVE  ReadInv' /\ WalkedTable' /\ OnPath' /\ DefinedUnlessFailed'
<1>1. /\ op = "find" /\ pc = "walk" /\ rest # <<>> /\ rest' = Tail(rest) /\ tree' = tree
      /\ op' = op /\ asked' = asked /\ failed' = failed /\ got' = got /\ failed # "read"
      /\ dirs' = dirs /\ entry_num' = entry_num /\ dir_entries' = dir_entries
  BY DEF FindComponent, callVars, tableVars, lookupVars, ReadInv
<1>2. /\ asked \in Seq(DOMAIN ToUtf8) /\ Len(asked) \in Nat /\ Walked + 1 \in 1 .. Len(asked)
      /\ Head(rest) = ToUtf8[asked[Walked + 1]] /\ Walked' = Walked + 1 /\ Walked \in 0 .. Len(asked)
  <2>1. /\ asked \in Seq(DOMAIN ToUtf8) /\ Len(asked) \in Nat /\ Len(rest) \in Nat
        /\ Walked \in 0 .. Len(asked) /\ Walked + 1 \in 1 .. Len(asked)
        /\ Head(rest) = ToUtf8[asked[Walked + 1]] /\ Len(Tail(rest)) = Len(rest) - 1
    BY <1>1, NextName
  <2>2. Walked' = Walked + 1
    BY <1>1, <2>1 DEF Walked
  <2> QED BY <2>1, <2>2
<1> DEFINE D == DirsAlong(tree, asked)
<1>3. ASSUME failed = "no", DirAt(tree, asked) # NULL
      PROVE  /\ reading \in DOMAIN tree /\ dir_entries = Entries(tree, reading)
             /\ \E j \in 1 .. Len(dir_entries) :
                  /\ Matching = {j} /\ dir_entries[j].inode = D[Walked + 1]
                  /\ D[Walked + 1] \in DOMAIN tree
  <2>1. reading = D[Walked]
    BY <1>1, <1>3 DEF OnPath
  <2>2. /\ D[Walked] \in DOMAIN tree /\ D[Walked] # NULL
        /\ D[Walked + 1] \in DOMAIN tree /\ D[Walked + 1] # NULL
    <3>1. Walked + 1 \in 0 .. Len(asked)
      BY <1>2
    <3> QED BY <1>2, <1>3, <3>1, AllDirsThere DEF IInv, Types
  <2>3. D[Walked + 1] = Child(tree, reading, asked[Walked + 1], "dir") /\ D[Walked + 1] # NULL
    <3>1. (Walked + 1) - 1 = Walked
      BY <1>2
    <3> QED BY <1>2, <2>1, <2>2, <3>1, PathGrows DEF IInv, Types
  <2>4. dir_entries = Entries(tree, reading)
    BY <1>1, <1>3, <2>1, <2>2 DEF WalkedTable
  <2>5. dir_entry_num = Len(dir_entries)
    BY <1>1 DEF IInv, Tables
  <2>6. asked[Walked + 1] \in DOMAIN ToUtf8
    BY <1>2, ElementOfSeq
  <2>7. PICK j \in 1 .. Len(Entries(tree, reading)) :
          /\ {k \in 1 .. Len(Entries(tree, reading)) :
                Entries(tree, reading)[k].name = ToUtf8[asked[Walked + 1]]} = {j}
          /\ Child(tree, reading, asked[Walked + 1], "dir") = Entries(tree, reading)[j].inode
    BY <2>1, <2>2, <2>3, <2>6, FindsChild DEF IInv, Types
  <2>8. Matching = {j}
    BY <1>2, <2>4, <2>5, <2>7 DEF Matching
  <2> QED BY <2>1, <2>2, <2>3, <2>4, <2>7, <2>8
<1> HIDE DEF D
<1>4. CASE Matching = {}
  <2>1. pc' = "walk" /\ reading' = reading
    BY <1>1, <1>4 DEF FindComponent, readVars
  <2>2. ReadInv' /\ WalkedTable'
    BY <1>1, <2>1 DEF ReadInv, WalkedTable
  <2>3. failed = "no" => DirAt(tree, asked) = NULL
    BY <1>3, <1>4
  <2> QED BY <1>1, <2>1, <2>2, <2>3 DEF OnPath, DefinedUnlessFailed
<1>5. CASE Matching # {}
  <2> DEFINE next == dir_entries[First(Matching)].inode
  <2>1. get_dir_entry(next)
    BY <1>5 DEF FindComponent
  <2>2. failed = "no" /\ DirAt(tree, asked) # NULL => next = D[Walked + 1] /\ next \in DOMAIN tree
    <3> SUFFICES ASSUME failed = "no", DirAt(tree, asked) # NULL
                 PROVE  next = D[Walked + 1] /\ next \in DOMAIN tree
      OBVIOUS
    <3>1. PICK j \in 1 .. Len(dir_entries) :
            /\ Matching = {j} /\ dir_entries[j].inode = D[Walked + 1]
            /\ D[Walked + 1] \in DOMAIN tree
      BY <1>3
    <3>2. j \in Nat
      OBVIOUS
    <3>3. First(Matching) = j
      BY <3>1, <3>2, FirstOfOne
    <3> QED BY <3>1, <3>3
  <2> HIDE DEF next
  <2>3. /\ ReadInv' /\ WalkedTable' /\ reading' = next
        /\ pc' = IF next \in DOMAIN tree \cup {0} THEN "inode" ELSE "undefined"
    BY <1>1, <2>1, ReadBegins
  <2>4. OnPath'
    BY <1>1, <1>2, <2>2, <2>3 DEF OnPath, D
  <2>5. DefinedUnlessFailed'
    BY <1>1, <2>2, <2>3 DEF DefinedUnlessFailed
  <2> QED BY <2>3, <2>4, <2>5
<1> QED BY <1>4, <1>5

(* The entries of the last name of a plain path: there is none, or it is the
   file that the path means. *)
LEMMA LastEntry ==
  ASSUME tree \in Trees, NEW path \in Seq(DOMAIN ToUtf8), path # <<>>, IsPlain(tree, path),
         NEW E, E = Entries(tree, DirAt(tree, Front(path))),
         NEW file, file = Child(tree, DirAt(tree, Front(path)), Last(path), "file"),
         NEW F, F = {k \in 1 .. Len(E) : E[k].type = "file" /\ E[k].name = ToUtf8[Last(path)]}
  PROVE  \/ F = {} /\ file = NULL
         \/ \E j \in 1 .. Len(E) : F = {j} /\ E[j].inode = file /\ file # 0
<1> DEFINE dir == DirAt(tree, Front(path))
           name == Last(path)
           K == Named(tree, dir, name)
<1>1. /\ dir # NULL /\ Cardinality(K) <= 1 /\ \A k \in K : CanBeAsked(E[k])
  BY DEF IsPlain
<1>2. Front(path) \in Seq(DOMAIN ToUtf8) /\ Len(Front(path)) \in Nat /\ name \in DOMAIN ToUtf8
  BY FrontOfPath, LenProperties
<1>3. dir \in DOMAIN tree
  <2>1. Len(Front(path)) \in 0 .. Len(Front(path))
    BY <1>2
  <2> QED BY <1>1, <1>2, <2>1, AllDirsThere DEF DirAt
<1> HIDE DEF dir, name
<1>4. {k \in 1 .. Len(E) : E[k].name = ToUtf8[name]} = K
  BY <1>1, <1>2, <1>3, SameName DEF dir
<1>5. K \in SUBSET (1 .. Len(E)) /\ Len(E) \in Nat
  BY <1>3, EntriesOfDir DEF Named, dir
<1>6. F = {k \in K : E[k].type = "file"}
  <2>1. F = {k \in 1 .. Len(E) : E[k].type = "file" /\ E[k].name = ToUtf8[name]}
    BY DEF name
  <2> QED BY <1>4, <2>1
<1> HIDE DEF K
<1>7. IsFiniteSet(K)
  <2>1. IsFiniteSet(1 .. Len(E))
    BY <1>5, FS_Interval
  <2> QED BY <1>5, <2>1, FS_Subset
<1>8. Cardinality(K) \in {0, 1}
  <2>1. Cardinality(K) \in Nat
    BY <1>7, FS_CardinalityType
  <2> QED BY <1>1, <2>1
<1>9. CASE Cardinality(K) = 0
  <2>1. K = {}
    BY <1>7, <1>9, FS_EmptySet
  <2>2. Child(tree, dir, name, "file") = NULL
    BY <1>9 DEF Child, K
  <2> QED BY <1>6, <2>1, <2>2 DEF dir, name
<1>10. CASE Cardinality(K) = 1
  <2>1. PICK j : K = {j}
    BY <1>7, <1>10, FS_Singleton
  <2>2. j \in 1 .. Len(E) /\ CanBeAsked(E[j])
    BY <1>1, <1>5, <2>1
  <2>3. CASE E[j].type = "file"
    <3>1. F = {j}
      BY <1>6, <2>1, <2>3
    <3> DEFINE named == {E[k] : k \in K}
    <3>2. named = {E[j]}
      BY <2>1
    <3>3. Child(tree, dir, name, "file") =
            IF Cardinality(K) = 1 /\ \E e \in named : e.type = "file" /\ CanBeAsked(e)
            THEN (CHOOSE e \in named : TRUE).inode ELSE NULL
      BY DEF Child, K, dir
    <3> HIDE DEF named
    <3>4. (CHOOSE e \in named : TRUE) = E[j]
      BY <3>2
    <3>5. \E e \in named : e.type = "file" /\ CanBeAsked(e)
      BY <2>2, <2>3, <3>2
    <3>6. Child(tree, dir, name, "file") = E[j].inode
      BY <1>10, <3>3, <3>4, <3>5
    <3>7. E[j].inode # 0
      BY <2>2 DEF CanBeAsked
    <3> QED BY <2>2, <3>1, <3>6, <3>7 DEF dir, name
  <2>4. CASE E[j].type # "file"
    <3>1. F = {}
      BY <1>6, <2>1, <2>4
    <3>2. Child(tree, dir, name, "file") = NULL
      <4> DEFINE named == {E[k] : k \in K}
      <4>1. Child(tree, dir, name, "file") =
              IF Cardinality(K) = 1 /\ \E e \in named : e.type = "file" /\ CanBeAsked(e)
              THEN (CHOOSE e \in named : TRUE).inode ELSE NULL
        BY DEF Child, K, dir
      <4>2. \A e \in named : e.type # "file"
        BY <2>1, <2>4
      <4> QED BY <4>1, <4>2
    <3> QED BY <3>1, <3>2 DEF dir, name
  <2> QED BY <2>3, <2>4
<1> QED BY <1>8, <1>9, <1>10

LEMMA GetComponentWalks ==
  ASSUME IInv, ReadInv, WalkedTable, OnPath, GetComponent
  PROVE  ReadInv' /\ WalkedTable' /\ OnPath' /\ FileIsRight' /\ DefinedUnlessFailed'
<1>1. /\ op = "get" /\ pc = "walk" /\ Len(rest) > 1 /\ tree' = tree
      /\ op' = op /\ asked' = asked /\ failed' = failed /\ got' = got /\ got = NULL
      /\ dirs' = dirs /\ entry_num' = entry_num /\ (dirs = NULL => entry_num = 0)
  BY DEF GetComponent, callVars, OnPath
<1>2. /\ asked \in Seq(DOMAIN ToUtf8) /\ Len(asked) \in Nat /\ Len(rest) \in Nat
      /\ Walked \in 0 .. Len(asked) - 2 /\ asked # <<>> /\ rest # <<>>
      /\ Head(rest) = ToUtf8[asked[Walked + 1]] /\ Len(Tail(rest)) = Len(rest) - 1
  <2>1. rest # <<>>
    BY <1>1, EmptySeq
  <2>2. /\ asked \in Seq(DOMAIN ToUtf8) /\ Len(asked) \in Nat /\ Len(rest) \in Nat
        /\ Walked \in 0 .. Len(asked)
        /\ Head(rest) = ToUtf8[asked[Walked + 1]] /\ Len(Tail(rest)) = Len(rest) - 1
    BY <2>1, NextName
  <2>3. Walked \in 0 .. Len(asked) - 2
    BY <1>1, <2>2 DEF Walked
  <2>4. Len(asked) # 0
    BY <2>2, <2>3
  <2>5. asked # <<>>
    BY <2>4, EmptySeq
  <2> QED BY <2>1, <2>2, <2>3, <2>5
<1> DEFINE path == Front(asked)
           D == DirsAlong(tree, path)
<1>3. ASSUME failed = "no", IsPlain(tree, asked)
      PROVE  /\ reading \in DOMAIN tree
             /\ \E j \in Nat : /\ Subdirs = {j} /\ dirs[j].inode = D[Walked + 1]
                               /\ D[Walked + 1] \in DOMAIN tree
  <2>1. reading = D[Walked] /\ DirAt(tree, path) # NULL
    BY <1>1, <1>3 DEF OnPath, IsPlain
  <2>2. /\ path \in Seq(DOMAIN ToUtf8) /\ Len(path) = Len(asked) - 1
        /\ Walked + 1 \in 1 .. Len(path) /\ path[Walked + 1] = asked[Walked + 1]
    <3>1. path \in Seq(DOMAIN ToUtf8) /\ Len(path) = Len(asked) - 1
          /\ \A k \in 1 .. Len(asked) - 1 : path[k] = asked[k]
      BY <1>2, FrontOfPath
    <3>2. Walked + 1 \in 1 .. Len(asked) - 1
      BY <1>2
    <3> QED BY <3>1, <3>2
  <2> HIDE DEF path
  <2>3. /\ D[Walked] \in DOMAIN tree /\ D[Walked] # NULL
        /\ D[Walked + 1] \in DOMAIN tree /\ D[Walked + 1] # NULL
    <3>1. Walked \in 0 .. Len(path) /\ Walked + 1 \in 0 .. Len(path)
      BY <1>2, <2>2
    <3> QED BY <2>1, <2>2, <3>1, AllDirsThere DEF IInv, Types
  <2>4. D[Walked + 1] = Child(tree, reading, asked[Walked + 1], "dir")
    <3>1. (Walked + 1) - 1 = Walked
      BY <1>2
    <3> QED BY <2>1, <2>2, <2>3, <3>1, PathGrows DEF IInv, Types
  <2>5. asked[Walked + 1] \in DOMAIN ToUtf8
    <3>1. Walked + 1 \in 1 .. Len(asked)
      BY <1>2
    <3> QED BY <1>2, <3>1, ElementOfSeq
  <2>6. PICK j \in 1 .. Len(Entries(tree, reading)) :
          /\ {k \in 1 .. Len(Entries(tree, reading)) :
                Entries(tree, reading)[k].name = ToUtf8[asked[Walked + 1]]} = {j}
          /\ Entries(tree, reading)[j].type = "dir"
          /\ Child(tree, reading, asked[Walked + 1], "dir") = Entries(tree, reading)[j].inode
    BY <2>1, <2>3, <2>4, <2>5, FindsChild DEF IInv, Types
  <2>7. Entries(tree, reading) # <<>>
    <3>1. Len(Entries(tree, reading)) # 0
      BY <2>6
    <3> QED BY <3>1, EmptySeq
  <2>8. dirs = Entries(tree, reading) /\ reading \in DOMAIN tree
    BY <1>1, <1>3, <2>1, <2>3, <2>7 DEF WalkedTable
  <2>9. entry_num = Len(dirs)
    <3>1. Entries(tree, reading) \in Seq(DirEntries)
      BY <2>8, EntriesOfDir DEF IInv, Types
    <3> QED BY <2>8, <3>1, DirectoryAssumption DEF IInv, Tables
  <2>10. Subdirs = {j}
    BY <1>2, <2>6, <2>8, <2>9 DEF Subdirs
  <2> QED BY <2>3, <2>4, <2>6, <2>8, <2>10
<1> HIDE DEF D, path
<1>4. Subdirs # {} => failed # "read"
  <2>1. failed = "read" => dirs = NULL
    BY <1>1 DEF ReadInv
  <2>2. entry_num = 0 => Subdirs = {}
    BY DEF Subdirs
  <2> QED BY <1>1, <2>1, <2>2
<1>5. rest' = Tail(rest) => /\ Walked' = Walked + 1
                            /\ rest' # <<>>
  <2>1. Len(Tail(rest)) # 0
    BY <1>1, <1>2
  <2>2. Tail(rest) # <<>>
    BY <2>1, EmptySeq
  <2>3. rest' = Tail(rest) => Walked' = Walked + 1
    BY <1>1, <1>2 DEF Walked
  <2> QED BY <2>2, <2>3
<1>6. CASE Subdirs # {} /\ get_dir_entry(dirs[First(Subdirs)].inode) /\ rest' = Tail(rest)
  <2> DEFINE next == dirs[First(Subdirs)].inode
  <2>1. failed = "no" /\ IsPlain(tree, asked) => next = D[Walked + 1] /\ next \in DOMAIN tree
    BY <1>3, FirstOfOne
  <2>2. get_dir_entry(next)
    BY <1>6
  <2> HIDE DEF next
  <2>3. /\ ReadInv' /\ WalkedTable' /\ reading' = next
        /\ pc' = IF next \in DOMAIN tree \cup {0} THEN "inode" ELSE "undefined"
    BY <1>1, <1>4, <1>6, <2>2, ReadBegins
  <2>4. OnPath'
    BY <1>1, <1>5, <1>6, <2>1, <2>3 DEF OnPath, D, path
  <2>5. DefinedUnlessFailed'
    BY <1>1, <2>1, <2>3 DEF DefinedUnlessFailed
  <2>6. FileIsRight'
    BY <2>3 DEF FileIsRight
  <2> QED BY <2>3, <2>4, <2>5, <2>6
<1>7. CASE Subdirs = {} /\ UNCHANGED <<pc, readVars>> /\ rest' = Tail(rest)
  <2>1. pc' = "walk" /\ reading' = reading
    BY <1>1, <1>7 DEF readVars
  <2>2. ReadInv' /\ WalkedTable'
    BY <1>1, <2>1 DEF ReadInv, WalkedTable
  <2>3. failed = "no" => ~IsPlain(tree, asked)
    BY <1>3, <1>7
  <2> QED BY <1>1, <1>5, <1>7, <2>1, <2>2, <2>3 DEF OnPath, FileIsRight, DefinedUnlessFailed
<1>8. CASE Subdirs = {} /\ pc' = "idle"
  <2>1. failed = "no" => ~IsPlain(tree, asked)
    BY <1>3, <1>8
  <2>2. FileIsRight' /\ DefinedUnlessFailed'
    BY <1>1, <1>8, <2>1 DEF FileIsRight, DefinedUnlessFailed
  <2> QED BY <1>8, <2>2, Quiet
<1> QED BY <1>6, <1>7, <1>8 DEF GetComponent

LEMMA GetFileWalks ==
  ASSUME IInv, ReadInv, WalkedTable, OnPath, GetFile
  PROVE  FileIsRight'
<1>1. /\ op = "get" /\ pc = "walk" /\ Len(rest) = 1 /\ tree' = tree
      /\ asked' = asked /\ got = NULL /\ (dirs = NULL => entry_num = 0)
  BY DEF GetFile, callVars, OnPath
<1>2. /\ asked \in Seq(DOMAIN ToUtf8) /\ Len(asked) \in Nat \ {0}
      /\ Walked = Len(asked) - 1 /\ asked # <<>> /\ rest # <<>>
      /\ Head(rest) = ToUtf8[Last(asked)]
  <2>1. rest # <<>>
    BY <1>1, EmptySeq
  <2>2. /\ asked \in Seq(DOMAIN ToUtf8) /\ Len(asked) \in Nat
        /\ Walked \in 0 .. Len(asked) /\ Head(rest) = ToUtf8[asked[Walked + 1]]
    BY <2>1, NextName
  <2>3. Walked = Len(asked) - 1 /\ Len(asked) # 0 /\ Walked + 1 = Len(asked)
    BY <1>1, <2>2 DEF Walked
  <2>4. asked # <<>>
    BY <2>3, EmptySeq
  <2> QED BY <2>1, <2>2, <2>3, <2>4 DEF Last
<1> DEFINE inode == IF Files = {} THEN 0 ELSE dirs[First(Files)].inode
           dir == DirAt(tree, Front(asked))
           E == Entries(tree, dir)
           file == Child(tree, dir, Last(asked), "file")
           F == {k \in 1 .. Len(E) : E[k].type = "file" /\ E[k].name = ToUtf8[Last(asked)]}
<1>3. \/ inode = 0 /\ got' = NULL /\ failed' = failed
      \/ inode # 0 /\ got' = inode /\ failed' = failed
      \/ inode # 0 /\ failed' # "no" /\ got' = NULL
  BY <1>1 DEF GetFile, AfterFailedRead
<1>4. failed = "read" => inode = 0
  <2>1. failed = "read" => dirs = NULL
    BY <1>1 DEF ReadInv
  <2>2. entry_num = 0 => Files = {}
    BY DEF Files
  <2> QED BY <1>1, <2>1, <2>2
<1>5. ASSUME failed = "no", IsPlain(tree, asked)
      PROVE  \/ inode = 0 /\ file = NULL
             \/ inode # 0 /\ inode = file
  <2>1. \/ F = {} /\ file = NULL
        \/ \E j \in 1 .. Len(E) : F = {j} /\ E[j].inode = file /\ file # 0
    <3>1. /\ E = Entries(tree, DirAt(tree, Front(asked)))
          /\ file = Child(tree, DirAt(tree, Front(asked)), Last(asked), "file")
          /\ F = {k \in 1 .. Len(E) : E[k].type = "file" /\ E[k].name = ToUtf8[Last(asked)]}
      OBVIOUS
    <3>2. tree \in Trees /\ asked \in Seq(DOMAIN ToUtf8) /\ asked # <<>>
      BY <1>2 DEF IInv, Types
    <3> HIDE DEF E, file, F
    <3> QED BY <1>5, <3>1, <3>2, LastEntry
  <2>2. /\ Front(asked) \in Seq(DOMAIN ToUtf8) /\ Len(Front(asked)) = Walked
        /\ Len(Front(asked)) \in Nat
    BY <1>2, FrontOfPath
  <2>3. reading = dir /\ dir # NULL
    BY <1>1, <1>5, <2>2 DEF OnPath, IsPlain, DirAt
  <2>4. dir \in DOMAIN tree
    <3>1. Len(Front(asked)) \in 0 .. Len(Front(asked))
      BY <2>2
    <3> QED BY <2>2, <2>3, <3>1, AllDirsThere DEF DirAt, IInv, Types
  <2>5. E \in Seq(DirEntries) /\ Len(E) \in Nat
    BY <2>4, EntriesOfDir DEF IInv, Types
  <2> HIDE DEF file, dir
  <2>6. E = <<>> => dirs = NULL /\ entry_num = 0
    BY <1>1, <1>5, <2>3, <2>4 DEF WalkedTable
  <2>7. E # <<>> => dirs = E
    BY <1>1, <1>5, <2>3, <2>4 DEF WalkedTable
  <2> HIDE DEF E
  <2>8. E # <<>> => entry_num = Len(E)
    BY <2>5, <2>7, DirectoryAssumption DEF IInv, Tables
  <2>9. CASE E = <<>>
    <3>1. Len(E) = 0
      BY <2>9, EmptySeq
    <3>2. F = {} /\ Files = {}
      BY <2>6, <2>9, <3>1 DEF Files
    <3> QED BY <2>1, <3>1, <3>2
  <2>10. CASE E # <<>>
    <3>1. Files = F
      BY <1>2, <2>7, <2>8, <2>10 DEF Files
    <3>2. CASE F = {}
      BY <2>1, <3>1, <3>2
    <3>3. CASE \E j \in 1 .. Len(E) : F = {j} /\ E[j].inode = file /\ file # 0
      <4>1. PICK j \in 1 .. Len(E) : F = {j} /\ E[j].inode = file /\ file # 0
        BY <3>3
      <4>2. First(Files) = j
        BY <3>1, <4>1, FirstOfOne
      <4> QED BY <2>7, <2>10, <3>1, <4>1, <4>2
    <3> QED BY <2>1, <3>2, <3>3
  <2> QED BY <2>9, <2>10
<1> HIDE DEF inode, file
<1>6. ASSUME IsPlain(tree, asked)
      PROVE  /\ got' # NULL /\ failed' # "map" => got' = file
             /\ failed' = "no" => got' = file
  <2>1. failed \in {"no", "read", "map"}
    BY DEF IInv, Flags
  <2> QED BY <1>3, <1>4, <1>5, <1>6, <2>1
<1> QED BY <1>1, <1>6 DEF FileIsRight, file, dir

-----------------------------------------------------------------------------
(* The listings *)

(* A listing that is not given another name, with the table it had. *)
LEMMA ListingKept ==
  ASSUME Listing, UNCHANGED <<tree, listingVars>>, pc # "undefined",
         dir_entries' = dir_entries \/ owner = NULL,
         op' = "find" /\ pc' \in InRead \cup {"walk", "no table"} =>
           owner = NULL /\ listed = <<>> /\ caller' \in Handles
  PROVE  Listing'
<1>1. /\ tree' = tree /\ find' = find /\ owner' = owner /\ owned' = owned /\ listed' = listed
  BY DEF listingVars
<1>2. op' = "find" /\ pc' \in (InRead \cup {"walk", "no table"}) =>
        owner' = NULL /\ listed' = <<>> /\ caller' \in Handles
  BY <1>1
<1>3. CASE owner = NULL
  BY <1>1, <1>2, <1>3 DEF Listing, InRead
<1>4. CASE owner # NULL
  <2>1. dir_entries' = dir_entries
    BY <1>4
  <2>2. DirAt(tree', owned') = DirAt(tree, owned)
        /\ Entries(tree', DirAt(tree', owned')) = Entries(tree, DirAt(tree, owned))
    BY <1>1
  <2> QED BY <1>1, <1>2, <1>4, <2>1, <2>2 DEF Listing, InRead
<1> QED BY <1>3, <1>4

(* A step of get_dir_entry, or of a walk. *)
LEMMA CallKeepsListing ==
  ASSUME Listing, UNCHANGED <<tree, callVars, listingVars>>, pc \in InRead \cup {"walk"},
         dir_entries' = dir_entries \/ op = "find"
  PROVE  Listing'
<1>1. op' = op /\ caller' = caller
  BY DEF callVars
<1>2. op = "find" => owner = NULL /\ listed = <<>> /\ caller \in Handles
  BY DEF Listing
<1>3. pc # "undefined"
  BY DEF InRead
<1>4. UNCHANGED <<tree, listingVars>>
  OBVIOUS
<1> QED BY <1>1, <1>2, <1>3, <1>4, ListingKept

(* After a listing has been given the first of the entries behind its place it
   has been given all names up to there. *)
LEMMA NextNameListed ==
  ASSUME NEW e \in Seq(DirEntries), NEW i \in 0 .. Len(e),
         NEW S, S = {k \in i + 1 .. Len(e) : IsShown(e[k])}, S # {}
  PROVE  /\ First(S) \in i + 1 .. Len(e)
         /\ NamesUpTo(e)[First(S)] = Append(NamesUpTo(e)[i], cFileName(e[First(S)]))
<1>1. Len(e) \in Nat
  BY LenProperties
<1>2. S \in SUBSET Nat
  BY <1>1
<1> DEFINE j == First(S)
<1>3. j \in S /\ \A k \in S : j <= k
  BY <1>2, FirstIsIn
<1> HIDE DEF j
<1>4. j \in i + 1 .. Len(e) /\ IsShown(e[j]) /\ j - 1 \in i .. Len(e) /\ j \in 1 .. Len(e)
  BY <1>1, <1>3
<1>5. \A k \in i + 1 .. j - 1 : ~IsShown(e[k])
  BY <1>1, <1>3, <1>4
<1>6. NamesUpTo(e)[j - 1] = NamesUpTo(e)[i]
  BY <1>4, <1>5, NamesStay
<1>7. NamesUpTo(e)[j] = Append(NamesUpTo(e)[j - 1], cFileName(e[j]))
  BY <1>4, NamesGrow
<1> QED BY <1>4, <1>6, <1>7 DEF j

LEMMA FirstEntryLists ==
  ASSUME IInv, ReadInv, WalkedTable, OnPath, Listing, get_first_dir_entry
  PROVE  Listing'
<1>1. /\ op = "find" /\ pc = "walk" /\ rest = <<>> /\ tree' = tree /\ owned' = asked
      /\ owner' = (IF failed = "no" THEN caller ELSE NULL)
      /\ dir_entries' = dir_entries /\ listed = <<>> /\ caller \in Handles
  BY DEF get_first_dir_entry, tableVars, Listing
<1>2. pc' \in {"idle", "undefined"}
  BY DEF get_first_dir_entry, ShowEntry
<1> SUFFICES ASSUME owner' # NULL, pc' # "undefined", DirAt(tree, asked) # NULL
             PROVE  /\ dir_entries' = Entries(tree, DirAt(tree, asked))
                    /\ \E k \in 0 .. Len(dir_entries') :
                         /\ listed' = NamesUpTo(dir_entries')[k]
                         /\ find'[owner'] = k \/ (k = Len(dir_entries') /\ find'[owner'] = k + 1)
  BY <1>1, <1>2 DEF Listing, InRead
<1>3. failed = "no" /\ owner' = caller
  BY <1>1
<1>4. reading = DirAt(tree, asked) /\ reading \in DOMAIN tree
  <2>1. Walked = Len(asked) /\ Len(asked) \in Nat /\ asked \in Seq(DOMAIN ToUtf8)
    BY <1>1, NextName
  <2>2. reading = DirAt(tree, asked)
    BY <1>1, <1>3, <2>1 DEF OnPath, DirAt
  <2>3. Len(asked) \in 0 .. Len(asked)
    BY <2>1
  <2> QED BY <2>1, <2>2, <2>3, AllDirsThere DEF DirAt, IInv, Types
<1>5. dir_entries = Entries(tree, reading)
  BY <1>1, <1>3, <1>4 DEF WalkedTable
<1>6. dir_entries \in Seq(DirEntries) /\ dir_entry_num = Len(dir_entries) /\ Len(dir_entries) \in Nat
  <2>1. dir_entries \in Seq(DirEntries) /\ dir_entry_num = Len(dir_entries)
    BY <1>1 DEF IInv, Tables
  <2> QED BY <2>1, LenProperties
<1> DEFINE shown == {k \in 1 .. dir_entry_num : IsShown(dir_entries[k])}
<1>7. find \in [Handles -> Nat \cup {NULL}]
  BY DEF IInv, Types
<1>8. CASE shown = {}
  <2>1. find' = [find EXCEPT ![caller] = dir_entry_num + 1] /\ listed' = listed
    BY <1>8 DEF get_first_dir_entry
  <2>2. find'[caller] = Len(dir_entries) + 1
    BY <1>1, <1>6, <1>7, <2>1
  <2>3. NamesUpTo(dir_entries)[Len(dir_entries)] = NamesUpTo(dir_entries)[0]
    <3>1. \A k \in 0 + 1 .. Len(dir_entries) : ~IsShown(dir_entries[k])
      BY <1>6, <1>8
    <3>2. 0 \in 0 .. Len(dir_entries) /\ Len(dir_entries) \in 0 .. Len(dir_entries)
      BY <1>6
    <3> QED BY <1>6, <3>1, <3>2, NamesStay
  <2>4. listed' = NamesUpTo(dir_entries)[Len(dir_entries)]
    BY <1>1, <1>6, <2>1, <2>3, NamesGrow
  <2>5. Len(dir_entries) \in 0 .. Len(dir_entries)
    BY <1>6
  <2> QED BY <1>1, <1>3, <1>4, <1>5, <2>2, <2>4, <2>5
<1>9. CASE shown # {}
  <2> DEFINE j == First(shown)
  <2>1. /\ j \in 0 + 1 .. Len(dir_entries)
        /\ NamesUpTo(dir_entries)[j] = Append(NamesUpTo(dir_entries)[0], cFileName(dir_entries[j]))
    <3>1. shown = {k \in 0 + 1 .. Len(dir_entries) : IsShown(dir_entries[k])}
      BY <1>6
    <3>2. 0 \in 0 .. Len(dir_entries)
      BY <1>6
    <3> HIDE DEF shown
    <3> QED BY <1>6, <1>9, <3>1, <3>2, NextNameListed
  <2>2. ShowEntry(dir_entries[j], caller, j, failed = "no")
    BY <1>9 DEF get_first_dir_entry
  <2> HIDE DEF j, shown
  <2>3. /\ find' = [find EXCEPT ![caller] = j]
        /\ listed' = Append(listed, cFileName(dir_entries[j]))
    BY <1>3, <2>2 DEF ShowEntry
  <2>4. find'[caller] = j /\ listed' = NamesUpTo(dir_entries)[j]
    <3>1. find'[caller] = j
      BY <1>1, <1>7, <2>3
    <3>2. NamesUpTo(dir_entries)[0] = <<>>
      BY <1>6, NamesGrow
    <3> QED BY <1>1, <2>1, <2>3, <3>1, <3>2
  <2>5. j \in 0 .. Len(dir_entries)
    BY <1>6, <2>1
  <2> QED BY <1>1, <1>3, <1>4, <1>5, <2>4, <2>5
<1> QED BY <1>8, <1>9

LEMMA FindNextLists ==
  ASSUME IInv, Listing, NEW h \in Handles, FsFindNext(h)
  PROVE  Listing'
<1>1. /\ pc = "idle" /\ tree' = tree /\ owner' = owner /\ owned' = owned
      /\ dir_entries' = dir_entries /\ find[h] # NULL /\ Following(h) # {}
      /\ ShowEntry(dir_entries[First(Following(h))], h, First(Following(h)), owner = h)
  BY DEF FsFindNext, tableVars
<1>2. pc' \in {"idle", "undefined"}
  BY <1>1 DEF ShowEntry
<1> SUFFICES ASSUME owner # NULL, pc' # "undefined", DirAt(tree, owned) # NULL
             PROVE  /\ dir_entries = Entries(tree, DirAt(tree, owned))
                    /\ \E k \in 0 .. Len(dir_entries) :
                         /\ listed' = NamesUpTo(dir_entries)[k]
                         /\ find'[owner] = k \/ (k = Len(dir_entries) /\ find'[owner] = k + 1)
  BY <1>1, <1>2 DEF Listing, InRead
<1>3. /\ dir_entries = Entries(tree, DirAt(tree, owned))
      /\ \E k \in 0 .. Len(dir_entries) :
           /\ listed = NamesUpTo(dir_entries)[k]
           /\ find[owner] = k \/ (k = Len(dir_entries) /\ find[owner] = k + 1)
  BY <1>1 DEF Listing
<1>4. PICK k \in 0 .. Len(dir_entries) :
        /\ listed = NamesUpTo(dir_entries)[k]
        /\ find[owner] = k \/ (k = Len(dir_entries) /\ find[owner] = k + 1)
  BY <1>3
<1> DEFINE j == First(Following(h))
<1>5. /\ find' = [find EXCEPT ![h] = j]
      /\ listed' = IF owner = h THEN Append(listed, cFileName(dir_entries[j])) ELSE listed
  BY <1>1, <1>2 DEF ShowEntry
<1>6. find \in [Handles -> Nat \cup {NULL}]
  BY DEF IInv, Types
<1>7. CASE owner # h
  <2>1. find'[owner] = find[owner] /\ listed' = listed
    BY <1>5, <1>6, <1>7
  <2> QED BY <1>3, <1>4, <2>1
<1>8. CASE owner = h
  <2>1. dir_entries \in Seq(DirEntries) /\ Len(dir_entries) \in Nat
        /\ dir_entry_num = Len(dir_entries) /\ dir_entries # NULL
    <3>1. dir_entries \in Seq(DirEntries) /\ dir_entries # NULL
      <4>1. dir_entries # NULL
        BY <1>1 DEF Following
      <4> QED BY <4>1 DEF IInv, Tables
    <3> QED BY <3>1, LenProperties DEF IInv, Tables
  <2>2. find[h] = k
    <3>1. CASE find[h] = Len(dir_entries) + 1
      <4>1. find[h] + 1 .. dir_entry_num = {}
        BY <2>1, <3>1
      <4>2. Following(h) = {}
        BY <2>1, <4>1 DEF Following
      <4> QED BY <1>1, <4>2
    <3> QED BY <1>4, <1>8, <3>1
  <2>3. Following(h) = {l \in k + 1 .. Len(dir_entries) : IsShown(dir_entries[l])}
    BY <2>1, <2>2 DEF Following
  <2>4. /\ j \in k + 1 .. Len(dir_entries)
        /\ NamesUpTo(dir_entries)[j] = Append(NamesUpTo(dir_entries)[k], cFileName(dir_entries[j]))
    BY <1>1, <2>1, <2>3, NextNameListed
  <2> HIDE DEF j
  <2>5. find'[owner] = j /\ listed' = NamesUpTo(dir_entries)[j]
    BY <1>4, <1>5, <1>6, <1>8, <2>4
  <2>6. j \in 0 .. Len(dir_entries)
    BY <2>1, <2>4
  <2> QED BY <1>3, <2>5, <2>6
<1> QED BY <1>7, <1>8

LEMMA FindCloseLists ==
  ASSUME IInv, Listing, NEW h \in Handles, FsFindClose(h)
  PROVE  Listing'
<1>1. /\ pc = "idle" /\ pc' = pc /\ tree' = tree /\ dir_entries' = dir_entries
      /\ find' = [find EXCEPT ![h] = NULL]
  BY DEF FsFindClose, tableVars
<1>2. CASE owner = h
  <2>1. owner' = NULL
    BY <1>2 DEF FsFindClose
  <2> QED BY <1>1, <2>1 DEF Listing, InRead
<1>3. CASE owner # h
  <2>1. owner' = owner /\ owned' = owned /\ listed' = listed
    BY <1>3 DEF FsFindClose
  <2>2. owner # NULL => find'[owner] = find[owner]
    BY <1>1, <1>3 DEF IInv, Types
  <2> QED BY <1>1, <2>1, <2>2 DEF Listing, InRead
<1> QED BY <1>2, <1>3

-----------------------------------------------------------------------------
(* Every step keeps CallsInv *)

LEMMA ReadStepCalls ==
  ASSUME IInv, CallsInv, ReadInode \/ ReadBlock \/ ReadEntry
  PROVE  CallsInv'
<1>1. ReadInv' /\ WalkedTable'
  BY ReadInodeReads, ReadBlockReads, ReadEntryReads DEF CallsInv
<1>2. /\ pc \in InRead /\ UNCHANGED <<tree, callVars, listingVars>> /\ dir_entries' = dir_entries
      /\ UNCHANGED <<rest, reading, got>>
  BY DEF ReadInode, ReadBlock, ReadEntry, ReadFails, Mapped, Unmapped, MapCrashes, InRead,
         tableVars, lookupVars, readVars
<1>3. /\ pc' \in InRead \cup {"undefined"} /\ (failed' = failed \/ failed' # "no")
      /\ pc' = "undefined" => failed' # "no"
  BY DEF ReadInode, ReadBlock, ReadEntry, ReadFails, Mapped, Unmapped, MapCrashes, InRead,
         AfterFailedRead
<1>4. OnPath'
  BY <1>2, <1>3, ReadStays DEF CallsInv
<1>5. Listing'
  BY <1>2, CallKeepsListing DEF CallsInv
<1>6. FileIsRight' /\ DefinedUnlessFailed'
  BY <1>3 DEF FileIsRight, DefinedUnlessFailed, InRead
<1> QED BY <1>1, <1>4, <1>5, <1>6 DEF CallsInv

(* The directory of a path that means something is entered at its last name,
   so that a hollow one on the way is the last. *)
LEMMA FlushNoPathCalls ==
  ASSUME IInv, CallsInv, FlushNoPath
  PROVE  CallsInv'
<1>1. /\ pc = "block" /\ pc' = "undefined" /\ tree' = tree /\ asked' = asked /\ op' = op
      /\ failed' = failed /\ reading \in DOMAIN tree /\ Hollow(reading)
  BY DEF FlushNoPath, callVars, IInv, AtPlace
<1>2. ASSUME failed = "no", op = "find", DirAt(tree, asked) # NULL
      PROVE  Hollow(DirAt(tree, asked))
  <2>1. reading = DirsAlong(tree, asked)[Walked]
    BY <1>1, <1>2 DEF CallsInv, OnPath, InRead
  <2>2. asked \in Seq(DOMAIN ToUtf8) /\ Walked \in 0 .. Len(asked)
    BY NextName
  <2>3. Walked = Len(asked)
    BY <1>1, <1>2, <2>1, <2>2, HollowIsLast DEF Hollow, IInv, Types
  <2> QED BY <1>1, <2>1, <2>3 DEF DirAt
<1>3. ASSUME failed = "no", op = "get", IsPlain(tree, asked)
      PROVE  Hollow(DirAt(tree, Front(asked)))
  <2>1. asked # <<>> /\ rest # <<>> /\ reading = DirsAlong(tree, Front(asked))[Walked]
    BY <1>1, <1>3 DEF CallsInv, OnPath, InRead, IsPlain
  <2>2. asked \in Seq(DOMAIN ToUtf8) /\ Walked \in 0 .. Len(asked) /\ Walked + 1 \in 1 .. Len(asked)
    BY <2>1, NextName
  <2>3. Front(asked) \in Seq(DOMAIN ToUtf8) /\ Walked \in 0 .. Len(Front(asked))
    BY <2>1, <2>2, FrontOfPath
  <2>4. DirAt(tree, Front(asked)) # NULL
    BY <1>3 DEF IsPlain
  <2>5. Walked = Len(Front(asked))
    BY <1>1, <2>1, <2>3, <2>4, HollowIsLast DEF Hollow, IInv, Types
  <2> QED BY <1>1, <2>1, <2>5 DEF DirAt
<1>4. op \in {"find", "get"}
  BY <1>1 DEF CallsInv, OnPath, InRead
<1>5. DefinedUnlessFailed'
  BY <1>1, <1>2, <1>3, <1>4 DEF DefinedUnlessFailed, Hollow, HasExtents
<1>6. Listing' /\ FileIsRight'
  BY <1>1 DEF Listing, FileIsRight, InRead
<1> QED BY <1>1, <1>5, <1>6, Quiet DEF CallsInv

LEMMA LoadCalls ==
  ASSUME IInv, CallsInv, NullHasCause, load_ext2_dir_entry
  PROVE  CallsInv'
<1>1. ReadInv' /\ WalkedTable' /\ OnPath' /\ DefinedUnlessFailed'
  BY LoadWalks DEF CallsInv
<1>2. /\ pc \in InRead /\ UNCHANGED <<tree, callVars, listingVars>> /\ op = "find"
      /\ pc' \in {"walk", "no table"}
  BY DEF load_ext2_dir_entry, Returned, InRead
<1>3. Listing'
  BY <1>2, CallKeepsListing DEF CallsInv
<1>4. FileIsRight'
  BY <1>2 DEF FileIsRight
<1> QED BY <1>1, <1>3, <1>4 DEF CallsInv

LEMMA DirsReadCalls ==
  ASSUME IInv, CallsInv, NullHasCause, DirsRead
  PROVE  CallsInv'
<1>1. ReadInv' /\ WalkedTable' /\ OnPath' /\ DefinedUnlessFailed'
  BY DirsReadWalks DEF CallsInv
<1>2. /\ pc \in InRead /\ UNCHANGED <<tree, callVars, listingVars>>
      /\ pc' \in {"walk", "undefined"} /\ dir_entries' = dir_entries
  BY DEF DirsRead, Returned, InRead, tableVars
<1>3. Listing'
  BY <1>2, CallKeepsListing DEF CallsInv
<1>4. FileIsRight'
  BY <1>2 DEF FileIsRight
<1> QED BY <1>1, <1>3, <1>4 DEF CallsInv

LEMMA FindComponentCalls ==
  ASSUME IInv, CallsInv, FindComponent
  PROVE  CallsInv'
<1>1. ReadInv' /\ WalkedTable' /\ OnPath' /\ DefinedUnlessFailed'
  BY FindComponentWalks DEF CallsInv
<1>2. /\ pc = "walk" /\ UNCHANGED <<tree, callVars, listingVars>> /\ op' = "find"
      /\ dir_entries' = dir_entries
  BY DEF FindComponent, tableVars, callVars
<1>3. Listing'
  BY <1>2, CallKeepsListing DEF CallsInv
<1>4. FileIsRight'
  BY <1>2 DEF FileIsRight
<1> QED BY <1>1, <1>3, <1>4 DEF CallsInv

LEMMA GetComponentCalls ==
  ASSUME IInv, CallsInv, GetComponent
  PROVE  CallsInv'
<1>1. ReadInv' /\ WalkedTable' /\ OnPath' /\ FileIsRight' /\ DefinedUnlessFailed'
  BY GetComponentWalks DEF CallsInv
<1>2. pc = "walk" /\ UNCHANGED <<tree, callVars, listingVars>> /\ dir_entries' = dir_entries
  BY DEF GetComponent, tableVars
<1>3. Listing'
  BY <1>2, CallKeepsListing DEF CallsInv
<1> QED BY <1>1, <1>3 DEF CallsInv

LEMMA GetFileCalls ==
  ASSUME IInv, CallsInv, GetFile
  PROVE  CallsInv'
<1>1. FileIsRight'
  BY GetFileWalks DEF CallsInv
<1>2. /\ pc = "walk" /\ UNCHANGED <<tree, callVars, listingVars>> /\ pc' = "idle"
      /\ dir_entries' = dir_entries
  BY DEF GetFile, tableVars
<1>3. Listing'
  BY <1>2, CallKeepsListing DEF CallsInv
<1>4. DefinedUnlessFailed'
  BY <1>2 DEF DefinedUnlessFailed
<1> QED BY <1>1, <1>2, <1>3, <1>4, Quiet DEF CallsInv

LEMMA FirstEntryCalls ==
  ASSUME IInv, CallsInv, get_first_dir_entry
  PROVE  CallsInv'
<1>1. Listing'
  BY FirstEntryLists DEF CallsInv
<1>2. /\ pc' \in {"idle", "undefined"} /\ op' = "find"
      /\ pc' = "undefined" => failed' # "no"
  BY DEF get_first_dir_entry, ShowEntry, AfterFailedRead, callVars
<1>3. FileIsRight' /\ DefinedUnlessFailed'
  BY <1>2 DEF FileIsRight, DefinedUnlessFailed
<1> QED BY <1>1, <1>2, <1>3, Quiet DEF CallsInv

LEMMA NoDirectoryCalls ==
  ASSUME IInv, CallsInv, NoDirectory, op = "find"
  PROVE  CallsInv'
<1>1. /\ pc = "no table" /\ pc' = "idle" /\ op' = "find" /\ owner' = owner /\ owner = NULL
  BY DEF NoDirectory, callVars, CallsInv, Listing
<1>2. Listing'
  BY <1>1 DEF Listing, InRead
<1>3. FileIsRight' /\ DefinedUnlessFailed'
  BY <1>1 DEF FileIsRight, DefinedUnlessFailed
<1> QED BY <1>1, <1>2, <1>3, Quiet DEF CallsInv

(* In a plain path no table is missing without a failure. *)
LEMMA NullTableCalls ==
  ASSUME IInv, CallsInv, NullHasCause, NullTable
  PROVE  CallsInv'
<1>1. /\ op = "get" /\ pc = "walk" /\ pc' = "undefined" /\ tree' = tree /\ asked' = asked
      /\ op' = op /\ failed' = failed /\ (failed = "no" => reading \notin DOMAIN tree)
  BY DEF NullTable, callVars, NullHasCause
<1>2. failed = "no" => ~IsPlain(tree, asked)
  <2> SUFFICES ASSUME failed = "no", IsPlain(tree, asked) PROVE FALSE
    OBVIOUS
  <2>1. rest # <<>> /\ reading = DirsAlong(tree, Front(asked))[Walked]
    BY <1>1 DEF CallsInv, OnPath, IsPlain
  <2>2. asked \in Seq(DOMAIN ToUtf8) /\ Walked \in 0 .. Len(asked) - 1 /\ asked # <<>>
    <3>1. /\ asked \in Seq(DOMAIN ToUtf8) /\ Len(asked) \in Nat
          /\ Walked \in 0 .. Len(asked) /\ Walked + 1 \in 1 .. Len(asked)
      BY <2>1, NextName
    <3>2. Len(asked) # 0
      BY <3>1
    <3>3. asked # <<>>
      BY <3>2, EmptySeq
    <3> QED BY <3>1, <3>3
  <2>3. Front(asked) \in Seq(DOMAIN ToUtf8) /\ Walked \in 0 .. Len(Front(asked))
    BY <2>2, FrontOfPath
  <2>4. DirAt(tree, Front(asked)) # NULL
    BY DEF IsPlain
  <2>5. reading \in DOMAIN tree
    BY <2>1, <2>3, <2>4, AllDirsThere DEF IInv, Types
  <2> QED BY <1>1, <2>5
<1>3. Listing'
  BY <1>1 DEF Listing, InRead
<1>4. FileIsRight' /\ DefinedUnlessFailed'
  BY <1>1, <1>2 DEF FileIsRight, DefinedUnlessFailed
<1> QED BY <1>1, <1>3, <1>4, Quiet DEF CallsInv

LEMMA FindFirstCalls ==
  ASSUME IInv, IInv', NEW h \in Handles, NEW path \in Paths, FsFindFirst(h, path)
  PROVE  CallsInv'
<1>1. ReadInv' /\ WalkedTable' /\ OnPath' /\ DefinedUnlessFailed'
  BY FindFirstWalks
<1>2. op' = "find" /\ owner' = NULL /\ listed' = <<>> /\ caller' = h
  BY DEF FsFindFirst
<1>3. Listing' /\ FileIsRight'
  BY <1>2 DEF Listing, FileIsRight
<1> QED BY <1>1, <1>3 DEF CallsInv

LEMMA GetInodeCalls ==
  ASSUME IInv, CallsInv, NEW path \in Paths, get_ext2_inode(path)
  PROVE  CallsInv'
<1>1. ReadInv' /\ WalkedTable' /\ OnPath' /\ DefinedUnlessFailed'
  BY GetInodeWalks
<1>2. /\ op' = "get" /\ pc = "idle" /\ pc' # "idle" /\ UNCHANGED <<tree, listingVars>>
      /\ dir_entries' = dir_entries
  BY DEF get_ext2_inode, get_dir_entry, tableVars
<1>3. Listing'
  BY <1>2, ListingKept DEF CallsInv
<1>4. FileIsRight'
  BY <1>2 DEF FileIsRight
<1> QED BY <1>1, <1>3, <1>4 DEF CallsInv

LEMMA FindNextCalls ==
  ASSUME IInv, CallsInv, NEW h \in Handles, FsFindNext(h)
  PROVE  CallsInv'
<1>1. Listing'
  BY FindNextLists DEF CallsInv
<1>2. /\ pc = "idle" /\ pc' \in {"idle", "undefined"} /\ (pc' = "undefined" => failed' # "no")
      /\ op' = op /\ asked' = asked /\ tree' = tree /\ got' = got
      /\ pc' = "idle" => failed' = failed
  BY DEF FsFindNext, ShowEntry, AfterFailedRead, callVars, lookupVars
<1>3. FileIsRight' /\ DefinedUnlessFailed'
  BY <1>2 DEF CallsInv, FileIsRight, DefinedUnlessFailed
<1> QED BY <1>1, <1>2, <1>3, Quiet DEF CallsInv

LEMMA FindCloseCalls ==
  ASSUME IInv, CallsInv, NEW h \in Handles, FsFindClose(h)
  PROVE  CallsInv'
<1>1. Listing'
  BY FindCloseLists DEF CallsInv
<1>2. /\ pc = "idle" /\ pc' = "idle" /\ failed' = failed
      /\ op' = op /\ asked' = asked /\ tree' = tree /\ got' = got
  BY DEF FsFindClose, callVars, lookupVars
<1>3. FileIsRight' /\ DefinedUnlessFailed'
  BY <1>2 DEF CallsInv, FileIsRight, DefinedUnlessFailed
<1> QED BY <1>1, <1>2, <1>3, Quiet DEF CallsInv

LEMMA StutterCalls ==
  ASSUME CallsInv, UNCHANGED vars
  PROVE  CallsInv'
<1>1. /\ tree' = tree /\ pc' = pc /\ op' = op /\ caller' = caller /\ asked' = asked
      /\ rest' = rest /\ reading' = reading /\ blk' = blk /\ nr_blk' = nr_blk /\ off' = off
      /\ tab_dir' = tab_dir /\ dir_entries' = dir_entries /\ dirs' = dirs
      /\ entry_num' = entry_num /\ got' = got /\ failed' = failed
      /\ find' = find /\ owner' = owner /\ owned' = owned /\ listed' = listed
  BY DEF vars, callVars, readVars, tableVars, lookupVars, listingVars
<1>2. ReadInv' /\ WalkedTable'
  BY <1>1 DEF CallsInv, ReadInv, WalkedTable
<1>3. OnPath'
  BY <1>1 DEF CallsInv, OnPath, Walked
<1>4. Listing'
  BY <1>1 DEF CallsInv, Listing
<1>5. FileIsRight'
  BY <1>1 DEF CallsInv, FileIsRight
<1>6. DefinedUnlessFailed'
  BY <1>1 DEF CallsInv, DefinedUnlessFailed, Hollow, HasExtents
<1> QED BY <1>2, <1>3, <1>4, <1>5, <1>6 DEF CallsInv

(* It is FsFindFirst that does without a table. *)
OnlyFind == pc = "no table" => op = "find"

LEMMA OnlyFindKept == OnlyFind /\ [Next]_vars => OnlyFind'
<1> SUFFICES ASSUME OnlyFind, [Next]_vars, pc' = "no table" PROVE op' = "find"
  BY DEF OnlyFind
<1> USE DEF OnlyFind
<1>1. CASE load_ext2_dir_entry
  BY <1>1 DEF load_ext2_dir_entry, callVars
<1>2. CASE ReadInode \/ ReadBlock \/ FlushNoPath \/ ReadEntry
  BY <1>2 DEF ReadInode, ReadBlock, ReadEntry, ReadFails, Mapped, Unmapped, MapCrashes, FlushNoPath
<1>3. CASE FindComponent \/ get_first_dir_entry \/ NoDirectory
  BY <1>3 DEF FindComponent, get_first_dir_entry, NoDirectory, ShowEntry, get_dir_entry, callVars
<1>4. CASE DirsRead \/ NullTable \/ GetComponent \/ GetFile
  BY <1>4 DEF DirsRead, NullTable, GetComponent, GetFile, get_dir_entry
<1>5. CASE HostCalls
  BY <1>5 DEF HostCalls, FsFindFirst, FsFindNext, FsFindClose, get_ext2_inode, ShowEntry,
              get_dir_entry
<1>6. CASE UNCHANGED vars
  BY <1>6 DEF vars, callVars
<1> QED BY <1>1, <1>2, <1>3, <1>4, <1>5, <1>6 DEF Next, CallStep

LEMMA CallsKept ==
  ASSUME IInv, IInv', NullHasCause, OnlyFind, CallsInv, [Next]_vars
  PROVE  CallsInv'
<1>1. CASE CallStep
  BY <1>1, ReadStepCalls, FlushNoPathCalls, LoadCalls, FindComponentCalls, FirstEntryCalls, NoDirectoryCalls,
     DirsReadCalls, NullTableCalls, GetComponentCalls, GetFileCalls
     DEF CallStep, OnlyFind, NoDirectory
<1>2. CASE HostCalls
  BY <1>2, FindFirstCalls, GetInodeCalls, FindNextCalls, FindCloseCalls DEF HostCalls
<1>3. CASE UNCHANGED vars
  BY <1>3, StutterCalls
<1> QED BY <1>1, <1>2, <1>3 DEF Next

LEMMA CallsBegin == Init => CallsInv /\ OnlyFind /\ NullHasCause /\ UndefinedHasCause
BY DEF Init, CallsInv, OnlyFind, ReadInv, WalkedTable, OnPath, InRead, Listing, FileIsRight,
       DefinedUnlessFailed, NullHasCause, UndefinedHasCause

(* Each call is where its path leads, with what it has read of the directory
   there. *)
THEOREM CallsFollowPaths == Spec => [](IInv /\ CallsInv)
<1>1. /\ IInv /\ [Next]_vars /\ NullHasCause /\ UndefinedHasCause
           => NullHasCause' /\ UndefinedHasCause'
      /\ OnlyFind /\ [Next]_vars => OnlyFind'
  BY CauseKept, OnlyFindKept
<1>2. IInv /\ IInv' /\ NullHasCause /\ OnlyFind /\ CallsInv /\ [Next]_vars => CallsInv'
  BY CallsKept
<1> QED BY <1>1, <1>2, InitEstablishes, CallsBegin, StepKeeps, PTL DEF Spec

(* A listing whose table was read in full names every entry in use of the
   directory that its path means, once and in order, however the calls on other
   handles are mixed with its own, for trees of any size. *)
THEOREM ListingsComplete == Spec => []ListingIsComplete
<1>1. IInv /\ CallsInv => ListingIsComplete
  <2> SUFFICES ASSUME IInv, CallsInv, pc = "idle", owner # NULL, DirAt(tree, owned) # NULL,
                      Following(owner) = {}
               PROVE  listed = Names(Entries(tree, DirAt(tree, owned)))
    BY DEF ListingIsComplete
  <2>1. /\ dir_entries = Entries(tree, DirAt(tree, owned))
        /\ \E k \in 0 .. Len(dir_entries) :
             /\ listed = NamesUpTo(dir_entries)[k]
             /\ find[owner] = k \/ (k = Len(dir_entries) /\ find[owner] = k + 1)
    BY DEF CallsInv, Listing
  <2>2. PICK k \in 0 .. Len(dir_entries) :
          /\ listed = NamesUpTo(dir_entries)[k]
          /\ find[owner] = k \/ (k = Len(dir_entries) /\ find[owner] = k + 1)
    BY <2>1
  <2>3. dir_entries \in Seq(DirEntries) /\ dir_entries # NULL
    <3>1. owned \in Seq(DOMAIN ToUtf8) /\ Len(owned) \in Nat
      <4>1. owned \in Seq(DOMAIN ToUtf8)
        BY DirectoryAssumption, EmptySeq DEF IInv, Types
      <4> QED BY <4>1, LenProperties
    <3>2. DirAt(tree, owned) \in DOMAIN tree
      <4>1. Len(owned) \in 0 .. Len(owned)
        BY <3>1
      <4> QED BY <3>1, <4>1, AllDirsThere DEF DirAt, IInv, Types
    <3> QED BY <2>1, <3>2, EntriesOfDir, DirectoryAssumption DEF IInv, Types
  <2>4. dir_entry_num = Len(dir_entries) /\ Len(dir_entries) \in Nat
    BY <2>3, LenProperties DEF IInv, Tables
  <2>5. NamesUpTo(dir_entries)[Len(dir_entries)] = NamesUpTo(dir_entries)[k]
    <3>1. CASE k = Len(dir_entries)
      BY <3>1
    <3>2. CASE find[owner] = k
      <4>1. \A l \in k + 1 .. Len(dir_entries) : ~IsShown(dir_entries[l])
        BY <2>3, <2>4, <3>2 DEF Following
      <4>2. Len(dir_entries) \in k .. Len(dir_entries)
        BY <2>4
      <4> QED BY <2>3, <4>1, <4>2, NamesStay
    <3> QED BY <2>2, <3>1, <3>2
  <2> QED BY <2>1, <2>2, <2>5 DEF Names
<1> QED BY <1>1, CallsFollowPaths, PTL

(* FsGetFile copies the file that its path means, for paths of any length and
   trees of any depth, also when a read fails on the way; when none does the
   file is found. *)
THEOREM FileCorrect == Spec => []FileIsRight
<1>1. CallsInv => FileIsRight
  BY DEF CallsInv
<1> QED BY <1>1, CallsFollowPaths, PTL

(* Calls with paths that mean something never use a NULL pointer, nor an address
   that was not set, unless a read or the mapping of a block failed or the
   directory at the end of the path has extents but no blocks, which is enough
   for a crash (partition_linux_ext2.cpp:220, blocks.h:71-77). *)
THEOREM CallsDefined == Spec => []DefinedUnlessFailed
<1>1. CallsInv => DefinedUnlessFailed
  BY DEF CallsInv
<1> QED BY <1>1, CallsFollowPaths, PTL

=============================================================================
