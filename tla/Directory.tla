------------------------------ MODULE Directory ------------------------------
(***************************************************************************)
(* The directories of one partition: how their entries are read, how the   *)
(* host lists a directory and how the path of a file leads to its inode.   *)
(*                                                                         *)
(* get_dir_entry reads all blocks of a directory into a table that grows   *)
(* by chunks.  FsFindFirst reads the directories of a path from the root   *)
(* on, each into the one table dir_entries of the plugin, and gives out    *)
(* its first entry; FsFindNext goes on in that table from the place in the *)
(* handle.  FsGetFile walks the path of a file with a table of its own.    *)
(*                                                                         *)
(* The host's thread makes all these calls, so one is over before the next *)
(* begins, but the calls on several handles may be mixed.  Entries count   *)
(* from 1 here: place k is index k - 1 of the code.  A path is the         *)
(* sequence of the names behind the name of the partition.  The host uses  *)
(* names of the ANSI code page, the file system UTF-8.  The state          *)
(* "undefined" follows a use of a NULL pointer or of an address that was   *)
(* never set, and the reading of a file as a directory: nothing is said of *)
(* what the program does then.                                             *)
(***************************************************************************)
EXTENDS Integers, SequencesExt, FiniteSets

CONSTANTS
  Trees,       \* the directories a partition may have
  Extents,     \* of each tree the directories with EXT4_EXTENTS_FL
  EXT4_IND_BLOCK, \* of the others the first block behind the indirect block
  DindFirst,   \*   and the first behind the double indirect one
  Paths,       \* the paths the host may use
  Handles,     \* listings that may be open at once
  ChunkSize,   \* CHUNK_SIZE: 256
  ToAcp,       \* MultibyteToMultibyte, from UTF-8 to the ANSI code page
  ToUtf8,      \*   and back; a character without a code becomes "?"
               \*   or one that looks like it
  NULL

EXT4_ROOT_INO == 2

(* The number 0 marks an entry that is not in use; it still has the name and
   the type of the file that was deleted. *)
DirEntries == [name : DOMAIN ToAcp, inode : Nat, type : {"dir", "file"}]

(* A tree: for the inode number of each directory its blocks, as sequences of
   entries. *)
IsTree(t) ==
  /\ EXT4_ROOT_INO \in DOMAIN t /\ 0 \notin DOMAIN t
  /\ \A ino \in DOMAIN t :
       /\ t[ino] \in Seq(Seq(DirEntries))
       /\ \A b \in 1 .. Len(t[ino]) :
            /\ t[ino][b] # <<>>
            /\ \A k \in 1 .. Len(t[ino][b]) :
                 t[ino][b][k].type = "dir" => t[ino][b][k].inode \in DOMAIN t \cup {0}

ASSUME DirectoryAssumption ==
  /\ ChunkSize \in Nat \ {0} /\ NULL \notin Nat \cup Seq(DirEntries)
  /\ \A t \in Trees : IsTree(t)
  /\ Extents \in [Trees -> SUBSET Nat]
  /\ EXT4_IND_BLOCK \in Nat /\ DindFirst \in Nat /\ EXT4_IND_BLOCK < DindFirst
  /\ Paths \subseteq Seq(DOMAIN ToUtf8)
  /\ \A name \in DOMAIN ToUtf8 : ToUtf8[name] \in DOMAIN ToAcp => ToAcp[ToUtf8[name]] = name

VARIABLES
  tree,            \* the directories of the partition
  pc,              \* where the host's thread is; "idle" between two calls
  op,              \* "find" or "get": the call, or the last one
  caller,          \* the handle that FsFindFirst is to return
  asked,           \* the path of the call
  rest,            \* the part of it, in UTF-8, that is not yet walked
  reading,         \* get_dir_entry: the inode number of the directory,
  blk,             \*   the block it asks for, and the one whose address it has
  nr_blk,          \*   (0 if it was given none),
  off,             \*   the entry it is at,
  tab_dir,         \*   the entries so far: n_dir is their number,
  nChunks,         \*   and the chunks allocated for them
  dir_entries,     \* the table of the plugin
  dir_entry_num,
  dirs,            \* the table of get_ext2_inode
  entry_num,
  found,
  got,             \* the inode number of the file, or NULL
  find,            \* num_last_entry of each open handle, or NULL
  failed,          \* history: "read" if a read of the call failed, "map" if a block
                   \*   could not be mapped, else "no"
  owner,           \* history: the handle for which the table was read in full, or NULL
  owned,           \*   the path it was opened with,
  listed           \*   and the names it has been given

callVars == <<op, caller, asked>>
readVars == <<reading, blk, nr_blk, off, tab_dir, nChunks>>
tableVars == <<dir_entries, dir_entry_num>>
lookupVars == <<dirs, entry_num, found, got>>
listingVars == <<find, owner, owned, listed>>
vars == <<tree, pc, callVars, rest, readVars, tableVars, lookupVars, listingVars, failed>>

Init ==
  /\ tree \in Trees
  /\ pc = "idle"
  /\ op = "none" /\ caller = NULL /\ asked = <<>> /\ rest = <<>>
  /\ reading = EXT4_ROOT_INO /\ blk = 1 /\ nr_blk = 0 /\ off = 1
  /\ tab_dir = <<>> /\ nChunks = 0
  /\ dir_entries = NULL /\ dir_entry_num = 0
  /\ dirs = NULL /\ entry_num = 0 /\ found = FALSE /\ got = NULL
  /\ find = [h \in Handles |-> NULL]
  /\ owner = NULL /\ owned = <<>> /\ listed = <<>>
  /\ failed = "no"

First(S) == CHOOSE k \in S : \A l \in S : k <= l

-----------------------------------------------------------------------------
(* get_dir_entry; what it makes of the blocks of a file is anybody's guess. *)

get_dir_entry(inode_nr) ==
  /\ pc' = IF inode_nr \in DOMAIN tree \cup {0} THEN "inode" ELSE "undefined"
  /\ reading' = inode_nr
  /\ blk' = 1 /\ nr_blk' = 0 /\ off' = 1 /\ tab_dir' = <<>> /\ nChunks' = 0

AfterFailedRead == IF failed = "map" THEN "map" ELSE "read"

(* NULL is returned, and the number of entries is not set. *)
ReadFails ==
  /\ pc' = "null"
  /\ failed' = AfterFailedRead
  /\ UNCHANGED readVars

(* The inode number 0 is refused without a read. *)
ReadInode ==
  /\ pc = "inode"
  /\ \/ reading # 0 /\ ReadFails
     \/ reading = 0 /\ pc' = "null" /\ UNCHANGED <<readVars, failed>>
     \/ reading # 0 /\ pc' = "block" /\ UNCHANGED <<readVars, failed>>
  /\ UNCHANGED <<tree, callVars, rest, tableVars, lookupVars, listingVars>>

HasExtents(ino) == ino \in Extents[tree]

(* The right block: with extents the one asked for, and otherwise the one the
   counters of the block map are at. *)
Mapped ==
  /\ nr_blk' = IF HasExtents(reading) THEN blk ELSE nr_blk + 1
  /\ pc' = "entry"
  /\ off' = 1
  /\ UNCHANGED <<reading, blk, tab_dir, nChunks, failed>>

(* A leaf without extents, or the double indirect block when it cannot be
   read, gives -1, which the test for a negative number does not notice,
   because the result is unsigned: then the block of the last address is read
   again, or, if there was none, anything. *)
Unmapped ==
  /\ HasExtents(reading) \/ nr_blk = DindFirst
  /\ failed' = "map"
  /\ pc' = IF nr_blk = 0 THEN "undefined" ELSE "entry"
  /\ off' = 1
  /\ UNCHANGED <<reading, blk, nr_blk, tab_dir, nChunks>>

(* An extent node or an indirect block that cannot be read is used all the
   same, through a NULL pointer. *)
MapCrashes ==
  /\ \/ HasExtents(reading)
     \/ /\ nr_blk >= EXT4_IND_BLOCK
        /\ (nr_blk - EXT4_IND_BLOCK) % (DindFirst - EXT4_IND_BLOCK) = 0
  /\ pc' = "undefined"
  /\ failed' = AfterFailedRead
  /\ UNCHANGED readVars

(* Directories have no holes and end before the triple indirect region. *)
ReadBlock ==
  /\ pc = "block" /\ blk <= Len(tree[reading])
  /\ ReadFails \/ Mapped \/ Unmapped \/ MapCrashes
  /\ UNCHANGED <<tree, callVars, rest, tableVars, lookupVars, listingVars>>

(* A directory with extents but without blocks: its block map is destroyed
   before any request, and then follows a path of extents that it never got. *)
Hollow(ino) == HasExtents(ino) /\ tree[ino] = <<>>

FlushNoPath ==
  /\ pc = "block" /\ Hollow(reading)
  /\ pc' = "undefined"
  /\ UNCHANGED <<tree, callVars, rest, readVars, tableVars, lookupVars, listingVars, failed>>

(* Seeded fault: only the first chunk is allocated. *)
Chunks_once == 1

(* The table gets another chunk before it is full. *)
Chunks == IF Len(tab_dir) + 1 >= ChunkSize * nChunks THEN nChunks + 1 ELSE nChunks

ReadEntry ==
  /\ pc = "entry"
  /\ LET block == tree[reading][nr_blk] IN
       /\ nChunks' = Chunks
       /\ tab_dir' = Append(tab_dir, block[off])
       /\ IF off < Len(block)
          THEN off' = off + 1 /\ UNCHANGED <<pc, blk>>
          ELSE pc' = "block" /\ blk' = blk + 1 /\ UNCHANGED off
  /\ UNCHANGED <<tree, callVars, rest, reading, nr_blk, tableVars, lookupVars, listingVars, failed>>

(* The result, when all blocks are read or one could not be.  Of a directory
   without blocks no table was ever allocated. *)
Returned ==
  \/ pc = "null"
  \/ pc = "block" /\ blk > Len(tree[reading]) /\ ~Hollow(reading)
table == IF pc = "null" \/ tab_dir = <<>> THEN NULL ELSE tab_dir

(* Seeded fault: the number is not set for an empty directory. *)
read_dirs_stale(num) == IF table = NULL THEN num ELSE Len(tab_dir)

read_dirs(num) == IF pc = "null" THEN num ELSE Len(tab_dir)

-----------------------------------------------------------------------------
(* FsFindFirst, FsFindNext and FsFindClose *)

(* Seeded fault: entries that are not in use are given out. *)
IsShown_deleted(e) == e.name \notin {".", ".."}

IsShown(e) == e.inode # 0 /\ e.name \notin {".", ".."}

convPath(path) == [k \in DOMAIN path |-> ToUtf8[path[k]]]

FsFindFirst(h, path) ==
  /\ pc = "idle" /\ find[h] = NULL
  /\ op' = "find" /\ caller' = h /\ asked' = path /\ rest' = convPath(path)
  /\ get_dir_entry(EXT4_ROOT_INO)
  /\ owner' = NULL /\ owned' = <<>> /\ listed' = <<>>
  /\ failed' = "no"
  /\ UNCHANGED <<tree, tableVars, lookupVars, find>>

(* The old table is freed before the new one is read; nobody looks at it in
   between. *)
load_ext2_dir_entry ==
  /\ op = "find" /\ Returned
  /\ dir_entries' = table
  /\ dir_entry_num' = read_dirs(dir_entry_num)
  /\ pc' = IF table = NULL THEN "no table" ELSE "walk"
  /\ UNCHANGED <<tree, callVars, rest, readVars, lookupVars, listingVars, failed>>

(* Entries with the next name of the path. *)
Matching == {k \in 1 .. dir_entry_num : dir_entries[k].name = Head(rest)}

(* Seeded fault: the walk waits for a name that is not there. *)
FindComponent_stays ==
  /\ op = "find" /\ pc = "walk" /\ rest # <<>> /\ Matching # {}
  /\ rest' = Tail(rest)
  /\ get_dir_entry(dir_entries[First(Matching)].inode)
  /\ UNCHANGED <<tree, callVars, tableVars, lookupVars, listingVars, failed>>

(* A name that is not in the directory is left out of the path. *)
FindComponent ==
  /\ op = "find" /\ pc = "walk" /\ rest # <<>>
  /\ rest' = Tail(rest)
  /\ IF Matching = {}
     THEN UNCHANGED <<pc, readVars>>
     ELSE get_dir_entry(dir_entries[First(Matching)].inode)
  /\ UNCHANGED <<tree, callVars, tableVars, lookupVars, listingVars, failed>>

cFileName(e) == ToAcp[e.name]

(* The size of a file is read from its inode, which may fail. *)
ShowEntry(e, h, k, isOwner) ==
  \/ /\ find' = [find EXCEPT ![h] = k]
     /\ listed' = IF isOwner THEN Append(listed, cFileName(e)) ELSE listed
     /\ pc' = "idle"
     /\ UNCHANGED failed
  \/ /\ e.type # "dir"
     /\ pc' = "undefined"
     /\ failed' = AfterFailedRead
     /\ UNCHANGED <<find, listed>>

get_first_dir_entry ==
  /\ op = "find" /\ pc = "walk" /\ rest = <<>>
  /\ owner' = IF failed = "no" THEN caller ELSE NULL
  /\ owned' = asked
  /\ LET shown == {k \in 1 .. dir_entry_num : IsShown(dir_entries[k])} IN
       IF shown = {}
       THEN /\ find' = [find EXCEPT ![caller] = dir_entry_num + 1]
            /\ pc' = "idle"
            /\ UNCHANGED <<listed, failed>>
       ELSE ShowEntry(dir_entries[First(shown)], caller, First(shown), failed = "no")
  /\ UNCHANGED <<tree, callVars, rest, readVars, tableVars, lookupVars>>

(* Without a directory there is a handle all the same, and one entry ".." *)
NoDirectory ==
  /\ pc = "no table"
  /\ find' = [find EXCEPT ![caller] = 1]
  /\ pc' = "idle"
  /\ UNCHANGED <<tree, callVars, rest, readVars, tableVars, lookupVars, owner, owned,
                 listed, failed>>

Following(h) ==
  IF dir_entries = NULL THEN {}
  ELSE {k \in find[h] + 1 .. dir_entry_num : IsShown(dir_entries[k])}

FsFindNext(h) ==
  /\ pc = "idle" /\ find[h] # NULL /\ Following(h) # {}
  /\ ShowEntry(dir_entries[First(Following(h))], h, First(Following(h)), owner = h)
  /\ UNCHANGED <<tree, callVars, rest, readVars, tableVars, lookupVars, owner, owned>>

FsFindClose(h) ==
  /\ pc = "idle" /\ find[h] # NULL
  /\ find' = [find EXCEPT ![h] = NULL]
  /\ IF owner = h THEN owner' = NULL /\ owned' = <<>> /\ listed' = <<>>
     ELSE UNCHANGED <<owner, owned, listed>>
  /\ UNCHANGED <<tree, pc, callVars, rest, readVars, tableVars, lookupVars, failed>>

-----------------------------------------------------------------------------
(* get_ext2_inode, the first thing FsGetFile does.  Of a path without a name
   behind the partition it looks for the last separator through a NULL
   pointer, once it has the entries of the root. *)

get_ext2_inode(path) ==
  /\ pc = "idle"
  /\ op' = "get" /\ asked' = path /\ rest' = convPath(path)
  /\ dirs' = NULL /\ entry_num' = 0 /\ found' = FALSE /\ got' = NULL
  /\ get_dir_entry(EXT4_ROOT_INO)
  /\ failed' = "no"
  /\ UNCHANGED <<tree, caller, tableVars, listingVars>>

DirsRead ==
  /\ op = "get" /\ Returned
  /\ dirs' = table
  /\ entry_num' = read_dirs(entry_num)
  /\ pc' = IF asked = <<>> THEN "undefined" ELSE "walk"
  /\ UNCHANGED <<tree, callVars, rest, readVars, tableVars, found, got, listingVars, failed>>

(* After a failed read the number still is that of the last table. *)
NullTable ==
  /\ op = "get" /\ pc = "walk" /\ dirs = NULL /\ entry_num > 0
  /\ pc' = "undefined"
  /\ UNCHANGED <<tree, callVars, rest, readVars, tableVars, lookupVars, listingVars, failed>>

Subdirs == {k \in 1 .. entry_num : dirs[k].name = Head(rest) /\ dirs[k].type = "dir"}

(* found is set by the first name that is there, and never reset: a later one
   that is not there is left out of the path. *)
GetComponent ==
  /\ op = "get" /\ pc = "walk" /\ Len(rest) > 1
  /\ dirs = NULL => entry_num = 0
  /\ \/ /\ Subdirs # {}
        /\ get_dir_entry(dirs[First(Subdirs)].inode)
        /\ found' = TRUE
        /\ rest' = Tail(rest)
     \/ /\ Subdirs = {} /\ found
        /\ rest' = Tail(rest)
        /\ UNCHANGED <<pc, readVars, found>>
     \/ /\ Subdirs = {} /\ ~found
        /\ pc' = "idle"
        /\ UNCHANGED <<rest, readVars, found>>
  /\ UNCHANGED <<tree, callVars, tableVars, dirs, entry_num, got, listingVars, failed>>

(* Seeded fault: the type of the entry is not looked at. *)
Files_anyType == {k \in 1 .. entry_num : dirs[k].name = Head(rest)}

Files == {k \in 1 .. entry_num : dirs[k].type = "file" /\ dirs[k].name = Head(rest)}

(* The inode of an entry that is not in use is not looked for. *)
GetFile ==
  /\ op = "get" /\ pc = "walk" /\ Len(rest) = 1
  /\ dirs = NULL => entry_num = 0
  /\ LET inode == IF Files = {} THEN 0 ELSE dirs[First(Files)].inode IN
       \/ inode = 0 /\ UNCHANGED <<got, failed>>
       \/ inode # 0 /\ got' = inode /\ UNCHANGED failed
       \/ inode # 0 /\ failed' = AfterFailedRead /\ UNCHANGED got
  /\ pc' = "idle"
  /\ UNCHANGED <<tree, callVars, rest, readVars, tableVars, dirs, entry_num, found, listingVars>>

-----------------------------------------------------------------------------
(* The steps of a call that has begun. *)
CallStep ==
  \/ ReadInode \/ ReadBlock \/ FlushNoPath \/ ReadEntry
  \/ load_ext2_dir_entry \/ FindComponent \/ get_first_dir_entry \/ NoDirectory
  \/ DirsRead \/ NullTable \/ GetComponent \/ GetFile

HostCalls ==
  \/ \E h \in Handles, path \in Paths : FsFindFirst(h, path)
  \/ \E h \in Handles : FsFindNext(h) \/ FsFindClose(h)
  \/ \E path \in Paths : get_ext2_inode(path)

Next == CallStep \/ HostCalls

Spec == Init /\ [][Next]_vars

(* A call goes on; the host need not make another one. *)
FairSpec == Spec /\ WF_vars(CallStep)

-----------------------------------------------------------------------------
(* The entries of a directory, block after block. *)
EntriesUpTo(t, ino) ==
  LET entries[b \in 0 .. Len(t[ino])] == IF b = 0 THEN <<>> ELSE entries[b - 1] \o t[ino][b]
  IN  entries
Entries(t, ino) == EntriesUpTo(t, ino)[Len(t[ino])]

(* What a path means in a tree: each name of it is listed for one entry only,
   which is in use, a directory, and has a name that survives the conversion
   there and back.  NULL if it means nothing. *)
Named(t, ino, name) ==
  {k \in 1 .. Len(Entries(t, ino)) : ToAcp[Entries(t, ino)[k].name] = name}

CanBeAsked(e) ==
  /\ e.inode # 0
  /\ ToAcp[e.name] \in DOMAIN ToUtf8 /\ ToUtf8[ToAcp[e.name]] = e.name

Child(t, ino, name, type) ==
  LET named == {Entries(t, ino)[k] : k \in Named(t, ino, name)} IN
    IF Cardinality(Named(t, ino, name)) = 1 /\ \E e \in named : e.type = type /\ CanBeAsked(e)
    THEN (CHOOSE e \in named : TRUE).inode
    ELSE NULL

DirsAlong(t, path) ==
  LET dir[k \in 0 .. Len(path)] ==
        IF k = 0 THEN EXT4_ROOT_INO
        ELSE IF dir[k - 1] = NULL THEN NULL
        ELSE Child(t, dir[k - 1], path[k], "dir")
  IN  dir
DirAt(t, path) == DirsAlong(t, path)[Len(path)]

(* The path names a file, or nothing, in a directory that is there. *)
IsPlain(t, path) ==
  LET dir == DirAt(t, Front(path)) IN
    /\ path # <<>> /\ dir # NULL
    /\ Cardinality(Named(t, dir, Last(path))) <= 1
    /\ \A k \in Named(t, dir, Last(path)) : CanBeAsked(Entries(t, dir)[k])

(* The names of the first entries, as the host is to see them: of those that
   are in use, without the directory itself and the one above. *)
NamesUpTo(entries) ==
  LET names[k \in 0 .. Len(entries)] ==
        IF k = 0 THEN <<>>
        ELSE IF entries[k].inode = 0 \/ entries[k].name \in {".", ".."} THEN names[k - 1]
        ELSE Append(names[k - 1], ToAcp[entries[k].name])
  IN  names
Names(entries) == NamesUpTo(entries)[Len(entries)]

TypeOK ==
  /\ tree \in Trees
  /\ pc \in {"idle", "inode", "block", "entry", "null", "no table", "walk", "undefined"}
  /\ op \in {"none", "find", "get"} /\ caller \in Handles \cup {NULL}
  /\ asked \in Paths \cup {<<>>}
  /\ \E k \in 0 .. Len(asked) : rest = SubSeq(convPath(asked), k + 1, Len(asked))
  /\ reading \in Nat /\ blk \in Nat \ {0} /\ nr_blk \in Nat /\ off \in Nat \ {0} /\ nChunks \in Nat
  /\ dir_entry_num \in Nat /\ entry_num \in Nat
  /\ found \in BOOLEAN /\ failed \in {"no", "read", "map"}
  /\ got \in Nat \cup {NULL}
  /\ find \in [Handles -> Nat \cup {NULL}]
  /\ owner \in Handles \cup {NULL} /\ owned \in Paths \cup {<<>>}

(* The entries of a directory are stored inside the table, which is copied
   into a larger one each time its chunks are used up
   (partition_linux_ext2.cpp:256-280); and the number that load_ext2_dir_entry
   frees by, and the loops over the table run to, is the number of entries
   that the table has, although a failed read leaves it as it was. *)
TablesHold ==
  /\ Len(tab_dir) <= ChunkSize * nChunks
  /\ dir_entries # NULL => dir_entry_num = Len(dir_entries)

(* A listing that no other FsFindFirst came between names every entry in use
   of the directory that the path means, once and in order, if its blocks could
   be mapped. *)
ListingIsComplete ==
  pc = "idle" /\ owner # NULL /\ DirAt(tree, owned) # NULL /\ Following(owner) = {} =>
    listed = Names(Entries(tree, DirAt(tree, owned)))

(* The file that FsGetFile copies is the one that the path means, also when a
   read fails on the way, and it is found when none does; all this as long as
   the blocks of the directories can be mapped. *)
FileIsRight ==
  pc = "idle" /\ op = "get" /\ IsPlain(tree, asked) =>
    LET file == Child(tree, DirAt(tree, Front(asked)), Last(asked), "file") IN
      /\ got # NULL /\ failed # "map" => got = file
      /\ failed = "no" => got = file

(* A NULL pointer is used, or a table that is none, only after a read or the
   mapping of a block failed; in a directory with extents but without blocks;
   in a lookup without a name; or in a walk that has entered an entry not in
   use or, in a listing, a file.  Whatever the path is, an empty directory
   without extents or a table left from another call does no harm. *)
UndefinedHasCause ==
  pc = "undefined" /\ failed = "no" =>
    \/ reading \notin DOMAIN tree
    \/ Hollow(reading)
    \/ op = "get" /\ asked = <<>>

(* Calls with paths that mean something, and whose directories have blocks or
   no extents, use no NULL pointer, unless a read or the mapping of a block
   failed. *)
DefinedUnlessFailed ==
  pc = "undefined" /\ failed = "no" =>
    LET dir == DirAt(tree, IF op = "find" THEN asked ELSE Front(asked)) IN
      \/ op = "get" /\ ~IsPlain(tree, asked)
      \/ dir = NULL
      \/ Hollow(dir)

(* Every call returns, with any path and any reads that fail. *)
CallsReturn == []<>(pc \in {"idle", "undefined"})

=============================================================================
