------------------------------- MODULE InodeUse -------------------------------
(***************************************************************************)
(* Who calls get_ext4_inode, and for how long the pointer is used.         *)
(*                                                                         *)
(* The host calls the exported functions one at a time.  FsFindFirst and   *)
(* FsGetFile walk a path, reading the inode of every directory on it;      *)
(* FsFindFirst and FsFindNext read the inode of a file to show its size;   *)
(* FsGetFile ends its walk with the inode of the file, creates the copy    *)
(* thread, and only then reads the size through its own pointer while the  *)
(* copy thread looks the same inode up again and keeps that pointer until  *)
(* the file is copied.                                                     *)
(*                                                                         *)
(* The names in the directories are not modelled: a walk reads any inodes. *)
(***************************************************************************)
EXTENDS InodeCache

CONSTANTS Main, Copier      \* the host's thread and the copy thread

ASSUME ThreadsAssumption == Threads = {Main, Copier} /\ Main # Copier

EXT4_ROOT_INO == 2

ASSUME RootAssumption == EXT4_ROOT_INO \in Inodes

VARIABLES
  op,          \* the exported function the host is in, "none" outside
  purpose,     \* what that function has called get_ext4_inode for
  root_read,   \* its path walk is past the root directory
  copier,      \* where the copy thread stands, "none" when there is none
  inode_num    \* params.inode_num, the inode the copy thread is to copy

useVars == <<op, purpose, root_read, copier, inode_num>>
vars == <<cacheVars, useVars>>

Init ==
  /\ CacheInit
  /\ op = "none"
  /\ purpose = "none"
  /\ root_read = FALSE
  /\ copier = "none"
  /\ inode_num = 0

(* get_ext4_inode has returned p to thread t. *)
Returned(t, p) == call[t].pc = "idle" /\ inode_ptr[t] = p

(* The exported function returns to the host. *)
EndOp ==
  /\ op' = "none"
  /\ purpose' = "none"
  /\ root_read' = FALSE
  /\ UNCHANGED <<copier, inode_num>>

-----------------------------------------------------------------------------
(* The host's thread *)

(* The host calls an exported function. *)
Begin(f) ==
  /\ op = "none"
  /\ f \in {"FsFindFirst", "FsFindNext", "FsGetFile"}
  /\ op' = f
  /\ UNCHANGED <<cacheVars, purpose, root_read, copier, inode_num>>

(* get_dir_entry: the inode of the root, then those of the directories on  *)
(* the path.  A directory entry may hold inode number 0.                   *)
LookupDir(n) ==
  /\ op \in {"FsFindFirst", "FsGetFile"}
  /\ purpose = "none"
  /\ n = EXT4_ROOT_INO \/ root_read
  /\ Enter(Main, n)
  /\ purpose' = "dir"
  /\ UNCHANGED <<op, root_read, copier, inode_num>>

(* get_dir_entry has read the blocks of the directory. *)
DirRead ==
  /\ purpose = "dir"
  /\ call[Main].pc = "idle"
  /\ inode_ptr[Main] # NULL
  /\ DropPtr(Main)
  /\ purpose' = "none"
  /\ root_read' = TRUE
  /\ UNCHANGED <<op, copier, inode_num>>

(* get_dir_entry has returned NULL.  FsFindFirst shows an empty directory; *)
(* get_ext2_inode finds no name in the root, but below it goes on with the *)
(* old entry count and reads through the NULL table.                       *)
DirFails ==
  /\ purpose = "dir"
  /\ Returned(Main, NULL)
  /\ IF op = "FsGetFile" /\ root_read
     THEN /\ op' = "crashed"
          /\ UNCHANGED <<purpose, root_read, copier, inode_num>>
     ELSE EndOp
  /\ UNCHANGED cacheVars

(* FsFindFirst and FsFindNext look up the inode of an entry that is not a  *)
(* directory, to report its size.                                          *)
LookupSize(n) ==
  /\ op = "FsFindNext" \/ (op = "FsFindFirst" /\ root_read)
  /\ purpose = "none"
  /\ n \in Inodes
  /\ Enter(Main, n)
  /\ purpose' = "size"
  /\ UNCHANGED <<op, root_read, copier, inode_num>>

(* The size is read through the pointer, which is not compared with NULL. *)
SizeRead ==
  /\ purpose = "size"
  /\ call[Main].pc = "idle"
  /\ IF inode_ptr[Main] = NULL
     THEN /\ op' = "crashed"
          /\ UNCHANGED <<cacheVars, purpose, root_read, copier, inode_num>>
     ELSE DropPtr(Main) /\ EndOp

(* No inode is needed: a directory or no entry to show, or a name of the   *)
(* path that is not in the directory.                                      *)
NoEntry ==
  /\ op = "FsFindNext" \/ (op \in {"FsFindFirst", "FsGetFile"} /\ root_read)
  /\ purpose = "none"
  /\ EndOp
  /\ UNCHANGED cacheVars

(* get_ext2_inode looks up the last name of the path. *)
LookupFile(n) ==
  /\ op = "FsGetFile"
  /\ purpose = "none"
  /\ root_read
  /\ Enter(Main, n)
  /\ purpose' = "file"
  /\ inode_num' = n
  /\ UNCHANGED <<op, root_read, copier>>

(* The inode could not be read, or it is not a regular file, or the local  *)
(* file cannot be created.                                                 *)
FileRefused ==
  /\ purpose = "file"
  /\ call[Main].pc = "idle"
  /\ DropPtr(Main)
  /\ EndOp

(* CreateThread, which may fail: nobody looks at the handle it returns. *)
SpawnCopier ==
  /\ purpose = "file"
  /\ call[Main].pc = "idle"
  /\ inode_ptr[Main] # NULL
  /\ copier' \in {"start", "none"}
  /\ purpose' = "copy"
  /\ UNCHANGED <<cacheVars, op, root_read, inode_num>>

(* The size of the file is read through the host's own pointer. *)
ReadFileSize ==
  /\ purpose = "copy"
  /\ DropPtr(Main)
  /\ purpose' = "wait"
  /\ UNCHANGED <<op, root_read, copier, inode_num>>

(* Seeded fault: FsGetFile returns without waiting for the copy thread. *)
Join_noWait ==
  /\ purpose = "wait"
  /\ UNCHANGED <<cacheVars, inode_num, copier>>
  /\ op' = "none"
  /\ purpose' = "none"
  /\ root_read' = FALSE

(* WaitForSingleObject returns: the copy thread has ended or never was. *)
Join ==
  /\ purpose = "wait"
  /\ copier \in {"ended", "none"}
  /\ copier' = "none"
  /\ op' = "none"
  /\ purpose' = "none"
  /\ root_read' = FALSE
  /\ UNCHANGED <<cacheVars, inode_num>>

-----------------------------------------------------------------------------
(* The copy thread *)

(* Seeded fault: the copy thread asks for the inode before the one shown. *)
CopierLookup_other ==
  /\ copier = "start"
  /\ Enter(Copier, inode_num - 1)
  /\ copier' = "lookup"
  /\ UNCHANGED <<op, purpose, root_read, inode_num>>

(* The thread looks up params.inode_num. *)
CopierLookup ==
  /\ copier = "start"
  /\ Enter(Copier, inode_num)
  /\ copier' = "lookup"
  /\ UNCHANGED <<op, purpose, root_read, inode_num>>

CopierGotInode ==
  /\ copier = "lookup"
  /\ call[Copier].pc = "idle"
  /\ copier' = IF inode_ptr[Copier] = NULL THEN "ended" ELSE "copying"
  /\ UNCHANGED <<cacheVars, op, purpose, root_read, inode_num>>

(* read_file returns after copying through the pointer it holds. *)
CopierEnds ==
  /\ copier = "copying"
  /\ DropPtr(Copier)
  /\ copier' = "ended"
  /\ UNCHANGED <<op, purpose, root_read, inode_num>>

-----------------------------------------------------------------------------
InGetInode == \E t \in Threads : InodeStep(t) /\ UNCHANGED useVars

MainStep ==
  \/ \E f \in {"FsFindFirst", "FsFindNext", "FsGetFile"} : Begin(f)
  \/ \E n \in Inodes \cup {0} : LookupDir(n) \/ LookupFile(n)
  \/ \E n \in Inodes : LookupSize(n)
  \/ DirRead \/ DirFails \/ SizeRead \/ NoEntry
  \/ FileRefused \/ SpawnCopier \/ ReadFileSize \/ Join

CopierStep == CopierLookup \/ CopierGotInode \/ CopierEnds

Next == InGetInode \/ MainStep \/ CopierStep

Spec == Init /\ [][Next]_vars

-----------------------------------------------------------------------------
(* Type invariant. *)
TypeOK ==
  /\ CacheTypeOK
  /\ op \in {"none", "FsFindFirst", "FsFindNext", "FsGetFile", "crashed"}
  /\ purpose \in {"none", "dir", "size", "file", "copy", "wait"}
  /\ root_read \in BOOLEAN
  /\ copier \in {"none", "start", "lookup", "copying", "ended"}
  /\ inode_num \in Inodes \cup {0}

(* The unlocked cache is safe only because the two threads never work in   *)
(* it together: when the copy thread is alive the host's thread is outside *)
(* get_ext4_inode, and the copy thread never gets past the lookup, because *)
(* the inode it asks for is the one FsGetFile read last.                   *)
CopierOnlyHits ==
  /\ copier # "none" => call[Main].pc = "idle"
  /\ call[Copier].pc \in {"idle", "lookup"}

(* From the creation of the copy thread to its end nothing is read into    *)
(* the cache and nothing is evicted from it, so both inode pointers stay   *)
(* valid for the whole copy.                                               *)
CacheFrozenDuringCopy ==
  [][copier # "none" =>
       UNCHANGED <<inodes_table_cache, group_desc_queue, allocated>>]_vars
=============================================================================
