------------------------------ MODULE SharedDisk ------------------------------
(***************************************************************************)
(* FileCopy together with the one disk handle that both threads read from. *)
(*                                                                         *)
(* partition::read_sectors_ex, like partition::read_sectors and            *)
(* disk::read_sectors_data, moves the file pointer of the handle and reads *)
(* from where it stands, in two calls without a lock; the handle is the    *)
(* one the disk was opened with, shared by all its partitions.  The result *)
(* of SetFilePointerEx, a BOOL, is compared with INVALID_SET_FILE_POINTER, *)
(* so that a seek that fails goes unnoticed and the read takes whatever    *)
(* sectors the pointer is at.                                              *)
(*                                                                         *)
(* Of the position it matters only whose it is: the sectors a thread has   *)
(* sought, or any others.  The host's thread reads in its path walk and in *)
(* the other exported functions, the copy thread for an indirect block or  *)
(* extent node and for the block itself; one read stands for several in a  *)
(* row.  The inode of the file is in the cache (InodeUse).                 *)
(***************************************************************************)
EXTENDS FileCopy

VARIABLES
  file_ptr,      \* the thread whose sectors the handle stands at, or "elsewhere"
  reading,       \* per thread: "no", between seek and read "sought" or "lost"
  late_writes    \* history: the blocks written since int_flag was set

diskVars == <<file_ptr, reading>>
sharedVars == <<vars, diskVars, late_writes>>

Readers == {"host", "copier"}

SharedInit ==
  /\ Init
  /\ file_ptr = "elsewhere"
  /\ reading = [r \in Readers |-> "no"]
  /\ late_writes = 0

(* SetFilePointerEx: the position is the thread's, or stays where it was.  *)
SetFilePointerEx(r) ==
  /\ reading[r] = "no"
  /\ \/ file_ptr' = r /\ reading' = [reading EXCEPT ![r] = "sought"]
     \/ reading' = [reading EXCEPT ![r] = "lost"] /\ UNCHANGED file_ptr

(* ReadFile leaves the pointer behind the sectors it has read. *)
ReadFile(r) ==
  /\ reading[r] # "no"
  /\ file_ptr' = "elsewhere"
  /\ reading' = [reading EXCEPT ![r] = "no"]

(* The host's thread, in its path walk or in another exported function.    *)
HostSeek ==
  /\ main \in {"idle", "found"}
  /\ SetFilePointerEx("host")
  /\ UNCHANGED <<vars, late_writes>>

HostRead ==
  /\ ReadFile("host")
  /\ UNCHANGED <<vars, late_writes>>

(* A step A of the host's thread that is not in the middle of a read. *)
HostStep(A) ==
  /\ reading["host"] = "no"
  /\ A
  /\ late_writes' = IF int_flag' = 0 THEN 0 ELSE late_writes
  /\ UNCHANGED <<build, diskVars>>

CopierSeek ==
  /\ copier \in {"map", "read"}
  /\ SetFilePointerEx("copier")
  /\ UNCHANGED <<vars, late_writes>>

(* A block is read before it is written; a direct block is mapped without  *)
(* a read.                                                                 *)
CopierNext ==
  /\ CopierStep
  /\ IF reading["copier"] = "no"
     THEN copier # "read" /\ UNCHANGED diskVars
     ELSE ReadFile("copier")
  /\ late_writes' = IF int_flag = 0 THEN 0
                    ELSE late_writes + Len(local_file') - Len(local_file)
  /\ UNCHANGED build

SharedNext ==
  HostSeek \/ HostRead \/ HostStep(Call) \/ HostStep(MainStep) \/ CopierSeek \/ CopierNext

SharedSpec == SharedInit /\ [][SharedNext]_sharedVars

(* Both threads are scheduled and the host's callbacks return.  The host   *)
(* need not call or list anything, and the user need not abort.            *)
FairSpec ==
  /\ SharedSpec
  /\ WF_sharedVars(HostStep(MainStep))
  /\ WF_sharedVars(CopierSeek \/ CopierNext)

-----------------------------------------------------------------------------
(* Type invariant. *)
DiskTypeOK ==
  /\ file_ptr \in Readers \cup {"elsewhere"}
  /\ reading \in [Readers -> {"no", "sought", "lost"}]
  /\ late_writes \in Nat

(* A read whose seek succeeded gets the sectors it has asked for, although *)
(* nothing keeps the other thread from moving the pointer in between: the  *)
(* host's thread never reads while there is a copy thread.                 *)
ReadsOwnSectors ==
  \A r \in Readers : reading[r] = "sought" => file_ptr = r

(* After an abort, or after an error that FsGetFile has seen, the copy     *)
(* thread writes at most the one block it is at.                           *)
AbortWithinOneBlock == late_writes <= 1
=============================================================================
