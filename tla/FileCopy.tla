------------------------------- MODULE FileCopy -------------------------------
(***************************************************************************)
(* Copying one file from an ext4 partition: FsGetFile on the host's thread *)
(* and read_file on the copy thread it creates.                            *)
(*                                                                         *)
(* The threads share params, a local variable of FsGetFile, with two plain *)
(* fields: error, written by the copy thread, and int_flag, written by the *)
(* host's thread.  FsGetFile learns of the progress only by asking for the *)
(* size of the local file, again and again, and takes the file for         *)
(* complete when that size has reached the size of the source.             *)
(*                                                                         *)
(* The block map is seen from outside: what each request does to the       *)
(* address, taken from BlockMap and ExtentMap.  A request that fails goes  *)
(* unnoticed, because the result that is compared with 0 is unsigned; a    *)
(* hole of the file gets an address and does not even fail.  Where the     *)
(* block map uses a NULL pointer the host is gone, and with it all that is *)
(* promised here: BlockMap and ExtentMap have those steps.                 *)
(*                                                                         *)
(* In a debug build the copy thread also writes a line to the debug window *)
(* for every block.  The window belongs to the host's thread, so each      *)
(* SendMessage waits until that thread takes messages, which in FsGetFile  *)
(* it does in ProgressProc only.                                           *)
(* The size of the source is in the unit of BlockSize.                     *)
(***************************************************************************)
EXTENDS Integers, Sequences

CONSTANTS
  BlockSize,      \* EXT4_BLOCK_SIZE
  Sizes,          \* the sizes of the files that are copied
  DindFirst,      \* the first block behind the double indirect block
  DindEnd,        \* the first block behind the triple indirect block
  Builds,         \* the builds of the plugin, "debug" has _DEBUG defined
  UNSET,          \* nr_blk before any block was mapped
  ELSEWHERE       \* an address that is not that of the block due

ASSUME CopyAssumption ==
  /\ BlockSize \in Nat \ {0}
  /\ Sizes \subseteq Nat
  /\ DindFirst \in Nat /\ DindEnd \in Nat /\ DindFirst < DindEnd
  /\ Builds \subseteq {"debug", "release"}
  /\ UNSET \notin Nat /\ ELSEWHERE \notin Nat

VARIABLES
  build,         \* the build that runs
  (* FsGetFile *)
  main,          \* where the host's thread stands, "idle" outside FsGetFile
  result,        \* the value being or last returned, "none" before the first
  large_pos,     \* the size of the local file as last asked for
  hnd,           \* the handle of the local file is open
  hTh,           \* the handle of the copy thread: "none", "null" or "open"
  (* params *)
  error, int_flag,
  (* read_file *)
  copier,        \* where the copy thread stands, "none" when there is none
  i,             \* the block of the loop
  tail,          \* the last block is being copied, after the loop
  nr_blk,        \* the file block whose address nr_blk holds, or UNSET, ELSEWHERE
  lost,          \* by how many requests the answers of the block map are late
  amiss,         \* history: how requests of this copy were answered wrongly
  (* the two files *)
  inode_size,    \* the size of the source
  extents,       \* the source is mapped by extents, EXT4_EXTENTS_FL
  local_size,    \* the size of the local file
  local_file     \* the file blocks whose content was written, in order

mainVars == <<main, result, large_pos, hnd, hTh>>
mapVars == <<nr_blk, lost, amiss>>
copierVars == <<copier, i, tail, mapVars>>
inode == <<inode_size, extents>>
files == <<local_size, local_file>>
vars == <<build, mainVars, error, int_flag, copierVars, inode, files>>

(* Seeded fault: the size divided first, one block too many when it is a   *)
(* multiple of the block size.                                             *)
n_blocks_fault == inode_size \div BlockSize + 1

n_blocks == (inode_size + BlockSize - 1) \div BlockSize

Refusals == {"FS_FILE_NOTFOUND", "FS_FILE_NOTSUPPORTED", "FS_FILE_WRITEERROR"}
Results == Refusals \cup {"FS_FILE_OK", "FS_FILE_READERROR", "FS_FILE_USERABORT"}

(* Where the copy thread waits in SendMessage: for EM_SETSEL and for       *)
(* EM_SETTEXTEX, the two messages of a line in the debug window.           *)
Sending == {"setsel", "settext"}

Init ==
  /\ build \in Builds
  /\ main = "idle" /\ result = "none" /\ large_pos = 0
  /\ hnd = FALSE /\ hTh = "none"
  /\ error = 0 /\ int_flag = 0
  /\ copier = "none" /\ i = 0 /\ tail = FALSE /\ nr_blk = UNSET
  /\ lost = 0 /\ amiss = {}
  /\ inode_size = 0 /\ extents = FALSE /\ local_size = 0 /\ local_file = <<>>

-----------------------------------------------------------------------------
(* The host's thread: FsGetFile *)

(* The host calls FsGetFile; the path walk ends at a file of this size, if *)
(* it ends at a file at all.                                               *)
Call ==
  /\ main = "idle"
  /\ inode_size' \in Sizes /\ extents' \in BOOLEAN
  /\ main' = "found"
  /\ result' = "none"
  /\ UNCHANGED <<large_pos, hnd, hTh, error, int_flag, copierVars, files>>

(* No such file, no regular file, or the local file cannot be created.     *)
Refuse ==
  /\ main = "found"
  /\ result' \in Refusals
  /\ main' = "idle"
  /\ UNCHANGED <<large_pos, hnd, hTh, error, int_flag, copierVars, inode, files>>

(* CreateFile with CREATE_ALWAYS empties the local file; params is set up. *)
(* The copy will have a block map of its own, which has lost nothing yet.  *)
OpenLocal ==
  /\ main = "found"
  /\ hnd' = TRUE
  /\ local_size' = 0 /\ local_file' = <<>>
  /\ error' = 0 /\ int_flag' = 0
  /\ lost' = 0 /\ amiss' = {}
  /\ main' = "spawn"
  /\ UNCHANGED <<result, large_pos, hTh, copier, i, tail, nr_blk, inode>>

(* CreateThread, which may fail: nobody looks at the handle it returns. *)
Spawn ==
  /\ main = "spawn"
  /\ \/ hTh' = "open" /\ copier' = "start"
     \/ hTh' = "null" /\ UNCHANGED copier
  /\ main' = "sample"
  /\ UNCHANGED <<result, large_pos, hnd, error, int_flag, i, tail, mapVars, inode, files>>

(* GetFileSizeEx. *)
Sample ==
  /\ main = "sample"
  /\ \/ /\ large_pos' = local_size
        /\ main' = "check"
        /\ UNCHANGED result
     \/ /\ main' = "interrupt"
        /\ result' = "FS_FILE_READERROR"
        /\ UNCHANGED large_pos
  /\ UNCHANGED <<hnd, hTh, error, int_flag, copierVars, inode, files>>

(* Seeded fault: the copy thread's error is not looked at. *)
Check_noError ==
  /\ main = "check"
  /\ \/ /\ large_pos >= inode_size
        /\ main' = "close"
        /\ result' = "FS_FILE_OK"
     \/ /\ large_pos < inode_size
        /\ main' = "progress"
        /\ UNCHANGED result
  /\ UNCHANGED <<large_pos, hnd, hTh, error, int_flag, copierVars, inode, files>>

(* Seeded fault: the file taken for complete when its last block is begun. *)
Check_early ==
  /\ main = "check"
  /\ \/ /\ error # 0
        /\ main' = "interrupt"
        /\ result' = "FS_FILE_READERROR"
     \/ /\ error = 0 /\ large_pos + BlockSize > inode_size
        /\ main' = "close"
        /\ result' = "FS_FILE_OK"
     \/ /\ error = 0 /\ large_pos + BlockSize <= inode_size
        /\ main' = "progress"
        /\ UNCHANGED result
  /\ UNCHANGED <<large_pos, hnd, hTh, error, int_flag, copierVars, inode, files>>

(* params.error is looked at before the size just sampled. *)
Check ==
  /\ main = "check"
  /\ \/ /\ error # 0
        /\ main' = "interrupt"
        /\ result' = "FS_FILE_READERROR"
     \/ /\ error = 0 /\ large_pos >= inode_size
        /\ main' = "close"
        /\ result' = "FS_FILE_OK"
     \/ /\ error = 0 /\ large_pos < inode_size
        /\ main' = "progress"
        /\ UNCHANGED result
  /\ UNCHANGED <<large_pos, hnd, hTh, error, int_flag, copierVars, inode, files>>

(* ProgressProc takes a message the copy thread has sent, whose SendMessage *)
(* returns; the thread goes on with the second message or with the block.  *)
TakeMessage ==
  /\ main = "progress"
  /\ copier \in Sending
  /\ copier' = IF copier = "setsel" THEN "settext" ELSE "read"
  /\ UNCHANGED <<mainVars, error, int_flag, i, tail, mapVars, inode, files>>

(* The host's ProgressProc, when no message is left, goes on or asks to    *)
(* abort.                                                                  *)
Progress ==
  /\ main = "progress"
  /\ copier \notin Sending
  /\ \/ main' = "sample" /\ UNCHANGED result
     \/ main' = "interrupt" /\ result' = "FS_FILE_USERABORT"
  /\ UNCHANGED <<large_pos, hnd, hTh, error, int_flag, copierVars, inode, files>>

Interrupt ==
  /\ main = "interrupt"
  /\ int_flag' = 1
  /\ main' = "join"
  /\ UNCHANGED <<result, large_pos, hnd, hTh, error, copierVars, inode, files>>

(* On success the file is closed before the copy thread is waited for. *)
CloseFirst ==
  /\ main = "close"
  /\ hnd' = FALSE
  /\ main' = "join"
  /\ UNCHANGED <<result, large_pos, hTh, error, int_flag, copierVars, inode, files>>

(* Seeded fault: FsGetFile returns without waiting for the copy thread. *)
Join_noWait ==
  /\ main = "join"
  /\ hnd' = FALSE /\ hTh' = "none"
  /\ main' = "idle"
  /\ UNCHANGED <<result, large_pos, error, int_flag, copierVars, inode, files>>

(* WaitForSingleObject, which fails at once on a null handle; then the     *)
(* handles that are still open are closed and FsGetFile returns.           *)
Join ==
  /\ main = "join"
  /\ hTh = "null" \/ copier = "ended"
  /\ hnd' = FALSE /\ hTh' = "none"
  /\ copier' = "none"
  /\ main' = "idle"
  /\ UNCHANGED <<result, large_pos, error, int_flag, i, tail, mapVars, inode, files>>

-----------------------------------------------------------------------------
(* The copy thread: read_file *)

(* read_file gives up, or ends. *)
Fail ==
  /\ error' = -1
  /\ copier' = "ended"

(* The inode of the file cannot be read; the file is empty; or the loop    *)
(* over the blocks begins.                                                 *)
Start ==
  /\ copier = "start"
  /\ \/ Fail /\ UNCHANGED <<i, tail, mapVars>>
     \/ /\ error' = 0
        /\ copier' = IF inode_size = 0 THEN "ended" ELSE "loop"
        /\ i' = 0 /\ tail' = FALSE /\ nr_blk' = UNSET
        /\ UNCHANGED <<lost, amiss>>
  /\ UNCHANGED <<mainVars, int_flag, inode, files>>

(* Seeded fault: the loop does not look at int_flag. *)
Loop_noFlag ==
  /\ copier = "loop"
  /\ copier' = IF i < n_blocks - 1 THEN "map" ELSE "after"
  /\ UNCHANGED <<mainVars, error, int_flag, i, tail, mapVars, inode, files>>

(* The condition of the loop. *)
Loop ==
  /\ copier = "loop"
  /\ copier' = IF i < n_blocks - 1 /\ int_flag = 0 THEN "map" ELSE "after"
  /\ UNCHANGED <<mainVars, error, int_flag, i, tail, mapVars, inode, files>>

(* After the loop: interrupted, or the last block is left. *)
AfterLoop ==
  /\ copier = "after"
  /\ IF int_flag # 0
     THEN Fail /\ UNCHANGED tail
     ELSE /\ tail' = TRUE
          /\ copier' = "map"
          /\ UNCHANGED error
  /\ UNCHANGED <<mainVars, int_flag, i, mapVars, inode, files>>

(* Seeded fault: the last block is counted from 1. *)
Block_fault == IF tail THEN n_blocks ELSE i

Block == IF tail THEN n_blocks - 1 ELSE i

(* Seeded fault: all blocks, not all but the last, taken off the size. *)
WriteSize_fault == IF tail THEN inode_size - n_blocks * BlockSize ELSE BlockSize

WriteSize == IF tail THEN inode_size - (n_blocks - 1) * BlockSize ELSE BlockSize

(* get_ext2_blk_nr.  Behind the three regions of a file without extents it *)
(* answers nothing.  Elsewhere it answers                                  *)
(*   - the address of the block that is due: the block asked for, or an    *)
(*     earlier one when answers were lost;                                 *)
(*   - another address, and no failure, for a hole: the zero of an         *)
(*     indirect block, an address counted on from an extent that does not  *)
(*     hold the block;                                                     *)
(*   - in a file with extents -1, which leaves nr_blk alone, for an inode  *)
(*     without the magic number or a leaf without extents;                 *)
(*   - behind the double indirect block -1, when that block is not in its  *)
(*     buffer and cannot be read: nothing is counted, so that the next     *)
(*     request gets this answer and every later one is late once more.     *)
(* A debug build then sends the first message of its line.                 *)
Map ==
  LET Answers == extents \/ Block < DindEnd
  IN  /\ copier = "map"
      /\ \/ /\ Answers
            /\ nr_blk' = Block - lost
            /\ UNCHANGED <<lost, amiss>>
         \/ /\ Answers
            /\ nr_blk' = ELSEWHERE
            /\ amiss' = amiss \cup {"hole"}
            /\ UNCHANGED lost
         \/ /\ extents \/ ~Answers
            /\ amiss' = amiss \cup {"unmapped"}
            /\ UNCHANGED <<nr_blk, lost>>
         \/ /\ ~extents /\ Answers /\ Block = DindFirst + lost
            /\ lost' = lost + 1
            /\ amiss' = amiss \cup {"unmapped"}
            /\ UNCHANGED nr_blk
      /\ copier' = IF build = "debug" THEN "setsel" ELSE "read"
      /\ UNCHANGED <<mainVars, error, int_flag, i, tail, inode, files>>

(* read_sectors_ex at the address in nr_blk, which returns NULL on error. *)
Read ==
  /\ copier = "read"
  /\ \/ copier' = "write" /\ UNCHANGED error
     \/ Fail
  /\ UNCHANGED <<mainVars, int_flag, i, tail, mapVars, inode, files>>

(* WriteFile lengthens the local file before it returns to read_file, and  *)
(* fails when the handle is closed or the disk is full.                    *)
Write ==
  /\ copier = "write"
  /\ \/ /\ hnd
        /\ local_size' = local_size + WriteSize
        /\ local_file' = Append(local_file, nr_blk)
        /\ copier' = "written"
        /\ UNCHANGED error
     \/ Fail /\ UNCHANGED files
  /\ UNCHANGED <<mainVars, int_flag, i, tail, mapVars, inode>>

(* WriteFile returns. *)
Written ==
  /\ copier = "written"
  /\ IF tail
     THEN copier' = "ended" /\ UNCHANGED i
     ELSE copier' = "loop" /\ i' = i + 1
  /\ UNCHANGED <<mainVars, error, int_flag, tail, mapVars, inode, files>>

-----------------------------------------------------------------------------
(* The steps of FsGetFile once it is called. *)
MainStep ==
  \/ Refuse \/ OpenLocal \/ Spawn \/ Sample \/ Check \/ TakeMessage \/ Progress
  \/ Interrupt \/ CloseFirst \/ Join

CopierStep ==
  Start \/ Loop \/ AfterLoop \/ Map \/ Read \/ Write \/ Written

Next == (Call \/ MainStep \/ CopierStep) /\ UNCHANGED build

Spec == Init /\ [][Next]_vars

-----------------------------------------------------------------------------
(* Type invariant. *)
TypeOK ==
  /\ build \in {"debug", "release"}
  /\ main \in {"idle", "found", "spawn", "sample", "check", "progress", "interrupt",
               "close", "join"}
  /\ result \in Results \cup {"none"}
  /\ large_pos \in Nat /\ hnd \in BOOLEAN /\ hTh \in {"none", "null", "open"}
  /\ error \in {0, -1} /\ int_flag \in {0, 1}
  /\ copier \in {"none", "start", "loop", "after", "map", "read", "write", "written", "ended"}
                  \cup Sending
  /\ i \in Nat /\ tail \in BOOLEAN /\ nr_blk \in Nat \cup {UNSET, ELSEWHERE}
  /\ lost \in Nat /\ amiss \in SUBSET {"hole", "unmapped"}
  /\ inode_size \in Sizes \cup {0} /\ extents \in BOOLEAN /\ local_size \in Nat
  /\ local_file \in Seq(Nat \cup {UNSET, ELSEWHERE})

(* When FsGetFile has returned, by whatever path, it has left nothing      *)
(* behind: both handles are closed and the copy thread, which works on     *)
(* params in the frame of FsGetFile, has ended.                            *)
CallLeavesNothingBehind ==
  main = "idle" => ~hnd /\ hTh = "none" /\ copier = "none"

(* The copy thread never writes to a closed handle, although FsGetFile     *)
(* closes the handle of a complete file while the copy thread still runs.  *)
WritesHitOpenHandle == copier = "write" => hnd

(* Success is reported only for a complete local file.  The verdict stays  *)
(* right while the copy thread finishes and after the call: no write and   *)
(* no error follows it, but for the inode of an empty file, whose loss     *)
(* costs nothing.  When the block map answered every request with the      *)
(* block asked for, each block of the local file is the right one.         *)
OkMeansComplete ==
  result = "FS_FILE_OK" =>
    /\ inode_size # 0 => error = 0
    /\ local_size = inode_size
    /\ Len(local_file) = n_blocks
    /\ amiss = {} => \A k \in 1 .. n_blocks : local_file[k] = k - 1

(* Success means that every block of the local file comes from the block   *)
(* of the source at that place, in a file without holes.                   *)
OkMeansRightBlocks ==
  result = "FS_FILE_OK" /\ "hole" \notin amiss => \A k \in 1 .. n_blocks : local_file[k] = k - 1

(* The two threads wait for each other: FsGetFile, told to stop, waits for *)
(* the copy thread and takes no messages; the copy thread of a debug build *)
(* waits until FsGetFile takes the message of its line.                    *)
Deadlocked ==
  /\ build = "debug"
  /\ main = "join" /\ result \in {"FS_FILE_READERROR", "FS_FILE_USERABORT"}
  /\ copier \in Sending

(* A call returns to the host once its copy thread was created, it was     *)
(* told to stop, or there is nothing to copy, whatever of CreateThread,    *)
(* the mapping, the reads and the writes fails; only the debug build can   *)
(* hang instead, and only in a copy that is given up.                      *)
CallReturns ==
  \/ hTh = "open"
  \/ main \in {"interrupt", "close", "join"}
  \/ hTh = "null" /\ inode_size = 0
  ~> main = "idle" \/ Deadlocked

(* The abstract download, whose blocks are late by what the map has lost.  *)
Phase ==
  CASE main = "idle" -> "idle" [] main = "found" -> "called" [] OTHER -> "copying"

D == INSTANCE Download WITH
       Lengths <- {(s + BlockSize - 1) \div BlockSize : s \in Sizes},
       Refused <- Refusals,
       Broken <- {"FS_FILE_READERROR", "FS_FILE_USERABORT"},
       Ok <- "FS_FILE_OK",
       Nothing <- UNSET,
       Elsewhere <- ELSEWHERE,
       phase <- Phase,
       source <- n_blocks,
       dest <- local_file,
       late <- lost,
       outcome <- IF main = "idle" THEN result ELSE "none"

(* FsGetFile and its copy thread implement Download: with every failure,   *)
(* abort and interleaving the host sees one download, block after block,   *)
(* where a block is the one due there, content from elsewhere, or the one  *)
(* before it once more, and where nothing but a lost request makes the     *)
(* blocks that follow late.                                                *)
ImplementsDownload == D!Spec
=============================================================================
