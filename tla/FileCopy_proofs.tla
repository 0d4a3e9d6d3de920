--------------------------- MODULE FileCopy_proofs ---------------------------
(***************************************************************************)
(* Proofs about FsGetFile and its copy thread, for any block size and any  *)
(* set of file sizes.                                                      *)
(*                                                                         *)
(* What has to be known besides the properties themselves: where the two   *)
(* threads can be together, how much of the local file is written at each  *)
(* step of the copy thread, and that the size the host's thread has        *)
(* sampled is never more than what is written.  SharedDisk only restricts   *)
(* FileCopy, so what is proved of FileCopy holds there too.                *)
(***************************************************************************)
EXTENDS SharedDisk, TLAPS

(* Which handle is open, and whether there is a copy thread, when FsGetFile *)
(* is at each of its steps.                                                *)
HandlesInv ==
  /\ main \in {"idle", "found"} => ~hnd
  /\ main \in {"spawn", "sample", "check", "progress", "interrupt", "close"} => hnd
  /\ main = "join" => hnd \/ result = "FS_FILE_OK"
  /\ main \in {"idle", "found", "spawn"} => hTh = "none"
  /\ hTh # "open" <=> copier = "none"
  /\ main = "spawn" => error = 0

(* How far the copy thread is. *)
Copying == copier \in {"loop", "after", "map", "read", "write", "written"} \cup Sending

ProgressInv ==
  /\ copier = "start" => local_size = 0 /\ local_file = <<>> /\ error = 0
  /\ Copying => inode_size # 0 /\ i <= n_blocks - 1 /\ error = 0
  /\ copier \in {"loop", "after"} => ~tail
  /\ copier = "after" => int_flag # 0 \/ i = n_blocks - 1
  /\ Copying /\ tail => i = n_blocks - 1
  /\ Copying /\ ~tail /\ copier \notin {"loop", "after"} => i < n_blocks - 1
  /\ Copying /\ copier # "written" => local_size = i * BlockSize /\ Len(local_file) = i
  /\ copier = "written" /\ ~tail =>
       local_size = (i + 1) * BlockSize /\ Len(local_file) = i + 1

(* Nothing is left to be written. *)
Complete ==
  /\ local_size = inode_size
  /\ Len(local_file) = n_blocks
  /\ inode_size # 0 => error = 0
  /\ copier \in {"none", "start", "written", "ended"}
  /\ copier = "written" => tail
  /\ copier = "start" => inode_size = 0

SizeInv ==
  /\ main \notin {"idle", "found"} => local_size < inode_size \/ Complete
  /\ copier = "written" /\ tail => Complete
  /\ main = "spawn" => local_size = 0 /\ local_file = <<>>
  /\ main = "check" => large_pos <= local_size
  /\ result = "FS_FILE_OK" => main \in {"close", "join", "idle"} /\ Complete
  /\ main = "close" => result = "FS_FILE_OK"
  /\ main = "interrupt" => result \in {"FS_FILE_READERROR", "FS_FILE_USERABORT"}
  /\ main = "join" => result \in {"FS_FILE_OK", "FS_FILE_READERROR", "FS_FILE_USERABORT"}

(* What a place of the local file can hold. *)
Content == Nat \cup {UNSET, ELSEWHERE}

LastWritten == IF local_file = <<>> THEN UNSET ELSE local_file[Len(local_file)]

(* Which blocks are written: when every request is answered with the block *)
(* asked for the right ones, and otherwise the one that is due, one from   *)
(* elsewhere, or the one written last once more.                           *)
BlocksInv ==
  /\ amiss = {} => \A k \in 1 .. Len(local_file) : local_file[k] = k - 1
  /\ copier \in {"loop", "after", "map", "written"} => nr_blk = LastWritten
  /\ copier \in {"read", "write"} \cup Sending =>
       \/ nr_blk = Block - lost /\ lost <= Block
       \/ amiss # {} /\ nr_blk \in {ELSEWHERE, LastWritten}

(* Requests are lost only behind the double indirect block, one at a time, *)
(* and no more of them than there were.                                    *)
Requested == IF copier \in {"loop", "after", "map"} THEN Block ELSE Block + 1

LostInv ==
  /\ lost # 0 => amiss # {}
  /\ main = "spawn" \/ copier = "start" => lost = 0
  /\ Copying /\ lost # 0 => DindFirst + lost <= Requested

USE DEF Sending

USE DEF Content, inode, mapVars

IInv == TypeOK /\ HandlesInv /\ ProgressInv /\ SizeInv /\ BlocksInv /\ LostInv

-----------------------------------------------------------------------------
(* The number of blocks of a file: all but the last are full, and the last *)
(* holds at least one byte.                                                *)
LEMMA BlockCount ==
  ASSUME inode_size \in Nat
  PROVE  /\ n_blocks \in Nat
         /\ inode_size = 0 => n_blocks = 0
         /\ inode_size # 0 => /\ n_blocks >= 1
                              /\ (n_blocks - 1) * BlockSize < inode_size
                              /\ inode_size <= n_blocks * BlockSize
<1>1. BlockSize \in Nat /\ BlockSize >= 1
  BY CopyAssumption
<1> DEFINE a == inode_size + BlockSize - 1
           q == a \div BlockSize
           r == a % BlockSize
<1>2. /\ a \in Nat /\ q \in Int /\ r \in Int /\ 0 <= r /\ r < BlockSize
      /\ a = BlockSize * q + r
  BY <1>1
<1>3. n_blocks = q
  BY DEF n_blocks
<1> HIDE DEF q, r
<1>4. q >= 0
  <2>1. SUFFICES ASSUME q <= -1 PROVE FALSE
    BY <1>2
  <2>2. BlockSize * q <= BlockSize * (-1)
    BY <1>1, <1>2, <2>1
  <2> QED BY <1>1, <1>2, <2>2
<1>5. (q - 1) * BlockSize = BlockSize * q - BlockSize /\ q * BlockSize = BlockSize * q
  BY <1>1, <1>2
<1>6. CASE inode_size = 0
  <2>1. ~(q >= 1)
    <3>1. SUFFICES ASSUME q >= 1 PROVE FALSE
      OBVIOUS
    <3>2. BlockSize * q >= BlockSize
      BY <1>1, <1>2, <3>1
    <3> QED BY <1>1, <1>2, <1>6, <3>2
  <2> QED BY <1>2, <1>3, <1>4, <1>6, <2>1
<1>7. CASE inode_size # 0
  <2>1. q >= 1
    <3>1. SUFFICES ASSUME q = 0 PROVE FALSE
      BY <1>2, <1>4
    <3>2. BlockSize * q = 0
      BY <1>1, <3>1
    <3> QED BY <1>1, <1>2, <1>7, <3>2
  <2> QED BY <1>1, <1>2, <1>3, <1>5, <1>7, <2>1
<1> QED BY <1>6, <1>7

(* A block before the last one lies wholly inside the file. *)
LEMMA FullBlocks ==
  ASSUME inode_size \in Nat, inode_size # 0, NEW k \in Nat, k <= n_blocks - 1
  PROVE  /\ k * BlockSize \in Nat
         /\ (k + 1) * BlockSize = k * BlockSize + BlockSize
         /\ k * BlockSize < inode_size
<1>1. BlockSize \in Nat /\ BlockSize >= 1 /\ n_blocks \in Nat
      /\ (n_blocks - 1) * BlockSize < inode_size
  BY CopyAssumption, BlockCount
<1>2. k * BlockSize <= (n_blocks - 1) * BlockSize
  BY <1>1
<1> QED BY <1>1, <1>2

LEMMA SizeType == TypeOK => inode_size \in Nat /\ local_size \in Nat
  BY CopyAssumption DEF TypeOK

-----------------------------------------------------------------------------
LEMMA InitIInv == Init => IInv
<1> SUFFICES ASSUME Init PROVE IInv
  OBVIOUS
<1>1. TypeOK
  <2>1. <<>> \in Seq(Content)
    OBVIOUS
  <2>2. local_file \in Seq(Content)
    BY <2>1 DEF Init
  <2> QED BY <2>2, CopyAssumption DEF Init, TypeOK
<1>2. HandlesInv /\ ProgressInv /\ SizeInv /\ BlocksInv /\ LostInv
  BY DEF Init, HandlesInv, ProgressInv, SizeInv, BlocksInv, LostInv, LastWritten, Copying
<1> QED BY <1>1, <1>2 DEF IInv

(* A step of FsGetFile between the creation of the copy thread and the     *)
(* return: the copy thread and the files stay as they are.                 *)
LEMMA WatchStep ==
  ASSUME IInv, UNCHANGED <<copierVars, inode, files, error>>,
         int_flag' = int_flag \/ int_flag' = 1, main' = "spawn" => main = "spawn"
  PROVE  /\ ProgressInv' /\ BlocksInv' /\ LostInv' /\ (Complete => Complete')
         /\ n_blocks' = n_blocks
<1>1. n_blocks' = n_blocks
  BY DEF n_blocks
<1>2. Block' = Block
  BY <1>1 DEF Block, copierVars
<1>3. ProgressInv'
  BY <1>1 DEF IInv, ProgressInv, Copying, copierVars, files
<1>4. BlocksInv'
  BY <1>2 DEF IInv, BlocksInv, LastWritten, copierVars, files
<1>5. LostInv'
  BY <1>2 DEF IInv, LostInv, Requested, Copying, copierVars
<1>6. Complete => Complete'
  BY <1>1 DEF Complete, copierVars, files
<1> QED BY <1>1, <1>3, <1>4, <1>5, <1>6

LEMMA CallInv == IInv /\ Call /\ UNCHANGED build => IInv'
<1> SUFFICES ASSUME IInv, Call, UNCHANGED build PROVE IInv'
  OBVIOUS
<1> USE DEF IInv, Call, copierVars, files
<1>1. copier = "none" /\ hTh = "none" /\ ~hnd
  BY DEF HandlesInv
<1>2. TypeOK'
  BY DEF TypeOK
<1>3. HandlesInv' /\ ProgressInv' /\ SizeInv' /\ BlocksInv' /\ LostInv'
  BY <1>1 DEF HandlesInv, ProgressInv, SizeInv, BlocksInv, LostInv, LastWritten, Copying
<1> QED BY <1>2, <1>3

LEMMA MainStepInv == IInv /\ MainStep /\ UNCHANGED build => IInv'
<1> SUFFICES ASSUME IInv, MainStep, UNCHANGED build PROVE IInv'
  OBVIOUS
<1> USE DEF IInv
<1>1. CASE Refuse
  <2>1. TypeOK'
    BY <1>1 DEF Refuse, TypeOK, copierVars, files, Results
  <2>2. ProgressInv' /\ BlocksInv' /\ LostInv'
    BY <1>1, WatchStep DEF Refuse
  <2>3. HandlesInv' /\ SizeInv'
    BY <1>1 DEF Refuse, HandlesInv, SizeInv, copierVars, files, Refusals
  <2> QED BY <2>1, <2>2, <2>3
<1>2. CASE OpenLocal
  <2>1. copier = "none" /\ hTh = "none" /\ result # "FS_FILE_OK"
    BY <1>2 DEF OpenLocal, HandlesInv, SizeInv
  <2>2. TypeOK'
    <3>1. local_file' \in Seq(Content) /\ amiss' \in SUBSET {"hole", "unmapped"}
      BY <1>2 DEF OpenLocal
    <3>2. hnd' \in BOOLEAN
      BY <1>2 DEF OpenLocal
    <3> QED BY <1>2, <3>1, <3>2 DEF OpenLocal, TypeOK
  <2>3. HandlesInv' /\ ProgressInv' /\ BlocksInv' /\ LostInv'
    BY <1>2, <2>1 DEF OpenLocal, HandlesInv, ProgressInv, BlocksInv, LostInv, LastWritten, Copying
  <2>4. local_size' < inode_size' \/ Complete'
    <3>1. inode_size \in Nat /\ inode_size' = inode_size /\ n_blocks' = n_blocks
      BY <1>2, SizeType DEF OpenLocal, n_blocks
    <3>2. CASE inode_size = 0
      BY <1>2, <2>1, <3>1, <3>2, BlockCount DEF OpenLocal, Complete
    <3>3. CASE inode_size # 0
      BY <1>2, <3>1, <3>3 DEF OpenLocal
    <3> QED BY <3>2, <3>3
  <2>5. SizeInv'
    BY <1>2, <2>1, <2>4 DEF OpenLocal, SizeInv
  <2> QED BY <2>2, <2>3, <2>5
<1>3. CASE Spawn
  <2>1. /\ copier = "none" /\ hTh = "none" /\ hnd /\ error = 0
        /\ local_size = 0 /\ local_file = <<>> /\ result # "FS_FILE_OK"
    BY <1>3 DEF Spawn, HandlesInv, SizeInv
  <2>2. TypeOK'
    BY <1>3 DEF Spawn, TypeOK, files
  <2>3. HandlesInv' /\ ProgressInv' /\ BlocksInv' /\ LostInv'
    BY <1>3, <2>1 DEF Spawn, HandlesInv, ProgressInv, BlocksInv, LostInv, LastWritten, Copying, files
  <2>4. inode_size' = inode_size /\ local_size' = local_size /\ local_file' = local_file
        /\ error' = error /\ copier' \in {"none", "start"} /\ n_blocks' = n_blocks
    BY <1>3, <2>1 DEF Spawn, files, n_blocks
  <2>5. local_size' < inode_size' \/ Complete'
    <3>1. CASE local_size < inode_size
      BY <2>4, <3>1
    <3>2. CASE ~(local_size < inode_size)
      <4>1. Complete /\ inode_size = 0
        BY <1>3, <2>1, <3>2, SizeType DEF Spawn, SizeInv, Complete
      <4> QED BY <2>4, <4>1 DEF Complete
    <3> QED BY <3>1, <3>2
  <2>6. SizeInv'
    BY <1>3, <2>1, <2>4, <2>5 DEF Spawn, SizeInv
  <2> QED BY <2>2, <2>3, <2>6
<1>4. CASE Sample
  <2>1. TypeOK'
    BY <1>4, SizeType DEF Sample, TypeOK, copierVars, files, Results
  <2>2. ProgressInv' /\ BlocksInv' /\ LostInv' /\ (Complete => Complete')
    BY <1>4, WatchStep DEF Sample
  <2>3. local_size <= local_size /\ result # "FS_FILE_OK"
    BY <1>4, SizeType DEF Sample, SizeInv
  <2>4. HandlesInv' /\ SizeInv'
    BY <1>4, <2>2, <2>3 DEF Sample, HandlesInv, SizeInv, copierVars, files
  <2> QED BY <2>1, <2>2, <2>4
<1>5. CASE Check
  <2>1. TypeOK'
    BY <1>5 DEF Check, TypeOK, copierVars, files, Results
  <2>2. ProgressInv' /\ BlocksInv' /\ LostInv' /\ (Complete => Complete')
    BY <1>5, WatchStep DEF Check
  <2>3. HandlesInv'
    BY <1>5 DEF Check, HandlesInv, copierVars
  <2>4. result # "FS_FILE_OK" /\ main = "check" /\ large_pos <= local_size
        /\ (local_size < inode_size \/ Complete)
    BY <1>5 DEF Check, SizeInv
  <2>5. large_pos >= inode_size => Complete
    BY <2>4, SizeType DEF TypeOK
  <2>6. SizeInv'
    BY <1>5, <2>2, <2>4, <2>5 DEF Check, SizeInv, copierVars, files
  <2> QED BY <2>1, <2>2, <2>3, <2>6
<1>6. CASE Progress
  <2>1. TypeOK'
    BY <1>6 DEF Progress, TypeOK, copierVars, files, Results
  <2>2. ProgressInv' /\ BlocksInv' /\ LostInv' /\ (Complete => Complete')
    BY <1>6, WatchStep DEF Progress
  <2>3. HandlesInv' /\ SizeInv'
    BY <1>6, <2>2 DEF Progress, HandlesInv, SizeInv, copierVars, files
  <2> QED BY <2>1, <2>2, <2>3
<1>7. CASE Interrupt
  <2>1. TypeOK'
    <3>1. /\ main' = "join" /\ int_flag' = 1
          /\ UNCHANGED <<result, large_pos, hnd, hTh, error, copierVars, inode, files>>
      BY <1>7 DEF Interrupt
    <3> QED BY <3>1 DEF TypeOK, copierVars, files
  <2>2. ProgressInv' /\ BlocksInv' /\ LostInv' /\ (Complete => Complete')
    BY <1>7, WatchStep DEF Interrupt
  <2>3. HandlesInv' /\ SizeInv'
    BY <1>7, <2>2 DEF Interrupt, HandlesInv, SizeInv, copierVars, files
  <2> QED BY <2>1, <2>2, <2>3
<1>8. CASE CloseFirst
  <2>1. TypeOK'
    <3>1. /\ main' = "join"
          /\ UNCHANGED <<result, large_pos, hTh, error, int_flag, copierVars, inode, files>>
      BY <1>8 DEF CloseFirst
    <3>2. hnd' = FALSE
      BY <1>8 DEF CloseFirst
    <3>3. hnd' \in BOOLEAN
      BY <3>2
    <3> QED BY <3>1, <3>3 DEF TypeOK, copierVars, files
  <2>2. ProgressInv' /\ BlocksInv' /\ LostInv' /\ (Complete => Complete')
    BY <1>8, WatchStep DEF CloseFirst
  <2>3. HandlesInv' /\ SizeInv'
    BY <1>8, <2>2 DEF CloseFirst, HandlesInv, SizeInv, copierVars, files
  <2> QED BY <2>1, <2>2, <2>3
<1>9. CASE Join
  <2>1. TypeOK'
    BY <1>9 DEF Join, TypeOK, files
  <2>2. HandlesInv' /\ ProgressInv' /\ BlocksInv' /\ LostInv'
    BY <1>9 DEF Join, HandlesInv, ProgressInv, BlocksInv, LostInv, LastWritten, Copying, files
  <2>3. Complete => Complete'
    BY <1>9 DEF Join, Complete, files, n_blocks
  <2>4. SizeInv'
    BY <1>9, <2>3 DEF Join, SizeInv, files
  <2> QED BY <2>1, <2>2, <2>4
<1>10. CASE TakeMessage
  <2>1. /\ UNCHANGED <<mainVars, error, int_flag, i, tail, mapVars, inode, files>>
        /\ copier \in Sending /\ copier' \in {"settext", "read"} /\ main = "progress"
    BY <1>10 DEF TakeMessage
  <2>2. n_blocks' = n_blocks /\ Block' = Block /\ ~Complete
    BY <2>1 DEF n_blocks, Block, Complete
  <2>3. TypeOK'
    BY <2>1 DEF TypeOK, mainVars, files
  <2>4. HandlesInv' /\ ProgressInv'
    BY <2>1, <2>2 DEF HandlesInv, ProgressInv, Copying, mainVars, files
  <2>5. SizeInv'
    BY <2>1, <2>2 DEF SizeInv, mainVars, files
  <2>6. BlocksInv' /\ LostInv'
    BY <2>1, <2>2 DEF BlocksInv, LostInv, Requested, Copying, LastWritten, mainVars, files
  <2> QED BY <2>3, <2>4, <2>5, <2>6
<1> QED BY <1>1, <1>2, <1>3, <1>4, <1>5, <1>6, <1>7, <1>8, <1>9, <1>10 DEF MainStep

(* What a step of the copy thread leaves alone; it is alive only while     *)
(* FsGetFile waits for it, and stays so until FsGetFile has seen its end.  *)
LEMMA CopierAlive ==
  ASSUME IInv, CopierStep
  PROVE  /\ UNCHANGED <<mainVars, int_flag, inode>> /\ n_blocks' = n_blocks
         /\ hTh = "open" /\ copier \notin {"none", "ended"} /\ copier' # "none"
         /\ main \notin {"idle", "found", "spawn"}
         /\ HandlesInv'
<1>1. /\ UNCHANGED <<mainVars, int_flag, inode>>
      /\ copier \notin {"none", "ended"} /\ copier' # "none"
  BY DEF CopierStep, Start, Loop, AfterLoop, Map, Read, Write, Written, Fail
<1>2. hTh = "open" /\ main \notin {"idle", "found", "spawn"}
  BY <1>1 DEF IInv, HandlesInv
<1>3. HandlesInv'
  BY <1>1, <1>2 DEF IInv, HandlesInv, mainVars
<1> QED BY <1>1, <1>2, <1>3 DEF n_blocks

(* A step that keeps what is written keeps the bound on it.                *)
LEMMA SameSize ==
  ASSUME IInv, CopierStep, UNCHANGED files, Complete => Complete',
         copier' = "written" => copier = "written", tail' = tail \/ copier' # "written"
  PROVE  SizeInv'
  BY CopierAlive DEF IInv, SizeInv, mainVars, files

LEMMA CopierStepInv == IInv /\ CopierStep /\ UNCHANGED build => IInv'
<1> SUFFICES ASSUME IInv, CopierStep, UNCHANGED build PROVE IInv'
  OBVIOUS
<1> USE DEF IInv
<1>0. /\ UNCHANGED <<mainVars, int_flag, inode>> /\ n_blocks' = n_blocks
      /\ HandlesInv' /\ main \notin {"idle", "found", "spawn"} /\ inode_size \in Nat
      /\ n_blocks \in Nat
  BY CopierAlive, SizeType, BlockCount
<1>1. CASE Start
  <2>1. /\ copier = "start" /\ local_size = 0 /\ local_file = <<>> /\ UNCHANGED files
        /\ copier' \in {"ended", "loop"} /\ (copier' = "loop" => inode_size # 0)
    BY <1>1 DEF Start, Fail, ProgressInv
  <2>2. TypeOK'
    <3>1. CASE Fail /\ UNCHANGED <<i, tail, mapVars>>
      BY <1>0, <2>1, <3>1 DEF Fail, TypeOK, files, mainVars
    <3>2. CASE error' = 0 /\ i' = 0 /\ tail' = FALSE /\ nr_blk' = UNSET /\ UNCHANGED <<lost, amiss>>
      BY <1>0, <2>1, <3>2 DEF TypeOK, files, mainVars
    <3> QED BY <1>1, <3>1, <3>2 DEF Start
  <2>3. ProgressInv'
    <3>1. inode_size # 0 => 0 <= n_blocks - 1 /\ 0 * BlockSize = 0
      BY <1>0, BlockCount, CopyAssumption
    <3> QED BY <1>0, <1>1, <2>1, <3>1 DEF Start, Fail, ProgressInv, Copying, files
  <2>4. Complete => Complete'
    BY <1>0, <1>1, <2>1 DEF Start, Fail, Complete, files
  <2>5. SizeInv'
    BY <2>1, <2>4, SameSize
  <2>6. BlocksInv' /\ LostInv'
    BY <1>1, <2>1 DEF Start, Fail, BlocksInv, LostInv, LastWritten, files
  <2> QED BY <1>0, <2>2, <2>3, <2>5, <2>6
<1>2. CASE Loop
  <2>1. copier = "loop" /\ UNCHANGED files /\ copier' \in {"map", "after"} /\ ~Complete
    BY <1>2 DEF Loop, files, Complete
  <2>2. TypeOK'
    BY <1>0, <1>2 DEF Loop, TypeOK, files, mainVars
  <2>3. ProgressInv'
    BY <1>0, <1>2 DEF Loop, ProgressInv, Copying, files, TypeOK
  <2>4. SizeInv'
    BY <2>1, SameSize
  <2>5. BlocksInv' /\ LostInv'
    <3>1. LastWritten' = LastWritten /\ UNCHANGED <<nr_blk, lost, amiss, local_file>>
      BY <1>2, <2>1 DEF Loop, LastWritten, files
    <3>2. BlocksInv'
      BY <2>1, <3>1 DEF BlocksInv
    <3>3. copier' # "ended" => Requested' = Requested
      BY <1>0, <1>2, <2>1 DEF Loop, Requested, Block, ProgressInv, Copying
    <3> QED BY <1>0, <2>1, <3>1, <3>2, <3>3 DEF LostInv, Copying, mainVars
  <2> QED BY <1>0, <2>2, <2>3, <2>4, <2>5
<1>3. CASE AfterLoop
  <2>1. copier = "after" /\ UNCHANGED files /\ copier' \in {"map", "ended"} /\ ~Complete
    BY <1>3 DEF AfterLoop, Fail, files, Complete
  <2>2. TypeOK'
    <3>1. /\ error' \in {0, -1} /\ UNCHANGED <<build, mainVars, int_flag, i, mapVars, inode, files>>
      BY <1>3 DEF AfterLoop, Fail, TypeOK
    <3>2. tail' = tail \/ tail' = TRUE
      BY <1>3 DEF AfterLoop
    <3>3. tail' \in BOOLEAN
      BY <3>2 DEF TypeOK
    <3> QED BY <2>1, <3>1, <3>3 DEF TypeOK, files, mainVars
  <2>3. ProgressInv'
    BY <1>0, <1>3 DEF AfterLoop, Fail, ProgressInv, Copying, files, TypeOK
  <2>4. SizeInv'
    BY <2>1, SameSize
  <2>5. BlocksInv' /\ LostInv'
    <3>1. LastWritten' = LastWritten /\ UNCHANGED <<nr_blk, lost, amiss, local_file>>
      BY <1>3, <2>1 DEF AfterLoop, Fail, LastWritten, files
    <3>2. BlocksInv'
      BY <2>1, <3>1 DEF BlocksInv
    <3>3. copier' # "ended" => Requested' = Requested
      BY <1>0, <1>3, <2>1 DEF AfterLoop, Fail, Requested, Block, ProgressInv, Copying
    <3> QED BY <1>0, <2>1, <3>1, <3>2, <3>3 DEF LostInv, Copying, mainVars
  <2> QED BY <1>0, <2>2, <2>3, <2>4, <2>5
<1>4. CASE Map
  <2>1. /\ copier = "map" /\ UNCHANGED files /\ copier' \in {"read", "setsel"} /\ ~Complete
        /\ UNCHANGED <<i, tail, error>>
    BY <1>4 DEF Map, files, Complete
  <2>2. Block \in Nat /\ Block' = Block
    BY <1>0, <2>1 DEF Block, TypeOK, ProgressInv, Copying
  <2>3. lost \in Nat /\ DindFirst \in Nat /\ lost <= Block /\ (lost # 0 => DindFirst + lost <= Block)
    BY <2>1, <2>2, CopyAssumption DEF LostInv, Requested, Copying, TypeOK
  <2>4. \/ nr_blk' = Block - lost /\ UNCHANGED <<lost, amiss>>
        \/ /\ nr_blk' \in {ELSEWHERE, nr_blk}
           /\ amiss' # {} /\ amiss' \subseteq {"hole", "unmapped"}
           /\ lost' = lost \/ (lost' = lost + 1 /\ Block = DindFirst + lost)
    BY <1>4 DEF Map, TypeOK
  <2>5. TypeOK'
    <3>1. nr_blk' \in Content /\ lost' \in Nat
      BY <2>2, <2>3, <2>4 DEF TypeOK
    <3>2. amiss' \in SUBSET {"hole", "unmapped"}
      BY <2>4 DEF TypeOK
    <3> QED BY <1>0, <2>1, <3>1, <3>2 DEF TypeOK, files, mainVars
  <2>6. ProgressInv'
    BY <1>0, <2>1 DEF ProgressInv, Copying, files, TypeOK
  <2>7. SizeInv'
    BY <2>1, SameSize
  <2>8. BlocksInv'
    <3>1. LastWritten' = LastWritten /\ nr_blk = LastWritten /\ UNCHANGED local_file
      BY <2>1 DEF BlocksInv, LastWritten, files
    <3>2. amiss' = {} => amiss = {}
      BY <2>4
    <3> QED BY <2>1, <2>2, <2>3, <2>4, <3>1, <3>2 DEF BlocksInv
  <2>9. LostInv'
    <3>1. Requested' = Block + 1
      BY <2>1, <2>2 DEF Requested
    <3>2. lost' # 0 => amiss' # {}
      BY <2>4 DEF LostInv
    <3>3. lost' # 0 => DindFirst + lost' <= Block + 1
      BY <2>2, <2>3, <2>4
    <3> QED BY <1>0, <2>1, <3>1, <3>2, <3>3 DEF LostInv, mainVars
  <2> QED BY <1>0, <2>5, <2>6, <2>7, <2>8, <2>9
<1>5. CASE Read
  <2>1. /\ copier = "read" /\ UNCHANGED files /\ copier' \in {"write", "ended"} /\ ~Complete
        /\ UNCHANGED <<i, tail, mapVars>> /\ (copier' = "write" => error' = error)
    BY <1>5 DEF Read, Fail, files, Complete
  <2>2. Block' = Block
    BY <1>0, <2>1 DEF Block
  <2>3. TypeOK'
    BY <1>0, <1>5 DEF Read, Fail, TypeOK, files, mainVars
  <2>4. ProgressInv'
    BY <1>0, <2>1 DEF ProgressInv, Copying, files, TypeOK
  <2>5. SizeInv'
    BY <2>1, SameSize
  <2>6. BlocksInv' /\ LostInv'
    BY <1>0, <2>1, <2>2 DEF BlocksInv, LostInv, Requested, Copying, LastWritten, mainVars, files
  <2> QED BY <1>0, <2>3, <2>4, <2>5, <2>6
<1>6. CASE Write
  <2>1. copier = "write" /\ ~Complete /\ UNCHANGED <<i, tail, mapVars>>
    BY <1>6 DEF Write, Complete
  <2>4. LostInv'
    BY <1>0, <1>6, <2>1 DEF Write, Fail, LostInv, Requested, Copying, Block, mainVars
  <2>2. CASE copier' = "ended"
    <3>1. UNCHANGED files /\ error' = -1
      BY <1>6, <2>2 DEF Write, Fail
    <3>2. TypeOK'
      BY <1>0, <2>1, <2>2, <3>1 DEF TypeOK, files, mainVars
    <3>3. SizeInv'
      BY <2>1, <2>2, <3>1, SameSize
    <3> QED BY <1>0, <2>1, <2>2, <2>4, <3>1, <3>2, <3>3 DEF ProgressInv, Copying, BlocksInv, files
  <2>3. CASE copier' # "ended"
    <3>1. /\ copier' = "written" /\ error' = error
          /\ local_size' = local_size + WriteSize
          /\ local_file' = Append(local_file, nr_blk)
      BY <1>6, <2>3 DEF Write, Fail
    <3>2. /\ inode_size # 0 /\ i \in Nat /\ i <= n_blocks - 1 /\ error = 0
          /\ local_size = i * BlockSize /\ Len(local_file) = i
          /\ tail => i = n_blocks - 1
          /\ ~tail => i < n_blocks - 1
          /\ local_file \in Seq(Content) /\ nr_blk \in Content
      BY <2>1 DEF ProgressInv, Copying, TypeOK
    <3>3. BlockSize \in Nat /\ i * BlockSize \in Nat /\ i * BlockSize < inode_size
          /\ (i + 1) * BlockSize = i * BlockSize + BlockSize
      BY <1>0, <3>2, FullBlocks, CopyAssumption
    <3>4. /\ local_file' \in Seq(Content) /\ Len(local_file') = i + 1
          /\ \A k \in 1 .. i : local_file'[k] = local_file[k]
          /\ local_file'[i + 1] = nr_blk
      BY <3>1, <3>2
    <3>5. CASE tail
      <4>1. local_size' = inode_size
        BY <1>0, <3>1, <3>2, <3>3, <3>5 DEF WriteSize
      <4>2. Complete'
        BY <1>0, <2>1, <3>1, <3>2, <3>4, <3>5, <4>1 DEF Complete
      <4>3. local_size <= local_size'
        BY <1>0, <3>2, <3>3, <4>1
      <4>4. TypeOK'
        BY <1>0, <2>1, <3>1, <3>4, <4>1 DEF TypeOK, mainVars
      <4>5. ProgressInv'
        BY <1>0, <2>1, <3>1, <3>2, <3>5 DEF ProgressInv, Copying
      <4>6. large_pos <= local_size => large_pos <= local_size'
        BY <4>3, <4>4 DEF TypeOK, mainVars
      <4>7. SizeInv'
        BY <1>0, <2>1, <3>1, <4>2, <4>6 DEF SizeInv, mainVars
      <4>8. BlocksInv'
        <5>1. Block = i
          BY <3>2, <3>5 DEF Block
        <5>2. LastWritten' = nr_blk /\ nr_blk' = nr_blk
          BY <2>1, <3>2, <3>4 DEF LastWritten
        <5>3. amiss' = amiss /\ (amiss = {} => nr_blk = i /\ \A k \in 1 .. i : local_file[k] = k - 1)
          <6>1. amiss = {} => lost = 0
            BY DEF LostInv
          <6> QED BY <2>1, <3>2, <5>1, <6>1 DEF BlocksInv
        <5> QED BY <2>1, <3>1, <3>2, <3>4, <5>2, <5>3 DEF BlocksInv
      <4> QED BY <1>0, <2>4, <4>4, <4>5, <4>7, <4>8
    <3>6. CASE ~tail
      <4>1. local_size' = (i + 1) * BlockSize /\ local_size' \in Nat
        BY <3>1, <3>2, <3>3, <3>6 DEF WriteSize
      <4>2. local_size' < inode_size
        BY <1>0, <3>2, <3>6, <4>1, FullBlocks
      <4>3. local_size <= local_size'
        BY <3>2, <3>3, <4>1
      <4>4. TypeOK'
        BY <1>0, <2>1, <3>1, <3>4, <4>1 DEF TypeOK, mainVars
      <4>5. ProgressInv'
        BY <1>0, <2>1, <3>1, <3>2, <3>4, <3>6, <4>1 DEF ProgressInv, Copying
      <4>6. large_pos <= local_size => large_pos <= local_size'
        BY <3>2, <3>3, <4>1, <4>3 DEF TypeOK
      <4>7. SizeInv'
        BY <1>0, <2>1, <3>1, <3>6, <4>2, <4>6 DEF SizeInv, mainVars
      <4>8. BlocksInv'
        <5>1. Block = i
          BY <3>6 DEF Block
        <5>2. LastWritten' = nr_blk /\ nr_blk' = nr_blk
          BY <2>1, <3>2, <3>4 DEF LastWritten
        <5>3. amiss' = amiss /\ (amiss = {} => nr_blk = i /\ \A k \in 1 .. i : local_file[k] = k - 1)
          <6>1. amiss = {} => lost = 0
            BY DEF LostInv
          <6> QED BY <2>1, <3>2, <5>1, <6>1 DEF BlocksInv
        <5> QED BY <2>1, <3>1, <3>2, <3>4, <5>2, <5>3 DEF BlocksInv
      <4> QED BY <1>0, <2>4, <4>4, <4>5, <4>7, <4>8
    <3> QED BY <3>5, <3>6
  <2> QED BY <2>2, <2>3
<1>7. CASE Written
  <2>1. /\ copier = "written" /\ UNCHANGED files /\ UNCHANGED <<error, tail, mapVars>>
        /\ copier' = IF tail THEN "ended" ELSE "loop"
        /\ i' = IF tail THEN i ELSE i + 1
    BY <1>7 DEF Written
  <2>2. TypeOK'
    BY <1>0, <2>1 DEF TypeOK, files, mainVars
  <2>3. ProgressInv'
    BY <1>0, <2>1 DEF ProgressInv, Copying, files, TypeOK
  <2>4. Complete => Complete'
    BY <1>0, <2>1 DEF Complete, files
  <2>5. SizeInv'
    BY <2>1, <2>4, SameSize
  <2>6. BlocksInv'
    BY <2>1 DEF BlocksInv, LastWritten, files
  <2>7. LostInv'
    <3>1. tail \/ Requested' = Requested
      BY <1>0, <2>1 DEF Requested, Block, TypeOK
    <3> QED BY <1>0, <2>1, <3>1 DEF LostInv, Copying, mainVars
  <2> QED BY <1>0, <2>2, <2>3, <2>5, <2>6, <2>7
<1> QED BY <1>1, <1>2, <1>3, <1>4, <1>5, <1>6, <1>7 DEF CopierStep

LEMMA StutterInv == IInv /\ UNCHANGED vars => IInv'
<1> SUFFICES ASSUME IInv, UNCHANGED vars PROVE IInv'
  OBVIOUS
<1>1. ProgressInv' /\ BlocksInv' /\ LostInv' /\ (Complete => Complete')
  BY WatchStep DEF vars, mainVars
<1>2. TypeOK' /\ HandlesInv' /\ SizeInv'
  BY <1>1 DEF IInv, TypeOK, HandlesInv, SizeInv, vars, mainVars, copierVars, files
<1> QED BY <1>1, <1>2 DEF IInv

-----------------------------------------------------------------------------
(* The strengthened invariant holds in every reachable state. *)
THEOREM InductiveInvariant == Spec => []IInv
<1>1. IInv /\ [Next]_vars => IInv'
  BY CallInv, MainStepInv, CopierStepInv, StutterInv DEF Next
<1> QED BY <1>1, InitIInv, PTL DEF Spec

(* Type correctness. *)
THEOREM TypeCorrect == Spec => []TypeOK
<1>1. IInv => TypeOK
  BY DEF IInv
<1> QED BY <1>1, InductiveInvariant, PTL

(* FsGetFile never returns with a handle open or while the copy thread     *)
(* still uses params, which lives in its frame.                            *)
THEOREM NothingLeftBehind == Spec => []CallLeavesNothingBehind
<1>1. IInv => CallLeavesNothingBehind
  BY DEF IInv, HandlesInv, CallLeavesNothingBehind
<1> QED BY <1>1, InductiveInvariant, PTL

(* Closing the local file before the copy thread has ended is safe. *)
THEOREM OpenWhenWritten == Spec => []WritesHitOpenHandle
<1>1. IInv => WritesHitOpenHandle
  BY DEF IInv, TypeOK, HandlesInv, SizeInv, Complete, WritesHitOpenHandle
<1> QED BY <1>1, InductiveInvariant, PTL

(* FS_FILE_OK is returned only for a complete local file. *)
THEOREM OkIsComplete == Spec => []OkMeansComplete
<1>1. IInv => OkMeansComplete
  BY DEF IInv, SizeInv, BlocksInv, Complete, OkMeansComplete
<1> QED BY <1>1, InductiveInvariant, PTL

(* FsGetFile and its copy thread implement Download: each of their steps   *)
(* is a step of Download or leaves its state alone, also when a request    *)
(* of the copy is answered wrongly or its answer is lost.                  *)
THEOREM Refinement == Spec => ImplementsDownload
<1>1. Init => D!Init
  <2> SUFFICES ASSUME Init PROVE D!Init
    OBVIOUS
  <2>1. n_blocks = 0
    BY BlockCount DEF Init
  <2> QED BY <2>1 DEF Init, D!Init, Phase
<1>2. IInv /\ [Next]_vars => [D!Next]_(D!downloadVars)
  <2> SUFFICES ASSUME IInv, [Next]_vars PROVE [D!Next]_(D!downloadVars)
    OBVIOUS
  <2> USE DEF IInv
  <2>1. CASE Call
    <3>1. n_blocks' \in {(s + BlockSize - 1) \div BlockSize : s \in Sizes}
      BY <2>1 DEF Call, n_blocks
    <3>2. D!Begin
      BY <2>1, <3>1 DEF Call, D!Begin, Phase, copierVars, files
    <3> QED BY <3>2 DEF D!Next
  <2>2. CASE Refuse
    <3>1. D!Finish
      BY <2>2 DEF Refuse, D!Finish, Phase, copierVars, files, n_blocks
    <3> QED BY <3>1 DEF D!Next
  <2>3. CASE OpenLocal
    <3>1. D!Truncate
      BY <2>3 DEF OpenLocal, D!Truncate, Phase, n_blocks
    <3> QED BY <3>1 DEF D!Next
  <2>4. CASE Spawn \/ Sample \/ Check \/ TakeMessage \/ Progress \/ Interrupt \/ CloseFirst
    BY <2>4 DEF Spawn, Sample, Check, TakeMessage, Progress, mainVars, Interrupt, CloseFirst, Phase, copierVars, files,
                n_blocks, D!downloadVars
  <2>5. CASE Join
    <3>1. /\ result \in {"FS_FILE_READERROR", "FS_FILE_USERABORT"}
               \/ (result = "FS_FILE_OK" /\ Len(local_file) = n_blocks)
      BY <2>5 DEF Join, SizeInv, Complete
    <3>2. D!Finish
      BY <2>5, <3>1 DEF Join, D!Finish, Phase, files, n_blocks
    <3> QED BY <3>2 DEF D!Next
  <2>6. CASE CopierStep
    <3>1. /\ UNCHANGED <<mainVars, inode>> /\ n_blocks' = n_blocks
          /\ main \notin {"idle", "found"} /\ Phase = "copying" /\ Phase' = "copying"
      BY <2>6, CopierAlive DEF Phase, mainVars
    <3>2. CASE UNCHANGED <<files, lost>>
      BY <3>1, <3>2 DEF files, mainVars, D!downloadVars
    <3>4. CASE Map /\ lost' # lost
      <4>1. /\ lost' = lost + 1 /\ UNCHANGED files /\ copier = "map"
            /\ Block = DindFirst + lost
        BY <3>4 DEF Map
      <4>2. /\ i \in Nat /\ n_blocks \in Nat /\ Len(local_file) = i /\ i <= n_blocks - 1
            /\ Block = i /\ lost \in Nat /\ DindFirst \in Nat
        BY <4>1, SizeType, BlockCount, CopyAssumption DEF ProgressInv, Copying, Block, TypeOK
      <4>3. D!Lose
        BY <3>1, <4>1, <4>2 DEF D!Lose, files, mainVars
      <4> QED BY <4>3 DEF D!Next
    <3>3. CASE ~UNCHANGED files
      <4>1. copier = "write" /\ local_file' = Append(local_file, nr_blk) /\ lost' = lost
        BY <2>6, <3>3 DEF CopierStep, Start, Loop, AfterLoop, Map, Read, Write, Written
      <4>2. /\ i \in Nat /\ n_blocks \in Nat /\ Len(local_file) = i /\ i <= n_blocks - 1
            /\ Block = i
            /\ (nr_blk = i - lost /\ lost <= i) \/ nr_blk \in {ELSEWHERE, LastWritten}
        BY <4>1, SizeType, BlockCount
           DEF ProgressInv, Copying, BlocksInv, Block, TypeOK
      <4>3. D!Extend
        BY <3>1, <4>1, <4>2 DEF D!Extend, D!LastBlock, LastWritten, mainVars
      <4> QED BY <4>3 DEF D!Next
    <3> QED
      <4>1. Map \/ lost' = lost
        BY <2>6 DEF CopierStep, Start, Loop, AfterLoop, Read, Write, Written
      <4> QED BY <3>2, <3>3, <3>4, <4>1
  <2>7. CASE UNCHANGED vars
    BY <2>7 DEF vars, mainVars, copierVars, files, Phase, n_blocks, D!downloadVars
  <2> QED BY <2>1, <2>2, <2>3, <2>4, <2>5, <2>6, <2>7 DEF Next, MainStep
<1> QED BY <1>1, <1>2, InductiveInvariant, PTL DEF Spec, ImplementsDownload, D!Spec

-----------------------------------------------------------------------------
(* SharedDisk: who may be in the middle of a read, and what the copy       *)
(* thread can still write once it has been told to stop.                   *)
DiskInv ==
  /\ DiskTypeOK
  /\ reading["host"] # "no" => main \in {"idle", "found"}
  /\ reading["copier"] # "no" => copier \in {"map", "read"}
  /\ ReadsOwnSectors

LateInv ==
  /\ late_writes \in {0, 1}
  /\ int_flag = 0 => late_writes = 0
  /\ late_writes = 1 => copier \in {"none", "written", "loop", "after", "ended"}
  /\ main = "spawn" => int_flag = 0

SharedInv == IInv /\ DiskInv /\ LateInv

(* A step of SharedDisk is one of FileCopy or leaves its state alone.      *)
LEMMA SharedStep ==
  [SharedNext]_sharedVars => [Next]_vars
<1> SUFFICES ASSUME [SharedNext]_sharedVars PROVE [Next]_vars
  OBVIOUS
<1>1. CASE UNCHANGED vars
  BY <1>1
<1>2. CASE HostStep(Call) \/ HostStep(MainStep) \/ CopierNext
  BY <1>2 DEF HostStep, CopierNext, Next
<1> QED BY <1>1, <1>2 DEF SharedNext, HostSeek, HostRead, CopierSeek, sharedVars

(* What is proved of FileCopy holds of its composition with the disk.      *)
THEOREM SharedImplementsCopy == SharedSpec => Spec
<1>1. SharedInit => Init
  BY DEF SharedInit
<1> QED BY <1>1, SharedStep, PTL DEF SharedSpec, Spec

LEMMA SharedInitInv == SharedInit => SharedInv
<1> SUFFICES ASSUME SharedInit PROVE SharedInv
  OBVIOUS
<1>1. IInv
  BY InitIInv DEF SharedInit
<1>2. DiskInv /\ LateInv
  BY DEF SharedInit, DiskInv, LateInv, DiskTypeOK, ReadsOwnSectors, Readers, Init
<1> QED BY <1>1, <1>2 DEF SharedInv

(* When the copy thread is in its loop the host's thread does not read.    *)
LEMMA HostIsWaiting ==
  ASSUME SharedInv, copier # "none"
  PROVE  main \notin {"idle", "found", "spawn"} /\ reading["host"] = "no"
  BY DEF SharedInv, IInv, HandlesInv, DiskInv

LEMMA SeekInv ==
  ASSUME SharedInv, HostSeek \/ HostRead \/ CopierSeek
  PROVE  DiskInv' /\ LateInv'
<1> USE DEF SharedInv
<1>1. UNCHANGED <<vars, late_writes>>
  BY DEF HostSeek, HostRead, CopierSeek
<1>2. LateInv'
  BY <1>1 DEF LateInv, vars, mainVars, copierVars
<1>3. CASE HostSeek
  <2>1. copier = "none" /\ reading["copier"] = "no"
    BY <1>3, HostIsWaiting DEF HostSeek, DiskInv
  <2>2. DiskInv'
    BY <1>1, <1>3, <2>1 DEF HostSeek, SetFilePointerEx, DiskInv, DiskTypeOK, ReadsOwnSectors,
                            Readers, vars, mainVars, copierVars, LateInv
  <2> QED BY <1>2, <2>2
<1>4. CASE HostRead
  <2>1. main \in {"idle", "found"} /\ reading["copier"] = "no"
    BY <1>4, HostIsWaiting DEF HostRead, ReadFile, DiskInv
  <2>2. DiskInv'
    BY <1>1, <1>4, <2>1 DEF HostRead, ReadFile, DiskInv, DiskTypeOK, ReadsOwnSectors,
                            Readers, vars, mainVars, copierVars
  <2> QED BY <1>2, <2>2
<1>5. CASE CopierSeek
  <2>1. reading["host"] = "no" /\ copier \in {"map", "read"}
    BY <1>5, HostIsWaiting DEF CopierSeek
  <2>2. DiskInv'
    BY <1>1, <1>5, <2>1 DEF CopierSeek, SetFilePointerEx, DiskInv, DiskTypeOK, ReadsOwnSectors,
                            Readers, vars, mainVars, copierVars
  <2> QED BY <1>2, <2>2
<1> QED BY <1>3, <1>4, <1>5

LEMMA HostStepInv ==
  ASSUME SharedInv, HostStep(Call) \/ HostStep(MainStep)
  PROVE  DiskInv' /\ LateInv'
<1> USE DEF SharedInv
<1>1. /\ reading["host"] = "no" /\ UNCHANGED <<file_ptr, reading>>
      /\ late_writes' = IF int_flag' = 0 THEN 0 ELSE late_writes
      /\ Call \/ MainStep
  BY DEF HostStep, diskVars
<1>2. /\ copier \in {"map", "read"} => copier' = copier
      /\ copier' \in {copier, "none", "start", "settext", "read"}
      /\ copier' \in {"start", "settext", "read"} /\ copier' # copier =>
           main = "spawn" \/ copier \in Sending
      /\ int_flag' = int_flag \/ int_flag' = 1 \/ int_flag' = 0
      /\ main' = "spawn" => int_flag' = 0
      /\ main = "spawn" => int_flag' = int_flag
  <2>1. CASE Call \/ Refuse \/ Sample \/ Check \/ Progress \/ CloseFirst
    BY <2>1 DEF Call, Refuse, Sample, Check, Progress, CloseFirst, copierVars
  <2>2. CASE OpenLocal \/ Interrupt \/ Join
    BY <2>2 DEF OpenLocal, Interrupt, Join, copierVars, IInv, HandlesInv
  <2>3. CASE Spawn
    <3>1. copier = "none"
      BY <2>3 DEF Spawn, IInv, HandlesInv
    <3> QED BY <2>3, <3>1 DEF Spawn
  <2>4. CASE TakeMessage
    BY <2>4 DEF TakeMessage, mainVars
  <2> QED BY <1>1, <2>1, <2>2, <2>3, <2>4 DEF MainStep
<1>3. DiskInv'
  BY <1>1, <1>2 DEF DiskInv, DiskTypeOK, ReadsOwnSectors, Readers, LateInv
<1>4. LateInv'
  <2>1. late_writes' \in {0, late_writes} /\ (int_flag' = 0 => late_writes' = 0)
    BY <1>1
  <2>2. late_writes = 1 => main # "spawn" /\ copier \in {"none", "written", "loop", "after", "ended"}
    BY DEF LateInv
  <2>3. late_writes = 1 => copier' \in {"none", "written", "loop", "after", "ended"}
    BY <1>2, <2>2 DEF Sending
  <2> QED BY <1>2, <2>1, <2>3 DEF LateInv
<1> QED BY <1>3, <1>4

LEMMA CopierNextInv ==
  ASSUME SharedInv, CopierNext
  PROVE  DiskInv' /\ LateInv'
<1> USE DEF SharedInv
<1>1. /\ CopierStep
      /\ UNCHANGED <<main, int_flag>> /\ copier \notin {"none", "ended"}
      /\ reading["host"] = "no"
      /\ main \notin {"idle", "found", "spawn"}
  BY CopierAlive, HostIsWaiting DEF CopierNext, mainVars
<1>2. /\ reading' \in [Readers -> {"no", "sought", "lost"}]
      /\ file_ptr' \in Readers \cup {"elsewhere"}
      /\ reading'["host"] = "no" /\ reading'["copier"] = "no"
  BY <1>1 DEF CopierNext, ReadFile, DiskInv, DiskTypeOK, Readers, diskVars
<1>3. \/ copier # "write" /\ UNCHANGED local_file
         /\ (copier \in {"written", "loop", "after"} /\ int_flag # 0 =>
               copier' \in {"loop", "after", "ended"})
      \/ copier = "write" /\ copier' \in {"written", "ended"}
         /\ (local_file' = local_file \/ local_file' = Append(local_file, nr_blk))
  BY <1>1 DEF CopierStep, Start, Loop, AfterLoop, Map, Read, Write, Written, Fail, files
<1>4. local_file \in Seq(Content) /\ nr_blk \in Content /\ int_flag \in {0, 1}
  BY DEF IInv, TypeOK
<1>5. Len(local_file') - Len(local_file) = IF local_file' = local_file THEN 0 ELSE 1
  <2>1. Len(local_file) \in Nat
    BY <1>4
  <2>2. CASE local_file' = local_file
    BY <2>1, <2>2
  <2>3. CASE local_file' # local_file
    <3>1. local_file' = Append(local_file, nr_blk)
      BY <1>3, <2>3
    <3>2. Len(local_file') = Len(local_file) + 1
      BY <1>4, <3>1
    <3> QED BY <2>1, <2>3, <3>2
  <2> QED BY <2>2, <2>3
<1>6. late_writes' = IF int_flag = 0 THEN 0
                     ELSE IF local_file' = local_file THEN late_writes ELSE late_writes + 1
  <2>1. late_writes \in {0, 1} /\ Len(local_file) \in Nat /\ Len(local_file') \in Nat
    <3>1. Len(local_file) \in Nat
      BY <1>4
    <3>2. CASE local_file' = local_file
      BY <3>1, <3>2 DEF LateInv
    <3>3. CASE local_file' # local_file
      <4>1. local_file' = Append(local_file, nr_blk)
        BY <1>3, <3>3
      <4>2. Len(local_file') = Len(local_file) + 1
        BY <1>4, <4>1
      <4> QED BY <3>1, <4>2 DEF LateInv
    <3> QED BY <3>2, <3>3
  <2> QED BY <1>5, <2>1 DEF CopierNext
<1>7. DiskInv'
  <2>1. late_writes' \in Nat
    BY <1>6 DEF LateInv
  <2> QED BY <1>2, <2>1 DEF DiskInv, DiskTypeOK, ReadsOwnSectors, Readers
<1>8. LateInv'
  BY <1>1, <1>3, <1>4, <1>6 DEF LateInv
<1> QED BY <1>7, <1>8

(* Every state of SharedDisk satisfies the joint invariant. *)
THEOREM SharedInvariant == SharedSpec => []SharedInv
<1>1. SharedInv /\ [SharedNext]_sharedVars => SharedInv'
  <2> SUFFICES ASSUME SharedInv, [SharedNext]_sharedVars PROVE SharedInv'
    OBVIOUS
  <2>1. IInv'
    BY SharedStep, CallInv, MainStepInv, CopierStepInv, StutterInv DEF Next, SharedInv
  <2>2. DiskInv' /\ LateInv'
    <3>1. CASE UNCHANGED sharedVars
      BY <3>1 DEF sharedVars, vars, mainVars, copierVars, diskVars, SharedInv, DiskInv,
                  DiskTypeOK, ReadsOwnSectors, Readers, LateInv
    <3>2. CASE SharedNext
      BY <3>2, SeekInv, HostStepInv, CopierNextInv DEF SharedNext
    <3> QED BY <3>1, <3>2
  <2> QED BY <2>1, <2>2 DEF SharedInv
<1> QED BY <1>1, SharedInitInv, PTL DEF SharedSpec

(* A read whose seek succeeded gets its own sectors, in every interleaving *)
(* of the two threads on the one handle.                                   *)
THEOREM OwnSectors == SharedSpec => []ReadsOwnSectors
<1>1. SharedInv => ReadsOwnSectors
  BY DEF SharedInv, DiskInv
<1> QED BY <1>1, SharedInvariant, PTL

(* Once int_flag is set the copy thread writes at most one more block.     *)
THEOREM AbortIsPrompt == SharedSpec => []AbortWithinOneBlock
<1>1. SharedInv => AbortWithinOneBlock
  BY DEF SharedInv, LateInv, AbortWithinOneBlock
<1> QED BY <1>1, SharedInvariant, PTL
=============================================================================
