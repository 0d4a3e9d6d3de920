------------------------------- MODULE BlockMap -------------------------------
(***************************************************************************)
(* The block map of a file without extents: class blocks.                  *)
(*                                                                         *)
(* read_file and get_dir_entry ask get_ext2_blk_nr for block 0, 1, 2, ...  *)
(* of a file.  The class does not compute the place of a block in the      *)
(* indirect blocks from its index: it keeps the indirect block it is in,   *)
(* and counters that it advances by one with each request, and lets go of  *)
(* a block when the counters say that its last entry was used.  The map is *)
(* right only if the counters never slip.                                  *)
(*                                                                         *)
(* An indirect block is named by the entry of the double indirect block    *)
(* that points to it (IND is the one of the inode), and the address of a   *)
(* file block by the indirect block and the entry that hold it.            *)
(***************************************************************************)
EXTENDS Integers

CONSTANTS
  AddrPerBlock,   \* EXT4_ADDR_PER_BLOCK, 256 for the smallest block size
  FileBlocks,     \* the lengths of the files, in blocks
  WrapBlocks,     \* the number of blocks i_size_lo can count, 2^32 bytes
  ReadsFail       \* sectors may be unreadable

ASSUME BlockMapAssumption ==
  /\ AddrPerBlock \in Nat /\ AddrPerBlock >= 3
  /\ FileBlocks \subseteq Nat
  /\ WrapBlocks \in Nat \ {0}
  /\ ReadsFail \in BOOLEAN

EXT4_IND_BLOCK == 12        \* the number of direct blocks

NONE == -3                  \* no block in the buffer
INODE == -2                 \* the block addresses in the inode itself
IND == -1                   \* the indirect block of the inode

VARIABLES
  n_blocks,       \* the length of the file: the caller asks for all its blocks
  blk_index,      \* the block that is asked for next
  buffer,         \* the indirect block in the buffer, or NONE
  ind_index,      \* the entry of it to be used next
  dindirect_buf,  \* the double indirect block is in its buffer
  dind_index,     \* the entry of it to be used next
  mapped,         \* how the last request ended: "ok", "failed" or "crashed"
  nr_blk,         \* the address given by the last request that succeeded
  lost            \* history: how often the double indirect block was not read

bufferVars == <<buffer, ind_index>>
dindVars == <<dindirect_buf, dind_index>>
vars == <<n_blocks, blk_index, bufferVars, dindVars, mapped, nr_blk, lost>>

(* The constructor computes the length again, from i_size_lo alone. *)
n_block == n_blocks % WrapBlocks

dind_n_blk == AddrPerBlock * AddrPerBlock

(* Seeded fault: the region of the indirect block forgotten. *)
dind_end_fault == dind_n_blk + EXT4_IND_BLOCK

(* The first block after the double indirect region. *)
dind_end == dind_n_blk + AddrPerBlock + EXT4_IND_BLOCK

Entry(block, e) == [block |-> block, entry |-> e]

Init ==
  /\ n_blocks \in FileBlocks
  /\ blk_index = 0
  /\ buffer = NONE /\ ind_index = 0
  /\ dindirect_buf = FALSE /\ dind_index = 0
  /\ mapped = "ok"
  /\ nr_blk = Entry(INODE, 0)
  /\ lost = 0

-----------------------------------------------------------------------------
(* A request for the next block, and how it ends. *)
Request ==
  /\ blk_index < n_blocks
  /\ mapped # "crashed"
  /\ blk_index' = blk_index + 1
  /\ UNCHANGED n_blocks

Succeeds(address) == mapped' = "ok" /\ nr_blk' = address

(* -1 is returned and the caller's address is left as it was. *)
Fails == mapped' = "failed" /\ UNCHANGED nr_blk

(* Seeded fault: the buffer is kept when its last entry has been used. *)
indirect_blk_nr_keep(ind_blk_nr) ==
  /\ Succeeds(Entry(IF buffer = NONE THEN ind_blk_nr ELSE buffer, ind_index))
  /\ buffer' = IF buffer = NONE THEN ind_blk_nr ELSE buffer
  /\ ind_index' = IF ind_index = AddrPerBlock - 1 THEN 0 ELSE ind_index + 1

(* indirect_blk_nr: the next entry of the indirect block in the buffer, or *)
(* of ind_blk_nr when the buffer is empty.                                 *)
indirect_blk_nr(ind_blk_nr) ==
  LET block == IF buffer = NONE THEN ind_blk_nr ELSE buffer
      last  == \/ buffer = NONE /\ ind_index = n_block - 1
               \/ buffer # NONE /\ ind_index + 1 \in {AddrPerBlock, n_block}
  IN /\ Succeeds(Entry(block, ind_index))
     /\ buffer' = IF last THEN NONE ELSE block
     /\ ind_index' = IF last THEN 0 ELSE ind_index + 1

(* An indirect block that cannot be read is used all the same: NULL is     *)
(* dereferenced and the host goes down.                                    *)
IndirectUnreadable ==
  /\ ReadsFail
  /\ buffer = NONE
  /\ mapped' = "crashed"
  /\ UNCHANGED <<bufferVars, dindVars, nr_blk, lost>>

MapDirect ==
  /\ Request
  /\ blk_index < EXT4_IND_BLOCK
  /\ Succeeds(Entry(INODE, blk_index))
  /\ UNCHANGED <<bufferVars, dindVars, lost>>

MapIndirect ==
  /\ Request
  /\ blk_index >= EXT4_IND_BLOCK
  /\ blk_index < AddrPerBlock + EXT4_IND_BLOCK
  /\ \/ indirect_blk_nr(IND) /\ UNCHANGED <<dindVars, lost>>
     \/ IndirectUnreadable

InDouble ==
  /\ Request
  /\ blk_index >= AddrPerBlock + EXT4_IND_BLOCK
  /\ blk_index < dind_end

(* The first request in the double indirect region reads that block; when  *)
(* that fails the next request is taken for the first.                     *)
MapDoubleFirst ==
  /\ InDouble
  /\ ~dindirect_buf
  /\ \/ /\ indirect_blk_nr(0)
        /\ IF blk_index = n_block - 1
           THEN dindirect_buf' = FALSE /\ dind_index' = 0
           ELSE dindirect_buf' = TRUE /\ UNCHANGED dind_index
        /\ UNCHANGED lost
     \/ IndirectUnreadable
     \/ ReadsFail /\ Fails /\ lost' = lost + 1 /\ UNCHANGED <<bufferVars, dindVars>>

(* Seeded fault: the entry of the double indirect block is advanced when   *)
(* the indirect block has been let go, not one request earlier.            *)
MapDoubleNext_onRelease ==
  /\ InDouble
  /\ dindirect_buf
  /\ \/ /\ indirect_blk_nr(dind_index)
        /\ IF blk_index \in {dind_end - 1, n_block - 1}
           THEN dindirect_buf' = FALSE /\ dind_index' = 0
           ELSE /\ UNCHANGED dindirect_buf
                /\ dind_index' = IF ind_index' = AddrPerBlock
                                 THEN dind_index + 1 ELSE dind_index
        /\ UNCHANGED lost
     \/ IndirectUnreadable

(* The later requests. *)
MapDoubleNext ==
  /\ InDouble
  /\ dindirect_buf
  /\ \/ /\ indirect_blk_nr(dind_index)
        /\ IF blk_index \in {dind_end - 1, n_block - 1}
           THEN dindirect_buf' = FALSE /\ dind_index' = 0
           ELSE /\ UNCHANGED dindirect_buf
                /\ dind_index' = IF ind_index' = AddrPerBlock - 1
                                 THEN dind_index + 1 ELSE dind_index
        /\ UNCHANGED lost
     \/ IndirectUnreadable

(* Triple indirect blocks are not supported. *)
MapBeyond ==
  /\ Request
  /\ blk_index >= dind_end
  /\ Fails
  /\ UNCHANGED <<bufferVars, dindVars, lost>>

get_ext2_non_extent_blk ==
  MapDirect \/ MapIndirect \/ MapDoubleFirst \/ MapDoubleNext \/ MapBeyond

(* All blocks were asked for, or the host has gone down. *)
Done ==
  /\ blk_index = n_blocks \/ mapped = "crashed"
  /\ UNCHANGED vars

Next == get_ext2_non_extent_blk \/ Done

Spec == Init /\ [][Next]_vars

-----------------------------------------------------------------------------
(* Where ext2 stores the address of block k of a file. *)
Layout(k) ==
  LET d == k - EXT4_IND_BLOCK - AddrPerBlock IN
  IF k < EXT4_IND_BLOCK THEN Entry(INODE, k)
  ELSE IF d < 0 THEN Entry(IND, k - EXT4_IND_BLOCK)
  ELSE Entry(d \div AddrPerBlock, d % AddrPerBlock)

(* Type invariant; the index into the indirect block stays inside it. *)
TypeOK ==
  /\ n_blocks \in FileBlocks
  /\ blk_index \in 0 .. n_blocks
  /\ buffer \in {NONE, IND} \cup 0 .. AddrPerBlock - 1
  /\ ind_index \in 0 .. AddrPerBlock - 1
  /\ dindirect_buf \in BOOLEAN
  /\ dind_index \in 0 .. AddrPerBlock
  /\ mapped \in {"ok", "failed", "crashed"}
  /\ nr_blk \in [block : {INODE, IND} \cup 0 .. AddrPerBlock - 1, entry : Nat]
  /\ lost \in Nat

(* A request that succeeds gives the address the layout of ext2 gives the  *)
(* block: the counters of class blocks never slip against blk_index.  The  *)
(* one thing that moves them is a double indirect block that cannot be     *)
(* read: the rest of the file is then mapped one block late for each try   *)
(* that failed.                                                            *)
MapsRight ==
  blk_index > 0 /\ mapped = "ok" => nr_blk = Layout(blk_index - 1 - lost)

(* Every block up to the end of the double indirect region is mapped, and  *)
(* none after it, as long as no double indirect block was unreadable.      *)
MapsAll ==
  mapped # "crashed" /\ lost = 0 /\ blk_index > 0 =>
    (mapped = "ok" <=> blk_index <= EXT4_IND_BLOCK + AddrPerBlock + AddrPerBlock * AddrPerBlock)

(* At most one indirect block is in memory, the one the next request uses, *)
(* and the double indirect block only while there is a next request for it *)
(* (unless a failed read has shifted the counters).                        *)
HoldsWhatItNeeds ==
  mapped # "crashed" /\ blk_index < n_blocks /\ lost = 0 =>
    /\ buffer # NONE =>
         /\ blk_index < dind_end
         /\ Entry(buffer, ind_index) = Layout(blk_index)
    /\ dindirect_buf =>
         blk_index \in EXT4_IND_BLOCK + AddrPerBlock .. dind_end - 1
=============================================================================
