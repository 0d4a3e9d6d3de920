------------------------------ MODULE Superblock ------------------------------
(***************************************************************************)
(* From the superblock to the bytes of an inode: partition_linux_ext2::    *)
(* get_ext2_sb, get_ext2_gr_descriptors and the arithmetic of              *)
(* get_ext4_inode, on the layouts that mkfs writes.                        *)
(*                                                                         *)
(* A place is a number of bytes from the start of the partition.  What is  *)
(* read is a buffer that begins at a place and has a size; a pointer into  *)
(* the buffer is a place and the room that is left behind it.  The module  *)
(* InodeCache has the interleavings of get_ext4_inode and the lifetime of  *)
(* its buffers; here one call is one step, because the question is which   *)
(* bytes it finds.                                                         *)
(***************************************************************************)
EXTENDS Integers, Sequences

CONSTANTS
  FileSystems,    \* what may be on the partition
  SectorSizes,    \* what the disk may say its sector size is
  Asked(_),       \* the inode numbers asked for, of a file system
  MaxQueueLen,    \* MAX_GROUP_DESC_QUEUE_LEN
  Word            \* block numbers have halves of 32 bits: 2^32

EXT4_MIN_BLOCK_SIZE == 1024
EXT4_MIN_DESC_SIZE == 32

(* A file system: the fields of its superblock that the plugin looks at, and
   where mkfs put the inode table of each group.  The last group may have fewer
   blocks than the others, but not fewer inodes.  revision 0 is the one whose
   superblock has no inode size; the field is zero. *)
IsFileSystem(f) ==
  /\ f.magic \in BOOLEAN
  /\ f.s_log_block_size \in 0 .. 6
  /\ f.s_first_data_block = (IF f.s_log_block_size = 0 THEN 1 ELSE 0)
  /\ f.has_64bit \in BOOLEAN /\ f.s_desc_size \in {0, 32, 64}
  /\ f.has_64bit => f.s_desc_size = 64
  /\ f.blocks_count \in Nat /\ f.blocks_count > f.s_first_data_block
  /\ ~f.has_64bit => f.blocks_count < Word
  /\ f.s_blocks_per_group \in Nat \ {0} /\ f.s_inodes_per_group \in Nat \ {0}
  /\ f.revision \in {0, 1} /\ f.s_inode_size \in {0, 128, 256}
  /\ LET last == (f.blocks_count - f.s_first_data_block - 1) \div f.s_blocks_per_group
     IN  /\ f.s_inodes_count = f.s_inodes_per_group * (last + 1)
         /\ DOMAIN f.inode_table = 0 .. last
         /\ \A g \in 0 .. last : f.inode_table[g] \in 0 .. f.blocks_count - 1

ASSUME SuperblockAssumption ==
  /\ Word \in Nat \ {0} /\ MaxQueueLen \in Nat \ {0}
  /\ SectorSizes \subseteq Nat \ {0}
  /\ \A f \in FileSystems : IsFileSystem(f) /\ Asked(f) \subseteq 1 .. f.s_inodes_count

VARIABLES
  fs,                 \* the file system on the partition
  sector_size,
  pc,                 \* "superblock", "descriptors", "mounted", "refused" or "undefined"
  ext2,               \* the numbers initialize_from_sb computes
  gr_desc,            \* the group descriptors, from group 0
  inodes_table_cache, \* the cached inode tables, oldest first
  gd_buffer,          \* history: where the descriptors were read, how many bytes
  inode_ptr           \* the last inode number asked for and the pointer returned

vars == <<fs, sector_size, pc, ext2, gr_desc, inodes_table_cache, gd_buffer, inode_ptr>>

-----------------------------------------------------------------------------
(* What mkfs writes *)

EXT4_BLOCK_SIZE(f) == EXT4_MIN_BLOCK_SIZE * 2^f.s_log_block_size

GroupsOnDisk(f) == DOMAIN f.inode_table

InodesOnDisk(f) == 1 .. f.s_inodes_count

DescriptorSize(f) == IF f.has_64bit THEN f.s_desc_size ELSE EXT4_MIN_DESC_SIZE

(* The descriptors follow the block with the superblock. *)
DescriptorPlace(f, g) ==
  (f.s_first_data_block + 1) * EXT4_BLOCK_SIZE(f) + g * DescriptorSize(f)

InodeSize(f) == IF f.revision = 0 THEN 128 ELSE f.s_inode_size

InodePlace(f, n) ==
  LET g == (n - 1) \div f.s_inodes_per_group
      i == (n - 1) % f.s_inodes_per_group
  IN  f.inode_table[g] * EXT4_BLOCK_SIZE(f) + i * InodeSize(f)

(* A descriptor as it is copied into a new ext4_group_desc: the low half of the
   address of its inode table, and the high half, which the copy of a short
   descriptor leaves as it was in memory.  Bytes that are no descriptor give
   the address of a block without an inode table. *)
NoDescriptor == [lo |-> 0, hi |-> 0]
NotCopied == 1

Descriptor(f, g) ==
  [lo |-> f.inode_table[g] % Word,
   hi |-> IF f.has_64bit THEN f.inode_table[g] \div Word ELSE NotCopied]

DescriptorAt(f, place) ==
  IF \E g \in GroupsOnDisk(f) : DescriptorPlace(f, g) = place
  THEN Descriptor(f, CHOOSE g \in GroupsOnDisk(f) : DescriptorPlace(f, g) = place)
  ELSE NoDescriptor

-----------------------------------------------------------------------------
Init ==
  /\ fs \in FileSystems /\ sector_size \in SectorSizes
  /\ pc = "superblock"
  /\ ext2 = "NULL" /\ gr_desc = <<>> /\ inodes_table_cache = <<>>
  /\ gd_buffer = [place |-> 0, size |-> 0]
  /\ inode_ptr = [n |-> 0, place |-> 0, room |-> 0]

(* read_sectors and read_sectors_ex, when they succeed. *)
Sectors(start, n) == [place |-> start * sector_size, size |-> n * sector_size]

(* The superblock is at byte 1024, which is sector 2 when sectors have 512 bytes. *)
SuperblockBuffer == Sectors(2, 2)

block_size_sect == EXT4_BLOCK_SIZE(fs) \div sector_size

(* Seeded fault: descriptors taken as short ones on every file system. *)
DescSize_short == EXT4_MIN_DESC_SIZE

DescSize == IF fs.has_64bit THEN fs.s_desc_size ELSE EXT4_MIN_DESC_SIZE

(* Seeded fault: whole groups only. *)
GroupBlockCount_whole ==
  (((fs.blocks_count % Word) - fs.s_first_data_block) % Word) \div fs.s_blocks_per_group

(* From the low half of the number of blocks, in unsigned arithmetic. *)
GroupBlockCount ==
  (((fs.blocks_count % Word) - fs.s_first_data_block - 1) % Word)
    \div fs.s_blocks_per_group + 1

(* Seeded fault: whole blocks of descriptors only. *)
GdbCount_whole(count, per_block) == count \div per_block

GdbCount(count, per_block) == (count + per_block - 1) \div per_block

initialize_from_sb ==
  LET per_block == EXT4_BLOCK_SIZE(fs) \div DescSize IN
  [s_desc_size |-> DescSize,
   s_desc_per_block |-> per_block,
   s_group_block_count |-> GroupBlockCount,
   s_gdb_count |-> GdbCount(GroupBlockCount, per_block),
   s_inodes_per_block |-> fs.s_inodes_per_group]

(* get_ext2_sb, up to the test of the magic number. *)
ReadSuperblock ==
  /\ pc = "superblock"
  /\ IF SuperblockBuffer.place = 1024 /\ fs.magic
     THEN pc' = "descriptors" /\ ext2' = initialize_from_sb
     ELSE pc' = "refused" /\ UNCHANGED ext2
  /\ UNCHANGED <<fs, sector_size, gr_desc, inodes_table_cache, gd_buffer, inode_ptr>>

(* get_ext2_gr_descriptors and fill_group_descriptor_table *)
ReadDescriptors ==
  LET buffer == Sectors(block_size_sect, ext2.s_gdb_count * block_size_sect) IN
  /\ pc = "descriptors"
  /\ pc' = "mounted"
  /\ gd_buffer' = buffer
  /\ gr_desc' = [i \in 0 .. ext2.s_group_block_count - 1 |->
                   DescriptorAt(fs, buffer.place + i * ext2.s_desc_size)]
  /\ UNCHANGED <<fs, sector_size, ext2, inodes_table_cache, inode_ptr>>

(* A read gives no buffer: ext2 is deleted, but after the first read not set to
   NULL.  DiskScan has what the caller does with it. *)
MountFails ==
  /\ pc \in {"superblock", "descriptors"}
  /\ pc' = "refused"
  /\ ext2' = IF pc = "superblock" THEN "deleted" ELSE "NULL"
  /\ UNCHANGED <<fs, sector_size, gr_desc, inodes_table_cache, gd_buffer, inode_ptr>>

-----------------------------------------------------------------------------
(* get_ext4_inode *)

GroupOf(n) == (n - 1) \div ext2.s_inodes_per_block

(* Seeded fault: the offset in a cached table counted from inode 0. *)
CachedOffset_fromZero(n) == (n % ext2.s_inodes_per_block) * fs.s_inode_size

CachedOffset(n) == ((n - 1) % ext2.s_inodes_per_block) * fs.s_inode_size

Returned(n, buffer, offset) ==
  inode_ptr' = [n |-> n, place |-> buffer.place + offset, room |-> buffer.size - offset]

CachedTables(g) == {k \in DOMAIN inodes_table_cache : inodes_table_cache[k].group = g}

(* The group has no descriptor, and no slot in the cache. *)
GetInodeOutside(n) ==
  /\ GroupOf(n) \notin DOMAIN gr_desc
  /\ pc' = "undefined"
  /\ UNCHANGED <<fs, sector_size, ext2, gr_desc, inodes_table_cache, gd_buffer, inode_ptr>>

GetCachedInode(n) ==
  /\ GroupOf(n) \in DOMAIN gr_desc
  /\ \E k \in CachedTables(GroupOf(n)) :
       Returned(n, inodes_table_cache[k].buffer, CachedOffset(n))
  /\ UNCHANGED <<fs, sector_size, pc, ext2, gr_desc, inodes_table_cache, gd_buffer>>

AfterEviction ==
  IF Len(inodes_table_cache) >= MaxQueueLen THEN Tail(inodes_table_cache)
  ELSE inodes_table_cache

(* The high half counts only where the copy of the descriptor has one. *)
InodeTableBlock(g) ==
  gr_desc[g].lo + (IF fs.has_64bit THEN gr_desc[g].hi * Word ELSE 0)

TableBuffer(g) ==
  Sectors(InodeTableBlock(g) * block_size_sect,
          (fs.s_inode_size * fs.s_inodes_per_group + sector_size - 1) \div sector_size)

InodeOffset(n) == ((n - 1) % fs.s_inodes_per_group) * fs.s_inode_size

ReadInodeTable(n) ==
  LET g == GroupOf(n) IN
  /\ g \in DOMAIN gr_desc /\ CachedTables(g) = {}
  /\ inodes_table_cache' = Append(AfterEviction, [group |-> g, buffer |-> TableBuffer(g)])
  /\ Returned(n, TableBuffer(g), InodeOffset(n))
  /\ UNCHANGED <<fs, sector_size, pc, ext2, gr_desc, gd_buffer>>

(* The oldest table is gone, no pointer is returned. *)
InodeTableUnreadable(n) ==
  /\ GroupOf(n) \in DOMAIN gr_desc /\ CachedTables(GroupOf(n)) = {}
  /\ inodes_table_cache' = AfterEviction
  /\ inode_ptr' = [n |-> 0, place |-> 0, room |-> 0]
  /\ UNCHANGED <<fs, sector_size, pc, ext2, gr_desc, gd_buffer>>

GetInode ==
  /\ pc = "mounted"
  /\ \E n \in Asked(fs) : \/ GetInodeOutside(n)
                          \/ GetCachedInode(n)
                          \/ ReadInodeTable(n)
                          \/ InodeTableUnreadable(n)

Next == ReadSuperblock \/ ReadDescriptors \/ MountFails \/ GetInode

Spec == Init /\ [][Next]_vars

-----------------------------------------------------------------------------
(* Properties *)

(* The layouts the plugin is right about.  The descriptors are looked for in
   the second block, but blocks of 1 KiB keep the superblock there; and
   s_inode_size is used without a look at the revision. *)
Readable == EXT4_BLOCK_SIZE(fs) > EXT4_MIN_BLOCK_SIZE /\ fs.revision > 0

(* fill_group_descriptor_table copies nothing from behind the buffer that
   get_ext2_gr_descriptors has read, though one counts descriptors and the
   other blocks and sectors. *)
DescriptorsInsideBuffer ==
  pc = "mounted" => ext2.s_group_block_count * ext2.s_desc_size <= gd_buffer.size

(* On a mounted file system with a readable layout each group has the descriptor
   that mkfs wrote for it, of either size. *)
DescriptorsAreRight ==
  pc = "mounted" /\ Readable =>
    \A g \in DOMAIN gr_desc : g \in GroupsOnDisk(fs) /\ gr_desc[g] = Descriptor(fs, g)

(* Every inode number of a file system whose size the low half can express has a
   group in the arrays that get_ext4_inode indexes without a test: the number of
   groups is computed from blocks, the group of an inode from inodes. *)
EveryInodeHasDescriptor ==
  fs.blocks_count < Word /\ fs.magic =>
    /\ pc # "undefined"
    /\ pc = "mounted" => \A n \in InodesOnDisk(fs) : GroupOf(n) \in DOMAIN gr_desc

(* The pointer that get_ext4_inode returns, from the cache or from a table just
   read, points to the place where mkfs put the inode, and the whole inode is
   inside the buffer. *)
InodeIsRight ==
  inode_ptr.n # 0 /\ Readable =>
    /\ inode_ptr.place = InodePlace(fs, inode_ptr.n)
    /\ inode_ptr.room >= InodeSize(fs)

=============================================================================
