--------------------------- MODULE Superblock_proofs ---------------------------
(***************************************************************************)
(* From the superblock to the bytes of an inode, for any file system that  *)
(* mkfs writes, any size of its halves of block numbers and any length of  *)
(* the cache.                                                              *)
(*                                                                         *)
(* The argument has two halves.  Once a file system is mounted, sectors    *)
(* have 512 bytes (or there would have been no superblock in sector 2), so *)
(* what is counted in sectors, in blocks and in descriptors can be         *)
(* compared; the rest is arithmetic of quotients.  And what is computed    *)
(* when the file system is mounted stays, so an inode found in the cache   *)
(* is where it would be found in a table just read.                        *)
(***************************************************************************)
EXTENDS Superblock, TLAPS

-----------------------------------------------------------------------------
(* Quotients *)

LEMMA Quotient ==
  ASSUME NEW a \in Nat, NEW d \in Nat \ {0}
  PROVE  /\ a \div d \in Nat /\ a % d \in 0 .. d - 1
         /\ a = d * (a \div d) + (a % d)
  OBVIOUS

LEMMA ProductsOrdered ==
  ASSUME NEW a \in Nat, NEW b \in Nat, NEW d \in Nat
  PROVE  /\ a * d \in Nat
         /\ a <= b => a * d <= b * d
         /\ a < b => a * d + d <= b * d
  OBVIOUS

LEMMA QuotientsOrdered ==
  ASSUME NEW a \in Nat, NEW b \in Nat, NEW d \in Nat \ {0}, a <= b
  PROVE  a \div d <= b \div d
<1> DEFINE p == a \div d
           q == b \div d
<1>1. p \in Nat /\ q \in Nat /\ a % d \in 0 .. d - 1 /\ b % d \in 0 .. d - 1
      /\ a = d * p + (a % d) /\ b = d * q + (b % d)
  BY Quotient
<1> HIDE DEF p, q
<1>2. CASE q < p
  <2>1. q * d + d <= p * d
    BY <1>1, <1>2, ProductsOrdered
  <2>2. q * d = d * q /\ p * d = d * p /\ q * d \in Nat /\ p * d \in Nat
    BY <1>1
  <2>3. b < d * q + d /\ d * p <= a
    BY <1>1, <2>2
  <2> QED BY <1>1, <2>1, <2>2, <2>3
<1>3. p \in Nat /\ q \in Nat
  BY <1>1
<1> QED BY <1>2, <1>3 DEF p, q

(* Rounded up, a quotient has room for the whole. *)
LEMMA RoundedUp ==
  ASSUME NEW a \in Nat, NEW d \in Nat \ {0}
  PROVE  /\ (a + d - 1) \div d \in Nat
         /\ a <= ((a + d - 1) \div d) * d
<1> DEFINE q == (a + d - 1) \div d
<1>1. a + d - 1 \in Nat
  OBVIOUS
<1>2. q \in Nat /\ (a + d - 1) % d \in 0 .. d - 1
      /\ a + d - 1 = d * q + ((a + d - 1) % d)
  BY <1>1, Quotient
<1> HIDE DEF q
<1>3. d * q = q * d /\ q * d \in Nat
  BY <1>2
<1>4. a <= q * d
  BY <1>2, <1>3
<1> QED BY <1>2, <1>4 DEF q

(* Members of equal groups are counted from 1: the group of the n-th. *)
LEMMA GroupOfMember ==
  ASSUME NEW per \in Nat \ {0}, NEW groups \in Nat, NEW n \in 1 .. per * groups
  PROVE  (n - 1) \div per \in 0 .. groups - 1
<1> DEFINE g == (n - 1) \div per
<1>0. per * groups \in Nat
  OBVIOUS
<1>1. n - 1 \in Nat /\ n - 1 < per * groups
  BY <1>0
<1>2. g \in Nat /\ n - 1 = per * g + ((n - 1) % per) /\ (n - 1) % per \in 0 .. per - 1
  BY <1>1, Quotient
<1> HIDE DEF g
<1>3. CASE groups <= g
  <2>1. groups * per <= g * per
    BY <1>2, <1>3, ProductsOrdered
  <2>2. groups * per = per * groups /\ g * per = per * g /\ per * g \in Nat
    BY <1>2
  <2> QED BY <1>0, <1>1, <1>2, <2>1, <2>2
<1>4. g < groups
  BY <1>2, <1>3
<1> QED BY <1>2, <1>4 DEF g

(* What is left of a number of two halves, some of which are subtracted. *)
LEMMA LowHalf ==
  ASSUME NEW w \in Nat \ {0}, NEW b \in Nat, NEW c \in Nat, c <= b
  PROVE  /\ ((b % w) - c) % w \in Nat
         /\ ((b % w) - c) % w <= b - c
         /\ b < w => ((b % w) - c) % w = b - c
<1> DEFINE q == b \div w
           r == ((b % w) - c) % w
           s == ((b % w) - c) \div w
<1>1. q \in Nat /\ b % w \in 0 .. w - 1 /\ b = w * q + (b % w)
  BY Quotient
<1>2. (b % w) - c \in Int
  BY <1>1
<1>3. s \in Int /\ r \in 0 .. w - 1 /\ (b % w) - c = w * s + r
  BY <1>2
<1> HIDE DEF q, r, s
<1>4. b - c = w * (q + s) + r
  <2>1. w * (q + s) = w * q + w * s /\ w * q \in Int /\ w * s \in Int
    BY <1>1, <1>3
  <2> QED BY <1>1, <1>3, <2>1
<1>5. q + s >= 0
  <2>1. CASE q + s < 0
    <3>1. w * (q + s) <= 0 - w /\ w * (q + s) \in Int
      BY <1>1, <1>3, <2>1
    <3>2. r \in 0 .. w - 1
      BY <1>3
    <3>3. b - c < 0
      BY <1>4, <3>1, <3>2
    <3> QED BY <3>3
  <2> QED BY <1>1, <1>3, <2>1
<1>6. w * (q + s) \in Nat
  BY <1>1, <1>3, <1>5
<1>7. r <= b - c
  BY <1>3, <1>4, <1>6
<1>8. ASSUME b < w PROVE r = b - c
  <2>1. CASE q + s >= 1
    <3>1. w * (q + s) >= w
      BY <1>1, <1>3, <2>1
    <3> QED BY <1>3, <1>4, <1>8, <3>1
  <2>2. q + s = 0
    BY <1>1, <1>3, <1>5, <2>1
  <2> QED BY <1>3, <1>4, <2>2
<1> QED BY <1>3, <1>7, <1>8 DEF r

-----------------------------------------------------------------------------
(* What mkfs writes *)

LEMMA OnDisk ==
  ASSUME NEW f \in FileSystems
  PROVE  IsFileSystem(f) /\ Asked(f) \subseteq 1 .. f.s_inodes_count
  BY SuperblockAssumption

LEMMA BlockSizes ==
  ASSUME NEW f \in FileSystems
  PROVE  /\ EXT4_BLOCK_SIZE(f) \in {1024, 2048, 4096, 8192, 16384, 32768, 65536}
         /\ EXT4_BLOCK_SIZE(f) > EXT4_MIN_BLOCK_SIZE => f.s_first_data_block = 0
<1> DEFINE log == f.s_log_block_size
<1>1. log \in 0 .. 6 /\ f.s_first_data_block = (IF log = 0 THEN 1 ELSE 0)
  BY OnDisk DEF IsFileSystem
<1>2. /\ 2^0 = 1 /\ 2^1 = 2 /\ 2^2 = 4 /\ 2^3 = 8
      /\ 2^4 = 16 /\ 2^5 = 32 /\ 2^6 = 64
  OBVIOUS
<1>3. EXT4_BLOCK_SIZE(f) = 1024 * 2^log
  BY DEF EXT4_BLOCK_SIZE, EXT4_MIN_BLOCK_SIZE
<1> HIDE DEF log
<1>4. log \in {0, 1, 2, 3, 4, 5, 6}
  BY <1>1
<1>5. CASE log = 0
  BY <1>2, <1>3, <1>5 DEF EXT4_MIN_BLOCK_SIZE
<1>6. CASE log = 1
  BY <1>1, <1>2, <1>3, <1>6
<1>7. CASE log = 2
  BY <1>1, <1>2, <1>3, <1>7
<1>8. CASE log = 3
  BY <1>1, <1>2, <1>3, <1>8
<1>9. CASE log = 4
  BY <1>1, <1>2, <1>3, <1>9
<1>10. CASE log = 5
  BY <1>1, <1>2, <1>3, <1>10
<1>11. CASE log = 6
  BY <1>1, <1>2, <1>3, <1>11
<1> QED BY <1>4, <1>5, <1>6, <1>7, <1>8, <1>9, <1>10, <1>11

(* Two groups never share the place of their descriptor. *)
LEMMA PlacesDiffer ==
  ASSUME NEW f \in FileSystems, NEW g \in GroupsOnDisk(f), NEW h \in GroupsOnDisk(f),
         DescriptorPlace(f, g) = DescriptorPlace(f, h)
  PROVE  g = h
<1>1. IsFileSystem(f)
  BY OnDisk
<1>2. DescriptorSize(f) = 32 \/ DescriptorSize(f) = 64
  BY <1>1 DEF IsFileSystem, DescriptorSize, EXT4_MIN_DESC_SIZE
<1>3. g \in Nat /\ h \in Nat
  BY <1>1 DEF IsFileSystem, GroupsOnDisk
<1>4. (f.s_first_data_block + 1) * EXT4_BLOCK_SIZE(f) \in Nat
  <2>1. EXT4_BLOCK_SIZE(f) \in Nat
    BY BlockSizes
  <2>2. f.s_first_data_block = 0 \/ f.s_first_data_block = 1
    BY <1>1 DEF IsFileSystem
  <2> DEFINE size == EXT4_BLOCK_SIZE(f)
  <2> HIDE DEF size
  <2>3. (f.s_first_data_block + 1) * size \in Nat
    BY <2>1, <2>2 DEF size
  <2> QED BY <2>3 DEF size
<1> DEFINE base == (f.s_first_data_block + 1) * EXT4_BLOCK_SIZE(f)
<1>5. base + g * DescriptorSize(f) = base + h * DescriptorSize(f)
  BY DEF DescriptorPlace
<1> HIDE DEF base
<1>6. base \in Nat
  BY <1>4 DEF base
<1>7. CASE DescriptorSize(f) = 32
  BY <1>3, <1>5, <1>6, <1>7
<1>8. CASE DescriptorSize(f) = 64
  BY <1>3, <1>5, <1>6, <1>8
<1> QED BY <1>2, <1>7, <1>8

LEMMA DescriptorFound ==
  ASSUME NEW f \in FileSystems, NEW g \in GroupsOnDisk(f)
  PROVE  DescriptorAt(f, DescriptorPlace(f, g)) = Descriptor(f, g)
<1> DEFINE h == CHOOSE h \in GroupsOnDisk(f) : DescriptorPlace(f, h) = DescriptorPlace(f, g)
<1>1. h \in GroupsOnDisk(f) /\ DescriptorPlace(f, h) = DescriptorPlace(f, g)
  OBVIOUS
<1>2. h = g
  BY <1>1, PlacesDiffer
<1>3. DescriptorAt(f, DescriptorPlace(f, g)) = Descriptor(f, h)
  BY DEF DescriptorAt
<1> QED BY <1>2, <1>3

-----------------------------------------------------------------------------
(* What is known of a file system that is being mounted *)

(* The file system is one of those above, in sectors of 512 bytes. *)
Recognised == fs \in FileSystems /\ sector_size = 512 /\ ext2 = initialize_from_sb

LEMMA Counts ==
  ASSUME Recognised
  PROVE  /\ ext2.s_desc_size = DescriptorSize(fs) /\ ext2.s_desc_size \in {32, 64}
         /\ ext2.s_group_block_count = GroupBlockCount
         /\ ext2.s_gdb_count = GdbCount(GroupBlockCount, EXT4_BLOCK_SIZE(fs) \div ext2.s_desc_size)
         /\ ext2.s_inodes_per_block = fs.s_inodes_per_group
         /\ block_size_sect \in Nat \ {0} /\ block_size_sect * 512 = EXT4_BLOCK_SIZE(fs)
<1>1. IsFileSystem(fs)
  BY OnDisk DEF Recognised
<1>2. DescSize = DescriptorSize(fs) /\ DescSize \in {32, 64}
  BY <1>1 DEF IsFileSystem, DescSize, DescriptorSize, EXT4_MIN_DESC_SIZE
<1>3. block_size_sect \in Nat \ {0} /\ block_size_sect * 512 = EXT4_BLOCK_SIZE(fs)
  BY BlockSizes DEF Recognised, block_size_sect
<1> QED BY <1>2, <1>3 DEF Recognised, initialize_from_sb

(* The number of groups: never more than there are, and all of them when the *)
(* low half has the whole number of blocks.                                  *)
LEMMA GroupCount ==
  ASSUME fs \in FileSystems
  PROVE  /\ GroupBlockCount \in Nat
         /\ 0 .. GroupBlockCount - 1 \subseteq GroupsOnDisk(fs)
         /\ fs.blocks_count < Word => 0 .. GroupBlockCount - 1 = GroupsOnDisk(fs)
<1> DEFINE b == fs.blocks_count
           c == fs.s_first_data_block + 1
           left == ((b % Word) - c) % Word
           per == fs.s_blocks_per_group
<1>1. /\ Word \in Nat \ {0} /\ b \in Nat /\ c \in Nat /\ c <= b
      /\ per \in Nat \ {0}
      /\ GroupsOnDisk(fs) = 0 .. (b - c) \div per
  <2>1. Word \in Nat \ {0} /\ IsFileSystem(fs)
    BY SuperblockAssumption
  <2>2. fs.s_first_data_block \in Nat /\ b \in Nat /\ b > fs.s_first_data_block
    BY <2>1 DEF IsFileSystem
  <2>3. b - fs.s_first_data_block - 1 = b - c
    BY <2>2
  <2> QED BY <2>1, <2>2, <2>3 DEF IsFileSystem, GroupsOnDisk
<1>2. GroupBlockCount = left \div per + 1
  <2>1. b % Word \in Nat /\ fs.s_first_data_block \in Nat
    BY <1>1, SuperblockAssumption DEF IsFileSystem
  <2>2. (b % Word) - fs.s_first_data_block - 1 = (b % Word) - c
    BY <2>1
  <2> QED BY <2>2 DEF GroupBlockCount
<1>3. left \in Nat /\ left <= b - c /\ (b < Word => left = b - c)
  BY <1>1, LowHalf
<1>4. b - c \in Nat
  BY <1>1
<1> HIDE DEF left, per, c, b
<1>5. left \div per \in Nat /\ (b - c) \div per \in Nat
  BY <1>1, <1>3, <1>4
<1>6. left \div per <= (b - c) \div per
  BY <1>1, <1>3, <1>4, QuotientsOrdered
<1>7. b < Word => left \div per = (b - c) \div per
  BY <1>3
<1>8. GroupBlockCount \in Nat /\ GroupBlockCount - 1 = left \div per
  BY <1>2, <1>5
<1> QED BY <1>1, <1>5, <1>6, <1>7, <1>8 DEF b

-----------------------------------------------------------------------------
(* The inductive invariant *)

(* A table as the cache has it. *)
CachedTable == {[group |-> g, buffer |-> TableBuffer(g)] : g \in DOMAIN gr_desc}

(* The pointer to inode n in the table of its group. *)
InodePtr(n) ==
  [n |-> n,
   place |-> TableBuffer(GroupOf(n)).place + InodeOffset(n),
   room |-> TableBuffer(GroupOf(n)).size - InodeOffset(n)]

DescriptorsRead ==
  /\ gd_buffer = Sectors(block_size_sect, ext2.s_gdb_count * block_size_sect)
  /\ gr_desc = [i \in 0 .. ext2.s_group_block_count - 1 |->
                  DescriptorAt(fs, gd_buffer.place + i * ext2.s_desc_size)]

Mounted == pc \in {"mounted", "undefined"}

IInv ==
  /\ fs \in FileSystems /\ sector_size \in SectorSizes
  /\ pc \in {"superblock", "descriptors", "mounted", "refused", "undefined"}
  /\ pc = "descriptors" \/ Mounted => Recognised /\ fs.magic
  /\ Mounted => DescriptorsRead
  /\ ~Mounted => inodes_table_cache = <<>> /\ inode_ptr.n = 0
  /\ inodes_table_cache \in Seq(CachedTable)
  /\ inode_ptr.n = 0 \/ \E n \in Asked(fs) : GroupOf(n) \in DOMAIN gr_desc /\ inode_ptr = InodePtr(n)
  /\ fs.blocks_count < Word => pc # "undefined"

LEMMA EmptyCache == \A S : <<>> \in Seq(S)
  OBVIOUS

LEMMA InitIInv == Init => IInv
<1> SUFFICES ASSUME Init PROVE IInv
  OBVIOUS
<1>1. pc = "superblock" /\ ~Mounted
  BY DEF Init, Mounted
<1>2. inodes_table_cache \in Seq(CachedTable)
  BY EmptyCache DEF Init
<1> QED BY <1>1, <1>2 DEF Init, IInv

LEMMA ReadSuperblockInv ==
  ASSUME IInv, ReadSuperblock
  PROVE  IInv'
<1>1. pc = "superblock" /\ ~Mounted
  BY DEF ReadSuperblock, Mounted
<1>2. UNCHANGED <<fs, sector_size, gr_desc, inodes_table_cache, gd_buffer, inode_ptr>>
  BY DEF ReadSuperblock
<1>3. pc' \in {"descriptors", "refused"}
  BY DEF ReadSuperblock
<1>4. ~Mounted'
  BY <1>3 DEF Mounted
<1>5. pc' = "descriptors" => Recognised' /\ fs'.magic
  <2> SUFFICES ASSUME pc' = "descriptors" PROVE Recognised' /\ fs'.magic
    OBVIOUS
  <2>1. SuperblockBuffer.place = 1024 /\ fs.magic /\ ext2' = initialize_from_sb
    BY DEF ReadSuperblock
  <2>2. sector_size \in Nat
    BY SuperblockAssumption DEF IInv
  <2>3. sector_size = 512
    BY <2>1, <2>2 DEF SuperblockBuffer, Sectors
  <2>4. initialize_from_sb' = initialize_from_sb
    BY <1>2 DEF initialize_from_sb, DescSize, GroupBlockCount, GdbCount, EXT4_BLOCK_SIZE
  <2> QED BY <1>2, <2>1, <2>3, <2>4 DEF IInv, Recognised
<1>6. inodes_table_cache' = <<>> /\ inode_ptr'.n = 0
  BY <1>1, <1>2 DEF IInv
<1>7. inodes_table_cache' \in Seq(CachedTable')
  BY <1>6, EmptyCache
<1> QED BY <1>2, <1>3, <1>4, <1>5, <1>6, <1>7 DEF IInv

LEMMA ReadDescriptorsInv ==
  ASSUME IInv, ReadDescriptors
  PROVE  IInv'
<1>1. pc = "descriptors" /\ pc' = "mounted" /\ ~Mounted /\ Mounted'
  BY DEF ReadDescriptors, Mounted
<1>2. UNCHANGED <<fs, sector_size, ext2, inodes_table_cache, inode_ptr>>
  BY DEF ReadDescriptors
<1>3. Recognised' /\ fs'.magic
  <2>1. initialize_from_sb' = initialize_from_sb
    BY <1>2 DEF initialize_from_sb, DescSize, GroupBlockCount, GdbCount, EXT4_BLOCK_SIZE
  <2> QED BY <1>1, <1>2, <2>1 DEF IInv, Recognised
<1>4. DescriptorsRead'
  <2>1. block_size_sect' = block_size_sect
    BY <1>2 DEF block_size_sect, EXT4_BLOCK_SIZE
  <2>2. gd_buffer' = Sectors(block_size_sect, ext2.s_gdb_count * block_size_sect)
    BY DEF ReadDescriptors
  <2>3. gr_desc' = [i \in 0 .. ext2.s_group_block_count - 1 |->
                     DescriptorAt(fs, gd_buffer'.place + i * ext2.s_desc_size)]
    BY DEF ReadDescriptors
  <2>4. Sectors(block_size_sect, ext2.s_gdb_count * block_size_sect)'
          = Sectors(block_size_sect, ext2.s_gdb_count * block_size_sect)
    BY <1>2, <2>1 DEF Sectors
  <2>5. (gr_desc = [i \in 0 .. ext2.s_group_block_count - 1 |->
                     DescriptorAt(fs, gd_buffer.place + i * ext2.s_desc_size)])'
    BY <1>2, <2>3
  <2> QED BY <2>2, <2>4, <2>5 DEF DescriptorsRead
<1>5. inodes_table_cache' = <<>> /\ inode_ptr'.n = 0
  BY <1>1, <1>2 DEF IInv
<1>6. inodes_table_cache' \in Seq(CachedTable')
  BY <1>5, EmptyCache
<1> QED BY <1>1, <1>2, <1>3, <1>4, <1>5, <1>6 DEF IInv

LEMMA MountFailsInv ==
  ASSUME IInv, MountFails
  PROVE  IInv'
<1>1. ~Mounted /\ pc' = "refused" /\ ~Mounted'
  BY DEF MountFails, Mounted
<1>2. UNCHANGED <<fs, sector_size, gr_desc, inodes_table_cache, gd_buffer, inode_ptr>>
  BY DEF MountFails
<1>3. inodes_table_cache' = <<>> /\ inode_ptr'.n = 0
  BY <1>1, <1>2 DEF IInv
<1>4. inodes_table_cache' \in Seq(CachedTable')
  BY <1>3, EmptyCache
<1> QED BY <1>1, <1>2, <1>3, <1>4 DEF IInv

-----------------------------------------------------------------------------
(* Inodes *)

(* What a call of get_ext4_inode works with stays. *)
Fixed == UNCHANGED <<fs, sector_size, ext2, gr_desc, gd_buffer>>

LEMMA FixedFacts ==
  ASSUME IInv, pc = "mounted", Fixed, pc' \in {"mounted", "undefined"}
  PROVE  /\ Mounted' /\ Recognised' /\ fs'.magic /\ DescriptorsRead'
         /\ CachedTable' = CachedTable
         /\ \A n : GroupOf(n)' = GroupOf(n) /\ InodePtr(n)' = InodePtr(n)
<1> USE DEF Fixed
<1>1. Mounted /\ Mounted'
  BY DEF Mounted
<1>2. Recognised /\ fs.magic /\ DescriptorsRead
  BY <1>1 DEF IInv
<1>3. initialize_from_sb' = initialize_from_sb
  BY DEF initialize_from_sb, DescSize, GroupBlockCount, GdbCount, EXT4_BLOCK_SIZE
<1>4. block_size_sect' = block_size_sect
  BY DEF block_size_sect, EXT4_BLOCK_SIZE
<1>5. Recognised' /\ fs'.magic
  BY <1>2, <1>3 DEF Recognised
<1>6. DescriptorsRead'
  BY <1>2, <1>4 DEF DescriptorsRead, Sectors
<1>7. \A g : TableBuffer(g)' = TableBuffer(g)
  BY <1>4 DEF TableBuffer, Sectors, InodeTableBlock
<1>8. CachedTable' = CachedTable
  BY <1>7 DEF CachedTable
<1>9. \A n : GroupOf(n)' = GroupOf(n) /\ InodeOffset(n)' = InodeOffset(n)
  BY DEF GroupOf, InodeOffset
<1>10. \A n : InodePtr(n)' = InodePtr(n)
  BY <1>7, <1>9 DEF InodePtr
<1> QED BY <1>1, <1>5, <1>6, <1>8, <1>9, <1>10

(* The number of groups is computed from blocks, the group of an inode from *)
(* inodes: they agree while the low half has the whole number of blocks.    *)
LEMMA EveryGroup ==
  ASSUME IInv, Mounted, fs.blocks_count < Word, NEW n \in InodesOnDisk(fs)
  PROVE  GroupOf(n) \in DOMAIN gr_desc
<1>1. Recognised /\ DescriptorsRead
  BY DEF IInv
<1>2. DOMAIN gr_desc = 0 .. GroupBlockCount - 1
  BY <1>1, Counts DEF DescriptorsRead
<1>3. DOMAIN gr_desc = GroupsOnDisk(fs)
  BY <1>1, <1>2, GroupCount DEF Recognised
<1> DEFINE last == (fs.blocks_count - fs.s_first_data_block - 1) \div fs.s_blocks_per_group
           per == fs.s_inodes_per_group
<1>4. GroupsOnDisk(fs) = 0 .. last /\ per \in Nat \ {0} /\ fs.s_inodes_count = per * (last + 1)
  BY <1>1, OnDisk DEF Recognised, IsFileSystem, GroupsOnDisk
<1>5. last \in Nat
  <2>1. IsFileSystem(fs)
    BY <1>1, OnDisk DEF Recognised
  <2>2. /\ fs.blocks_count - fs.s_first_data_block - 1 \in Nat
        /\ fs.s_blocks_per_group \in Nat \ {0}
    BY <2>1 DEF IsFileSystem
  <2> QED BY <2>2, Quotient
<1>6. n \in 1 .. per * (last + 1)
  BY <1>4 DEF InodesOnDisk
<1> HIDE DEF last, per
<1>7. (n - 1) \div per \in 0 .. (last + 1) - 1
  BY <1>4, <1>5, <1>6, GroupOfMember
<1>8. GroupOf(n) = (n - 1) \div per
  BY <1>1, Counts DEF GroupOf, per
<1> QED BY <1>3, <1>4, <1>5, <1>7, <1>8

LEMMA GetInodeOutsideInv ==
  ASSUME IInv, pc = "mounted", NEW n \in Asked(fs), GetInodeOutside(n)
  PROVE  IInv'
<1>1. Fixed /\ UNCHANGED <<inodes_table_cache, inode_ptr>> /\ pc' = "undefined"
  BY DEF GetInodeOutside, Fixed
<1>2. ~ fs.blocks_count < Word
  <2>1. n \in InodesOnDisk(fs) /\ Mounted
    BY OnDisk DEF IInv, InodesOnDisk, Mounted
  <2> QED BY <2>1, EveryGroup DEF GetInodeOutside
<1>3. /\ Mounted' /\ Recognised' /\ fs'.magic /\ DescriptorsRead'
      /\ CachedTable' = CachedTable
      /\ \A k : GroupOf(k)' = GroupOf(k) /\ InodePtr(k)' = InodePtr(k)
  BY <1>1, FixedFacts
<1>4. inodes_table_cache' \in Seq(CachedTable')
  BY <1>1, <1>3 DEF IInv
<1>5. (inode_ptr.n = 0 \/ \E k \in Asked(fs) : GroupOf(k) \in DOMAIN gr_desc /\ inode_ptr = InodePtr(k))'
  BY <1>1, <1>3 DEF IInv, Fixed
<1> QED BY <1>1, <1>2, <1>3, <1>4, <1>5 DEF IInv, Fixed

(* The pointer found in the cache or in a table just read is that of the inode. *)
LEMMA ReturnedPtr ==
  ASSUME IInv, pc = "mounted", NEW n \in Asked(fs),
         GroupOf(n) \in DOMAIN gr_desc, Fixed, pc' = pc,
         inodes_table_cache' \in Seq(CachedTable),
         inode_ptr' = InodePtr(n) \/ inode_ptr'.n = 0
  PROVE  IInv'
<1>1. /\ Mounted' /\ Recognised' /\ fs'.magic /\ DescriptorsRead'
      /\ CachedTable' = CachedTable
      /\ \A k : GroupOf(k)' = GroupOf(k) /\ InodePtr(k)' = InodePtr(k)
  BY FixedFacts
<1>2. (inode_ptr.n = 0 \/ \E k \in Asked(fs) : GroupOf(k) \in DOMAIN gr_desc /\ inode_ptr = InodePtr(k))'
  BY <1>1 DEF Fixed
<1>3. inodes_table_cache' \in Seq(CachedTable')
  BY <1>1
<1> QED BY <1>1, <1>2, <1>3 DEF IInv, Fixed

LEMMA GetCachedInodeInv ==
  ASSUME IInv, pc = "mounted", NEW n \in Asked(fs), GetCachedInode(n)
  PROVE  IInv'
<1>1. Fixed /\ pc' = pc /\ inodes_table_cache' = inodes_table_cache /\ GroupOf(n) \in DOMAIN gr_desc
  BY DEF GetCachedInode, Fixed
<1>2. inodes_table_cache \in Seq(CachedTable)
  BY DEF IInv
<1>3. PICK k \in CachedTables(GroupOf(n)) :
        Returned(n, inodes_table_cache[k].buffer, CachedOffset(n))
  BY DEF GetCachedInode
<1>4. k \in DOMAIN inodes_table_cache /\ inodes_table_cache[k].group = GroupOf(n)
  BY <1>3 DEF CachedTables
<1>5. inodes_table_cache[k] \in CachedTable
  BY <1>2, <1>4
<1>6. inodes_table_cache[k].buffer = TableBuffer(GroupOf(n))
  BY <1>4, <1>5 DEF CachedTable
<1>7. CachedOffset(n) = InodeOffset(n)
  BY Counts DEF CachedOffset, InodeOffset, IInv, Mounted
<1>8. inode_ptr' = InodePtr(n)
  BY <1>3, <1>6, <1>7 DEF Returned, InodePtr
<1> QED BY <1>1, <1>2, <1>8, ReturnedPtr

LEMMA EvictionKeeps ==
  ASSUME IInv
  PROVE  AfterEviction \in Seq(CachedTable)
<1>1. inodes_table_cache \in Seq(CachedTable)
  BY DEF IInv
<1>2. MaxQueueLen \in Nat \ {0}
  BY SuperblockAssumption
<1>3. CASE Len(inodes_table_cache) >= MaxQueueLen
  <2>1. inodes_table_cache # <<>>
    BY <1>1, <1>2, <1>3
  <2>2. Tail(inodes_table_cache) \in Seq(CachedTable)
    BY <1>1, <2>1
  <2> QED BY <1>3, <2>2 DEF AfterEviction
<1> QED BY <1>1, <1>3 DEF AfterEviction

LEMMA ReadInodeTableInv ==
  ASSUME IInv, pc = "mounted", NEW n \in Asked(fs), ReadInodeTable(n)
  PROVE  IInv'
<1>1. Fixed /\ pc' = pc /\ GroupOf(n) \in DOMAIN gr_desc
  BY DEF ReadInodeTable, Fixed
<1> DEFINE table == [group |-> GroupOf(n), buffer |-> TableBuffer(GroupOf(n))]
<1>2. table \in CachedTable
  BY <1>1 DEF CachedTable
<1>3. inodes_table_cache' = Append(AfterEviction, table)
  BY DEF ReadInodeTable
<1> HIDE DEF table
<1>4. inodes_table_cache' \in Seq(CachedTable)
  BY <1>2, <1>3, EvictionKeeps
<1>5. inode_ptr' = InodePtr(n)
  BY DEF ReadInodeTable, Returned, InodePtr
<1> QED BY <1>1, <1>4, <1>5, ReturnedPtr

LEMMA InodeTableUnreadableInv ==
  ASSUME IInv, pc = "mounted", NEW n \in Asked(fs), InodeTableUnreadable(n)
  PROVE  IInv'
<1>1. Fixed /\ pc' = pc /\ GroupOf(n) \in DOMAIN gr_desc
  BY DEF InodeTableUnreadable, Fixed
<1>2. inodes_table_cache' \in Seq(CachedTable)
  BY EvictionKeeps DEF InodeTableUnreadable
<1>3. inode_ptr'.n = 0
  BY DEF InodeTableUnreadable
<1> QED BY <1>1, <1>2, <1>3, ReturnedPtr

LEMMA StutterInv ==
  ASSUME IInv, UNCHANGED vars
  PROVE  IInv'
  BY DEF IInv, vars, Mounted, Recognised, DescriptorsRead, CachedTable, InodePtr,
         initialize_from_sb, DescSize, GroupBlockCount, GdbCount, EXT4_BLOCK_SIZE,
         block_size_sect, Sectors, TableBuffer, InodeTableBlock, GroupOf, InodeOffset

LEMMA NextIInv == IInv /\ [Next]_vars => IInv'
<1> SUFFICES ASSUME IInv, [Next]_vars PROVE IInv'
  OBVIOUS
<1>1. CASE ReadSuperblock
  BY <1>1, ReadSuperblockInv
<1>2. CASE ReadDescriptors
  BY <1>2, ReadDescriptorsInv
<1>3. CASE MountFails
  BY <1>3, MountFailsInv
<1>4. CASE GetInode
  <2>1. pc = "mounted"
    BY <1>4 DEF GetInode
  <2>2. PICK n \in Asked(fs) : \/ GetInodeOutside(n) \/ GetCachedInode(n)
                               \/ ReadInodeTable(n) \/ InodeTableUnreadable(n)
    BY <1>4 DEF GetInode
  <2> QED BY <2>1, <2>2, GetInodeOutsideInv, GetCachedInodeInv, ReadInodeTableInv,
             InodeTableUnreadableInv
<1>5. CASE UNCHANGED vars
  BY <1>5, StutterInv
<1> QED BY <1>1, <1>2, <1>3, <1>4, <1>5 DEF Next

(* What was computed when the file system was mounted stays, and the cache   *)
(* has only tables from the places that follow from it.                      *)
THEOREM InductiveInvariant == Spec => []IInv
<1> QED BY InitIInv, NextIInv, PTL DEF Spec

-----------------------------------------------------------------------------
(* What it shows *)

(* The blocks of descriptors that are read, in bytes. *)
LEMMA BufferSize ==
  ASSUME Recognised, DescriptorsRead
  PROVE  /\ gd_buffer.place = EXT4_BLOCK_SIZE(fs)
         /\ gd_buffer.size = ext2.s_gdb_count * EXT4_BLOCK_SIZE(fs)
         /\ ext2.s_gdb_count \in Nat
         /\ ext2.s_group_block_count
              <= ext2.s_gdb_count * (EXT4_BLOCK_SIZE(fs) \div ext2.s_desc_size)
<1> DEFINE per == EXT4_BLOCK_SIZE(fs) \div ext2.s_desc_size
           gdb == ext2.s_gdb_count
<1>1. per \in Nat \ {0}
  BY BlockSizes, Counts DEF Recognised
<1>2. GroupBlockCount \in Nat /\ ext2.s_group_block_count = GroupBlockCount
  BY Counts, GroupCount DEF Recognised
<1>3. gdb = (GroupBlockCount + per - 1) \div per
  BY Counts DEF GdbCount
<1> HIDE DEF per, gdb
<1>4. gdb \in Nat /\ GroupBlockCount <= gdb * per
  BY <1>1, <1>2, <1>3, RoundedUp
<1> DEFINE bss == block_size_sect
<1>5. bss \in Nat /\ bss * 512 = EXT4_BLOCK_SIZE(fs)
  BY Counts
<1>6. gd_buffer = Sectors(bss, gdb * bss) /\ sector_size = 512
  BY DEF Recognised, DescriptorsRead, gdb
<1> HIDE DEF bss
<1>7. gd_buffer.place = bss * 512 /\ gd_buffer.size = (gdb * bss) * 512
  BY <1>6 DEF Sectors
<1>8. (gdb * bss) * 512 = gdb * (bss * 512)
  BY <1>4, <1>5
<1> QED BY <1>2, <1>4, <1>5, <1>7, <1>8 DEF gdb, per

LEMMA InsideBuffer == IInv => DescriptorsInsideBuffer
<1> SUFFICES ASSUME IInv, pc = "mounted"
             PROVE  ext2.s_group_block_count * ext2.s_desc_size <= gd_buffer.size
  BY DEF DescriptorsInsideBuffer
<1>1. Recognised /\ DescriptorsRead
  BY DEF IInv, Mounted
<1> DEFINE per == EXT4_BLOCK_SIZE(fs) \div ext2.s_desc_size
           count == ext2.s_group_block_count
           gdb == ext2.s_gdb_count
           desc == ext2.s_desc_size
<1>2. per \in Nat /\ desc \in Nat /\ per * desc = EXT4_BLOCK_SIZE(fs)
  BY <1>1, BlockSizes, Counts DEF Recognised
<1>3. count \in Nat
  BY <1>1, Counts, GroupCount DEF Recognised
<1>4. gdb \in Nat /\ count <= gdb * per /\ gd_buffer.size = gdb * EXT4_BLOCK_SIZE(fs)
  BY <1>1, BufferSize
<1> HIDE DEF per, count, gdb, desc
<1>5. gdb * per \in Nat
  BY <1>2, <1>4
<1>6. count * desc <= (gdb * per) * desc
  BY <1>2, <1>3, <1>4, <1>5, ProductsOrdered
<1>7. (gdb * per) * desc = gdb * (per * desc)
  BY <1>2, <1>4
<1> QED BY <1>2, <1>4, <1>6, <1>7 DEF count, desc

LEMMA DescriptorsRight ==
  ASSUME IInv, Mounted, Readable
  PROVE  \A g \in DOMAIN gr_desc : g \in GroupsOnDisk(fs) /\ gr_desc[g] = Descriptor(fs, g)
<1>1. Recognised /\ DescriptorsRead
  BY DEF IInv
<1> SUFFICES ASSUME NEW g \in DOMAIN gr_desc
             PROVE  g \in GroupsOnDisk(fs) /\ gr_desc[g] = Descriptor(fs, g)
  OBVIOUS
<1>2. g \in 0 .. GroupBlockCount - 1
  BY <1>1, Counts DEF DescriptorsRead
<1>3. g \in GroupsOnDisk(fs)
  BY <1>1, <1>2, GroupCount DEF Recognised
<1>4. gr_desc[g] = DescriptorAt(fs, gd_buffer.place + g * ext2.s_desc_size)
  BY <1>1, <1>2, Counts DEF DescriptorsRead
<1>5. DescriptorPlace(fs, g) = gd_buffer.place + g * ext2.s_desc_size
  <2>1. fs.s_first_data_block = 0 /\ EXT4_BLOCK_SIZE(fs) \in Nat
    BY <1>1, BlockSizes DEF Readable, Recognised
  <2>2. (fs.s_first_data_block + 1) * EXT4_BLOCK_SIZE(fs) = EXT4_BLOCK_SIZE(fs)
    BY <2>1
  <2> QED BY <1>1, <2>2, BufferSize, Counts DEF DescriptorPlace
<1> QED BY <1>1, <1>3, <1>4, <1>5, DescriptorFound DEF Recognised

(* Both halves of the address of an inode table together are the address. *)
LEMMA TableBlock ==
  ASSUME NEW g \in GroupsOnDisk(fs), fs \in FileSystems, gr_desc[g] = Descriptor(fs, g)
  PROVE  InodeTableBlock(g) = fs.inode_table[g] /\ fs.inode_table[g] \in Nat
<1> DEFINE t == fs.inode_table[g]
<1>1. /\ t \in Nat /\ t < fs.blocks_count /\ fs.blocks_count \in Nat
      /\ Word \in Nat \ {0} /\ fs.has_64bit \in BOOLEAN
      /\ ~fs.has_64bit => fs.blocks_count < Word
  <2>1. IsFileSystem(fs) /\ Word \in Nat \ {0}
    BY SuperblockAssumption
  <2>2. t \in 0 .. fs.blocks_count - 1 /\ fs.blocks_count \in Nat
    BY <2>1 DEF IsFileSystem, GroupsOnDisk
  <2>3. fs.has_64bit \in BOOLEAN /\ (~fs.has_64bit => fs.blocks_count < Word)
    BY <2>1 DEF IsFileSystem
  <2> QED BY <2>1, <2>2, <2>3
<1>2. gr_desc[g].lo = t % Word
  BY DEF Descriptor
<1>3. fs.has_64bit => gr_desc[g].hi = t \div Word
  BY DEF Descriptor
<1> HIDE DEF t
<1>4. t \div Word \in Nat /\ t % Word \in Nat /\ t = Word * (t \div Word) + (t % Word)
  <2>1. t \in Nat /\ Word \in Nat \ {0}
    BY <1>1
  <2> QED BY <2>1, Quotient
<1>5. CASE fs.has_64bit
  <2>1. InodeTableBlock(g) = (t % Word) + (t \div Word) * Word
    BY <1>2, <1>3, <1>5 DEF InodeTableBlock
  <2>2. (t \div Word) * Word = Word * (t \div Word) /\ Word * (t \div Word) \in Nat
    BY <1>1, <1>4
  <2> QED BY <1>1, <1>4, <2>1, <2>2 DEF t
<1>6. CASE ~fs.has_64bit
  <2>1. t < Word
    BY <1>1, <1>6
  <2>2. t % Word = t
    BY <1>1, <2>1
  <2>3. InodeTableBlock(g) = (t % Word) + 0
    BY <1>2, <1>6 DEF InodeTableBlock
  <2> QED BY <1>1, <2>2, <2>3 DEF t
<1> QED BY <1>5, <1>6

LEMMA InodeRight == IInv => InodeIsRight
<1> SUFFICES ASSUME IInv, inode_ptr.n # 0, Readable
             PROVE  /\ inode_ptr.place = InodePlace(fs, inode_ptr.n)
                    /\ inode_ptr.room >= InodeSize(fs)
  BY DEF InodeIsRight
<1>1. Mounted /\ Recognised /\ DescriptorsRead
  BY DEF IInv
<1>2. PICK n \in Asked(fs) : GroupOf(n) \in DOMAIN gr_desc /\ inode_ptr = InodePtr(n)
  BY DEF IInv
<1> DEFINE g == GroupOf(n)
           per == fs.s_inodes_per_group
           i == (n - 1) % per
           size == fs.s_inode_size
           table == fs.inode_table[g]
           bss == block_size_sect
<1>3. IsFileSystem(fs) /\ n \in 1 .. fs.s_inodes_count
  BY <1>1, OnDisk DEF Recognised
<1>4. per \in Nat \ {0} /\ size \in Nat /\ n - 1 \in Nat
  BY <1>3 DEF IsFileSystem
<1>5. g \in GroupsOnDisk(fs) /\ InodeTableBlock(g) = table /\ table \in Nat
  BY <1>1, <1>2, DescriptorsRight, TableBlock DEF Recognised
<1>6. bss \in Nat /\ bss * 512 = EXT4_BLOCK_SIZE(fs) /\ sector_size = 512
  BY <1>1, Counts DEF Recognised
<1>7. InodePlace(fs, n) = table * EXT4_BLOCK_SIZE(fs) + i * size
  <2>1. InodeSize(fs) = size
    BY <1>3 DEF InodeSize, Readable, IsFileSystem
  <2>2. g = (n - 1) \div per
    BY <1>1, Counts DEF GroupOf
  <2> QED BY <2>1, <2>2 DEF InodePlace
<1>8. InodeOffset(n) = i * size
  BY DEF InodeOffset
<1>9. /\ TableBuffer(g).place = (table * bss) * 512
      /\ TableBuffer(g).size = ((size * per + 512 - 1) \div 512) * 512
  BY <1>5, <1>6 DEF TableBuffer, Sectors
<1>10. inode_ptr.n = n /\ inode_ptr.place = TableBuffer(g).place + i * size
       /\ inode_ptr.room = TableBuffer(g).size - i * size
  BY <1>2, <1>8 DEF InodePtr
<1>11. InodeSize(fs) = size
  BY <1>3 DEF InodeSize, Readable, IsFileSystem
<1>12. i \in Nat /\ i < per
  <2>1. (n - 1) % per \in 0 .. per - 1
    BY <1>4, Quotient
  <2> QED BY <1>4, <2>1
<1> HIDE DEF g, i, per, size, table, bss
<1>13. (table * bss) * 512 = table * (bss * 512)
  BY <1>5, <1>6
<1>14. inode_ptr.place = InodePlace(fs, n)
  BY <1>6, <1>7, <1>9, <1>10, <1>13
<1>15. inode_ptr.room >= size
  <2>1. i * size + size <= per * size /\ i * size \in Nat
    BY <1>4, <1>12, ProductsOrdered
  <2>2. per * size = size * per /\ size * per \in Nat
    BY <1>4
  <2>3. (size * per + 512 - 1) \div 512 \in Nat
        /\ size * per <= ((size * per + 512 - 1) \div 512) * 512
    BY <2>2, RoundedUp
  <2> QED BY <1>4, <1>9, <1>10, <2>1, <2>2, <2>3
<1> QED BY <1>10, <1>11, <1>14, <1>15

-----------------------------------------------------------------------------
(* No descriptor is copied from behind the buffer that was read, on any      *)
(* file system: the blocks to read are counted with the same descriptors     *)
(* that are copied.                                                          *)
THEOREM DescriptorsInBounds == Spec => []DescriptorsInsideBuffer
<1> QED BY InsideBuffer, InductiveInvariant, PTL

(* Where blocks are larger than 1 KiB each group the plugin knows has the    *)
(* descriptor mkfs wrote for it, whatever the size of descriptors.           *)
THEOREM DescriptorsFound == Spec => []DescriptorsAreRight
<1>1. IInv => DescriptorsAreRight
  BY DescriptorsRight DEF DescriptorsAreRight, Mounted
<1> QED BY <1>1, InductiveInvariant, PTL

(* get_ext4_inode never leaves its arrays on a file system whose number of   *)
(* blocks the low half can express.                                          *)
THEOREM InodesHaveDescriptors == Spec => []EveryInodeHasDescriptor
<1>1. IInv => EveryInodeHasDescriptor
  BY EveryGroup DEF EveryInodeHasDescriptor, IInv, Mounted
<1> QED BY <1>1, InductiveInvariant, PTL

(* The pointer get_ext4_inode returns is to the inode mkfs wrote, the whole  *)
(* of it inside the buffer, from the cache and from the disk alike.          *)
THEOREM InodesFound == Spec => []InodeIsRight
<1> QED BY InodeRight, InductiveInvariant, PTL
=============================================================================
