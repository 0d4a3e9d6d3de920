# ext4tc in TLA+

A specification of [ext4tc](../src/README.md), the Total Commander plugin that
reads ext2, ext3 and ext4 partitions under Windows: TLA+ modules translated
from the source, TLC configurations that check them on small instances, and
theorems about them that TLAPS proves for all instances. Line numbers refer to
the files in `src/`.

## 1. The program

Total Commander (the *host*) loads the plugin and calls its exported functions
on one thread, one call at a time. The plugin opens the raw disks, looks for
ext file systems, and lets the host list directories and copy files out. It
never writes to a disk. The one other thread is the copy thread that
`FsGetFile` creates for the time of a call.

| component | source | its state | its operations | what makes it correct |
|---|---|---|---|---|
| plugin start | `ext4Plugin.cpp` `FsInit` | `pluginDescr`, how `FsInit` ended | refuse a user without rights, count the disks, search them, build the map of numbers | every ext partition can be named; no call uses what an early return left out |
| disk scan | `disk.cpp`, `partition_list.cpp`, `partition_linux_ext2.cpp` `get_ext2_sb`, `ext4_sb_info.cpp` | the list of partitions, the table of ext partitions and its length | `init`: boot record, chain of extended boot records, superblocks, table | numbers that grow, right places, a table without holes, also when reads fail |
| partition names | `ext4PluginDescr.cpp`, `.h` | `ext4_partitions_id_map`, the handle of the root listing | list the root, turn a number into an index | a name leads to the partition that bears it |
| directories and paths | `get_dir_entry`, `ext4PluginDescr`, `FsFind*` | the table `dir_entries` shared by all listings, a private table in `get_ext2_inode` | read a directory, walk a path, list | complete listings, the right file, no use of what could not be read |
| superblock and group descriptors | `ext4_sb_info.cpp`, `get_ext2_sb`, `get_ext2_gr_descriptors`, the arithmetic of `get_ext4_inode` | numbers computed from the superblock, a descriptor per group | mount, find the bytes of an inode | nothing is copied from outside a buffer; an inode number leads to that inode |
| inode-table cache | `get_ext4_inode`, `ext4_sb_info` | one slot per block group, a queue of 100 | look up, evict, read, insert | no pointer in use is freed, no table leaks |
| block map | `blocks.cpp`, `blocks.h` | indirect blocks and counters; or the path through the extent tree | map the next block of a file | the address the file system gives to the block; buffers are freed |
| file copy | `FsGetFile`, `read_file` | `params`, the local file, two handles | create the copy thread, poll, abort, join | success only for a complete copy; nothing left behind |
| raw sector access | `partition.cpp`, `disk.cpp` | the handle of a disk and its position | seek, then read | a reader gets the sectors it asked for |
| name conversion | `utils.cpp` | none | ANSI code page to UTF-8 and back | |
| debug window, log | `windows/`, `logger.h` | a window of the host's thread | send it a line, in debug builds | the copy thread never waits for ever for its line to be taken |

How they interact: `FsInit` runs the disk scan once per disk, then builds the
map of numbers from the tables. `FsFindFirst`, `FsFindNext` and `FsGetFile`
turn the first name of a path into a partition with that map, and the rest
into inodes with `get_dir_entry`, which asks the cache for the inode of the
directory and the block map for its blocks. `FsGetFile` gives the number of
the inode to the copy thread, which asks the same cache again and walks the
file with a block map of its own, while the thread of the host polls the size
of the local file. The shared state of the two threads is `params`, the local
file, the inode cache, the handle of the disk with its one position and, in a
debug build, the log window; none of it is locked.

What is hard: the copy thread against the polling host (order of the verdict,
the close, the join and an abort); a cache that hands out pointers it may free;
counters that must not slip over a long run of requests; tables whose length
is computed at one place and used at another; every read may fail, and several
results are not looked at. The list of hazards, each with its line and the
properties that would catch it, or the reason why none does, is in `PROJECT.json`.

## 2. Modules

| module | what it is | about the code |
|---|---|---|
| `InodeCache` | the steps of `get_ext4_inode`, for any thread | one action per step: look up, evict, read (or fail), publish |
| `InodeUse` | extends it: who calls it, and for how long the pointer is used | path walks, sizes for listings, `FsGetFile` and the copy thread |
| `FileCopy` | `FsGetFile` and `read_file`, every interleaving, in release and debug builds | block map and disk seen from outside: a request is answered with the block due, with another place, not at all, or lost; a sector is read or not; the log lines of a debug build as messages the host's thread has to take |
| `SharedDisk` | `FileCopy` composed with the one handle of the disk | a read is `SetFilePointerEx` and then `ReadFile`, by either thread; a seek may fail unnoticed |
| `Download` | the abstract promise of `FsGetFile`: the local file grows block by block from nothing to a copy of the source, success means complete, nobody touches the file after the return; a block is the one due, the one before it again or content from elsewhere, and a lost request makes the ones that follow late | `FileCopy` implements it, and so does `SharedDisk` |
| `BlockMap` | class `blocks` for a file without extents | direct, indirect and double indirect blocks, counters, release of buffers |
| `Extents` | what an extent tree is, and what it says of a block (the reference) | the on-disk format, `ext4_extents.h` |
| `ExtentSearch` | the binary searches in one node | `ext4_ext_binsearch`, `ext4_ext_binsearch_idx` |
| `ExtentMap` | class `blocks` for a file with extents: one step per level of a walk, the cached path, `flush` | uses `Extents`; the search appears by its result, which `ExtentSearch` establishes (theorem `SearchGivesWalkEntry`) |
| `DiskScan` | `disk::init` | every step of the boot records, the first walk over superblocks, the second walk that fills the table |
| `Superblock` | from the superblock to the bytes of an inode, on the layouts that mkfs writes | block sizes, descriptors of 32 and 64 bytes, revisions, sector sizes; places and sizes of buffers |
| `PartitionMap` | `FsInit` however it ends, the listing of the root, the validation of paths | its assumption about the tables is theorem `LastIsLargest` of `DiskScan_proofs` |
| `Directory` | `get_dir_entry`, listings with a shared table, `get_ext2_inode` | several handles, mixed calls, failing reads, blocks without an address, directories without blocks |
| `MC*` | the values TLC uses for the constants | |
| `*_proofs` | the theorems | |

How to read a model against its code:

* An action is a part of a function between two points where another thread,
  a failing read or an early return can make a difference. Where only one
  thread can be in the code (`DiskScan`, `PartitionMap`), an action is one
  pass of a loop.
* A variable has the name of the variable, field or parameter of the code
  (`n`, `found`, `dir_entry_num`, `group_desc_queue`, `p_block`, `int_flag`).
  A variable called *history* in its comment is not in the code; no action
  reads it to decide what to do.
* A pointer is the name of what it points to, or `NULL`. Addresses of inode
  tables are model values (`Buffers`), so that freeing and reusing memory can
  be told apart.
* A sector or block is a number. Data that no property is about (times,
  sizes in listings, log texts, progress percentages) is left out.
* The use of a NULL or freed pointer goes to a state of its own (`"crashed"`,
  `"undefined"`), or, where the program goes on, to a free choice: the freed
  superblock of `DiskScan` may look compatible or not.
* `FileCopy` does not have the crashes inside the block map. `BlockMap` and
  `ExtentMap` show when they happen; a crash takes the whole host down, so no
  promise of `FileCopy` is about what comes after it.
* Definitions marked *Seeded fault* are plausible mistakes. They are part of
  no behaviour; each shows that some property would notice it.

## 3. Runs

All runs take at most about a minute.

| run | module, cfg | question and result |
|---|---|---|
| `inode_cache` | `MCInodeUse`, `InodeUse.cfg` | May an eviction free an inode table under a reader, with the copy thread alive and without a lock? No. The reason is `CopierOnlyHits`: the copy thread asks for the inode `FsGetFile` has just read, so it never gets as far as the eviction. |
| `file_copy` | `SharedDisk`, `FileCopy.cfg` | Is success reported only for a complete copy, is nothing left behind, does an abort stop the copy within one block, does each thread read the sectors it has sought, does the call return, is the whole a `Download`? Yes, also with failing seeks, reads, writes and thread creation, and with a block map that answers wrongly. The content is right if the map answered every request (`amiss`); otherwise it is wrong in the ways `Download` lists. The exception is the debug build, where `FsGetFile` and the copy thread can wait for each other after an abort or an error (`Deadlocked`). |
| `copy_map_fails` | `FileCopy`, `FileCopyMapFails.cfg` | Violation: a block that cannot be mapped is copied from the place of another block, and the copy is called a success. |
| `block_map` | `BlockMap`, `BlockMap.cfg` | Do the counters follow the layout of ext2 through all regions? Yes; an unreadable double indirect block shifts them by one request. |
| `extent_search` | `MCExtentSearch`, `ExtentSearch.cfg` | Does the binary search end at the entry that stands for the block, for every header? Yes. |
| `extent_map` | `MCExtentMap`, `ExtentMap.cfg` | Does the cached path give the right address, is no node read twice, are all nodes freed? Yes. |
| `extent_holes` | `MCExtentMap`, `ExtentMapHole.cfg` | Violation: a block in a hole gets an address. |
| `disk_scan` | `MCDiskScan`, `DiskScan.cfg` | Numbers, places, completeness and the agreement of the two walks, with every read failing. |
| `superblock` | `MCSuperblock`, `Superblock.cfg` | Are all descriptors copied from inside the buffer that was read, does each group get its own, does every inode number lead to that inode, from the cache as well as from a table just read? Yes, on the layouts of `Readable`. |
| `partition_map` | `MCPartitionMap`, `PartitionMap.cfg` | Does the array have room, does every number lead to its partition, is the root listed completely, is the array left alone by paths that come after a failed `FsInit`? Yes. |
| `partition_path` | `MCPartitionMap`, `PartitionMapPath.cfg` | Violation: a number without an ext partition is accepted. |
| `directory` | `MCDirectory`, `Directory.cfg` | Complete listings, the right file, no use of a pointer that is not there, for paths that mean something. Every read may fail, and every block of a directory may be one that cannot be mapped; the number kept with a table is right even then. The exception is a directory with extents but without blocks (`Hollow`): its block map is destroyed before any request, and `flush` follows a NULL path (`blocks.h:71-77`). |

### Bounds

* `inode_cache`: 3 block groups, 2 inodes each, a queue of 2 (`MAX_GROUP_DESC_QUEUE_LEN`
  is 100): one group more than fits, so evictions happen and choose between two.
  3 buffers: more can never be alive (2 cached, one being read). The buffers
  are symmetric: no step names one.
* `file_copy`: sizes 0 to 4 and 7 with a block size of 2: empty, less than a block,
  whole blocks, one more, and four blocks, so that the loop over all but the
  last block runs zero, one and three times; both builds, with and without extents.
  The double indirect region is blocks 1 and 2 (`DindFirst`, `DindEnd`): the largest file
  has a block in front of it, one behind it, and two in it, so that one or two requests are
  lost. Every block may be a hole. One read of a thread stands
  for several in a row, and a position of the handle that nobody asked for is
  one value, `"elsewhere"`, as is an address that is not that of the block due (`ELSEWHERE`).
* `superblock`: 1 to 131 groups, with whole blocks of descriptors and one group
  less and more, with a shorter last group and without, descriptors of 32 and 64
  bytes, blocks of 1, 2 and 4 KiB, revisions 0 and 1, sectors of 512 and 4096 bytes,
  a foreign partition. `Word` is 32768 instead of 2^32, so that a file system
  has an address, and the largest one a number of blocks, with a high half. A queue of 2
  tables; inode numbers on both sides of the border of a group.
* `block_map`: 3 addresses per block instead of 256 or more; file lengths at and
  next to every boundary: the last direct block (12), the indirect block (15), each
  of the three blocks below the double indirect one (18, 21, 24), and beyond.
  `WrapBlocks` is larger than all of them.
* `extent_search`: all headers of 1 to 5 entries over block numbers 0 to 5.
* `extent_map`: all trees of depth 0, 1 and 2 (`MCExtentMap` enumerates them) with
  leaves of one or two extents over a file of 5 blocks, with holes.
* `disk_scan`: empty, Linux, extended (0x5 and 0xf) and other slots, up to two
  extended slots, chains of one to three records of which the third lies in
  front of the second, a damaged record, and file systems missing from some
  partitions.
* `partition_map`: up to three disks with 0 to 3 ext partitions each, with gaps;
  numbers 0 to 6 in paths, and one disk more than there is.
* `directory`: two trees of three directories each, one with extents and one
  without: directories of two blocks, of one for each region of the block map (the indirect
  block is needed from block 1 on, the double indirect one from block 2: `EXT4_IND_BLOCK`,
  `DindFirst`) and without blocks, deleted entries, a name that is used again
  after a deletion, names with another code in the code page and one without;
  tables that grow by 2 instead of 256; two open listings; paths that name a file, a
  directory, a listed name that cannot be converted back, one with a name too
  many, and the empty one.

### Fairness

* `FileCopy`: weak fairness of each of the two threads. Windows schedules both,
  and `WaitForSingleObject`, `ReadFile` and `WriteFile` return. Nothing is assumed
  of the user (who need not abort) and of the host (who need not call).
  `CallReturns` leaves out the call whose `CreateThread` failed for a file that is not
  empty: nothing in the code ends it but an abort, which `CallReturns` has. In a debug
  build it allows `Deadlocked`. In `SharedDisk` the same two conditions are
  stated of the threads with their reads.
* `ExtentSearch`, `DiskScan`: weak fairness of `Next`: a function that was called
  runs on. `Directory`: weak fairness of the steps of a call (`CallStep`) only.
* The other modules state no liveness.

`CHECK_DEADLOCK FALSE` is set where a behaviour really may stop: when the search
is done (`DiskScan`), when the host is gone (`Directory`, `InodeUse` after the use of a
NULL pointer), when a path walk meets an inode without a descriptor or nothing was mounted
(`Superblock`), when a debug build hangs (`SharedDisk`), and for a computer without disks
or a user without rights (`PartitionMap`).

### What disagrees

Three runs end in a counterexample on purpose; each is a place where the text
of the repository says one thing and its code does another (`PROJECT.json`,
*findings*): the results of `get_ext2_blk_nr` are unsigned, so the tests for `-1`
never succeed (`partition_linux_ext2.cpp:228,356,383`); `ee_len` is never looked at
(`blocks.cpp:82`); numbers in gaps pass the validation (`ext4PluginDescr.cpp:211`).

## 4. Theorems

TLAPS proves, for every value of the constants that satisfies the named
assumptions of the modules:

| module | theorems | the argument |
|---|---|---|
| `InodeUse_proofs` | `TypeCorrect`, `PointersStayValid`, `NoTableLeaks`, `QueueCorrect`, `CopierAlwaysHits`, `CacheIsFrozen` | The invariant ties each step of a caller to what is cached: when the copy thread exists, the group of `inode_num` is cached; a thread in the middle of `get_ext4_inode` holds no pointer; queue and slots name the same groups. `NoDanglingInode` alone is not inductive: it needs to know that the copy thread cannot reach the eviction. |
| `FileCopy_proofs` | `TypeCorrect`, `NothingLeftBehind`, `OpenWhenWritten`, `OkIsComplete`, `Refinement`, `SharedImplementsCopy`, `OwnSectors`, `AbortIsPrompt` | The size of the local file is tied to the number of blocks written and to where the copy thread is; "complete" can only be seen when the copy thread has only its last steps left. `Refinement` maps the two threads to `Download` step by step. A block that was written is the one asked for, less the requests lost, unless something is amiss (`LostInv`, `Content`). `SharedImplementsCopy` carries all this over to the composition with the disk handle. There, the host's thread is between a seek and a read only while it is in its path walk or outside a call, when no copy thread exists (`OwnSectors`). |
| `BlockMap_proofs` | `TypeCorrect`, `RightBlocks`, `AllBlocks`, `NothingHeld` | Buffer and counters are functions of `blk_index - lost`. Assumes `NoWrap`: files that `i_size_lo` can count. |
| `ExtentMap_proofs` | `TypeCorrect`, `RightExtents`, `NoNodeTwice`, `NoNodeLeaks`; `SearchInsideHeader`, `EntryFound`, `EveryStepShrinks`, `SearchGivesWalkEntry` | The nodes of the path are the ones whose blocks include the last one asked for, as far as it was walked; what lies before them is never needed again. Assumes `NoHighAddresses`: addresses that fit 32 bits. The other four are about `ExtentSearch`, without that assumption: entries before `l` begin at or before the block, entries after `r` behind it. `EveryStepShrinks` is the step of the termination argument; `SearchGivesWalkEntry` is what lets the walk use the result of the search instead of the search. |
| `DiskScan_proofs` | `InductiveInvariant`, `TypeCorrect`, `NumbersCorrect`, `TableCorrect`, `LastIsLargest`; `PlacesCorrect`, `NothingMissed` | `n` is larger than every number in the list; the positions still to be walked and the count of the first walk add up. `LastIsLargest` is the assumption `PartitionMap` makes. The last two need `ScanInv`: the record that is to be read is the one `RecordAt` has for the next number, so the list is the first part of the chain. They assume `NoWrap`: sums of the numbers in boot records that fit 32 bits (`MCDiskScan` checks that its disks are such); the others do not. |
| `Superblock_proofs` | `DescriptorsInBounds`, `DescriptorsFound`, `InodesHaveDescriptors`, `InodesFound` | A mounted file system is on sectors of 512 bytes, since otherwise byte 1024 is not in sector 2, so sectors, blocks and descriptors can be compared; the rest is arithmetic of quotients (the blocks read hold all descriptors, the last group of an inode is one of the groups of blocks). What is computed when mounting never changes, so a cached table is the one that would be read. Assumes of a file system what `IsFileSystem` says: the relations between the fields that mkfs keeps. |
| `PartitionMap_proofs` | `TypeCorrect`, `WritesInside`, `PathsInside`, `NumbersCorrect`, `ListingCorrect` | Each disk has its own interval of the array, which ends where the next begins; without an array no disk is known, so that no path is accepted; the listing has given out exactly what lies before its handle. |
| `Directory_proofs` | `TypeCorrect`, `TablesCorrect`, `UndefinedExplained`; `CallsFollowPaths`, `ListingsComplete`, `FileCorrect`, `CallsDefined` | `IInv`: the place `get_dir_entry` is at is a place of the tree; the table that is read fits its chunks; a table that is there has as many entries as the number kept with it says; a walk of a listing has a table, which is why an inode number that a walk goes to is one of an entry. `UndefinedExplained` adds why a number of entries may be there without a table. That a call goes wrong without a failure only at the last directory of its path needs `HollowIsLast`: a directory without blocks has no entries, so no path leads through it. `CallsInv`: the table being read is the first part of the entries in use of its directory; the directory is the one that the walked names mean (`OnPath`); the listing of the handle that owns the shared table has been given the names up to its place (`Listing`). None of the last three properties is inductive without these. |

Every invariant that a passing run checks is stated by a theorem, and so are the action
property `CacheFrozenDuringCopy` and the refinement `ImplementsDownload`.

Two references of these properties are recursive: `RecordAt` (the chain of boot records) and
`Entries`, `DirAt`, `Names` (the tree). They are recursive functions, not RECURSIVE operators. That such a
function exists and satisfies its equation is not taken for granted: `Iterates` in
`Directory_proofs`, and its like in `DiskScan_proofs`, build it up to each length, by the argument
of the least number for which that fails (`FirstIsIn`). What the proofs then need of
the function is its equation at one place, the place where the program is; the induction over
the data is the one over the steps of the program.

Only model-checked: the liveness properties `CallReturns`, `Terminates`, `SearchEnds` and
`CallsReturn`, which need fairness and ENABLED. RECURSIVE
operators are in `MCExtentMap` only, which has no theorem.

## 5. Not modelled

* The bytes of the on-disk structures, except the numbers that `Superblock` computes
  with: checks of the superblock beyond its magic number and the compatibility of features,
  `rec_len` (a block of a directory is a sequence of records; a record of length 0 would
  keep `get_dir_entry` at `partition_linux_ext2.cpp:281` for ever), the journal, times.
* `Superblock` has layouts about which the code is wrong, and `Readable` leaves them out of
  the two properties about contents: file systems with blocks of 1 KiB, whose
  descriptors are looked for in the block of the superblock
  (`partition_linux_ext2.cpp:76-81`), and superblocks of revision 0, which have no inode size.
  The text of `src/README.md:4` claims all of ext2, ext3 and ext4; no run states a violation of so
  wide a claim. A superblock on a disk with
  sectors of 4 KiB is refused, as byte 1024 is looked for in sector 2; the division by 512
  in `blocks.h:48` therefore never sees such a disk.
* Byte offsets other than those of `Superblock`, the calls of the Win32 API other than seek,
  read, write and `CreateThread`, and the geometry of a disk. A read that ends early, at
  the end of a disk, counts as one that failed.
* The names of disks: letters are numbers here, also behind the 26th.
* Calls that the host makes from within `ProgressProc`: the interface of Total
  Commander does not make them, and the unlocked cache relies on that.
* Destructors: `~ext4PluginDescr` frees the array of disks but not the disks
  (`ext4PluginDescr.cpp:26`), so nothing that a disk owns is ever freed.
* What the code does outside the states the properties speak of. A directory block that
  cannot be mapped is read from another place (`partition_linux_ext2.cpp:228`): `Directory`
  has the step, and its properties about contents exempt the call. A deleted entry
  that comes first hides a directory of the same name created later
  (`ext4PluginDescr.cpp:317`). A name of a path that does not exist is left out of it once
  another one was found (`ext4PluginDescr.h:207`). A number of entries that a failed read left
  behind is used with a NULL table (`ext4PluginDescr.h:206`). All three are steps of `Directory`
  that its properties exempt. A freed superblock that is asked
  whether it is compatible (`partition_linux_ext2.cpp:42`) is a step of `DiskScan` that
  `ReadTableIsUsable` exempts; a chain of boot records with a cycle is followed for ever, and
  `SearchEnds` is checked on chains without one.
* What `FileCopy` leaves out: a copy of a file with extents that ends before its first request
  flushes a path that was never allocated (`blocks.h:77`), which is a crash of `ExtentMap`; a file
  of 4 GiB or more without extents, for which `blocks.h:52` computes too small a number of blocks
  from `i_size_lo`, lets the buffers of its block map go too early.
* Holes in directories, which ext4 does not have, and directories that reach the triple indirect
  region. The numbers of logical partitions count every extended boot record, also one whose first
  entry is empty, as `disk.cpp:224` does; Linux does not number those.
* `make_partitions_list_winapi` and `get_first_dir_entry2`, which nobody calls; the drawing
  of the debug window; the message box of `FsInit`.

## 6. Plan

Done, in the order of importance: the inode cache and its users; the copy, its
refinement and its composition with the disk handle; the two block maps; the disk
scan; the superblock; the partition names and the start of the plugin; the directories;
theorems for the safety properties of all of them.

To do:

1. Measures for the liveness properties that have none yet, as `EveryStepShrinks` is
   one for the search: for `SearchEnds` on chains without a cycle, and for the path
   walks of `CallsReturn`.
2. The theorem that the partitions `DiskScan` puts into the table are the ones
   that `PartitionMap` is given, stated of a composition instead of an assumption.
