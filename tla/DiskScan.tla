------------------------------ MODULE DiskScan ------------------------------
(***************************************************************************)
(* How one disk is searched for ext file systems: disk::init.              *)
(*                                                                         *)
(* make_partitions_list reads the four slots of the master boot record     *)
(* and follows the chain of extended boot records; it counts partitions: a *)
(* slot has its own number, the records are 5, 6, ..., also one whose      *)
(* first entry is empty.  find_linux_partitions then reads a superblock    *)
(* from each partition of type 0x83 and counts the file systems it found,  *)
(* and ext2_partitions_init walks the list once more to fill a table of    *)
(* that length.  A path names a partition by its number, and the rest of   *)
(* the plugin takes the last number of the table for the largest.          *)
(*                                                                         *)
(* A place on the disk is a sector number.  init is called once for a      *)
(* disk, so get_ext2_sb never meets a superblock it has read before.       *)
(***************************************************************************)
EXTENDS Integers, Sequences

CONSTANTS
  Disks,          \* the layouts a disk may have
  SectorWrap,     \* sector numbers are unsigned int: 2^32
  Unreadable      \* which reads may fail: "mbr", "ebr", "superblock", "descriptors"

EMPTY == 0
EXTENDED == 5               \* 0x5
EXTENDED_LBA == 15          \* 0xf
LINUX == 131                \* 0x83

(* What set_part_info takes from an entry; the rest is never looked at. *)
Entries == [type : Nat, LBA : Nat]

(* A layout: the slots of the master boot record, and what is in the sectors
   that can be reached as extended boot records. *)
IsLayout(d) ==
  /\ d.magic \in BOOLEAN
  /\ d.slots \in [1 .. 4 -> Entries]
  /\ \A s \in DOMAIN d.ebr :
       /\ d.ebr[s].magic \in BOOLEAN
       /\ d.ebr[s].part \in Entries /\ d.ebr[s].link \in Entries
  /\ \A i \in 1 .. 4 : d.slots[i].type \in {EXTENDED, EXTENDED_LBA} =>
       /\ d.slots[i].LBA % SectorWrap \in DOMAIN d.ebr
       /\ \A s \in DOMAIN d.ebr : d.ebr[s].link.type = EXTENDED =>
            (d.slots[i].LBA + d.ebr[s].link.LBA) % SectorWrap \in DOMAIN d.ebr

ASSUME DiskScanAssumption ==
  /\ SectorWrap \in Nat \ {0}
  /\ Unreadable \subseteq {"mbr", "ebr", "superblock", "descriptors"}
  /\ \A d \in Disks : IsLayout(d)

VARIABLES
  disk,               \* what is on the disk
  pc,                 \* "mbr", "slots", "ebr", "find", "table" or "done"
  n,                  \* the number of the next partition
  partitions,         \* the list of partitions; the NULL list is empty
  is_extended,        \* there is an extended boot record to follow
  offset_ext_part,    \* where the extended partition starts
  offset_logic_ext,   \* where the next record is, from there
  at,                 \* the element of the list the two walks are at
  found,              \* file systems counted by the first walk
  partitions_ext2,    \* the table: positions in the list
  partitions_ext2_count,
  incomplete          \* history: a read failed, or a record had a wrong magic number

listVars == <<n, partitions, is_extended, offset_ext_part, offset_logic_ext>>
tableVars == <<at, found, partitions_ext2, partitions_ext2_count>>
vars == <<disk, pc, listVars, tableVars, incomplete>>

Init ==
  /\ disk \in Disks
  /\ pc = "mbr"
  /\ n = 1 /\ partitions = <<>>
  /\ is_extended = FALSE /\ offset_ext_part = 0 /\ offset_logic_ext = 0
  /\ at = 1 /\ found = 0
  /\ partitions_ext2 = <<>> /\ partitions_ext2_count = 0
  /\ incomplete = FALSE

(* An element of the list; no superblock has been read from it. *)
Partition(type, sector, no) ==
  [type |-> type, offset |-> sector % SectorWrap, part_no |-> no, ext2 |-> "NULL"]

(* A read of the disk, or of one of its partitions, gives no buffer. *)
NoSectors(what) == what \in Unreadable
NoPartitionSectors(what) == what \in Unreadable

(* make_partitions_list returns -1, and init leaves the table as it was. *)
GiveUp ==
  /\ pc' = "done"
  /\ incomplete' = TRUE
  /\ UNCHANGED <<disk, n, is_extended, offset_ext_part, offset_logic_ext, tableVars>>

-----------------------------------------------------------------------------
(* make_partitions_list *)

NoMbr ==
  /\ pc = "mbr"
  /\ NoSectors("mbr") \/ ~disk.magic
  /\ GiveUp
  /\ UNCHANGED partitions

ReadMbr ==
  /\ pc = "mbr"
  /\ disk.magic
  /\ pc' = "slots"
  /\ UNCHANGED <<disk, listVars, tableVars, incomplete>>

(* An empty slot takes its number with it. *)
ReadSlot ==
  /\ pc = "slots" /\ n \in 1 .. 4
  /\ LET slot == disk.slots[n] IN
       /\ partitions' = IF slot.type = EMPTY THEN partitions
                        ELSE Append(partitions, Partition(slot.type, slot.LBA, n))
       /\ IF slot.type \in {EXTENDED, EXTENDED_LBA}
          THEN is_extended' = TRUE /\ offset_ext_part' = slot.LBA
          ELSE UNCHANGED <<is_extended, offset_ext_part>>
  /\ n' = n + 1
  /\ UNCHANGED <<disk, pc, offset_logic_ext, tableVars, incomplete>>

SlotsRead ==
  /\ pc = "slots" /\ n = 5
  /\ pc' = IF is_extended THEN "ebr" ELSE "find"
  /\ UNCHANGED <<disk, listVars, tableVars, incomplete>>

record_sector == (offset_ext_part + offset_logic_ext) % SectorWrap
record == disk.ebr[record_sector]

(* An unreadable record ends the search, with the list as it is so far. *)
EbrUnreadable ==
  /\ pc = "ebr"
  /\ NoSectors("ebr")
  /\ GiveUp
  /\ UNCHANGED partitions

(* A record that is none takes all the partitions with it. *)
EbrWrong ==
  /\ pc = "ebr"
  /\ ~record.magic
  /\ partitions' = <<>>
  /\ GiveUp

(* Seeded fault: the place of a logical partition taken from the extended
   partition instead of from its record. *)
Logical_fromExtended == Partition(record.part.type, offset_ext_part + record.part.LBA, n)

(* Seeded fault: the counter stays. *)
Numbered_stays == n

(* The first entry of a record is a logical partition, *)
Logical ==
  Partition(record.part.type, offset_ext_part + offset_logic_ext + record.part.LBA, n)

(* and the second one leads to the next record.  It is in the list too,
   without a number; the place given to it is never used. *)
Link ==
  Partition(record.link.type, offset_ext_part + offset_logic_ext + record.link.LBA, 0)

Numbered == n + 1

(* Seeded fault: a link of type 0xf is taken for the end. *)
Linked_never == record.link.type = EXTENDED_LBA

Linked == record.link.type = EXTENDED

ReadEbr ==
  /\ pc = "ebr"
  /\ record.magic
  /\ n' = Numbered
  /\ IF Linked
     THEN /\ partitions' = partitions \o <<Logical, Link>>
          /\ offset_logic_ext' = record.link.LBA
          /\ UNCHANGED <<pc, is_extended>>
     ELSE /\ partitions' = Append(partitions, Logical)
          /\ is_extended' = FALSE
          /\ pc' = "find"
          /\ UNCHANGED offset_logic_ext
  /\ UNCHANGED <<disk, offset_ext_part, tableVars, incomplete>>

-----------------------------------------------------------------------------
(* find_linux_partitions *)

Examine(ext2, success) ==
  /\ partitions' = [partitions EXCEPT ![at].ext2 = ext2]
  /\ found' = IF success THEN found + 1 ELSE found

(* Seeded fault: a file system without descriptors is kept. *)
get_ext2_sb_keep ==
  \/ /\ partitions[at].offset \notin disk.fs
     /\ Examine("NULL", FALSE)
     /\ UNCHANGED incomplete
  \/ /\ partitions[at].offset \in disk.fs
     /\ NoPartitionSectors("descriptors")
     /\ Examine("ready", FALSE)
     /\ incomplete' = TRUE
  \/ /\ partitions[at].offset \in disk.fs
     /\ Examine("ready", TRUE)
     /\ UNCHANGED incomplete

(* The superblock, and if it is one the group descriptors.  When the
   superblock cannot be read, the pointer to the memory it was meant for is
   left in ext2, although the memory is freed. *)
get_ext2_sb ==
  \/ /\ NoPartitionSectors("superblock")
     /\ Examine("freed", FALSE)
     /\ incomplete' = TRUE
  \/ /\ partitions[at].offset \notin disk.fs
     /\ Examine("NULL", FALSE)
     /\ UNCHANGED incomplete
  \/ /\ partitions[at].offset \in disk.fs
     /\ NoPartitionSectors("descriptors")
     /\ Examine("NULL", FALSE)
     /\ incomplete' = TRUE
  \/ /\ partitions[at].offset \in disk.fs
     /\ Examine("ready", TRUE)
     /\ UNCHANGED incomplete

find_linux_partitions ==
  /\ pc = "find" /\ at <= Len(partitions)
  /\ IF partitions[at].type = LINUX
     THEN get_ext2_sb
     ELSE UNCHANGED <<partitions, found, incomplete>>
  /\ at' = at + 1
  /\ UNCHANGED <<disk, pc, n, is_extended, offset_ext_part, offset_logic_ext,
                 partitions_ext2, partitions_ext2_count>>

(* Seeded fault: the -1 returned for a disk without partitions is stored. *)
Counted_minus == IF partitions = <<>> THEN -1 ELSE found

Counted == found

FoundAll ==
  /\ pc = "find" /\ at > Len(partitions)
  /\ partitions_ext2_count' = Counted
  /\ at' = 1
  /\ pc' = IF found = 0 THEN "done" ELSE "table"
  /\ UNCHANGED <<disk, listVars, found, partitions_ext2, incomplete>>

(* ext2_partitions_init: freed memory may look like anything. *)
LooksCompatible(ext2) ==
  CASE ext2 = "ready" -> {TRUE} [] ext2 = "NULL" -> {FALSE} [] OTHER -> BOOLEAN

(* Seeded fault: the walk does not go on after another partition. *)
ext2_partitions_init_stays ==
  /\ pc = "table" /\ at <= Len(partitions)
  /\ partitions[at].type = LINUX
  /\ \E compatible \in LooksCompatible(partitions[at].ext2) :
       partitions_ext2' = IF compatible THEN Append(partitions_ext2, at) ELSE partitions_ext2
  /\ at' = at + 1
  /\ UNCHANGED <<disk, pc, listVars, found, partitions_ext2_count, incomplete>>

ext2_partitions_init ==
  /\ pc = "table" /\ at <= Len(partitions)
  /\ \E compatible \in LooksCompatible(partitions[at].ext2) :
       partitions_ext2' = IF partitions[at].type = LINUX /\ compatible
                          THEN Append(partitions_ext2, at) ELSE partitions_ext2
  /\ at' = at + 1
  /\ UNCHANGED <<disk, pc, listVars, found, partitions_ext2_count, incomplete>>

TableFilled ==
  /\ pc = "table" /\ at > Len(partitions)
  /\ pc' = "done"
  /\ UNCHANGED <<disk, listVars, tableVars, incomplete>>

Next ==
  \/ NoMbr \/ ReadMbr \/ ReadSlot \/ SlotsRead
  \/ EbrUnreadable \/ EbrWrong \/ ReadEbr
  \/ find_linux_partitions \/ FoundAll
  \/ ext2_partitions_init \/ TableFilled

Spec == Init /\ [][Next]_vars

(* FsInit runs the search to its end. *)
FairSpec == Spec /\ WF_vars(Next)

-----------------------------------------------------------------------------
(* The chain of extended boot records, as the format defines it. *)
ExtendedSlots(d) == {i \in 1 .. 4 : d.slots[i].type \in {EXTENDED, EXTENDED_LBA}}
Start(d) == d.slots[CHOOSE i \in ExtendedSlots(d) : \A j \in ExtendedSlots(d) : j <= i].LBA

RecordAt(d) ==
  LET sector[k \in Nat \ {0}] ==
        IF k = 1 THEN Start(d) ELSE Start(d) + d.ebr[sector[k - 1]].link.LBA
  IN  sector

(* Every sector number that the tables of the disks give can be expressed: the
   disks are smaller than SectorWrap sectors. *)
NoWrap ==
  \A d \in Disks :
    /\ \A i \in 1 .. 4 : d.slots[i].LBA < SectorWrap
    /\ \A s \in DOMAIN d.ebr :
         /\ s \in Nat /\ s + d.ebr[s].part.LBA < SectorWrap
         /\ \A i \in ExtendedSlots(d) : d.slots[i].LBA + d.ebr[s].link.LBA < SectorWrap

(* The place and the type of the partition with a number, where every record of
   the chain has one. *)
PlaceOf(no) ==
  IF no <= 4 THEN <<disk.slots[no].type, disk.slots[no].LBA>>
  ELSE LET r == RecordAt(disk)[no - 4] IN
         <<disk.ebr[r].part.type, r + disk.ebr[r].part.LBA>>

IsNumbered(p) == p.part_no > 0

TypeOK ==
  /\ disk \in Disks
  /\ pc \in {"mbr", "slots", "ebr", "find", "table", "done"}
  /\ n \in Nat \ {0}
  /\ partitions \in Seq([type : Nat, offset : Nat, part_no : Nat,
                         ext2 : {"NULL", "ready", "freed"}])
  /\ is_extended \in BOOLEAN
  /\ offset_ext_part \in Nat /\ offset_logic_ext \in Nat
  /\ at \in 1 .. Len(partitions) + 1 /\ found \in 0 .. Len(partitions)
  /\ partitions_ext2 \in Seq(1 .. Len(partitions))
  /\ partitions_ext2_count \in Nat
  /\ incomplete \in BOOLEAN

(* The numbers grow along the list: no two partitions have one number, and
   the last ext2 partition of the table has the largest, which
   ext4PluginDescr.cpp:74 takes for granted ("getting max id of ext2
   compatible partitions"). *)
NumbersGrow ==
  \A i, j \in 1 .. Len(partitions) :
    i < j /\ IsNumbered(partitions[i]) /\ IsNumbered(partitions[j])
      => partitions[i].part_no < partitions[j].part_no

(* A partition in the list has the place and the type the boot records give
   to the partition of its number: make_partitions_list adds up the three
   parts of a place, each relative to another one. *)
RightPlaces ==
  \A i \in 1 .. Len(partitions) :
    IsNumbered(partitions[i]) =>
      PlaceOf(partitions[i].part_no) = <<partitions[i].type, partitions[i].offset>>

(* The numbers of the ext file systems that are on the disk. *)
LastNumber == n - 1
FileSystems ==
  {no \in 1 .. LastNumber : PlaceOf(no)[1] = LINUX /\ PlaceOf(no)[2] \in disk.fs}
EndOfChain ==
  ExtendedSlots(disk) # {} => disk.ebr[RecordAt(disk)[LastNumber - 4]].link.type # EXTENDED

(* If nothing went wrong, the search ends at the end of the chain, and the
   table has every ext file system of the disk, in the order of the numbers
   and none twice. *)
FindsEverything ==
  pc = "done" /\ ~incomplete =>
    /\ EndOfChain
    /\ {partitions[partitions_ext2[i]].part_no : i \in 1 .. Len(partitions_ext2)} = FileSystems
    /\ \A i, j \in 1 .. Len(partitions_ext2) : i < j => partitions_ext2[i] < partitions_ext2[j]

(* The two walks agree: the table has as many partitions as were counted,
   and each of them has a superblock and group descriptors. *)
TableIsUsable ==
  pc = "done" =>
    /\ Len(partitions_ext2) = partitions_ext2_count
    /\ \A i \in 1 .. Len(partitions_ext2) : partitions[partitions_ext2[i]].ext2 = "ready"

(* The same, unless a superblock could not be read. *)
ReadTableIsUsable ==
  (\A i \in 1 .. Len(partitions) : partitions[i].ext2 # "freed") => TableIsUsable

(* The search ends, on a disk whose chain of records does. *)
SearchEnds == <>(pc = "done")

=============================================================================
