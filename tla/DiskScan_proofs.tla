--------------------------- MODULE DiskScan_proofs ---------------------------
(***************************************************************************)
(* Proofs about the search of one disk, for disks with any tables, chains  *)
(* of records of any length (also without an end), any file systems and    *)
(* any reads that fail.                                                    *)
(*                                                                         *)
(* IInv adds to the properties of DiskScan what the two walks of the list  *)
(* have done so far: the first one has counted the superblocks before at,  *)
(* the second one has put the same elements into the table.                *)
(*                                                                         *)
(* ScanInv says where the search is in the tables of the disk: the record  *)
(* it is about to read is the one that RecordAt has for the next number.   *)
(* RecordAt is a recursive function; that it exists, and has the value its *)
(* equation gives, is proved first.  What ScanInv says is true on disks    *)
(* whose sector numbers do not wrap (NoWrap), the other results need no    *)
(* such assumption.                                                        *)
(***************************************************************************)
EXTENDS DiskScan, FiniteSetTheorems, WellFoundedInduction, TLAPS

Elements == [type : Nat, offset : Nat, part_no : Nat, ext2 : {"NULL", "ready", "freed"}]

Reading == pc \in {"mbr", "slots", "ebr"}

(* The list: its numbers are below the counter, only links have none, and
   a superblock is looked for in Linux partitions only. *)
ListInv ==
  \A k \in 1 .. Len(partitions) :
    /\ partitions[k].part_no < n
    /\ partitions[k].part_no = 0 => partitions[k].type = EXTENDED
    /\ partitions[k].ext2 # "NULL" => partitions[k].type = LINUX

(* The two parts of the place of a record come from entries of the disk. *)
ChainInv ==
  /\ is_extended => \E s \in 1 .. 4 :
       disk.slots[s].type \in {EXTENDED, EXTENDED_LBA} /\ offset_ext_part = disk.slots[s].LBA
  /\ pc = "ebr" => is_extended
  /\ offset_logic_ext # 0 => \E s \in DOMAIN disk.ebr :
       disk.ebr[s].link.type = EXTENDED /\ offset_logic_ext = disk.ebr[s].link.LBA

(* Superblocks that were read, in the first k elements of a list. *)
Ready(list, k) == {e \in 1 .. k : e <= Len(list) /\ list[e].ext2 = "ready"}

NoneFreed == \A k \in 1 .. Len(partitions) : partitions[k].ext2 # "freed"

ReadingInv ==
  Reading =>
    /\ at = 1 /\ found = 0
    /\ partitions_ext2 = <<>> /\ partitions_ext2_count = 0
    /\ \A k \in 1 .. Len(partitions) : partitions[k].ext2 = "NULL"

FindInv ==
  pc = "find" =>
    /\ found = Cardinality(Ready(partitions, at - 1)) /\ found <= at - 1
    /\ partitions_ext2 = <<>> /\ partitions_ext2_count = 0
    /\ \A k \in 1 .. Len(partitions) : at <= k => partitions[k].ext2 = "NULL"

TableInv ==
  pc = "table" =>
    /\ partitions_ext2_count = Cardinality(Ready(partitions, Len(partitions)))
    /\ NoneFreed => Len(partitions_ext2) = Cardinality(Ready(partitions, at - 1))
    /\ \A k \in 1 .. Len(partitions_ext2) : partitions_ext2[k] < at

DoneInv == pc = "done" /\ NoneFreed => Len(partitions_ext2) = partitions_ext2_count

(* What is in the table. *)
EntriesInv ==
  /\ \A k \in 1 .. Len(partitions_ext2) :
       /\ partitions[partitions_ext2[k]].type = LINUX
       /\ NoneFreed => partitions[partitions_ext2[k]].ext2 = "ready"
  /\ \A k, l \in 1 .. Len(partitions_ext2) : k < l => partitions_ext2[k] < partitions_ext2[l]

(* The inductive invariant. *)
IInv == TypeOK /\ NumbersGrow /\ ListInv /\ ChainInv /\ ReadingInv /\ FindInv
          /\ TableInv /\ DoneInv /\ EntriesInv

(* What the rest of the plugin takes for granted of a table: its numbers
   grow, so that the last one is the largest, and none of them is 0. *)
TableGrows ==
  /\ \A k \in 1 .. Len(partitions_ext2) : partitions[partitions_ext2[k]].part_no > 0
  /\ \A k, l \in 1 .. Len(partitions_ext2) : k < l =>
       partitions[partitions_ext2[k]].part_no < partitions[partitions_ext2[l]].part_no

-----------------------------------------------------------------------------
LEMMA Layouts ==
  ASSUME disk \in Disks
  PROVE  IsLayout(disk)
BY DiskScanAssumption

(* An element made from an entry of a boot record. *)
LEMMA PartitionType ==
  ASSUME NEW type \in Nat, NEW sector \in Nat, NEW no \in Nat
  PROVE  /\ Partition(type, sector, no) \in Elements
         /\ Partition(type, sector, no).type = type
         /\ Partition(type, sector, no).part_no = no
         /\ Partition(type, sector, no).ext2 = "NULL"
<1>1. sector % SectorWrap \in Nat
  BY DiskScanAssumption
<1> QED BY <1>1 DEF Partition, Elements

(* The record that is read is one of the disk. *)
LEMMA RecordExists ==
  ASSUME TypeOK, ChainInv, pc = "ebr"
  PROVE  /\ record_sector \in DOMAIN disk.ebr
         /\ record.magic \in BOOLEAN /\ record.part \in Entries /\ record.link \in Entries
<1>1. IsLayout(disk) /\ offset_ext_part \in Nat /\ offset_logic_ext \in Nat
  BY Layouts DEF TypeOK
<1>2. PICK s \in 1 .. 4 : /\ disk.slots[s].type \in {EXTENDED, EXTENDED_LBA}
                          /\ offset_ext_part = disk.slots[s].LBA
  BY DEF ChainInv
<1>3. record_sector \in DOMAIN disk.ebr
  <2>1. CASE offset_logic_ext = 0
    <3>1. record_sector = disk.slots[s].LBA % SectorWrap
      BY <1>1, <1>2, <2>1 DEF record_sector
    <3> QED BY <1>1, <1>2, <3>1 DEF IsLayout
  <2>2. CASE offset_logic_ext # 0
    <3>1. PICK t \in DOMAIN disk.ebr : /\ disk.ebr[t].link.type = EXTENDED
                                       /\ offset_logic_ext = disk.ebr[t].link.LBA
      BY <2>2 DEF ChainInv
    <3> QED BY <1>1, <1>2, <3>1 DEF IsLayout, record_sector
  <2> QED BY <2>1, <2>2
<1> QED BY <1>1, <1>3 DEF IsLayout, record

(* The list grows by elements without a superblock, of which the first one
   has the next number and the others have none. *)
LEMMA ListGrows ==
  ASSUME IInv, Reading, NEW s \in Seq(Elements), partitions' = partitions \o s, n' = n + 1,
         Len(s) > 0 => s[1].part_no = n,
         \A k \in 1 .. Len(s) : s[k].ext2 = "NULL" /\
           (k > 1 => s[k].part_no = 0 /\ s[k].type = EXTENDED)
  PROVE  /\ partitions' \in Seq(Elements) /\ n' \in Nat \ {0}
         /\ Len(partitions') = Len(partitions) + Len(s)
         /\ NumbersGrow' /\ ListInv'
         /\ \A k \in 1 .. Len(partitions') : partitions'[k].ext2 = "NULL"
<1>1. /\ partitions \in Seq(Elements) /\ n \in Nat \ {0}
      /\ \A k \in 1 .. Len(partitions) : partitions[k].ext2 = "NULL"
  BY DEF IInv, TypeOK, Elements, ReadingInv
<1>2. /\ partitions' \in Seq(Elements)
      /\ Len(partitions') = Len(partitions) + Len(s)
      /\ Len(partitions) \in Nat /\ Len(s) \in Nat
  BY <1>1
<1>3. ASSUME NEW k \in 1 .. Len(partitions')
      PROVE  \/ k \in 1 .. Len(partitions) /\ partitions'[k] = partitions[k]
             \/ /\ k = Len(partitions) + 1 /\ 1 \in 1 .. Len(s) /\ partitions'[k] = s[1]
             \/ /\ k - Len(partitions) \in 2 .. Len(s)
                /\ partitions'[k] = s[k - Len(partitions)]
  BY <1>1, <1>2, <1>3
<1>4. ASSUME NEW k \in 1 .. Len(partitions')
      PROVE  /\ partitions'[k].ext2 = "NULL"
             /\ \/ k \in 1 .. Len(partitions) /\ partitions'[k] = partitions[k]
                \/ k > Len(partitions) /\ partitions'[k].part_no = n
                \/ /\ k > Len(partitions)
                   /\ partitions'[k].part_no = 0 /\ partitions'[k].type = EXTENDED
             /\ k > Len(partitions) + 1 => partitions'[k].part_no = 0
  <2>1. CASE k \in 1 .. Len(partitions) /\ partitions'[k] = partitions[k]
    BY <1>1, <1>2, <2>1
  <2>2. CASE k = Len(partitions) + 1 /\ 1 \in 1 .. Len(s) /\ partitions'[k] = s[1]
    BY <1>2, <2>2
  <2>3. CASE /\ k - Len(partitions) \in 2 .. Len(s)
             /\ partitions'[k] = s[k - Len(partitions)]
    <3>1. k - Len(partitions) \in 1 .. Len(s) /\ k - Len(partitions) > 1 /\ k > Len(partitions)
      BY <1>2, <2>3
    <3> QED BY <2>3, <3>1
  <2> QED BY <1>3, <2>1, <2>2, <2>3
<1>5. ListInv'
  <2>1. SUFFICES ASSUME NEW k \in 1 .. Len(partitions')
                 PROVE  /\ partitions'[k].part_no < n + 1
                        /\ partitions'[k].part_no = 0 => partitions'[k].type = EXTENDED
                        /\ partitions'[k].ext2 # "NULL" => partitions'[k].type = LINUX
    BY DEF ListInv
  <2>2. CASE k \in 1 .. Len(partitions) /\ partitions'[k] = partitions[k]
    <3>1. partitions[k] \in Elements
      BY <1>1, <2>2
    <3>2. partitions[k].part_no \in Nat
      BY <3>1 DEF Elements
    <3>3. /\ partitions[k].part_no < n
          /\ partitions[k].part_no = 0 => partitions[k].type = EXTENDED
          /\ partitions[k].ext2 # "NULL" => partitions[k].type = LINUX
      BY <2>2 DEF IInv, ListInv
    <3> QED BY <1>1, <2>2, <3>2, <3>3
  <2>3. CASE partitions'[k].part_no = n
    BY <1>1, <1>4, <2>3
  <2>4. CASE partitions'[k].part_no = 0 /\ partitions'[k].type = EXTENDED
    BY <1>1, <1>4, <2>4
  <2> QED BY <1>4, <2>2, <2>3, <2>4
<1>6. NumbersGrow'
  <2>1. SUFFICES ASSUME NEW k \in 1 .. Len(partitions'), NEW l \in 1 .. Len(partitions'), k < l,
                        partitions'[k].part_no > 0, partitions'[l].part_no > 0
                 PROVE  partitions'[k].part_no < partitions'[l].part_no
    BY DEF NumbersGrow, IsNumbered
  <2>2. k \in 1 .. Len(partitions) /\ partitions'[k] = partitions[k]
    <3>1. ~(l > Len(partitions) + 1)
      BY <1>4, <2>1
    <3>2. ~(k > Len(partitions))
      BY <1>2, <2>1, <3>1
    <3> QED BY <1>4, <3>2
  <2>3. CASE l \in 1 .. Len(partitions) /\ partitions'[l] = partitions[l]
    BY <2>1, <2>2, <2>3 DEF IInv, NumbersGrow, IsNumbered
  <2>4. CASE partitions'[l].part_no = n
    BY <2>2, <2>4 DEF IInv, ListInv
  <2> QED BY <1>4, <2>1, <2>3, <2>4
<1> QED BY <1>1, <1>2, <1>4, <1>5, <1>6

-----------------------------------------------------------------------------
LEMMA InitInv == Init => IInv
<1> SUFFICES ASSUME Init PROVE IInv
  OBVIOUS
<1>1. TypeOK
  <2>1. partitions = <<>> /\ partitions_ext2 = <<>> /\ Len(partitions) = 0
    BY DEF Init
  <2>2. partitions \in Seq(Elements) /\ partitions_ext2 \in Seq(1 .. Len(partitions))
    BY <2>1
  <2>3. is_extended \in BOOLEAN /\ incomplete \in BOOLEAN
    BY Zenon DEF Init
  <2> QED BY <2>1, <2>2, <2>3 DEF Init, TypeOK, Elements
<1> QED BY <1>1 DEF Init, IInv, NumbersGrow, ListInv, ChainInv, ReadingInv, Reading, FindInv,
           TableInv, DoneInv, EntriesInv

LEMMA GiveUpInv ==
  ASSUME IInv, NoMbr \/ EbrUnreadable \/ EbrWrong
  PROVE  IInv'
<1>1. /\ pc \in {"mbr", "ebr"} /\ pc' = "done" /\ incomplete' = TRUE
      /\ UNCHANGED <<disk, n, is_extended, offset_ext_part, offset_logic_ext, at, found,
                     partitions_ext2, partitions_ext2_count>>
      /\ partitions' = partitions \/ partitions' = <<>>
  BY DEF NoMbr, EbrUnreadable, EbrWrong, GiveUp, tableVars
<1>2. /\ TypeOK /\ at = 1 /\ found = 0 /\ partitions_ext2 = <<>> /\ partitions_ext2_count = 0
  BY <1>1 DEF IInv, ReadingInv, Reading
<1>3. TypeOK'
  <2>0. partitions \in Seq(Elements) /\ <<>> \in Seq(Elements)
    BY <1>2 DEF TypeOK, Elements
  <2>1. partitions' \in Seq(Elements) /\ Len(partitions') \in Nat
    <3>1. CASE partitions' = partitions
      BY <2>0, <3>1
    <3>2. CASE partitions' = <<>>
      BY <2>0, <3>2
    <3> QED BY <1>1, <3>1, <3>2
  <2>2. partitions_ext2' \in Seq(1 .. Len(partitions'))
    BY <1>1, <1>2
  <2>3. is_extended' \in BOOLEAN /\ incomplete' \in BOOLEAN
    BY <1>1, <1>2, Zenon DEF TypeOK
  <2> QED BY <1>1, <1>2, <2>1, <2>2, <2>3 DEF TypeOK, Elements
<1>4. NumbersGrow' /\ ListInv'
  BY <1>1 DEF IInv, NumbersGrow, IsNumbered, ListInv
<1>5. ChainInv'
  BY <1>1 DEF IInv, ChainInv
<1>6. ReadingInv' /\ FindInv' /\ TableInv' /\ DoneInv' /\ EntriesInv'
  BY <1>1, <1>2 DEF ReadingInv, Reading, FindInv, TableInv, DoneInv, EntriesInv
<1> QED BY <1>3, <1>4, <1>5, <1>6 DEF IInv

LEMMA ReadMbrInv ==
  ASSUME IInv, ReadMbr
  PROVE  IInv'
<1>1. /\ pc = "mbr" /\ pc' = "slots"
      /\ UNCHANGED <<disk, n, partitions, is_extended, offset_ext_part, offset_logic_ext, at,
                     found, partitions_ext2, partitions_ext2_count, incomplete>>
  BY DEF ReadMbr, listVars, tableVars
<1>2. TypeOK'
  BY <1>1 DEF IInv, TypeOK
<1>3. NumbersGrow' /\ ListInv' /\ ChainInv'
  BY <1>1 DEF IInv, NumbersGrow, IsNumbered, ListInv, ChainInv
<1>4. ReadingInv' /\ FindInv' /\ TableInv' /\ DoneInv' /\ EntriesInv'
  BY <1>1 DEF IInv, ReadingInv, Reading, FindInv, TableInv, DoneInv, EntriesInv
<1> QED BY <1>2, <1>3, <1>4 DEF IInv

LEMMA ReadSlotInv ==
  ASSUME IInv, ReadSlot
  PROVE  IInv'
<1> DEFINE slot == disk.slots[n]
<1>1. /\ pc = "slots" /\ pc' = "slots" /\ n \in 1 .. 4 /\ n' = n + 1
      /\ UNCHANGED <<disk, offset_logic_ext, at, found, partitions_ext2,
                     partitions_ext2_count, incomplete>>
      /\ partitions' = IF slot.type = EMPTY THEN partitions
                       ELSE Append(partitions, Partition(slot.type, slot.LBA, n))
      /\ IF slot.type \in {EXTENDED, EXTENDED_LBA}
         THEN is_extended' = TRUE /\ offset_ext_part' = slot.LBA
         ELSE UNCHANGED <<is_extended, offset_ext_part>>
  BY DEF ReadSlot, tableVars
<1>2. /\ TypeOK /\ Reading /\ at = 1 /\ found = 0
      /\ partitions_ext2 = <<>> /\ partitions_ext2_count = 0
  BY <1>1 DEF IInv, ReadingInv, Reading
<1>3. slot \in Entries /\ slot.type \in Nat /\ slot.LBA \in Nat
  <2>1. IsLayout(disk)
    BY <1>2, Layouts DEF TypeOK
  <2>2. slot \in Entries
    BY <1>1, <2>1 DEF IsLayout
  <2> QED BY <2>2 DEF Entries
<1> DEFINE new == Partition(slot.type, slot.LBA, n)
           s == IF slot.type = EMPTY THEN <<>> ELSE <<new>>
<1>4. /\ s \in Seq(Elements) /\ partitions' = partitions \o s
      /\ Len(s) > 0 => s[1].part_no = n
      /\ \A k \in 1 .. Len(s) : s[k].ext2 = "NULL" /\
           (k > 1 => s[k].part_no = 0 /\ s[k].type = EXTENDED)
  <2>1. partitions \in Seq(Elements) /\ n \in Nat
    BY <1>1, <1>2 DEF TypeOK, Elements
  <2>2. new \in Elements /\ new.part_no = n /\ new.ext2 = "NULL"
    <3>1. \A t, l, m \in Nat : /\ Partition(t, l, m) \in Elements
                               /\ Partition(t, l, m).part_no = m
                               /\ Partition(t, l, m).ext2 = "NULL"
      BY PartitionType
    <3> DEFINE t == slot.type
               l == slot.LBA
    <3>2. t \in Nat /\ l \in Nat /\ new = Partition(t, l, n)
      BY <1>3
    <3> HIDE DEF t, l, new
    <3> QED BY <2>1, <3>1, <3>2
  <2>3. partitions' = IF slot.type = EMPTY THEN partitions ELSE Append(partitions, new)
    BY <1>1
  <2> HIDE DEF new, slot
  <2>4. CASE slot.type = EMPTY
    <3>1. s = <<>> /\ partitions' = partitions
      BY <2>3, <2>4
    <3> QED BY <2>1, <3>1
  <2>5. CASE slot.type # EMPTY
    <3>1. s = <<new>> /\ partitions' = Append(partitions, new)
      BY <2>3, <2>5
    <3> QED BY <2>1, <2>2, <3>1
  <2> QED BY <2>4, <2>5
<1> HIDE DEF new, s
<1>5. /\ partitions' \in Seq(Elements) /\ n' \in Nat \ {0} /\ Len(partitions') \in Nat
      /\ NumbersGrow' /\ ListInv'
      /\ \A k \in 1 .. Len(partitions') : partitions'[k].ext2 = "NULL"
  BY <1>1, <1>2, <1>4, ListGrows
<1>6. TypeOK'
  <2>1. is_extended' \in BOOLEAN /\ offset_ext_part' \in Nat
    BY <1>1, <1>2, <1>3 DEF TypeOK
  <2>2. at' \in 1 .. Len(partitions') + 1 /\ found' \in 0 .. Len(partitions')
    BY <1>1, <1>2, <1>5
  <2>3. partitions_ext2' \in Seq(1 .. Len(partitions'))
    BY <1>1, <1>2
  <2> QED BY <1>1, <1>2, <1>5, <2>1, <2>2, <2>3 DEF TypeOK, Elements
<1>7. ChainInv'
  <2>1. CASE slot.type \in {EXTENDED, EXTENDED_LBA}
    BY <1>1, <2>1 DEF IInv, ChainInv
  <2>2. CASE slot.type \notin {EXTENDED, EXTENDED_LBA}
    BY <1>1, <2>2 DEF IInv, ChainInv
  <2> QED BY <2>1, <2>2
<1>8. ReadingInv' /\ FindInv' /\ TableInv' /\ DoneInv' /\ EntriesInv'
  BY <1>1, <1>2, <1>5 DEF ReadingInv, Reading, FindInv, TableInv, DoneInv, EntriesInv
<1> QED BY <1>5, <1>6, <1>7, <1>8 DEF IInv

LEMMA SlotsReadInv ==
  ASSUME IInv, SlotsRead
  PROVE  IInv'
<1>1. /\ pc = "slots" /\ pc' = IF is_extended THEN "ebr" ELSE "find"
      /\ disk' = disk /\ n' = n /\ partitions' = partitions
      /\ is_extended' = is_extended /\ offset_ext_part' = offset_ext_part
      /\ offset_logic_ext' = offset_logic_ext /\ at' = at /\ found' = found
      /\ partitions_ext2' = partitions_ext2
      /\ partitions_ext2_count' = partitions_ext2_count /\ incomplete' = incomplete
  BY DEF SlotsRead, listVars, tableVars
<1>2. /\ TypeOK /\ at = 1 /\ found = 0 /\ partitions_ext2 = <<>> /\ partitions_ext2_count = 0
      /\ \A k \in 1 .. Len(partitions) : partitions[k].ext2 = "NULL"
  BY <1>1 DEF IInv, ReadingInv, Reading
<1>3. TypeOK'
  <2>1. is_extended' \in BOOLEAN /\ incomplete' \in BOOLEAN
    BY <1>1, <1>2, Zenon DEF TypeOK
  <2>2. pc' \in {"ebr", "find"}
    BY <1>1
  <2> QED BY <1>1, <1>2, <2>1, <2>2 DEF TypeOK
<1>4. NumbersGrow' /\ ListInv' /\ ChainInv'
  BY <1>1 DEF IInv, NumbersGrow, IsNumbered, ListInv, ChainInv
<1>5. ReadingInv' /\ EntriesInv' /\ TableInv' /\ DoneInv'
  BY <1>1, <1>2 DEF ReadingInv, Reading, EntriesInv, TableInv, DoneInv
<1>6. FindInv'
  <2>1. Ready(partitions, at - 1)' = {} /\ Cardinality({}) = 0
    BY <1>1, <1>2, FS_EmptySet DEF Ready
  <2>2. /\ at' = 1 /\ found' = 0 /\ partitions_ext2' = <<>> /\ partitions_ext2_count' = 0
        /\ \A k \in 1 .. Len(partitions') : partitions'[k].ext2 = "NULL"
    BY <1>1, <1>2
  <2>3. Cardinality(Ready(partitions, at - 1))' = 0
    BY <2>1
  <2> QED BY <2>2, <2>3 DEF FindInv
<1> QED BY <1>3, <1>4, <1>5, <1>6 DEF IInv

LEMMA ReadEbrInv ==
  ASSUME IInv, ReadEbr
  PROVE  IInv'
<1> DEFINE base == offset_ext_part + offset_logic_ext
           s == IF Linked THEN <<Logical, Link>> ELSE <<Logical>>
<1>1. /\ pc = "ebr" /\ n' = n + 1
      /\ pc' = IF Linked THEN "ebr" ELSE "find"
      /\ disk' = disk /\ offset_ext_part' = offset_ext_part
      /\ offset_logic_ext' = IF Linked THEN record.link.LBA ELSE offset_logic_ext
      /\ Linked => is_extended' = is_extended
      /\ ~Linked => is_extended' = FALSE
      /\ at' = at /\ found' = found /\ partitions_ext2' = partitions_ext2
      /\ partitions_ext2_count' = partitions_ext2_count /\ incomplete' = incomplete
      /\ partitions' = IF Linked THEN partitions \o <<Logical, Link>>
                       ELSE Append(partitions, Logical)
  BY DEF ReadEbr, Numbered, tableVars
<1>2. /\ TypeOK /\ Reading /\ at = 1 /\ found = 0
      /\ partitions_ext2 = <<>> /\ partitions_ext2_count = 0
  BY <1>1 DEF IInv, ReadingInv, Reading
<1>3. /\ record_sector \in DOMAIN disk.ebr
      /\ record.part \in Entries /\ record.link \in Entries
  BY <1>1, RecordExists DEF IInv
<1>4. /\ record.part.type \in Nat /\ record.part.LBA \in Nat
      /\ record.link.type \in Nat /\ record.link.LBA \in Nat
      /\ offset_ext_part \in Nat /\ offset_logic_ext \in Nat /\ n \in Nat \ {0}
  BY <1>2, <1>3 DEF Entries, TypeOK
<1>5. /\ Logical \in Elements /\ Logical.part_no = n /\ Logical.ext2 = "NULL"
      /\ Link \in Elements /\ Link.part_no = 0 /\ Link.ext2 = "NULL"
      /\ Link.type = record.link.type
  <2>1. \A t, l, m \in Nat : /\ Partition(t, l, m) \in Elements
                             /\ Partition(t, l, m).type = t
                             /\ Partition(t, l, m).part_no = m
                             /\ Partition(t, l, m).ext2 = "NULL"
    BY PartitionType
  <2>2. base + record.part.LBA \in Nat /\ base + record.link.LBA \in Nat /\ n \in Nat
    BY <1>4
  <2>3. /\ Logical = Partition(record.part.type, base + record.part.LBA, n)
        /\ Link = Partition(record.link.type, base + record.link.LBA, 0)
    BY DEF Logical, Link
  <2>4. Logical \in Elements /\ Logical.part_no = n /\ Logical.ext2 = "NULL"
    <3> DEFINE t == record.part.type
               l == base + record.part.LBA
    <3>1. t \in Nat /\ l \in Nat /\ Logical = Partition(t, l, n)
      BY <1>4, <2>2, <2>3
    <3> HIDE DEF t, l
    <3> QED BY <2>1, <2>2, <3>1
  <2>5. /\ Link \in Elements /\ Link.part_no = 0 /\ Link.ext2 = "NULL"
        /\ Link.type = record.link.type
    <3> DEFINE t == record.link.type
               l == base + record.link.LBA
    <3>1. t \in Nat /\ l \in Nat /\ Link = Partition(t, l, 0)
      BY <1>4, <2>2, <2>3
    <3>2. Link.type = record.link.type <=> Link.type = t
      OBVIOUS
    <3> HIDE DEF t, l
    <3> QED BY <2>1, <3>1, <3>2
  <2> QED BY <2>4, <2>5
<1>6. /\ s \in Seq(Elements) /\ partitions' = partitions \o s
      /\ Len(s) > 0 => s[1].part_no = n
      /\ \A k \in 1 .. Len(s) : s[k].ext2 = "NULL" /\
           (k > 1 => s[k].part_no = 0 /\ s[k].type = EXTENDED)
  <2>1. partitions \in Seq(Elements)
    BY <1>2 DEF TypeOK, Elements
  <2>2. CASE Linked
    <3>1. s = <<Logical, Link>> /\ partitions' = partitions \o <<Logical, Link>>
      BY <1>1, <2>2
    <3>2. Link.type = EXTENDED
      BY <1>5, <2>2 DEF Linked
    <3> HIDE DEF s
    <3>3. /\ s \in Seq(Elements) /\ Len(s) = 2 /\ s[1] = Logical /\ s[2] = Link
          /\ partitions' = partitions \o s
      BY <1>5, <3>1
    <3>4. \A k \in 1 .. Len(s) : k = 1 \/ k = 2
      BY <3>3
    <3> QED BY <1>5, <3>2, <3>3, <3>4
  <2>3. CASE ~Linked
    <3>1. s = <<Logical>> /\ partitions' = Append(partitions, Logical)
      BY <1>1, <2>3
    <3> HIDE DEF s
    <3>2. s \in Seq(Elements) /\ Len(s) = 1 /\ s[1] = Logical
      BY <1>5, <3>1
    <3>3. partitions' = partitions \o s
      BY <1>5, <2>1, <3>1
    <3>4. \A k \in 1 .. Len(s) : k = 1
      BY <3>2
    <3> QED BY <1>5, <3>2, <3>3, <3>4
  <2> QED BY <2>2, <2>3
<1> HIDE DEF s
<1>7. /\ partitions' \in Seq(Elements) /\ n' \in Nat \ {0} /\ Len(partitions') \in Nat
      /\ NumbersGrow' /\ ListInv'
      /\ \A k \in 1 .. Len(partitions') : partitions'[k].ext2 = "NULL"
  <2>1. Reading /\ n' = n + 1
    BY <1>1, <1>2
  <2> QED BY <1>6, <2>1, ListGrows
<1>8. TypeOK'
  <2>1. is_extended' \in BOOLEAN
    <3>1. CASE Linked
      BY <1>1, <1>2, <3>1, Zenon DEF TypeOK
    <3>2. CASE ~Linked
      BY <1>1, <3>2, Zenon
    <3> QED BY <3>1, <3>2
  <2>2. incomplete' \in BOOLEAN
    BY <1>1, <1>2, Zenon DEF TypeOK
  <2>3. offset_logic_ext' \in Nat
    BY <1>1, <1>4
  <2>4. at' \in 1 .. Len(partitions') + 1 /\ found' \in 0 .. Len(partitions')
    BY <1>1, <1>2, <1>7
  <2>5. partitions_ext2' \in Seq(1 .. Len(partitions'))
    BY <1>1, <1>2
  <2>6. pc' \in {"ebr", "find"}
    BY <1>1
  <2> QED BY <1>1, <1>2, <1>7, <2>1, <2>2, <2>3, <2>4, <2>5, <2>6 DEF TypeOK, Elements
<1>9. ChainInv'
  <2>1. CASE Linked
    <3>1. /\ disk' = disk /\ offset_ext_part' = offset_ext_part /\ is_extended' = is_extended
          /\ pc' = "ebr" /\ offset_logic_ext' = record.link.LBA
          /\ record.link.type = EXTENDED
      BY <1>1, <2>1 DEF Linked
    <3>2. record = disk.ebr[record_sector]
      BY DEF record
    <3> QED BY <1>1, <1>3, <3>1, <3>2 DEF IInv, ChainInv
  <2>2. CASE ~Linked
    <3>1. /\ disk' = disk /\ is_extended' = FALSE /\ pc' = "find"
          /\ offset_logic_ext' = offset_logic_ext
      BY <1>1, <2>2
    <3> QED BY <3>1 DEF IInv, ChainInv
  <2> QED BY <2>1, <2>2
<1>10. ReadingInv' /\ EntriesInv' /\ TableInv' /\ DoneInv'
  BY <1>1, <1>2, <1>7 DEF ReadingInv, Reading, EntriesInv, TableInv, DoneInv
<1>11. FindInv'
  <2>1. Ready(partitions, at - 1)' = {} /\ Cardinality({}) = 0
    BY <1>1, <1>2, FS_EmptySet DEF Ready
  <2>2. /\ at' = 1 /\ found' = 0 /\ partitions_ext2' = <<>> /\ partitions_ext2_count' = 0
        /\ \A k \in 1 .. Len(partitions') : partitions'[k].ext2 = "NULL"
    BY <1>1, <1>2, <1>7
  <2>3. Cardinality(Ready(partitions, at - 1))' = 0
    BY <2>1
  <2> QED BY <2>2, <2>3 DEF FindInv
<1> QED BY <1>7, <1>8, <1>9, <1>10, <1>11 DEF IInv

-----------------------------------------------------------------------------
(* The superblocks that were read can be counted. *)
LEMMA ReadyFinite ==
  ASSUME NEW list, NEW k \in Nat
  PROVE  IsFiniteSet(Ready(list, k)) /\ Cardinality(Ready(list, k)) \in Nat
<1>1. IsFiniteSet(1 .. k)
  BY FS_Interval
<1>2. Ready(list, k) \subseteq 1 .. k
  BY DEF Ready
<1> QED BY <1>1, <1>2, FS_Subset, FS_CardinalityType

(* One more element is counted exactly when its superblock was read. *)
LEMMA ReadyNext ==
  ASSUME NEW list \in Seq(Elements), NEW k \in 1 .. Len(list)
  PROVE  Cardinality(Ready(list, k)) =
           Cardinality(Ready(list, k - 1)) + (IF list[k].ext2 = "ready" THEN 1 ELSE 0)
<1>1. k \in Nat /\ k - 1 \in Nat /\ k <= Len(list)
  OBVIOUS
<1>2. /\ IsFiniteSet(Ready(list, k - 1)) /\ Cardinality(Ready(list, k - 1)) \in Nat
      /\ k \notin Ready(list, k - 1)
  <2>1. IsFiniteSet(Ready(list, k - 1)) /\ Cardinality(Ready(list, k - 1)) \in Nat
    BY <1>1, ReadyFinite
  <2>2. k \notin Ready(list, k - 1)
    BY <1>1 DEF Ready
  <2> QED BY <2>1, <2>2
<1>3. CASE list[k].ext2 = "ready"
  <2>1. Ready(list, k) = Ready(list, k - 1) \cup {k}
    BY <1>1, <1>3 DEF Ready
  <2> QED BY <1>2, <1>3, <2>1, FS_AddElement
<1>4. CASE list[k].ext2 # "ready"
  <2>1. Ready(list, k) = Ready(list, k - 1)
    BY <1>1, <1>4 DEF Ready
  <2> QED BY <1>2, <1>4, <2>1
<1> QED BY <1>3, <1>4

LEMMA FindInvKept ==
  ASSUME IInv, find_linux_partitions
  PROVE  IInv'
<1>1. /\ pc = "find" /\ pc' = "find" /\ at <= Len(partitions) /\ at' = at + 1
      /\ disk' = disk /\ n' = n /\ is_extended' = is_extended
      /\ offset_ext_part' = offset_ext_part /\ offset_logic_ext' = offset_logic_ext
      /\ partitions_ext2' = partitions_ext2 /\ partitions_ext2_count' = partitions_ext2_count
  BY DEF find_linux_partitions
<1>2. /\ TypeOK /\ partitions \in Seq(Elements) /\ at \in 1 .. Len(partitions)
      /\ found \in Nat /\ found <= at - 1 /\ Len(partitions) \in Nat
      /\ partitions_ext2 = <<>> /\ partitions_ext2_count = 0
      /\ \A k \in 1 .. Len(partitions) : at <= k => partitions[k].ext2 = "NULL"
      /\ found = Cardinality(Ready(partitions, at - 1))
  <2>1. TypeOK /\ FindInv
    BY DEF IInv
  <2>2. partitions \in Seq(Elements) /\ at \in 1 .. Len(partitions) + 1 /\ found \in Nat
    BY <2>1 DEF TypeOK, Elements
  <2> QED BY <1>1, <2>1, <2>2 DEF FindInv
<1>3. /\ incomplete' \in BOOLEAN
      /\ \E x \in {"NULL", "ready", "freed"} :
           /\ x # "NULL" => partitions[at].type = LINUX
           /\ found' = found + (IF x = "ready" THEN 1 ELSE 0)
           /\ partitions' = [partitions EXCEPT ![at] = [@ EXCEPT !.ext2 = x]]
  <2>1. CASE partitions[at].type # LINUX
    <3>1. partitions' = partitions /\ found' = found /\ incomplete' = incomplete
      BY <2>1 DEF find_linux_partitions
    <3>2. partitions[at] \in Elements /\ partitions[at].ext2 = "NULL"
      BY <1>2
    <3>3. [partitions[at] EXCEPT !.ext2 = "NULL"] = partitions[at]
      BY <3>2 DEF Elements
    <3>4. partitions = [partitions EXCEPT ![at] = [@ EXCEPT !.ext2 = "NULL"]]
      BY <1>2, <3>3
    <3>5. incomplete' \in BOOLEAN
      BY <1>2, <3>1, Zenon DEF TypeOK
    <3>6. found' = found + 0
      BY <1>2, <3>1
    <3> QED BY <3>1, <3>4, <3>5, <3>6
  <2>2. CASE partitions[at].type = LINUX
    <3>1. get_ext2_sb
      BY <2>2 DEF find_linux_partitions
    <3>2. incomplete' \in BOOLEAN
      <4>1. incomplete' = TRUE \/ incomplete' = incomplete
        BY <3>1, Zenon DEF get_ext2_sb
      <4> QED BY <1>2, <4>1, Zenon DEF TypeOK
    <3>3. \E x \in {"NULL", "ready", "freed"} : Examine(x, x = "ready")
      <4>1. CASE Examine("freed", FALSE)
        BY <4>1 DEF Examine
      <4>2. CASE Examine("NULL", FALSE)
        BY <4>2 DEF Examine
      <4>3. CASE Examine("ready", TRUE)
        BY <4>3 DEF Examine
      <4> QED BY <3>1, <4>1, <4>2, <4>3, Zenon DEF get_ext2_sb
    <3>4. PICK x \in {"NULL", "ready", "freed"} : Examine(x, x = "ready")
      BY <3>3
    <3>5. partitions' = [partitions EXCEPT ![at] = [@ EXCEPT !.ext2 = x]]
      BY <3>4 DEF Examine
    <3>6. found' = found + (IF x = "ready" THEN 1 ELSE 0)
      BY <1>2, <3>4 DEF Examine
    <3> QED BY <2>2, <3>2, <3>5, <3>6
  <2> QED BY <2>1, <2>2
<1>4. PICK x \in {"NULL", "ready", "freed"} :
        /\ x # "NULL" => partitions[at].type = LINUX
        /\ found' = found + (IF x = "ready" THEN 1 ELSE 0)
        /\ partitions' = [partitions EXCEPT ![at] = [@ EXCEPT !.ext2 = x]]
  BY <1>3
<1>5. /\ partitions' \in Seq(Elements) /\ Len(partitions') = Len(partitions)
      /\ \A k \in 1 .. Len(partitions) : k # at => partitions'[k] = partitions[k]
      /\ partitions'[at].type = partitions[at].type
      /\ partitions'[at].part_no = partitions[at].part_no
      /\ partitions'[at].ext2 = x
  <2> DEFINE new == [partitions[at] EXCEPT !.ext2 = x]
  <2>1. /\ new \in Elements /\ new.type = partitions[at].type
        /\ new.part_no = partitions[at].part_no /\ new.ext2 = x
    <3>1. partitions[at] \in Elements
      BY <1>2
    <3> QED BY <1>4, <3>1 DEF Elements
  <2>2. partitions' = [partitions EXCEPT ![at] = new]
    BY <1>4
  <2> HIDE DEF new
  <2> QED BY <1>2, <2>1, <2>2
<1>6. TypeOK'
  <2>1. at' \in 1 .. Len(partitions') + 1 /\ found' \in 0 .. Len(partitions')
    BY <1>1, <1>2, <1>4, <1>5
  <2>2. partitions_ext2' \in Seq(1 .. Len(partitions'))
    BY <1>1, <1>2
  <2>3. is_extended' \in BOOLEAN /\ incomplete' \in BOOLEAN
    BY <1>1, <1>2, <1>3, Zenon DEF TypeOK
  <2> QED BY <1>1, <1>2, <1>5, <2>1, <2>2, <2>3 DEF TypeOK, Elements
<1>7. \A k \in 1 .. Len(partitions') :
        /\ k \in 1 .. Len(partitions)
        /\ partitions'[k].part_no = partitions[k].part_no
        /\ partitions'[k].type = partitions[k].type
        /\ k # at => partitions'[k].ext2 = partitions[k].ext2
  BY <1>2, <1>5
<1>8. NumbersGrow'
  BY <1>7 DEF IInv, NumbersGrow, IsNumbered
<1>9. ListInv'
  <2> SUFFICES ASSUME NEW k \in 1 .. Len(partitions')
               PROVE  /\ partitions'[k].part_no < n
                      /\ partitions'[k].part_no = 0 => partitions'[k].type = EXTENDED
                      /\ partitions'[k].ext2 # "NULL" => partitions'[k].type = LINUX
    BY <1>1 DEF ListInv
  <2>1. /\ partitions[k].part_no < n
        /\ partitions[k].part_no = 0 => partitions[k].type = EXTENDED
        /\ partitions[k].ext2 # "NULL" => partitions[k].type = LINUX
    BY <1>7 DEF IInv, ListInv
  <2> QED BY <1>4, <1>5, <1>7, <2>1
<1>10. ChainInv'
  BY <1>1 DEF IInv, ChainInv
<1>11. ReadingInv' /\ TableInv' /\ DoneInv' /\ EntriesInv'
  <2>1. pc' = "find" /\ partitions_ext2' = <<>>
    BY <1>1, <1>2
  <2> QED BY <2>1 DEF ReadingInv, Reading, TableInv, DoneInv, EntriesInv
<1>12. FindInv'
  <2>1. Ready(partitions', at - 1) = Ready(partitions, at - 1)
    <3>1. \A e \in 1 .. at - 1 : e <= Len(partitions) /\ partitions'[e] = partitions[e]
      BY <1>2, <1>5
    <3> QED BY <1>5, <3>1 DEF Ready
  <2>2. Cardinality(Ready(partitions', at)) =
          Cardinality(Ready(partitions', at - 1)) + (IF x = "ready" THEN 1 ELSE 0)
    BY <1>2, <1>5, ReadyNext
  <2>3. found' = Cardinality(Ready(partitions', at' - 1)) /\ found' <= at' - 1
    <3>1. at' - 1 = at
      BY <1>1, <1>2
    <3> QED BY <1>2, <1>4, <2>1, <2>2, <3>1
  <2>4. \A k \in 1 .. Len(partitions') : at' <= k => partitions'[k].ext2 = "NULL"
    BY <1>1, <1>2, <1>7
  <2>5. partitions_ext2' = <<>> /\ partitions_ext2_count' = 0
    BY <1>1, <1>2
  <2> QED BY <2>3, <2>4, <2>5 DEF FindInv
<1> QED BY <1>6, <1>8, <1>9, <1>10, <1>11, <1>12 DEF IInv

LEMMA FoundAllInv ==
  ASSUME IInv, FoundAll
  PROVE  IInv'
<1>1. /\ pc = "find" /\ at > Len(partitions) /\ partitions_ext2_count' = found /\ at' = 1
      /\ pc' = IF found = 0 THEN "done" ELSE "table"
      /\ disk' = disk /\ n' = n /\ partitions' = partitions
      /\ is_extended' = is_extended /\ offset_ext_part' = offset_ext_part
      /\ offset_logic_ext' = offset_logic_ext /\ found' = found
      /\ partitions_ext2' = partitions_ext2 /\ incomplete' = incomplete
  BY DEF FoundAll, Counted, listVars
<1>2. /\ TypeOK /\ partitions_ext2 = <<>> /\ found \in Nat
      /\ found = Cardinality(Ready(partitions, at - 1))
      /\ at - 1 = Len(partitions) /\ Len(partitions) \in Nat
  <2>1. TypeOK /\ FindInv
    BY DEF IInv
  <2>2. partitions \in Seq(Elements) /\ at \in 1 .. Len(partitions) + 1 /\ found \in Nat
    BY <2>1 DEF TypeOK, Elements
  <2> QED BY <1>1, <2>1, <2>2 DEF FindInv
<1>3. TypeOK'
  <2>1. is_extended' \in BOOLEAN /\ incomplete' \in BOOLEAN
    BY <1>1, <1>2, Zenon DEF TypeOK
  <2>2. pc' \in {"done", "table"} /\ at' \in 1 .. Len(partitions') + 1
    BY <1>1, <1>2
  <2>3. /\ disk \in Disks /\ n \in Nat \ {0} /\ partitions \in Seq(Elements)
        /\ offset_ext_part \in Nat /\ offset_logic_ext \in Nat
        /\ found \in 0 .. Len(partitions) /\ partitions_ext2 \in Seq(1 .. Len(partitions))
    BY <1>2 DEF TypeOK, Elements
  <2> QED BY <1>1, <1>2, <2>1, <2>2, <2>3 DEF TypeOK, Elements
<1>4. NumbersGrow' /\ ListInv' /\ ChainInv'
  BY <1>1 DEF IInv, NumbersGrow, IsNumbered, ListInv, ChainInv
<1>5. ReadingInv' /\ FindInv' /\ EntriesInv'
  BY <1>1, <1>2 DEF ReadingInv, Reading, FindInv, EntriesInv
<1>6. TableInv'
  <2>1. Ready(partitions, 0) = {} /\ Cardinality({}) = 0
    BY FS_EmptySet DEF Ready
  <2>2. /\ partitions' = partitions /\ partitions_ext2' = <<>> /\ at' = 1
        /\ partitions_ext2_count' = Cardinality(Ready(partitions, Len(partitions)))
    BY <1>1, <1>2
  <2>3. at' - 1 = 0 /\ Len(partitions_ext2') = 0
    BY <2>2
  <2>4. Cardinality(Ready(partitions', at' - 1)) = 0
    BY <2>1, <2>2, <2>3
  <2>5. partitions_ext2_count' = Cardinality(Ready(partitions', Len(partitions')))
    BY <2>2
  <2>6. \A k \in 1 .. Len(partitions_ext2') : partitions_ext2'[k] < at'
    BY <2>3
  <2> QED BY <2>3, <2>4, <2>5, <2>6 DEF TableInv
<1>7. DoneInv'
  <2>1. pc' = "done" => partitions_ext2_count' = 0 /\ partitions_ext2' = <<>>
    BY <1>1, <1>2
  <2> QED BY <2>1 DEF DoneInv
<1> QED BY <1>3, <1>4, <1>5, <1>6, <1>7 DEF IInv

LEMMA TableInvKept ==
  ASSUME IInv, ext2_partitions_init
  PROVE  IInv'
<1>1. /\ pc = "table" /\ pc' = "table" /\ at <= Len(partitions) /\ at' = at + 1
      /\ disk' = disk /\ n' = n /\ partitions' = partitions
      /\ is_extended' = is_extended /\ offset_ext_part' = offset_ext_part
      /\ offset_logic_ext' = offset_logic_ext /\ found' = found
      /\ partitions_ext2_count' = partitions_ext2_count /\ incomplete' = incomplete
  BY DEF ext2_partitions_init, listVars
<1>2. /\ TypeOK /\ partitions \in Seq(Elements) /\ at \in 1 .. Len(partitions)
      /\ at \in Nat /\ Len(partitions) \in Nat
      /\ partitions_ext2 \in Seq(1 .. Len(partitions)) /\ Len(partitions_ext2) \in Nat
  <2>1. TypeOK
    BY DEF IInv
  <2>2. /\ partitions \in Seq(Elements) /\ at \in 1 .. Len(partitions) + 1
        /\ partitions_ext2 \in Seq(1 .. Len(partitions))
    BY <2>1 DEF TypeOK, Elements
  <2> QED BY <1>1, <2>1, <2>2
(* Whether the partition is taken into the table. *)
<1>3. PICK b \in BOOLEAN :
        /\ partitions_ext2' = IF b THEN Append(partitions_ext2, at) ELSE partitions_ext2
        /\ b => partitions[at].type = LINUX
        /\ NoneFreed => (b <=> partitions[at].ext2 = "ready")
  <2>1. PICK compatible \in LooksCompatible(partitions[at].ext2) :
          partitions_ext2' = IF partitions[at].type = LINUX /\ compatible
                             THEN Append(partitions_ext2, at) ELSE partitions_ext2
    BY DEF ext2_partitions_init
  <2> DEFINE b == partitions[at].type = LINUX /\ compatible
  <2>2. b \in BOOLEAN
    <3>1. compatible \in BOOLEAN
      <4>1. LooksCompatible(partitions[at].ext2) \subseteq BOOLEAN
        BY DEF LooksCompatible
      <4> QED BY <2>1, <4>1
    <3> QED BY <3>1
  <2>3. NoneFreed => (b <=> partitions[at].ext2 = "ready")
    <3> SUFFICES ASSUME NoneFreed PROVE b <=> partitions[at].ext2 = "ready"
      OBVIOUS
    <3>1. partitions[at].ext2 \in {"NULL", "ready"}
      <4>1. partitions[at] \in Elements
        BY <1>2
      <4> QED BY <1>2, <4>1 DEF NoneFreed, Elements
    <3>2. CASE partitions[at].ext2 = "ready"
      <4>1. partitions[at].type = LINUX
        BY <1>2, <3>2 DEF IInv, ListInv
      <4>2. compatible = TRUE
        BY <2>1, <3>2 DEF LooksCompatible
      <4> QED BY <3>2, <4>1, <4>2
    <3>3. CASE partitions[at].ext2 = "NULL"
      <4>1. compatible = FALSE
        BY <2>1, <3>3 DEF LooksCompatible
      <4> QED BY <3>3, <4>1
    <3> QED BY <3>1, <3>2, <3>3
  <2>4. b => partitions[at].type = LINUX
    OBVIOUS
  <2>5. partitions_ext2' = IF b THEN Append(partitions_ext2, at) ELSE partitions_ext2
    BY <2>1
  <2> HIDE DEF b
  <2> QED BY <2>2, <2>3, <2>4, <2>5
<1>4. /\ partitions_ext2' \in Seq(1 .. Len(partitions))
      /\ Len(partitions_ext2') = Len(partitions_ext2) + (IF b THEN 1 ELSE 0)
      /\ \A k \in 1 .. Len(partitions_ext2') :
           \/ k \in 1 .. Len(partitions_ext2) /\ partitions_ext2'[k] = partitions_ext2[k]
           \/ b /\ k = Len(partitions_ext2) + 1 /\ partitions_ext2'[k] = at
  <2>1. CASE b
    <3>1. partitions_ext2' = Append(partitions_ext2, at)
      BY <1>3, <2>1
    <3> QED BY <1>2, <2>1, <3>1
  <2>2. CASE ~b
    <3>1. partitions_ext2' = partitions_ext2
      BY <1>3, <2>2
    <3> QED BY <1>2, <2>2, <3>1
  <2> QED BY <2>1, <2>2
<1>5. TypeOK'
  <2>1. is_extended' \in BOOLEAN /\ incomplete' \in BOOLEAN
    BY <1>1, <1>2, Zenon DEF TypeOK
  <2>2. at' \in 1 .. Len(partitions') + 1
    BY <1>1, <1>2
  <2>3. /\ disk \in Disks /\ n \in Nat \ {0} /\ partitions_ext2_count \in Nat
        /\ offset_ext_part \in Nat /\ offset_logic_ext \in Nat
        /\ found \in 0 .. Len(partitions)
    BY <1>2 DEF TypeOK
  <2> QED BY <1>1, <1>2, <1>4, <2>1, <2>2, <2>3 DEF TypeOK, Elements
<1>6. NumbersGrow' /\ ListInv' /\ ChainInv'
  BY <1>1 DEF IInv, NumbersGrow, IsNumbered, ListInv, ChainInv
<1>7. ReadingInv' /\ FindInv' /\ DoneInv'
  <2>1. pc' = "table"
    BY <1>1
  <2> QED BY <2>1 DEF ReadingInv, Reading, FindInv, DoneInv
<1>8. /\ \A k \in 1 .. Len(partitions_ext2) : partitions_ext2[k] < at
      /\ NoneFreed => Len(partitions_ext2) = Cardinality(Ready(partitions, at - 1))
      /\ partitions_ext2_count = Cardinality(Ready(partitions, Len(partitions)))
  BY <1>1 DEF IInv, TableInv
<1>9. TableInv'
  <2>1. NoneFreed' => Len(partitions_ext2') = Cardinality(Ready(partitions, at' - 1))
    <3> SUFFICES ASSUME NoneFreed' PROVE Len(partitions_ext2') = Cardinality(Ready(partitions, at' - 1))
      OBVIOUS
    <3>1. NoneFreed
      BY <1>1 DEF NoneFreed
    <3>2. Cardinality(Ready(partitions, at)) =
            Cardinality(Ready(partitions, at - 1)) + (IF partitions[at].ext2 = "ready" THEN 1 ELSE 0)
      BY <1>2, ReadyNext
    <3>3. at' - 1 = at
      BY <1>1, <1>2
    <3> QED BY <1>3, <1>4, <1>8, <3>1, <3>2, <3>3
  <2>2. \A k \in 1 .. Len(partitions_ext2') : partitions_ext2'[k] < at'
    <3> SUFFICES ASSUME NEW k \in 1 .. Len(partitions_ext2') PROVE partitions_ext2'[k] < at'
      OBVIOUS
    <3>1. partitions_ext2'[k] \in 1 .. Len(partitions)
      BY <1>4
    <3>2. partitions_ext2'[k] <= at
      BY <1>2, <1>4, <1>8, <3>1
    <3> QED BY <1>1, <1>2, <3>1, <3>2
  <2>3. partitions_ext2_count' = Cardinality(Ready(partitions, Len(partitions)))
    BY <1>1, <1>8
  <2> QED BY <1>1, <2>1, <2>2, <2>3 DEF TableInv
<1>10. EntriesInv'
  <2>1. ASSUME NEW k \in 1 .. Len(partitions_ext2')
        PROVE  /\ partitions[partitions_ext2'[k]].type = LINUX
               /\ NoneFreed => partitions[partitions_ext2'[k]].ext2 = "ready"
    <3>1. CASE k \in 1 .. Len(partitions_ext2) /\ partitions_ext2'[k] = partitions_ext2[k]
      BY <3>1 DEF IInv, EntriesInv
    <3>2. CASE b /\ partitions_ext2'[k] = at
      BY <1>3, <3>2
    <3> QED BY <1>4, <3>1, <3>2
  <2>2. ASSUME NEW k \in 1 .. Len(partitions_ext2'), NEW l \in 1 .. Len(partitions_ext2'), k < l
        PROVE  partitions_ext2'[k] < partitions_ext2'[l]
    <3>1. k \in 1 .. Len(partitions_ext2) /\ partitions_ext2'[k] = partitions_ext2[k]
      BY <1>2, <1>4, <2>2
    <3>2. CASE l \in 1 .. Len(partitions_ext2) /\ partitions_ext2'[l] = partitions_ext2[l]
      BY <2>2, <3>1, <3>2 DEF IInv, EntriesInv
    <3>3. CASE partitions_ext2'[l] = at
      BY <1>8, <3>1, <3>3
    <3> QED BY <1>4, <3>2, <3>3
  <2>3. NoneFreed' <=> NoneFreed
    BY <1>1 DEF NoneFreed
  <2> QED BY <1>1, <2>1, <2>2, <2>3 DEF EntriesInv
<1> QED BY <1>5, <1>6, <1>7, <1>9, <1>10 DEF IInv

LEMMA TableFilledInv ==
  ASSUME IInv, TableFilled
  PROVE  IInv'
<1>1. /\ pc = "table" /\ pc' = "done" /\ at > Len(partitions)
      /\ disk' = disk /\ n' = n /\ partitions' = partitions
      /\ is_extended' = is_extended /\ offset_ext_part' = offset_ext_part
      /\ offset_logic_ext' = offset_logic_ext /\ found' = found /\ at' = at
      /\ partitions_ext2' = partitions_ext2
      /\ partitions_ext2_count' = partitions_ext2_count /\ incomplete' = incomplete
  BY DEF TableFilled, listVars, tableVars
<1>2. TypeOK /\ at - 1 = Len(partitions)
  <2>1. TypeOK
    BY DEF IInv
  <2>2. partitions \in Seq(Elements) /\ at \in 1 .. Len(partitions) + 1
    BY <2>1 DEF TypeOK, Elements
  <2> QED BY <1>1, <2>1, <2>2
<1>3. TypeOK'
  <2>1. is_extended' \in BOOLEAN /\ incomplete' \in BOOLEAN
    BY <1>1, <1>2, Zenon DEF TypeOK
  <2> QED BY <1>1, <1>2, <2>1 DEF TypeOK
<1>4. NumbersGrow' /\ ListInv' /\ ChainInv'
  BY <1>1 DEF IInv, NumbersGrow, IsNumbered, ListInv, ChainInv
<1>5. ReadingInv' /\ FindInv' /\ TableInv'
  <2>1. pc' = "done"
    BY <1>1
  <2> QED BY <2>1 DEF ReadingInv, Reading, FindInv, TableInv
<1>6. EntriesInv'
  BY <1>1 DEF IInv, EntriesInv, NoneFreed
<1>7. DoneInv'
  <2>1. NoneFreed => Len(partitions_ext2) = partitions_ext2_count
    BY <1>1, <1>2 DEF IInv, TableInv
  <2> QED BY <1>1, <2>1 DEF DoneInv, NoneFreed
<1> QED BY <1>3, <1>4, <1>5, <1>6, <1>7 DEF IInv

-----------------------------------------------------------------------------
(* The invariant holds in every reachable state. *)
THEOREM InductiveInvariant == Spec => []IInv
<1>1. IInv /\ [Next]_vars => IInv'
  <2> SUFFICES ASSUME IInv, [Next]_vars PROVE IInv'
    OBVIOUS
  <2>1. CASE UNCHANGED vars
    <3>1. /\ disk' = disk /\ pc' = pc /\ n' = n /\ partitions' = partitions
          /\ is_extended' = is_extended /\ offset_ext_part' = offset_ext_part
          /\ offset_logic_ext' = offset_logic_ext /\ found' = found /\ at' = at
          /\ partitions_ext2' = partitions_ext2
          /\ partitions_ext2_count' = partitions_ext2_count /\ incomplete' = incomplete
      BY <2>1 DEF vars, listVars, tableVars
    <3>2. TypeOK'
      <4>1. is_extended' \in BOOLEAN /\ incomplete' \in BOOLEAN
        BY <3>1, Zenon DEF IInv, TypeOK
      <4> QED BY <3>1, <4>1 DEF IInv, TypeOK
    <3>3. NumbersGrow' /\ ListInv' /\ ChainInv'
      BY <3>1 DEF IInv, NumbersGrow, IsNumbered, ListInv, ChainInv
    <3>4. ReadingInv' /\ EntriesInv' /\ DoneInv'
      BY <3>1 DEF IInv, ReadingInv, Reading, EntriesInv, DoneInv, NoneFreed
    <3>5. FindInv'
      BY <3>1 DEF IInv, FindInv
    <3>6. TableInv'
      <4>1. NoneFreed' <=> NoneFreed
        BY <3>1 DEF NoneFreed
      <4> QED BY <3>1, <4>1 DEF IInv, TableInv
    <3> QED BY <3>2, <3>3, <3>4, <3>5, <3>6 DEF IInv
  <2> QED BY <2>1, GiveUpInv, ReadMbrInv, ReadSlotInv, SlotsReadInv, ReadEbrInv, FindInvKept,
             FoundAllInv, TableInvKept, TableFilledInv DEF Next
<1> QED BY <1>1, InitInv, PTL DEF Spec

(* The type invariant: in particular every record that is followed lies in a
   sector that the entries of the disk lead to, and the table indexes the list. *)
THEOREM TypeCorrect == Spec => []TypeOK
<1>1. IInv => TypeOK
  BY DEF IInv
<1> QED BY <1>1, InductiveInvariant, PTL

(* make_partitions_list gives no number twice, and the numbers grow along
   the list, for chains of records of any length. *)
THEOREM NumbersCorrect == Spec => []NumbersGrow
<1>1. IInv => NumbersGrow
  BY DEF IInv
<1> QED BY <1>1, InductiveInvariant, PTL

(* The walk of find_linux_partitions and the one of ext2_partitions_init
   agree on every disk whose superblocks could be read. *)
THEOREM TableCorrect == Spec => []ReadTableIsUsable
<1>1. IInv => ReadTableIsUsable
  <2> SUFFICES ASSUME IInv, NoneFreed, pc = "done" PROVE
        /\ Len(partitions_ext2) = partitions_ext2_count
        /\ \A k \in 1 .. Len(partitions_ext2) : partitions[partitions_ext2[k]].ext2 = "ready"
    BY DEF ReadTableIsUsable, TableIsUsable, NoneFreed
  <2> QED BY DEF IInv, DoneInv, EntriesInv
<1> QED BY <1>1, InductiveInvariant, PTL

(* The numbers grow along the table, too: what search_system_for_linux_ext2_-
   partitions and validate_disk_and_part_no read as the largest number, the
   number of the last partition, is the largest. *)
THEOREM LastIsLargest == Spec => []TableGrows
<1>1. IInv => TableGrows
  <2> SUFFICES ASSUME IInv PROVE TableGrows
    OBVIOUS
  <2>1. /\ TypeOK /\ partitions \in Seq(Elements)
        /\ partitions_ext2 \in Seq(1 .. Len(partitions))
    BY DEF IInv, TypeOK, Elements
  <2>2. ASSUME NEW k \in 1 .. Len(partitions_ext2)
        PROVE  /\ partitions_ext2[k] \in 1 .. Len(partitions)
               /\ partitions[partitions_ext2[k]].part_no > 0
    <3>1. partitions_ext2[k] \in 1 .. Len(partitions)
      BY <2>1
    <3>2. partitions[partitions_ext2[k]] \in Elements
      BY <2>1, <3>1
    <3>3. partitions[partitions_ext2[k]].part_no \in Nat
      BY <3>2 DEF Elements
    <3>4. partitions[partitions_ext2[k]].type = LINUX
      BY DEF IInv, EntriesInv
    <3>5. partitions[partitions_ext2[k]].part_no # 0
      BY <3>1, <3>4 DEF IInv, ListInv, LINUX, EXTENDED
    <3> QED BY <3>1, <3>3, <3>5
  <2>3. ASSUME NEW k \in 1 .. Len(partitions_ext2), NEW l \in 1 .. Len(partitions_ext2), k < l
        PROVE  partitions[partitions_ext2[k]].part_no < partitions[partitions_ext2[l]].part_no
    <3>1. partitions_ext2[k] < partitions_ext2[l]
      BY <2>3 DEF IInv, EntriesInv
    <3>2. /\ partitions_ext2[k] \in 1 .. Len(partitions)
          /\ partitions_ext2[l] \in 1 .. Len(partitions)
          /\ partitions[partitions_ext2[k]].part_no > 0
          /\ partitions[partitions_ext2[l]].part_no > 0
      BY <2>2
    <3> QED BY <3>1, <3>2 DEF IInv, NumbersGrow, IsNumbered
  <2> QED BY <2>2, <2>3 DEF TableGrows
<1> QED BY <1>1, InductiveInvariant, PTL

-----------------------------------------------------------------------------
(* The chain of records, as the format defines it.  RecordAt is defined by
   recursion: that there is such a function follows from the pieces of it,
   which can be continued one by one and agree with each other. *)

(* The first sectors of the chain, as many as len. *)
IsPiece(d, c, len) ==
  /\ c = [k \in 1 .. len |-> c[k]]
  /\ c[1] = Start(d)
  /\ \A k \in 1 .. len : k < len => c[k + 1] = Start(d) + d.ebr[c[k]].link.LBA

(* Every set of natural numbers that is not empty has a least element. *)
LEMMA LeastNumber ==
  ASSUME NEW S \in SUBSET Nat, S # {}
  PROVE  \E k \in S : \A j \in S : k <= j
<1>1. PICK k \in S : \A j \in S : ~(<<j, k>> \in OpToRel(<, Nat))
  BY NatLessThanWellFounded, WFMin
<1>2. \A j \in S : j \in Nat /\ k \in Nat
  OBVIOUS
<1>3. \A j \in S : ~(j < k)
  BY <1>1, <1>2 DEF OpToRel
<1> QED BY <1>2, <1>3

LEMMA PieceExists ==
  ASSUME NEW d, NEW len \in Nat \ {0}
  PROVE  \E c : IsPiece(d, c, len)
<1> DEFINE Bad == {k \in Nat \ {0} : ~ \E c : IsPiece(d, c, k)}
<1>1. ASSUME Bad # {} PROVE FALSE
  <2>1. PICK k \in Bad : \A j \in Bad : k <= j
    BY <1>1, LeastNumber
  <2>2. CASE k = 1
    <3> DEFINE c == [j \in 1 .. 1 |-> Start(d)]
    <3>1. IsPiece(d, c, 1)
      BY DEF IsPiece
    <3> QED BY <2>1, <2>2, <3>1
  <2>3. CASE k # 1
    <3>1. k \in Nat /\ k - 1 \in Nat \ {0} /\ k - 1 \notin Bad
      BY <2>1, <2>3
    <3>2. PICK b : IsPiece(d, b, k - 1)
      BY <3>1
    <3> DEFINE next == Start(d) + d.ebr[b[k - 1]].link.LBA
               c == [j \in 1 .. k |-> IF j = k THEN next ELSE b[j]]
    <3> HIDE DEF next
    <3>3. c = [j \in 1 .. k |-> c[j]]
      OBVIOUS
    <3>4. c[1] = Start(d)
      BY <3>1, <3>2 DEF IsPiece
    <3>5. ASSUME NEW j \in 1 .. k, j < k
          PROVE  c[j + 1] = Start(d) + d.ebr[c[j]].link.LBA
      <4>1. c[j] = b[j] /\ j \in 1 .. k - 1
        BY <3>1, <3>5
      <4>2. CASE j = k - 1
        <5>1. c[j + 1] = next /\ c[j] = b[k - 1]
          BY <3>1, <4>1, <4>2
        <5> QED BY <5>1 DEF next
      <4>3. CASE j # k - 1
        <5>1. j < k - 1 /\ c[j + 1] = b[j + 1]
          BY <3>1, <3>5, <4>3
        <5> QED BY <3>2, <4>1, <5>1 DEF IsPiece
      <4> QED BY <4>2, <4>3
    <3> HIDE DEF c
    <3>6. IsPiece(d, c, k)
      BY <3>3, <3>4, <3>5 DEF IsPiece
    <3> QED BY <2>1, <3>6
  <2> QED BY <2>2, <2>3
<1> QED BY <1>1

LEMMA PiecesAgree ==
  ASSUME NEW d, NEW len \in Nat \ {0}, NEW b, NEW c,
         IsPiece(d, b, len), IsPiece(d, c, len + 1)
  PROVE  b[len] = c[len]
<1> DEFINE Bad == {k \in 1 .. len : b[k] # c[k]}
<1>1. ASSUME Bad # {} PROVE FALSE
  <2>1. Bad \in SUBSET Nat
    OBVIOUS
  <2>2. PICK k \in Bad : \A j \in Bad : k <= j
    BY <1>1, <2>1, LeastNumber
  <2>3. k # 1
    BY <2>2 DEF IsPiece
  <2>4. k - 1 \in 1 .. len /\ k - 1 < len /\ k - 1 \notin Bad /\ (k - 1) + 1 = k
        /\ k - 1 \in 1 .. len + 1 /\ k - 1 < len + 1
    BY <2>2, <2>3
  <2>5. b[k - 1] = c[k - 1]
    BY <2>4
  <2>6. b[k] = Start(d) + d.ebr[b[k - 1]].link.LBA
    BY <2>4 DEF IsPiece
  <2>7. c[k] = Start(d) + d.ebr[c[k - 1]].link.LBA
    BY <2>4 DEF IsPiece
  <2> QED BY <2>2, <2>5, <2>6, <2>7
<1> QED BY <1>1

LEMMA Chain ==
  ASSUME NEW d
  PROVE  /\ RecordAt(d)[1] = Start(d)
         /\ \A k \in Nat \ {0} :
              RecordAt(d)[k + 1] = Start(d) + d.ebr[RecordAt(d)[k]].link.LBA
<1> DEFINE Piece(k) == CHOOSE c : IsPiece(d, c, k)
           sectors == [k \in Nat \ {0} |-> Piece(k)[k]]
           Unfolded(f) == [k \in Nat \ {0} |->
                             IF k = 1 THEN Start(d) ELSE Start(d) + d.ebr[f[k - 1]].link.LBA]
<1>1. \A k \in Nat \ {0} : IsPiece(d, Piece(k), k)
  BY PieceExists
<1> HIDE DEF Piece
<1>2. ASSUME NEW k \in Nat \ {0}
      PROVE  sectors[k] = IF k = 1 THEN Start(d)
                          ELSE Start(d) + d.ebr[sectors[k - 1]].link.LBA
  <2>1. CASE k = 1
    BY <1>1, <2>1 DEF IsPiece
  <2>2. CASE k # 1
    <3>1. k - 1 \in Nat \ {0} /\ (k - 1) + 1 = k /\ k - 1 \in 1 .. k /\ k - 1 < k
      BY <2>2
    <3>2. IsPiece(d, Piece(k - 1), k - 1) /\ IsPiece(d, Piece(k), k)
      BY <1>1, <3>1
    <3>3. Piece(k - 1)[k - 1] = Piece(k)[k - 1]
      BY <3>1, <3>2, PiecesAgree
    <3>4. Piece(k)[k] = Start(d) + d.ebr[Piece(k)[k - 1]].link.LBA
      BY <3>1, <3>2 DEF IsPiece
    <3>5. sectors[k] = Piece(k)[k] /\ sectors[k - 1] = Piece(k - 1)[k - 1]
      BY <3>1
    <3> QED BY <2>2, <3>3, <3>4, <3>5
  <2> QED BY <2>1, <2>2
<1>3. sectors = Unfolded(sectors)
  BY <1>2
<1>4. RecordAt(d) = CHOOSE f : f = Unfolded(f)
  BY DEF RecordAt
<1>5. RecordAt(d) = Unfolded(RecordAt(d))
  BY <1>3, <1>4
<1> DEFINE r == RecordAt(d)
<1> HIDE DEF r, sectors
<1>6. r = [k \in Nat \ {0} |->
             IF k = 1 THEN Start(d) ELSE Start(d) + d.ebr[r[k - 1]].link.LBA]
  BY <1>5 DEF r
<1>7. r[1] = Start(d)
  BY <1>6
<1>8. ASSUME NEW k \in Nat \ {0} PROVE r[k + 1] = Start(d) + d.ebr[r[k]].link.LBA
  <2>1. k + 1 \in Nat \ {0} /\ k + 1 # 1 /\ (k + 1) - 1 = k
    OBVIOUS
  <2> QED BY <1>6, <2>1
<1> QED BY <1>7, <1>8 DEF r

-----------------------------------------------------------------------------
(* The places of partitions *)

(* The last extended slot so far is the one that counts. *)
SlotsSeen ==
  pc \in {"mbr", "slots"} =>
    /\ n <= 5 /\ offset_logic_ext = 0
    /\ pc = "mbr" => n = 1
    /\ is_extended => \E i \in ExtendedSlots(disk) :
         /\ i < n /\ offset_ext_part = disk.slots[i].LBA
         /\ \A j \in ExtendedSlots(disk) : j < n => j <= i
    /\ ~is_extended => \A j \in ExtendedSlots(disk) : j >= n

(* The record to be read is the one whose logical partition has number n. *)
InChain ==
  pc = "ebr" =>
    /\ n >= 5 /\ ExtendedSlots(disk) # {} /\ offset_ext_part = Start(disk)
    /\ offset_ext_part + offset_logic_ext = RecordAt(disk)[n - 4]

AtEnd == pc \in {"find", "table", "done"} /\ ~incomplete => EndOfChain

AllListed ==
  ~incomplete => \A no \in 1 .. LastNumber :
    PlaceOf(no)[1] = LINUX => \E k \in 1 .. Len(partitions) : partitions[k].part_no = no

(* The superblocks before at were looked for where they had to be. *)
IsExt2(k) ==
  partitions[k].ext2 = (IF partitions[k].type = LINUX /\ partitions[k].offset \in disk.fs
                        THEN "ready" ELSE "NULL")

Examined ==
  ~incomplete => \A k \in 1 .. Len(partitions) :
    pc \in {"table", "done"} \/ (pc = "find" /\ k < at) => IsExt2(k)

InTable(k) == \E i \in 1 .. Len(partitions_ext2) : partitions_ext2[i] = k

Tabled ==
  ~incomplete => \A k \in 1 .. Len(partitions) :
    (pc = "table" /\ k < at) \/ pc = "done" => (partitions[k].ext2 = "ready" => InTable(k))

ScanInv == RightPlaces /\ SlotsSeen /\ InChain /\ AtEnd /\ AllListed /\ Examined /\ Tabled

LEMMA StartFound ==
  ASSUME NEW d, NEW i \in ExtendedSlots(d), \A j \in ExtendedSlots(d) : j <= i
  PROVE  Start(d) = d.slots[i].LBA
<1> DEFINE last == CHOOSE k \in ExtendedSlots(d) : \A j \in ExtendedSlots(d) : j <= k
<1>1. last \in ExtendedSlots(d) /\ \A j \in ExtendedSlots(d) : j <= last
  OBVIOUS
<1> HIDE DEF last
<1>2. last = i
  BY <1>1 DEF ExtendedSlots
<1> QED BY <1>2 DEF Start, last

(* The place of a partition is a matter of the disk alone. *)
LEMMA PlacesStay ==
  ASSUME disk' = disk
  PROVE  /\ \A no : PlaceOf(no)' = PlaceOf(no)
         /\ n' = n => (EndOfChain' <=> EndOfChain)
<1>1. ASSUME NEW no PROVE PlaceOf(no)' = PlaceOf(no)
  BY DEF PlaceOf
<1>2. n' = n => (EndOfChain' <=> EndOfChain)
  BY DEF EndOfChain, LastNumber
<1> QED BY <1>1, <1>2

(* Nothing is done to the list but that superblocks are read. *)
LEMMA ListStays ==
  ASSUME ScanInv, disk' = disk, n' = n, ~incomplete' => ~incomplete,
         Len(partitions') = Len(partitions),
         \A k \in 1 .. Len(partitions) : /\ partitions'[k].type = partitions[k].type
                                         /\ partitions'[k].offset = partitions[k].offset
                                         /\ partitions'[k].part_no = partitions[k].part_no
  PROVE  RightPlaces' /\ AllListed'
<1>1. RightPlaces /\ AllListed
  BY DEF ScanInv
<1>2. \A no : PlaceOf(no)' = PlaceOf(no)
  BY PlacesStay
<1>3. RightPlaces'
  BY <1>1, <1>2 DEF RightPlaces, IsNumbered
<1>4. AllListed'
  <2> SUFFICES ASSUME ~incomplete', NEW no \in 1 .. LastNumber', PlaceOf(no)'[1] = LINUX
               PROVE  \E k \in 1 .. Len(partitions') : partitions'[k].part_no = no
    BY DEF AllListed
  <2>1. no \in 1 .. LastNumber /\ PlaceOf(no)[1] = LINUX /\ ~incomplete
    BY <1>2 DEF LastNumber
  <2>2. PICK k \in 1 .. Len(partitions) : partitions[k].part_no = no
    BY <1>1, <2>1 DEF AllListed
  <2> QED BY <2>2
<1> QED BY <1>3, <1>4

(* The list is continued by the partition with the next number, if there is
   one, and perhaps a link. *)
LEMMA ListContinued ==
  ASSUME IInv, ScanInv, NEW s \in Seq(Elements), partitions' = partitions \o s,
         disk' = disk, n' = n + 1, incomplete' = incomplete,
         Len(s) > 0 => s[1].part_no = n /\ PlaceOf(n) = <<s[1].type, s[1].offset>>,
         \A k \in 1 .. Len(s) : k > 1 => s[k].part_no = 0,
         Len(s) = 0 => PlaceOf(n)[1] # LINUX
  PROVE  RightPlaces' /\ AllListed'
<1>1. /\ partitions \in Seq(Elements) /\ n \in Nat \ {0}
      /\ RightPlaces /\ AllListed
  BY DEF IInv, TypeOK, Elements, ScanInv
<1>2. /\ Len(partitions') = Len(partitions) + Len(s)
      /\ Len(partitions) \in Nat /\ Len(s) \in Nat
  BY <1>1
<1>3. \A no : PlaceOf(no)' = PlaceOf(no)
  BY PlacesStay
<1>4. RightPlaces'
  <2> SUFFICES ASSUME NEW k \in 1 .. Len(partitions'), partitions'[k].part_no > 0
               PROVE  PlaceOf(partitions'[k].part_no)
                        = <<partitions'[k].type, partitions'[k].offset>>
    BY <1>3 DEF RightPlaces, IsNumbered
  <2>1. CASE k <= Len(partitions)
    <3>1. partitions'[k] = partitions[k] /\ k \in 1 .. Len(partitions)
      BY <1>1, <1>2, <2>1
    <3> QED BY <1>1, <3>1 DEF RightPlaces, IsNumbered
  <2>2. CASE k > Len(partitions)
    <3>1. k - Len(partitions) \in 1 .. Len(s) /\ partitions'[k] = s[k - Len(partitions)]
      BY <1>1, <1>2, <2>2
    <3>2. k - Len(partitions) = 1 /\ Len(s) > 0
      BY <1>2, <3>1
    <3> QED BY <3>1, <3>2
  <2> QED BY <1>2, <2>1, <2>2
<1>5. AllListed'
  <2> SUFFICES ASSUME ~incomplete, NEW no \in 1 .. n, PlaceOf(no)[1] = LINUX
               PROVE  \E k \in 1 .. Len(partitions') : partitions'[k].part_no = no
    BY <1>1, <1>3 DEF AllListed, LastNumber
  <2>1. CASE no < n
    <3>1. no \in 1 .. LastNumber
      BY <1>1, <2>1 DEF LastNumber
    <3>2. PICK k \in 1 .. Len(partitions) : partitions[k].part_no = no
      BY <1>1, <3>1 DEF AllListed
    <3>3. k \in 1 .. Len(partitions') /\ partitions'[k] = partitions[k]
      BY <1>1, <1>2
    <3> QED BY <3>2, <3>3
  <2>2. CASE no = n
    <3>1. Len(s) > 0
      BY <1>2, <2>2
    <3>2. Len(partitions) + 1 \in 1 .. Len(partitions')
          /\ partitions'[Len(partitions) + 1] = s[1]
      BY <1>1, <1>2, <3>1
    <3> QED BY <2>2, <3>1, <3>2
  <2> QED BY <1>1, <2>1, <2>2
<1> QED BY <1>4, <1>5

LEMMA InitScan == Init => ScanInv
<1> SUFFICES ASSUME Init PROVE ScanInv
  OBVIOUS
<1>1. pc = "mbr" /\ n = 1 /\ partitions = <<>> /\ Len(partitions) = 0 /\ ~is_extended
      /\ offset_logic_ext = 0
  BY DEF Init
<1>2. SlotsSeen
  BY <1>1 DEF SlotsSeen, ExtendedSlots
<1>3. RightPlaces /\ AllListed
  BY <1>1 DEF RightPlaces, AllListed, LastNumber
<1> QED BY <1>1, <1>2, <1>3 DEF ScanInv, InChain, AtEnd, Examined, Tabled

LEMMA GiveUpScan ==
  ASSUME IInv, ScanInv, NoMbr \/ EbrUnreadable \/ EbrWrong
  PROVE  ScanInv'
<1>1. /\ pc' = "done" /\ incomplete' = TRUE /\ disk' = disk /\ n' = n
      /\ partitions' = partitions \/ partitions' = <<>>
  BY DEF NoMbr, EbrUnreadable, EbrWrong, GiveUp
<1>2. RightPlaces'
  <2>1. \A no : PlaceOf(no)' = PlaceOf(no)
    BY <1>1, PlacesStay
  <2>2. CASE partitions' = partitions
    BY <2>1, <2>2 DEF ScanInv, RightPlaces, IsNumbered
  <2>3. CASE partitions' = <<>>
    BY <2>3 DEF RightPlaces
  <2> QED BY <1>1, <2>2, <2>3
<1> QED BY <1>1, <1>2 DEF ScanInv, SlotsSeen, InChain, AtEnd, AllListed, Examined, Tabled

LEMMA ReadMbrScan ==
  ASSUME IInv, ScanInv, ReadMbr
  PROVE  ScanInv'
<1>1. /\ pc = "mbr" /\ pc' = "slots" /\ disk' = disk /\ n' = n /\ partitions' = partitions
      /\ is_extended' = is_extended /\ offset_ext_part' = offset_ext_part
      /\ offset_logic_ext' = offset_logic_ext /\ incomplete' = incomplete
  BY DEF ReadMbr, listVars
<1>2. RightPlaces' /\ AllListed'
  BY <1>1, ListStays
<1>3. SlotsSeen'
  BY <1>1 DEF ScanInv, SlotsSeen
<1> QED BY <1>1, <1>2, <1>3 DEF ScanInv, InChain, AtEnd, Examined, Tabled

LEMMA ReadSlotScan ==
  ASSUME NoWrap, IInv, ScanInv, ReadSlot
  PROVE  ScanInv'
<1> DEFINE slot == disk.slots[n]
           new == Partition(slot.type, slot.LBA, n)
           s == IF slot.type = EMPTY THEN <<>> ELSE <<new>>
<1>1. /\ pc = "slots" /\ pc' = "slots" /\ n \in 1 .. 4 /\ n' = n + 1
      /\ disk' = disk /\ offset_logic_ext' = offset_logic_ext /\ incomplete' = incomplete
      /\ partitions' = IF slot.type = EMPTY THEN partitions ELSE Append(partitions, new)
  BY DEF ReadSlot
<1>2. /\ disk \in Disks /\ partitions \in Seq(Elements)
      /\ slot.type \in Nat /\ slot.LBA \in Nat /\ slot.LBA < SectorWrap
  <2>1. disk \in Disks /\ partitions \in Seq(Elements)
    BY DEF IInv, TypeOK, Elements
  <2>2. slot \in Entries
    BY <1>1, <2>1, Layouts DEF IsLayout
  <2> QED BY <1>1, <2>1, <2>2 DEF Entries, NoWrap
<1>3. PlaceOf(n) = <<slot.type, slot.LBA>>
  BY <1>1 DEF PlaceOf
<1>4. new \in Elements /\ new.part_no = n /\ new.type = slot.type /\ new.offset = slot.LBA
  <2>1. slot.LBA % SectorWrap = slot.LBA
    BY <1>2, DiskScanAssumption
  <2> QED BY <1>1, <1>2, <2>1 DEF Partition, Elements
<1> HIDE DEF new, slot
<1>5. /\ s \in Seq(Elements) /\ partitions' = partitions \o s
      /\ Len(s) > 0 => s[1] = new
      /\ Len(s) <= 1
      /\ Len(s) = 0 => slot.type = EMPTY
  <2>1. CASE slot.type = EMPTY
    <3>1. s = <<>> /\ partitions' = partitions
      BY <1>1, <2>1
    <3> QED BY <1>2, <2>1, <3>1
  <2>2. CASE slot.type # EMPTY
    <3>1. s = <<new>> /\ partitions' = Append(partitions, new)
      BY <1>1, <2>2
    <3> QED BY <1>2, <1>4, <3>1
  <2> QED BY <2>1, <2>2
<1> HIDE DEF s
<1>6. RightPlaces' /\ AllListed'
  <2>1. Len(s) > 0 => s[1].part_no = n /\ PlaceOf(n) = <<s[1].type, s[1].offset>>
    BY <1>3, <1>4, <1>5
  <2>2. \A k \in 1 .. Len(s) : k > 1 => s[k].part_no = 0
    BY <1>5
  <2>3. Len(s) = 0 => PlaceOf(n)[1] # LINUX
    BY <1>3, <1>5 DEF EMPTY, LINUX
  <2> QED BY <1>1, <1>5, <2>1, <2>2, <2>3, ListContinued
<1>7. SlotsSeen'
  <2>1. SlotsSeen /\ ExtendedSlots(disk) \subseteq 1 .. 4
    BY DEF ScanInv, ExtendedSlots
  <2>2. CASE slot.type \in {EXTENDED, EXTENDED_LBA}
    <3>1. is_extended' = TRUE /\ offset_ext_part' = slot.LBA
      BY <2>2 DEF ReadSlot, slot
    <3>2. n \in ExtendedSlots(disk)
      BY <1>1, <2>2 DEF ExtendedSlots, slot
    <3>3. \A j \in ExtendedSlots(disk) : j < n + 1 => j <= n
      BY <1>1, <2>1
    <3>4. n < n + 1 /\ n + 1 <= 5 /\ offset_logic_ext = 0
      BY <1>1, <2>1 DEF SlotsSeen
    <3> QED BY <1>1, <3>1, <3>2, <3>3, <3>4 DEF SlotsSeen, slot
  <2>3. CASE slot.type \notin {EXTENDED, EXTENDED_LBA}
    <3>1. is_extended' = is_extended /\ offset_ext_part' = offset_ext_part
      BY <2>3 DEF ReadSlot, slot
    <3>2. n \notin ExtendedSlots(disk)
      BY <2>3 DEF ExtendedSlots, slot
    <3>3. \A j \in ExtendedSlots(disk) : (j < n + 1 <=> j < n) /\ (j >= n + 1 <=> j >= n)
      BY <1>1, <2>1, <3>2
    <3>4. \A j \in ExtendedSlots(disk) : j < n => j < n + 1
      BY <1>1, <2>1
    <3>5. n + 1 <= 5 /\ offset_logic_ext = 0
      BY <1>1, <2>1 DEF SlotsSeen
    <3> QED BY <1>1, <2>1, <3>1, <3>3, <3>4, <3>5 DEF SlotsSeen
  <2> QED BY <2>2, <2>3
<1> QED BY <1>1, <1>6, <1>7 DEF ScanInv, InChain, AtEnd, Examined, Tabled

LEMMA SlotsReadScan ==
  ASSUME IInv, ScanInv, SlotsRead
  PROVE  ScanInv'
<1>1. /\ pc = "slots" /\ n = 5 /\ pc' = IF is_extended THEN "ebr" ELSE "find"
      /\ disk' = disk /\ n' = n /\ partitions' = partitions
      /\ is_extended' = is_extended /\ offset_ext_part' = offset_ext_part
      /\ offset_logic_ext' = offset_logic_ext /\ at' = at /\ incomplete' = incomplete
  BY DEF SlotsRead, listVars, tableVars
<1>2. SlotsSeen /\ ExtendedSlots(disk) \subseteq 1 .. 4 /\ at = 1
      /\ offset_ext_part \in Nat
  BY <1>1 DEF ScanInv, ExtendedSlots, IInv, ReadingInv, Reading, TypeOK
<1>3. RightPlaces' /\ AllListed'
  BY <1>1, ListStays
<1>4. CASE is_extended
  <2>1. PICK i \in ExtendedSlots(disk) :
          /\ offset_ext_part = disk.slots[i].LBA
          /\ \A j \in ExtendedSlots(disk) : j < n => j <= i
    BY <1>1, <1>2, <1>4 DEF SlotsSeen
  <2>2. \A j \in ExtendedSlots(disk) : j <= i
    BY <1>1, <1>2, <2>1
  <2>3. offset_ext_part = Start(disk)
    BY <2>1, <2>2, StartFound
  <2>4. RecordAt(disk)[1] = Start(disk)
    BY Chain
  <2>5. offset_ext_part + offset_logic_ext = RecordAt(disk)[5 - 4]
    <3>1. offset_logic_ext = 0 /\ 5 - 4 = 1
      BY <1>1, <1>2 DEF SlotsSeen
    <3>2. offset_ext_part + 0 = offset_ext_part
      BY <1>2
    <3> QED BY <2>3, <2>4, <3>1, <3>2
  <2>6. pc' = "ebr"
    BY <1>1, <1>4
  <2>7. InChain'
    BY <1>1, <2>1, <2>3, <2>5 DEF InChain
  <2> QED BY <1>3, <2>6, <2>7 DEF ScanInv, SlotsSeen, AtEnd, Examined, Tabled
<1>5. CASE ~is_extended
  <2>1. ExtendedSlots(disk) = {}
    BY <1>1, <1>2, <1>5 DEF SlotsSeen
  <2>2. pc' = "find" /\ at' = 1
    BY <1>1, <1>2, <1>5
  <2>3. AtEnd'
    BY <1>1, <2>1 DEF AtEnd, EndOfChain
  <2>4. Examined'
    BY <2>2 DEF Examined
  <2> QED BY <1>3, <2>2, <2>3, <2>4 DEF ScanInv, SlotsSeen, InChain, Tabled
<1> QED BY <1>4, <1>5

(* The record that is read is the one of the chain. *)
LEMMA RecordInChain ==
  ASSUME NoWrap, IInv, ScanInv, pc = "ebr"
  PROVE  /\ record_sector = RecordAt(disk)[n - 4] /\ record_sector \in Nat
         /\ record_sector + record.part.LBA < SectorWrap
         /\ offset_ext_part + offset_logic_ext = record_sector
<1>1. /\ disk \in Disks /\ offset_ext_part \in Nat /\ offset_logic_ext \in Nat
      /\ SectorWrap \in Nat \ {0}
  BY DiskScanAssumption DEF IInv, TypeOK
<1>2. offset_ext_part + offset_logic_ext = RecordAt(disk)[n - 4]
      /\ ExtendedSlots(disk) # {} /\ offset_ext_part = Start(disk)
  BY DEF ScanInv, InChain
<1>3. PICK i \in ExtendedSlots(disk) : offset_ext_part = disk.slots[i].LBA
  <2>1. PICK s \in 1 .. 4 : /\ disk.slots[s].type \in {EXTENDED, EXTENDED_LBA}
                            /\ offset_ext_part = disk.slots[s].LBA
    BY DEF IInv, ChainInv
  <2> QED BY <2>1 DEF ExtendedSlots
<1>4. offset_ext_part + offset_logic_ext < SectorWrap
  <2>1. CASE offset_logic_ext = 0
    <3>1. offset_ext_part < SectorWrap
      BY <1>1, <1>3 DEF NoWrap, ExtendedSlots
    <3> QED BY <1>1, <2>1, <3>1
  <2>2. CASE offset_logic_ext # 0
    <3>1. PICK t \in DOMAIN disk.ebr : offset_logic_ext = disk.ebr[t].link.LBA
      BY <2>2 DEF IInv, ChainInv
    <3> QED BY <1>1, <1>3, <3>1 DEF NoWrap
  <2> QED BY <2>1, <2>2
<1>5. record_sector = offset_ext_part + offset_logic_ext
  BY <1>1, <1>4 DEF record_sector
<1>6. record_sector \in DOMAIN disk.ebr
  BY RecordExists DEF IInv
<1>7. record_sector + record.part.LBA < SectorWrap
  BY <1>1, <1>6 DEF NoWrap, record
<1> QED BY <1>1, <1>2, <1>5, <1>7

LEMMA ReadEbrScan ==
  ASSUME NoWrap, IInv, ScanInv, ReadEbr
  PROVE  ScanInv'
<1> DEFINE s == IF Linked THEN <<Logical, Link>> ELSE <<Logical>>
<1>1. /\ pc = "ebr" /\ n' = n + 1 /\ pc' = IF Linked THEN "ebr" ELSE "find"
      /\ disk' = disk /\ offset_ext_part' = offset_ext_part
      /\ offset_logic_ext' = IF Linked THEN record.link.LBA ELSE offset_logic_ext
      /\ at' = at /\ incomplete' = incomplete
      /\ partitions' = IF Linked THEN partitions \o <<Logical, Link>>
                       ELSE Append(partitions, Logical)
  BY DEF ReadEbr, Numbered, tableVars
<1>2. /\ disk \in Disks /\ partitions \in Seq(Elements) /\ at = 1
      /\ n \in Nat /\ n >= 5 /\ offset_ext_part = Start(disk) /\ ExtendedSlots(disk) # {}
  BY <1>1 DEF IInv, TypeOK, Elements, ReadingInv, Reading, ScanInv, InChain
<1>3. /\ record_sector = RecordAt(disk)[n - 4] /\ record_sector \in Nat
      /\ record_sector + record.part.LBA < SectorWrap
      /\ offset_ext_part + offset_logic_ext = record_sector
  BY <1>1, RecordInChain
<1>4. /\ record.part.type \in Nat /\ record.part.LBA \in Nat
      /\ record.link.type \in Nat /\ record.link.LBA \in Nat
  BY <1>1, RecordExists DEF IInv, Entries
<1>5. record = disk.ebr[RecordAt(disk)[n - 4]]
  BY <1>3 DEF record
<1>6. PlaceOf(n) = <<record.part.type, record_sector + record.part.LBA>>
  BY <1>2, <1>3, <1>5 DEF PlaceOf
<1>7. /\ Logical \in Elements /\ Logical.part_no = n /\ Logical.type = record.part.type
      /\ Logical.offset = record_sector + record.part.LBA
  <2>1. Logical = Partition(record.part.type, record_sector + record.part.LBA, n)
    BY <1>3 DEF Logical
  <2>2. (record_sector + record.part.LBA) % SectorWrap = record_sector + record.part.LBA
    BY <1>3, <1>4, DiskScanAssumption
  <2> QED BY <1>2, <1>3, <1>4, <2>1, <2>2 DEF Partition, Elements
<1>8. Link \in Elements /\ Link.part_no = 0
  <2>1. Link = Partition(record.link.type, record_sector + record.link.LBA, 0)
    BY <1>3 DEF Link
  <2>2. (record_sector + record.link.LBA) % SectorWrap \in Nat
    BY <1>3, <1>4, DiskScanAssumption
  <2> QED BY <1>4, <2>1, <2>2 DEF Partition, Elements
<1>9. /\ s \in Seq(Elements) /\ partitions' = partitions \o s
      /\ Len(s) \in 1 .. 2 /\ s[1] = Logical /\ (Len(s) = 2 => s[2] = Link)
  <2>1. CASE Linked
    <3>1. s = <<Logical, Link>>
      BY <2>1
    <3>2. partitions' = partitions \o s
      BY <1>1, <2>1, <3>1
    <3> HIDE DEF s
    <3>3. s \in Seq(Elements) /\ Len(s) = 2 /\ s[1] = Logical /\ s[2] = Link
      BY <1>7, <1>8, <3>1
    <3> QED BY <3>2, <3>3
  <2>2. CASE ~Linked
    <3>1. s = <<Logical>>
      BY <2>2
    <3>2. partitions' = Append(partitions, Logical)
      BY <1>1, <2>2
    <3> HIDE DEF s
    <3>3. s \in Seq(Elements) /\ Len(s) = 1 /\ s[1] = Logical
      BY <1>7, <3>1
    <3>4. partitions' = partitions \o s
      BY <1>2, <1>7, <3>1, <3>2
    <3> QED BY <3>3, <3>4
  <2> QED BY <2>1, <2>2
<1> HIDE DEF s
<1>10. RightPlaces' /\ AllListed'
  <2>1. Len(s) > 0 => s[1].part_no = n /\ PlaceOf(n) = <<s[1].type, s[1].offset>>
    BY <1>6, <1>7, <1>9
  <2>2. \A k \in 1 .. Len(s) : k > 1 => s[k].part_no = 0
    <3>1. \A k \in 1 .. Len(s) : k > 1 => k = 2 /\ Len(s) = 2
      BY <1>9
    <3> QED BY <1>8, <1>9, <3>1
  <2>3. Len(s) # 0
    BY <1>9
  <2> QED BY <1>1, <1>9, <2>1, <2>2, <2>3, ListContinued
<1>11. CASE Linked
  <2>1. /\ pc' = "ebr" /\ offset_logic_ext' = record.link.LBA
    BY <1>1, <1>11
  <2>2. RecordAt(disk)[(n - 4) + 1] = Start(disk) + disk.ebr[RecordAt(disk)[n - 4]].link.LBA
    <3>1. n - 4 \in Nat \ {0}
      BY <1>2
    <3> QED BY <3>1, Chain
  <2>3. (n - 4) + 1 = (n + 1) - 4 /\ n + 1 >= 5
    BY <1>2
  <2>4. offset_ext_part + record.link.LBA = RecordAt(disk)[(n + 1) - 4]
    BY <1>2, <1>5, <2>2, <2>3
  <2>5. InChain'
    BY <1>1, <1>2, <2>1, <2>3, <2>4 DEF InChain
  <2> QED BY <1>10, <2>1, <2>5 DEF ScanInv, SlotsSeen, AtEnd, Examined, Tabled
<1>12. CASE ~Linked
  <2>1. pc' = "find" /\ at' = 1
    BY <1>1, <1>2, <1>12
  <2>2. disk.ebr[RecordAt(disk)[n - 4]].link.type # EXTENDED
    BY <1>5, <1>12 DEF Linked
  <2>3. (n + 1) - 1 - 4 = n - 4
    BY <1>2
  <2>4. AtEnd'
    BY <1>1, <2>2, <2>3 DEF AtEnd, EndOfChain, LastNumber
  <2>5. Examined'
    BY <2>1 DEF Examined
  <2> QED BY <1>10, <2>1, <2>4, <2>5 DEF ScanInv, SlotsSeen, InChain, Tabled
<1> QED BY <1>11, <1>12

LEMMA FindScan ==
  ASSUME IInv, ScanInv, find_linux_partitions
  PROVE  ScanInv'
<1>1. /\ pc = "find" /\ pc' = "find" /\ at' = at + 1 /\ disk' = disk /\ n' = n
      /\ at \in 1 .. Len(partitions) /\ partitions \in Seq(Elements)
      /\ partitions[at].ext2 = "NULL"
  <2>1. /\ pc = "find" /\ pc' = "find" /\ at' = at + 1 /\ disk' = disk /\ n' = n
        /\ at <= Len(partitions)
    BY DEF find_linux_partitions
  <2>2. at \in 1 .. Len(partitions) + 1 /\ partitions \in Seq(Elements)
    BY DEF IInv, TypeOK, Elements
  <2>3. at \in 1 .. Len(partitions)
    BY <2>1, <2>2
  <2>4. partitions[at].ext2 = "NULL"
    BY <2>1, <2>3 DEF IInv, FindInv
  <2> QED BY <2>1, <2>2, <2>3, <2>4
<1>2. /\ ~incomplete' => ~incomplete
      /\ \E x \in {"NULL", "ready", "freed"} :
           /\ partitions' = [partitions EXCEPT ![at] = [@ EXCEPT !.ext2 = x]]
           /\ ~incomplete' =>
                x = (IF partitions[at].type = LINUX /\ partitions[at].offset \in disk.fs
                     THEN "ready" ELSE "NULL")
  <2>1. CASE partitions[at].type # LINUX
    <3>1. partitions' = partitions /\ incomplete' = incomplete
      BY <2>1 DEF find_linux_partitions
    <3>2. partitions[at] \in Elements
      BY <1>1
    <3>3. [partitions[at] EXCEPT !.ext2 = "NULL"] = partitions[at]
      BY <1>1, <3>2 DEF Elements
    <3>4. partitions' = [partitions EXCEPT ![at] = [@ EXCEPT !.ext2 = "NULL"]]
      BY <1>1, <3>1, <3>3
    <3> QED BY <2>1, <3>1, <3>4
  <2>2. CASE partitions[at].type = LINUX
    <3>1. get_ext2_sb
      BY <2>2 DEF find_linux_partitions
    <3>2. CASE Examine("freed", FALSE) /\ incomplete' = TRUE
      BY <3>2 DEF Examine
    <3>3. CASE /\ partitions[at].offset \notin disk.fs
               /\ Examine("NULL", FALSE) /\ incomplete' = incomplete
      BY <2>2, <3>3 DEF Examine
    <3>4. CASE Examine("NULL", FALSE) /\ incomplete' = TRUE
      BY <3>4 DEF Examine
    <3>5. CASE /\ partitions[at].offset \in disk.fs
               /\ Examine("ready", TRUE) /\ incomplete' = incomplete
      BY <2>2, <3>5 DEF Examine
    <3> QED BY <3>1, <3>2, <3>3, <3>4, <3>5, Zenon DEF get_ext2_sb
  <2> QED BY <2>1, <2>2
<1>3. PICK x \in {"NULL", "ready", "freed"} :
        /\ partitions' = [partitions EXCEPT ![at] = [@ EXCEPT !.ext2 = x]]
        /\ ~incomplete' =>
             x = (IF partitions[at].type = LINUX /\ partitions[at].offset \in disk.fs
                  THEN "ready" ELSE "NULL")
  BY <1>2
<1>4. /\ Len(partitions') = Len(partitions)
      /\ partitions'[at] = [partitions[at] EXCEPT !.ext2 = x]
      /\ \A k \in 1 .. Len(partitions) : k # at => partitions'[k] = partitions[k]
  <2> DEFINE new == [partitions[at] EXCEPT !.ext2 = x]
  <2>1. partitions' = [partitions EXCEPT ![at] = new]
    BY <1>3
  <2> HIDE DEF new
  <2>2. Len(partitions') = Len(partitions) /\ partitions'[at] = new
        /\ \A k \in 1 .. Len(partitions) : k # at => partitions'[k] = partitions[k]
    BY <1>1, <2>1
  <2> QED BY <2>2 DEF new
<1>5. /\ partitions'[at].ext2 = x /\ partitions'[at].type = partitions[at].type
      /\ partitions'[at].offset = partitions[at].offset
      /\ partitions'[at].part_no = partitions[at].part_no
  <2>1. partitions[at] \in Elements
    BY <1>1
  <2> QED BY <1>4, <2>1 DEF Elements
<1>6. \A k \in 1 .. Len(partitions) : /\ partitions'[k].type = partitions[k].type
                                      /\ partitions'[k].offset = partitions[k].offset
                                      /\ partitions'[k].part_no = partitions[k].part_no
  BY <1>4, <1>5
<1>7. RightPlaces' /\ AllListed'
  BY <1>1, <1>2, <1>4, <1>6, ListStays
<1>8. AtEnd'
  BY <1>1, <1>2, PlacesStay DEF ScanInv, AtEnd
<1>9. Examined'
  <2> SUFFICES ASSUME ~incomplete', NEW k \in 1 .. Len(partitions'), k < at'
               PROVE  IsExt2(k)'
    BY <1>1 DEF Examined
  <2>1. k \in 1 .. Len(partitions)
    BY <1>4
  <2>2. CASE k = at
    BY <1>1, <1>3, <1>5, <2>2 DEF IsExt2
  <2>3. CASE k # at
    <3>1. k < at
      BY <1>1, <2>1, <2>3
    <3>2. IsExt2(k)
      BY <1>1, <1>2, <2>1, <3>1 DEF ScanInv, Examined
    <3> QED BY <1>1, <1>4, <2>1, <2>3, <3>2 DEF IsExt2
  <2> QED BY <2>2, <2>3
<1> QED BY <1>1, <1>7, <1>8, <1>9 DEF ScanInv, SlotsSeen, InChain, Tabled

LEMMA FoundAllScan ==
  ASSUME IInv, ScanInv, FoundAll
  PROVE  ScanInv'
<1>1. /\ pc = "find" /\ at > Len(partitions) /\ at' = 1
      /\ pc' = IF found = 0 THEN "done" ELSE "table"
      /\ disk' = disk /\ n' = n /\ partitions' = partitions
      /\ partitions_ext2' = partitions_ext2 /\ incomplete' = incomplete
  BY DEF FoundAll, listVars
<1>2. at - 1 = Len(partitions) /\ Len(partitions) \in Nat /\ at \in Nat
      /\ found = Cardinality(Ready(partitions, at - 1))
  <2>1. at \in 1 .. Len(partitions) + 1 /\ partitions \in Seq(Elements)
    BY DEF IInv, TypeOK, Elements
  <2> QED BY <1>1, <2>1 DEF IInv, FindInv
<1>3. RightPlaces' /\ AllListed'
  BY <1>1, ListStays
<1>4. AtEnd'
  BY <1>1, PlacesStay DEF ScanInv, AtEnd
<1>5. Examined'
  <2> SUFFICES ASSUME ~incomplete', NEW k \in 1 .. Len(partitions') PROVE IsExt2(k)'
    BY DEF Examined
  <2>1. k \in 1 .. Len(partitions) /\ k < at /\ ~incomplete
    BY <1>1, <1>2
  <2>2. IsExt2(k)
    BY <1>1, <2>1 DEF ScanInv, Examined
  <2> QED BY <1>1, <2>2 DEF IsExt2
<1>6. Tabled'
  <2>1. CASE found = 0
    <3>1. Ready(partitions, Len(partitions)) = {}
      BY <1>2, <2>1, ReadyFinite, FS_EmptySet
    <3>2. \A k \in 1 .. Len(partitions) : partitions[k].ext2 # "ready"
      BY <1>2, <3>1 DEF Ready
    <3> QED BY <1>1, <3>2 DEF Tabled
  <2>2. CASE found # 0
    <3>1. pc' = "table" /\ at' = 1
      BY <1>1, <2>2
    <3> QED BY <3>1 DEF Tabled
  <2> QED BY <2>1, <2>2
<1>7. pc' \in {"done", "table"}
  BY <1>1
<1> QED BY <1>3, <1>4, <1>5, <1>6, <1>7 DEF ScanInv, SlotsSeen, InChain

LEMMA TableScan ==
  ASSUME IInv, ScanInv, ext2_partitions_init
  PROVE  ScanInv'
<1>1. /\ pc = "table" /\ pc' = "table" /\ at <= Len(partitions) /\ at' = at + 1
      /\ disk' = disk /\ n' = n /\ partitions' = partitions /\ incomplete' = incomplete
  BY DEF ext2_partitions_init, listVars
<1>2. /\ at \in 1 .. Len(partitions) /\ partitions_ext2 \in Seq(1 .. Len(partitions))
      /\ Len(partitions) \in Nat
  <2>1. /\ at \in 1 .. Len(partitions) + 1 /\ partitions \in Seq(Elements)
        /\ partitions_ext2 \in Seq(1 .. Len(partitions))
    BY DEF IInv, TypeOK, Elements
  <2> QED BY <1>1, <2>1
<1>3. RightPlaces' /\ AllListed'
  BY <1>1, ListStays
<1>4. AtEnd'
  BY <1>1, PlacesStay DEF ScanInv, AtEnd
<1>5. Examined'
  <2> SUFFICES ASSUME ~incomplete', NEW k \in 1 .. Len(partitions') PROVE IsExt2(k)'
    BY DEF Examined
  <2>1. IsExt2(k)
    BY <1>1 DEF ScanInv, Examined
  <2> QED BY <1>1, <2>1 DEF IsExt2
<1>6. /\ partitions_ext2' = partitions_ext2 \/ partitions_ext2' = Append(partitions_ext2, at)
      /\ partitions[at].ext2 = "ready" /\ partitions[at].type = LINUX =>
           partitions_ext2' = Append(partitions_ext2, at)
  <2>1. PICK compatible \in LooksCompatible(partitions[at].ext2) :
          partitions_ext2' = IF partitions[at].type = LINUX /\ compatible
                             THEN Append(partitions_ext2, at) ELSE partitions_ext2
    BY DEF ext2_partitions_init
  <2>2. partitions[at].ext2 = "ready" => compatible = TRUE
    BY <2>1 DEF LooksCompatible
  <2> QED BY <2>1, <2>2
<1>7. Tabled'
  <2> SUFFICES ASSUME ~incomplete, NEW k \in 1 .. Len(partitions), k < at',
                      partitions[k].ext2 = "ready"
               PROVE  InTable(k)'
    BY <1>1 DEF Tabled
  <2>1. CASE k = at
    <3>1. partitions[at].type = LINUX
      BY <2>1 DEF IInv, ListInv
    <3>2. partitions_ext2' = Append(partitions_ext2, at)
      BY <1>6, <2>1, <3>1
    <3>3. /\ Len(partitions_ext2) + 1 \in 1 .. Len(partitions_ext2')
          /\ partitions_ext2'[Len(partitions_ext2) + 1] = at
      BY <1>2, <3>2
    <3> QED BY <2>1, <3>3 DEF InTable
  <2>2. CASE k # at
    <3>1. k < at
      BY <1>1, <1>2, <2>2
    <3>2. InTable(k)
      BY <1>1, <3>1 DEF ScanInv, Tabled
    <3>3. PICK i \in 1 .. Len(partitions_ext2) : partitions_ext2[i] = k
      BY <3>2 DEF InTable
    <3>4. i \in 1 .. Len(partitions_ext2') /\ partitions_ext2'[i] = k
      <4>1. CASE partitions_ext2' = partitions_ext2
        BY <3>3, <4>1
      <4>2. CASE partitions_ext2' = Append(partitions_ext2, at)
        BY <1>2, <3>3, <4>2
      <4> QED BY <1>6, <4>1, <4>2
    <3> QED BY <3>4 DEF InTable
  <2> QED BY <2>1, <2>2
<1> QED BY <1>1, <1>3, <1>4, <1>5, <1>7 DEF ScanInv, SlotsSeen, InChain

LEMMA TableFilledScan ==
  ASSUME IInv, ScanInv, TableFilled
  PROVE  ScanInv'
<1>1. /\ pc = "table" /\ pc' = "done" /\ at > Len(partitions)
      /\ disk' = disk /\ n' = n /\ partitions' = partitions
      /\ partitions_ext2' = partitions_ext2 /\ incomplete' = incomplete
  BY DEF TableFilled, listVars, tableVars
<1>2. \A k \in 1 .. Len(partitions) : k < at
  <2>1. at \in 1 .. Len(partitions) + 1 /\ partitions \in Seq(Elements)
    BY DEF IInv, TypeOK, Elements
  <2> QED BY <1>1, <2>1
<1>3. RightPlaces' /\ AllListed'
  BY <1>1, ListStays
<1>4. AtEnd'
  BY <1>1, PlacesStay DEF ScanInv, AtEnd
<1>5. Examined'
  <2> SUFFICES ASSUME ~incomplete', NEW k \in 1 .. Len(partitions') PROVE IsExt2(k)'
    BY DEF Examined
  <2>1. IsExt2(k)
    BY <1>1 DEF ScanInv, Examined
  <2> QED BY <1>1, <2>1 DEF IsExt2
<1>6. Tabled'
  <2> SUFFICES ASSUME ~incomplete', NEW k \in 1 .. Len(partitions'),
                      partitions'[k].ext2 = "ready"
               PROVE  InTable(k)'
    BY DEF Tabled
  <2>1. InTable(k)
    BY <1>1, <1>2 DEF ScanInv, Tabled
  <2> QED BY <1>1, <2>1 DEF InTable
<1> QED BY <1>1, <1>3, <1>4, <1>5, <1>6 DEF ScanInv, SlotsSeen, InChain

LEMMA StutterScan ==
  ASSUME IInv, ScanInv, UNCHANGED vars
  PROVE  ScanInv'
<1>1. /\ disk' = disk /\ pc' = pc /\ n' = n /\ partitions' = partitions
      /\ is_extended' = is_extended /\ offset_ext_part' = offset_ext_part
      /\ offset_logic_ext' = offset_logic_ext /\ at' = at
      /\ partitions_ext2' = partitions_ext2 /\ incomplete' = incomplete
  BY DEF vars, listVars, tableVars
<1>2. RightPlaces' /\ AllListed'
  BY <1>1, ListStays
<1>3. SlotsSeen' /\ InChain'
  BY <1>1 DEF ScanInv, SlotsSeen, InChain
<1>4. AtEnd'
  BY <1>1, PlacesStay DEF ScanInv, AtEnd
<1>5. Examined' /\ Tabled'
  BY <1>1 DEF ScanInv, Examined, IsExt2, Tabled, InTable
<1> QED BY <1>2, <1>3, <1>4, <1>5 DEF ScanInv

(* Each walk has done its part for what is before it. *)
THEOREM ScanInvariant ==
  ASSUME NoWrap
  PROVE  Spec => [](IInv /\ ScanInv)
<1>1. IInv /\ ScanInv /\ [Next]_vars => ScanInv'
  BY GiveUpScan, ReadMbrScan, ReadSlotScan, SlotsReadScan, ReadEbrScan, FindScan,
     FoundAllScan, TableScan, TableFilledScan, StutterScan DEF Next
<1> QED BY <1>1, InitScan, InductiveInvariant, PTL DEF Spec

(* Each partition has the place and the type the boot records give to its
   number, for chains of records of any length, on every disk whose sector
   numbers 32 bits can express. *)
THEOREM PlacesCorrect == ASSUME NoWrap PROVE Spec => []RightPlaces
<1>1. ScanInv => RightPlaces
  BY DEF ScanInv
<1> QED BY <1>1, ScanInvariant, PTL

(* A search that nothing went wrong with has followed the chain to its end,
   and its table has exactly the ext file systems of the disk, in order. *)
THEOREM NothingMissed == ASSUME NoWrap PROVE Spec => []FindsEverything
<1>1. IInv /\ ScanInv => FindsEverything
  <2> SUFFICES ASSUME IInv, ScanInv, pc = "done", ~incomplete
               PROVE  /\ EndOfChain
                      /\ {partitions[partitions_ext2[i]].part_no : i \in 1 .. Len(partitions_ext2)}
                           = FileSystems
                      /\ \A i, j \in 1 .. Len(partitions_ext2) :
                           i < j => partitions_ext2[i] < partitions_ext2[j]
    BY DEF FindsEverything
  <2>1. EndOfChain
    BY DEF ScanInv, AtEnd
  <2>2. /\ partitions \in Seq(Elements) /\ n \in Nat
        /\ partitions_ext2 \in Seq(1 .. Len(partitions))
    BY DEF IInv, TypeOK, Elements
  <2>3. \A k \in 1 .. Len(partitions) : IsExt2(k)
    BY DEF ScanInv, Examined
  <2>4. NoneFreed
    BY <2>3 DEF NoneFreed, IsExt2
  <2>5. ASSUME NEW i \in 1 .. Len(partitions_ext2)
        PROVE  partitions[partitions_ext2[i]].part_no \in FileSystems
    <3> DEFINE k == partitions_ext2[i]
               p == partitions[k]
    <3>1. k \in 1 .. Len(partitions)
      BY <2>2
    <3>2. p \in Elements
      BY <2>2, <3>1
    <3>3. p.part_no \in Nat /\ p.part_no < n
      BY <3>1, <3>2 DEF IInv, ListInv, Elements
    <3>4. p.type = LINUX /\ p.ext2 = "ready"
      BY <2>4 DEF IInv, EntriesInv
    <3>5. p.part_no # 0
      BY <3>1, <3>4 DEF IInv, ListInv, LINUX, EXTENDED
    <3>6. p.offset \in disk.fs
      BY <2>3, <3>1, <3>4 DEF IsExt2
    <3>7. PlaceOf(p.part_no) = <<p.type, p.offset>>
      BY <3>1, <3>5, <3>3 DEF ScanInv, RightPlaces, IsNumbered
    <3> HIDE DEF p
    <3>8. p.part_no \in 1 .. LastNumber
      BY <2>2, <3>5, <3>3 DEF LastNumber
    <3>9. p.part_no \in FileSystems
      BY <3>4, <3>6, <3>7, <3>8 DEF FileSystems
    <3> QED BY <3>9 DEF p
  <2>6. ASSUME NEW no \in FileSystems
        PROVE  \E i \in 1 .. Len(partitions_ext2) : no = partitions[partitions_ext2[i]].part_no
    <3>1. no \in 1 .. LastNumber /\ PlaceOf(no)[1] = LINUX /\ PlaceOf(no)[2] \in disk.fs
      BY DEF FileSystems
    <3>2. PICK k \in 1 .. Len(partitions) : partitions[k].part_no = no
      BY <3>1 DEF ScanInv, AllListed
    <3>3. partitions[k].part_no > 0
      BY <2>2, <3>1, <3>2 DEF LastNumber
    <3>4. PlaceOf(no) = <<partitions[k].type, partitions[k].offset>>
      BY <3>2, <3>3 DEF ScanInv, RightPlaces, IsNumbered
    <3>5. partitions[k].type = LINUX /\ partitions[k].offset \in disk.fs
      BY <3>1, <3>4
    <3>6. partitions[k].ext2 = "ready"
      BY <2>3, <3>5 DEF IsExt2
    <3>7. InTable(k)
      BY <3>6 DEF ScanInv, Tabled
    <3> QED BY <3>2, <3>7 DEF InTable
  <2>7. {partitions[partitions_ext2[i]].part_no : i \in 1 .. Len(partitions_ext2)} = FileSystems
    BY <2>5, <2>6
  <2>8. \A i, j \in 1 .. Len(partitions_ext2) : i < j => partitions_ext2[i] < partitions_ext2[j]
    BY DEF IInv, EntriesInv
  <2> QED BY <2>1, <2>7, <2>8
<1> QED BY <1>1, ScanInvariant, PTL

=============================================================================
