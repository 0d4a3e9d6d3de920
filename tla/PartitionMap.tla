---------------------------- MODULE PartitionMap ----------------------------
(***************************************************************************)
(* The ext partitions of all disks, as Total Commander sees them: names    *)
(* like \sda5 in the root directory of the plugin.                         *)
(*                                                                         *)
(* FsInit refuses a user without the rights of an administrator; else it   *)
(* collects the tables of the disks (module DiskScan) and builds one array *)
(* of integers, ext4_partitions_id_map, that turns the number of a         *)
(* partition into its index in the table of its disk.  The first elements, *)
(* one per disk, say where the numbers of the disk begin; the array is as  *)
(* long as the largest number of each disk requires.                       *)
(* FsFindFirst and FsFindNext list the names; opening a name looks it up   *)
(* in the array.                                                           *)
(*                                                                         *)
(* Disks and indexes count from 0, as in the code.                         *)
(***************************************************************************)
EXTENDS Integers, Sequences

CONSTANTS
  Systems,     \* for each disk of a computer, the numbers of its ext partitions
  Names,       \* the partition numbers a path may name
  NULL

ASSUME PartitionMapAssumption ==
  /\ Names \subseteq Nat
  /\ \A s \in Systems :
       /\ s \in Seq(Seq(Nat \ {0}))
       /\ \A d \in 1 .. Len(s) : \A j, k \in 1 .. Len(s[d]) : j < k => s[d][j] < s[d][k]

VARIABLES
  computer,    \* what a search of all disks will find
  tables,      \* hard_disks: the ext partitions of each disk, by their numbers
  pc,          \* where FsInit is: "start", "search", "map", or how it ended:
               \* "ready", "empty" (without disks) or "refused"
  i,           \* the disk the loops of FsInit are at
  p,           \* the sum of the largest numbers
  sums,        \* history: p before disk 0, 1, 2, ...
  pos,         \* where the numbers of the next disk begin
  ext4_partitions_id_map,
  find,        \* the handle of the listing of the root, or NULL
  listed,      \* history: the names it gave, as disk and number
  opened       \* the last path: what it named and where that led, or NULL

initVars == <<tables, pc, i, p, sums, pos, ext4_partitions_id_map>>
vars == <<computer, initVars, find, listed, opened>>

hard_disks_cnt == Len(tables)
get_partitions_ext2_count(d) == Len(tables[d + 1])
get_part_no(d, j) == tables[d + 1][j + 1]

Init ==
  /\ computer \in Systems
  /\ tables = <<>> /\ pc = "start"
  /\ i = 0 /\ p = 0 /\ sums = <<0>> /\ pos = 0
  /\ ext4_partitions_id_map = <<>>
  /\ find = NULL /\ listed = <<>> /\ opened = NULL

-----------------------------------------------------------------------------
(* FsInit *)

(* Seeded fault: the disks are looked for before the user is refused. *)
NotAdmin_late ==
  /\ pc = "start"
  /\ pc' = "refused"
  /\ tables' = computer
  /\ UNCHANGED <<i, p, sums, pos, ext4_partitions_id_map, find, listed, opened>>

(* IsUserAdmin says no: FsInit returns -1, and plugin_initialized stays false. *)
NotAdmin ==
  /\ pc = "start"
  /\ pc' = "refused"
  /\ UNCHANGED <<tables, i, p, sums, pos, ext4_partitions_id_map, find, listed, opened>>

(* get_hdd_count.  Without disks FsInit succeeds, but there is no array. *)
CountDisks ==
  /\ pc = "start"
  /\ tables' = computer
  /\ pc' = IF computer = <<>> THEN "empty" ELSE "search"
  /\ UNCHANGED <<i, p, sums, pos, ext4_partitions_id_map, find, listed, opened>>

(* Seeded fault: the number of partitions for the largest of their numbers. *)
Largest_count(d) == get_partitions_ext2_count(d)

(* "getting max id of ext2 compatible partitions" *)
Largest(d) ==
  IF get_partitions_ext2_count(d) > 0
  THEN get_part_no(d, get_partitions_ext2_count(d) - 1) ELSE 0

SearchDisk ==
  /\ pc = "search" /\ i < hard_disks_cnt
  /\ p' = p + Largest(i)
  /\ sums' = Append(sums, p')
  /\ i' = i + 1
  /\ UNCHANGED <<tables, pc, pos, ext4_partitions_id_map, find, listed, opened>>

Size == hard_disks_cnt + p

CreateMap ==
  /\ pc = "search" /\ i = hard_disks_cnt
  /\ ext4_partitions_id_map' = [k \in 0 .. Size - 1 |-> 0]
  /\ pos' = hard_disks_cnt
  /\ i' = 0
  /\ pc' = "map"
  /\ UNCHANGED <<tables, p, sums, find, listed, opened>>

(* The element for partition j of a disk whose numbers begin at start. *)
Element(start, d, j) == start + get_part_no(d, j) - 1

Indexes(d) == 0 .. get_partitions_ext2_count(d) - 1

(* Seeded fault: all disks begin at the same element. *)
Advance_stays == pos

(* The numbers of the next disk begin behind the largest of this one. *)
Advance == pos + Largest(i)

MapDisk ==
  /\ pc = "map" /\ i < hard_disks_cnt
  /\ ext4_partitions_id_map' =
       [k \in DOMAIN ext4_partitions_id_map |->
          IF k = i THEN (IF get_partitions_ext2_count(i) > 0 THEN pos ELSE 0)
          ELSE IF \E j \in Indexes(i) : k = Element(pos, i, j)
               THEN CHOOSE j \in Indexes(i) : k = Element(pos, i, j)
               ELSE ext4_partitions_id_map[k]]
  /\ pos' = Advance
  /\ i' = i + 1
  /\ UNCHANGED <<tables, pc, p, sums, find, listed, opened>>

MapCreated ==
  /\ pc = "map" /\ i = hard_disks_cnt
  /\ pc' = "ready"
  /\ UNCHANGED <<tables, i, p, sums, pos, ext4_partitions_id_map, find, listed, opened>>

-----------------------------------------------------------------------------
(* The root directory.  FsFindFirst tests plugin_initialized and the array. *)

get_partition_index_via_real_number(d, no) ==
  ext4_partitions_id_map[ext4_partitions_id_map[d] + no - 1]

Disks == 0 .. hard_disks_cnt - 1
WithPartitions == {d \in Disks : get_partitions_ext2_count(d) > 0}
IsFirst(d, S) == d \in S /\ \A e \in S : d <= e

Handle(d, j) == [disk_no |-> d, part_no_map |-> j]
Name(d, j) == [disk_no |-> d, part_no |-> get_part_no(d, j)]

(* FsFindFirst("\") *)
ListFirst ==
  /\ pc = "ready" /\ find = NULL
  /\ \E d \in Disks :
       /\ IsFirst(d, WithPartitions)
       /\ find' = Handle(d, get_partition_index_via_real_number(d, get_part_no(d, 0)))
       /\ listed' = <<Name(d, 0)>>
  /\ UNCHANGED <<initVars, opened>>

(* Seeded fault: the index is not reset for the next disk. *)
After_noReset(d, j) ==
  {x \in {<<e, k>> : e \in d .. hard_disks_cnt - 1, k \in {j + 1}} : x[2] \in Indexes(x[1])}

(* get_next_ext4_disk_and_part_no: the next index of the disk, or the first
   one of the next disk that has any. *)
After(d, j) ==
  IF j + 1 < get_partitions_ext2_count(d) THEN {<<d, j + 1>>}
  ELSE {<<e, 0>> : e \in {x \in Disks : IsFirst(x, {y \in WithPartitions : y > d})}}

(* FsFindNext *)
ListNext ==
  /\ find # NULL
  /\ \E x \in After(find.disk_no, find.part_no_map) :
       /\ find' = Handle(x[1], x[2])
       /\ listed' = Append(listed, Name(x[1], x[2]))
  /\ UNCHANGED <<initVars, opened>>

AtEnd == find # NULL /\ After(find.disk_no, find.part_no_map) = {}

(* FsFindClose, at any time *)
Close ==
  /\ find # NULL
  /\ find' = NULL
  /\ listed' = <<>>
  /\ UNCHANGED <<initVars, opened>>

(* validate_disk_and_part_no *)
Valid(d, no) ==
  /\ d \in Disks
  /\ get_partitions_ext2_count(d) > 0
  /\ no <= Largest(d)

(* FsFindFirst, or FsGetFile, of a path.  FsGetFile does not ask how FsInit
   ended; it goes by hard_disks_cnt. *)
Open ==
  /\ pc \in {"ready", "empty", "refused"}
  /\ \E d \in 0 .. Len(computer), no \in Names :
       opened' = IF Valid(d, no)
                 THEN [disk_no |-> d, part_no |-> no,
                       part_no_map |-> get_partition_index_via_real_number(d, no)]
                 ELSE NULL
  /\ UNCHANGED <<initVars, find, listed>>

Step ==
  \/ NotAdmin \/ CountDisks \/ SearchDisk \/ CreateMap \/ MapDisk \/ MapCreated
  \/ ListFirst \/ ListNext \/ Close \/ Open

Next == Step /\ UNCHANGED computer

Spec == Init /\ [][Next]_vars

-----------------------------------------------------------------------------
(* Type invariant, and the length of the array. *)
TypeOK ==
  /\ computer \in Systems
  /\ tables = IF pc \in {"start", "refused"} THEN <<>> ELSE computer
  /\ pc \in {"start", "search", "map", "ready", "empty", "refused"}
  /\ i \in 0 .. hard_disks_cnt /\ p \in Nat /\ pos \in Nat
  /\ sums \in Seq(Nat)
  /\ DOMAIN ext4_partitions_id_map =
       IF pc \in {"map", "ready"} THEN 0 .. hard_disks_cnt + p - 1 ELSE {}
  /\ \A k \in DOMAIN ext4_partitions_id_map : ext4_partitions_id_map[k] \in Nat
  /\ find \in {NULL} \cup [disk_no : Nat, part_no_map : Nat]
  /\ listed \in Seq([disk_no : Nat, part_no : Nat])
  /\ opened \in {NULL} \cup [disk_no : Nat, part_no : Nat, part_no_map : Nat]

(* init_ext2_partitions_id_map writes inside the array, and behind the
   elements of the disks: the length was summed up by another function,
   which takes the last number for the largest. *)
MapFits ==
  pc = "map" /\ i < hard_disks_cnt =>
    \A j \in Indexes(i) :
      Element(pos, i, j) \in DOMAIN ext4_partitions_id_map \ Disks

(* Every partition is found under its number: no other disk and no other
   partition has overwritten its element, and its path is accepted. *)
NumbersLeadToPartitions ==
  pc = "ready" =>
    \A d \in Disks : \A j \in Indexes(d) :
      /\ get_partition_index_via_real_number(d, get_part_no(d, j)) = j
      /\ Valid(d, get_part_no(d, j))

(* The root lists the partitions in the order of disks and numbers, so none
   twice, and when FsFindNext says there are no more, it has listed all. *)
ListingIsComplete ==
  find # NULL =>
    /\ \A a, b \in 1 .. Len(listed) : a < b =>
         \/ listed[a].disk_no < listed[b].disk_no
         \/ listed[a].disk_no = listed[b].disk_no /\ listed[a].part_no < listed[b].part_no
    /\ AtEnd => \A d \in Disks : \A j \in Indexes(d) :
                  \E a \in 1 .. Len(listed) : listed[a] = Name(d, j)

(* Whatever number a path names, an accepted one is looked up inside the array:
   validate_disk_and_part_no goes by the tables, the length of the array by sums
   over them, and FsGetFile asks even when FsInit has ended without an array. *)
PathsReadInsideMap ==
  pc \in {"ready", "empty", "refused"} =>
    \A d \in Disks, no \in Names : Valid(d, no) =>
      /\ d \in DOMAIN ext4_partitions_id_map
      /\ ext4_partitions_id_map[d] + no - 1 \in DOMAIN ext4_partitions_id_map

(* A path that is accepted leads to the partition it names. *)
PathsLeadToPartitions ==
  opened # NULL =>
    /\ opened.part_no_map \in Indexes(opened.disk_no)
    /\ get_part_no(opened.disk_no, opened.part_no_map) = opened.part_no

=============================================================================
