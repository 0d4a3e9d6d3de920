------------------------ MODULE PartitionMap_proofs ------------------------
(***************************************************************************)
(* The array of partition numbers and the listing of the root, for any     *)
(* number of disks and partitions.                                         *)
(*                                                                         *)
(* The invariant keeps the sums the two loops of FsInit make: disk d has   *)
(* the elements from hard_disks_cnt + sums[d + 1] to before                *)
(* hard_disks_cnt + sums[d + 2], so that no disk writes to the elements of *)
(* another one.                                                            *)
(***************************************************************************)
EXTENDS PartitionMap, TLAPS, WellFoundedInduction

Begin(d) == hard_disks_cnt + sums[d + 1]

(* The sums, as far as the search has come. *)
Summed ==
  /\ sums[1] = 0
  /\ Len(sums) = (IF pc = "search" THEN i ELSE hard_disks_cnt) + 1
  /\ p = sums[Len(sums)]
  /\ \A d \in 0 .. Len(sums) - 2 : sums[d + 2] = sums[d + 1] + Largest(d)
  /\ \A a, b \in 1 .. Len(sums) : a <= b => sums[a] <= sums[b]

(* The array, as far as it is filled. *)
Mapped ==
  /\ pc = "empty" => hard_disks_cnt = 0
  /\ pc = "map" => pos = Begin(i)
  /\ pc = "ready" => i = hard_disks_cnt
  /\ pc \in {"map", "ready"} =>
       \A d \in 0 .. i - 1 : get_partitions_ext2_count(d) > 0 =>
         /\ ext4_partitions_id_map[d] = Begin(d)
         /\ \A j \in Indexes(d) : ext4_partitions_id_map[Element(Begin(d), d, j)] = j

(* (d, j) comes before (e, k) in the listing. *)
Before(d, j, e, k) == d < e \/ (d = e /\ j < k)

(* The listing has come to the partition of the handle. *)
Listed ==
  find # NULL =>
    LET e == find.disk_no
        k == find.part_no_map
    IN /\ pc = "ready"
       /\ e \in Disks /\ k \in Indexes(e)
       /\ \A a, b \in 1 .. Len(listed) : a < b =>
            \/ listed[a].disk_no < listed[b].disk_no
            \/ listed[a].disk_no = listed[b].disk_no /\ listed[a].part_no < listed[b].part_no
       /\ \A a \in 1 .. Len(listed) :
            \E d \in Disks : \E j \in Indexes(d) :
              listed[a] = Name(d, j) /\ ~Before(e, k, d, j)
       /\ \A d \in Disks : \A j \in Indexes(d) :
            ~Before(e, k, d, j) => \E a \in 1 .. Len(listed) : listed[a] = Name(d, j)

IInv == TypeOK /\ Summed /\ Mapped /\ Listed

-----------------------------------------------------------------------------
(* The tables of the disks. *)
LEMMA Tables ==
  ASSUME tables \in Systems \cup {<<>>}
  PROVE  /\ hard_disks_cnt \in Nat
         /\ \A d \in Disks :
              /\ get_partitions_ext2_count(d) \in Nat
              /\ Largest(d) \in Nat
              /\ \A j \in Indexes(d) :
                   /\ get_part_no(d, j) \in Nat \ {0}
                   /\ get_part_no(d, j) <= Largest(d)
                   /\ \A k \in Indexes(d) : j < k => get_part_no(d, j) < get_part_no(d, k)
<1>1. /\ tables \in Seq(Seq(Nat \ {0}))
      /\ \A d \in 1 .. Len(tables) : \A j, k \in 1 .. Len(tables[d]) :
           j < k => tables[d][j] < tables[d][k]
  <2>1. CASE tables \in Systems
    BY <2>1, PartitionMapAssumption
  <2>2. CASE tables = <<>>
    BY <2>2
  <2> QED BY <2>1, <2>2
<1>2. hard_disks_cnt \in Nat
  BY <1>1 DEF hard_disks_cnt
<1>3. ASSUME NEW d \in Disks
      PROVE  /\ get_partitions_ext2_count(d) \in Nat
             /\ Largest(d) \in Nat
             /\ \A j \in Indexes(d) :
                  /\ get_part_no(d, j) \in Nat \ {0}
                  /\ get_part_no(d, j) <= Largest(d)
                  /\ \A k \in Indexes(d) : j < k => get_part_no(d, j) < get_part_no(d, k)
  <2> DEFINE t == tables[d + 1]
  <2>1. d + 1 \in 1 .. Len(tables) /\ t \in Seq(Nat \ {0})
    BY <1>1 DEF Disks, hard_disks_cnt
  <2>2. Len(t) \in Nat /\ \A j \in 1 .. Len(t) : t[j] \in Nat \ {0}
    BY <2>1
  <2>3. \A j, k \in 1 .. Len(t) : j < k => t[j] < t[k]
    BY <1>1, <2>1
  <2>4. get_partitions_ext2_count(d) = Len(t) /\ \A j : get_part_no(d, j) = t[j + 1]
    BY DEF get_partitions_ext2_count, get_part_no
  <2> HIDE DEF t
  <2>5. Largest(d) = IF Len(t) > 0 THEN t[Len(t)] ELSE 0
    <3>1. Len(t) - 1 + 1 = Len(t)
      BY <2>2
    <3> QED BY <2>4, <3>1 DEF Largest
  <2>6. Largest(d) \in Nat
    BY <2>2, <2>5
  <2>7. ASSUME NEW j \in Indexes(d)
        PROVE  /\ get_part_no(d, j) \in Nat \ {0}
               /\ get_part_no(d, j) <= Largest(d)
               /\ \A k \in Indexes(d) : j < k => get_part_no(d, j) < get_part_no(d, k)
    <3>1. \A k \in Indexes(d) : k \in Nat /\ k + 1 \in 1 .. Len(t)
      BY <2>2, <2>4 DEF Indexes
    <3>2. j \in Nat /\ Len(t) > 0 /\ j + 1 <= Len(t) /\ Len(t) \in 1 .. Len(t)
      BY <2>2, <3>1
    <3>3. t[j + 1] <= t[Len(t)]
      <4>1. CASE j + 1 = Len(t)
        BY <2>2, <3>2, <4>1
      <4>2. CASE j + 1 < Len(t)
        BY <2>2, <2>3, <3>1, <3>2, <4>2
      <4> QED BY <2>2, <3>2, <4>1, <4>2
    <3>4. \A k \in Indexes(d) : j < k => t[j + 1] < t[k + 1]
      BY <2>3, <3>1
    <3> QED BY <2>2, <2>4, <2>5, <3>1, <3>2, <3>3, <3>4
  <2> QED BY <2>2, <2>4, <2>6, <2>7
<1> QED BY <1>2, <1>3

(* Where the elements of a disk lie. *)
LEMMA Elements ==
  ASSUME TypeOK, Summed, pc \in {"map", "ready"},
         NEW d \in Disks, NEW j \in Indexes(d)
  PROVE  /\ Begin(d) \in Nat /\ Begin(d + 1) \in Nat
         /\ Begin(d + 1) = Begin(d) + Largest(d)
         /\ Element(Begin(d), d, j) \in Begin(d) .. Begin(d + 1) - 1
         /\ hard_disks_cnt <= Begin(d) /\ Begin(d + 1) <= hard_disks_cnt + p
         /\ Element(Begin(d), d, j) \in DOMAIN ext4_partitions_id_map \ Disks
<1>1. /\ hard_disks_cnt \in Nat /\ d \in 0 .. hard_disks_cnt - 1 /\ d \in Nat
      /\ Largest(d) \in Nat
      /\ get_part_no(d, j) \in Nat \ {0} /\ get_part_no(d, j) <= Largest(d)
  BY Tables DEF TypeOK, Disks
<1>2. sums \in Seq(Nat) /\ Len(sums) = hard_disks_cnt + 1
  BY DEF TypeOK, Summed
<1>3. /\ d + 1 \in 1 .. Len(sums) /\ d + 2 \in 1 .. Len(sums)
      /\ d \in 0 .. Len(sums) - 2
      /\ Len(sums) \in 1 .. Len(sums)
  BY <1>1, <1>2
<1>4. sums[d + 1] \in Nat /\ sums[d + 2] \in Nat
  BY <1>2, <1>3
<1>5. sums[d + 2] = sums[d + 1] + Largest(d) /\ sums[d + 2] <= p /\ p \in Nat
  BY <1>2, <1>3 DEF Summed, TypeOK
<1>6. Begin(d) = hard_disks_cnt + sums[d + 1] /\ Begin(d + 1) = hard_disks_cnt + sums[d + 2]
  BY <1>1 DEF Begin
<1>7. DOMAIN ext4_partitions_id_map = 0 .. hard_disks_cnt + p - 1
  BY DEF TypeOK
<1>8. /\ Begin(d) \in Nat /\ Begin(d + 1) \in Nat
      /\ hard_disks_cnt <= Begin(d) /\ Begin(d + 1) <= hard_disks_cnt + p
      /\ Begin(d + 1) = Begin(d) + Largest(d)
  BY <1>1, <1>4, <1>5, <1>6
<1>9. Element(Begin(d), d, j) \in Begin(d) .. Begin(d + 1) - 1
  BY <1>1, <1>8 DEF Element
<1>10. Element(Begin(d), d, j) \in hard_disks_cnt .. hard_disks_cnt + p - 1
  BY <1>1, <1>5, <1>8, <1>9
<1> QED BY <1>1, <1>5, <1>7, <1>8, <1>9, <1>10 DEF Disks

(* The elements of an earlier disk lie before those of a later one. *)
LEMMA Earlier ==
  ASSUME TypeOK, Summed, pc \in {"map", "ready"},
         NEW d \in Nat, NEW e \in Nat, d <= e, e <= hard_disks_cnt
  PROVE  Begin(d) <= Begin(e) /\ Begin(d) \in Nat /\ Begin(e) \in Nat
<1>1. /\ hard_disks_cnt \in Nat /\ sums \in Seq(Nat) /\ Len(sums) = hard_disks_cnt + 1
      /\ \A a, b \in 1 .. Len(sums) : a <= b => sums[a] <= sums[b]
  BY Tables DEF TypeOK, Summed
<1>2. d + 1 \in 1 .. Len(sums) /\ e + 1 \in 1 .. Len(sums) /\ d + 1 <= e + 1
  BY <1>1
<1>3. sums[d + 1] \in Nat /\ sums[e + 1] \in Nat /\ sums[d + 1] <= sums[e + 1]
  BY <1>1, <1>2
<1> QED BY <1>1, <1>3 DEF Begin

-----------------------------------------------------------------------------
LEMMA InitIInv == Init => IInv
<1> SUFFICES ASSUME Init PROVE IInv
  OBVIOUS
<1>1. tables = <<>> /\ hard_disks_cnt = 0
  BY DEF Init, hard_disks_cnt
<1>2. sums = <<0>> /\ sums \in Seq(Nat) /\ Len(sums) = 1 /\ sums[1] = 0
  BY DEF Init
<1>4. TypeOK
  <2>1. listed \in Seq([disk_no : Nat, part_no : Nat])
    BY DEF Init
  <2>2. DOMAIN ext4_partitions_id_map = {}
    BY DEF Init
  <2> QED BY <1>1, <1>2, <2>1, <2>2 DEF Init, TypeOK
<1>5. Summed
  BY <1>1, <1>2 DEF Init, Summed
<1>6. Mapped /\ Listed
  BY DEF Init, Mapped, Listed
<1> QED BY <1>4, <1>5, <1>6 DEF IInv

(* A step that leaves the tables and the array alone. *)
LEMMA ArrayKept ==
  ASSUME IInv, UNCHANGED initVars
  PROVE  Summed' /\ Mapped'
<1> QED BY DEF IInv, initVars, Summed, Mapped, Begin, Element, Indexes, Largest,
             get_part_no, get_partitions_ext2_count, hard_disks_cnt

(* While FsInit runs there is no listing. *)
LEMMA NoListing ==
  ASSUME IInv, pc # "ready", UNCHANGED find
  PROVE  Listed'
<1> QED BY DEF IInv, Listed

LEMMA NotAdminInv ==
  ASSUME IInv, NotAdmin, UNCHANGED computer
  PROVE  IInv'
<1>1. /\ pc = "start" /\ pc' = "refused" /\ tables = <<>>
      /\ UNCHANGED <<tables, i, p, sums, pos, ext4_partitions_id_map, find, listed, opened>>
  BY DEF NotAdmin, IInv, TypeOK
<1>2. hard_disks_cnt' = hard_disks_cnt /\ \A d : Largest(d)' = Largest(d)
  BY <1>1 DEF hard_disks_cnt, Largest, get_part_no, get_partitions_ext2_count
<1>3. TypeOK'
  BY <1>1, <1>2 DEF IInv, TypeOK
<1>4. Summed'
  BY <1>1, <1>2 DEF IInv, Summed
<1>5. Mapped'
  BY <1>1 DEF Mapped
<1>6. Listed'
  BY <1>1, NoListing
<1> QED BY <1>3, <1>4, <1>5, <1>6 DEF IInv

LEMMA CountDisksInv ==
  ASSUME IInv, CountDisks, UNCHANGED computer
  PROVE  IInv'
<1>1. /\ pc = "start" /\ tables = <<>> /\ tables' = computer
      /\ pc' = IF computer = <<>> THEN "empty" ELSE "search"
      /\ UNCHANGED <<i, p, sums, pos, ext4_partitions_id_map, find, listed, opened>>
  BY DEF CountDisks, IInv, TypeOK
<1>2. hard_disks_cnt = 0 /\ i = 0
  <2>1. hard_disks_cnt = 0
    BY <1>1 DEF hard_disks_cnt
  <2> QED BY <2>1 DEF IInv, TypeOK
<1>3. hard_disks_cnt' \in Nat /\ (computer = <<>> => hard_disks_cnt' = 0)
  <2>1. computer \in Seq(Seq(Nat \ {0}))
    BY PartitionMapAssumption DEF IInv, TypeOK
  <2> QED BY <1>1, <2>1 DEF hard_disks_cnt
<1>4. Len(sums) = 1 /\ p = sums[1] /\ sums[1] = 0
  BY <1>1, <1>2 DEF IInv, Summed
<1>5. TypeOK'
  <2>1. pc' \in {"search", "empty"} /\ i' = 0
    BY <1>1, <1>2
  <2>2. DOMAIN ext4_partitions_id_map = {}
    BY <1>1 DEF IInv, TypeOK
  <2>3. i' \in 0 .. hard_disks_cnt'
    BY <1>3, <2>1
  <2>4. /\ computer' \in Systems /\ tables' = computer'
        /\ pc' \in {"start", "search", "map", "ready", "empty", "refused"}
        /\ pc' \notin {"start", "refused"} /\ pc' \notin {"map", "ready"}
    BY <1>1, <2>1 DEF IInv, TypeOK
  <2>5. /\ p' \in Nat /\ pos' \in Nat /\ sums' \in Seq(Nat)
        /\ find' \in {NULL} \cup [disk_no : Nat, part_no_map : Nat]
        /\ listed' \in Seq([disk_no : Nat, part_no : Nat])
        /\ opened' \in {NULL} \cup [disk_no : Nat, part_no : Nat, part_no_map : Nat]
    BY <1>1 DEF IInv, TypeOK
  <2>6. DOMAIN ext4_partitions_id_map' = {}
    BY <1>1, <2>2
  <2>7. \A k \in DOMAIN ext4_partitions_id_map' : ext4_partitions_id_map'[k] \in Nat
    BY <2>6
  <2>8. DOMAIN ext4_partitions_id_map' =
          IF pc' \in {"map", "ready"} THEN 0 .. hard_disks_cnt' + p' - 1 ELSE {}
    BY <2>4, <2>6
  <2>9. tables' = IF pc' \in {"start", "refused"} THEN <<>> ELSE computer'
    BY <2>4
  <2> QED BY <2>3, <2>4, <2>5, <2>7, <2>8, <2>9 DEF TypeOK
<1>6. Summed'
  <2>1. Len(sums') = (IF pc' = "search" THEN i' ELSE hard_disks_cnt') + 1
    <3>1. (IF pc' = "search" THEN i' ELSE hard_disks_cnt') = 0
      BY <1>1, <1>2, <1>3
    <3> QED BY <1>1, <1>4, <3>1
  <2>2. \A d \in 0 .. Len(sums') - 2 : FALSE
    BY <1>1, <1>4
  <2>3. \A a, b \in 1 .. Len(sums') : a = 1 /\ b = 1
    BY <1>1, <1>4
  <2> QED BY <1>1, <1>4, <2>1, <2>2, <2>3 DEF Summed
<1>7. Mapped'
  BY <1>1, <1>3 DEF Mapped
<1>8. Listed'
  BY <1>1, NoListing
<1> QED BY <1>5, <1>6, <1>7, <1>8 DEF IInv

LEMMA SearchDiskInv ==
  ASSUME IInv, SearchDisk, UNCHANGED computer
  PROVE  IInv'
<1>1. /\ hard_disks_cnt \in Nat /\ i \in 0 .. hard_disks_cnt - 1 /\ i \in Nat /\ Largest(i) \in Nat
      /\ p \in Nat /\ sums \in Seq(Nat) /\ Len(sums) = i + 1 /\ p = sums[i + 1]
  BY Tables DEF IInv, TypeOK, Summed, SearchDisk, Disks
<1>2. /\ p' = p + Largest(i) /\ p' \in Nat /\ sums' = Append(sums, p') /\ i' = i + 1
      /\ UNCHANGED <<tables, pc, pos, ext4_partitions_id_map, find, listed, opened>> /\ pc = "search"
  BY <1>1 DEF SearchDisk
<1>3. /\ sums' \in Seq(Nat) /\ Len(sums') = i + 2 /\ sums'[i + 2] = p'
      /\ \A a \in 1 .. i + 1 : sums'[a] = sums[a] /\ sums[a] \in Nat /\ sums[a] <= p
  <2>1. sums' \in Seq(Nat) /\ Len(sums') = i + 2 /\ sums'[i + 2] = p'
    BY <1>1, <1>2
  <2>2. \A a \in 1 .. i + 1 : sums'[a] = sums[a] /\ sums[a] \in Nat
    BY <1>1, <1>2
  <2>3. \A a \in 1 .. i + 1 : sums[a] <= p
    BY <1>1 DEF IInv, Summed
  <2> QED BY <2>1, <2>2, <2>3
<1>4. hard_disks_cnt' = hard_disks_cnt /\ \A d : Largest(d)' = Largest(d)
  BY <1>2 DEF hard_disks_cnt, Largest, get_part_no, get_partitions_ext2_count
<1>5. TypeOK'
  BY <1>1, <1>2, <1>3, <1>4 DEF IInv, TypeOK
<1>6. Summed'
  <2>1. Len(sums') = (IF pc' = "search" THEN i' ELSE hard_disks_cnt') + 1 /\ p' = sums'[Len(sums')]
    BY <1>1, <1>2, <1>3
  <2>2. ASSUME NEW d \in 0 .. Len(sums') - 2
        PROVE  sums'[d + 2] = sums'[d + 1] + Largest(d)'
    <3>1. CASE d = i
      <4>1. sums'[d + 2] = p + Largest(d) /\ sums'[d + 1] = p
        BY <1>1, <1>2, <1>3, <3>1
      <4> QED BY <1>4, <4>1
    <3>2. CASE d # i
      <4>1. d \in 0 .. Len(sums) - 2 /\ d + 1 \in 1 .. i + 1 /\ d + 2 \in 1 .. i + 1
        BY <1>1, <1>3, <3>2
      <4>2. sums[d + 2] = sums[d + 1] + Largest(d)
        BY <4>1 DEF IInv, Summed
      <4> QED BY <1>3, <1>4, <4>1, <4>2
    <3> QED BY <3>1, <3>2
  <2>3. ASSUME NEW a \in 1 .. Len(sums'), NEW b \in 1 .. Len(sums'), a <= b
        PROVE  sums'[a] <= sums'[b]
    <3>1. CASE b = i + 2
      BY <1>1, <1>2, <1>3, <2>3, <3>1
    <3>2. CASE b # i + 2
      <4>1. a \in 1 .. Len(sums) /\ b \in 1 .. Len(sums)
        BY <1>1, <1>3, <2>3, <3>2
      <4>2. sums[a] <= sums[b]
        BY <2>3, <4>1 DEF IInv, Summed
      <4> QED BY <1>1, <1>3, <4>1, <4>2
    <3> QED BY <3>1, <3>2
  <2>4. sums'[1] = 0
    BY <1>1, <1>3 DEF IInv, Summed
  <2> QED BY <2>1, <2>2, <2>3, <2>4 DEF Summed
<1>7. Mapped'
  BY <1>2 DEF Mapped
<1>8. Listed'
  BY <1>2, NoListing
<1> QED BY <1>5, <1>6, <1>7, <1>8 DEF IInv

LEMMA CreateMapInv ==
  ASSUME IInv, CreateMap, UNCHANGED computer
  PROVE  IInv'
<1>1. /\ hard_disks_cnt \in Nat /\ p \in Nat /\ sums \in Seq(Nat)
      /\ Len(sums) = hard_disks_cnt + 1 /\ sums[1] \in Nat
  BY Tables DEF IInv, TypeOK, Summed, CreateMap
<1>2. /\ ext4_partitions_id_map' = [k \in 0 .. hard_disks_cnt + p - 1 |-> 0]
      /\ pos' = hard_disks_cnt /\ i' = 0 /\ pc' = "map" /\ pc = "search"
      /\ UNCHANGED <<tables, p, sums, find, listed, opened>> /\ i = hard_disks_cnt
  BY <1>1 DEF CreateMap, Size
<1>3. hard_disks_cnt' = hard_disks_cnt /\ \A d : Largest(d)' = Largest(d)
  BY <1>2 DEF hard_disks_cnt, Largest, get_part_no, get_partitions_ext2_count
<1>4. TypeOK'
  <2>1. /\ DOMAIN ext4_partitions_id_map' = 0 .. hard_disks_cnt' + p' - 1
        /\ \A k \in DOMAIN ext4_partitions_id_map' : ext4_partitions_id_map'[k] \in Nat
    BY <1>2, <1>3
  <2> QED BY <1>1, <1>2, <1>3, <2>1 DEF IInv, TypeOK
<1>5. Summed'
  BY <1>2, <1>3 DEF IInv, Summed
<1>6. Mapped'
  <2>1. \A d \in 0 .. i' - 1 : FALSE
    BY <1>2
  <2>2. pos' = Begin(i)'
    <3>1. sums[1] = 0
      BY <1>1 DEF IInv, Summed
    <3> QED BY <1>1, <1>2, <1>3, <3>1 DEF Begin
  <2> QED BY <1>2, <2>1, <2>2 DEF Mapped
<1>7. Listed'
  BY <1>2, NoListing
<1> QED BY <1>4, <1>5, <1>6, <1>7 DEF IInv

LEMMA FitsInv ==
  ASSUME IInv
  PROVE  MapFits
<1> SUFFICES ASSUME pc = "map", i < hard_disks_cnt, NEW j \in Indexes(i)
             PROVE  Element(pos, i, j) \in DOMAIN ext4_partitions_id_map \ Disks
  BY DEF MapFits
<1>1. i \in Disks /\ pos = Begin(i)
  BY Tables DEF IInv, TypeOK, Mapped, Disks
<1> QED BY <1>1, Elements DEF IInv

(* What the array has after one disk. *)
LEMMA MapDiskMaps ==
  ASSUME IInv, MapDisk
  PROVE  \A d \in 0 .. i : get_partitions_ext2_count(d) > 0 =>
           /\ ext4_partitions_id_map'[d] = Begin(d)
           /\ \A j \in Indexes(d) : ext4_partitions_id_map'[Element(Begin(d), d, j)] = j
<1> DEFINE map == ext4_partitions_id_map
           Value(k) == IF k = i THEN (IF get_partitions_ext2_count(i) > 0 THEN pos ELSE 0)
                       ELSE IF \E j \in Indexes(i) : k = Element(pos, i, j)
                            THEN CHOOSE j \in Indexes(i) : k = Element(pos, i, j)
                            ELSE map[k]
<1>1. /\ pc = "map" /\ hard_disks_cnt \in Nat /\ i \in Disks /\ i \in Nat /\ i < hard_disks_cnt
      /\ pos = Begin(i) /\ TypeOK /\ Summed /\ p \in Nat
      /\ DOMAIN map = 0 .. hard_disks_cnt + p - 1
  BY Tables DEF IInv, TypeOK, Mapped, MapDisk, Disks
<1>2. map' = [k \in DOMAIN map |-> Value(k)]
  BY DEF MapDisk
<1> HIDE DEF map
<1>3. ASSUME NEW d \in 0 .. i, get_partitions_ext2_count(d) > 0
      PROVE  /\ map'[d] = Begin(d)
             /\ \A j \in Indexes(d) : map'[Element(Begin(d), d, j)] = j
  <2>1. d \in Disks /\ d \in DOMAIN map /\ d \in Nat /\ d <= i
    BY <1>1 DEF Disks
  <2>2. \A j \in Indexes(d) : Element(Begin(d), d, j) \in DOMAIN map \ Disks
    BY <1>1, <2>1, Elements DEF map
  <2>3. \A j \in Indexes(i) : Element(pos, i, j) \in DOMAIN map \ Disks
    BY <1>1, Elements DEF map
  <2>4. CASE d = i
    <3>1. map'[d] = Begin(d)
      BY <1>1, <1>2, <1>3, <2>1, <2>4
    <3>2. ASSUME NEW j \in Indexes(d)
          PROVE  map'[Element(Begin(d), d, j)] = j
      <4> DEFINE e == Element(Begin(d), d, j)
      <4>1. e # i /\ e \in DOMAIN map
        BY <1>1, <2>2
      <4>2. e = Element(pos, i, j)
        BY <1>1, <2>4
      <4>3. ASSUME NEW k \in Indexes(i), e = Element(pos, i, k)
            PROVE  k = j
        <5>1. get_part_no(i, k) \in Nat /\ get_part_no(i, j) \in Nat /\ pos \in Nat
          BY <1>1, <2>4, Tables DEF TypeOK
        <5>2. get_part_no(i, k) = get_part_no(i, j)
          BY <4>2, <4>3, <5>1 DEF Element
        <5>3. k \in Nat /\ j \in Nat
          BY <2>4 DEF Indexes
        <5>4. /\ k < j => get_part_no(i, k) < get_part_no(i, j)
              /\ j < k => get_part_no(i, j) < get_part_no(i, k)
          BY <1>1, <2>4, Tables DEF TypeOK
        <5> QED BY <5>1, <5>2, <5>3, <5>4
      <4> HIDE DEF e
      <4>4. (CHOOSE k \in Indexes(i) : e = Element(pos, i, k)) = j
        BY <2>4, <4>2, <4>3
      <4>5. Value(e) = j
        BY <2>4, <4>1, <4>2, <4>4
      <4> QED BY <1>2, <4>1, <4>5 DEF e
    <3> QED BY <3>1, <3>2
  <2>5. CASE d < i
    <3>1. map[d] = Begin(d) /\ \A j \in Indexes(d) : map[Element(Begin(d), d, j)] = j
      <4>1. d \in 0 .. i - 1
        BY <1>1, <2>1, <2>5
      <4> QED BY <1>1, <1>3, <4>1 DEF IInv, Mapped, map
    <3>2. map'[d] = map[d]
      <4>1. d # i /\ ~\E j \in Indexes(i) : d = Element(pos, i, j)
        BY <1>1, <2>1, <2>3, <2>5
      <4> QED BY <1>2, <2>1, <4>1
    <3>3. ASSUME NEW j \in Indexes(d)
          PROVE  map'[Element(Begin(d), d, j)] = map[Element(Begin(d), d, j)]
      <4> DEFINE e == Element(Begin(d), d, j)
      <4>1. e \in DOMAIN map /\ e # i
        BY <1>1, <2>2
      <4>2. e \in Begin(d) .. Begin(d + 1) - 1 /\ Begin(d) \in Nat
        BY <1>1, <2>1, Elements
      <4>3. Begin(d + 1) <= Begin(i) /\ Begin(d + 1) \in Nat /\ Begin(i) \in Nat
        BY <1>1, <2>1, <2>5, Earlier
      <4>4. ASSUME NEW k \in Indexes(i)
            PROVE  e # Element(pos, i, k)
        <5>1. Element(pos, i, k) \in Begin(i) .. Begin(i + 1) - 1 /\ Begin(i + 1) \in Nat
          BY <1>1, Elements
        <5> HIDE DEF e
        <5> QED BY <4>2, <4>3, <5>1
      <4> HIDE DEF e
      <4>5. Value(e) = map[e]
        BY <4>1, <4>4
      <4> QED BY <1>2, <4>1, <4>5 DEF e
    <3> QED BY <3>1, <3>2, <3>3
  <2> QED BY <1>1, <2>1, <2>4, <2>5
<1> QED BY <1>3 DEF map

LEMMA MapDiskInv ==
  ASSUME IInv, MapDisk, UNCHANGED computer
  PROVE  IInv'
<1>1. /\ pc = "map" /\ hard_disks_cnt \in Nat /\ i \in Disks /\ i \in Nat /\ i < hard_disks_cnt
      /\ pos = Begin(i) /\ pos \in Nat /\ Largest(i) \in Nat /\ TypeOK /\ Summed
      /\ sums \in Seq(Nat) /\ Len(sums) = hard_disks_cnt + 1
  <2>1. pc = "map" /\ i < hard_disks_cnt /\ TypeOK /\ Summed /\ Mapped
    BY DEF IInv, MapDisk
  <2>2. /\ tables \in Systems \cup {<<>>} /\ i \in 0 .. hard_disks_cnt /\ pos \in Nat
        /\ sums \in Seq(Nat)
    BY <2>1 DEF TypeOK
  <2>3. hard_disks_cnt \in Nat /\ \A d \in Disks : Largest(d) \in Nat
    BY <2>2, Tables
  <2>4. i \in Nat /\ i \in Disks
    BY <2>1, <2>2, <2>3 DEF Disks
  <2>5. pos = Begin(i)
    BY <2>1 DEF Mapped
  <2>6. Len(sums) = hard_disks_cnt + 1
    BY <2>1 DEF Summed
  <2> QED BY <2>1, <2>2, <2>3, <2>4, <2>5, <2>6
<1>2. /\ i' = i + 1 /\ pos' = pos + Largest(i)
      /\ UNCHANGED <<tables, pc, p, sums, find, listed, opened>>
  BY DEF MapDisk, Advance
<1>3. /\ hard_disks_cnt' = hard_disks_cnt
      /\ \A d : /\ Largest(d)' = Largest(d)
                /\ get_partitions_ext2_count(d)' = get_partitions_ext2_count(d)
                /\ Indexes(d)' = Indexes(d)
                /\ \A j : get_part_no(d, j)' = get_part_no(d, j)
  BY <1>2 DEF hard_disks_cnt, Largest, get_part_no, get_partitions_ext2_count, Indexes
<1>4. \A d : Begin(d)' = Begin(d)
  BY <1>2, <1>3 DEF Begin
<1>5. TypeOK'
  <2>1. DOMAIN ext4_partitions_id_map' = DOMAIN ext4_partitions_id_map
    BY DEF MapDisk
  <2>2. ASSUME NEW k \in DOMAIN ext4_partitions_id_map
        PROVE  ext4_partitions_id_map'[k] \in Nat
    <3>1. CASE k = i
      BY <1>1, <3>1 DEF MapDisk
    <3>2. CASE k # i /\ \E j \in Indexes(i) : k = Element(pos, i, j)
      <4>1. ext4_partitions_id_map'[k] = CHOOSE j \in Indexes(i) : k = Element(pos, i, j)
        BY <3>2 DEF MapDisk
      <4>2. ext4_partitions_id_map'[k] \in Indexes(i)
        BY <3>2, <4>1
      <4> QED BY <4>2 DEF Indexes
    <3>3. CASE k # i /\ ~\E j \in Indexes(i) : k = Element(pos, i, j)
      <4>1. ext4_partitions_id_map'[k] = ext4_partitions_id_map[k]
        BY <3>3 DEF MapDisk
      <4> QED BY <4>1 DEF IInv, TypeOK
    <3> QED BY <3>1, <3>2, <3>3
  <2> QED BY <1>1, <1>2, <1>3, <2>1, <2>2 DEF TypeOK
<1>6. Summed'
  <2>1. pc' = "map" /\ sums' = sums /\ p' = p
    BY <1>1, <1>2
  <2> QED BY <1>1, <1>3, <2>1 DEF Summed
<1>7. Mapped'
  <2>1. pos' = Begin(i)'
    <3>1. i + 2 \in 1 .. Len(sums) /\ i + 1 \in 1 .. Len(sums) /\ i \in 0 .. Len(sums) - 2
      BY <1>1
    <3>2. sums[i + 2] = sums[i + 1] + Largest(i) /\ sums[i + 1] \in Nat /\ sums[i + 2] \in Nat
      BY <1>1, <3>1 DEF Summed
    <3>3. Begin(i)' = hard_disks_cnt + sums[i + 2]
      BY <1>1, <1>2, <1>3 DEF Begin
    <3>4. pos = hard_disks_cnt + sums[i + 1]
      BY <1>1 DEF Begin
    <3> QED BY <1>1, <1>2, <3>2, <3>3, <3>4
  <2>2. \A d \in 0 .. i' - 1 : d \in 0 .. i
    BY <1>1, <1>2
  <2>3. \A d, j : Element(Begin(d), d, j)' = Element(Begin(d), d, j)
    BY <1>3, <1>4 DEF Element
  <2> QED BY <1>1, <1>2, <1>3, <1>4, <2>1, <2>2, <2>3, MapDiskMaps DEF Mapped
<1>8. Listed'
  BY <1>1, <1>2, NoListing
<1> QED BY <1>5, <1>6, <1>7, <1>8 DEF IInv

LEMMA MapCreatedInv ==
  ASSUME IInv, MapCreated, UNCHANGED computer
  PROVE  IInv'
<1>1. /\ pc = "map" /\ pc' = "ready" /\ i = hard_disks_cnt
      /\ UNCHANGED <<tables, i, p, sums, pos, ext4_partitions_id_map, find, listed, opened>>
  BY DEF MapCreated
<1>2. /\ hard_disks_cnt' = hard_disks_cnt
      /\ \A d : /\ Largest(d)' = Largest(d) /\ Begin(d)' = Begin(d)
                /\ get_partitions_ext2_count(d)' = get_partitions_ext2_count(d)
                /\ Indexes(d)' = Indexes(d)
                /\ \A b, j : Element(b, d, j)' = Element(b, d, j)
  BY <1>1 DEF hard_disks_cnt, Largest, get_part_no, get_partitions_ext2_count, Indexes, Begin, Element
<1>3. TypeOK'
  BY <1>1, <1>2 DEF IInv, TypeOK
<1>4. Summed'
  BY <1>1, <1>2 DEF IInv, Summed
<1>5. Mapped'
  BY <1>1, <1>2 DEF IInv, Mapped
<1>6. Listed'
  BY <1>1, NoListing
<1> QED BY <1>3, <1>4, <1>5, <1>6 DEF IInv

-----------------------------------------------------------------------------
(* The partitions of a system, in the order of the listing. *)
LEMMA Order ==
  ASSUME TypeOK, NEW d \in Disks, NEW j \in Indexes(d), NEW e \in Disks, NEW k \in Indexes(e)
  PROVE  /\ d \in Nat /\ j \in Nat /\ get_part_no(d, j) \in Nat
         /\ Before(d, j, e, k) \/ Before(e, k, d, j) \/ (d = e /\ j = k)
         /\ Before(d, j, e, k) => ~Before(e, k, d, j)
         /\ Before(d, j, e, k) => d < e \/ (d = e /\ get_part_no(d, j) < get_part_no(e, k))
<1>1. d \in Nat /\ j \in Nat /\ e \in Nat /\ k \in Nat
  BY Tables DEF TypeOK, Disks, Indexes
<1>2. d = e /\ j < k => get_part_no(d, j) < get_part_no(e, k)
  BY Tables DEF TypeOK
<1>3. get_part_no(d, j) \in Nat
  BY Tables DEF TypeOK
<1> QED BY <1>1, <1>2, <1>3 DEF Before

(* The operators of the listing only speak of the tables. *)
LEMMA TablesKept ==
  ASSUME UNCHANGED tables
  PROVE  /\ Disks' = Disks /\ hard_disks_cnt' = hard_disks_cnt
         /\ \A d : Indexes(d)' = Indexes(d) /\ get_partitions_ext2_count(d)' = get_partitions_ext2_count(d)
         /\ \A d, j : Name(d, j)' = Name(d, j)
<1> QED BY DEF Disks, Indexes, Name, get_part_no, get_partitions_ext2_count, hard_disks_cnt

(* The index of a partition, once the array is complete. *)
LEMMA Found ==
  ASSUME IInv, pc = "ready", NEW d \in Disks, NEW j \in Indexes(d)
  PROVE  get_partition_index_via_real_number(d, get_part_no(d, j)) = j
<1>1. d \in 0 .. i - 1 /\ get_partitions_ext2_count(d) > 0
  BY Tables DEF IInv, TypeOK, Mapped, Disks, Indexes
<1>2. /\ ext4_partitions_id_map[d] = Begin(d)
      /\ ext4_partitions_id_map[Element(Begin(d), d, j)] = j
  BY <1>1 DEF IInv, Mapped
<1> QED BY <1>2 DEF get_partition_index_via_real_number, Element

LEMMA ListFirstInv ==
  ASSUME IInv, ListFirst, UNCHANGED computer
  PROVE  IInv'
<1>1. PICK d \in Disks :
        /\ IsFirst(d, WithPartitions)
        /\ find' = Handle(d, get_partition_index_via_real_number(d, get_part_no(d, 0)))
        /\ listed' = <<Name(d, 0)>>
  BY DEF ListFirst
<1>2. pc = "ready" /\ UNCHANGED <<initVars, opened>> /\ TypeOK
  BY DEF ListFirst, IInv
<1>3. d \in Nat /\ get_partitions_ext2_count(d) \in Nat /\ 0 \in Indexes(d)
  BY <1>1, <1>2, Tables DEF TypeOK, IsFirst, WithPartitions, Indexes, Disks
<1>4. find' = [disk_no |-> d, part_no_map |-> 0]
  BY <1>1, <1>2, <1>3, Found DEF Handle
<1>5. Name(d, 0) \in [disk_no : Nat, part_no : Nat]
  BY <1>2, <1>3, Order DEF Name
<1>6. /\ listed' \in Seq([disk_no : Nat, part_no : Nat]) /\ Len(listed') = 1
      /\ listed'[1] = Name(d, 0)
  BY <1>1, <1>5
<1>7. TypeOK'
  BY <1>2, <1>3, <1>4, <1>6, TablesKept DEF TypeOK, initVars
<1>8. Listed'
  <2>1. /\ find'.disk_no = d /\ find'.part_no_map = 0 /\ pc' = "ready"
        /\ Disks' = Disks /\ \A e : Indexes(e)' = Indexes(e) /\ \A k : Name(e, k)' = Name(e, k)
    BY <1>2, <1>4, TablesKept DEF initVars
  <2>2. ASSUME NEW e \in Disks, NEW k \in Indexes(e), ~Before(d, 0, e, k)
        PROVE  e = d /\ k = 0
    <3>1. e \in WithPartitions /\ e \in Nat /\ k \in Nat
      BY <1>2, Tables DEF TypeOK, WithPartitions, Indexes, Disks
    <3>2. d <= e
      BY <1>1, <3>1 DEF IsFirst
    <3> QED BY <1>3, <2>2, <3>1, <3>2 DEF Before
  <2>3. ~Before(d, 0, d, 0)
    BY <1>3 DEF Before
  <2>4. \A a \in 1 .. Len(listed') : a = 1
    BY <1>6
  <2>5. \A a, b \in 1 .. Len(listed') : ~(a < b)
    BY <1>6
  <2>6. \A a \in 1 .. Len(listed') :
          \E e \in Disks : \E k \in Indexes(e) : listed'[a] = Name(e, k) /\ ~Before(d, 0, e, k)
    BY <1>3, <1>6, <2>3, <2>4
  <2>7. \A e \in Disks : \A k \in Indexes(e) :
          ~Before(d, 0, e, k) => \E a \in 1 .. Len(listed') : listed'[a] = Name(e, k)
    BY <1>6, <2>2
  <2> QED BY <1>3, <2>1, <2>5, <2>6, <2>7 DEF Listed, Before
<1>9. Summed' /\ Mapped'
  BY <1>2, ArrayKept
<1> QED BY <1>7, <1>8, <1>9 DEF IInv

(* Every non-empty set of numbers has a smallest element. *)
LEMMA SmallestExists ==
  ASSUME NEW S \in SUBSET Nat, S # {}
  PROVE  \E m \in S : \A k \in S : m <= k
<1>1. PICK m \in S : \A k \in S : ~(<<k, m>> \in OpToRel(<, Nat))
  BY NatLessThanWellFounded, WFMin
<1>2. \A k \in S : k \in Nat /\ m \in Nat
  OBVIOUS
<1>3. \A k \in S : ~(k < m)
  BY <1>1, <1>2 DEF OpToRel
<1> QED BY <1>2, <1>3

(* After leads to the next partition in the order of the listing. *)
LEMMA AfterIsNext ==
  ASSUME TypeOK, NEW d \in Disks, NEW j \in Indexes(d)
  PROVE  /\ \A x \in After(d, j) :
              /\ x[1] \in Disks /\ x[2] \in Indexes(x[1]) /\ Before(d, j, x[1], x[2])
              /\ \A e \in Disks : \A k \in Indexes(e) :
                   Before(d, j, e, k) => ~Before(e, k, x[1], x[2])
         /\ After(d, j) = {} =>
              \A e \in Disks : \A k \in Indexes(e) : ~Before(d, j, e, k)
<1>1. d \in Nat /\ j \in Nat /\ get_partitions_ext2_count(d) \in Nat
  BY Tables DEF TypeOK, Disks, Indexes
<1>2. CASE j + 1 < get_partitions_ext2_count(d)
  <2>1. After(d, j) = {<<d, j + 1>>}
    BY <1>2 DEF After
  <2>2. j + 1 \in Indexes(d) /\ Before(d, j, d, j + 1)
    BY <1>1, <1>2 DEF Indexes, Before
  <2>3. ASSUME NEW e \in Disks, NEW k \in Indexes(e), Before(d, j, e, k)
        PROVE  ~Before(e, k, d, j + 1)
    <3>1. e \in Nat /\ k \in Nat
      BY Order
    <3> QED BY <1>1, <2>3, <3>1 DEF Before
  <2>4. \A x \in After(d, j) : x[1] = d /\ x[2] = j + 1
    BY <2>1
  <2>5. After(d, j) # {}
    BY <2>1
  <2> QED BY <2>2, <2>3, <2>4, <2>5
<1>3. CASE ~(j + 1 < get_partitions_ext2_count(d))
  <2> DEFINE Later == {y \in WithPartitions : y > d}
  <2>1. After(d, j) = {<<e, 0>> : e \in {x \in Disks : IsFirst(x, Later)}}
    BY <1>3 DEF After
  <2>2. ASSUME NEW e \in Disks, NEW k \in Indexes(e), Before(d, j, e, k)
        PROVE  e \in Later /\ e \in Nat /\ k \in Nat /\ d < e
    <3>1. e \in Nat /\ k \in Nat /\ e \in WithPartitions
      BY Tables DEF TypeOK, Disks, Indexes, WithPartitions
    <3>2. d < e
      BY <1>1, <1>3, <2>2, <3>1 DEF Before, Indexes
    <3> QED BY <1>1, <3>1, <3>2
  <2>3. ASSUME NEW x \in After(d, j)
        PROVE  /\ x[1] \in Disks /\ x[2] \in Indexes(x[1]) /\ Before(d, j, x[1], x[2])
               /\ \A e \in Disks : \A k \in Indexes(e) :
                    Before(d, j, e, k) => ~Before(e, k, x[1], x[2])
    <3>1. PICK e \in Disks : x = <<e, 0>> /\ IsFirst(e, Later)
      BY <2>1, <2>3
    <3>2. e \in Nat /\ d < e /\ 0 \in Indexes(e) /\ x[1] = e /\ x[2] = 0
      BY <3>1, Tables DEF TypeOK, Disks, IsFirst, WithPartitions, Indexes
    <3>3. ASSUME NEW f \in Disks, NEW k \in Indexes(f), Before(d, j, f, k)
          PROVE  ~Before(f, k, e, 0)
      <4>1. f \in Later /\ f \in Nat /\ k \in Nat
        BY <2>2, <3>3
      <4>2. e <= f
        BY <3>1, <4>1 DEF IsFirst
      <4> QED BY <3>2, <4>1, <4>2 DEF Before
    <3> QED BY <1>1, <3>2, <3>3 DEF Before
  <2>4. ASSUME After(d, j) = {}, NEW e \in Disks, NEW k \in Indexes(e), Before(d, j, e, k)
        PROVE  FALSE
    <3>1. Later # {} /\ Later \in SUBSET Nat
      <4>1. e \in Later
        BY <2>2, <2>4
      <4>2. Disks \subseteq Nat
        BY Tables DEF TypeOK, Disks
      <4> QED BY <4>1, <4>2 DEF WithPartitions
    <3>2. PICK f \in Later : \A g \in Later : f <= g
      BY <3>1, SmallestExists
    <3>3. f \in Disks /\ IsFirst(f, Later)
      BY <3>2 DEF IsFirst, WithPartitions
    <3> QED BY <2>1, <2>4, <3>3
  <2> QED BY <2>3, <2>4
<1> QED BY <1>2, <1>3

LEMMA ListNextInv ==
  ASSUME IInv, ListNext, UNCHANGED computer
  PROVE  IInv'
<1> DEFINE d == find.disk_no
           j == find.part_no_map
<1>1. /\ find # NULL /\ TypeOK /\ UNCHANGED <<initVars, opened>>
      /\ pc = "ready" /\ d \in Disks /\ j \in Indexes(d)
  BY DEF ListNext, IInv, Listed
<1>2. PICK x \in After(d, j) : /\ find' = Handle(x[1], x[2])
                               /\ listed' = Append(listed, Name(x[1], x[2]))
  BY DEF ListNext
<1> DEFINE e == x[1]
           k == x[2]
<1>3. /\ e \in Disks /\ k \in Indexes(e) /\ Before(d, j, e, k)
      /\ \A f \in Disks : \A l \in Indexes(f) : Before(d, j, f, l) => ~Before(f, l, e, k)
  BY <1>1, <1>2, AfterIsNext
<1> HIDE DEF d, j, e, k
<1>4. find' = [disk_no |-> e, part_no_map |-> k]
  BY <1>2 DEF Handle, e, k
<1>5. e \in Nat /\ k \in Nat /\ get_part_no(e, k) \in Nat
  BY <1>1, <1>3, Order
<1>6. /\ Name(e, k) = [disk_no |-> e, part_no |-> get_part_no(e, k)]
      /\ Name(e, k) \in [disk_no : Nat, part_no : Nat]
  BY <1>5 DEF Name
<1>7. /\ listed \in Seq([disk_no : Nat, part_no : Nat])
      /\ listed' = Append(listed, Name(e, k))
  BY <1>1, <1>2 DEF TypeOK, e, k
<1>8. /\ listed' \in Seq([disk_no : Nat, part_no : Nat])
      /\ Len(listed') = Len(listed) + 1 /\ Len(listed) \in Nat
      /\ listed'[Len(listed) + 1] = Name(e, k)
      /\ \A a \in 1 .. Len(listed) : listed'[a] = listed[a]
  BY <1>6, <1>7
<1>9. TypeOK'
  BY <1>1, <1>4, <1>5, <1>8, TablesKept DEF TypeOK, initVars
<1>10. Listed'
  <2>1. /\ find'.disk_no = e /\ find'.part_no_map = k /\ pc' = "ready"
        /\ Disks' = Disks /\ \A f : Indexes(f)' = Indexes(f) /\ \A l : Name(f, l)' = Name(f, l)
    BY <1>1, <1>4, TablesKept DEF initVars
  <2>2. ASSUME NEW a \in 1 .. Len(listed)
        PROVE  \E f \in Disks : \E l \in Indexes(f) :
                 listed[a] = Name(f, l) /\ ~Before(d, j, f, l)
    BY <1>1 DEF IInv, Listed, d, j
  <2>3. ASSUME NEW f \in Disks, NEW l \in Indexes(f), ~Before(d, j, f, l)
        PROVE  Before(f, l, e, k)
    <3>1. (f = d /\ l = j) \/ Before(f, l, d, j)
      BY <1>1, <2>3, Order
    <3>2. f \in Nat /\ l \in Nat /\ d \in Nat /\ j \in Nat
      BY <1>1, Order
    <3> QED BY <1>3, <1>5, <3>1, <3>2 DEF Before
  <2>4. \A a, b \in 1 .. Len(listed') : a < b =>
          \/ listed'[a].disk_no < listed'[b].disk_no
          \/ listed'[a].disk_no = listed'[b].disk_no /\ listed'[a].part_no < listed'[b].part_no
    <3>1. SUFFICES ASSUME NEW a \in 1 .. Len(listed'), NEW b \in 1 .. Len(listed'), a < b
                   PROVE  \/ listed'[a].disk_no < listed'[b].disk_no
                          \/ /\ listed'[a].disk_no = listed'[b].disk_no
                             /\ listed'[a].part_no < listed'[b].part_no
      OBVIOUS
    <3>2. CASE b \in 1 .. Len(listed)
      <4>1. a \in 1 .. Len(listed) /\ listed'[a] = listed[a] /\ listed'[b] = listed[b]
        BY <1>8, <3>1, <3>2
      <4> QED BY <1>1, <3>1, <3>2, <4>1 DEF IInv, Listed
    <3>3. CASE b \notin 1 .. Len(listed)
      <4>1. b = Len(listed) + 1 /\ a \in 1 .. Len(listed) /\ listed'[a] = listed[a]
        BY <1>8, <3>1, <3>3
      <4>0. PICK f \in Disks : \E l \in Indexes(f) : listed[a] = Name(f, l) /\ ~Before(d, j, f, l)
        BY <2>2, <4>1
      <4>2. PICK l \in Indexes(f) : listed[a] = Name(f, l) /\ ~Before(d, j, f, l)
        BY <4>0
      <4>3. f < e \/ (f = e /\ get_part_no(f, l) < get_part_no(e, k))
        BY <1>1, <1>3, <2>3, <4>2, Order
      <4>4. listed'[b] = [disk_no |-> e, part_no |-> get_part_no(e, k)]
        BY <1>6, <1>8, <4>1
      <4>5. listed'[a] = [disk_no |-> f, part_no |-> get_part_no(f, l)]
        BY <4>1, <4>2 DEF Name
      <4> QED BY <4>3, <4>4, <4>5
    <3> QED BY <3>2, <3>3
  <2>5. ASSUME NEW a \in 1 .. Len(listed')
        PROVE  \E f \in Disks : \E l \in Indexes(f) :
                 listed'[a] = Name(f, l) /\ ~Before(e, k, f, l)
    <3>1. CASE a \in 1 .. Len(listed)
      <4>0. PICK f \in Disks : \E l \in Indexes(f) : listed[a] = Name(f, l) /\ ~Before(d, j, f, l)
        BY <2>2, <3>1
      <4>1. PICK l \in Indexes(f) : listed[a] = Name(f, l) /\ ~Before(d, j, f, l)
        BY <4>0
      <4>2. ~Before(e, k, f, l)
        BY <1>1, <1>3, <2>3, <4>1, Order
      <4> QED BY <1>8, <3>1, <4>1, <4>2
    <3>2. CASE a \notin 1 .. Len(listed)
      <4>1. a = Len(listed) + 1
        BY <1>8, <3>2
      <4>2. ~Before(e, k, e, k)
        BY <1>5 DEF Before
      <4> QED BY <1>3, <1>8, <4>1, <4>2
    <3> QED BY <3>1, <3>2
  <2>6. ASSUME NEW f \in Disks, NEW l \in Indexes(f), ~Before(e, k, f, l)
        PROVE  \E a \in 1 .. Len(listed') : listed'[a] = Name(f, l)
    <3>1. CASE ~Before(d, j, f, l)
      <4>1. PICK a \in 1 .. Len(listed) : listed[a] = Name(f, l)
        BY <1>1, <3>1 DEF IInv, Listed, d, j
      <4>2. a \in 1 .. Len(listed') /\ listed'[a] = Name(f, l)
        BY <1>8, <4>1
      <4> QED BY <4>2
    <3>2. CASE Before(d, j, f, l)
      <4>1. f = e /\ l = k
        BY <1>1, <1>3, <2>6, <3>2, Order
      <4>2. Len(listed) + 1 \in 1 .. Len(listed')
        BY <1>8
      <4> QED BY <1>8, <4>1, <4>2
    <3> QED BY <3>1, <3>2
  <2> QED BY <1>3, <2>1, <2>4, <2>5, <2>6 DEF Listed, Before
<1>11. Summed' /\ Mapped'
  BY <1>1, ArrayKept
<1> QED BY <1>9, <1>10, <1>11 DEF IInv

LEMMA CloseInv ==
  ASSUME IInv, Close, UNCHANGED computer
  PROVE  IInv'
<1>1. UNCHANGED <<initVars, opened>> /\ find' = NULL /\ listed' = <<>>
  BY DEF Close
<1>2. listed' \in Seq([disk_no : Nat, part_no : Nat])
  BY <1>1
<1>3. TypeOK'
  BY <1>1, <1>2, TablesKept DEF IInv, TypeOK, initVars
<1>4. Summed' /\ Mapped'
  BY <1>1, ArrayKept
<1> QED BY <1>1, <1>3, <1>4 DEF IInv, Listed

(* An accepted path reads inside the array, whatever its number is.  Before the
   array is there no disk is known, so that no path is accepted. *)
LEMMA PathsInv ==
  ASSUME IInv
  PROVE  PathsReadInsideMap
<1> SUFFICES ASSUME pc \in {"ready", "empty", "refused"},
                    NEW d \in Disks, NEW no \in Names, Valid(d, no)
             PROVE  /\ d \in DOMAIN ext4_partitions_id_map
                    /\ ext4_partitions_id_map[d] + no - 1 \in DOMAIN ext4_partitions_id_map
  BY DEF PathsReadInsideMap
<1>1. TypeOK /\ Summed /\ d \in Nat /\ no \in Nat /\ hard_disks_cnt \in Nat /\ d < hard_disks_cnt
  BY Tables, PartitionMapAssumption DEF IInv, TypeOK, Disks
<1>2. pc = "ready"
  <2>1. CASE pc = "refused"
    <3>1. hard_disks_cnt = 0
      BY <2>1 DEF IInv, TypeOK, hard_disks_cnt
    <3> QED BY <1>1, <3>1
  <2>2. CASE pc = "empty"
    <3>1. hard_disks_cnt = 0
      BY <2>2 DEF IInv, Mapped
    <3> QED BY <1>1, <3>1
  <2> QED BY <2>1, <2>2
<1>3. get_partitions_ext2_count(d) > 0 /\ no <= Largest(d) /\ Largest(d) \in Nat
  BY <1>1, Tables DEF Valid, TypeOK
<1>4. 0 \in Indexes(d)
  BY <1>1, <1>3, Tables DEF TypeOK, Indexes
<1>5. /\ Begin(d) \in Nat /\ hard_disks_cnt <= Begin(d)
      /\ Begin(d) + Largest(d) <= hard_disks_cnt + p
  BY <1>1, <1>2, <1>4, Elements
<1>6. ext4_partitions_id_map[d] = Begin(d)
  <2>1. d \in 0 .. i - 1
    BY <1>1, <1>2 DEF IInv, Mapped
  <2> QED BY <1>2, <1>3, <2>1 DEF IInv, Mapped
<1>7. Begin(d) + no - 1 \in 0 .. hard_disks_cnt + p - 1 /\ d \in 0 .. hard_disks_cnt + p - 1
  BY <1>1, <1>3, <1>5 DEF TypeOK
<1> QED BY <1>1, <1>2, <1>6, <1>7 DEF TypeOK

LEMMA OpenInv ==
  ASSUME IInv, Open, UNCHANGED computer
  PROVE  IInv'
<1>1. /\ UNCHANGED <<initVars, find, listed>> /\ TypeOK
      /\ pc \in {"ready", "empty", "refused"}
  BY DEF Open, IInv
<1>2. PICK d \in 0 .. Len(computer), no \in Names :
        opened' = IF Valid(d, no)
                  THEN [disk_no |-> d, part_no |-> no,
                        part_no_map |-> get_partition_index_via_real_number(d, no)]
                  ELSE NULL
  BY DEF Open
<1>3. d \in Nat /\ no \in Nat
  <2>1. computer \in Seq(Seq(Nat \ {0}))
    BY <1>1, PartitionMapAssumption DEF TypeOK
  <2> QED BY <2>1, PartitionMapAssumption
<1>4. ASSUME Valid(d, no)
      PROVE  get_partition_index_via_real_number(d, no) \in Nat
  <2>1. d \in Disks
    BY <1>4 DEF Valid
  <2>2. ext4_partitions_id_map[d] + no - 1 \in DOMAIN ext4_partitions_id_map
    BY <1>1, <1>4, <2>1, PathsInv DEF PathsReadInsideMap
  <2> QED BY <1>1, <2>2 DEF TypeOK, get_partition_index_via_real_number
<1>5. opened' \in {NULL} \cup [disk_no : Nat, part_no : Nat, part_no_map : Nat]
  BY <1>2, <1>3, <1>4
<1>6. TypeOK'
  BY <1>1, <1>5, TablesKept DEF TypeOK, initVars
<1>7. Summed' /\ Mapped'
  BY <1>1, ArrayKept
<1>8. Listed'
  <2>1. pc' = pc /\ find' = find /\ listed' = listed /\ UNCHANGED tables
    BY <1>1 DEF initVars
  <2> QED BY <2>1, TablesKept DEF IInv, Listed, Before
<1> QED BY <1>6, <1>7, <1>8 DEF IInv

(* The invariant holds in every reachable state. *)
THEOREM InductiveInvariant == Spec => []IInv
<1>1. IInv /\ [Next]_vars => IInv'
  <2> SUFFICES ASSUME IInv, [Next]_vars PROVE IInv'
    OBVIOUS
  <2>1. CASE UNCHANGED vars
    <3>1. UNCHANGED initVars /\ find' = find /\ listed' = listed /\ opened' = opened
          /\ UNCHANGED computer
      BY <2>1 DEF vars
    <3>2. TypeOK'
      BY <3>1, TablesKept DEF IInv, TypeOK, initVars
    <3>3. Listed'
      BY <3>1, TablesKept DEF IInv, Listed, Before, initVars
    <3> QED BY <3>1, <3>2, <3>3, ArrayKept DEF IInv
  <2> QED BY <2>1, NotAdminInv, CountDisksInv, SearchDiskInv, CreateMapInv, MapDiskInv, MapCreatedInv, ListFirstInv,
             ListNextInv, CloseInv, OpenInv DEF Next, Step
<1> QED BY <1>1, InitIInv, PTL DEF Spec

(* The type invariant: in particular the array has a place for every number. *)
THEOREM TypeCorrect == Spec => []TypeOK
<1>1. IInv => TypeOK
  BY DEF IInv
<1> QED BY <1>1, InductiveInvariant, PTL

(* init_ext2_partitions_id_map never writes outside the array or over the
   elements of the disks. *)
THEOREM WritesInside == Spec => []MapFits
<1>1. IInv => MapFits
  BY FitsInv
<1> QED BY <1>1, InductiveInvariant, PTL

(* A path that is accepted is looked up inside the array, however FsInit ended. *)
THEOREM PathsInside == Spec => []PathsReadInsideMap
<1>1. IInv => PathsReadInsideMap
  BY PathsInv
<1> QED BY <1>1, InductiveInvariant, PTL

(* Every ext partition of every disk is found under its number. *)
THEOREM NumbersCorrect == Spec => []NumbersLeadToPartitions
<1>1. IInv => NumbersLeadToPartitions
  <2> SUFFICES ASSUME IInv, pc = "ready", NEW d \in Disks, NEW j \in Indexes(d)
               PROVE  /\ get_partition_index_via_real_number(d, get_part_no(d, j)) = j
                      /\ Valid(d, get_part_no(d, j))
    BY DEF NumbersLeadToPartitions
  <2>1. get_partition_index_via_real_number(d, get_part_no(d, j)) = j
    BY Found
  <2>2. get_partitions_ext2_count(d) > 0 /\ get_part_no(d, j) <= Largest(d)
    BY Tables DEF IInv, TypeOK, Indexes
  <2> QED BY <2>1, <2>2 DEF Valid
<1> QED BY <1>1, InductiveInvariant, PTL

(* The listing of the root names every partition once, in order. *)
THEOREM ListingCorrect == Spec => []ListingIsComplete
<1>1. IInv => ListingIsComplete
  <2> SUFFICES ASSUME IInv, find # NULL PROVE ListingIsComplete
    BY DEF ListingIsComplete
  <2> DEFINE e == find.disk_no
             k == find.part_no_map
  <2>1. /\ TypeOK /\ e \in Disks /\ k \in Indexes(e)
        /\ \A a, b \in 1 .. Len(listed) : a < b =>
             \/ listed[a].disk_no < listed[b].disk_no
             \/ listed[a].disk_no = listed[b].disk_no /\ listed[a].part_no < listed[b].part_no
        /\ \A d \in Disks : \A j \in Indexes(d) :
             ~Before(e, k, d, j) => \E a \in 1 .. Len(listed) : listed[a] = Name(d, j)
    BY DEF IInv, Listed
  <2>2. AtEnd => \A d \in Disks : \A j \in Indexes(d) : ~Before(e, k, d, j)
    BY <2>1, AfterIsNext DEF AtEnd
  <2> QED BY <2>1, <2>2 DEF ListingIsComplete
<1> QED BY <1>1, InductiveInvariant, PTL

=============================================================================
