----------------------------- MODULE MCDiskScan -----------------------------
(* Disks of four slots and up to three logical partitions. *)
EXTENDS DiskScan

MCSectorWrap == 1000

MCEntry(type, LBA) == [type |-> type, LBA |-> LBA]

(* Where the records are, from the start of the extended partition at 400:
   the second one lies behind the third. *)
MCRecordAt == <<0, 60, 30>>

(* The records, for the types of the logical partitions and the record that
   is damaged (0 for none).  There is no record in the other sectors that are
   at such a place of another extended partition. *)
MCChain(start, types, damaged) ==
  LET len == Len(types)
      chain == {start + MCRecordAt[k] : k \in 1 .. len}
      Index(s) == CHOOSE k \in 1 .. len : s = start + MCRecordAt[k]
      NoRecord == [magic |-> FALSE, part |-> MCEntry(EMPTY, 0), link |-> MCEntry(EMPTY, 0)]
      Record(k) ==
        [magic |-> k # damaged,
         part |-> MCEntry(types[k], 2),
         link |-> IF k = len THEN MCEntry(EMPTY, 0) ELSE MCEntry(EXTENDED, MCRecordAt[k + 1])]
  IN [s \in {b + MCRecordAt[k] : b \in {200, 400}, k \in 1 .. 3} |->
        IF s \in chain THEN Record(Index(s)) ELSE NoRecord]

MCSlots ==
  {[i \in 1 .. 4 |-> MCEntry(types[i], i * 100)] :
     types \in {<<a, b, c, d>> : a \in {EMPTY, LINUX}, b \in {EMPTY, EXTENDED, LINUX},
                                 c \in {7}, d \in {LINUX, EXTENDED_LBA}}}

(* The chain starts in the last extended slot. *)
MCStart(slots) ==
  LET ext == {i \in 1 .. 4 : slots[i].type \in {EXTENDED, EXTENDED_LBA}} IN
    IF ext = {} THEN 0 ELSE 100 * CHOOSE i \in ext : \A j \in ext : j <= i

MCTypes == {<<LINUX>>, <<LINUX, LINUX>>, <<EMPTY, LINUX>>, <<LINUX, 7, LINUX>>}

(* Which partitions hold a file system: all of them, or only some. *)
MCFs(start) ==
  LET all == {100, 200, 400} \cup {start + MCRecordAt[k] + 2 : k \in 1 .. 3} IN
    {all, all \ {100, start + 2}, all \ {400, start + 62}}

MCPlain == {s \in MCSlots : MCStart(s) = 0}

MCDisks ==
  {[magic |-> TRUE, slots |-> s, ebr |-> <<>>, fs |-> {100, 200, 400}] : s \in MCPlain}
  \cup
  UNION {{[magic |-> TRUE, slots |-> s, ebr |-> MCChain(MCStart(s), t, 0), fs |-> f] :
            t \in MCTypes, f \in MCFs(MCStart(s))} : s \in MCSlots \ MCPlain}
  \cup
  {[magic |-> TRUE, slots |-> s, ebr |-> MCChain(MCStart(s), <<LINUX, LINUX>>, 2),
    fs |-> {100, 200, 400}] : s \in MCSlots \ MCPlain}
  \cup
  {[magic |-> m, slots |-> [i \in 1 .. 4 |-> MCEntry(EMPTY, 0)], ebr |-> <<>>, fs |-> {}] :
     m \in BOOLEAN}

ASSUME MCDisksAreSmall == NoWrap

=============================================================================
