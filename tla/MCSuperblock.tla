----------------------------- MODULE MCSuperblock -----------------------------
(* File systems as mkfs makes them, for TLC. *)
EXTENDS Superblock

(* groups whole groups of the least number of blocks, and rest more blocks; the
   inode table of a group fills its block 16. *)
FileSystem(log, is64, groups, rest, revision) ==
  LET first == IF log = 0 THEN 1 ELSE 0
      size == IF revision = 0 THEN 128 ELSE 256
      last == IF rest = 0 THEN groups - 1 ELSE groups
  IN [magic |-> TRUE,
      s_log_block_size |-> log,
      s_first_data_block |-> first,
      has_64bit |-> is64,
      s_desc_size |-> IF is64 THEN 64 ELSE 0,
      blocks_count |-> first + groups * 256 + rest,
      s_blocks_per_group |-> 256,
      s_inodes_per_group |-> (1024 * 2^log) \div size,
      s_inodes_count |-> ((1024 * 2^log) \div size) * (last + 1),
      revision |-> revision,
      s_inode_size |-> IF revision = 0 THEN 0 ELSE 256,
      inode_table |-> [g \in 0 .. last |-> first + g * 256 + 16]]

(* Up to, at and beyond a whole block of descriptors (32 of 64 bytes, 64 of 32
   bytes, in blocks of 2 KiB); blocks of 1 and 4 KiB; revision 0. *)
MCFileSystems ==
  {FileSystem(1, is64, groups, rest, 1) :
     is64 \in BOOLEAN, groups \in {1, 31, 32, 33, 63, 64}, rest \in {0, 128}}
  \cup {FileSystem(2, is64, groups, 128, 1) : is64 \in BOOLEAN, groups \in {2, 64}}
  \cup {FileSystem(0, is64, 33, 0, 1) : is64 \in BOOLEAN}
  \cup {FileSystem(1, FALSE, 3, 0, 0)}
  \cup {FileSystem(1, TRUE, 130, 128, 1)}
  \cup {[FileSystem(1, FALSE, 2, 0, 1) EXCEPT !.magic = FALSE]}

(* The first inodes, both sides of the border of a group, and the last one. *)
MCAsked(f) ==
  LET per == f.s_inodes_per_group
  IN {n \in {1, 2, per, per + 1, f.s_inodes_count} : n <= f.s_inodes_count}

=============================================================================
