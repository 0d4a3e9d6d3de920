------------------------------- MODULE ExtentMap -------------------------------
(***************************************************************************)
(* The block map of a file with extents: class blocks.                     *)
(*                                                                         *)
(* read_file and get_dir_entry ask get_ext2_blk_nr for block 0, 1, 2, ...  *)
(* of a file; each request walks the extent tree from the inode.  The path *)
(* of the last walk is kept in extent_path: level k holds the address of   *)
(* the node loaded from it (p_block) and the node itself (p_hdr), and a    *)
(* node is read again only when the address changes.  One walk is several  *)
(* steps here, one for each level, because each may read from the disk.    *)
(*                                                                         *)
(* ~blocks frees the path whenever the caller is done, after the last      *)
(* block or before: read_file also stops on an abort or an error.          *)
(***************************************************************************)
EXTENDS Extents, FiniteSets

CONSTANTS
  Trees,         \* the extent trees of the files
  MaxBlocks,     \* the longest file, in blocks
  AddrWidth,     \* the addresses 32 bits can hold
  ReadsFail,     \* sectors may be unreadable
  NULL

ASSUME ExtentMapAssumption ==
  /\ MaxBlocks \in Nat /\ AddrWidth \in Nat \ {0} /\ ReadsFail \in BOOLEAN
  /\ NULL \notin Nat
  /\ \A t \in Trees :
       /\ WellFormed(t)
       /\ t.hi[INODE] >= MaxBlocks
       /\ Nodes(t) \subseteq 0 .. AddrWidth - 1

VARIABLES
  tree,          \* the tree of the file
  state,         \* "idle" between requests, "walk", "stopped" or "crashed"
  blk_index,     \* the number of requests made
  ppos,          \* the level the walk is at
  extent_path,   \* the path is allocated
  p_block,       \* per level the address found there, 0 at first
  p_hdr,         \* per level the node, or NULL
  mapped,        \* the last request gave an address
  address,       \* the address it gave
  buffers,       \* history: the node buffers allocated and not freed
  reads          \* history: how often each node was read

pathVars == <<extent_path, p_block, p_hdr>>
vars == <<tree, state, blk_index, ppos, pathVars, mapped, address, buffers, reads>>

Levels == 0 .. tree.depth

Init ==
  /\ tree \in Trees
  /\ state = "idle" /\ blk_index = 0 /\ ppos = 0
  /\ extent_path = FALSE
  /\ p_block = [k \in Levels |-> 0]
  /\ p_hdr = [k \in Levels |-> NULL]
  /\ mapped = FALSE /\ address = 0
  /\ buffers = 0
  /\ reads = [n \in Nodes(tree) |-> 0]

block_no == blk_index - 1

-----------------------------------------------------------------------------
(* A request for the next block of the file. *)
Request ==
  /\ state = "idle" /\ blk_index < MaxBlocks
  /\ blk_index' = blk_index + 1
  /\ UNCHANGED <<tree, address, buffers, reads>>

(* The inode does not begin with the header of an extent tree. *)
NoTree ==
  /\ Request
  /\ ~tree.magic
  /\ mapped' = FALSE
  /\ UNCHANGED <<state, ppos, pathVars>>

(* Seeded fault: the walk begins where the last one ended. *)
Enter_below ==
  /\ Request
  /\ tree.magic
  /\ extent_path' = TRUE
  /\ p_hdr' = [p_hdr EXCEPT ![0] = INODE]
  /\ state' = "walk"
  /\ UNCHANGED <<ppos, p_block, mapped>>

(* ext4_ext_find_extent; the first request allocates the path. *)
Enter ==
  /\ Request
  /\ tree.magic
  /\ extent_path' = TRUE
  /\ p_hdr' = [p_hdr EXCEPT ![0] = INODE]
  /\ ppos' = 0
  /\ state' = "walk"
  /\ UNCHANGED <<p_block, mapped>>

(* A header that could not be read is used all the same. *)
Crash ==
  /\ state = "walk" /\ p_hdr[ppos] = NULL
  /\ state' = "crashed"
  /\ UNCHANGED <<tree, blk_index, ppos, pathVars, mapped, address, buffers, reads>>

entries == tree.entries[p_hdr[ppos]]

(* The high 16 bits are shifted out of an int. *)
Address(a) == a % AddrWidth

(* Seeded fault: the address of the loaded node is not remembered. *)
Descend_noCache ==
  /\ state = "walk" /\ p_hdr[ppos] # NULL
  /\ ppos < tree.depth
  /\ ppos' = ppos + 1
  /\ \E p \in DOMAIN entries :
       LET child == Address(entries[p].addr) IN
       /\ IsEntryFor(entries, block_no, p)
       /\ p_hdr' = [p_hdr EXCEPT ![ppos + 1] = child]
       /\ reads' = [reads EXCEPT ![child] = @ + 1]
       /\ buffers' = IF p_hdr[ppos + 1] = NULL THEN buffers + 1 ELSE buffers
  /\ UNCHANGED <<tree, state, blk_index, extent_path, p_block, mapped, address>>

(* One level down: the node is taken from the path or read, and then takes *)
(* the place of the node that was loaded before.                           *)
Descend ==
  /\ state = "walk" /\ p_hdr[ppos] # NULL
  /\ ppos < tree.depth
  /\ ppos' = ppos + 1
  /\ \E p \in DOMAIN entries :
       LET child == Address(entries[p].addr)
           freed == IF p_hdr[ppos + 1] = NULL THEN 0 ELSE 1
       IN
       /\ IsEntryFor(entries, block_no, p)
       /\ IF child = p_block[ppos]
          THEN UNCHANGED <<p_block, p_hdr, buffers, reads>>
          ELSE /\ p_block' = [p_block EXCEPT ![ppos] = child]
               /\ \/ /\ p_hdr' = [p_hdr EXCEPT ![ppos + 1] = child]
                     /\ reads' = [reads EXCEPT ![child] = @ + 1]
                     /\ buffers' = buffers + 1 - freed
                  \/ /\ ReadsFail
                     /\ p_hdr' = [p_hdr EXCEPT ![ppos + 1] = NULL]
                     /\ buffers' = buffers - freed
                     /\ UNCHANGED reads
  /\ UNCHANGED <<tree, state, blk_index, extent_path, mapped, address>>

InLeaf ==
  /\ state = "walk" /\ p_hdr[ppos] # NULL
  /\ ppos = tree.depth
  /\ state' = "idle"
  /\ UNCHANGED <<tree, blk_index, ppos, extent_path, p_hdr, buffers, reads>>

(* A leaf without extents. *)
NoExtent ==
  /\ InLeaf
  /\ entries = <<>>
  /\ mapped' = FALSE
  /\ UNCHANGED <<p_block, address>>

(* The extent gives the address; how long it is is not asked. *)
FoundExtent ==
  /\ InLeaf
  /\ \E p \in DOMAIN entries :
       /\ IsEntryFor(entries, block_no, p)
       /\ p_block' = [p_block EXCEPT ![ppos] = Address(entries[p].addr)]
       /\ address' = p_block'[ppos] + block_no - entries[p].key
  /\ mapped' = TRUE

(* The walk of one request. *)
get_ext2_extent_blk == NoTree \/ Enter \/ Crash \/ Descend \/ NoExtent \/ FoundExtent

(* Seeded fault: flush does not reach the leaf. *)
Stop_notLeaf ==
  /\ state = "idle"
  /\ IF extent_path
     THEN /\ state' = "stopped"
          /\ extent_path' = FALSE
          /\ buffers' = buffers - Cardinality({k \in Levels \ {0, tree.depth} : p_hdr[k] # NULL})
     ELSE /\ state' = "crashed"
          /\ UNCHANGED <<extent_path, buffers>>
  /\ UNCHANGED <<tree, blk_index, ppos, p_block, p_hdr, mapped, address, reads>>

(* ~blocks: flush frees the nodes and the path.  It does not ask whether   *)
(* there is a path: without one it takes the host down.                    *)
Stop ==
  /\ state = "idle"
  /\ IF extent_path
     THEN /\ state' = "stopped"
          /\ extent_path' = FALSE
          /\ buffers' = buffers - Cardinality({k \in Levels \ {0} : p_hdr[k] # NULL})
     ELSE /\ state' = "crashed"
          /\ UNCHANGED <<extent_path, buffers>>
  /\ UNCHANGED <<tree, blk_index, ppos, p_block, p_hdr, mapped, address, reads>>

Done ==
  /\ state \in {"stopped", "crashed"}
  /\ UNCHANGED vars

Next == get_ext2_extent_blk \/ Stop \/ Done

Spec == Init /\ [][Next]_vars

-----------------------------------------------------------------------------
(* Type invariant; there is never more than one node for each level in     *)
(* memory.                                                                 *)
TypeOK ==
  /\ tree \in Trees /\ state \in {"idle", "walk", "stopped", "crashed"}
  /\ blk_index \in 0 .. MaxBlocks /\ ppos \in Levels
  /\ extent_path \in BOOLEAN
  /\ p_block \in [Levels -> Nat]
  /\ p_hdr \in [Levels -> Nodes(tree) \cup {NULL}]
  /\ mapped \in BOOLEAN /\ address \in Int
  /\ buffers \in 0 .. tree.depth
  /\ reads \in [Nodes(tree) -> Nat]

(* A block that some extent of the file holds is mapped, to its place in   *)
(* that extent, whatever nodes the walks before have left in the path.     *)
MapsRight ==
  state = "idle" /\ blk_index > 0 /\ tree.magic =>
    \A n \in Nodes(tree) : \A k \in DOMAIN tree.entries[n] :
      Covers(tree, n, k, block_no) => mapped /\ address = Place(tree, n, k, block_no)

(* The path keeps what is still needed: no node of the tree is read twice  *)
(* while the blocks are asked for in order.                                *)
ReadsEachOnce == \A n \in Nodes(tree) : reads[n] <= 1

(* Every node in memory is in the path, and flush frees them all.          *)
NodesAreFreed ==
  buffers = IF state = "stopped" THEN 0
            ELSE Cardinality({k \in Levels \ {0} : p_hdr[k] # NULL})

(* An address is given only for a block that an extent covers: ee_len is   *)
(* the "number of blocks covered by extent".                               *)
MappedMeansCovered ==
  state = "idle" /\ blk_index > 0 /\ mapped => Covered(tree, block_no)
=============================================================================
