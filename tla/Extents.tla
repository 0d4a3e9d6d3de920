------------------------------- MODULE Extents -------------------------------
(***************************************************************************)
(* What an extent tree is and what it says of the blocks of a file.        *)
(*                                                                         *)
(* A tree is a record: depth, the eh_depth of the root; magic, whether the *)
(* root has EXT4_EXT_MAGIC; and entries, which gives for each node its     *)
(* entries in order.  A node is named by the address of its block, the     *)
(* root, which is in the inode, by INODE.  An entry has the first block it *)
(* stands for (ei_block, ee_block), an address (of the next node, or of    *)
(* the data) and, in a leaf, ee_len.                                       *)
(*                                                                         *)
(* level, lo and hi are not stored on disk: they tell how deep in the tree *)
(* a node is and which blocks are below it.                                *)
(***************************************************************************)
EXTENDS Integers, Sequences

INODE == 0

Nodes(t) == DOMAIN t.entries

Sorted(entries) ==
  \A j, k \in DOMAIN entries : j < k => entries[j].key < entries[k].key

(* p is the entry to use for a block: the last one that does not begin     *)
(* after it, or the first one when all do.                                 *)
IsEntryFor(entries, block_no, p) ==
  /\ p \in DOMAIN entries
  /\ p = 1 \/ entries[p].key <= block_no
  /\ \A k \in DOMAIN entries : k > p => block_no < entries[k].key

(* The blocks entry k of node n stands for. *)
From(t, n, k) == IF k = 1 THEN t.lo[n] ELSE t.entries[n][k].key
To(t, n, k) == IF k = Len(t.entries[n]) THEN t.hi[n] ELSE t.entries[n][k + 1].key

WellTyped(t) ==
  /\ t.depth \in Nat /\ t.magic \in BOOLEAN
  /\ INODE \in Nodes(t) /\ Nodes(t) \subseteq Nat
  /\ t.level \in [Nodes(t) -> 0 .. t.depth]
  /\ t.lo \in [Nodes(t) -> Nat] /\ t.hi \in [Nodes(t) -> Nat]
  /\ \A n \in Nodes(t) :
       /\ Len(t.entries[n]) \in Nat
       /\ DOMAIN t.entries[n] = 1 .. Len(t.entries[n])
       /\ \A k \in DOMAIN t.entries[n] :
            /\ t.entries[n][k].key \in Nat
            /\ t.entries[n][k].addr \in Nat
            /\ t.entries[n][k].len \in Nat

(* An index node has entries, and they divide its blocks. *)
IndexNode(t, n) ==
  /\ Len(t.entries[n]) > 0
  /\ \A k \in DOMAIN t.entries[n] :
       LET c == t.entries[n][k].addr IN
       /\ c \in Nodes(t) \ {INODE}
       /\ t.level[c] = t.level[n] + 1
       /\ t.lo[c] = From(t, n, k)
       /\ t.hi[c] = To(t, n, k)

(* The extents of a leaf do not overlap. *)
LeafNode(t, n) ==
  \A k \in DOMAIN t.entries[n] :
    LET e == t.entries[n][k] IN
    /\ t.lo[n] <= e.key /\ e.key + e.len <= t.hi[n]
    /\ \A j \in DOMAIN t.entries[n] : j > k => e.key + e.len <= t.entries[n][j].key

(* A tree of a consistent file system. *)
WellFormed(t) ==
  /\ WellTyped(t)
  /\ t.level[INODE] = 0 /\ t.lo[INODE] = 0
  /\ \A n \in Nodes(t) :
       /\ Sorted(t.entries[n])
       /\ IF t.level[n] < t.depth THEN IndexNode(t, n) ELSE LeafNode(t, n)
  /\ \A m, n \in Nodes(t) :
       t.level[m] = t.level[n] /\ t.lo[m] < t.hi[n] /\ t.lo[n] < t.hi[m] => m = n

(* Extent k of leaf n holds the block. *)
Covers(t, n, k, block_no) ==
  /\ n \in Nodes(t) /\ t.level[n] = t.depth
  /\ k \in DOMAIN t.entries[n]
  /\ t.entries[n][k].key <= block_no
  /\ block_no < t.entries[n][k].key + t.entries[n][k].len

Covered(t, block_no) ==
  \E n \in Nodes(t) : \E k \in DOMAIN t.entries[n] : Covers(t, n, k, block_no)

(* Where extent k of leaf n has the block. *)
Place(t, n, k, block_no) == t.entries[n][k].addr + block_no - t.entries[n][k].key
=============================================================================
