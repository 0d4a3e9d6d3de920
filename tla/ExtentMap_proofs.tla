--------------------------- MODULE ExtentMap_proofs ---------------------------
(***************************************************************************)
(* The walk through the extent tree gives every covered block its place,   *)
(* for trees of any depth and shape, and reads no node twice.              *)
(*                                                                         *)
(* The argument: the node the walk is at has the block below it (Here),    *)
(* and nodes of one level have no block in common, so that the leaf it     *)
(* ends in is the one whose extent covers the block.  The path agrees with *)
(* the addresses kept beside it (PathAgrees), so that taking a node from   *)
(* the path is as good as reading it.  As the blocks are asked for in      *)
(* order, a node that was read is still in the path or lies entirely       *)
(* before the block (ReadNodes).                                           *)
(*                                                                         *)
(* The last part is about the binary search in one node (SearchInv), and   *)
(* why the walk may take its result for granted (SearchGivesWalkEntry).    *)
(***************************************************************************)
EXTENDS ExtentMap, ExtentSearch, FiniteSetTheorems, TLAPS

(* The addresses of the data fit in 32 bits. *)
NoHighAddresses ==
  \A t \in Trees : \A n \in Nodes(t) : \A k \in DOMAIN t.entries[n] :
    t.entries[n][k].addr < AddrWidth

PathAgrees ==
  /\ p_hdr[0] \in {NULL, INODE}
  /\ extent_path => p_hdr[0] = INODE
  /\ \A k \in Levels \ {0} :
       /\ p_hdr[k] # NULL =>
            /\ p_hdr[k] = p_block[k - 1] /\ p_hdr[k] # INODE
            /\ tree.level[p_hdr[k]] = k
            /\ tree.lo[p_hdr[k]] <= block_no
       /\ p_hdr[k] = NULL /\ ~(state = "walk" /\ ppos = k) /\ state # "crashed" =>
            p_block[k - 1] = 0

Here ==
  state = "walk" =>
    /\ blk_index > 0 /\ tree.magic
    /\ p_hdr[ppos] # NULL =>
         /\ tree.level[p_hdr[ppos]] = ppos
         /\ tree.lo[p_hdr[ppos]] <= block_no
         /\ block_no < tree.hi[p_hdr[ppos]]

ReadNodes ==
  \A n \in Nodes(tree) :
    /\ reads[n] <= 1
    /\ reads[n] = 1 =>
         /\ tree.level[n] > 0
         /\ p_hdr[tree.level[n]] = n \/ tree.hi[n] <= block_no

InMemory == {k \in Levels \ {0} : p_hdr[k] # NULL}

IInv == TypeOK /\ NodesAreFreed /\ PathAgrees /\ Here /\ ReadNodes /\ MapsRight

-----------------------------------------------------------------------------
(* Extent trees *)

LEMMA TreeType ==
  ASSUME NEW t, WellFormed(t), NEW n \in Nodes(t)
  PROVE  /\ t.depth \in Nat /\ t.level[n] \in 0 .. t.depth
         /\ t.lo[n] \in Nat /\ t.hi[n] \in Nat
         /\ Len(t.entries[n]) \in Nat /\ DOMAIN t.entries[n] = 1 .. Len(t.entries[n])
         /\ \A k \in DOMAIN t.entries[n] : /\ t.entries[n][k].key \in Nat
                                           /\ t.entries[n][k].addr \in Nat
                                           /\ t.entries[n][k].len \in Nat
  BY DEF WellFormed, WellTyped

LEMMA SameNode ==
  ASSUME NEW t, WellFormed(t), NEW q \in Nodes(t), NEW n \in Nodes(t), NEW b \in Int,
         t.level[q] = t.level[n],
         t.lo[q] <= b, b < t.hi[q], t.lo[n] <= b, b < t.hi[n]
  PROVE  q = n
<1>1. t.lo[q] < t.hi[n] /\ t.lo[n] < t.hi[q]
  BY TreeType
<1> QED BY <1>1 DEF WellFormed

(* The entry for a block leads to the child that has the block below it. *)
LEMMA ChildHas ==
  ASSUME NEW t, WellFormed(t), NEW n \in Nodes(t), t.level[n] < t.depth,
         NEW b \in Nat, t.lo[n] <= b, b < t.hi[n],
         NEW p \in DOMAIN t.entries[n], IsEntryFor(t.entries[n], b, p)
  PROVE  LET c == t.entries[n][p].addr IN
         /\ c \in Nodes(t) \ {INODE}
         /\ t.level[c] = t.level[n] + 1
         /\ t.lo[c] <= b /\ b < t.hi[c]
<1> DEFINE c == t.entries[n][p].addr
<1>1. /\ c \in Nodes(t) \ {INODE} /\ t.level[c] = t.level[n] + 1
      /\ t.lo[c] = From(t, n, p) /\ t.hi[c] = To(t, n, p)
  BY DEF WellFormed, IndexNode
<1>2. Len(t.entries[n]) \in Nat /\ DOMAIN t.entries[n] = 1 .. Len(t.entries[n])
  BY TreeType
<1>3. From(t, n, p) <= b
  BY DEF From, IsEntryFor
<1>4. b < To(t, n, p)
  BY <1>2 DEF To, IsEntryFor
<1> QED BY <1>1, <1>3, <1>4

(* A covered block is covered by the entry for it in the leaf that has it. *)
LEMMA LeafHas ==
  ASSUME NEW t, WellFormed(t), NEW n \in Nodes(t), t.level[n] = t.depth,
         NEW b \in Nat, t.lo[n] <= b, b < t.hi[n],
         NEW q, NEW k, Covers(t, q, k, b)
  PROVE  /\ q = n
         /\ \A p \in DOMAIN t.entries[n] : IsEntryFor(t.entries[n], b, p) => k = p
<1>1. /\ q \in Nodes(t) /\ t.level[q] = t.depth /\ k \in DOMAIN t.entries[q]
      /\ t.entries[q][k].key <= b /\ b < t.entries[q][k].key + t.entries[q][k].len
  BY DEF Covers
<1>2. LeafNode(t, q)
  BY <1>1, TreeType DEF WellFormed
<1>3. t.lo[q] <= b /\ b < t.hi[q]
  <2>1. /\ t.lo[q] <= t.entries[q][k].key
        /\ t.entries[q][k].key + t.entries[q][k].len <= t.hi[q]
    BY <1>1, <1>2 DEF LeafNode
  <2>2. /\ t.lo[q] \in Nat /\ t.hi[q] \in Nat
        /\ t.entries[q][k].key \in Nat /\ t.entries[q][k].len \in Nat
    BY <1>1, TreeType
  <2> QED BY <1>1, <2>1, <2>2
<1>4. q = n
  BY <1>1, <1>3, SameNode
<1>5. ASSUME NEW p \in DOMAIN t.entries[n], IsEntryFor(t.entries[n], b, p)
      PROVE  k = p
  <2>1. k \in Nat /\ p \in Nat /\ k >= 1
    BY <1>1, <1>4, TreeType
  <2>2. ~(k > p)
    BY <1>1, <1>4, <1>5, <2>1, TreeType DEF IsEntryFor
  <2>3. ~(p > k)
    BY <1>1, <1>2, <1>4, <1>5, <2>1, TreeType DEF IsEntryFor, LeafNode
  <2> QED BY <2>1, <2>2, <2>3
<1> QED BY <1>4, <1>5

LEMMA TreeFacts ==
  ASSUME TypeOK
  PROVE  /\ tree \in Trees /\ WellFormed(tree) /\ tree.depth \in Nat
         /\ INODE \in Nodes(tree) /\ tree.level[INODE] = 0 /\ tree.lo[INODE] = 0
         /\ tree.hi[INODE] \in Nat /\ tree.hi[INODE] >= MaxBlocks
         /\ Nodes(tree) \subseteq 0 .. AddrWidth - 1 /\ Nodes(tree) \subseteq Nat
         /\ MaxBlocks \in Nat /\ NULL \notin Nat
<1>1. tree \in Trees
  BY DEF TypeOK
<1>2. WellFormed(tree) /\ tree.hi[INODE] >= MaxBlocks /\ Nodes(tree) \subseteq 0 .. AddrWidth - 1
  BY <1>1, ExtentMapAssumption
<1>3. INODE \in Nodes(tree) /\ Nodes(tree) \subseteq Nat /\ tree.depth \in Nat
  BY <1>2 DEF WellFormed, WellTyped
<1> QED BY <1>1, <1>2, <1>3, TreeType, ExtentMapAssumption DEF WellFormed

(* The nodes in memory are at most one for each level. *)
LEMMA MemoryBound ==
  ASSUME NEW d \in Nat, NEW S \in SUBSET (1 .. d)
  PROVE  IsFiniteSet(S) /\ Cardinality(S) \in 0 .. d
<1>1. IsFiniteSet(1 .. d) /\ Cardinality(1 .. d) = d
  BY FS_Interval
<1>2. IsFiniteSet(S) /\ Cardinality(S) <= Cardinality(1 .. d)
  BY <1>1, FS_Subset
<1> QED BY <1>1, <1>2, FS_CardinalityType
LEMMA MemoryType ==
  ASSUME TypeOK
  PROVE  /\ Levels \ {0} = 1 .. tree.depth
         /\ IsFiniteSet(InMemory) /\ Cardinality(InMemory) \in 0 .. tree.depth
<1>1. tree.depth \in Nat
  BY TreeFacts
<1>2. Levels \ {0} = 1 .. tree.depth
  BY <1>1 DEF Levels
<1>3. InMemory \in SUBSET (1 .. tree.depth)
  BY <1>2 DEF InMemory
<1> QED BY <1>1, <1>2, <1>3, MemoryBound

Count(d, f) == Cardinality({j \in 1 .. d : f[j] # NULL})

(* The number of nodes in memory when the node of one level changes. *)
LEMMA MemoryChange ==
  ASSUME NEW d \in Nat, NEW f \in [0 .. d -> Nat \cup {NULL}], NULL \notin Nat,
         NEW k \in 1 .. d, NEW x, NEW g,
         g[k] = x, \A j \in 1 .. d : j # k => g[j] = f[j]
  PROVE  Count(d, g) =
           Count(d, f) - (IF f[k] = NULL THEN 0 ELSE 1) + (IF x = NULL THEN 0 ELSE 1)
<1> DEFINE F == {j \in 1 .. d : f[j] # NULL}
           G == {j \in 1 .. d : g[j] # NULL}
<1>1. IsFiniteSet(F) /\ IsFiniteSet(G) /\ Cardinality(F) \in Int /\ Cardinality(G) \in Int
  BY MemoryBound
<1>2. g[k] = x /\ \A j \in 1 .. d : j # k => g[j] = f[j]
  OBVIOUS
<1>3. x # NULL /\ f[k] = NULL => G = F \cup {k} /\ k \notin F
  BY <1>2
<1>4. x = NULL /\ f[k] # NULL => G = F \ {k} /\ k \in F
  BY <1>2
<1>5. (x = NULL <=> f[k] = NULL) => G = F
  BY <1>2
<1>6. Count(d, g) = Cardinality(G) /\ Count(d, f) = Cardinality(F)
  BY DEF Count
<1> HIDE DEF F, G
<1>7. x # NULL /\ f[k] = NULL => Cardinality(G) = Cardinality(F) + 1
  BY <1>1, <1>3, FS_AddElement
<1>8. x = NULL /\ f[k] # NULL => Cardinality(G) = Cardinality(F) - 1
  BY <1>1, <1>4, FS_RemoveElement
<1> QED BY <1>1, <1>5, <1>6, <1>7, <1>8

-----------------------------------------------------------------------------
LEMMA InitIInv == Init => IInv
<1> SUFFICES ASSUME Init PROVE IInv
  OBVIOUS
<1>1. tree \in Trees /\ MaxBlocks \in Nat
  BY ExtentMapAssumption DEF Init
<1>2. WellFormed(tree)
  BY <1>1, ExtentMapAssumption
<1>3. tree.depth \in Nat
  BY <1>2 DEF WellFormed, WellTyped
<1>4. TypeOK
  <2>1. extent_path \in BOOLEAN /\ mapped \in BOOLEAN
    BY DEF Init
  <2> QED BY <1>1, <1>3, <2>1 DEF Init, TypeOK, Levels
<1>5. NodesAreFreed
  <2>1. {k \in Levels \ {0} : p_hdr[k] # NULL} = {}
    BY DEF Init, Levels
  <2> QED BY <2>1, FS_EmptySet DEF Init, NodesAreFreed
<1>6. PathAgrees
  BY <1>3 DEF Init, PathAgrees, Levels
<1>7. Here /\ ReadNodes /\ MapsRight
  BY DEF Init, Here, ReadNodes, MapsRight
<1> QED BY <1>4, <1>5, <1>6, <1>7 DEF IInv

(* A step that leaves the nodes and the counts alone. *)
LEMMA KeepNodes ==
  ASSUME NodesAreFreed, UNCHANGED <<tree, p_hdr, buffers>>,
         state # "stopped", state' # "stopped"
  PROVE  NodesAreFreed'
  BY DEF NodesAreFreed, Levels

LEMMA NoTreeInv ==
  ASSUME IInv, NoTree
  PROVE  IInv'
<1> USE DEF Levels, block_no
<1>1. /\ state = "idle" /\ state' = "idle" /\ blk_index' = blk_index + 1 /\ blk_index < MaxBlocks
      /\ mapped' = FALSE /\ ~tree.magic
      /\ UNCHANGED <<tree, address, buffers, reads, ppos, pathVars>>
  BY DEF NoTree, Request
<1>2. blk_index \in Nat /\ MaxBlocks \in Nat /\ tree.depth \in Nat
  BY TreeFacts DEF IInv, TypeOK
<1>3. TypeOK'
  <2>1. mapped' \in BOOLEAN /\ extent_path' \in BOOLEAN
    BY <1>1 DEF IInv, TypeOK, pathVars
  <2>2. blk_index' \in 0 .. MaxBlocks
    BY <1>1, <1>2
  <2> QED BY <1>1, <2>1, <2>2 DEF IInv, TypeOK, pathVars
<1>4. NodesAreFreed'
  BY <1>1, KeepNodes DEF IInv, pathVars
<1>5. \A n \in Nodes(tree) : tree.lo[n] \in Nat /\ tree.hi[n] \in Nat
  BY TreeFacts, TreeType DEF IInv
<1>6. PathAgrees'
  <2>1. p_hdr \in [0 .. tree.depth -> Nodes(tree) \cup {NULL}]
    BY DEF IInv, TypeOK
  <2> QED BY <1>1, <1>2, <1>5, <2>1 DEF IInv, PathAgrees, pathVars
<1>7. ReadNodes'
  BY <1>1, <1>2, <1>5 DEF IInv, ReadNodes, pathVars
<1>8. Here' /\ MapsRight'
  BY <1>1 DEF Here, MapsRight
<1> QED BY <1>3, <1>4, <1>6, <1>7, <1>8 DEF IInv

LEMMA EnterInv ==
  ASSUME IInv, Enter
  PROVE  IInv'
<1> USE DEF Levels, block_no
<1>1. /\ state = "idle" /\ state' = "walk" /\ blk_index' = blk_index + 1 /\ blk_index < MaxBlocks
      /\ extent_path' = TRUE /\ p_hdr' = [p_hdr EXCEPT ![0] = INODE] /\ ppos' = 0 /\ tree.magic
      /\ UNCHANGED <<tree, address, buffers, reads, p_block, mapped>>
  BY DEF Enter, Request
<1>2. blk_index \in Nat /\ MaxBlocks \in Nat /\ tree.depth \in Nat /\ NULL \notin Nat
      /\ INODE \in Nodes(tree) /\ tree.level[INODE] = 0 /\ tree.lo[INODE] = 0
      /\ tree.hi[INODE] \in Nat /\ tree.hi[INODE] >= MaxBlocks
  BY TreeFacts DEF IInv, TypeOK
<1>3. p_hdr \in [0 .. tree.depth -> Nodes(tree) \cup {NULL}]
  BY DEF IInv, TypeOK
<1>4. p_hdr'[0] = INODE /\ \A k \in 0 .. tree.depth : k # 0 => p_hdr'[k] = p_hdr[k]
  BY <1>1, <1>2, <1>3
<1>5. TypeOK'
  <2>1. p_hdr' \in [0 .. tree.depth -> Nodes(tree) \cup {NULL}]
    BY <1>1, <1>2, <1>3
  <2>2. extent_path' \in BOOLEAN /\ mapped' \in BOOLEAN
    BY <1>1 DEF IInv, TypeOK
  <2> QED BY <1>1, <1>2, <2>1, <2>2 DEF IInv, TypeOK
<1>6. NodesAreFreed'
  <2>1. {k \in 0 .. tree.depth \ {0} : p_hdr'[k] # NULL} = {k \in 0 .. tree.depth \ {0} : p_hdr[k] # NULL}
    BY <1>4
  <2> QED BY <1>1, <2>1 DEF IInv, NodesAreFreed
<1>7. \A n \in Nodes(tree) : tree.lo[n] \in Nat /\ tree.hi[n] \in Nat /\ tree.level[n] \in 0 .. tree.depth
  BY TreeFacts, TreeType DEF IInv
<1>8. PathAgrees'
  BY <1>1, <1>2, <1>3, <1>4, <1>7 DEF IInv, PathAgrees
<1>9. ReadNodes'
  BY <1>1, <1>2, <1>4, <1>7 DEF IInv, ReadNodes
<1>10. Here'
  BY <1>1, <1>2, <1>4 DEF Here
<1>11. MapsRight'
  BY <1>1 DEF MapsRight
<1> QED BY <1>5, <1>6, <1>8, <1>9, <1>10, <1>11 DEF IInv

LEMMA CrashInv ==
  ASSUME IInv, Crash
  PROVE  IInv'
<1> USE DEF Levels, block_no, pathVars
<1>1. TypeOK'
  BY DEF IInv, TypeOK, Crash
<1>2. NodesAreFreed'
  BY KeepNodes DEF IInv, Crash
<1>3. PathAgrees'
  BY DEF IInv, PathAgrees, Crash
<1>4. ReadNodes'
  BY DEF IInv, ReadNodes, Crash
<1>5. Here' /\ MapsRight'
  BY DEF Here, MapsRight, Crash
<1> QED BY <1>1, <1>2, <1>3, <1>4, <1>5 DEF IInv

(* What is known of the walk one level above the leaf or higher. *)
LEMMA NextNode ==
  ASSUME IInv, Descend
  PROVE  \E p \in DOMAIN entries :
           LET child == entries[p].addr IN
           /\ child = Address(entries[p].addr)
           /\ child \in Nodes(tree) \ {INODE} /\ child \in Nat /\ child # 0
           /\ tree.level[child] = ppos + 1
           /\ tree.lo[child] <= block_no /\ block_no < tree.hi[child]
           /\ \/ child = p_block[ppos] /\ UNCHANGED <<p_block, p_hdr, buffers, reads>>
              \/ /\ child # p_block[ppos]
                 /\ p_block' = [p_block EXCEPT ![ppos] = child]
                 /\ p_hdr' = [p_hdr EXCEPT ![ppos + 1] = child]
                 /\ reads' = [reads EXCEPT ![child] = @ + 1]
                 /\ buffers' = buffers + 1 - (IF p_hdr[ppos + 1] = NULL THEN 0 ELSE 1)
              \/ /\ child # p_block[ppos]
                 /\ p_block' = [p_block EXCEPT ![ppos] = child]
                 /\ p_hdr' = [p_hdr EXCEPT ![ppos + 1] = NULL]
                 /\ buffers' = buffers - (IF p_hdr[ppos + 1] = NULL THEN 0 ELSE 1)
                 /\ UNCHANGED reads
<1>1. PICK p \in DOMAIN entries :
        LET child == Address(entries[p].addr)
            freed == IF p_hdr[ppos + 1] = NULL THEN 0 ELSE 1
        IN
        /\ IsEntryFor(entries, block_no, p)
        /\ IF child = p_block[ppos]
           THEN UNCHANGED <<p_block, p_hdr, buffers, reads>>
           ELSE /\ p_block' = [p_block EXCEPT ![ppos] = child]
                /\ \/ /\ p_hdr' = [p_hdr EXCEPT ![ppos + 1] = child]
                      /\ reads' = [reads EXCEPT ![child] = @ + 1]
                      /\ buffers' = buffers + 1 - freed
                   \/ /\ ReadsFail
                      /\ p_hdr' = [p_hdr EXCEPT ![ppos + 1] = NULL]
                      /\ buffers' = buffers - freed
                      /\ UNCHANGED reads
  BY DEF Descend
<1> DEFINE n == p_hdr[ppos]
           child == tree.entries[n][p].addr
<1>2. n \in Nodes(tree) /\ tree.level[n] = ppos /\ ppos < tree.depth
      /\ tree.lo[n] <= block_no /\ block_no < tree.hi[n] /\ block_no \in Nat
  BY DEF Descend, IInv, TypeOK, Here, block_no
<1>3. /\ child \in Nodes(tree) \ {INODE} /\ tree.level[child] = ppos + 1
      /\ tree.lo[child] <= block_no /\ block_no < tree.hi[child]
  <2>1. p \in DOMAIN tree.entries[n] /\ IsEntryFor(tree.entries[n], block_no, p)
    BY <1>1 DEF entries
  <2>2. WellFormed(tree)
    BY TreeFacts DEF IInv
  <2> HIDE DEF n, block_no
  <2> QED BY <1>2, <2>1, <2>2, ChildHas
<1>4. child \in 0 .. AddrWidth - 1 /\ AddrWidth \in Nat \ {0}
  BY <1>3, TreeFacts, ExtentMapAssumption DEF IInv
<1>5. Address(child) = child
  BY <1>4 DEF Address
<1>6. child = entries[p].addr
  BY DEF entries
<1> HIDE DEF child, n
<1> QED BY <1>1, <1>3, <1>4, <1>5, <1>6 DEF INODE
LEMMA DescendInv ==
  ASSUME IInv, Descend
  PROVE  IInv'
<1> USE DEF Levels, block_no
<1> DEFINE k == ppos + 1
           old == IF p_hdr[k] = NULL THEN 0 ELSE 1
<1>1. PICK p \in DOMAIN entries :
        LET child == entries[p].addr IN
        /\ child = Address(entries[p].addr)
        /\ child \in Nodes(tree) \ {INODE} /\ child \in Nat /\ child # 0
        /\ tree.level[child] = ppos + 1
        /\ tree.lo[child] <= block_no /\ block_no < tree.hi[child]
        /\ \/ child = p_block[ppos] /\ UNCHANGED <<p_block, p_hdr, buffers, reads>>
           \/ /\ child # p_block[ppos]
              /\ p_block' = [p_block EXCEPT ![ppos] = child]
              /\ p_hdr' = [p_hdr EXCEPT ![ppos + 1] = child]
              /\ reads' = [reads EXCEPT ![child] = @ + 1]
              /\ buffers' = buffers + 1 - (IF p_hdr[ppos + 1] = NULL THEN 0 ELSE 1)
           \/ /\ child # p_block[ppos]
              /\ p_block' = [p_block EXCEPT ![ppos] = child]
              /\ p_hdr' = [p_hdr EXCEPT ![ppos + 1] = NULL]
              /\ buffers' = buffers - (IF p_hdr[ppos + 1] = NULL THEN 0 ELSE 1)
              /\ UNCHANGED reads
  BY NextNode
<1> DEFINE child == entries[p].addr
<1>2. /\ child \in Nodes(tree) /\ child # INODE /\ child \in Nat /\ child # 0
      /\ tree.level[child] = k /\ tree.lo[child] <= block_no /\ block_no < tree.hi[child]
  BY <1>1
<1>3. /\ state = "walk" /\ state' = "walk" /\ ppos' = k /\ p_hdr[ppos] # NULL /\ ppos < tree.depth
      /\ UNCHANGED <<tree, blk_index, extent_path, mapped, address>>
  BY DEF Descend
<1>4. /\ tree.depth \in Nat /\ NULL \notin Nat /\ Nodes(tree) \subseteq Nat
      /\ blk_index \in Nat /\ ppos \in 0 .. tree.depth /\ k \in 1 .. tree.depth
  <2>1. tree.depth \in Nat /\ NULL \notin Nat /\ Nodes(tree) \subseteq Nat /\ MaxBlocks \in Nat
    BY TreeFacts DEF IInv
  <2> QED BY <1>3, <2>1 DEF IInv, TypeOK
<1>5. /\ p_hdr \in [0 .. tree.depth -> Nodes(tree) \cup {NULL}]
      /\ p_block \in [0 .. tree.depth -> Nat] /\ reads \in [Nodes(tree) -> Nat]
  BY DEF IInv, TypeOK
<1>6. blk_index > 0 /\ tree.magic
  BY <1>3 DEF IInv, Here
<1>7. \A n \in Nodes(tree) : /\ tree.lo[n] \in Nat /\ tree.hi[n] \in Nat
                             /\ tree.level[n] \in 0 .. tree.depth
  BY TreeFacts, TreeType DEF IInv
<1>8. p_hdr[k] # NULL => /\ p_hdr[k] = p_block[ppos] /\ p_hdr[k] # INODE
                         /\ tree.level[p_hdr[k]] = k /\ tree.lo[p_hdr[k]] <= block_no
  BY <1>4 DEF IInv, PathAgrees
<1>9. p_hdr[k] = NULL => p_block[ppos] = 0
  BY <1>3, <1>4 DEF IInv, PathAgrees
<1>10. MapsRight'
  BY <1>3 DEF MapsRight
<1> HIDE DEF child
(* The node was in the path. *)
<1>11. CASE child = p_block[ppos] /\ UNCHANGED <<p_block, p_hdr, buffers, reads>>
  <2>1. p_hdr[k] = child /\ p_hdr'[k] = child
    BY <1>2, <1>8, <1>9, <1>11
  <2>2. TypeOK'
    BY <1>3, <1>4, <1>11 DEF IInv, TypeOK
  <2>3. NodesAreFreed'
    BY <1>3, <1>11, KeepNodes DEF IInv
  <2>4. PathAgrees'
    BY <1>3, <1>4, <1>11, <2>1 DEF IInv, PathAgrees
  <2>5. Here'
    BY <1>2, <1>3, <1>4, <1>6, <2>1 DEF Here
  <2>6. ReadNodes'
    BY <1>3, <1>11 DEF IInv, ReadNodes
  <2> QED BY <1>10, <2>2, <2>3, <2>4, <2>5, <2>6 DEF IInv
(* It was not: no node of its level that was read is needed any more. *)
<1>12. ASSUME child # p_block[ppos], NEW n \in Nodes(tree), reads[n] = 1, tree.level[n] = k
       PROVE  n # child /\ tree.hi[n] <= block_no
  <2>1. p_hdr[k] = n \/ tree.hi[n] <= block_no
    BY <1>12 DEF IInv, ReadNodes
  <2>2. CASE tree.hi[n] <= block_no
    BY <1>2, <1>4, <1>7, <2>2
  <2>3. CASE p_hdr[k] = n
    <3>1. n # NULL /\ n # child /\ tree.lo[n] <= block_no
      BY <1>4, <1>8, <1>12, <2>3
    <3>2. WellFormed(tree) /\ block_no \in Int
      BY <1>4, TreeFacts DEF IInv
    <3>3. ~(block_no < tree.hi[n])
      BY <1>2, <1>12, <3>1, <3>2, SameNode
    <3> QED BY <1>4, <1>7, <3>1, <3>3
  <2> QED BY <2>1, <2>2, <2>3
(* It is read. *)
<1>13. CASE /\ child # p_block[ppos]
            /\ p_block' = [p_block EXCEPT ![ppos] = child]
            /\ p_hdr' = [p_hdr EXCEPT ![k] = child]
            /\ reads' = [reads EXCEPT ![child] = @ + 1]
            /\ buffers' = buffers + 1 - old
  <2>1. /\ p_hdr'[k] = child /\ \A j \in 0 .. tree.depth : j # k => p_hdr'[j] = p_hdr[j]
        /\ p_block'[ppos] = child /\ \A j \in 0 .. tree.depth : j # ppos => p_block'[j] = p_block[j]
    BY <1>4, <1>5, <1>13
  <2>2. NodesAreFreed'
    <3>1. Cardinality({j \in 1 .. tree.depth : p_hdr'[j] # NULL}) =
            Cardinality({j \in 1 .. tree.depth : p_hdr[j] # NULL}) - old + 1
      <4>1. p_hdr \in [0 .. tree.depth -> Nat \cup {NULL}] /\ child # NULL
        BY <1>2, <1>4, <1>5
      <4>2. /\ tree.depth \in Nat /\ k \in 1 .. tree.depth /\ NULL \notin Nat
            /\ p_hdr'[k] = child /\ \A j \in 1 .. tree.depth : j # k => p_hdr'[j] = p_hdr[j]
        BY <1>4, <2>1
      <4> HIDE DEF k
      <4>3. Count(tree.depth, p_hdr') = Count(tree.depth, p_hdr)
                - (IF p_hdr[k] = NULL THEN 0 ELSE 1) + (IF child = NULL THEN 0 ELSE 1)
        BY <4>1, <4>2, MemoryChange
      <4>4. Cardinality({j \in 1 .. tree.depth : p_hdr[j] # NULL}) \in Int
        <5>1. {j \in 1 .. tree.depth : p_hdr[j] # NULL} \in SUBSET (1 .. tree.depth)
          OBVIOUS
        <5> QED BY <4>2, <5>1, MemoryBound
      <4> QED BY <4>1, <4>3, <4>4 DEF Count
    <3>2. Levels \ {0} = 1 .. tree.depth /\ InMemory = {j \in 1 .. tree.depth : p_hdr[j] # NULL}
      BY <1>4 DEF InMemory
    <3>3. Cardinality(InMemory) \in Nat
      BY MemoryType DEF IInv
    <3>4. buffers = Cardinality(InMemory)
      BY <1>3 DEF IInv, NodesAreFreed, InMemory
    <3>5. buffers' = Cardinality({j \in 1 .. tree.depth : p_hdr'[j] # NULL})
      BY <1>13, <3>1, <3>2, <3>3, <3>4
    <3> QED BY <1>3, <3>2, <3>5 DEF NodesAreFreed
  <2>3. TypeOK'
    <3>1. /\ p_hdr' \in [0 .. tree.depth -> Nodes(tree) \cup {NULL}]
          /\ p_block' \in [0 .. tree.depth -> Nat] /\ reads' \in [Nodes(tree) -> Nat]
      BY <1>2, <1>4, <1>5, <1>13
    <3>2. buffers' \in 0 .. tree.depth
      <4>1. {j \in 1 .. tree.depth : p_hdr'[j] # NULL} \in SUBSET (1 .. tree.depth)
        OBVIOUS
      <4>2. Cardinality({j \in 1 .. tree.depth : p_hdr'[j] # NULL}) \in 0 .. tree.depth
        BY <1>4, <4>1, MemoryBound
      <4>3. buffers' = Cardinality({j \in (0 .. tree.depth) \ {0} : p_hdr'[j] # NULL})
        BY <1>3, <2>2 DEF NodesAreFreed
      <4>4. (0 .. tree.depth) \ {0} = 1 .. tree.depth
        BY <1>4
      <4> QED BY <4>2, <4>3, <4>4
    <3> QED BY <1>3, <1>4, <3>1, <3>2 DEF IInv, TypeOK
  <2>4. PathAgrees'
    <3>1. p_hdr'[0] = p_hdr[0]
      BY <1>4, <2>1
    <3>2. ASSUME NEW j \in (0 .. tree.depth) \ {0}, j # k
          PROVE  /\ p_hdr'[j] = p_hdr[j] /\ p_block'[j - 1] = p_block[j - 1]
      BY <1>4, <2>1, <3>2
    <3>3. p_block'[k - 1] = child
      BY <1>4, <2>1
    <3> QED BY <1>2, <1>3, <1>4, <2>1, <3>1, <3>2, <3>3 DEF IInv, PathAgrees
  <2>5. Here'
    BY <1>2, <1>3, <1>4, <1>6, <2>1 DEF Here
  <2>6. ReadNodes'
    <3>1. reads[child] = 0
      BY <1>2, <1>5, <1>12, <1>13 DEF IInv, ReadNodes
    <3>2. reads'[child] = 1 /\ \A n \in Nodes(tree) : n # child => reads'[n] = reads[n]
      BY <1>2, <1>5, <1>13, <3>1
    <3>3. ASSUME NEW n \in Nodes(tree), reads'[n] = 1, n # child
          PROVE  tree.level[n] > 0 /\ (p_hdr'[tree.level[n]] = n \/ tree.hi[n] <= block_no)
      BY <1>7, <1>12, <1>13, <2>1, <3>2, <3>3 DEF IInv, ReadNodes
    <3> QED BY <1>2, <1>3, <1>4, <2>1, <3>2, <3>3 DEF IInv, ReadNodes
  <2> QED BY <1>10, <2>2, <2>3, <2>4, <2>5, <2>6 DEF IInv
(* It cannot be read. *)
<1>14. CASE /\ child # p_block[ppos]
            /\ p_block' = [p_block EXCEPT ![ppos] = child]
            /\ p_hdr' = [p_hdr EXCEPT ![k] = NULL]
            /\ buffers' = buffers - old
            /\ UNCHANGED reads
  <2>1. /\ p_hdr'[k] = NULL /\ \A j \in 0 .. tree.depth : j # k => p_hdr'[j] = p_hdr[j]
        /\ p_block'[ppos] = child /\ \A j \in 0 .. tree.depth : j # ppos => p_block'[j] = p_block[j]
    BY <1>4, <1>5, <1>14
  <2>2. NodesAreFreed'
    <3>1. Cardinality({j \in 1 .. tree.depth : p_hdr'[j] # NULL}) =
            Cardinality({j \in 1 .. tree.depth : p_hdr[j] # NULL}) - old + 0
      <4>1. p_hdr \in [0 .. tree.depth -> Nat \cup {NULL}]
        BY <1>4, <1>5
      <4>2. /\ tree.depth \in Nat /\ k \in 1 .. tree.depth /\ NULL \notin Nat
            /\ p_hdr'[k] = NULL /\ \A j \in 1 .. tree.depth : j # k => p_hdr'[j] = p_hdr[j]
        BY <1>4, <2>1
      <4> HIDE DEF k
      <4>3. Count(tree.depth, p_hdr') = Count(tree.depth, p_hdr)
                - (IF p_hdr[k] = NULL THEN 0 ELSE 1) + (IF NULL = NULL THEN 0 ELSE 1)
        BY <4>1, <4>2, MemoryChange
      <4>4. Cardinality({j \in 1 .. tree.depth : p_hdr[j] # NULL}) \in Int
        <5>1. {j \in 1 .. tree.depth : p_hdr[j] # NULL} \in SUBSET (1 .. tree.depth)
          OBVIOUS
        <5> QED BY <4>2, <5>1, MemoryBound
      <4> QED BY <4>1, <4>3, <4>4 DEF Count
    <3>2. Levels \ {0} = 1 .. tree.depth /\ InMemory = {j \in 1 .. tree.depth : p_hdr[j] # NULL}
      BY <1>4 DEF InMemory
    <3>3. Cardinality(InMemory) \in Nat
      BY MemoryType DEF IInv
    <3>4. buffers = Cardinality(InMemory)
      BY <1>3 DEF IInv, NodesAreFreed, InMemory
    <3>5. buffers' = Cardinality({j \in 1 .. tree.depth : p_hdr'[j] # NULL})
      BY <1>14, <3>1, <3>2, <3>3, <3>4
    <3> QED BY <1>3, <3>2, <3>5 DEF NodesAreFreed
  <2>3. TypeOK'
    <3>1. /\ p_hdr' \in [0 .. tree.depth -> Nodes(tree) \cup {NULL}]
          /\ p_block' \in [0 .. tree.depth -> Nat]
      BY <1>2, <1>4, <1>5, <1>14
    <3>2. buffers' \in 0 .. tree.depth
      <4>1. {j \in 1 .. tree.depth : p_hdr'[j] # NULL} \in SUBSET (1 .. tree.depth)
        OBVIOUS
      <4>2. Cardinality({j \in 1 .. tree.depth : p_hdr'[j] # NULL}) \in 0 .. tree.depth
        BY <1>4, <4>1, MemoryBound
      <4>3. buffers' = Cardinality({j \in (0 .. tree.depth) \ {0} : p_hdr'[j] # NULL})
        BY <1>3, <2>2 DEF NodesAreFreed
      <4>4. (0 .. tree.depth) \ {0} = 1 .. tree.depth
        BY <1>4
      <4> QED BY <4>2, <4>3, <4>4
    <3> QED BY <1>3, <1>4, <1>14, <3>1, <3>2 DEF IInv, TypeOK
  <2>4. PathAgrees'
    <3>1. p_hdr'[0] = p_hdr[0]
      BY <1>4, <2>1
    <3>2. ASSUME NEW j \in (0 .. tree.depth) \ {0}, j # k
          PROVE  /\ p_hdr'[j] = p_hdr[j] /\ p_block'[j - 1] = p_block[j - 1]
      BY <1>4, <2>1, <3>2
    <3> QED BY <1>3, <1>4, <2>1, <3>1, <3>2 DEF IInv, PathAgrees
  <2>5. Here'
    BY <1>3, <1>4, <1>6, <2>1 DEF Here
  <2>6. ReadNodes'
    <3>1. ASSUME NEW n \in Nodes(tree), reads[n] = 1
          PROVE  tree.level[n] > 0 /\ (p_hdr'[tree.level[n]] = n \/ tree.hi[n] <= block_no)
      BY <1>7, <1>12, <1>14, <2>1, <3>1 DEF IInv, ReadNodes
    <3> QED BY <1>3, <1>14, <3>1 DEF IInv, ReadNodes
  <2> QED BY <1>10, <2>2, <2>3, <2>4, <2>5, <2>6 DEF IInv
<1> QED BY <1>1, <1>11, <1>13, <1>14 DEF child

LEMMA NoExtentInv ==
  ASSUME IInv, NoExtent
  PROVE  IInv'
<1> USE DEF Levels, block_no
<1>1. /\ state = "walk" /\ state' = "idle" /\ p_hdr[ppos] # NULL /\ ppos = tree.depth
      /\ entries = <<>> /\ mapped' = FALSE
      /\ UNCHANGED <<tree, blk_index, ppos, extent_path, p_hdr, buffers, reads, p_block, address>>
  BY DEF NoExtent, InLeaf
<1>2. TypeOK'
  BY <1>1 DEF IInv, TypeOK
<1>3. NodesAreFreed'
  BY <1>1, KeepNodes DEF IInv
<1>4. PathAgrees' /\ Here' /\ ReadNodes'
  BY <1>1 DEF IInv, PathAgrees, Here, ReadNodes
<1>5. MapsRight'
  <2>1. /\ WellFormed(tree) /\ p_hdr[ppos] \in Nodes(tree) /\ block_no \in Nat
        /\ tree.level[p_hdr[ppos]] = tree.depth
        /\ tree.lo[p_hdr[ppos]] <= block_no /\ block_no < tree.hi[p_hdr[ppos]]
    BY <1>1, TreeFacts DEF IInv, TypeOK, Here
  <2>2. ASSUME NEW n, NEW k, Covers(tree, n, k, block_no) PROVE FALSE
    <3>1. n = p_hdr[ppos]
      BY <2>1, <2>2, LeafHas
    <3>2. k \in DOMAIN entries /\ DOMAIN entries = 1 .. Len(entries)
      BY <2>1, <2>2, <3>1, TreeType DEF Covers, entries
    <3> QED BY <1>1, <3>2
  <2> QED BY <1>1, <2>2 DEF MapsRight
<1> QED BY <1>2, <1>3, <1>4, <1>5 DEF IInv

LEMMA FoundExtentInv ==
  ASSUME NoHighAddresses, IInv, FoundExtent
  PROVE  IInv'
<1> USE DEF Levels, block_no
<1>1. /\ state = "walk" /\ state' = "idle" /\ p_hdr[ppos] # NULL /\ ppos = tree.depth
      /\ mapped' = TRUE
      /\ UNCHANGED <<tree, blk_index, ppos, extent_path, p_hdr, buffers, reads>>
  BY DEF FoundExtent, InLeaf
<1>2. PICK p \in DOMAIN entries :
        /\ IsEntryFor(entries, block_no, p)
        /\ p_block' = [p_block EXCEPT ![ppos] = Address(entries[p].addr)]
        /\ address' = p_block'[ppos] + block_no - entries[p].key
  BY DEF FoundExtent
<1> DEFINE n == p_hdr[ppos]
           e == entries[p]
<1>3. /\ WellFormed(tree) /\ n \in Nodes(tree) /\ block_no \in Nat
      /\ tree.level[n] = tree.depth /\ tree.lo[n] <= block_no /\ block_no < tree.hi[n]
  BY <1>1, TreeFacts DEF IInv, TypeOK, Here
<1>4. e.addr \in Nat /\ e.key \in Nat /\ tree \in Trees /\ entries = tree.entries[n]
  BY <1>3, TreeType, TreeFacts DEF IInv, entries
<1>5. AddrWidth \in Nat \ {0} /\ e.addr < AddrWidth
  BY <1>3, <1>4, ExtentMapAssumption DEF NoHighAddresses
<1>6. Address(e.addr) = e.addr
  BY <1>4, <1>5 DEF Address
<1>7. ppos \in 0 .. tree.depth /\ tree.depth \in Nat /\ p_block \in [0 .. tree.depth -> Nat]
  BY TreeFacts DEF IInv, TypeOK
<1> HIDE DEF e
<1>8. p_block'[ppos] = e.addr /\ address' = e.addr + block_no - e.key
  BY <1>2, <1>6, <1>7 DEF e
<1>9. p_block' \in [0 .. tree.depth -> Nat] /\ \A j \in 0 .. tree.depth : j # ppos => p_block'[j] = p_block[j]
  BY <1>2, <1>4, <1>6, <1>7 DEF e
<1>10. TypeOK'
  <2>1. address' \in Int /\ mapped' \in BOOLEAN
    BY <1>1, <1>3, <1>4, <1>8
  <2> QED BY <1>1, <1>9, <2>1 DEF IInv, TypeOK
<1>11. NodesAreFreed'
  BY <1>1, KeepNodes DEF IInv
<1>12. PathAgrees'
  <2>1. \A k \in (0 .. tree.depth) \ {0} : p_block'[k - 1] = p_block[k - 1]
    BY <1>1, <1>7, <1>9
  <2> QED BY <1>1, <2>1 DEF IInv, PathAgrees
<1>13. Here' /\ ReadNodes'
  BY <1>1 DEF IInv, Here, ReadNodes
<1>14. MapsRight'
  <2>1. ASSUME NEW q, NEW k, Covers(tree, q, k, block_no)
        PROVE  address' = Place(tree, q, k, block_no)
    <3>1. q = n /\ k = p
      BY <1>2, <1>3, <1>4, <2>1, LeafHas
    <3> QED BY <1>4, <1>8, <3>1 DEF Place, e
  <2>2. block_no' = block_no
    BY <1>1
  <2> HIDE DEF block_no
  <2>3. (\A q \in Nodes(tree) : \A k \in DOMAIN tree.entries[q] :
           Covers(tree, q, k, block_no) => mapped /\ address = Place(tree, q, k, block_no))'
    BY <1>1, <2>1, <2>2
  <2> QED BY <2>3 DEF MapsRight
<1> QED BY <1>10, <1>11, <1>12, <1>13, <1>14 DEF IInv

LEMMA StopInv ==
  ASSUME IInv, Stop
  PROVE  IInv'
<1> USE DEF Levels, block_no
<1>1. /\ state = "idle" /\ state' \in {"stopped", "crashed"}
      /\ extent_path' \in BOOLEAN /\ (extent_path' => extent_path)
      /\ UNCHANGED <<tree, blk_index, ppos, p_block, p_hdr, mapped, address, reads>>
  BY DEF Stop, IInv, TypeOK
<1>2. NodesAreFreed' /\ buffers' \in 0 .. tree.depth
  <2>1. buffers = Cardinality(InMemory) /\ Cardinality(InMemory) \in 0 .. tree.depth
        /\ tree.depth \in Nat
    BY <1>1, MemoryType, TreeFacts DEF IInv, NodesAreFreed, InMemory
  <2>2. CASE extent_path
    <3>1. state' = "stopped" /\ buffers' = buffers - Cardinality(InMemory)
      BY <2>2 DEF Stop, InMemory
    <3> QED BY <2>1, <3>1 DEF NodesAreFreed
  <2>3. CASE ~extent_path
    <3>1. state' = "crashed" /\ buffers' = buffers
      BY <2>3 DEF Stop
    <3> QED BY <1>1, <2>1, <3>1 DEF NodesAreFreed, InMemory
  <2> QED BY <2>2, <2>3
<1>3. TypeOK'
  BY <1>1, <1>2 DEF IInv, TypeOK
<1>4. PathAgrees'
  BY <1>1 DEF IInv, PathAgrees
<1>5. ReadNodes'
  BY <1>1 DEF IInv, ReadNodes
<1>6. Here' /\ MapsRight'
  BY <1>1 DEF Here, MapsRight
<1> QED BY <1>2, <1>3, <1>4, <1>5, <1>6 DEF IInv

LEMMA StutterInv ==
  ASSUME IInv, UNCHANGED vars
  PROVE  IInv'
<1> USE DEF Levels, block_no, vars, pathVars
<1>1. TypeOK' /\ NodesAreFreed'
  BY DEF IInv, TypeOK, NodesAreFreed
<1>2. PathAgrees' /\ Here'
  BY DEF IInv, PathAgrees, Here
<1>3. ReadNodes' /\ MapsRight'
  BY DEF IInv, ReadNodes, MapsRight
<1> QED BY <1>1, <1>2, <1>3 DEF IInv

(* The path agrees with the tree after every step of every walk. *)
THEOREM InductiveInvariant ==
  ASSUME NoHighAddresses
  PROVE  Spec => []IInv
<1>1. IInv /\ [Next]_vars => IInv'
  BY NoTreeInv, EnterInv, CrashInv, DescendInv, NoExtentInv, FoundExtentInv, StopInv, StutterInv
     DEF Next, get_ext2_extent_blk, Done
<1> QED BY <1>1, InitIInv, PTL DEF Spec

(* At most one node for each level is in memory. *)
THEOREM TypeCorrect == ASSUME NoHighAddresses PROVE Spec => []TypeOK
<1>1. IInv => TypeOK
  BY DEF IInv
<1> QED BY <1>1, InductiveInvariant, PTL

(* Every block that an extent covers is mapped to its place, in every      *)
(* well-formed tree whose data is within the first 2^32 blocks.            *)
THEOREM RightExtents == ASSUME NoHighAddresses PROVE Spec => []MapsRight
<1>1. IInv => MapsRight
  BY DEF IInv
<1> QED BY <1>1, InductiveInvariant, PTL

(* Reading a file from its start to its end reads no tree node twice.      *)
THEOREM NoNodeTwice == ASSUME NoHighAddresses PROVE Spec => []ReadsEachOnce
<1>1. IInv => ReadsEachOnce
  BY DEF IInv, ReadNodes, ReadsEachOnce
<1> QED BY <1>1, InductiveInvariant, PTL

(* The destructor frees every node that was loaded and not freed before.   *)
THEOREM NoNodeLeaks == ASSUME NoHighAddresses PROVE Spec => []NodesAreFreed
<1>1. IInv => NodesAreFreed
  BY DEF IInv
<1> QED BY <1>1, InductiveInvariant, PTL

-----------------------------------------------------------------------------
(* The binary search.  A walk goes on with the entry of a node that stands *)
(* for the block; the search of ExtentSearch is shown to end at that       *)
(* entry, for any headers.  The entries before l begin at or before the    *)
(* block (but for the first, which is never compared), those after r begin *)
(* after it.                                                               *)

SearchInv ==
  /\ SearchTypeOK
  /\ l <= r + 1
  /\ \A k \in 2 .. l - 1 : eh[k].key <= block
  /\ \A k \in r + 1 .. Len(eh) : block < eh[k].key
  /\ FindsEntry

(* What is known of the eh that is searched. *)
LEMMA HeaderFacts ==
  ASSUME SearchTypeOK
  PROVE  /\ Len(eh) \in Nat /\ Len(eh) >= 1 /\ DOMAIN eh = 1 .. Len(eh)
         /\ block \in Nat
         /\ \A k \in 1 .. Len(eh) : eh[k].key \in Nat
         /\ \A j, k \in 1 .. Len(eh) : j < k => eh[j].key < eh[k].key
<1>1. eh \in Headers /\ block \in Blocks
  BY DEF SearchTypeOK
<1>2. Len(eh) \in Nat \ {0} /\ DOMAIN eh = 1 .. Len(eh) /\ Sorted(eh)
      /\ \A k \in DOMAIN eh : eh[k].key \in Nat
  BY <1>1, SearchAssumption
<1>3. block \in Nat
  BY <1>1, SearchAssumption
<1> QED BY <1>2, <1>3 DEF Sorted

LEMMA SearchInitInv == SearchInit => SearchInv
<1> SUFFICES ASSUME SearchInit PROVE SearchInv
  OBVIOUS
<1>1. Len(eh) \in Nat /\ Len(eh) >= 1
  BY SearchAssumption DEF SearchInit
<1>2. SearchTypeOK
  BY <1>1 DEF SearchInit, SearchTypeOK
<1> QED BY <1>1, <1>2 DEF SearchInit, SearchInv, FindsEntry

LEMMA CompareInv ==
  ASSUME SearchInv, Compare
  PROVE  SearchInv'
<1>1. /\ Len(eh) \in Nat /\ Len(eh) >= 1 /\ block \in Nat
      /\ \A k \in 1 .. Len(eh) : eh[k].key \in Nat
      /\ \A j, k \in 1 .. Len(eh) : j < k => eh[j].key < eh[k].key
  BY HeaderFacts DEF SearchInv
<1>2. l \in 2 .. Len(eh) + 1 /\ r \in 1 .. Len(eh) /\ l <= r /\ p_ext = 0
  BY DEF SearchInv, SearchTypeOK, Compare
<1>3. m' = Middle /\ m' \in l .. r /\ m' \in 1 .. Len(eh)
  BY <1>1, <1>2 DEF Compare, Middle
<1>4. eh' = eh /\ block' = block /\ p_ext' = p_ext
  BY DEF Compare
<1>5. CASE After(m')
  <2>1. r' = m' - 1 /\ l' = l
    BY <1>5 DEF Compare
  <2>2. \A k \in m' .. Len(eh) : block < eh[k].key
    BY <1>1, <1>2, <1>3, <1>5 DEF After
  <2>3. SearchTypeOK'
    BY <1>1, <1>2, <1>3, <1>4, <2>1 DEF SearchInv, SearchTypeOK
  <2>4. l' <= r' + 1
    BY <1>1, <1>2, <1>3, <2>1
  <2>5. (\A k \in 2 .. l - 1 : eh[k].key <= block)'
    BY <1>4, <2>1 DEF SearchInv
  <2>6. (\A k \in r + 1 .. Len(eh) : block < eh[k].key)'
    BY <1>1, <1>3, <1>4, <2>1, <2>2
  <2> QED BY <1>2, <1>4, <2>3, <2>4, <2>5, <2>6 DEF SearchInv, FindsEntry
<1>6. CASE ~After(m')
  <2>1. l' = m' + 1 /\ r' = r
    BY <1>6 DEF Compare
  <2>2. \A k \in 2 .. m' : eh[k].key <= block
    BY <1>1, <1>2, <1>3, <1>6 DEF After
  <2>3. SearchTypeOK'
    BY <1>1, <1>2, <1>3, <1>4, <2>1 DEF SearchInv, SearchTypeOK
  <2>4. l' <= r' + 1
    BY <1>1, <1>2, <1>3, <2>1
  <2>5. (\A k \in 2 .. l - 1 : eh[k].key <= block)'
    BY <1>1, <1>3, <1>4, <2>1, <2>2
  <2>6. (\A k \in r + 1 .. Len(eh) : block < eh[k].key)'
    BY <1>4, <2>1 DEF SearchInv
  <2> QED BY <1>2, <1>4, <2>3, <2>4, <2>5, <2>6 DEF SearchInv, FindsEntry
<1> QED BY <1>5, <1>6

LEMMA FinishInv ==
  ASSUME SearchInv, Finish
  PROVE  SearchInv'
<1>1. Len(eh) \in Nat /\ DOMAIN eh = 1 .. Len(eh)
  BY HeaderFacts DEF SearchInv
<1>2. l \in 2 .. Len(eh) + 1 /\ r \in 1 .. Len(eh) /\ l = r + 1
  BY <1>1 DEF SearchInv, SearchTypeOK, Finish
<1>3. p_ext' = r /\ UNCHANGED <<eh, block, l, r, m>>
  BY <1>1, <1>2 DEF Finish
<1>4. SearchTypeOK'
  BY <1>1, <1>2, <1>3 DEF SearchInv, SearchTypeOK
<1>5. IsEntryFor(eh, block, r)
  <2>1. r = 1 \/ eh[r].key <= block
    BY <1>1, <1>2 DEF SearchInv
  <2>2. \A k \in DOMAIN eh : k > r => block < eh[k].key
    BY <1>1, <1>2 DEF SearchInv
  <2> QED BY <1>1, <1>2, <2>1, <2>2 DEF IsEntryFor
<1>6. FindsEntry'
  BY <1>3, <1>5 DEF FindsEntry
<1> QED BY <1>3, <1>4, <1>6 DEF SearchInv

LEMMA SearchStutterInv ==
  ASSUME SearchInv, UNCHANGED searchVars
  PROVE  SearchInv'
  BY DEF SearchInv, SearchTypeOK, FindsEntry, searchVars

(* The rest of the entries stays bracketed, whatever the eh. *)
THEOREM SearchBracketed == SearchSpec => []SearchInv
<1>1. SearchInv /\ [SearchNext]_(searchVars) => SearchInv'
  BY CompareInv, FinishInv, SearchStutterInv DEF SearchNext
<1> QED BY <1>1, SearchInitInv, PTL DEF SearchSpec

(* No entry outside the eh is ever compared. *)
THEOREM SearchInsideHeader == SearchSpec => []SearchTypeOK
<1>1. SearchInv => SearchTypeOK
  BY DEF SearchInv
<1> QED BY <1>1, SearchBracketed, PTL

(* The search ends at the last entry that does not begin after the block,  *)
(* or at the first entry.                                                  *)
THEOREM EntryFound == SearchSpec => []FindsEntry
<1>1. SearchInv => FindsEntry
  BY DEF SearchInv
<1> QED BY <1>1, SearchBracketed, PTL

(* Every comparison leaves fewer entries than before: the search cannot go *)
(* on for ever.                                                            *)
THEOREM EveryStepShrinks == SearchSpec => [][Compare => r' - l' < r - l]_(searchVars)
<1>1. SearchInv /\ Compare => r' - l' < r - l
  <2> SUFFICES ASSUME SearchInv, Compare PROVE r' - l' < r - l
    OBVIOUS
  <2>1. Len(eh) \in Nat
    BY HeaderFacts DEF SearchInv
  <2>2. l \in Nat /\ r \in Nat /\ l <= r
    BY <2>1 DEF SearchInv, SearchTypeOK, Compare
  <2>3. Middle \in l .. r
    BY <2>2 DEF Middle
  <2> QED BY <2>2, <2>3 DEF Compare
<1> QED BY <1>1, SearchBracketed, PTL

(* The nodes of extent trees that have entries are headers as the search   *)
(* expects them.                                                           *)
LEMMA NodesSearchable ==
  ASSUME NEW t \in Trees, NEW n \in Nodes(t), Len(t.entries[n]) > 0
  PROVE  LET h == t.entries[n] IN
           /\ Len(h) \in Nat \ {0} /\ DOMAIN h = 1 .. Len(h)
           /\ \A k \in DOMAIN h : h[k].key \in Nat
           /\ Sorted(h)
<1>1. WellFormed(t)
  BY ExtentMapAssumption
<1>2. Sorted(t.entries[n])
  BY <1>1 DEF WellFormed
<1> QED BY <1>1, <1>2, TreeType

(* The entry that a walk goes on with, down the tree or to the data, is    *)
(* the one the search has ended at, and no other.                          *)
THEOREM SearchGivesWalkEntry ==
  SearchSpec => [](p_ext # 0 => \A p : IsEntryFor(eh, block, p) <=> p = p_ext)
<1>1. SearchInv => (p_ext # 0 => \A p : IsEntryFor(eh, block, p) <=> p = p_ext)
  <2> SUFFICES ASSUME SearchInv, p_ext # 0, NEW p
               PROVE  IsEntryFor(eh, block, p) <=> p = p_ext
    OBVIOUS
  <2>1. /\ DOMAIN eh = 1 .. Len(eh) /\ Len(eh) \in Nat /\ block \in Nat
        /\ \A k \in 1 .. Len(eh) : eh[k].key \in Nat
        /\ \A j, k \in 1 .. Len(eh) : j < k => eh[j].key < eh[k].key
    BY HeaderFacts DEF SearchInv
  <2>2. IsEntryFor(eh, block, p_ext)
    BY DEF SearchInv, FindsEntry, IsEntryFor
  <2>3. IsEntryFor(eh, block, p) => p = p_ext
    BY <2>1, <2>2 DEF IsEntryFor
  <2> QED BY <2>2, <2>3
<1> QED BY <1>1, SearchBracketed, PTL
=============================================================================
