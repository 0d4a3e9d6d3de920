----------------------------- MODULE MCExtentMap -----------------------------
(* All lists of extents of a file of up to MaxBlocks blocks, each in trees *)
(* of depth 0, 1 and 2, with as many extents in a leaf as LeafSizes says  *)
(* and PerIndex leaves in an index node.  The data of block 0 is at Top,   *)
(* that of later extents nearer to the start of the disk.                  *)
EXTENDS ExtentMap, TLC

CONSTANTS Top, LeafSizes, PerIndex, HoleFree

Block == 0 .. MaxBlocks - 1

(* Each block is in no extent, begins one or continues one. *)
Layouts ==
  {f \in [Block -> {"hole", "start", "cont"}] :
     \A b \in Block : /\ f[b] = "cont" => b > 0 /\ f[b - 1] # "hole"
                      /\ HoleFree => f[b] # "hole"}

RECURSIVE RunLength(_, _)
RunLength(f, b) == IF b \in Block /\ f[b] = "cont" THEN 1 + RunLength(f, b + 1) ELSE 0

RECURSIVE ExtentsFrom(_, _)
ExtentsFrom(f, b) ==
  IF b \notin Block THEN <<>>
  ELSE IF f[b] = "start"
  THEN <<[key |-> b, addr |-> Top - 10 * b, len |-> 1 + RunLength(f, b + 1)]>> \o ExtentsFrom(f, b + 1)
  ELSE ExtentsFrom(f, b + 1)

Least(a, b) == IF a < b THEN a ELSE b
Groups(n, size) == (n + size - 1) \div size
Group(list, j, size) == SubSeq(list, (j - 1) * size + 1, Least(j * size, Len(list)))

(* The entries that point to the nodes in nodes, at addresses from base. *)
Pointers(nodes, base) ==
  [j \in DOMAIN nodes |-> [key |-> IF j = 1 THEN 0 ELSE nodes[j][1].key, addr |-> base + j, len |-> 0]]

Flat(x) ==
  [depth |-> 0, magic |-> TRUE, entries |-> 0 :> x, level |-> 0 :> 0,
   lo |-> 0 :> 0, hi |-> 0 :> MaxBlocks]

(* depth 1: leaf j is node j. *)
Leaves(x, size) == [j \in 1 .. Groups(Len(x), size) |-> Group(x, j, size)]

Bounds(ptr) ==
  [lo |-> [j \in DOMAIN ptr |-> ptr[j].key],
   hi |-> [j \in DOMAIN ptr |-> IF j = Len(ptr) THEN MaxBlocks ELSE ptr[j + 1].key]]

Deep(x, size) ==
  LET ptr == Pointers(Leaves(x, size), 0)
      bd == Bounds(ptr)
  IN [depth |-> 1, magic |-> TRUE,
      entries |-> 0 :> ptr @@ Leaves(x, size),
      level |-> 0 :> 0 @@ [j \in DOMAIN ptr |-> 1],
      lo |-> 0 :> 0 @@ bd.lo, hi |-> 0 :> MaxBlocks @@ bd.hi]

(* depth 2: index node j is node MaxBlocks + j. *)
Deeper(x, size) ==
  LET leafPtr == Pointers(Leaves(x, size), 0)
      idx == [j \in 1 .. Groups(Len(leafPtr), PerIndex) |-> Group(leafPtr, j, PerIndex)]
      ptr == Pointers(idx, MaxBlocks)
      leafBd == Bounds(leafPtr)
      bd == Bounds(ptr)
      At(f) == [n \in {ptr[j].addr : j \in DOMAIN ptr} |-> f[n - MaxBlocks]]
  IN [depth |-> 2, magic |-> TRUE,
      entries |-> 0 :> ptr @@ Leaves(x, size) @@ At(idx),
      level |-> 0 :> 0 @@ [j \in DOMAIN leafPtr |-> 2] @@ At([j \in DOMAIN ptr |-> 1]),
      lo |-> 0 :> 0 @@ leafBd.lo @@ At(bd.lo),
      hi |-> 0 :> MaxBlocks @@ leafBd.hi @@ At(bd.hi)]

MCTrees ==
  LET lists == {ExtentsFrom(f, 0) : f \in Layouts}
      some == lists \ {<<>>}
  IN {Flat(x) : x \in lists} \cup {Deep(x, size) : x \in some, size \in LeafSizes}
     \cup {Deeper(x, size) : x \in some, size \in LeafSizes}
     \cup {[Flat(<<>>) EXCEPT !.magic = FALSE]}
=============================================================================
