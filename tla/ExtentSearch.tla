----------------------------- MODULE ExtentSearch -----------------------------
(***************************************************************************)
(* The binary search of ext4_ext_binsearch and ext4_ext_binsearch_idx, on  *)
(* the entries behind one extent header.  The pointers l, r and m of the   *)
(* code are the positions of the entries they point to, from 1.            *)
(***************************************************************************)
EXTENDS Extents

CONSTANTS
  Headers,     \* the lists of entries that are searched
  Blocks       \* the block numbers that are looked up

ASSUME SearchAssumption ==
  /\ Blocks \subseteq Nat
  /\ \A h \in Headers :
       /\ Len(h) \in Nat \ {0} /\ DOMAIN h = 1 .. Len(h)
       /\ \A k \in DOMAIN h : h[k].key \in Nat
       /\ Sorted(h)

VARIABLES
  eh,          \* the entries
  block,       \* block_no: the block that is looked for
  l, r,        \* the entries not yet decided about are those from l to r
  m,           \* the entry last compared, 0 before the first
  p_ext        \* the result, 0 before there is one

searchVars == <<eh, block, l, r, m, p_ext>>

SearchInit ==
  /\ eh \in Headers
  /\ block \in Blocks
  /\ l = 2 /\ r = Len(eh)
  /\ m = 0
  /\ p_ext = 0

(* Seeded fault: an entry that begins at the block counted as one after it. *)
After_equal(k) == block <= eh[k].key

(* Entry k begins after the block. *)
After(k) == block < eh[k].key

Middle == l + (r - l) \div 2

(* Seeded fault: the compared entry is not left out of the rest. *)
Compare_keepMiddle ==
  /\ p_ext = 0 /\ l <= r
  /\ m' = Middle
  /\ IF After(m')
     THEN r' = m' - 1 /\ UNCHANGED l
     ELSE l' = m' /\ UNCHANGED r
  /\ UNCHANGED <<eh, block, p_ext>>

Compare ==
  /\ p_ext = 0 /\ l <= r
  /\ m' = Middle
  /\ IF After(m')
     THEN r' = m' - 1 /\ UNCHANGED l
     ELSE l' = m' + 1 /\ UNCHANGED r
  /\ UNCHANGED <<eh, block, p_ext>>

Finish ==
  /\ p_ext = 0 /\ l > r
  /\ p_ext' = l - 1
  /\ UNCHANGED <<eh, block, l, r, m>>

SearchNext == Compare \/ Finish

SearchSpec == SearchInit /\ [][SearchNext]_searchVars /\ WF_searchVars(SearchNext)

-----------------------------------------------------------------------------
(* Type invariant; no entry outside the header is compared. *)
SearchTypeOK ==
  /\ eh \in Headers /\ block \in Blocks
  /\ l \in 2 .. Len(eh) + 1 /\ r \in 1 .. Len(eh)
  /\ m \in 0 .. Len(eh) /\ p_ext \in 0 .. Len(eh)

(* The search ends at the entry that stands for the block. *)
FindsEntry == p_ext # 0 => IsEntryFor(eh, block, p_ext)

(* The search ends, on every header. *)
Terminates == <>(p_ext # 0)
=============================================================================
