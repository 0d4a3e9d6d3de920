--------------------------- MODULE BlockMap_proofs ---------------------------
(***************************************************************************)
(* The block map of files without extents is right, for every block size   *)
(* and every file that i_size_lo can tell the length of: the counters of   *)
(* class blocks follow the layout of ext2 through all three regions.       *)
(*                                                                         *)
(* The argument is the relation between the number of the next block and   *)
(* the counters.  With d the number of blocks mapped through the double    *)
(* indirect block, d = AddrPerBlock * q + r: the buffer holds indirect     *)
(* block q, if r # 0, and ind_index is r; dind_index is q, but already     *)
(* q + 1 when the last entry of that block is next.                        *)
(***************************************************************************)
EXTENDS BlockMap, TLAPS

AtRest == buffer = NONE /\ ind_index = 0 /\ ~dindirect_buf /\ dind_index = 0

InDirect == blk_index <= EXT4_IND_BLOCK /\ AtRest /\ lost = 0

InIndirect ==
  /\ EXT4_IND_BLOCK < blk_index /\ blk_index < EXT4_IND_BLOCK + AddrPerBlock
  /\ buffer = IND /\ ind_index = blk_index - EXT4_IND_BLOCK
  /\ ~dindirect_buf /\ dind_index = 0 /\ lost = 0

(* The double indirect block has not been read yet. *)
BeforeDouble ==
  /\ blk_index = EXT4_IND_BLOCK + AddrPerBlock + lost
  /\ AtRest

(* q full indirect blocks are mapped, and r entries of the next. *)
At(q, r) ==
  /\ blk_index = EXT4_IND_BLOCK + AddrPerBlock + lost + AddrPerBlock * q + r
  /\ ind_index = r
  /\ buffer = IF r = 0 THEN NONE ELSE q
  /\ dind_index = IF r = AddrPerBlock - 1 THEN q + 1 ELSE q

InsideDouble ==
  /\ blk_index < dind_end /\ dindirect_buf
  /\ \E q, r \in 0 .. AddrPerBlock - 1 : At(q, r)

(* Nothing more to map. *)
Over ==
  \/ blk_index = n_blocks
  \/ blk_index >= dind_end /\ (lost = 0 => buffer = NONE /\ ~dindirect_buf)

IInv ==
  /\ TypeOK /\ MapsRight /\ MapsAll
  /\ ~ReadsFail => mapped # "crashed" /\ lost = 0
  /\ mapped = "crashed" \/ InDirect \/ InIndirect \/ BeforeDouble \/ InsideDouble \/ Over

-----------------------------------------------------------------------------
(* Division undoes the way the entries are counted. *)
LEMMA DivMod ==
  ASSUME NEW a \in Nat, a >= 1, NEW q \in Nat, NEW r \in 0 .. a - 1
  PROVE  (a * q + r) \div a = q /\ (a * q + r) % a = r
<1> DEFINE n == a * q + r
           x == n \div a
           y == n % a
<1>1. n \in Nat /\ x \in Int /\ y \in Int /\ 0 <= y /\ y < a /\ n = a * x + y
  OBVIOUS
<1> HIDE DEF x, y
<1>2. a * (x - q) = r - y
  BY <1>1
<1>3. x - q <= 0
  <2>1. SUFFICES ASSUME x - q >= 1 PROVE FALSE
    BY <1>1
  <2>2. a * (x - q) >= a
    BY <1>1, <2>1
  <2> QED BY <1>1, <1>2, <2>2
<1>4. x - q >= 0
  <2>1. SUFFICES ASSUME x - q <= -1 PROVE FALSE
    BY <1>1
  <2>2. a * (x - q) <= a * (-1)
    BY <1>1, <2>1
  <2> QED BY <1>1, <1>2, <2>2
<1>5. x = q
  BY <1>1, <1>3, <1>4
<1>6. y = r
  BY <1>1, <1>5
<1> QED BY <1>5, <1>6 DEF x, y

(* The address of a block of the double indirect region. *)
LEMMA LayoutDouble ==
  ASSUME NEW q \in Nat, NEW r \in 0 .. AddrPerBlock - 1
  PROVE  Layout(EXT4_IND_BLOCK + AddrPerBlock + AddrPerBlock * q + r) = Entry(q, r)
<1> DEFINE d == AddrPerBlock * q + r
           k == EXT4_IND_BLOCK + AddrPerBlock + AddrPerBlock * q + r
<1>1. AddrPerBlock \in Nat /\ AddrPerBlock >= 3 /\ AddrPerBlock * q \in Nat
  BY BlockMapAssumption
<1>2. d \div AddrPerBlock = q /\ d % AddrPerBlock = r
  BY <1>1, DivMod
<1>3. k - EXT4_IND_BLOCK - AddrPerBlock = d /\ ~(k < EXT4_IND_BLOCK) /\ ~(d < 0)
  BY <1>1 DEF EXT4_IND_BLOCK
<1> HIDE DEF d, k
<1>4. Layout(k) = Entry(q, r)
  BY <1>2, <1>3 DEF Layout
<1> QED BY <1>4 DEF k

(* The last entry of the last indirect block ends the region. *)
LEMMA RegionEnd ==
  ASSUME NEW q \in 0 .. AddrPerBlock - 1, NEW r \in 0 .. AddrPerBlock - 1
  PROVE  /\ AddrPerBlock * q \in Nat
         /\ AddrPerBlock * (q + 1) = AddrPerBlock * q + AddrPerBlock
         /\ q = AddrPerBlock - 1 /\ r = AddrPerBlock - 1 =>
              EXT4_IND_BLOCK + AddrPerBlock + AddrPerBlock * q + r = dind_end - 1
  BY BlockMapAssumption DEF dind_end, dind_n_blk, EXT4_IND_BLOCK

NoWrap == \A n \in FileBlocks : n < WrapBlocks

(* A file that i_size_lo can tell the length of. *)
LEMMA SameLength ==
  ASSUME TypeOK, NoWrap
  PROVE  n_block = n_blocks /\ n_blocks \in Nat
<1>1. n_blocks \in Nat /\ WrapBlocks \in Nat /\ n_blocks < WrapBlocks
  BY BlockMapAssumption DEF TypeOK, NoWrap
<1>2. n_blocks % WrapBlocks = n_blocks
  BY <1>1
<1> QED BY <1>1, <1>2 DEF n_block

-----------------------------------------------------------------------------
LEMMA InitIInv == Init => IInv
<1> SUFFICES ASSUME Init PROVE IInv
  OBVIOUS
<1>1. TypeOK
  <2>1. n_blocks \in Nat /\ AddrPerBlock \in Nat /\ AddrPerBlock >= 3
    BY BlockMapAssumption DEF Init
  <2>2. dindirect_buf \in BOOLEAN
    BY DEF Init
  <2>3. nr_blk \in [block : {INODE, IND} \cup 0 .. AddrPerBlock - 1, entry : Nat]
    BY DEF Init, Entry
  <2> QED BY <2>1, <2>2, <2>3 DEF Init, TypeOK
<1>2. InDirect
  BY DEF Init, InDirect, AtRest, EXT4_IND_BLOCK
<1> QED BY <1>1, <1>2 DEF Init, IInv, MapsRight, MapsAll

(* What every step needs of the constants and of the request. *)
LEMMA RequestFacts ==
  ASSUME IInv, NoWrap, Request
  PROVE  /\ AddrPerBlock \in Nat /\ AddrPerBlock >= 3
         /\ AddrPerBlock * AddrPerBlock \in Nat
         /\ AddrPerBlock * AddrPerBlock >= AddrPerBlock
         /\ blk_index \in Nat /\ n_blocks \in Nat /\ lost \in Nat
         /\ blk_index < n_blocks /\ n_block = n_blocks
         /\ blk_index' = blk_index + 1 /\ n_blocks' = n_blocks
         /\ blk_index' \in 0 .. n_blocks'
         /\ mapped # "crashed" /\ dind_end \in Nat
         /\ dind_end = AddrPerBlock * AddrPerBlock + AddrPerBlock + 12
<1>1. AddrPerBlock \in Nat /\ AddrPerBlock >= 3
  BY BlockMapAssumption
<1>2. AddrPerBlock * AddrPerBlock \in Nat /\ AddrPerBlock * AddrPerBlock >= AddrPerBlock
  BY <1>1
<1>3. n_block = n_blocks /\ n_blocks \in Nat
  BY SameLength DEF IInv
<1>4. blk_index \in Nat /\ lost \in Nat
  BY <1>3 DEF IInv, TypeOK
<1> QED BY <1>1, <1>2, <1>3, <1>4 DEF Request, dind_end, dind_n_blk, EXT4_IND_BLOCK

(* A request that brings the host down leaves nothing to show. *)
LEMMA CrashInv ==
  ASSUME IInv, NoWrap, Request, IndirectUnreadable
  PROVE  IInv'
<1>1. TypeOK'
  BY RequestFacts DEF IInv, TypeOK, Request, IndirectUnreadable, bufferVars, dindVars
<1> QED BY <1>1 DEF IInv, IndirectUnreadable, MapsRight, MapsAll

LEMMA DirectInv ==
  ASSUME IInv, NoWrap, MapDirect
  PROVE  IInv'
<1> USE DEF EXT4_IND_BLOCK
<1>0. Request /\ blk_index < 12
  BY DEF MapDirect
<1>1. InDirect
  BY <1>0, RequestFacts DEF IInv, InIndirect, BeforeDouble, InsideDouble, Over, At
<1>2. nr_blk' = Entry(INODE, blk_index) /\ mapped' = "ok" /\ UNCHANGED <<bufferVars, dindVars, lost>>
  BY DEF MapDirect, Succeeds
<1>3. TypeOK'
  BY <1>0, <1>2, RequestFacts DEF IInv, TypeOK, Entry, bufferVars, dindVars
<1>4. MapsRight' /\ MapsAll'
  BY <1>0, <1>1, <1>2, RequestFacts DEF MapsRight, MapsAll, Layout, InDirect
<1>5. InDirect'
  BY <1>0, <1>1, <1>2, RequestFacts DEF InDirect, AtRest, bufferVars, dindVars
<1> QED BY <1>2, <1>3, <1>4, <1>5 DEF IInv, InDirect

LEMMA IndirectInv ==
  ASSUME IInv, NoWrap, MapIndirect
  PROVE  IInv'
<1> USE DEF EXT4_IND_BLOCK
<1>0. Request /\ blk_index >= 12 /\ blk_index < AddrPerBlock + 12
  BY DEF MapIndirect
<1>1. /\ ind_index = blk_index - 12 /\ lost = 0 /\ ~dindirect_buf /\ dind_index = 0
      /\ buffer = IF blk_index = 12 THEN NONE ELSE IND
  BY <1>0, RequestFacts
     DEF IInv, InDirect, AtRest, InIndirect, BeforeDouble, InsideDouble, Over, At
<1>2. CASE IndirectUnreadable
  BY <1>0, <1>2, CrashInv
<1>3. CASE indirect_blk_nr(IND) /\ UNCHANGED <<dindVars, lost>>
  <2> DEFINE end == blk_index = AddrPerBlock + 11
  <2>1. /\ nr_blk' = Entry(IND, ind_index) /\ mapped' = "ok"
        /\ buffer' = IF end THEN NONE ELSE IND
        /\ ind_index' = IF end THEN 0 ELSE ind_index + 1
        /\ dindirect_buf' = dindirect_buf /\ dind_index' = dind_index /\ lost' = lost
    BY <1>0, <1>1, <1>3, RequestFacts DEF indirect_blk_nr, Succeeds, IND, NONE, dindVars
  <2>2. TypeOK'
    BY <1>0, <1>1, <2>1, RequestFacts DEF IInv, TypeOK, Entry
  <2>3. MapsRight' /\ MapsAll'
    BY <1>0, <1>1, <2>1, RequestFacts DEF MapsRight, MapsAll, Layout
  <2>4. InIndirect' \/ BeforeDouble'
    BY <1>0, <1>1, <2>1, RequestFacts DEF InIndirect, BeforeDouble, AtRest
  <2> QED BY <1>1, <2>1, <2>2, <2>3, <2>4 DEF IInv
<1> QED BY <1>2, <1>3 DEF MapIndirect

LEMMA DoubleFirstInv ==
  ASSUME IInv, NoWrap, MapDoubleFirst
  PROVE  IInv'
<1> USE DEF EXT4_IND_BLOCK
<1>0. Request /\ blk_index >= AddrPerBlock + 12 /\ blk_index < dind_end /\ ~dindirect_buf
  BY DEF MapDoubleFirst, InDouble
<1>1. BeforeDouble
  BY <1>0, RequestFacts DEF IInv, InDirect, InIndirect, InsideDouble, Over, At
<1>2. CASE IndirectUnreadable
  BY <1>0, <1>2, CrashInv
<1>3. CASE ReadsFail /\ Fails /\ lost' = lost + 1 /\ UNCHANGED <<bufferVars, dindVars>>
  <2>1. TypeOK'
    BY <1>0, <1>3, RequestFacts DEF IInv, TypeOK, Fails, bufferVars, dindVars
  <2>2. BeforeDouble'
    BY <1>0, <1>1, <1>3, RequestFacts DEF BeforeDouble, AtRest, bufferVars, dindVars
  <2>3. mapped' = "failed" /\ ReadsFail' /\ lost' # 0
    BY <1>0, <1>3 DEF Fails, IInv, TypeOK
  <2> QED BY <2>1, <2>2, <2>3 DEF IInv, MapsRight, MapsAll
<1>4. CASE /\ indirect_blk_nr(0)
           /\ IF blk_index = n_block - 1
              THEN dindirect_buf' = FALSE /\ dind_index' = 0
              ELSE dindirect_buf' = TRUE /\ UNCHANGED dind_index
           /\ UNCHANGED lost
  <2>0. /\ nr_blk' = Entry(0, 0) /\ mapped' = "ok" /\ buffer' = 0 /\ ind_index' = 1
        /\ lost' = lost
    BY <1>0, <1>1, <1>4, RequestFacts DEF indirect_blk_nr, Succeeds, BeforeDouble, AtRest, NONE
  <2>a. dind_index = 0 /\ n_block = n_blocks
    BY <1>0, <1>1, RequestFacts DEF BeforeDouble, AtRest
  <2>b. dind_index' = 0 /\ dindirect_buf' \in BOOLEAN
    BY <1>4, <2>a
  <2>c. blk_index # n_blocks - 1 => dindirect_buf'
    BY <1>4, <2>a
  <2>1. /\ nr_blk' = Entry(0, 0) /\ mapped' = "ok" /\ buffer' = 0 /\ ind_index' = 1
        /\ lost' = lost /\ dind_index' = 0 /\ dindirect_buf' \in BOOLEAN
        /\ blk_index # n_blocks - 1 => dindirect_buf'
    BY <2>0, <2>b, <2>c
  <2>2. TypeOK'
    BY <1>0, <2>1, RequestFacts DEF IInv, TypeOK, Entry
  <2>3. nr_blk' = Layout(blk_index' - 1 - lost')
    <3>1. Layout(EXT4_IND_BLOCK + AddrPerBlock + AddrPerBlock * 0 + 0) = Entry(0, 0)
      BY <1>0, RequestFacts, LayoutDouble
    <3>2. EXT4_IND_BLOCK + AddrPerBlock + AddrPerBlock * 0 + 0 = blk_index' - 1 - lost'
      BY <1>0, <1>1, <2>1, RequestFacts DEF BeforeDouble
    <3> QED BY <2>1, <3>1, <3>2
  <2>4. blk_index' <= 12 + AddrPerBlock + AddrPerBlock * AddrPerBlock
    BY <1>0, RequestFacts
  <2>5. CASE blk_index = n_blocks - 1
    BY <1>0, <2>1, <2>2, <2>3, <2>4, <2>5, RequestFacts DEF IInv, MapsRight, MapsAll, Over
  <2>6. CASE blk_index # n_blocks - 1 /\ blk_index' < dind_end
    <3>1. At(0, 1)'
      BY <1>0, <1>1, <2>1, RequestFacts DEF At, BeforeDouble
    <3>2. InsideDouble'
      <4>1. dind_end' = dind_end /\ 0 \in 0 .. AddrPerBlock - 1 /\ 1 \in 0 .. AddrPerBlock - 1
        BY <1>0, RequestFacts DEF dind_end
      <4>2. \E q, r \in 0 .. AddrPerBlock - 1 : At(q, r)'
        BY <3>1, <4>1
      <4> QED BY <2>1, <2>6, <4>1, <4>2 DEF InsideDouble
    <3> QED BY <2>1, <2>2, <2>3, <2>4, <3>2 DEF IInv, MapsRight, MapsAll
  <2>7. CASE blk_index' >= dind_end
    <3>1. lost' # 0
      BY <1>0, <1>1, <2>1, <2>7, RequestFacts DEF BeforeDouble
    <3>2. Over'
      BY <2>7, <3>1 DEF Over, dind_end
    <3> QED BY <2>1, <2>2, <2>3, <2>4, <3>2 DEF IInv, MapsRight, MapsAll
  <2> QED BY <1>0, <2>5, <2>6, <2>7, RequestFacts
<1> QED BY <1>2, <1>3, <1>4 DEF MapDoubleFirst

LEMMA DoubleNextInv ==
  ASSUME IInv, NoWrap, MapDoubleNext
  PROVE  IInv'
<1> USE DEF EXT4_IND_BLOCK
<1>0. Request /\ blk_index >= AddrPerBlock + 12 /\ blk_index < dind_end /\ dindirect_buf
  BY DEF MapDoubleNext, InDouble
<1>1. InsideDouble
  BY <1>0, RequestFacts DEF IInv, InDirect, InIndirect, BeforeDouble, AtRest, Over
<1>2. CASE IndirectUnreadable
  BY <1>0, <1>2, CrashInv
<1>3. CASE /\ indirect_blk_nr(dind_index)
           /\ IF blk_index \in {dind_end - 1, n_block - 1}
              THEN dindirect_buf' = FALSE /\ dind_index' = 0
              ELSE /\ UNCHANGED dindirect_buf
                   /\ dind_index' = IF ind_index' = AddrPerBlock - 1
                                    THEN dind_index + 1 ELSE dind_index
           /\ UNCHANGED lost
  <2> DEFINE a == AddrPerBlock
             free == blk_index \in {dind_end - 1, n_blocks - 1}
  <2>1. PICK q \in 0 .. a - 1, r \in 0 .. a - 1 : At(q, r)
    BY <1>1 DEF InsideDouble
  <2>2. /\ a * q \in Nat /\ a * (q + 1) = a * q + a
        /\ q = a - 1 /\ r = a - 1 =>
             EXT4_IND_BLOCK + AddrPerBlock + AddrPerBlock * q + r = dind_end - 1
    BY RegionEnd
  <2>3. q \in Nat /\ r \in Nat /\ r <= a - 1 /\ q <= a - 1
    BY <1>0, RequestFacts
  <2>4. /\ nr_blk' = Entry(q, r) /\ mapped' = "ok" /\ lost' = lost
        /\ buffer' = IF r = a - 1 THEN NONE ELSE q
        /\ ind_index' = IF r = a - 1 THEN 0 ELSE r + 1
    <3>1. a < n_blocks - 1 /\ n_block = n_blocks /\ a \in Nat /\ a >= 3 /\ n_blocks \in Nat
      BY <1>0, RequestFacts
    <3>2. lost' = lost
      BY <1>3
    <3>3. CASE r = 0
      <4>1. buffer = NONE /\ dind_index = q /\ ind_index = 0
        BY <2>1, <2>3, <3>1, <3>3 DEF At
      <4>2. /\ nr_blk' = Entry(dind_index, ind_index) /\ mapped' = "ok"
            /\ buffer' = dind_index /\ ind_index' = ind_index + 1
        BY <1>3, <3>1, <4>1 DEF indirect_blk_nr, Succeeds
      <4> QED BY <3>1, <3>2, <3>3, <4>1, <4>2
    <3>4. CASE r # 0
      <4>1. buffer = q /\ buffer # NONE /\ ind_index = r
        BY <2>1, <2>3, <3>4 DEF At, NONE
      <4>2. ind_index + 1 \in {AddrPerBlock, n_block} <=> r = a - 1
        BY <2>3, <3>1, <4>1
      <4> QED BY <1>3, <3>2, <3>4, <4>1, <4>2 DEF indirect_blk_nr, Succeeds
    <3> QED BY <3>3, <3>4
  <2>5. /\ dindirect_buf' \in BOOLEAN
        /\ free => ~dindirect_buf' /\ dind_index' = 0
        /\ ~free => dindirect_buf'
    BY <1>0, <1>3, RequestFacts
  <2>6. ~free => dind_index' = IF r >= a - 2 THEN q + 1 ELSE q
    <3>1. a \in Nat /\ a >= 3 /\ n_block = n_blocks
      BY <1>0, RequestFacts
    <3>2. ~free => dind_index' = IF ind_index' = a - 1 THEN dind_index + 1 ELSE dind_index
      BY <1>3, <3>1
    <3>3. ind_index' = a - 1 <=> r = a - 2
      BY <2>3, <2>4, <3>1
    <3>4. dind_index = IF r = a - 1 THEN q + 1 ELSE q
      BY <2>1 DEF At
    <3> HIDE DEF free
    <3> QED BY <2>3, <3>1, <3>2, <3>3, <3>4
  <2>7. TypeOK'
    <3>1. dind_index' \in 0 .. AddrPerBlock
      BY <1>0, <2>3, <2>5, <2>6, RequestFacts
    <3>2. nr_blk' \in [block : {INODE, IND} \cup 0 .. AddrPerBlock - 1, entry : Nat]
      BY <2>3, <2>4 DEF Entry
    <3>3. buffer' \in {NONE, IND} \cup 0 .. AddrPerBlock - 1 /\ ind_index' \in 0 .. AddrPerBlock - 1
      BY <1>0, <2>3, <2>4, RequestFacts
    <3>4. n_blocks' \in FileBlocks
      BY <1>0, RequestFacts DEF IInv, TypeOK
    <3> QED BY <1>0, <2>4, <2>5, <3>1, <3>2, <3>3, <3>4, RequestFacts DEF TypeOK
  <2>8. nr_blk' = Layout(blk_index' - 1 - lost')
    <3>1. Layout(EXT4_IND_BLOCK + AddrPerBlock + AddrPerBlock * q + r) = Entry(q, r)
      BY <2>3, LayoutDouble
    <3>2. EXT4_IND_BLOCK + AddrPerBlock + AddrPerBlock * q + r = blk_index' - 1 - lost'
      BY <1>0, <2>1, <2>2, <2>3, <2>4, RequestFacts DEF At
    <3> QED BY <2>4, <3>1, <3>2
  <2>9. blk_index' <= 12 + AddrPerBlock + AddrPerBlock * AddrPerBlock /\ dind_end' = dind_end
    BY <1>0, RequestFacts DEF dind_end, dind_n_blk
  <2>10. InsideDouble' \/ Over'
    <3>1. CASE blk_index = n_blocks - 1
      BY <1>0, <3>1, RequestFacts DEF Over
    <3>2. CASE blk_index = dind_end - 1
      <4>1. blk_index' >= dind_end'
        BY <1>0, <2>9, <3>2, RequestFacts
      <4>2. lost = 0 => r = a - 1
        <5>1. SUFFICES ASSUME lost = 0, r < a - 1 PROVE FALSE
          BY <2>3, <1>0, RequestFacts
        <5>2. a * q + r = a * a - 1
          <6>1. blk_index = 12 + a + a * q + r
            BY <1>0, <2>1, <2>2, <2>3, <5>1, RequestFacts DEF At
          <6>2. blk_index = a * a + a + 11 /\ a * a \in Nat /\ a \in Nat
            BY <1>0, <3>2, RequestFacts
          <6> QED BY <2>2, <2>3, <6>1, <6>2
        <5>0. a \in Nat /\ a >= 1 /\ a - 1 \in Nat /\ a - 1 \in 0 .. a - 1
          BY <1>0, RequestFacts
        <5> HIDE DEF a
        <5>3. (a * q + r) % a = r
          BY <2>3, <5>0, DivMod
        <5>4. (a * (a - 1) + (a - 1)) % a = a - 1
          BY <5>0, DivMod
        <5>5. a * (a - 1) + (a - 1) = a * a - 1
          BY <5>0
        <5>6. r = a - 1
          BY <5>2, <5>3, <5>4, <5>5
        <5> QED BY <2>3, <5>1, <5>6
      <4> QED BY <2>4, <2>5, <3>2, <4>1, <4>2 DEF Over
    <3>3. CASE ~free
      <4>1. blk_index' < dind_end'
        BY <1>0, <2>9, <3>3, RequestFacts
      <4>2. CASE r < a - 1
        <5>1. At(q, r + 1)'
          BY <1>0, <2>1, <2>2, <2>3, <2>4, <2>6, <3>3, <4>2, RequestFacts DEF At
        <5>2. q \in 0 .. a - 1 /\ r + 1 \in 0 .. a - 1
          BY <1>0, <2>3, <4>2, RequestFacts
        <5>3. \E qq, rr \in 0 .. a - 1 : At(qq, rr)'
          BY <5>1, <5>2
        <5> QED BY <2>5, <3>3, <4>1, <5>3 DEF InsideDouble
      <4>3. CASE r = a - 1
        <5>1. q < a - 1
          <6>1. SUFFICES ASSUME q = a - 1 PROVE FALSE
            BY <1>0, <2>3, RequestFacts
          <6>2. blk_index = dind_end - 1 + lost
            BY <1>0, <2>1, <2>2, <2>3, <4>3, <6>1, RequestFacts DEF At
          <6> QED BY <1>0, <3>3, <6>2, RequestFacts
        <5>2. At(q + 1, 0)'
          BY <1>0, <2>1, <2>2, <2>3, <2>4, <2>6, <3>3, <4>3, RequestFacts DEF At
        <5>3. q + 1 \in 0 .. a - 1 /\ 0 \in 0 .. a - 1
          BY <1>0, <2>3, <5>1, RequestFacts
        <5>4. \E qq, rr \in 0 .. a - 1 : At(qq, rr)'
          BY <5>2, <5>3
        <5> QED BY <2>5, <3>3, <4>1, <5>4 DEF InsideDouble
      <4> QED BY <1>0, <2>3, <4>2, <4>3, RequestFacts
    <3> QED BY <3>1, <3>2, <3>3
  <2> QED BY <2>4, <2>7, <2>8, <2>9, <2>10 DEF IInv, MapsRight, MapsAll
<1> QED BY <1>2, <1>3 DEF MapDoubleNext

LEMMA BeyondInv ==
  ASSUME IInv, NoWrap, MapBeyond
  PROVE  IInv'
<1> USE DEF EXT4_IND_BLOCK
<1>0. Request /\ blk_index >= dind_end
  BY DEF MapBeyond
<1>1. mapped' = "failed" /\ nr_blk' = nr_blk /\ UNCHANGED <<bufferVars, dindVars, lost>>
  BY DEF MapBeyond, Fails
<1>2. TypeOK'
  BY <1>0, <1>1, RequestFacts DEF IInv, TypeOK, bufferVars, dindVars
<1>3. lost = 0 => buffer = NONE /\ ~dindirect_buf
  BY <1>0, RequestFacts DEF IInv, InDirect, InIndirect, BeforeDouble, AtRest, InsideDouble, Over
<1>4. Over'
  BY <1>0, <1>1, <1>3, RequestFacts DEF Over, bufferVars, dindVars, dind_end, dind_n_blk
<1>5. MapsAll'
  BY <1>0, <1>1, RequestFacts DEF MapsAll
<1> QED BY <1>1, <1>2, <1>4, <1>5 DEF IInv, MapsRight

LEMMA StutterInv ==
  ASSUME IInv, UNCHANGED vars
  PROVE  IInv'
<1> USE DEF vars, bufferVars, dindVars
<1>1. TypeOK' /\ MapsRight' /\ MapsAll'
  BY DEF IInv, TypeOK, MapsRight, MapsAll
<1>2. (~ReadsFail => mapped # "crashed" /\ lost = 0)'
  BY DEF IInv
<1>3. CASE InsideDouble
  BY <1>1, <1>2, <1>3 DEF IInv, InsideDouble, At, dind_end
<1>4. CASE ~InsideDouble
  BY <1>1, <1>2, <1>4 DEF IInv, InDirect, InIndirect, BeforeDouble, AtRest, Over, dind_end
<1> QED BY <1>3, <1>4

(* The counters keep step with the number of the next block, whatever      *)
(* block size the file system has and whatever sectors are unreadable.     *)
THEOREM InductiveInvariant ==
  ASSUME NoWrap
  PROVE  Spec => []IInv
<1>1. IInv /\ [Next]_vars => IInv'
  BY DirectInv, IndirectInv, DoubleFirstInv, DoubleNextInv, BeyondInv, StutterInv
     DEF Next, get_ext2_non_extent_blk, Done
<1> QED BY <1>1, InitIInv, PTL DEF Spec

(* No entry outside an indirect block is ever used. *)
THEOREM TypeCorrect == ASSUME NoWrap PROVE Spec => []TypeOK
<1>1. IInv => TypeOK
  BY DEF IInv
<1> QED BY <1>1, InductiveInvariant, PTL

(* Files that i_size_lo can tell the length of are mapped as ext2 lays     *)
(* them out, by as many blocks late as reads of the double indirect block  *)
(* have failed.                                                            *)
THEOREM RightBlocks == ASSUME NoWrap PROVE Spec => []MapsRight
<1>1. IInv => MapsRight
  BY DEF IInv
<1> QED BY <1>1, InductiveInvariant, PTL

(* On a disk without bad sectors exactly the blocks of the first three     *)
(* regions are mapped.                                                     *)
THEOREM AllBlocks == ASSUME NoWrap PROVE Spec => []MapsAll
<1>1. IInv => MapsAll
  BY DEF IInv
<1> QED BY <1>1, InductiveInvariant, PTL

(* No indirect block is held that the next request does not use. *)
THEOREM NothingHeld == ASSUME NoWrap PROVE Spec => []HoldsWhatItNeeds
<1>1. IInv => HoldsWhatItNeeds
  <2> USE DEF EXT4_IND_BLOCK
  <2>1. SUFFICES ASSUME IInv, mapped # "crashed", blk_index < n_blocks, lost = 0
                 PROVE  /\ buffer # NONE => /\ blk_index < dind_end
                                            /\ Entry(buffer, ind_index) = Layout(blk_index)
                        /\ dindirect_buf => blk_index \in 12 + AddrPerBlock .. dind_end - 1
    BY DEF HoldsWhatItNeeds
  <2>2. /\ AddrPerBlock \in Nat /\ AddrPerBlock >= 3 /\ blk_index \in Nat
        /\ dind_end \in Nat /\ dind_end > 12 + AddrPerBlock
    <3>1. n_blocks \in Nat
      BY <2>1, BlockMapAssumption DEF IInv, TypeOK
    <3> QED BY <2>1, <3>1, BlockMapAssumption DEF IInv, TypeOK, dind_end, dind_n_blk
  <2>3. CASE InDirect \/ BeforeDouble
    BY <2>1, <2>3 DEF InDirect, BeforeDouble, AtRest
  <2>4. CASE InIndirect
    BY <2>2, <2>4 DEF InIndirect, Layout
  <2>5. CASE InsideDouble
    <3>1. PICK q \in 0 .. AddrPerBlock - 1, r \in 0 .. AddrPerBlock - 1 : At(q, r)
      BY <2>5 DEF InsideDouble
    <3>2. q \in Nat /\ AddrPerBlock * q \in Nat /\ r \in Nat
      BY <2>2
    <3>3. Layout(EXT4_IND_BLOCK + AddrPerBlock + AddrPerBlock * q + r) = Entry(q, r)
      BY <3>2, LayoutDouble
    <3>4. blk_index = EXT4_IND_BLOCK + AddrPerBlock + AddrPerBlock * q + r /\ ind_index = r
      BY <2>1, <2>2, <3>1, <3>2 DEF At
    <3>5. buffer # NONE => buffer = q
      BY <3>1 DEF At
    <3>6. blk_index < dind_end /\ blk_index >= 12 + AddrPerBlock
      BY <2>2, <2>5, <3>2, <3>4 DEF InsideDouble
    <3> QED BY <2>2, <3>3, <3>4, <3>5, <3>6
  <2>6. CASE Over
    BY <2>1, <2>6, <2>2 DEF Over
  <2> QED BY <2>1, <2>3, <2>4, <2>5, <2>6 DEF IInv
<1> QED BY <1>1, InductiveInvariant, PTL
=============================================================================
