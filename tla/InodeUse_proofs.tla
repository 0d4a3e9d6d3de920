--------------------------- MODULE InodeUse_proofs ---------------------------
(***************************************************************************)
(* Proofs about the inode-table cache and its users, for any number of     *)
(* block groups, any number of inodes per group and any queue limit.       *)
(*                                                                         *)
(* The safety properties of InodeUse are not inductive: that a table is    *)
(* not freed under a reader depends on who may be where in get_ext4_inode  *)
(* when.  IInv adds that.                                                  *)
(***************************************************************************)
EXTENDS InodeUse, TLAPS

(* Thread t has missed the cache and not yet published the table it reads. *)
Filling(t) == call[t].pc \in {"evict", "read", "publish"}

(* What get_ext4_inode guarantees to a thread at each of its steps. *)
CallInv ==
  \A t \in Threads :
    /\ inode_ptr[t] # NULL => call[t].pc = "idle"
    /\ Filling(t) => inodes_table_cache[call[t].group] = NULL
    /\ call[t].pc \in {"read", "publish"} => Len(group_desc_queue) < MaxQueueLen
    /\ call[t].pc = "publish" <=> call[t].buffer # NULL

(* An inode pointer in use points into a table that is still cached. *)
PointsIntoCache ==
  \A t \in Threads : inode_ptr[t] # NULL =>
    \E g \in Groups : inodes_table_cache[g] = inode_ptr[t]

(* What the callers guarantee: the host's thread is outside get_ext4_inode *)
(* while the copy thread lives, and the table of inode_num stays cached.   *)
MainInv ==
  /\ purpose = "none" => call[Main].pc = "idle" /\ inode_ptr[Main] = NULL
  /\ purpose \in {"copy", "wait"} => call[Main].pc = "idle"
  /\ purpose = "wait" => inode_ptr[Main] = NULL
  /\ purpose = "file" /\ call[Main].pc # "idle" =>
       inode_num \in Inodes /\ call[Main].group = GroupOf(inode_num)
  /\ purpose \in {"file", "copy"} /\ inode_ptr[Main] # NULL =>
       /\ inode_num \in Inodes
       /\ inode_ptr[Main] = inodes_table_cache[GroupOf(inode_num)]

CopierInv ==
  /\ copier # "none" => purpose \in {"copy", "wait"}
  /\ copier \in {"start", "lookup", "copying"} =>
       inode_num \in Inodes /\ inodes_table_cache[GroupOf(inode_num)] # NULL
  /\ copier # "lookup" => call[Copier].pc = "idle"
  /\ copier = "lookup" =>
       \/ call[Copier].pc = "idle"
       \/ call[Copier].pc = "lookup" /\ call[Copier].group = GroupOf(inode_num)
  /\ copier \in {"none", "start", "ended"} => inode_ptr[Copier] = NULL

(* The inductive invariant. *)
IInv == TypeOK /\ QueueMatchesCache /\ NoLeak /\ CallInv /\ PointsIntoCache
          /\ MainInv /\ CopierInv

-----------------------------------------------------------------------------
(* The inode number picks a block group that exists: get_ext4_inode and    *)
(* get_inode_from_cache stay inside the array of cache slots.              *)
LEMMA GroupOfType ==
  ASSUME NEW n \in Inodes
  PROVE  GroupOf(n) \in Groups
<1>1. /\ GroupCount \in Nat \ {0} /\ InodesPerGroup \in Nat \ {0}
      /\ n \in Int /\ 1 <= n /\ n <= GroupCount * InodesPerGroup
  BY CacheAssumption DEF Inodes
<1> DEFINE q == (n - 1) \div InodesPerGroup
           r == (n - 1) % InodesPerGroup
<1>2. /\ q \in Int /\ r \in Int /\ 0 <= r /\ r < InodesPerGroup
      /\ n - 1 = InodesPerGroup * q + r
  BY <1>1
<1> HIDE DEF q, r
<1>3. q >= 0
  <2>1. SUFFICES ASSUME q <= -1 PROVE FALSE
    BY <1>2
  <2>2. InodesPerGroup * q <= InodesPerGroup * (-1)
    BY <1>1, <1>2, <2>1
  <2> QED BY <1>1, <1>2, <2>2
<1>4. q < GroupCount
  <2>1. SUFFICES ASSUME q >= GroupCount PROVE FALSE
    BY <1>1, <1>2
  <2>2. InodesPerGroup * q >= InodesPerGroup * GroupCount
    BY <1>1, <1>2, <2>1
  <2> QED BY <1>1, <1>2, <2>2
<1> QED BY <1>1, <1>2, <1>3, <1>4 DEF GroupOf, Groups, q

(* What the queue holds after the oldest group is popped ... *)
LEMMA PopQueue ==
  ASSUME NEW S, NEW q \in Seq(S), Len(q) > 0,
         \A i, j \in 1 .. Len(q) : q[i] = q[j] => i = j
  PROVE  /\ Tail(q) \in Seq(S) /\ Len(Tail(q)) = Len(q) - 1
         /\ \A i, j \in 1 .. Len(Tail(q)) : Tail(q)[i] = Tail(q)[j] => i = j
         /\ {Tail(q)[i] : i \in 1 .. Len(Tail(q))}
              = {q[i] : i \in 1 .. Len(q)} \ {Head(q)}
<1>1. /\ Tail(q) \in Seq(S) /\ Len(Tail(q)) = Len(q) - 1 /\ Len(q) \in Nat
      /\ \A i \in 1 .. Len(Tail(q)) : Tail(q)[i] = q[i + 1]
      /\ Head(q) = q[1]
  OBVIOUS
<1>2. \A i, j \in 1 .. Len(Tail(q)) : Tail(q)[i] = Tail(q)[j] => i = j
  <2>1. TAKE i, j \in 1 .. Len(Tail(q))
  <2>2. i + 1 \in 1 .. Len(q) /\ j + 1 \in 1 .. Len(q)
    BY <1>1
  <2> QED BY <1>1, <2>2
<1>3. ASSUME NEW x PROVE x \in {Tail(q)[i] : i \in 1 .. Len(Tail(q))}
        <=> x \in {q[i] : i \in 1 .. Len(q)} \ {Head(q)}
  <2>1. ASSUME x \in {Tail(q)[i] : i \in 1 .. Len(Tail(q))}
        PROVE  x \in {q[i] : i \in 1 .. Len(q)} \ {Head(q)}
    <3>1. PICK i \in 1 .. Len(Tail(q)) : x = Tail(q)[i]
      BY <2>1
    <3>2. i + 1 \in 1 .. Len(q) /\ 1 \in 1 .. Len(q) /\ i + 1 # 1 /\ x = q[i + 1]
      BY <1>1, <3>1
    <3> QED BY <1>1, <3>2
  <2>2. ASSUME x \in {q[i] : i \in 1 .. Len(q)} \ {Head(q)}
        PROVE  x \in {Tail(q)[i] : i \in 1 .. Len(Tail(q))}
    <3>1. PICK i \in 1 .. Len(q) : x = q[i]
      BY <2>2
    <3>2. i # 1
      BY <1>1, <2>2, <3>1
    <3>3. i - 1 \in 1 .. Len(Tail(q)) /\ Tail(q)[i - 1] = x
      BY <1>1, <3>1, <3>2
    <3> QED BY <3>3
  <2> QED BY <2>1, <2>2
<1> QED BY <1>1, <1>2, <1>3

(* ... and after a new group is pushed. *)
LEMMA PushQueue ==
  ASSUME NEW S, NEW q \in Seq(S), NEW x \in S,
         \A i, j \in 1 .. Len(q) : q[i] = q[j] => i = j,
         x \notin {q[i] : i \in 1 .. Len(q)}
  PROVE  /\ Append(q, x) \in Seq(S) /\ Len(Append(q, x)) = Len(q) + 1
         /\ \A i, j \in 1 .. Len(Append(q, x)) :
              Append(q, x)[i] = Append(q, x)[j] => i = j
         /\ {Append(q, x)[i] : i \in 1 .. Len(Append(q, x))}
              = {q[i] : i \in 1 .. Len(q)} \cup {x}
<1> DEFINE a == Append(q, x)
<1>1. /\ a \in Seq(S) /\ Len(a) = Len(q) + 1 /\ Len(q) \in Nat
      /\ \A i \in 1 .. Len(q) : a[i] = q[i]
      /\ a[Len(q) + 1] = x
  OBVIOUS
<1>2. \A i \in 1 .. Len(a) : i \in 1 .. Len(q) \/ i = Len(q) + 1
  BY <1>1
<1>3. \A i \in 1 .. Len(q) : i \in 1 .. Len(a)
  BY <1>1
<1>4. Len(q) + 1 \in 1 .. Len(a)
  BY <1>1
<1> HIDE DEF a
<1>5. \A i, j \in 1 .. Len(a) : a[i] = a[j] => i = j
  <2>1. TAKE i, j \in 1 .. Len(a)
  <2> QED BY <1>1, <1>2, <2>1
<1>6. {a[i] : i \in 1 .. Len(a)} = {q[i] : i \in 1 .. Len(q)} \cup {x}
  BY <1>1, <1>2, <1>3, <1>4
<1> QED BY <1>1, <1>5, <1>6 DEF a

-----------------------------------------------------------------------------
LEMMA InitIInv == Init => IInv
<1> SUFFICES ASSUME Init PROVE IInv
  OBVIOUS
<1> USE DEF Init, CacheInit
<1>1. Main \in Threads /\ Copier \in Threads
  BY ThreadsAssumption
<1>2. TypeOK
  <2>1. 0 \in Groups
    BY CacheAssumption DEF Groups
  <2> QED BY <2>1, CacheAssumption DEF TypeOK, CacheTypeOK, Calls, Idle
<1>3. CachedGroups = {}
  BY DEF CachedGroups
<1>4. QueueMatchesCache
  BY <1>3, CacheAssumption DEF QueueMatchesCache
<1>5. NoLeak
  BY <1>3 DEF NoLeak, Idle
<1>6. CallInv /\ PointsIntoCache
  BY DEF CallInv, PointsIntoCache, Filling, Idle
<1>7. MainInv /\ CopierInv
  BY <1>1, ThreadsAssumption DEF MainInv, CopierInv, Idle
<1> QED BY <1>2, <1>4, <1>5, <1>6, <1>7 DEF IInv

(* A step that leaves the cache alone, moves one thread to a place of      *)
(* get_ext4_inode where it holds no buffer, and leaves it with a pointer   *)
(* into the cache or with none, preserves everything said of the cache.    *)
LEMMA QuietStep ==
  ASSUME TypeOK, QueueMatchesCache, NoLeak, CallInv, PointsIntoCache,
         UNCHANGED <<inodes_table_cache, group_desc_queue, allocated>>,
         NEW t \in Threads, NEW c \in Calls, NEW p \in Buffers \cup {NULL},
         call' = [call EXCEPT ![t] = c], inode_ptr' = [inode_ptr EXCEPT ![t] = p],
         call[t].pc # "publish", c.pc \in {"idle", "lookup"}, c.buffer = NULL,
         p # NULL => /\ c.pc = "idle"
                     /\ \E g \in Groups : inodes_table_cache[g] = p
  PROVE  CacheTypeOK' /\ QueueMatchesCache' /\ NoLeak' /\ CallInv' /\ PointsIntoCache'
<1> USE DEF TypeOK, CacheTypeOK
<1>1. CacheTypeOK'
  OBVIOUS
<1>2. CachedGroups' = CachedGroups
  BY DEF CachedGroups
<1>3. QueueMatchesCache'
  BY <1>2 DEF QueueMatchesCache
<1>4. \A u \in Threads : /\ u # t => call'[u] = call[u] /\ inode_ptr'[u] = inode_ptr[u]
                         /\ call'[t] = c /\ inode_ptr'[t] = p
  OBVIOUS
<1>5. \A u \in Threads : call'[u].pc = "publish" <=> call[u].pc = "publish"
  BY <1>4
<1>6. NoLeak'
  <2>1. {u \in Threads : call'[u].pc = "publish"} = {u \in Threads : call[u].pc = "publish"}
    BY <1>5
  <2>2. \A u \in Threads : call'[u].pc = "publish" => call'[u] = call[u]
    BY <1>4, <1>5
  <2>3. {call'[u].buffer : u \in {v \in Threads : call'[v].pc = "publish"}}
          = {call[u].buffer : u \in {v \in Threads : call[v].pc = "publish"}}
    BY <2>1, <2>2
  <2>4. {inodes_table_cache'[g] : g \in CachedGroups'}
          = {inodes_table_cache[g] : g \in CachedGroups}
    BY <1>2
  <2> QED BY <1>2, <2>2, <1>5, <2>3, <2>4 DEF NoLeak
<1>7. CallInv'
  BY <1>4 DEF CallInv, Filling
<1>8. PointsIntoCache'
  BY <1>4 DEF PointsIntoCache
<1> QED BY <1>1, <1>3, <1>6, <1>7, <1>8

-----------------------------------------------------------------------------
(* The steps inside get_ext4_inode *)

(* While a thread is filling the cache it is the host's thread, and nobody *)
(* holds an inode pointer.                                                 *)
LEMMA FillingAlone ==
  ASSUME IInv, NEW t \in Threads, Filling(t)
  PROVE  /\ t = Main /\ copier = "none"
         /\ \A u \in Threads : inode_ptr[u] = NULL
         /\ \A u \in Threads \ {t} : call[u].pc = "idle"
<1>1. t = Main
  BY ThreadsAssumption DEF IInv, CopierInv, Filling
<1>2. copier = "none"
  BY <1>1 DEF IInv, CopierInv, MainInv, Filling
<1> QED BY <1>1, <1>2, ThreadsAssumption DEF IInv, CopierInv, CallInv, Filling

LEMMA LookupInv ==
  ASSUME IInv, NEW t \in Threads, Lookup(t), UNCHANGED useVars
  PROVE  IInv'
<1> USE DEF IInv
<1> DEFINE g == call[t].group
<1>1. /\ g \in Groups /\ call[t].pc = "lookup" /\ call[t] \in Calls
      /\ inode_ptr[t] = NULL /\ call[t].buffer = NULL
  BY DEF TypeOK, CacheTypeOK, CallInv, Calls, Lookup
<1>2. CASE inodes_table_cache[g] # NULL
  <2> DEFINE p == inodes_table_cache[g]
  <2>1. /\ call' = [call EXCEPT ![t] = Idle]
        /\ inode_ptr' = [inode_ptr EXCEPT ![t] = p]
        /\ p \in Buffers
        /\ UNCHANGED <<inodes_table_cache, group_desc_queue, allocated>>
    BY <1>1, <1>2 DEF Lookup, ReturnPtr, TypeOK, CacheTypeOK
  <2>2. Idle \in Calls /\ Idle.pc = "idle" /\ Idle.buffer = NULL
    BY CacheAssumption DEF Idle, Calls, Groups
  <2>3. CacheTypeOK' /\ QueueMatchesCache' /\ NoLeak' /\ CallInv' /\ PointsIntoCache'
    BY <1>1, <2>1, <2>2, QuietStep
  <2>4. MainInv'
    BY <1>1, <2>1, <2>2, ThreadsAssumption DEF MainInv, CopierInv, useVars, TypeOK, CacheTypeOK
  <2>5. CopierInv'
    BY <1>1, <2>1, <2>2, ThreadsAssumption DEF MainInv, CopierInv, useVars, TypeOK, CacheTypeOK
  <2> QED BY <2>3, <2>4, <2>5 DEF TypeOK, useVars
<1>3. CASE inodes_table_cache[g] = NULL
  <2>1. t = Main /\ copier = "none"
    BY <1>1, <1>3, ThreadsAssumption DEF CopierInv, MainInv
  <2>2. /\ call' = [call EXCEPT ![t].pc = "evict"]
        /\ UNCHANGED <<inodes_table_cache, group_desc_queue, allocated, inode_ptr>>
    BY <1>1, <1>3 DEF Lookup
  <2>3. \A u \in Threads : /\ u # t => call'[u] = call[u]
                           /\ call'[u].group = call[u].group
                           /\ call'[u].buffer = call[u].buffer
                           /\ call'[t].pc = "evict"
    BY <2>2 DEF TypeOK, CacheTypeOK, Calls
  <2>4. CacheTypeOK'
    BY <1>1, <2>2 DEF TypeOK, CacheTypeOK, Calls
  <2>5. CachedGroups' = CachedGroups
    BY <2>2 DEF CachedGroups
  <2>6. QueueMatchesCache'
    BY <2>2, <2>5 DEF QueueMatchesCache
  <2>7. NoLeak'
    <3>1. {u \in Threads : call'[u].pc = "publish"} = {u \in Threads : call[u].pc = "publish"}
      BY <1>1, <2>3
    <3>2. {call'[u].buffer : u \in {v \in Threads : call'[v].pc = "publish"}}
            = {call[u].buffer : u \in {v \in Threads : call[v].pc = "publish"}}
      BY <2>3, <3>1
    <3>3. {inodes_table_cache'[h] : h \in CachedGroups'}
            = {inodes_table_cache[h] : h \in CachedGroups}
      BY <2>2, <2>5
    <3> QED BY <1>1, <2>2, <2>3, <2>5, <3>2, <3>3 DEF NoLeak
  <2>8. CallInv'
    BY <1>1, <1>3, <2>2, <2>3 DEF CallInv, Filling
  <2>9. PointsIntoCache'
    BY <2>2 DEF PointsIntoCache
  <2>10. MainInv' /\ CopierInv'
    BY <1>1, <2>1, <2>2, <2>3, ThreadsAssumption DEF MainInv, CopierInv, useVars
  <2> QED BY <2>4, <2>6, <2>7, <2>8, <2>9, <2>10 DEF TypeOK, useVars
<1> QED BY <1>2, <1>3

LEMMA EvictInv ==
  ASSUME IInv, NEW t \in Threads, Evict(t), UNCHANGED useVars
  PROVE  IInv'
<1> USE DEF IInv
<1>1. /\ call[t].pc = "evict" /\ call[t].group \in Groups /\ call[t].buffer = NULL
      /\ inodes_table_cache[call[t].group] = NULL /\ Filling(t)
  BY DEF Evict, TypeOK, CacheTypeOK, CallInv, Calls, Filling
<1>2. /\ t = Main /\ copier = "none"
      /\ \A u \in Threads : inode_ptr[u] = NULL
      /\ \A u \in Threads \ {t} : call[u].pc = "idle"
  BY <1>1, FillingAlone
<1>3. /\ call' = [call EXCEPT ![t].pc = "read"] /\ inode_ptr' = inode_ptr
      /\ \A u \in Threads : /\ u # t => call'[u] = call[u]
                             /\ call'[u].group = call[u].group
                             /\ call'[u].buffer = call[u].buffer
                             /\ call'[t].pc = "read"
  BY DEF Evict, TypeOK, CacheTypeOK, Calls
<1>4. MainInv' /\ CopierInv'
  BY <1>1, <1>2, <1>3, ThreadsAssumption DEF MainInv, CopierInv, useVars
<1>5. PointsIntoCache'
  BY <1>2, <1>3 DEF PointsIntoCache
<1>6. /\ {v \in Threads : call[v].pc = "publish"} = {}
      /\ {v \in Threads : call'[v].pc = "publish"} = {}
  BY <1>1, <1>2, <1>3
<1>7. CASE Len(group_desc_queue) >= MaxQueueLen
  <2> DEFINE index == Head(group_desc_queue)
  <2>1. /\ allocated' = allocated \ {inodes_table_cache[index]}
        /\ inodes_table_cache' = [inodes_table_cache EXCEPT ![index] = NULL]
        /\ group_desc_queue' = Tail(group_desc_queue)
    BY <1>7 DEF Evict
  <2>2. /\ group_desc_queue \in Seq(Groups) /\ Len(group_desc_queue) > 0
        /\ index = group_desc_queue[1] /\ index \in Groups
        /\ 1 \in 1 .. Len(group_desc_queue)
    BY <1>7, CacheAssumption DEF TypeOK, CacheTypeOK
  <2>3. index \in CachedGroups
    BY <2>2 DEF QueueMatchesCache
  <2>4. /\ Tail(group_desc_queue) \in Seq(Groups)
        /\ Len(Tail(group_desc_queue)) = Len(group_desc_queue) - 1
        /\ \A i, j \in 1 .. Len(Tail(group_desc_queue)) :
             Tail(group_desc_queue)[i] = Tail(group_desc_queue)[j] => i = j
        /\ {Tail(group_desc_queue)[i] : i \in 1 .. Len(Tail(group_desc_queue))}
             = {group_desc_queue[i] : i \in 1 .. Len(group_desc_queue)} \ {index}
    BY <2>2, PopQueue DEF QueueMatchesCache
  <2>5. CachedGroups' = CachedGroups \ {index}
    BY <2>1, <2>2 DEF CachedGroups, TypeOK, CacheTypeOK
  <2>6. CacheTypeOK'
    <3>1. call' \in [Threads -> Calls] /\ inode_ptr' \in [Threads -> Buffers \cup {NULL}]
      BY <1>3 DEF TypeOK, CacheTypeOK, Calls
    <3>2. /\ inodes_table_cache' \in [Groups -> Buffers \cup {NULL}]
          /\ allocated' \in SUBSET Buffers
          /\ group_desc_queue' \in Seq(Groups)
      BY <2>1, <2>2, <2>4 DEF TypeOK, CacheTypeOK
    <3> QED BY <3>1, <3>2 DEF CacheTypeOK
  <2>7. Len(group_desc_queue') < MaxQueueLen
    BY <2>1, <2>2, <2>4, CacheAssumption DEF QueueMatchesCache
  <2>8. QueueMatchesCache'
    <3>1. {group_desc_queue[i] : i \in 1 .. Len(group_desc_queue)} = CachedGroups
      BY DEF QueueMatchesCache
    <3>2. {group_desc_queue'[i] : i \in 1 .. Len(group_desc_queue')} = CachedGroups'
      BY <2>1, <2>4, <2>5, <3>1
    <3>3. Len(group_desc_queue') <= MaxQueueLen
      BY <2>1, <2>2, <2>4, <2>7, CacheAssumption
    <3> QED BY <2>1, <2>4, <3>2, <3>3 DEF QueueMatchesCache
  <2>9. NoLeak'
    <3>1. \A h \in CachedGroups' : inodes_table_cache'[h] = inodes_table_cache[h]
                                  /\ h \in CachedGroups
      BY <2>1, <2>2, <2>5 DEF CachedGroups, TypeOK, CacheTypeOK
    <3>2. allocated = {inodes_table_cache[h] : h \in CachedGroups}
      BY <1>6 DEF NoLeak
    <3>3. \A h, k \in CachedGroups : inodes_table_cache[h] = inodes_table_cache[k] => h = k
      BY DEF NoLeak
    <3>4. allocated' = {inodes_table_cache'[h] : h \in CachedGroups'}
      BY <2>1, <2>3, <2>5, <3>1, <3>2, <3>3
    <3>5. \A h, k \in CachedGroups' :
            inodes_table_cache'[h] = inodes_table_cache'[k] => h = k
      BY <3>1, <3>3
    <3> QED BY <1>6, <3>4, <3>5 DEF NoLeak
  <2>10. CallInv'
    <3>1. inodes_table_cache'[call'[t].group] = NULL
      BY <1>1, <1>3, <2>1, <2>2 DEF TypeOK, CacheTypeOK
    <3> QED BY <1>1, <1>2, <1>3, <2>7, <3>1 DEF CallInv, Filling
  <2> QED BY <1>4, <1>5, <2>6, <2>8, <2>9, <2>10 DEF TypeOK, useVars
<1>8. CASE ~(Len(group_desc_queue) >= MaxQueueLen)
  <2>1. UNCHANGED <<inodes_table_cache, group_desc_queue, allocated>>
    BY <1>8 DEF Evict
  <2>2. Len(group_desc_queue) < MaxQueueLen
    BY <1>8, CacheAssumption DEF TypeOK, CacheTypeOK
  <2>3. CacheTypeOK'
    BY <1>3, <2>1 DEF TypeOK, CacheTypeOK, Calls
  <2>4. CachedGroups' = CachedGroups
    BY <2>1 DEF CachedGroups
  <2>5. QueueMatchesCache'
    BY <2>1, <2>4 DEF QueueMatchesCache
  <2>6. NoLeak'
    <3>1. {inodes_table_cache'[h] : h \in CachedGroups'}
            = {inodes_table_cache[h] : h \in CachedGroups}
      BY <2>1, <2>4
    <3> QED BY <1>6, <2>1, <2>4, <3>1 DEF NoLeak
  <2>7. CallInv'
    BY <1>1, <1>2, <1>3, <2>1, <2>2 DEF CallInv, Filling
  <2> QED BY <1>4, <1>5, <2>3, <2>5, <2>6, <2>7 DEF TypeOK, useVars
<1> QED BY <1>7, <1>8

LEMMA ReadTableInv ==
  ASSUME IInv, NEW t \in Threads, ReadTable(t), UNCHANGED useVars
  PROVE  IInv'
<1> USE DEF IInv
<1>1. /\ call[t].pc = "read" /\ call[t].group \in Groups /\ call[t] \in Calls
      /\ inodes_table_cache[call[t].group] = NULL /\ Filling(t)
      /\ Len(group_desc_queue) < MaxQueueLen
  BY DEF ReadTable, TypeOK, CacheTypeOK, CallInv, Calls, Filling
<1>2. /\ t = Main /\ copier = "none"
      /\ \A u \in Threads : inode_ptr[u] = NULL
      /\ \A u \in Threads \ {t} : call[u].pc = "idle"
  BY <1>1, FillingAlone
<1>3. PICK b \in Buffers \ allocated :
        /\ allocated' = allocated \cup {b}
        /\ call' = [call EXCEPT ![t].pc = "publish", ![t].buffer = b]
  BY DEF ReadTable
<1>4. UNCHANGED <<inodes_table_cache, group_desc_queue, inode_ptr>>
  BY DEF ReadTable
<1>5. \A u \in Threads : /\ u # t => call'[u] = call[u]
                         /\ call'[u].group = call[u].group
                         /\ call'[t].pc = "publish"
                         /\ call'[t].buffer = b
  BY <1>3 DEF TypeOK, CacheTypeOK, Calls
<1>6. CacheTypeOK'
  <2>1. call' \in [Threads -> Calls]
    BY <1>3 DEF TypeOK, CacheTypeOK, Calls
  <2> QED BY <1>3, <1>4, <2>1 DEF TypeOK, CacheTypeOK
<1>7. CachedGroups' = CachedGroups
  BY <1>4 DEF CachedGroups
<1>8. QueueMatchesCache'
  BY <1>4, <1>7 DEF QueueMatchesCache
<1>9. NoLeak'
  <2>1. /\ {v \in Threads : call[v].pc = "publish"} = {}
        /\ {v \in Threads : call'[v].pc = "publish"} = {t}
    BY <1>1, <1>2, <1>5
  <2>2. {call'[u].buffer : u \in {v \in Threads : call'[v].pc = "publish"}} = {b}
    BY <1>5, <2>1
  <2>3. allocated = {inodes_table_cache[h] : h \in CachedGroups}
    BY <2>1 DEF NoLeak
  <2>4. allocated' = {inodes_table_cache'[h] : h \in CachedGroups'} \cup {b}
    BY <1>3, <1>4, <1>7, <2>3
  <2>5. \A h \in CachedGroups : inodes_table_cache[h] # b
    BY <1>3, <2>3
  <2>6. \A u \in Threads : call'[u].pc = "publish" => u = t
    BY <2>1
  <2>7. \A u \in Threads : call'[u].pc = "publish" =>
         \A h \in CachedGroups' : inodes_table_cache'[h] # call'[u].buffer
    BY <1>4, <1>5, <1>7, <2>5, <2>6
  <2>8. \A h, k \in CachedGroups' : inodes_table_cache'[h] = inodes_table_cache'[k] => h = k
    BY <1>4, <1>7 DEF NoLeak
  <2> QED BY <2>2, <2>4, <2>7, <2>8 DEF NoLeak
<1>10. CallInv'
  <2>1. b # NULL
    BY CacheAssumption
  <2> QED BY <1>1, <1>2, <1>4, <1>5, <2>1 DEF CallInv, Filling
<1>11. PointsIntoCache' /\ MainInv' /\ CopierInv'
  BY <1>1, <1>2, <1>4, <1>5, ThreadsAssumption
     DEF PointsIntoCache, MainInv, CopierInv, useVars
<1> QED BY <1>6, <1>8, <1>9, <1>10, <1>11 DEF TypeOK, useVars

LEMMA ReadTableFailsInv ==
  ASSUME IInv, NEW t \in Threads, ReadTableFails(t), UNCHANGED useVars
  PROVE  IInv'
<1> USE DEF IInv
<1>1. /\ call[t].pc = "read" /\ Filling(t)
      /\ call' = [call EXCEPT ![t] = Idle]
      /\ inode_ptr' = [inode_ptr EXCEPT ![t] = NULL]
      /\ UNCHANGED <<inodes_table_cache, group_desc_queue, allocated>>
  BY DEF ReadTableFails, ReturnPtr, Filling
<1>2. /\ t = Main /\ copier = "none"
      /\ \A u \in Threads : inode_ptr[u] = NULL
  BY <1>1, FillingAlone
<1>3. Idle \in Calls /\ Idle.pc = "idle" /\ Idle.buffer = NULL
  BY CacheAssumption DEF Idle, Calls, Groups
<1>4. CacheTypeOK' /\ QueueMatchesCache' /\ NoLeak' /\ CallInv' /\ PointsIntoCache'
  BY <1>1, <1>3, QuietStep
<1>5. MainInv' /\ CopierInv'
  BY <1>1, <1>2, <1>3, ThreadsAssumption
     DEF MainInv, CopierInv, useVars, TypeOK, CacheTypeOK
<1> QED BY <1>4, <1>5 DEF TypeOK, useVars

LEMMA PublishInv ==
  ASSUME IInv, NEW t \in Threads, Publish(t), UNCHANGED useVars
  PROVE  IInv'
<1> USE DEF IInv
<1> DEFINE g == call[t].group
           b == call[t].buffer
<1>1. /\ call[t].pc = "publish" /\ g \in Groups /\ b \in Buffers
      /\ inodes_table_cache[g] = NULL /\ Filling(t)
      /\ Len(group_desc_queue) < MaxQueueLen
  BY DEF Publish, TypeOK, CacheTypeOK, CallInv, Calls, Filling
<1>2. /\ t = Main /\ copier = "none"
      /\ \A u \in Threads : inode_ptr[u] = NULL
      /\ \A u \in Threads \ {t} : call[u].pc = "idle"
  BY <1>1, FillingAlone
<1>3. /\ inodes_table_cache' = [inodes_table_cache EXCEPT ![g] = b]
      /\ group_desc_queue' = Append(group_desc_queue, g)
      /\ call' = [call EXCEPT ![t] = Idle]
      /\ inode_ptr' = [inode_ptr EXCEPT ![t] = b]
      /\ allocated' = allocated
  BY DEF Publish, ReturnPtr
<1>4. b # NULL /\ Idle \in Calls /\ Idle.pc = "idle" /\ Idle.buffer = NULL
  BY <1>1, CacheAssumption DEF Idle, Calls, Groups
<1>5. \A u \in Threads : /\ u # t => call'[u] = call[u] /\ inode_ptr'[u] = NULL
                         /\ call'[t] = Idle /\ inode_ptr'[t] = b
  BY <1>2, <1>3 DEF TypeOK, CacheTypeOK
<1>6. /\ inodes_table_cache'[g] = b
      /\ \A h \in Groups : h # g => inodes_table_cache'[h] = inodes_table_cache[h]
  BY <1>1, <1>3 DEF TypeOK, CacheTypeOK
<1> HIDE DEF g, b
<1>7. CachedGroups' = CachedGroups \cup {g} /\ g \notin CachedGroups
  BY <1>1, <1>4, <1>6 DEF CachedGroups, g
<1>8. /\ group_desc_queue' \in Seq(Groups)
      /\ Len(group_desc_queue') = Len(group_desc_queue) + 1
      /\ \A i, j \in 1 .. Len(group_desc_queue') :
           group_desc_queue'[i] = group_desc_queue'[j] => i = j
      /\ {group_desc_queue'[i] : i \in 1 .. Len(group_desc_queue')}
           = {group_desc_queue[i] : i \in 1 .. Len(group_desc_queue)} \cup {g}
  <2>1. group_desc_queue \in Seq(Groups) /\ g \in Groups
    BY <1>1 DEF TypeOK, CacheTypeOK
  <2>2. g \notin {group_desc_queue[i] : i \in 1 .. Len(group_desc_queue)}
    BY <1>7 DEF QueueMatchesCache
  <2> QED BY <1>3, <2>1, <2>2, PushQueue DEF QueueMatchesCache
<1>9. CacheTypeOK'
  <2>1. inodes_table_cache' \in [Groups -> Buffers \cup {NULL}]
    BY <1>1, <1>3 DEF TypeOK, CacheTypeOK
  <2>2. call' \in [Threads -> Calls] /\ inode_ptr' \in [Threads -> Buffers \cup {NULL}]
    BY <1>1, <1>3, <1>4 DEF TypeOK, CacheTypeOK
  <2> QED BY <1>3, <1>8, <2>1, <2>2 DEF TypeOK, CacheTypeOK
<1>10. QueueMatchesCache'
  <2>1. Len(group_desc_queue') <= MaxQueueLen
    BY <1>1, <1>8, CacheAssumption DEF TypeOK, CacheTypeOK
  <2> QED BY <1>7, <1>8, <2>1 DEF QueueMatchesCache
<1>11. NoLeak'
  <2>1. /\ {v \in Threads : call[v].pc = "publish"} = {t}
        /\ {v \in Threads : call'[v].pc = "publish"} = {}
    BY <1>1, <1>2, <1>4, <1>5
  <2>2. allocated = {inodes_table_cache[h] : h \in CachedGroups} \cup {b}
    BY <2>1 DEF NoLeak, b
  <2>3. \A h \in CachedGroups : /\ inodes_table_cache[h] # b
                                /\ inodes_table_cache'[h] = inodes_table_cache[h]
    BY <1>1, <1>6, <1>7 DEF NoLeak, b, CachedGroups
  <2>4. allocated' = {inodes_table_cache'[h] : h \in CachedGroups'}
    BY <1>3, <1>6, <1>7, <2>2, <2>3
  <2>5. \A h, k \in CachedGroups' : inodes_table_cache'[h] = inodes_table_cache'[k] => h = k
    BY <1>6, <1>7, <2>3 DEF NoLeak
  <2> QED BY <2>1, <2>4, <2>5 DEF NoLeak
<1>12. CallInv'
  BY <1>2, <1>4, <1>5 DEF CallInv, Filling
<1>13. PointsIntoCache'
  BY <1>1, <1>5, <1>6 DEF PointsIntoCache
<1>14. MainInv' /\ CopierInv'
  BY <1>1, <1>2, <1>4, <1>5, <1>6, ThreadsAssumption
     DEF MainInv, CopierInv, useVars, g
<1> QED BY <1>9, <1>10, <1>11, <1>12, <1>13, <1>14 DEF TypeOK, useVars

-----------------------------------------------------------------------------
(* The steps of the callers *)

LEMMA InGetInodeInv == IInv /\ InGetInode => IInv'
<1> SUFFICES ASSUME IInv, NEW t \in Threads, InodeStep(t), UNCHANGED useVars
             PROVE  IInv'
  BY DEF InGetInode
<1> QED BY LookupInv, EvictInv, ReadTableInv, ReadTableFailsInv, PublishInv DEF InodeStep

(* A thread that holds no pointer enters get_ext4_inode. *)
LEMMA EnterInv ==
  ASSUME IInv, NEW t \in Threads, NEW n \in Inodes \cup {0}, Enter(t, n),
         inode_ptr[t] = NULL
  PROVE  /\ CacheTypeOK' /\ QueueMatchesCache' /\ NoLeak' /\ CallInv' /\ PointsIntoCache'
         /\ inode_ptr' = inode_ptr
         /\ UNCHANGED <<inodes_table_cache, group_desc_queue, allocated>>
         /\ \A u \in Threads \ {t} : call'[u] = call[u]
         /\ n = 0 => call'[t].pc = "idle"
         /\ n # 0 => /\ n \in Inodes /\ call'[t].pc = "lookup"
                     /\ call'[t].group = GroupOf(n)
<1> USE DEF IInv, TypeOK, CacheTypeOK
<1> DEFINE c == IF n = 0 THEN Idle
                ELSE [pc |-> "lookup", group |-> GroupOf(n), buffer |-> NULL]
<1>1. /\ call[t].pc = "idle"
      /\ call' = [call EXCEPT ![t] = c]
      /\ inode_ptr' = [inode_ptr EXCEPT ![t] = NULL]
      /\ UNCHANGED <<inodes_table_cache, group_desc_queue, allocated>>
  <2>1. CASE n = 0
    BY <2>1 DEF Enter, ReturnPtr
  <2>2. CASE n # 0
    BY <2>2 DEF Enter
  <2> QED BY <2>1, <2>2
<1>2. c \in Calls /\ c.pc \in {"idle", "lookup"} /\ c.buffer = NULL
  <2>1. 0 \in Groups
    BY CacheAssumption DEF Groups
  <2>2. n # 0 => GroupOf(n) \in Groups
    BY GroupOfType
  <2> QED BY <2>1, <2>2 DEF Calls, Idle
<1>3. call[t].pc # "publish"
  BY <1>1
<1>4. CacheTypeOK' /\ QueueMatchesCache' /\ NoLeak' /\ CallInv' /\ PointsIntoCache'
  BY <1>1, <1>2, <1>3, QuietStep
<1>5. inode_ptr' = inode_ptr /\ call'[t] = c /\ \A u \in Threads \ {t} : call'[u] = call[u]
  BY <1>1
<1>6. /\ n = 0 => c.pc = "idle"
      /\ n # 0 => n \in Inodes /\ c.pc = "lookup" /\ c.group = GroupOf(n)
  BY DEF Idle
<1> QED BY <1>1, <1>4, <1>5, <1>6

(* A thread outside get_ext4_inode lets go of its pointer. *)
LEMMA DropInv ==
  ASSUME IInv, NEW t \in Threads, DropPtr(t), call[t].pc = "idle"
  PROVE  /\ CacheTypeOK' /\ QueueMatchesCache' /\ NoLeak' /\ CallInv' /\ PointsIntoCache'
         /\ call' = call /\ inode_ptr'[t] = NULL
         /\ UNCHANGED <<inodes_table_cache, group_desc_queue, allocated>>
         /\ \A u \in Threads \ {t} : inode_ptr'[u] = inode_ptr[u]
<1> USE DEF IInv, TypeOK, CacheTypeOK
<1>1. /\ call[t] \in Calls /\ call[t].buffer = NULL
      /\ call' = [call EXCEPT ![t] = call[t]]
      /\ inode_ptr' = [inode_ptr EXCEPT ![t] = NULL]
      /\ UNCHANGED <<inodes_table_cache, group_desc_queue, allocated>>
  BY DEF DropPtr, CallInv
<1>2. CacheTypeOK' /\ QueueMatchesCache' /\ NoLeak' /\ CallInv' /\ PointsIntoCache'
  BY <1>1, QuietStep
<1> QED BY <1>1, <1>2 DEF DropPtr

(* A step that touches neither the cache nor its callers' places in it. *)
LEMMA SameCache ==
  ASSUME IInv, UNCHANGED cacheVars
  PROVE  CacheTypeOK' /\ QueueMatchesCache' /\ NoLeak' /\ CallInv' /\ PointsIntoCache'
<1>1. CachedGroups' = CachedGroups
  BY DEF CachedGroups, cacheVars
<1>2. CacheTypeOK' /\ QueueMatchesCache' /\ CallInv' /\ PointsIntoCache'
  BY <1>1 DEF cacheVars, IInv, TypeOK, CacheTypeOK, QueueMatchesCache, CallInv,
              Filling, PointsIntoCache
<1>3. NoLeak'
  BY <1>1 DEF cacheVars, IInv, NoLeak
<1> QED BY <1>2, <1>3

LEMMA MainStepInv == IInv /\ MainStep => IInv'
<1> SUFFICES ASSUME IInv, MainStep PROVE IInv'
  OBVIOUS
<1> USE DEF IInv
<1>0. Main \in Threads /\ Copier \in Threads /\ Main # Copier
  BY ThreadsAssumption
<1>1. ASSUME NEW f \in {"FsFindFirst", "FsFindNext", "FsGetFile"}, Begin(f) PROVE IInv'
  BY <1>1, SameCache DEF Begin, TypeOK, MainInv, CopierInv, cacheVars
<1>2. ASSUME NEW n \in Inodes \cup {0}, LookupDir(n) PROVE IInv'
  <2>1. purpose = "none" /\ copier = "none" /\ inode_ptr[Main] = NULL /\ Enter(Main, n)
    BY <1>2 DEF LookupDir, MainInv, CopierInv
  <2>2. /\ CacheTypeOK' /\ QueueMatchesCache' /\ NoLeak' /\ CallInv' /\ PointsIntoCache'
        /\ inode_ptr' = inode_ptr /\ call'[Copier] = call[Copier]
    BY <1>0, <2>1, EnterInv
  <2> QED BY <1>2, <2>1, <2>2 DEF LookupDir, TypeOK, MainInv, CopierInv
<1>3. ASSUME NEW n \in Inodes, LookupSize(n) PROVE IInv'
  <2>1. purpose = "none" /\ copier = "none" /\ inode_ptr[Main] = NULL /\ Enter(Main, n)
    BY <1>3 DEF LookupSize, MainInv, CopierInv
  <2>2. /\ CacheTypeOK' /\ QueueMatchesCache' /\ NoLeak' /\ CallInv' /\ PointsIntoCache'
        /\ inode_ptr' = inode_ptr /\ call'[Copier] = call[Copier]
    BY <1>0, <2>1, EnterInv
  <2> QED BY <1>3, <2>1, <2>2 DEF LookupSize, TypeOK, MainInv, CopierInv
<1>4. ASSUME NEW n \in Inodes \cup {0}, LookupFile(n) PROVE IInv'
  <2>1. purpose = "none" /\ copier = "none" /\ inode_ptr[Main] = NULL /\ Enter(Main, n)
    BY <1>4 DEF LookupFile, MainInv, CopierInv
  <2>2. /\ CacheTypeOK' /\ QueueMatchesCache' /\ NoLeak' /\ CallInv' /\ PointsIntoCache'
        /\ inode_ptr' = inode_ptr /\ call'[Copier] = call[Copier]
        /\ n = 0 => call'[Main].pc = "idle"
        /\ n # 0 => n \in Inodes /\ call'[Main].group = GroupOf(n)
    BY <1>0, <2>1, EnterInv
  <2> QED BY <1>4, <2>1, <2>2 DEF LookupFile, TypeOK, MainInv, CopierInv
<1>5. CASE DirRead
  <2>1. purpose = "dir" /\ copier = "none" /\ call[Main].pc = "idle" /\ DropPtr(Main)
    BY <1>5 DEF DirRead, CopierInv
  <2>2. /\ CacheTypeOK' /\ QueueMatchesCache' /\ NoLeak' /\ CallInv' /\ PointsIntoCache'
        /\ call' = call /\ inode_ptr'[Main] = NULL /\ inode_ptr'[Copier] = inode_ptr[Copier]
    BY <1>0, <2>1, DropInv
  <2> QED BY <1>5, <2>1, <2>2 DEF DirRead, TypeOK, MainInv, CopierInv
<1>6. CASE DirFails
  <2>1. /\ purpose = "dir" /\ copier = "none" /\ call[Main].pc = "idle"
        /\ inode_ptr[Main] = NULL /\ UNCHANGED cacheVars
    BY <1>6 DEF DirFails, Returned, CopierInv
  <2> QED BY <1>6, <2>1, SameCache DEF DirFails, EndOp, TypeOK, MainInv, CopierInv, cacheVars
<1>7. CASE SizeRead
  <2>1. purpose = "size" /\ copier = "none" /\ call[Main].pc = "idle"
    BY <1>7 DEF SizeRead, CopierInv
  <2>2. CASE inode_ptr[Main] = NULL
    BY <1>7, <2>1, <2>2, SameCache DEF SizeRead, TypeOK, MainInv, CopierInv, cacheVars
  <2>3. CASE inode_ptr[Main] # NULL
    <3>1. /\ CacheTypeOK' /\ QueueMatchesCache' /\ NoLeak' /\ CallInv' /\ PointsIntoCache'
          /\ call' = call /\ inode_ptr'[Main] = NULL
          /\ inode_ptr'[Copier] = inode_ptr[Copier]
      BY <1>0, <1>7, <2>1, <2>3, DropInv DEF SizeRead
    <3> QED BY <1>7, <2>1, <2>3, <3>1 DEF SizeRead, EndOp, TypeOK, MainInv, CopierInv
  <2> QED BY <2>2, <2>3
<1>8. CASE NoEntry
  <2>1. purpose = "none" /\ copier = "none" /\ UNCHANGED cacheVars
    BY <1>8 DEF NoEntry, CopierInv
  <2> QED BY <1>8, <2>1, SameCache DEF NoEntry, EndOp, TypeOK, MainInv, CopierInv, cacheVars
<1>9. CASE FileRefused
  <2>1. purpose = "file" /\ copier = "none" /\ call[Main].pc = "idle" /\ DropPtr(Main)
    BY <1>9 DEF FileRefused, CopierInv
  <2>2. /\ CacheTypeOK' /\ QueueMatchesCache' /\ NoLeak' /\ CallInv' /\ PointsIntoCache'
        /\ call' = call /\ inode_ptr'[Main] = NULL /\ inode_ptr'[Copier] = inode_ptr[Copier]
    BY <1>0, <2>1, DropInv
  <2> QED BY <1>9, <2>1, <2>2 DEF FileRefused, EndOp, TypeOK, MainInv, CopierInv
<1>10. CASE SpawnCopier
  <2>1. /\ purpose = "file" /\ call[Main].pc = "idle" /\ inode_ptr[Main] # NULL
        /\ copier = "none" /\ UNCHANGED cacheVars
    BY <1>10 DEF SpawnCopier, CopierInv
  <2>2. inodes_table_cache[GroupOf(inode_num)] # NULL /\ inode_num \in Inodes
    BY <2>1 DEF MainInv
  <2> QED BY <1>10, <2>1, <2>2, SameCache DEF SpawnCopier, TypeOK, MainInv, CopierInv, cacheVars
<1>11. CASE ReadFileSize
  <2>1. purpose = "copy" /\ call[Main].pc = "idle" /\ DropPtr(Main)
    BY <1>11 DEF ReadFileSize, MainInv
  <2>2. /\ CacheTypeOK' /\ QueueMatchesCache' /\ NoLeak' /\ CallInv' /\ PointsIntoCache'
        /\ call' = call /\ inode_ptr'[Main] = NULL /\ inode_ptr'[Copier] = inode_ptr[Copier]
        /\ UNCHANGED inodes_table_cache
    BY <1>0, <2>1, DropInv
  <2> QED BY <1>11, <2>1, <2>2 DEF ReadFileSize, TypeOK, MainInv, CopierInv
<1>12. CASE Join
  <2>1. /\ purpose = "wait" /\ call[Main].pc = "idle" /\ UNCHANGED cacheVars
        /\ copier \in {"none", "ended"} /\ inode_ptr[Main] = NULL
    BY <1>12 DEF Join, MainInv
  <2> QED BY <1>12, <2>1, SameCache DEF Join, TypeOK, MainInv, CopierInv, cacheVars
<1> QED BY <1>1, <1>2, <1>3, <1>4, <1>5, <1>6, <1>7, <1>8, <1>9, <1>10, <1>11, <1>12
        DEF MainStep

LEMMA CopierStepInv == IInv /\ CopierStep => IInv'
<1> SUFFICES ASSUME IInv, CopierStep PROVE IInv'
  OBVIOUS
<1> USE DEF IInv
<1>0. Main \in Threads /\ Copier \in Threads /\ Main # Copier
  BY ThreadsAssumption
<1>1. CASE CopierLookup
  <2>1. /\ copier = "start" /\ inode_ptr[Copier] = NULL /\ Enter(Copier, inode_num)
        /\ inode_num \in Inodes /\ inode_num # 0
    BY <1>1 DEF CopierLookup, CopierInv, Inodes
  <2>2. /\ CacheTypeOK' /\ QueueMatchesCache' /\ NoLeak' /\ CallInv' /\ PointsIntoCache'
        /\ inode_ptr' = inode_ptr /\ call'[Main] = call[Main]
        /\ call'[Copier].pc = "lookup" /\ call'[Copier].group = GroupOf(inode_num)
        /\ UNCHANGED inodes_table_cache
    BY <1>0, <2>1, EnterInv
  <2> QED BY <1>1, <2>1, <2>2 DEF CopierLookup, TypeOK, MainInv, CopierInv
<1>2. CASE CopierGotInode
  <2>1. /\ copier = "lookup" /\ call[Copier].pc = "idle" /\ UNCHANGED cacheVars
    BY <1>2 DEF CopierGotInode
  <2> QED BY <1>2, <2>1, SameCache DEF CopierGotInode, TypeOK, MainInv, CopierInv, cacheVars
<1>3. CASE CopierEnds
  <2>1. copier = "copying" /\ call[Copier].pc = "idle" /\ DropPtr(Copier)
    BY <1>3 DEF CopierEnds, CopierInv
  <2>2. /\ CacheTypeOK' /\ QueueMatchesCache' /\ NoLeak' /\ CallInv' /\ PointsIntoCache'
        /\ call' = call /\ inode_ptr'[Copier] = NULL /\ inode_ptr'[Main] = inode_ptr[Main]
        /\ UNCHANGED inodes_table_cache
    BY <1>0, <2>1, DropInv
  <2> QED BY <1>3, <2>1, <2>2 DEF CopierEnds, TypeOK, MainInv, CopierInv
<1> QED BY <1>1, <1>2, <1>3 DEF CopierStep

LEMMA StutterInv == IInv /\ UNCHANGED vars => IInv'
<1> SUFFICES ASSUME IInv, UNCHANGED vars PROVE IInv'
  OBVIOUS
<1>1. UNCHANGED cacheVars /\ UNCHANGED useVars
  BY DEF vars
<1> QED BY <1>1, SameCache DEF IInv, useVars, cacheVars, TypeOK, MainInv, CopierInv

-----------------------------------------------------------------------------
(* The strengthened invariant holds in every reachable state: nothing the  *)
(* host and the copy thread do makes queue, cache, pointers and thread     *)
(* positions disagree.                                                     *)
THEOREM InductiveInvariant == Spec => []IInv
<1>1. IInv /\ [Next]_vars => IInv'
  BY InGetInodeInv, MainStepInv, CopierStepInv, StutterInv DEF Next
<1> QED BY <1>1, InitIInv, PTL DEF Spec

(* Type correctness; among others, the group computed from an inode number *)
(* never leaves the cache array.                                           *)
THEOREM TypeCorrect == Spec => []TypeOK
<1>1. IInv => TypeOK
  BY DEF IInv
<1> QED BY <1>1, InductiveInvariant, PTL

(* group_desc_queue lists exactly the cached groups, each once, and no     *)
(* more than MAX_GROUP_DESC_QUEUE_LEN of them.                             *)
THEOREM QueueCorrect == Spec => []QueueMatchesCache
<1>1. IInv => QueueMatchesCache
  BY DEF IInv
<1> QED BY <1>1, InductiveInvariant, PTL

(* Every inode table that is allocated is in one cache slot or in the      *)
(* hands of the thread that has just read it.                              *)
THEOREM NoTableLeaks == Spec => []NoLeak
<1>1. IInv => NoLeak
  BY DEF IInv
<1> QED BY <1>1, InductiveInvariant, PTL

(* No eviction in get_ext4_inode frees a table somebody still points into. *)
THEOREM PointersStayValid == Spec => []NoDanglingInode
<1>1. IInv => NoDanglingInode
  <2> SUFFICES ASSUME IInv, NEW t \in Threads, inode_ptr[t] # NULL
               PROVE  inode_ptr[t] \in allocated
    BY DEF NoDanglingInode
  <2>1. PICK g \in Groups : inodes_table_cache[g] = inode_ptr[t]
    BY DEF IInv, PointsIntoCache
  <2>2. g \in CachedGroups
    BY <2>1 DEF CachedGroups
  <2> QED BY <2>1, <2>2 DEF IInv, NoLeak
<1> QED BY <1>1, InductiveInvariant, PTL

(* The two threads never work in the cache together and the copy thread    *)
(* never misses it, which is what makes the missing lock harmless.         *)
THEOREM CopierAlwaysHits == Spec => []CopierOnlyHits
<1>1. IInv => CopierOnlyHits
  BY DEF IInv, CopierOnlyHits, MainInv, CopierInv
<1> QED BY <1>1, InductiveInvariant, PTL

(* As long as the copy thread exists the cache does not change.            *)
THEOREM CacheIsFrozen == Spec => CacheFrozenDuringCopy
<1> DEFINE A == copier # "none" =>
                  UNCHANGED <<inodes_table_cache, group_desc_queue, allocated>>
<1>1. IInv /\ [Next]_vars => [A]_vars
  <2> SUFFICES ASSUME IInv, Next, copier # "none"
               PROVE  UNCHANGED <<inodes_table_cache, group_desc_queue, allocated>>
    BY DEF vars
  <2>1. \A t \in Threads : call[t].pc \in {"idle", "lookup"}
    BY ThreadsAssumption DEF IInv, MainInv, CopierInv
  <2>2. CASE InGetInode
    BY <2>1, <2>2 DEF InGetInode, InodeStep, Lookup, Evict, ReadTable, ReadTableFails, Publish
  <2>3. CASE MainStep
    BY <2>3 DEF MainStep, Begin, LookupDir, LookupFile, LookupSize, DirRead, DirFails, SizeRead,
                NoEntry, FileRefused, SpawnCopier, ReadFileSize, Join, Enter, DropPtr, cacheVars
  <2>4. CASE CopierStep
    BY <2>4 DEF CopierStep, CopierLookup, CopierGotInode, CopierEnds, Enter, DropPtr, cacheVars
  <2> QED BY <2>2, <2>3, <2>4 DEF Next
<1>2. Spec => [][A]_vars
  BY <1>1, InductiveInvariant, PTL DEF Spec
<1> QED BY <1>2 DEF CacheFrozenDuringCopy
=============================================================================
