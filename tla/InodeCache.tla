------------------------------ MODULE InodeCache ------------------------------
(***************************************************************************)
(* The inode-table cache of one mounted partition.                         *)
(*                                                                         *)
(* partition_linux_ext2::get_ext4_inode reads the inode table of a whole   *)
(* block group at once and keeps the buffer in                             *)
(* ext4_sb_info::inodes_table_cache, one slot per block group.  A queue,   *)
(* group_desc_queue, remembers the order in which the groups were read;    *)
(* when it is full the oldest group is deleted before the next one is      *)
(* read.  What the function returns is a pointer INTO the cached buffer:   *)
(* nothing counts the pointers that are still in use, and nothing locks    *)
(* the cache, although the copy thread and the host's thread share it.     *)
(*                                                                         *)
(* The module gives the steps of the function, for any thread; the module  *)
(* InodeUse says which thread calls it when.                               *)
(***************************************************************************)
EXTENDS Integers, Sequences

CONSTANTS
  Threads,           \* the threads that may call get_ext4_inode
  GroupCount,        \* s_group_block_count
  InodesPerGroup,    \* s_inodes_per_group
  Buffers,           \* the addresses operator new can return
  MaxQueueLen,       \* MAX_GROUP_DESC_QUEUE_LEN
  NULL

ASSUME CacheAssumption ==
  /\ GroupCount \in Nat \ {0}
  /\ InodesPerGroup \in Nat \ {0}
  /\ MaxQueueLen \in Nat \ {0}
  /\ NULL \notin Buffers

VARIABLES
  inodes_table_cache,  \* per group: the buffer with its inode table, or NULL
  group_desc_queue,    \* the cached groups, oldest first
  allocated,           \* the inode-table buffers that are not deleted
  call,                \* per thread: where it stands inside get_ext4_inode
  inode_ptr            \* per thread: the buffer its inode pointer points into

cacheVars == <<inodes_table_cache, group_desc_queue, allocated, call, inode_ptr>>

-----------------------------------------------------------------------------
Groups == 0 .. GroupCount - 1

(* The inode numbers of the file system; 0 marks an unused directory entry. *)
Inodes == 1 .. GroupCount * InodesPerGroup

GroupOf(n_inode) == (n_inode - 1) \div InodesPerGroup

Idle == [pc |-> "idle", group |-> 0, buffer |-> NULL]

Calls == [pc : {"idle", "lookup", "evict", "read", "publish"},
          group : Groups, buffer : Buffers \cup {NULL}]

CachedGroups == {g \in Groups : inodes_table_cache[g] # NULL}

CacheInit ==
  /\ inodes_table_cache = [g \in Groups |-> NULL]
  /\ group_desc_queue = <<>>
  /\ allocated = {}
  /\ call = [t \in Threads |-> Idle]
  /\ inode_ptr = [t \in Threads |-> NULL]

(* Thread t returns from get_ext4_inode with the pointer p. *)
ReturnPtr(t, p) ==
  /\ call' = [call EXCEPT ![t] = Idle]
  /\ inode_ptr' = [inode_ptr EXCEPT ![t] = p]

-----------------------------------------------------------------------------
(* Entry of get_ext4_inode.  Inode number 0 is refused at once. *)
Enter(t, n_inode) ==
  /\ call[t].pc = "idle"
  /\ IF n_inode = 0
     THEN ReturnPtr(t, NULL)
     ELSE /\ call' = [call EXCEPT ![t] = [pc |-> "lookup", group |-> GroupOf(n_inode),
                                           buffer |-> NULL]]
          /\ UNCHANGED inode_ptr
  /\ UNCHANGED <<inodes_table_cache, group_desc_queue, allocated>>

(* get_inode_from_cache: a hit returns, a miss goes on to make room. *)
Lookup(t) ==
  LET cached == inodes_table_cache[call[t].group] IN
  /\ call[t].pc = "lookup"
  /\ \/ /\ cached # NULL
        /\ ReturnPtr(t, cached)
     \/ /\ cached = NULL
        /\ call' = [call EXCEPT ![t].pc = "evict"]
        /\ UNCHANGED inode_ptr
  /\ UNCHANGED <<inodes_table_cache, group_desc_queue, allocated>>

(* Seeded fault: the oldest group is deleted but stays in the queue. *)
Evict_noPop(t) ==
  /\ call[t].pc = "evict"
  /\ IF Len(group_desc_queue) >= MaxQueueLen
     THEN LET index == Head(group_desc_queue) IN
          /\ allocated' = allocated \ {inodes_table_cache[index]}
          /\ inodes_table_cache' = [inodes_table_cache EXCEPT ![index] = NULL]
     ELSE UNCHANGED <<inodes_table_cache, allocated>>
  /\ call' = [call EXCEPT ![t].pc = "read"]
  /\ UNCHANGED <<inode_ptr, group_desc_queue>>

(* Seeded fault: the slot of the oldest group is cleared, its table kept. *)
Evict_noDelete(t) ==
  /\ call[t].pc = "evict"
  /\ IF Len(group_desc_queue) >= MaxQueueLen
     THEN LET index == Head(group_desc_queue) IN
          /\ inodes_table_cache' = [inodes_table_cache EXCEPT ![index] = NULL]
          /\ group_desc_queue' = Tail(group_desc_queue)
     ELSE UNCHANGED <<inodes_table_cache, group_desc_queue>>
  /\ call' = [call EXCEPT ![t].pc = "read"]
  /\ UNCHANGED <<inode_ptr, allocated>>

(* remove_inodes_grp_from_cache on the front of a full queue, then pop. *)
Evict(t) ==
  /\ call[t].pc = "evict"
  /\ IF Len(group_desc_queue) >= MaxQueueLen
     THEN LET index == Head(group_desc_queue) IN
          /\ allocated' = allocated \ {inodes_table_cache[index]}
          /\ inodes_table_cache' = [inodes_table_cache EXCEPT ![index] = NULL]
          /\ group_desc_queue' = Tail(group_desc_queue)
     ELSE UNCHANGED <<inodes_table_cache, group_desc_queue, allocated>>
  /\ call' = [call EXCEPT ![t].pc = "read"]
  /\ UNCHANGED inode_ptr

(* read_sectors_ex allocates the buffer of the table ... *)
ReadTable(t) ==
  /\ call[t].pc = "read"
  /\ \E b \in Buffers \ allocated :
       /\ allocated' = allocated \cup {b}
       /\ call' = [call EXCEPT ![t].pc = "publish", ![t].buffer = b]
  /\ UNCHANGED <<inodes_table_cache, group_desc_queue, inode_ptr>>

(* ... or fails: NULL is returned, and what was evicted stays evicted. *)
ReadTableFails(t) ==
  /\ call[t].pc = "read"
  /\ ReturnPtr(t, NULL)
  /\ UNCHANGED <<inodes_table_cache, group_desc_queue, allocated>>

(* add_inodes_grp_to_cache, then push, then return the pointer. *)
Publish(t) ==
  LET g == call[t].group IN
  /\ call[t].pc = "publish"
  /\ inodes_table_cache' = [inodes_table_cache EXCEPT ![g] = call[t].buffer]
  /\ group_desc_queue' = Append(group_desc_queue, g)
  /\ ReturnPtr(t, call[t].buffer)
  /\ UNCHANGED allocated

(* One step of thread t inside get_ext4_inode. *)
InodeStep(t) ==
  Lookup(t) \/ Evict(t) \/ ReadTable(t) \/ ReadTableFails(t) \/ Publish(t)

(* The caller lets go of the pointer; nothing in the cache records it. *)
DropPtr(t) ==
  /\ inode_ptr' = [inode_ptr EXCEPT ![t] = NULL]
  /\ UNCHANGED <<inodes_table_cache, group_desc_queue, allocated, call>>

-----------------------------------------------------------------------------
(* Type invariant of the cache. *)
CacheTypeOK ==
  /\ inodes_table_cache \in [Groups -> Buffers \cup {NULL}]
  /\ group_desc_queue \in Seq(Groups)
  /\ allocated \in SUBSET Buffers
  /\ call \in [Threads -> Calls]
  /\ inode_ptr \in [Threads -> Buffers \cup {NULL}]

(* The queue and the cache tell the same story: every cached group is      *)
(* queued exactly once, nothing else is queued, and no more than           *)
(* MAX_GROUP_DESC_QUEUE_LEN tables are held.  A group queued twice would    *)
(* later have its table deleted while it is in the cache for the other     *)
(* entry; a cached group that is not queued would never be freed.          *)
QueueMatchesCache ==
  /\ \A i, j \in 1 .. Len(group_desc_queue) :
       group_desc_queue[i] = group_desc_queue[j] => i = j
  /\ {group_desc_queue[i] : i \in 1 .. Len(group_desc_queue)} = CachedGroups
  /\ Len(group_desc_queue) <= MaxQueueLen

(* No table is leaked or shared: every live buffer is in exactly one slot  *)
(* of the cache or in the hands of the one thread that has just read it.   *)
NoLeak ==
  /\ allocated = {inodes_table_cache[g] : g \in CachedGroups}
                   \cup {call[t].buffer : t \in {u \in Threads : call[u].pc = "publish"}}
  /\ \A g, h \in CachedGroups : inodes_table_cache[g] = inodes_table_cache[h] => g = h
  /\ \A t \in Threads : call[t].pc = "publish" =>
       \A g \in CachedGroups : inodes_table_cache[g] # call[t].buffer

(* An inode pointer that is still in use points into a live buffer: the    *)
(* eviction of get_ext4_inode never frees a table under a reader.          *)
NoDanglingInode ==
  \A t \in Threads : inode_ptr[t] # NULL => inode_ptr[t] \in allocated
=============================================================================
