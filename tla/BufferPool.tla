----------------------------- MODULE BufferPool -----------------------------
(***************************************************************************)
(* The buffer pool (src/src/observer/storage/buffer/disk_buffer_pool.cpp): *)
(* threads get, change, allocate, release and dispose pages of paged files *)
(* that share the frames of one BPFrameManager.                            *)
(*                                                                         *)
(* An action is what a thread does between two points where another one    *)
(* can interfere: a critical section of the frame manager's lock, or a     *)
(* step under the lock of one file's pool.  The frame manager's lock is    *)
(* held over several steps only to evict a dirty page of another file;     *)
(* flush_page of the BufferPoolManager, whose lock is taken inside it,     *)
(* belongs to that step.                                                   *)
(*                                                                         *)
(* Files are open throughout, and the frame of a file's header page, which *)
(* stays pinned while the file is open, is not one of Frames.  Reads and   *)
(* writes of a file succeed.  Callers change a page in one step, under its *)
(* write latch, and mark it dirty or forget to; a page is disposed of when *)
(* it cannot be reached any more (the B+ tree has unlinked it under its    *)
(* latches).                                                               *)
(***************************************************************************)
EXTENDS Integers, FiniteSets, Sequences

CONSTANTS
  Threads,        \* threads of the server
  Files,          \* open paged files
  Frames,         \* the frames of the memory pool
  Values,         \* contents of a page
  Zero,           \* the content of a cleared page
  MAX_PAGE_NUM,   \* how many pages a file can have, its header page 0 included
  HoldBound,      \* bound: how many pages a thread uses at a time
  None            \* model value: nobody, nothing

ASSUME ValueAssumption == Zero \in Values
ASSUME SizeAssumption == MAX_PAGE_NUM \in [Files -> Nat \ {0}] /\ HoldBound \in Nat
ASSUME FiniteAssumption == IsFiniteSet(Threads) /\ IsFiniteSet(Files)

VARIABLES
  frames,          \* BPFrameManager::frames_: the frame of every cached page
  lru,             \* its order: the page used last comes first
  frees,           \* MemPoolSimple::frees: frames not in use
  pin_count,       \* Frame::pin_count_
  dirty,           \* Frame::dirty_
  data,            \* Frame::page_
  disk,            \* the pages in the files
  bitmap,          \* BPFileHeader::bitmap, without the header page
  allocated_pages, \* BPFileHeader::allocated_pages
  page_count,      \* BPFileHeader::page_count
  fm_lock,         \* who holds the lock of the frame manager between steps
  pool_lock,       \* who holds DiskBufferPool::lock_ of a file
  pc,              \* where a thread is in a call
  target,          \* the page its call is about
  victim,          \* the page it is evicting
  held,            \* the frame a thread was given for a page it uses
  loaded,          \* history: frames whose content has been read or cleared
  unmarked         \* history: clean frames whose content a caller has changed

headerVars == <<bitmap, allocated_pages, page_count>>

vars == <<frames, lru, frees, pin_count, dirty, data, disk, headerVars, fm_lock,
          pool_lock, pc, target, victim, held, loaded, unmarked>>

Pages == UNION {{x} \X (1 .. MAX_PAGE_NUM[x] - 1) : x \in Files}

ASSUME NoneAssumption == None \notin Threads \cup Frames \cup Pages

Pcs == {"idle", "get", "lock", "alloc", "extend_alloc", "flush", "extend_flush", "load", "extend"}

Cached == {p \in Pages : frames[p] # None}

Init ==
  /\ frames = [p \in Pages |-> None] /\ lru = <<>> /\ frees = Frames
  /\ pin_count = [f \in Frames |-> 0] /\ dirty = [f \in Frames |-> FALSE]
  /\ data = [f \in Frames |-> Zero] /\ loaded = {} /\ unmarked = {}
  /\ disk = [p \in Pages |-> Zero]
  /\ bitmap = [x \in Files |-> {}]
  /\ allocated_pages = [x \in Files |-> 1] /\ page_count = [x \in Files |-> 1]
  /\ fm_lock = None /\ pool_lock = [x \in Files |-> None]
  /\ pc = [t \in Threads |-> "idle"]
  /\ target = [t \in Threads |-> None] /\ victim = [t \in Threads |-> None]
  /\ held = [t \in Threads |-> [p \in Pages |-> None]]

----------------------------------------------------------------------------
(* BPFrameManager.                                                         *)

\* LruCache: the node of a page is taken out of the list; a page that is looked up
\* moves to the front.
Listed(p) == \E i \in DOMAIN lru : lru[i] = p

Without(p) ==
  LET i == CHOOSE j \in DOMAIN lru : lru[j] = p
  IN  IF Listed(p) THEN SubSeq(lru, 1, i - 1) \o SubSeq(lru, i + 1, Len(lru)) ELSE lru

Touch(p) == lru' = <<p>> \o Without(p)

Pin(f) == pin_count' = [pin_count EXCEPT ![f] = @ + 1]

\* get_internal, for a page that is cached.
Lookup(p) == Touch(p) /\ Pin(frames[p]) /\ UNCHANGED <<frames, frees, loaded, unmarked>>

\* alloc, for a page that is not: a frame from the pool is entered for it.
Enter(p, f) ==
  /\ f \in frees /\ frees' = frees \ {f}
  /\ frames' = [frames EXCEPT ![p] = f]
  /\ Touch(p) /\ Pin(f)
  /\ UNCHANGED <<loaded, unmarked>>

\* free_internal: the frame of p goes back to the pool.
Free(p) ==
  /\ frames' = [frames EXCEPT ![p] = None]
  /\ lru' = Without(p)
  /\ frees' = frees \cup {frames[p]}
  /\ loaded' = loaded \ {frames[p]}
  /\ UNCHANGED unmarked

\* can_purge: nobody has the frame pinned.  Mutant: one user is overlooked.
CanPurge_OffByOne(f) == pin_count[f] <= 1

CanPurge(f) == pin_count[f] = 0

\* purge_frames(1): of the pages that can be purged, the one used least recently.
Victims ==
  {p \in Cached :
     /\ CanPurge(frames[p])
     /\ \E i \in DOMAIN lru :
          /\ lru[i] = p
          /\ \A j \in i + 1 .. Len(lru) : ~CanPurge(frames[lru[j]])}

----------------------------------------------------------------------------
(* DiskBufferPool.                                                         *)

\* A call returns with page p in frame f; the pool's lock is released.
Return(t, p, f) ==
  /\ held' = [held EXCEPT ![t][p] = f]
  /\ pc' = [pc EXCEPT ![t] = "idle"]
  /\ target' = [target EXCEPT ![t] = None]

Goto(t, label) == pc' = [pc EXCEPT ![t] = label]

Using(t) == {p \in Pages : held[t][p] # None}

\* The first look of get_this_page, before the pool's lock is taken.
LookForFrame(t, p) ==
  /\ fm_lock = None
  /\ \/ p \in Cached /\ Lookup(p) /\ Return(t, p, frames[p])
     \/ /\ p \notin Cached
        /\ Goto(t, "lock") /\ target' = [target EXCEPT ![t] = p]
        /\ UNCHANGED <<frames, lru, frees, pin_count, loaded, unmarked, held>>
  /\ UNCHANGED <<dirty, data, disk, headerVars, fm_lock, pool_lock, victim>>

\* get_this_page for a page of the file the thread does not use yet.
GetThisPage(t, p) ==
  /\ pc[t] = "idle" /\ held[t][p] = None /\ Cardinality(Using(t)) < HoldBound
  /\ p[2] \in bitmap[p[1]]
  /\ LookForFrame(t, p)

\* The call of get_this_page at the end of allocate_page.
GetAllocated(t) == pc[t] = "get" /\ LookForFrame(t, target[t])

LockPool(t) ==
  LET x == target[t][1] IN
  /\ pc[t] = "lock" /\ pool_lock[x] = None
  /\ pool_lock' = [pool_lock EXCEPT ![x] = t]
  /\ Goto(t, "alloc")
  /\ UNCHANGED <<frames, lru, frees, pin_count, dirty, data, disk, headerVars, fm_lock,
                 target, victim, held, loaded, unmarked>>

\* allocate_frame: alloc finds the page, or a free frame for it.
AllocateFrame(t) ==
  LET p == target[t] IN
  /\ pc[t] \in {"alloc", "extend_alloc"} /\ fm_lock = None
  /\ \/ p \in Cached /\ Lookup(p)
     \/ p \notin Cached /\ \E f \in Frames : Enter(p, f)
  /\ Goto(t, IF pc[t] = "alloc" THEN "load" ELSE "extend")
  /\ UNCHANGED <<dirty, data, disk, headerVars, fm_lock, pool_lock, target, victim, held>>

\* The page is written to its file and its frame freed.  Mutant: it is dropped.
WriteBackAndFree_Drops(p) == Free(p) /\ UNCHANGED <<disk, dirty>>

WriteBackAndFree(p) ==
  LET f == frames[p] IN
  /\ disk' = IF dirty[f] THEN [disk EXCEPT ![p] = data[f]] ELSE disk
  /\ dirty' = [dirty EXCEPT ![f] = FALSE]
  /\ Free(p)

\* allocate_frame, no frame is free: purge_frames with a victim that is clean or
\* of the same file, all under the frame manager's lock.
PurgeFrames(t) ==
  /\ pc[t] \in {"alloc", "extend_alloc"} /\ fm_lock = None
  /\ target[t] \notin Cached /\ frees = {}
  /\ \E p \in Victims :
       /\ dirty[frames[p]] => p[1] = target[t][1]
       /\ WriteBackAndFree(p)
  /\ UNCHANGED <<pin_count, data, headerVars, fm_lock, pool_lock, pc, target, victim, held>>

\* A dirty victim of another file: with the frame manager's lock held and the
\* victim pinned, the thread asks for the lock of the other file's pool.
PurgeOtherFile(t) ==
  /\ pc[t] \in {"alloc", "extend_alloc"} /\ fm_lock = None
  /\ target[t] \notin Cached /\ frees = {}
  /\ \E p \in Victims :
       /\ dirty[frames[p]] /\ p[1] # target[t][1]
       /\ Pin(frames[p])
       /\ victim' = [victim EXCEPT ![t] = p]
  /\ fm_lock' = t
  /\ Goto(t, IF pc[t] = "alloc" THEN "flush" ELSE "extend_flush")
  /\ UNCHANGED <<frames, lru, frees, dirty, data, disk, headerVars, pool_lock, target, held,
                 loaded, unmarked>>

FlushOtherFile(t) ==
  LET p == victim[t] IN
  /\ pc[t] \in {"flush", "extend_flush"} /\ pool_lock[p[1]] = None
  /\ WriteBackAndFree(p)
  /\ pin_count' = [pin_count EXCEPT ![frames[p]] = @ - 1]
  /\ victim' = [victim EXCEPT ![t] = None]
  /\ fm_lock' = None
  /\ Goto(t, IF pc[t] = "flush" THEN "alloc" ELSE "extend_alloc")
  /\ UNCHANGED <<data, headerVars, pool_lock, target, held>>

\* load_page and the end of get_this_page.
LoadPage(t) ==
  LET p == target[t] f == frames[p] IN
  /\ pc[t] = "load"
  /\ data' = [data EXCEPT ![f] = disk[p]]
  /\ loaded' = loaded \cup {f} /\ unmarked' = unmarked \ {f}
  /\ pool_lock' = [pool_lock EXCEPT ![p[1]] = None]
  /\ Return(t, p, f)
  /\ UNCHANGED <<frames, lru, frees, pin_count, dirty, disk, headerVars, fm_lock, victim>>

\* allocate_page when the file has a page that is not allocated: the first one
\* is taken, and fetched after the lock has been released.
ReusePage(t, x) ==
  LET free == (1 .. page_count[x] - 1) \ bitmap[x]
      i == CHOOSE n \in free : \A m \in free : n <= m
  IN
  /\ pc[t] = "idle" /\ Cardinality(Using(t)) < HoldBound
  /\ pool_lock[x] = None
  /\ allocated_pages[x] < page_count[x] /\ free # {}
  /\ allocated_pages' = [allocated_pages EXCEPT ![x] = @ + 1]
  /\ bitmap' = [bitmap EXCEPT ![x] = @ \cup {i}]
  /\ Goto(t, "get") /\ target' = [target EXCEPT ![t] = <<x, i>>]
  /\ UNCHANGED <<frames, lru, frees, pin_count, dirty, data, disk, page_count, fm_lock,
                 pool_lock, victim, held, loaded, unmarked>>

\* allocate_page when there is none: the file grows, unless it is full.
ExtendFile(t, x) ==
  /\ pc[t] = "idle" /\ Cardinality(Using(t)) < HoldBound
  /\ pool_lock[x] = None
  /\ allocated_pages[x] >= page_count[x]
  /\ page_count[x] < MAX_PAGE_NUM[x]
  /\ pool_lock' = [pool_lock EXCEPT ![x] = t]
  /\ Goto(t, "extend_alloc") /\ target' = [target EXCEPT ![t] = <<x, page_count[x]>>]
  /\ UNCHANGED <<frames, lru, frees, pin_count, dirty, data, disk, headerVars, fm_lock,
                 victim, held, loaded, unmarked>>

\* The end of allocate_page: the header is updated, the page cleared and written
\* to make the file longer.
ExtendDone(t) ==
  LET p == target[t] x == p[1] f == frames[p] IN
  /\ pc[t] = "extend"
  /\ allocated_pages' = [allocated_pages EXCEPT ![x] = @ + 1]
  /\ page_count' = [page_count EXCEPT ![x] = @ + 1]
  /\ bitmap' = [bitmap EXCEPT ![x] = @ \cup {p[2]}]
  /\ data' = [data EXCEPT ![f] = Zero]
  /\ disk' = [disk EXCEPT ![p] = Zero]
  /\ dirty' = [dirty EXCEPT ![f] = FALSE]
  /\ loaded' = loaded \cup {f} /\ unmarked' = unmarked \ {f}
  /\ pool_lock' = [pool_lock EXCEPT ![x] = None]
  /\ Return(t, p, f)
  /\ UNCHANGED <<frames, lru, frees, pin_count, fm_lock, victim>>

\* A caller changes a page it uses, and calls mark_dirty or not: visit_record, through
\* which commit and rollback stamp rows, does not, nor do coalesce for the node that
\* stays and for the parent, and adjust_root for the new root.
WritePage(t, p) ==
  LET f == held[t][p] IN
  /\ pc[t] = "idle" /\ f # None
  /\ \E v \in Values : v # data[f] /\ data' = [data EXCEPT ![f] = v]
  /\ \/ dirty' = [dirty EXCEPT ![f] = TRUE] /\ unmarked' = unmarked \ {f}
     \/ ~dirty[f] /\ unmarked' = unmarked \cup {f} /\ UNCHANGED dirty
  /\ UNCHANGED <<frames, lru, frees, pin_count, disk, headerVars, fm_lock, pool_lock, pc,
                 target, victim, held, loaded>>

\* flush_page of a page in use (init_empty_page of the record manager).
FlushPage(t, p) ==
  LET f == held[t][p] IN
  /\ pc[t] = "idle" /\ f # None /\ pool_lock[p[1]] = None
  /\ disk' = [disk EXCEPT ![p] = data[f]]
  /\ dirty' = [dirty EXCEPT ![f] = FALSE]
  /\ unmarked' = unmarked \ {f}
  /\ UNCHANGED <<frames, lru, frees, pin_count, data, headerVars, fm_lock, pool_lock, pc,
                 target, victim, held, loaded>>

UnpinPage(t, p) ==
  LET f == held[t][p] IN
  /\ pc[t] = "idle" /\ f # None
  /\ pin_count' = [pin_count EXCEPT ![f] = @ - 1]
  /\ held' = [held EXCEPT ![t][p] = None]
  /\ UNCHANGED <<frames, lru, frees, dirty, data, disk, headerVars, fm_lock, pool_lock, pc,
                 target, victim, loaded, unmarked>>

\* dispose_page.  A page whose frame was evicted since it was released is not
\* found, and stays allocated.
DisposePage(t, p) ==
  LET x == p[1] IN
  /\ pc[t] = "idle" /\ pool_lock[x] = None /\ fm_lock = None
  /\ p[2] \in bitmap[x] /\ p \in Cached
  /\ \A u \in Threads : held[u][p] = None /\ target[u] # p
  /\ Free(p)
  /\ allocated_pages' = [allocated_pages EXCEPT ![x] = @ - 1]
  /\ bitmap' = [bitmap EXCEPT ![x] = @ \ {p[2]}]
  /\ UNCHANGED <<pin_count, dirty, data, disk, page_count, fm_lock, pool_lock, pc, target,
                 victim, held>>

Step(t) ==
  \/ \E p \in Pages : GetThisPage(t, p)
  \/ GetAllocated(t)
  \/ LockPool(t)
  \/ AllocateFrame(t)
  \/ PurgeFrames(t)
  \/ PurgeOtherFile(t)
  \/ FlushOtherFile(t)
  \/ LoadPage(t)
  \/ \E x \in Files : ReusePage(t, x)
  \/ \E x \in Files : ExtendFile(t, x)
  \/ ExtendDone(t)
  \/ \E p \in Pages : WritePage(t, p)
  \/ \E p \in Pages : FlushPage(t, p)
  \/ \E p \in Pages : UnpinPage(t, p)
  \/ \E p \in Pages : DisposePage(t, p)

Next == \E t \in Threads : Step(t)

Spec == Init /\ [][Next]_vars

----------------------------------------------------------------------------
(* Properties.                                                             *)

\* Every variable has its type; no count is negative.
TypeOK ==
  /\ frames \in [Pages -> Frames \cup {None}] /\ lru \in Seq(Pages) /\ frees \subseteq Frames
  /\ pin_count \in [Frames -> Nat] /\ dirty \in [Frames -> BOOLEAN]
  /\ data \in [Frames -> Values] /\ disk \in [Pages -> Values] /\ loaded \subseteq Frames
  /\ unmarked \subseteq Frames
  /\ page_count \in [Files -> Nat] /\ allocated_pages \in [Files -> Nat]
  /\ bitmap \in [Files -> SUBSET Nat]
  /\ \A x \in Files : /\ page_count[x] \in 1 .. MAX_PAGE_NUM[x]
                      /\ allocated_pages[x] \in 1 .. page_count[x]
                      /\ bitmap[x] \subseteq 1 .. page_count[x] - 1
  /\ fm_lock \in Threads \cup {None} /\ pool_lock \in [Files -> Threads \cup {None}]
  /\ pc \in [Threads -> Pcs]
  /\ target \in [Threads -> Pages \cup {None}] /\ victim \in [Threads -> Pages \cup {None}]
  /\ held \in [Threads -> [Pages -> Frames \cup {None}]]

\* A page that a thread was given, and has not released, stays in the frame the
\* thread was given (unpin_page: it is resident until then).
HeldIsResident ==
  \A t \in Threads : \A p \in Using(t) : frames[p] = held[t][p]

\* The threads that use the page in frame f.
Users(f) == {u \in Threads \X Pages : held[u[1]][u[2]] = f}

\* The calls in progress that have frame f pinned: one that loads or clears it,
\* or one that evicts its page.
InCall(f) ==
  {t \in Threads : \/ pc[t] \in {"load", "extend"} /\ frames[target[t]] = f
                   \/ victim[t] # None /\ frames[victim[t]] = f}

\* The pin count of a frame is the number of its users, so that a page nobody
\* uses can be evicted and one somebody uses cannot.
PinsAgree ==
  \A f \in Frames : pin_count[f] = Cardinality(Users(f)) + Cardinality(InCall(f))

\* The page map, its LRU list and the memory pool agree: every frame is free or
\* holds one page, and the list has every cached page once.
FramesAgree ==
  /\ frees = Frames \ {frames[p] : p \in Cached}
  /\ \A p, q \in Cached : frames[p] = frames[q] => p = q
  /\ {lru[i] : i \in DOMAIN lru} = Cached /\ Len(lru) = Cardinality(Cached)

\* Frames, pins and users agree, whatever threads get, evict, allocate and dispose
\* of: a page in use stays in its frame, its pins are its users, and no frame serves
\* two pages.
PoolAgrees == TypeOK /\ FramesAgree /\ PinsAgree /\ HeldIsResident

\* What the next user of page p will find.
Content(p) ==
  IF p \in Cached /\ (frames[p] \in loaded \/ \E t \in Threads : held[t][p] # None)
  THEN data[frames[p]]
  ELSE disk[p]

\* get_this_page does not look again once it has the lock: it is about to load
\* p over a frame that is loaded already, or that somebody else was given.
DoubleLoad(p) ==
  \E t \in Threads :
    /\ pc[t] = "load" /\ target[t] = p
    /\ frames[p] \in loaded \/ pin_count[frames[p]] > 1

\* A page is evicted whose last change nobody marked: its frame is taken for clean
\* and not written.
UnmarkedEvicted(p) == p \in Cached /\ frames[p] \in unmarked /\ p \notin Cached'

\* What an allocated page contains changes when a user changes it, and otherwise
\* only by a double load, or by the eviction of a change that was not marked.
Kept(p) ==
  /\ p[2] \in bitmap[p[1]] /\ p[2] \in bitmap'[p[1]]
  /\ Content(p)' # Content(p)
  => \/ DoubleLoad(p) \/ DoubleLoad(p)' \/ UnmarkedEvicted(p)
     \/ \E t \in Threads : WritePage(t, p)

\* No update that was marked is lost, whichever pages are evicted, by whom and when:
\* every step of every thread keeps what the pages contain, but for changes, double
\* loads and the eviction of pages whose callers forgot to mark them.
UpdatesKept == [][\A p \in Pages : Kept(p)]_vars
=============================================================================
