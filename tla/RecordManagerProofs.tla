------------------------- MODULE RecordManagerProofs -------------------------
(***************************************************************************)
(* Proofs about the record manager, for any number of threads, pages,      *)
(* slots of a page and calls: no page with room is lost, scans are exact,  *)
(* and the only threads that can wait for one another in a circle are      *)
(* those that delete inside their own scan.                                *)
(***************************************************************************)
EXTENDS RecordManager, InductionLemmas, FiniteSetTheorems, TLAPS

-----------------------------------------------------------------------------
(* What the operators of the model return *)

\* Page numbers are positive, and the parts of a record's identifier are numbers.
LEMMA Numbers ==
  /\ \A p \in Pages : p \in Nat /\ p > 0 /\ p # None
  /\ \A r \in Rids : r[1] \in Pages /\ r[1] \in Nat /\ r[2] \in 0 .. record_capacity - 1 /\ r[2] \in Nat
                     /\ r = <<r[1], r[2]>> /\ r # None
  /\ \A s \in Scanners : s # None
  BY PageAssumption, CapacityAssumption, NoneAssumption DEF Rids

\* Of numbers, the one CHOOSE takes as the least is the least.
LEMMA Least ==
  ASSUME NEW T, T \subseteq Nat, T # {}
  PROVE  LET m == CHOOSE p \in T : \A q \in T : p <= q
         IN  m \in T /\ \A q \in T : m <= q
  BY LeastNat

\* Of records, the one CHOOSE takes as that of the lowest slot is that.
LEMMA LowestSlot ==
  ASSUME NEW T, T \subseteq Rids, T # {}
  PROVE  LET m == CHOOSE r \in T : \A q \in T : r[2] <= q[2]
         IN  m \in T /\ \A q \in T : m[2] <= q[2]
<1> DEFINE N == {r[2] : r \in T}
<1>1. N \subseteq Nat /\ N # {}
  BY Numbers
<1>2. PICK n \in N : \A m \in N : n <= m
  <2> HIDE DEF N
  <2> QED BY <1>1, LeastNat
<1>3. PICK r \in T : n = r[2]
  OBVIOUS
<1>4. \A q \in T : r[2] <= q[2]
  BY <1>2, <1>3
<1> QED BY <1>4

\* next_setted_bit finds the lowest slot in use at or after the given one, if any.
LEMMA NextUsedIs ==
  ASSUME slots \subseteq Rids, NEW p, NEW from \in Nat
  PROVE  /\ NextUsed(p, from) = None => \A r \in slots : r[1] = p => r[2] < from
         /\ NextUsed(p, from) # None =>
              /\ NextUsed(p, from) \in slots
              /\ NextUsed(p, from)[1] = p /\ NextUsed(p, from)[2] >= from
              /\ \A r \in slots : r[1] = p /\ r[2] >= from => NextUsed(p, from)[2] <= r[2]
<1> DEFINE used == {r \in InPage(p) : r[2] >= from}
<1>1. used \subseteq Rids /\ used \subseteq slots
  BY DEF InPage
<1>2. \A r \in slots : r[1] = p /\ r[2] >= from <=> r \in used
  BY DEF InPage
<1>3. CASE used = {}
  <2>1. NextUsed(p, from) = None
    BY <1>3 DEF NextUsed
  <2>2. \A r \in slots : r[1] = p => ~(r[2] >= from)
    BY <1>2, <1>3
  <2>3. \A r \in slots : r[2] \in Nat
    BY Numbers
  <2> QED BY <2>1, <2>2, <2>3
<1>4. CASE used # {}
  <2> DEFINE m == CHOOSE r \in used : \A q \in used : r[2] <= q[2]
  <2>1. NextUsed(p, from) = m
    BY <1>4 DEF NextUsed
  <2> HIDE DEF used
  <2>2. m \in used /\ \A q \in used : m[2] <= q[2]
    BY <1>1, <1>4, LowestSlot
  <2> HIDE DEF m
  <2>3. m \in slots /\ m[1] = p /\ m[2] >= from /\ m # None
    <3>1. m \in slots
      BY <1>1, <2>2
    <3> QED BY <1>2, <2>2, <3>1, Numbers
  <2> QED BY <1>2, <2>1, <2>2, <2>3
<1> QED BY <1>3, <1>4

\* BufferPoolIterator finds the lowest page after the last one and below the page
\* count at open, if any.
LEMMA NextPageIs ==
  ASSUME allocated \subseteq Pages, NEW s
  PROVE  /\ NextPage(s) = None => \A p \in allocated : ~(p > s.last /\ p <= s.page_count)
         /\ NextPage(s) # None =>
              /\ NextPage(s) \in allocated /\ NextPage(s) > s.last
              /\ \A p \in allocated : p > s.last /\ p <= s.page_count => NextPage(s) <= p
<1> DEFINE later == {p \in allocated : p > s.last /\ p <= s.page_count}
<1>1. later \subseteq Nat
  BY Numbers
<1>2. CASE later = {}
  BY <1>2 DEF NextPage
<1>3. CASE later # {}
  <2> DEFINE m == CHOOSE p \in later : \A q \in later : p <= q
  <2>1. NextPage(s) = m
    BY <1>3 DEF NextPage
  <2>2. m \in later /\ \A q \in later : m <= q
    <3> HIDE DEF later
    <3> QED BY <1>1, <1>3, Least
  <2> HIDE DEF m
  <2>3. m \in allocated /\ m > s.last /\ m # None
    BY <2>2, Numbers
  <2> QED BY <2>1, <2>2, <2>3
<1> QED BY <1>2, <1>3

\* The first page of the set is one of it.
LEMMA CandidateIs ==
  ASSUME free_pages \subseteq Pages, free_pages # {}
  PROVE  Candidate \in free_pages
<1>1. free_pages \subseteq Nat
  BY Numbers
<1> QED BY <1>1, Least DEF Candidate

-----------------------------------------------------------------------------
(* How full a page is *)

\* A page has finitely many records, and not fewer when records are added.
LEMMA PageCounts ==
  ASSUME NEW S, S \subseteq Rids, NEW T, T \subseteq S, NEW p \in Pages
  PROVE  LET a == {r \in T : r[1] = p}
             b == {r \in S : r[1] = p}
         IN  Cardinality(a) \in Nat /\ Cardinality(b) \in Nat /\ Cardinality(a) <= Cardinality(b)
<1> DEFINE a == {r \in T : r[1] = p}
           b == {r \in S : r[1] = p}
<1>1. IsFiniteSet(Rids)
  <2>1. IsFiniteSet(0 .. record_capacity - 1)
    BY CapacityAssumption, FS_Interval
  <2> QED BY <2>1, PageAssumption, FS_Product DEF Rids
<1>2. b \subseteq Rids /\ a \subseteq b
  OBVIOUS
<1> HIDE DEF a, b
<1>3. IsFiniteSet(b)
  BY <1>1, <1>2, FS_Subset
<1>4. IsFiniteSet(a) /\ Cardinality(a) <= Cardinality(b)
  BY <1>2, <1>3, FS_Subset
<1>5. Cardinality(a) \in Nat /\ Cardinality(b) \in Nat
  BY <1>3, <1>4, FS_CardinalityType
<1> QED BY <1>4, <1>5 DEF a, b

\* A page that is not full has a free slot, and next_unsetted_bit finds one.
LEMMA FirstFreeIs ==
  ASSUME slots \subseteq Rids, ready \subseteq Pages, NEW p \in ready, ~is_full(p)
  PROVE  FirstFree(p) \in Rids \ slots /\ FirstFree(p)[1] = p
<1> DEFINE all == {p} \X (0 .. record_capacity - 1)
<1>1. all \subseteq Rids /\ \A r \in all : r[1] = p
  BY DEF Rids
<1>2. Cardinality(all) = record_capacity /\ IsFiniteSet(all)
  <2>1. Cardinality({p}) = 1 /\ IsFiniteSet({p})
    BY FS_Singleton
  <2>2. Cardinality(0 .. record_capacity - 1) = record_capacity /\ IsFiniteSet(0 .. record_capacity - 1)
    BY CapacityAssumption, FS_Interval
  <2>3. Cardinality(all) = Cardinality({p}) * Cardinality(0 .. record_capacity - 1) /\ IsFiniteSet(all)
    BY <2>1, <2>2, FS_Product
  <2> QED BY <2>1, <2>2, <2>3, CapacityAssumption
<1>3. all \ slots # {}
  <2> SUFFICES ASSUME all \subseteq slots PROVE FALSE
    OBVIOUS
  <2>1. all \subseteq InPage(p)
    BY <1>1 DEF InPage
  <2>2. Cardinality(InPage(p)) \in Nat
    BY PageCounts DEF InPage
  <2>3. IsFiniteSet(InPage(p))
    <3>1. InPage(p) \subseteq all
      BY Numbers DEF InPage
    <3> QED BY <1>2, <3>1, FS_Subset
  <2>4. Cardinality(all) <= Cardinality(InPage(p))
    BY <2>1, <2>3, FS_Subset
  <2> QED BY <1>2, <2>2, <2>4, CapacityAssumption DEF is_full
<1> HIDE DEF all
<1>4. all \ slots \subseteq Rids
  BY <1>1
<1>5. FirstFree(p) \in all \ slots
  <2>1. FirstFree(p) = CHOOSE r \in all \ slots : \A q \in all \ slots : r[2] <= q[2]
    BY DEF FirstFree, all
  <2> QED BY <1>3, <1>4, <2>1, LowestSlot
<1> QED BY <1>1, <1>5

-----------------------------------------------------------------------------
(* The inductive invariant *)

\* Pages are allocated without a gap, and only an initialised page has records or is
\* in the set insert_record takes pages from.
FileInv ==
  /\ \A p \in allocated : 1 .. p \subseteq allocated
  /\ \A r \in slots : r[1] \in ready
  /\ free_pages \subseteq ready

\* The lock is held while a page is looked for; nobody is in a call during recovery.
LockInv ==
  /\ \A t \in Threads : lock = t <=> pc[t] = "find"
  /\ recovering => Quiet

\* What a thread has latched and what its call is about.
CallInv ==
  \A t \in Threads :
    /\ hold[t] # None <=> pc[t] \in {"enlist_page", "put"}
    /\ hold[t] # None => hold[t] \in ready
    /\ pc[t] = "init" => target[t] # None /\ target[t][1] \in allocated \ ready
    /\ pc[t] = "remove" => target[t] # None /\ target[t][1] \in allocated
    /\ pc[t] = "enlist" => target[t] # None /\ target[t][1] \in ready
    /\ pc[t] = "enlist_page" => InPage(hold[t]) = {} /\ hold[t] \notin free_pages
    /\ pc[t] = "put" => ~is_full(hold[t])

\* A page that is latched for writing is latched by one thread only.
LatchInv ==
  \A t \in Threads : \A u \in Threads \ {t} : \A p \in Pages :
    Writes(t, p) => ~Writes(u, p) /\ ~Reads(u, p)

\* A new page belongs to the thread that allocated it, until it is in the set.
NewInv ==
  \A t \in Threads : \A u \in Threads :
    /\ pc[t] = "init" /\ pc[u] = "init" /\ target[t][1] = target[u][1] => t = u
    /\ pc[t] = "enlist_page" /\ pc[u] = "enlist" => target[u][1] # hold[t]
    /\ pc[t] = "enlist_page" /\ scan[u] # None /\ scan[u].current # None =>
         scan[u].current[1] # hold[t]

\* The thread is about to put the page into the set.
Enlists(t, p) == \/ pc[t] = "enlist" /\ target[t][1] = p
                 \/ pc[t] = "enlist_page" /\ hold[t] = p

\* A page that is not initialised, or has room and is not in the set, has a thread
\* that sees to it.
RoomInv ==
  /\ \A p \in allocated \ ready : \E t \in Threads : pc[t] = "init" /\ target[t][1] = p
  /\ \A p \in ready : is_full(p) \/ p \in free_pages \/ \E t \in Threads : Enlists(t, p)

\* A scanner stands on the page of the record it has fetched, ...
Position(t) ==
  LET s == scan[t]
  IN  /\ pc[t] \in {"move", "use", "scan", "remove", "enlist"}
      /\ pc[t] = "move" => s.next = None
      /\ pc[t] \in {"remove", "enlist"} => ~s.readonly /\ target[t] = s.current /\ s.current # None
      /\ s.page = None <=> s.next = None
      /\ s.next # None => s.next[1] = s.page /\ s.last = s.page /\ s.page \in ready /\ s.next \in maybe[t]
      /\ s.current # None => s.current[1] \in ready /\ s.current \in s.out

\* ... has returned only what is behind it, ...
Behind(t) ==
  LET s == scan[t]
  IN  /\ s.out \subseteq maybe[t] /\ ~s.twice
      /\ \A r \in s.out : r[1] <= s.last /\ (s.next # None /\ r[1] = s.last => r[2] < s.next[2])

\* ... and has what was there all the time behind or ahead of it.
Ahead(t) ==
  LET s == scan[t]
  IN  /\ sure[t] \subseteq slots /\ slots \subseteq maybe[t]
      /\ \A r \in sure[t] :
           /\ r[1] <= s.page_count
           /\ \/ r \in s.out
              \/ r[1] > s.last /\ (s.next = None => pc[t] = "move")
              \/ s.next # None /\ r[1] = s.last /\ r[2] >= s.next[2]

ScanInv ==
  \A t \in Threads :
    IF scan[t] = None THEN pc[t] \notin {"move", "use", "scan"}
                      ELSE Position(t) /\ Behind(t) /\ Ahead(t)

IndInv ==
  TypeOK /\ FileInv /\ LockInv /\ CallInv /\ LatchInv /\ NewInv /\ RoomInv /\ ScanInv

-----------------------------------------------------------------------------
(* What a step leaves alone *)

\* A scan of another thread stays exact when records come and go, if those that come
\* are counted as possible results and those that go are not counted as sure.
LEMMA KeptScan ==
  ASSUME TypeOK, NEW u \in Threads, scan[u] # None, Position(u), Behind(u), Ahead(u),
         scan'[u] = scan[u], pc'[u] = pc[u], target'[u] = target[u],
         ready \subseteq ready', maybe[u] \subseteq maybe'[u], slots' \subseteq maybe'[u],
         sure'[u] \subseteq sure[u], sure'[u] \subseteq slots'
  PROVE  Position(u)' /\ Behind(u)' /\ Ahead(u)'
<1>1. Position(u)'
  BY DEF Position
<1>2. Behind(u)'
  BY DEF Behind
<1>3. Ahead(u)'
  BY DEF Ahead
<1> QED BY <1>1, <1>2, <1>3

\* When only one thread's latches change, and it gets a latch only when it may, no
\* page is latched by two threads of which one writes.
LEMMA LatchStep ==
  ASSUME LatchInv, NEW t \in Threads,
         \A u \in Threads \ {t} : hold'[u] = hold[u] /\ scan'[u] = scan[u],
         \A p \in Pages : Writes(t, p)' => Writes(t, p) \/ CanWrite(t, p),
         \A p \in Pages : Reads(t, p)' => Reads(t, p) \/ CanRead(t, p)
  PROVE  LatchInv'
<1>1. \A u \in Threads \ {t} : \A p \in Pages : (Writes(u, p)' <=> Writes(u, p)) /\ (Reads(u, p)' <=> Reads(u, p))
  BY DEF Writes, Reads
<1>2. \A u \in Threads \ {t} : \A p \in Pages : Writes(t, p)' => ~Writes(u, p)' /\ ~Reads(u, p)'
  BY <1>1 DEF LatchInv, CanWrite
<1>3. \A u \in Threads \ {t} : \A p \in Pages : Writes(u, p)' => ~Writes(t, p)' /\ ~Reads(t, p)'
  BY <1>1 DEF LatchInv, CanWrite, CanRead
<1>4. \A u \in Threads \ {t} : \A v \in Threads \ {t, u} : \A p \in Pages :
        Writes(u, p)' => ~Writes(v, p)' /\ ~Reads(v, p)'
  BY <1>1 DEF LatchInv
<1> QED BY <1>2, <1>3, <1>4 DEF LatchInv

-----------------------------------------------------------------------------
(* One lemma for each action *)

\* A new file has no pages and nobody uses it.
LEMMA InitInd == Init => IndInv
<1> SUFFICES ASSUME Init PROVE IndInv
  OBVIOUS
<1> USE DEF Init
<1>1. TypeOK
  BY DEF TypeOK, Pcs
<1>2. FileInv
  BY DEF FileInv
<1>3. LockInv
  BY NoneAssumption DEF LockInv
<1>4. CallInv
  BY DEF CallInv
<1>5. LatchInv
  BY Numbers DEF LatchInv, Writes, Reads
<1>6. NewInv
  BY DEF NewInv
<1>7. RoomInv
  BY DEF RoomInv
<1>8. ScanInv
  BY DEF ScanInv
<1> QED BY <1>1, <1>2, <1>3, <1>4, <1>5, <1>6, <1>7, <1>8 DEF IndInv

\* insert_record is called.
LEMMA InsertRecordInd ==
  ASSUME IndInv, NEW t \in Threads, InsertRecord(t)
  PROVE  IndInv'
<1> USE DEF IndInv, InsertRecord, Call, Goto, fileVars, historyVars
<1>1. TypeOK'
  BY DEF TypeOK, Pcs
<1>2. FileInv'
  BY DEF FileInv
<1>3. LockInv'
  BY DEF LockInv, TypeOK, Quiet
<1>4. CallInv'
  BY DEF CallInv, TypeOK, InPage, is_full
<1>5. LatchInv'
  BY DEF LatchInv, Writes, Reads
<1>6. NewInv'
  BY DEF NewInv, TypeOK
<1>7. RoomInv'
  BY DEF RoomInv, TypeOK, is_full, InPage, Enlists
<1>8. ScanInv'
  <2>1. scan[t] = None
    BY DEF ScanInv, Position
  <2> QED BY <2>1, KeptScan DEF ScanInv, TypeOK, Ahead
<1> QED BY <1>1, <1>2, <1>3, <1>4, <1>5, <1>6, <1>7, <1>8

\* The lock of the set of pages is taken.
LEMMA TakeLockInd ==
  ASSUME IndInv, NEW t \in Threads, TakeLock(t)
  PROVE  IndInv'
<1> USE DEF IndInv, TakeLock, Goto, fileVars, historyVars
<1>1. TypeOK'
  BY DEF TypeOK, Pcs
<1>2. FileInv'
  BY DEF FileInv
<1>3. LockInv'
  BY NoneAssumption DEF LockInv, TypeOK, Quiet
<1>4. CallInv'
  BY ZenonT(30) DEF CallInv, TypeOK, InPage, is_full
<1>5. LatchInv'
  BY DEF LatchInv, Writes, Reads
<1>6. NewInv'
  BY DEF NewInv, TypeOK
<1>7. RoomInv'
  BY DEF RoomInv, TypeOK, is_full, InPage, Enlists
<1>8. ScanInv'
  <2>1. scan[t] = None
    BY DEF ScanInv, Position
  <2> QED BY <2>1, KeptScan DEF ScanInv, TypeOK, Ahead
<1> QED BY <1>1, <1>2, <1>3, <1>4, <1>5, <1>6, <1>7, <1>8

\* The first page of the set is latched and taken, or dropped because it is full; when
\* there is none, a page will be allocated.
LEMMA FindPageInd ==
  ASSUME IndInv, NEW t \in Threads, FindPage(t)
  PROVE  IndInv'
<1> USE DEF IndInv
<1>0. /\ pc[t] = "find" /\ lock = t /\ scan[t] = None /\ hold[t] = None
      /\ UNCHANGED <<allocated, ready, slots, target, scan, sure, maybe, recovering, calls>>
  BY DEF FindPage, LockInv, CallInv, ScanInv, Position, historyVars
<1>i. \A p : InPage(p)' = InPage(p)
  BY <1>0 DEF InPage
<1>f. \A p : is_full(p)' <=> is_full(p)
  BY <1>0 DEF is_full, InPage
<1>1. CASE free_pages = {}
  <2>0. /\ lock' = None /\ pc' = [pc EXCEPT ![t] = "alloc"] /\ UNCHANGED <<free_pages, hold>>
    BY <1>1 DEF FindPage, Goto
  <2>1. TypeOK'
    BY <1>0, <2>0 DEF TypeOK, Pcs
  <2>2. FileInv'
    BY <1>0, <2>0 DEF FileInv
  <2>3. LockInv'
    BY <1>0, <2>0, NoneAssumption DEF LockInv, TypeOK, Quiet
  <2>4. CallInv'
    BY <1>0, <1>i, <1>f, <2>0 DEF CallInv, TypeOK
  <2>5. LatchInv'
    BY <1>0, <2>0 DEF LatchInv, Writes, Reads
  <2>6. NewInv'
    BY <1>0, <2>0 DEF NewInv, TypeOK
  <2>7. RoomInv'
    BY <1>0, <2>0 DEF RoomInv, TypeOK, is_full, InPage, Enlists
  <2>8. ScanInv'
    BY <1>0, <2>0, KeptScan DEF ScanInv, TypeOK, Ahead
  <2> QED BY <2>1, <2>2, <2>3, <2>4, <2>5, <2>6, <2>7, <2>8
<1>2. CASE free_pages # {} /\ is_full(Candidate)
  <2>0. /\ free_pages' = free_pages \ {Candidate} /\ UNCHANGED <<pc, lock, hold>>
    BY <1>2 DEF FindPage
  <2>1. TypeOK'
    BY <1>0, <2>0 DEF TypeOK, Pcs
  <2>2. FileInv'
    BY <1>0, <2>0 DEF FileInv
  <2>3. LockInv'
    BY <1>0, <2>0 DEF LockInv, Quiet
  <2>4. CallInv'
    BY <1>0, <1>i, <1>f, <2>0 DEF CallInv, TypeOK
  <2>5. LatchInv'
    BY <1>0, <2>0 DEF LatchInv, Writes, Reads
  <2>6. NewInv'
    BY <1>0, <2>0 DEF NewInv
  <2>7. RoomInv'
    BY <1>0, <1>2, <1>f, <2>0 DEF RoomInv, Enlists
  <2>8. ScanInv'
    BY <1>0, <2>0, KeptScan DEF ScanInv, TypeOK, Ahead
  <2> QED BY <2>1, <2>2, <2>3, <2>4, <2>5, <2>6, <2>7, <2>8
<1>3. CASE free_pages # {} /\ ~is_full(Candidate)
  <2>0. /\ hold' = [hold EXCEPT ![t] = Candidate] /\ lock' = None /\ CanWrite(t, Candidate)
        /\ pc' = [pc EXCEPT ![t] = "put"] /\ UNCHANGED free_pages
    BY <1>3 DEF FindPage, Goto
  <2>c. Candidate \in free_pages /\ Candidate \in ready /\ Candidate \in Pages /\ Candidate # None
    BY <1>3, CandidateIs, Numbers DEF FileInv, TypeOK
  <2>1. TypeOK'
    BY <1>0, <2>0, <2>c DEF TypeOK, Pcs
  <2>2. FileInv'
    BY <1>0, <2>0 DEF FileInv
  <2>3. LockInv'
    BY <1>0, <2>0, NoneAssumption DEF LockInv, TypeOK, Quiet
  <2>4. CallInv'
    BY <1>0, <1>3, <1>i, <1>f, <2>0, <2>c DEF CallInv, TypeOK
  <2>5. LatchInv'
    <3>1. \A p \in Pages : Writes(t, p)' => Writes(t, p) \/ CanWrite(t, p)
      BY <1>0, <2>0 DEF Writes, TypeOK
    <3>2. \A p \in Pages : Reads(t, p)' => Reads(t, p) \/ CanRead(t, p)
      BY <1>0, <2>0 DEF Reads, TypeOK
    <3>3. \A u \in Threads \ {t} : hold'[u] = hold[u] /\ scan'[u] = scan[u]
      BY <1>0, <2>0 DEF TypeOK
    <3> QED BY <3>1, <3>2, <3>3, LatchStep
  <2>6. NewInv'
    BY <1>0, <2>0 DEF NewInv, TypeOK
  <2>7. RoomInv'
    BY <1>0, <2>0, <1>f DEF RoomInv, TypeOK, Enlists
  <2>8. ScanInv'
    BY <1>0, <2>0, KeptScan DEF ScanInv, TypeOK, Ahead
  <2> QED BY <2>1, <2>2, <2>3, <2>4, <2>5, <2>6, <2>7, <2>8
<1> QED BY <1>1, <1>2, <1>3

\* The buffer pool gives the file a page, which nobody has initialised.
LEMMA AllocatePageInd ==
  ASSUME IndInv, NEW t \in Threads, AllocatePage(t)
  PROVE  IndInv'
<1> USE DEF IndInv
<1>0. /\ pc[t] = "alloc" /\ lock # t /\ scan[t] = None /\ hold[t] = None
      /\ UNCHANGED <<ready, slots, free_pages, lock, hold, scan, sure, maybe, recovering, calls>>
  BY DEF AllocatePage, LockInv, CallInv, ScanInv, Position, historyVars
<1>i. \A p : InPage(p)' = InPage(p)
  BY <1>0 DEF InPage
<1>f. \A p : is_full(p)' <=> is_full(p)
  BY <1>0 DEF is_full, InPage
<1>1. CASE allocated = Pages
  <2>0. pc' = [pc EXCEPT ![t] = "idle"] /\ UNCHANGED <<allocated, target>>
    BY <1>0, <1>1 DEF AllocatePage, Finish, Goto
  <2>1. TypeOK'
    BY <1>0, <2>0 DEF TypeOK, Pcs
  <2>2. FileInv'
    BY <1>0, <2>0 DEF FileInv
  <2>3. LockInv'
    BY <1>0, <2>0 DEF LockInv, TypeOK, Quiet
  <2>4. CallInv'
    BY <1>0, <1>i, <1>f, <2>0 DEF CallInv, TypeOK
  <2>5. LatchInv'
    BY <1>0, <2>0 DEF LatchInv, Writes, Reads
  <2>6. NewInv'
    BY <1>0, <2>0 DEF NewInv, TypeOK
  <2>7. RoomInv'
    BY <1>0, <1>f, <2>0 DEF RoomInv, TypeOK, Enlists
  <2>8. ScanInv'
    BY <1>0, <2>0, KeptScan DEF ScanInv, TypeOK, Ahead
  <2> QED BY <2>1, <2>2, <2>3, <2>4, <2>5, <2>6, <2>7, <2>8
<1>2. CASE allocated # Pages
  <2> DEFINE p == CHOOSE q \in Pages \ allocated : \A r \in Pages \ allocated : q <= r
  <2>0. /\ pc' = [pc EXCEPT ![t] = "init"] /\ allocated' = allocated \cup {p}
        /\ target' = [target EXCEPT ![t] = <<p, 0>>]
    BY <1>2 DEF AllocatePage, Goto
  <2>p. p \in Pages \ allocated /\ \A q \in Pages \ allocated : p <= q
    <3>1. Pages \ allocated \subseteq Nat /\ Pages \ allocated # {}
      BY <1>2, Numbers DEF TypeOK
    <3> QED BY <3>1, Least
  <2> HIDE DEF p
  <2>r. <<p, 0>> \in Rids /\ <<p, 0>>[1] = p /\ <<p, 0>> # None
    BY <2>p, CapacityAssumption, Numbers DEF Rids
  <2>1. TypeOK'
    BY <1>0, <2>0, <2>p, <2>r DEF TypeOK, Pcs
  <2>2. FileInv'
    <3>1. 1 .. p \subseteq allocated'
      <4> SUFFICES ASSUME NEW q \in 1 .. p, q # p PROVE q \in allocated
        BY <2>0
      <4>1. q \in Pages /\ q < p /\ p \in Nat /\ q \in Nat
        BY <2>p, PageAssumption
      <4> QED BY <2>p, <4>1
    <3> QED BY <1>0, <2>0, <3>1 DEF FileInv
  <2>3. LockInv'
    BY <1>0, <2>0 DEF LockInv, TypeOK, Quiet
  <2>4. CallInv'
    BY <1>0, <1>i, <1>f, <2>0, <2>p, <2>r DEF CallInv, TypeOK
  <2>5. LatchInv'
    BY <1>0, <2>0 DEF LatchInv, Writes, Reads
  <2>6. NewInv'
    <3>1. \A u \in Threads \ {t} : pc[u] = "init" => target[u][1] # p
      BY <2>p DEF CallInv
    <3> QED BY <1>0, <2>0, <2>r, <3>1 DEF NewInv, TypeOK
  <2>7. RoomInv'
    <3>1. \A u \in Threads : u # t => pc'[u] = pc[u] /\ target'[u] = target[u]
      BY <2>0 DEF TypeOK
    <3>2. pc'[t] = "init" /\ target'[t][1] = p
      BY <2>0, <2>r DEF TypeOK
    <3>3. \A q \in allocated' \ ready' : \E u \in Threads : pc'[u] = "init" /\ target'[u][1] = q
      BY <1>0, <2>0, <3>1, <3>2 DEF RoomInv
    <3>4. \A q \in ready' : is_full(q)' \/ q \in free_pages' \/ \E u \in Threads : Enlists(u, q)'
      BY <1>0, <1>f, <3>1 DEF RoomInv, Enlists
    <3> QED BY <3>3, <3>4 DEF RoomInv
  <2>8. ScanInv'
    BY <1>0, <2>0, KeptScan DEF ScanInv, TypeOK, Ahead
  <2> QED BY <2>1, <2>2, <2>3, <2>4, <2>5, <2>6, <2>7, <2>8
<1> QED BY <1>1, <1>2

\* The new page is initialised under its latch.
LEMMA InitEmptyPageInd ==
  ASSUME IndInv, NEW t \in Threads, InitEmptyPage(t)
  PROVE  IndInv'
<1> USE DEF IndInv
<1> DEFINE p == target[t][1]
<1>0. /\ pc[t] = "init" /\ lock # t /\ scan[t] = None /\ hold[t] = None /\ CanWrite(t, p)
      /\ ready' = ready \cup {p} /\ hold' = [hold EXCEPT ![t] = p]
      /\ pc' = [pc EXCEPT ![t] = "enlist_page"]
      /\ UNCHANGED <<allocated, slots, free_pages, lock, target, scan, sure, maybe, recovering, calls>>
  BY DEF InitEmptyPage, LockInv, CallInv, ScanInv, Position, historyVars, Goto
<1>p. p \in allocated /\ p \notin ready /\ p \in Pages /\ p # None
  BY <1>0, Numbers DEF CallInv, TypeOK
<1> HIDE DEF p
<1>i. \A q : InPage(q)' = InPage(q)
  BY <1>0 DEF InPage
<1>e. InPage(p) = {}
  BY <1>p DEF InPage, FileInv
<1>f. \A q : q # p => (is_full(q)' <=> is_full(q))
  BY <1>0 DEF is_full, InPage
<1>1. TypeOK'
  BY <1>0, <1>p DEF TypeOK, Pcs
<1>2. FileInv'
  BY <1>0 DEF FileInv
<1>3. LockInv'
  BY <1>0 DEF LockInv, TypeOK, Quiet
<1>4. CallInv'
  <2>1. p \notin free_pages
    BY <1>p DEF FileInv
  <2>2. \A u \in Threads \ {t} : pc[u] = "init" => target[u][1] # p
    BY <1>0 DEF NewInv, p
  <2>3. \A u \in Threads \ {t} : hold[u] # None => hold[u] # p
    BY <1>p DEF CallInv
  <2>4. ASSUME NEW u \in Threads \ {t}
        PROVE  pc'[u] = pc[u] /\ hold'[u] = hold[u] /\ target'[u] = target[u]
    BY <1>0 DEF TypeOK
  <2>5. pc'[t] = "enlist_page" /\ hold'[t] = p
    BY <1>0 DEF TypeOK
  <2> QED BY <1>0, <1>p, <1>i, <1>e, <1>f, <2>1, <2>2, <2>3, <2>4, <2>5 DEF CallInv
<1>5. LatchInv'
  <2>1. \A q \in Pages : Writes(t, q)' => Writes(t, q) \/ CanWrite(t, q)
    BY <1>0 DEF Writes, TypeOK
  <2>2. \A q \in Pages : Reads(t, q)' => Reads(t, q) \/ CanRead(t, q)
    BY <1>0 DEF Reads, TypeOK
  <2>3. \A u \in Threads \ {t} : hold'[u] = hold[u] /\ scan'[u] = scan[u]
    BY <1>0 DEF TypeOK
  <2> QED BY <2>1, <2>2, <2>3, LatchStep
<1>6. NewInv'
  <2>1. \A u \in Threads : pc[u] = "enlist" => target[u][1] # p
    BY <1>p DEF CallInv
  <2>2. \A u \in Threads : scan[u] # None /\ scan[u].current # None => scan[u].current[1] # p
    BY <1>p DEF ScanInv, Position
  <2> QED BY <1>0, <2>1, <2>2 DEF NewInv, TypeOK
<1>7. RoomInv'
  <2>1. \A u \in Threads : u # t => pc'[u] = pc[u] /\ hold'[u] = hold[u] /\ target'[u] = target[u]
    BY <1>0 DEF TypeOK
  <2>2. pc'[t] = "enlist_page" /\ hold'[t] = p
    BY <1>0 DEF TypeOK
  <2>3. \A q \in allocated' \ ready' : \E u \in Threads : pc'[u] = "init" /\ target'[u][1] = q
    BY <1>0, <2>1 DEF RoomInv, p
  <2>4. \A q \in ready' : is_full(q)' \/ q \in free_pages' \/ \E u \in Threads : Enlists(u, q)'
    BY <1>0, <1>f, <2>1, <2>2 DEF RoomInv, Enlists
  <2> QED BY <2>3, <2>4 DEF RoomInv
<1>8. ScanInv'
  BY <1>0, KeptScan DEF ScanInv, TypeOK, Ahead
<1> QED BY <1>1, <1>2, <1>3, <1>4, <1>5, <1>6, <1>7, <1>8

\* The new page enters the set while its latch is held.
LEMMA EnlistPageInd ==
  ASSUME IndInv, NEW t \in Threads, EnlistPage(t)
  PROVE  IndInv'
<1> USE DEF IndInv
<1> DEFINE p == hold[t]
<1>0. /\ pc[t] = "enlist_page" /\ scan[t] = None /\ p # None
      /\ lock = None /\ lock # t
      /\ free_pages' = free_pages \cup {p} /\ pc' = [pc EXCEPT ![t] = "put"]
      /\ UNCHANGED <<allocated, ready, slots, lock, hold, target, scan, sure, maybe, recovering, calls>>
  BY NoneAssumption DEF EnlistPage, CallInv, ScanInv, Position, historyVars, Goto
<1>p. p \in ready /\ p \in Pages /\ InPage(p) = {}
  BY <1>0 DEF CallInv, TypeOK
<1>o. \A u \in Threads \ {t} : pc[u] = "enlist_page" => hold[u] # p
  BY <1>0, <1>p DEF LatchInv, Writes
<1> HIDE DEF p
<1>i. \A q : InPage(q)' = InPage(q)
  BY <1>0 DEF InPage
<1>f. \A q : is_full(q)' <=> is_full(q)
  BY <1>0 DEF is_full, InPage
<1>e. ~is_full(p)
  BY <1>p, FS_EmptySet, CapacityAssumption DEF is_full
<1>1. TypeOK'
  BY <1>0, <1>p DEF TypeOK, Pcs
<1>2. FileInv'
  BY <1>0, <1>p DEF FileInv
<1>3. LockInv'
  BY <1>0 DEF LockInv, TypeOK, Quiet
<1>4. CallInv'
  <2>1. ASSUME NEW u \in Threads \ {t} PROVE pc'[u] = pc[u]
    BY <1>0 DEF TypeOK
  <2>2. pc'[t] = "put" /\ hold'[t] = p
    BY <1>0 DEF TypeOK, p
  <2> QED BY <1>0, <1>p, <1>o, <1>i, <1>f, <1>e, <2>1, <2>2 DEF CallInv
<1>5. LatchInv'
  BY <1>0 DEF LatchInv, Writes, Reads
<1>6. NewInv'
  BY <1>0 DEF NewInv, TypeOK
<1>7. RoomInv'
  <2>1. \A u \in Threads : u # t => pc'[u] = pc[u] /\ hold'[u] = hold[u] /\ target'[u] = target[u]
    BY <1>0 DEF TypeOK
  <2>2. \A q \in allocated' \ ready' : \E u \in Threads : pc'[u] = "init" /\ target'[u][1] = q
    BY <1>0, <2>1 DEF RoomInv
  <2>3. \A q \in ready' : is_full(q)' \/ q \in free_pages' \/ \E u \in Threads : Enlists(u, q)'
    BY <1>0, <1>f, <2>1 DEF RoomInv, Enlists, p
  <2> QED BY <2>2, <2>3 DEF RoomInv
<1>8. ScanInv'
  BY <1>0, KeptScan DEF ScanInv, TypeOK, Ahead
<1> QED BY <1>1, <1>2, <1>3, <1>4, <1>5, <1>6, <1>7, <1>8

\* The record is put into a free slot of the latched page, and the call is over.
LEMMA PutRecordInd ==
  ASSUME IndInv, NEW t \in Threads, PutRecord(t)
  PROVE  IndInv'
<1> USE DEF IndInv
<1> DEFINE p == hold[t]
           r == FirstFree(p)
<1>a. pc[t] = "put" /\ lock # t /\ scan[t] = None /\ p # None /\ p \in ready /\ p \in Pages /\ ~is_full(p)
  BY DEF PutRecord, LockInv, CallInv, ScanInv, Position, TypeOK
<1>0. /\ slots' = slots \cup {r}
      /\ maybe' = [u \in Threads |-> IF scan[u] # None THEN maybe[u] \cup {r} ELSE maybe[u]]
      /\ hold' = [hold EXCEPT ![t] = None] /\ target' = [target EXCEPT ![t] = None]
      /\ pc' = [pc EXCEPT ![t] = "idle"]
      /\ UNCHANGED <<allocated, ready, free_pages, lock, scan, sure, recovering, calls>>
  BY <1>a DEF PutRecord, Appears, Finish, Goto
<1>r. r \in Rids /\ r \notin slots /\ r[1] = p
  BY <1>a, FirstFreeIs DEF TypeOK
<1>o. \A u \in Threads \ {t} : hold[u] # p
  BY <1>a DEF LatchInv, Writes
<1> HIDE DEF p, r
<1>i. \A q : q # p => InPage(q)' = InPage(q)
  BY <1>0, <1>r DEF InPage
<1>f. \A q : q # p => (is_full(q)' <=> is_full(q))
  BY <1>0, <1>i DEF is_full
<1>1. TypeOK'
  BY <1>0, <1>r DEF TypeOK, Pcs
<1>2. FileInv'
  BY <1>0, <1>a, <1>r DEF FileInv
<1>3. LockInv'
  BY <1>0, <1>a DEF LockInv, TypeOK, Quiet
<1>4. CallInv'
  <2>1. ASSUME NEW u \in Threads \ {t}
        PROVE  pc'[u] = pc[u] /\ hold'[u] = hold[u] /\ target'[u] = target[u]
    BY <1>0 DEF TypeOK
  <2>2. pc'[t] = "idle" /\ hold'[t] = None
    BY <1>0 DEF TypeOK
  <2> QED BY <1>0, <1>o, <1>i, <1>f, <2>1, <2>2 DEF CallInv
<1>5. LatchInv'
  <2>1. \A q \in Pages : Writes(t, q)' => Writes(t, q) \/ CanWrite(t, q)
    BY <1>0, <1>a, Numbers DEF Writes, TypeOK
  <2>2. \A q \in Pages : Reads(t, q)' => Reads(t, q) \/ CanRead(t, q)
    BY <1>0 DEF Reads, TypeOK
  <2>3. \A u \in Threads \ {t} : hold'[u] = hold[u] /\ scan'[u] = scan[u]
    BY <1>0 DEF TypeOK
  <2> QED BY <2>1, <2>2, <2>3, LatchStep
<1>6. NewInv'
  BY <1>0 DEF NewInv, TypeOK
<1>7. RoomInv'
  <2>1. \A u \in Threads : u # t => pc'[u] = pc[u] /\ hold'[u] = hold[u] /\ target'[u] = target[u]
    BY <1>0 DEF TypeOK
  <2>2. \A q \in allocated' \ ready' : \E u \in Threads : pc'[u] = "init" /\ target'[u][1] = q
    BY <1>0, <1>a, <2>1 DEF RoomInv
  <2>3. ~Enlists(t, p)
    BY <1>a DEF Enlists
  <2>4. \A q \in ready' : is_full(q)' \/ q \in free_pages' \/ \E u \in Threads : Enlists(u, q)'
    BY <1>0, <1>a, <1>f, <2>1, <2>3 DEF RoomInv, Enlists
  <2> QED BY <2>2, <2>4 DEF RoomInv
<1>8. ScanInv'
  <2>1. ASSUME NEW u \in Threads, scan[u] # None PROVE Position(u)' /\ Behind(u)' /\ Ahead(u)'
    <3>1. u # t /\ pc'[u] = pc[u] /\ target'[u] = target[u] /\ maybe'[u] = maybe[u] \cup {r}
      BY <1>0, <1>a, <2>1 DEF TypeOK
    <3>2. Position(u) /\ Behind(u) /\ Ahead(u)
      BY <2>1 DEF ScanInv
    <3> QED BY <1>0, <2>1, <3>1, <3>2, KeptScan DEF Ahead
  <2>2. ASSUME NEW u \in Threads, scan[u] = None PROVE pc'[u] \notin {"move", "use", "scan"}
    BY <1>0, <2>2 DEF ScanInv, TypeOK
  <2> QED BY <1>0, <2>1, <2>2 DEF ScanInv
<1> QED BY <1>1, <1>2, <1>3, <1>4, <1>5, <1>6, <1>7, <1>8

\* delete_record is called, with a record of a page of the file.
LEMMA DeleteRecordInd ==
  ASSUME IndInv, NEW t \in Threads, NEW r \in Rids, r[1] \in allocated, DeleteRecord(t, r)
  PROVE  IndInv'
<1> USE DEF IndInv
<1>0. /\ pc[t] = "idle" /\ lock # t /\ scan[t] = None /\ hold[t] = None /\ ~recovering
      /\ calls' = calls + 1 /\ pc' = [pc EXCEPT ![t] = "remove"] /\ target' = [target EXCEPT ![t] = r]
      /\ UNCHANGED <<allocated, ready, slots, free_pages, lock, hold, scan, sure, maybe, recovering>>
  BY DEF DeleteRecord, Call, Goto, LockInv, CallInv, ScanInv, Position, historyVars, fileVars
<1>r. r # None
  BY Numbers
<1>i. \A q : InPage(q)' = InPage(q)
  BY <1>0 DEF InPage
<1>f. \A q : is_full(q)' <=> is_full(q)
  BY <1>0 DEF is_full, InPage
<1>1. TypeOK'
  BY <1>0 DEF TypeOK, Pcs
<1>2. FileInv'
  BY <1>0 DEF FileInv
<1>3. LockInv'
  BY <1>0 DEF LockInv, TypeOK, Quiet
<1>4. CallInv'
  BY <1>0, <1>r, <1>i, <1>f DEF CallInv, TypeOK
<1>5. LatchInv'
  BY <1>0 DEF LatchInv, Writes, Reads
<1>6. NewInv'
  BY <1>0 DEF NewInv, TypeOK
<1>7. RoomInv'
  BY <1>0, <1>f DEF RoomInv, TypeOK, Enlists
<1>8. ScanInv'
  BY <1>0, KeptScan DEF ScanInv, TypeOK, Ahead
<1> QED BY <1>1, <1>2, <1>3, <1>4, <1>5, <1>6, <1>7, <1>8

\* The slot of the record is freed under the page's latch; a record that is not there
\* ends the statement, and its scan.
LEMMA RemoveRecordInd ==
  ASSUME IndInv, NEW t \in Threads, RemoveRecord(t)
  PROVE  IndInv'
<1> USE DEF IndInv
<1> DEFINE r == target[t]
<1>0. /\ pc[t] = "remove" /\ lock # t /\ hold[t] = None /\ r # None /\ r \in Rids /\ r[1] \in allocated
      /\ UNCHANGED <<allocated, ready, free_pages, lock, hold, recovering, calls>>
  BY DEF RemoveRecord, LockInv, CallInv, TypeOK
<1>1. CASE r \in slots
  <2>0. /\ slots' = slots \ {r} /\ sure' = [u \in Threads |-> sure[u] \ {r}]
        /\ pc' = [pc EXCEPT ![t] = "enlist"] /\ UNCHANGED <<target, scan, maybe>>
    BY <1>1 DEF RemoveRecord, Vanishes, Goto
  <2>r. r[1] \in ready
    BY <1>1 DEF FileInv
  <2>i. /\ \A q : InPage(q)' \subseteq InPage(q)
        /\ \A q : q # r[1] => InPage(q)' = InPage(q)
        /\ r \in InPage(r[1])
    BY <1>1, <2>0 DEF InPage
  <2>f. /\ \A q : q # r[1] => (is_full(q)' <=> is_full(q))
        /\ \A q \in ready : is_full(q)' => is_full(q)
    <3>1. \A q : q # r[1] => (is_full(q)' <=> is_full(q))
      BY <1>0, <2>i DEF is_full
    <3>2. ASSUME NEW q \in ready PROVE Cardinality(InPage(q)) \in Nat /\ Cardinality(InPage(q)') \in Nat
                                       /\ Cardinality(InPage(q)') <= Cardinality(InPage(q))
      <4>1. slots \subseteq Rids /\ slots' \subseteq slots /\ q \in Pages
        BY <2>0 DEF TypeOK
      <4> QED BY <4>1, PageCounts DEF InPage
    <3>3. \A q \in ready : is_full(q)' => is_full(q)
      BY <1>0, <3>2, CapacityAssumption DEF is_full
    <3> QED BY <3>1, <3>3
  <2> HIDE DEF r
  <2>t. pc'[t] = "enlist" /\ target'[t] = r
    BY <2>0 DEF TypeOK, r
  <2>u. \A u \in Threads : u # t => pc'[u] = pc[u]
    BY <2>0 DEF TypeOK
  <2>1. TypeOK'
    BY <1>0, <2>0 DEF TypeOK, Pcs
  <2>2. FileInv'
    BY <1>0, <2>0 DEF FileInv
  <2>3. LockInv'
    BY <1>0, <2>0 DEF LockInv, TypeOK, Quiet
  <2>4. CallInv'
    <3>1. ASSUME NEW u \in Threads, u # t, pc[u] = "put" PROVE ~is_full(hold[u])'
      BY <1>0, <2>0, <2>f, <3>1 DEF CallInv
    <3> QED BY <1>0, <2>0, <2>r, <2>i, <2>t, <2>u, <3>1 DEF CallInv
  <2>5. LatchInv'
    BY <1>0, <2>0 DEF LatchInv, Writes, Reads
  <2>6. NewInv'
    <3>1. \A u \in Threads : pc[u] = "enlist_page" => r[1] # hold[u]
      BY <2>i DEF CallInv
    <3> QED BY <1>0, <2>0, <2>t, <2>u, <3>1 DEF NewInv
  <2>7. RoomInv'
    <3>1. \A q \in allocated' \ ready' : \E u \in Threads : pc'[u] = "init" /\ target'[u][1] = q
      BY <1>0, <2>0, <2>u DEF RoomInv
    <3>2. \A q \in ready' : is_full(q)' \/ q \in free_pages' \/ \E u \in Threads : Enlists(u, q)'
      BY <1>0, <2>0, <2>f, <2>u, <2>t DEF RoomInv, Enlists
    <3> QED BY <3>1, <3>2 DEF RoomInv
  <2>8. ScanInv'
    <3>1. ASSUME NEW u \in Threads, scan[u] # None, u # t PROVE Position(u)' /\ Behind(u)' /\ Ahead(u)'
      <4>1. sure'[u] \subseteq sure[u] /\ sure'[u] \subseteq slots' /\ slots' \subseteq maybe[u]
        BY <2>0, <3>1 DEF ScanInv, Ahead
      <4>2. Position(u) /\ Behind(u) /\ Ahead(u)
        BY <3>1 DEF ScanInv
      <4> QED BY <1>0, <2>0, <2>u, <3>1, <4>1, <4>2, KeptScan
    <3>2. ASSUME scan[t] # None PROVE Position(t)' /\ Behind(t)' /\ Ahead(t)'
      <4>1. Position(t) /\ Behind(t) /\ Ahead(t)
        BY <3>2 DEF ScanInv
      <4>2. Position(t)'
        BY <1>0, <2>0, <2>t, <4>1 DEF Position, r
      <4>3. Behind(t)'
        BY <2>0, <4>1 DEF Behind
      <4>4. Ahead(t)'
        BY <1>0, <2>0, <2>t, <4>1 DEF Ahead, Position
      <4> QED BY <4>2, <4>3, <4>4
    <3>3. ASSUME NEW u \in Threads, scan[u] = None PROVE pc'[u] \notin {"move", "use", "scan"}
      BY <2>t, <2>u, <3>3 DEF ScanInv
    <3> QED BY <2>0, <3>1, <3>2, <3>3 DEF ScanInv
  <2> QED BY <2>1, <2>2, <2>3, <2>4, <2>5, <2>6, <2>7, <2>8
<1>2. CASE r \notin slots
  <2>0. /\ scan' = [scan EXCEPT ![t] = None] /\ sure' = [sure EXCEPT ![t] = {}]
        /\ maybe' = [maybe EXCEPT ![t] = {}] /\ target' = [target EXCEPT ![t] = None]
        /\ pc' = [pc EXCEPT ![t] = "idle"] /\ UNCHANGED slots
    BY <1>2 DEF RemoveRecord, EndScan, Goto
  <2> HIDE DEF r
  <2>i. \A q : InPage(q)' = InPage(q)
    BY <2>0 DEF InPage
  <2>f. \A q : is_full(q)' <=> is_full(q)
    BY <1>0, <2>i DEF is_full
  <2>t. pc'[t] = "idle" /\ scan'[t] = None
    BY <2>0 DEF TypeOK
  <2>u. \A u \in Threads : u # t => /\ pc'[u] = pc[u] /\ target'[u] = target[u] /\ scan'[u] = scan[u]
                                    /\ sure'[u] = sure[u] /\ maybe'[u] = maybe[u]
    BY <2>0 DEF TypeOK
  <2>1. TypeOK'
    BY <1>0, <2>0 DEF TypeOK, Pcs
  <2>2. FileInv'
    BY <1>0, <2>0 DEF FileInv
  <2>3. LockInv'
    BY <1>0, <2>0 DEF LockInv, TypeOK, Quiet
  <2>4. CallInv'
    BY <1>0, <2>i, <2>f, <2>t, <2>u DEF CallInv
  <2>5. LatchInv'
    <3>1. \A q \in Pages : Writes(t, q)' => Writes(t, q) \/ CanWrite(t, q)
      BY <1>0, <2>t DEF Writes
    <3>2. \A q \in Pages : Reads(t, q)' => Reads(t, q) \/ CanRead(t, q)
      BY <2>t DEF Reads
    <3> QED BY <1>0, <2>u, <3>1, <3>2, LatchStep
  <2>6. NewInv'
    BY <1>0, <2>t, <2>u DEF NewInv
  <2>7. RoomInv'
    <3>1. \A q \in allocated' \ ready' : \E u \in Threads : pc'[u] = "init" /\ target'[u][1] = q
      BY <1>0, <2>u DEF RoomInv
    <3>2. \A q \in ready' : is_full(q)' \/ q \in free_pages' \/ \E u \in Threads : Enlists(u, q)'
      BY <1>0, <2>f, <2>u DEF RoomInv, Enlists
    <3> QED BY <3>1, <3>2 DEF RoomInv
  <2>8. ScanInv'
    <3>1. ASSUME NEW u \in Threads, u # t, scan[u] # None PROVE Position(u)' /\ Behind(u)' /\ Ahead(u)'
      <4>1. Position(u) /\ Behind(u) /\ Ahead(u)
        BY <3>1 DEF ScanInv
      <4> QED BY <1>0, <2>0, <2>u, <3>1, <4>1, KeptScan DEF Ahead
    <3> QED BY <2>t, <2>u, <3>1 DEF ScanInv
  <2> QED BY <2>1, <2>2, <2>3, <2>4, <2>5, <2>6, <2>7, <2>8
<1> QED BY <1>1, <1>2

\* The page of the deleted record goes into the set, and the call is over.
LEMMA EnlistInd ==
  ASSUME IndInv, NEW t \in Threads, Enlist(t)
  PROVE  IndInv'
<1> USE DEF IndInv
<1> DEFINE p == target[t][1]
           back == IF scan[t] # None THEN "scan" ELSE "idle"
<1>0. /\ pc[t] = "enlist" /\ lock # t /\ hold[t] = None /\ p \in ready
      /\ free_pages' = free_pages \cup {p} /\ target' = [target EXCEPT ![t] = None]
      /\ pc' = [pc EXCEPT ![t] = back]
      /\ UNCHANGED <<allocated, ready, slots, lock, hold, scan, sure, maybe, recovering, calls>>
  BY DEF Enlist, Finish, Goto, LockInv, CallInv, historyVars
<1>o. \A u \in Threads : pc[u] = "enlist_page" => hold[u] # p
  BY <1>0 DEF NewInv
<1>b. back \in {"scan", "idle"} /\ (back = "scan" <=> scan[t] # None)
  OBVIOUS
<1>t. pc'[t] = back /\ target'[t] = None
  BY <1>0 DEF TypeOK
<1>u. \A u \in Threads : u # t => pc'[u] = pc[u] /\ target'[u] = target[u]
  BY <1>0 DEF TypeOK
<1>i. \A q : InPage(q)' = InPage(q)
  BY <1>0 DEF InPage
<1>f. \A q : is_full(q)' <=> is_full(q)
  BY <1>0, <1>i DEF is_full
<1>e. \A q : Enlists(t, q) => q = p
  BY <1>0 DEF Enlists
<1> HIDE DEF p, back
<1>1. TypeOK'
  BY <1>0, <1>b DEF TypeOK, Pcs
<1>2. FileInv'
  BY <1>0 DEF FileInv
<1>3. LockInv'
  BY <1>0, <1>b, <1>t, <1>u DEF LockInv, Quiet
<1>4. CallInv'
  BY <1>0, <1>o, <1>b, <1>i, <1>f, <1>t, <1>u DEF CallInv
<1>5. LatchInv'
  BY <1>0 DEF LatchInv, Writes, Reads
<1>6. NewInv'
  BY <1>0, <1>b, <1>t, <1>u DEF NewInv
<1>7. RoomInv'
  <2>1. \A q \in allocated' \ ready' : \E u \in Threads : pc'[u] = "init" /\ target'[u][1] = q
    BY <1>0, <1>u DEF RoomInv
  <2>2. \A q \in ready' : is_full(q)' \/ q \in free_pages' \/ \E u \in Threads : Enlists(u, q)'
    BY <1>0, <1>f, <1>u, <1>e DEF RoomInv, Enlists
  <2> QED BY <2>1, <2>2 DEF RoomInv
<1>8. ScanInv'
  <2>1. ASSUME NEW u \in Threads, u # t, scan[u] # None PROVE Position(u)' /\ Behind(u)' /\ Ahead(u)'
    <3>1. Position(u) /\ Behind(u) /\ Ahead(u)
      BY <2>1 DEF ScanInv
    <3> QED BY <1>0, <1>u, <2>1, <3>1, KeptScan DEF Ahead
  <2>2. ASSUME scan[t] # None PROVE Position(t)' /\ Behind(t)' /\ Ahead(t)'
    <3>1. Position(t) /\ Behind(t) /\ Ahead(t)
      BY <2>2 DEF ScanInv
    <3>2. Position(t)'
      BY <1>0, <1>b, <1>t, <2>2, <3>1 DEF Position
    <3>3. Behind(t)'
      BY <1>0, <3>1 DEF Behind
    <3>4. Ahead(t)'
      BY <1>0, <3>1 DEF Ahead
    <3> QED BY <3>2, <3>3, <3>4
  <2>3. ASSUME NEW u \in Threads, scan[u] = None PROVE pc'[u] \notin {"move", "use", "scan"}
    BY <1>b, <1>t, <1>u, <2>3 DEF ScanInv
  <2> QED BY <1>0, <2>1, <2>2, <2>3 DEF ScanInv
<1> QED BY <1>1, <1>2, <1>3, <1>4, <1>5, <1>6, <1>7, <1>8

\* A scan is opened: the pages it will visit are those of the file.
LEMMA OpenScanInd ==
  ASSUME IndInv, NEW t \in Threads, NEW readonly \in BOOLEAN, OpenScan(t, readonly)
  PROVE  IndInv'
<1> USE DEF IndInv
<1> DEFINE s == [readonly |-> readonly, page |-> None, last |-> 0,
                 page_count |-> Cardinality(allocated),
                 next |-> None, current |-> None, out |-> {}, twice |-> FALSE]
<1>0. /\ pc[t] = "idle" /\ lock # t /\ scan[t] = None /\ hold[t] = None /\ ~recovering
      /\ calls' = calls + 1 /\ pc' = [pc EXCEPT ![t] = "move"] /\ scan' = [scan EXCEPT ![t] = s]
      /\ sure' = [sure EXCEPT ![t] = slots] /\ maybe' = [maybe EXCEPT ![t] = slots]
      /\ UNCHANGED <<allocated, ready, slots, free_pages, lock, hold, target, recovering>>
  BY DEF OpenScan, Call, Goto, LockInv, CallInv, ScanInv, Position, fileVars
<1>c. IsFiniteSet(allocated) /\ Cardinality(allocated) \in Nat
  BY PageAssumption, FS_Subset, FS_CardinalityType DEF TypeOK
<1>s. s \in Scanners /\ s # None
  BY <1>c, Numbers DEF Scanners
<1>p. ASSUME NEW p \in allocated PROVE p <= Cardinality(allocated)
  <2>1. p \in Nat /\ p > 0 /\ 1 .. p \subseteq allocated
    BY Numbers DEF FileInv, TypeOK
  <2>2. Cardinality(1 .. p) = p
    BY <2>1, FS_Interval
  <2>3. Cardinality(1 .. p) <= Cardinality(allocated)
    BY <1>c, <2>1, FS_Subset
  <2> QED BY <2>2, <2>3
<1>f. /\ s.readonly = readonly /\ s.page = None /\ s.last = 0 /\ s.page_count = Cardinality(allocated)
      /\ s.next = None /\ s.current = None /\ s.out = {} /\ ~s.twice
  OBVIOUS
<1> HIDE DEF s
<1>t. pc'[t] = "move" /\ scan'[t] = s /\ sure'[t] = slots /\ maybe'[t] = slots
  BY <1>0 DEF TypeOK
<1>u. \A u \in Threads : u # t => /\ pc'[u] = pc[u] /\ scan'[u] = scan[u]
                                  /\ sure'[u] = sure[u] /\ maybe'[u] = maybe[u]
  BY <1>0 DEF TypeOK
<1>i. \A q : InPage(q)' = InPage(q)
  BY <1>0 DEF InPage
<1>l. \A q : is_full(q)' <=> is_full(q)
  BY <1>0, <1>i DEF is_full
<1>1. TypeOK'
  BY <1>0, <1>s DEF TypeOK, Pcs
<1>2. FileInv'
  BY <1>0 DEF FileInv
<1>3. LockInv'
  BY <1>0, <1>t, <1>u DEF LockInv, Quiet
<1>4. CallInv'
  BY <1>0, <1>i, <1>l, <1>t, <1>u DEF CallInv
<1>5. LatchInv'
  <2>1. \A q \in Pages : Writes(t, q)' => Writes(t, q) \/ CanWrite(t, q)
    BY <1>0, <1>t, <1>f, Numbers DEF Writes
  <2>2. \A q \in Pages : Reads(t, q)' => Reads(t, q) \/ CanRead(t, q)
    BY <1>t, <1>f, Numbers DEF Reads
  <2> QED BY <1>0, <1>u, <2>1, <2>2, LatchStep
<1>6. NewInv'
  BY <1>0, <1>f, <1>t, <1>u DEF NewInv
<1>7. RoomInv'
  <2>1. \A q \in allocated' \ ready' : \E u \in Threads : pc'[u] = "init" /\ target'[u][1] = q
    BY <1>0, <1>u DEF RoomInv
  <2>2. \A q \in ready' : is_full(q)' \/ q \in free_pages' \/ \E u \in Threads : Enlists(u, q)'
    BY <1>0, <1>l, <1>u DEF RoomInv, Enlists
  <2> QED BY <2>1, <2>2 DEF RoomInv
<1>8. ScanInv'
  <2>1. ASSUME NEW u \in Threads, u # t, scan[u] # None PROVE Position(u)' /\ Behind(u)' /\ Ahead(u)'
    <3>1. Position(u) /\ Behind(u) /\ Ahead(u)
      BY <2>1 DEF ScanInv
    <3> QED BY <1>0, <1>u, <2>1, <3>1, KeptScan DEF Ahead
  <2>2. Position(t)'
    BY <1>t, <1>f DEF Position
  <2>3. Behind(t)'
    BY <1>t, <1>f DEF Behind
  <2>4. Ahead(t)'
    <3>1. \A r \in slots : r[1] \in allocated /\ r[1] > 0
      BY Numbers DEF FileInv, TypeOK
    <3> QED BY <1>0, <1>p, <1>t, <1>f, <3>1 DEF Ahead
  <2>5. \A u \in Threads : scan'[u] = None => pc'[u] \notin {"move", "use", "scan"}
    BY <1>s, <1>t, <1>u DEF ScanInv
  <2> QED BY <1>s, <1>t, <1>u, <2>1, <2>2, <2>3, <2>4, <2>5 DEF ScanInv
<1> QED BY <1>1, <1>2, <1>3, <1>4, <1>5, <1>6, <1>7, <1>8

\* Steps in which a thread's scanner moves on, and nothing else changes but its program
\* counter and the record it is going to delete.
LEMMA ScanStep ==
  ASSUME IndInv, NEW t \in Threads, NEW s \in Scanners, NEW pc1 \in {"move", "use", "scan", "remove"},
         NEW r \in Rids \cup {None},
         scan[t] # None, pc[t] \in {"move", "use", "scan"},
         pc' = [pc EXCEPT ![t] = pc1], scan' = [scan EXCEPT ![t] = s], target' = [target EXCEPT ![t] = r],
         UNCHANGED <<allocated, ready, slots, free_pages, lock, hold, sure, maybe, recovering, calls>>,
         pc1 = "remove" => r # None /\ r[1] \in allocated,
         s.page # None /\ s.page # scan[t].page =>
           IF s.readonly THEN CanRead(t, s.page) ELSE CanWrite(t, s.page),
         s.readonly = scan[t].readonly,
         s.current \in {None, scan[t].current, scan[t].next},
         Position(t)', Behind(t)', Ahead(t)'
  PROVE  IndInv'
<1> USE DEF IndInv
<1>0. lock # t /\ hold[t] = None
  BY DEF LockInv, CallInv
<1>s. s # None
  BY Numbers
<1>t. pc'[t] = pc1 /\ scan'[t] = s /\ target'[t] = r
  BY DEF TypeOK
<1>u. \A u \in Threads : u # t => pc'[u] = pc[u] /\ scan'[u] = scan[u] /\ target'[u] = target[u]
  BY DEF TypeOK
<1>i. \A q : InPage(q)' = InPage(q)
  BY DEF InPage
<1>f. \A q : is_full(q)' <=> is_full(q)
  BY <1>i DEF is_full
<1>1. TypeOK'
  BY DEF TypeOK, Pcs
<1>2. FileInv'
  BY DEF FileInv
<1>3. LockInv'
  BY <1>0, <1>t, <1>u DEF LockInv, Quiet
<1>4. CallInv'
  BY <1>0, <1>i, <1>f, <1>t, <1>u DEF CallInv
<1>5. LatchInv'
  <2>1. \A q \in Pages : Writes(t, q)' => Writes(t, q) \/ CanWrite(t, q)
    BY <1>0, <1>t, Numbers DEF Writes
  <2>2. \A q \in Pages : Reads(t, q)' => Reads(t, q) \/ CanRead(t, q)
    BY <1>t, Numbers DEF Reads
  <2> QED BY <1>u, <2>1, <2>2, LatchStep
<1>6. NewInv'
  <2>1. ASSUME NEW u \in Threads, pc[u] = "enlist_page", s.current # None
        PROVE  s.current[1] # hold[u]
    <3>1. CASE s.current = scan[t].current
      BY <2>1, <3>1 DEF NewInv
    <3>2. CASE s.current = scan[t].next
      <4>1. scan[t].next[1] = scan[t].page /\ scan[t].page \in ready
        BY <2>1, <3>2 DEF ScanInv, Position
      <4>2. scan[t].page \in Pages /\ hold[u] \in Pages /\ u # t
        BY <2>1, <4>1 DEF TypeOK, CallInv
      <4>3. Writes(u, hold[u]) => hold[u] # scan[t].page
        BY <4>2 DEF LatchInv, Writes, Reads
      <4> QED BY <3>2, <4>1, <4>3 DEF Writes
    <3> QED BY <2>1, <3>1, <3>2
  <2> QED BY <1>0, <1>s, <1>t, <1>u, <2>1 DEF NewInv
<1>7. RoomInv'
  <2>1. \A q \in allocated' \ ready' : \E u \in Threads : pc'[u] = "init" /\ target'[u][1] = q
    BY <1>u DEF RoomInv
  <2>2. \A q \in ready' : is_full(q)' \/ q \in free_pages' \/ \E u \in Threads : Enlists(u, q)'
    BY <1>f, <1>u DEF RoomInv, Enlists
  <2> QED BY <2>1, <2>2 DEF RoomInv
<1>8. ScanInv'
  <2>1. ASSUME NEW u \in Threads, u # t, scan[u] # None PROVE Position(u)' /\ Behind(u)' /\ Ahead(u)'
    <3>1. Position(u) /\ Behind(u) /\ Ahead(u)
      BY <2>1 DEF ScanInv
    <3> QED BY <1>u, <2>1, <3>1, KeptScan DEF Ahead
  <2>2. \A u \in Threads : scan'[u] = None => pc'[u] \notin {"move", "use", "scan"}
    BY <1>s, <1>t, <1>u DEF ScanInv
  <2> QED BY <1>s, <1>t, <1>u, <2>1, <2>2 DEF ScanInv
<1> QED BY <1>1, <1>2, <1>3, <1>4, <1>5, <1>6, <1>7, <1>8

\* The scanner goes on to the next page that the file had at open.
LEMMA MoveToPageInd ==
  ASSUME IndInv, NEW t \in Threads, MoveToPage(t)
  PROVE  IndInv'
<1> USE DEF IndInv
<1> DEFINE s == scan[t]
           p == NextPage(s)
           first == NextUsed(p, 0)
<1>0. /\ pc[t] = "move" /\ s # None /\ s \in Scanners /\ target[t] \in Rids \cup {None}
      /\ target' = [target EXCEPT ![t] = target[t]]
      /\ UNCHANGED <<allocated, ready, slots, free_pages, lock, hold, target, sure, maybe, recovering, calls>>
  BY DEF MoveToPage, fileVars, historyVars, ScanInv, TypeOK
<1>s. s.next = None /\ s.page = None /\ Position(t) /\ Behind(t) /\ Ahead(t)
  BY <1>0 DEF ScanInv, Position
<1>m. \A r \in sure[t] : r \in slots /\ r \in Rids /\ r[1] \in allocated
  BY <1>s DEF Ahead, FileInv, TypeOK
<1>p. /\ p = None => \A q \in allocated : ~(q > s.last /\ q <= s.page_count)
      /\ p # None => /\ p \in allocated /\ p \in Pages /\ p > s.last
                     /\ \A q \in allocated : q > s.last /\ q <= s.page_count => p <= q
  BY NextPageIs DEF TypeOK
<1>n. s.last \in Nat /\ s.page_count \in Nat
  BY <1>0 DEF Scanners
<1>1. CASE p = None
  <2> DEFINE s1 == [s EXCEPT !.next = None]
  <2>0. scan' = [scan EXCEPT ![t] = s1] /\ pc' = [pc EXCEPT ![t] = "use"]
    BY <1>1 DEF MoveToPage, Goto
  <2>1. s1 = s
    BY <1>0, <1>s DEF Scanners
  <2>2. scan'[t] = s /\ pc'[t] = "use"
    BY <1>0, <2>0, <2>1 DEF TypeOK
  <2> HIDE DEF s1
  <2>3. Position(t)'
    BY <1>0, <1>s, <2>2 DEF Position
  <2>4. Behind(t)'
    BY <1>0, <1>s, <2>2 DEF Behind
  <2>5. Ahead(t)'
    <3>1. \A r \in sure[t] : r \in s.out
      BY <1>1, <1>s, <1>m, <1>p DEF Ahead
    <3> QED BY <1>0, <1>s, <2>2, <3>1 DEF Ahead
  <2> QED BY <1>0, <1>s, <2>0, <2>1, <2>3, <2>4, <2>5, ScanStep DEF Position
<1>2. CASE p # None
  <2> DEFINE s1 == [s EXCEPT !.page = IF first = None THEN None ELSE p, !.last = p, !.next = first]
             l == IF first = None THEN "move" ELSE "use"
  <2>0. /\ scan' = [scan EXCEPT ![t] = s1]
        /\ IF s.readonly THEN CanRead(t, p) ELSE CanWrite(t, p)
        /\ pc' = [pc EXCEPT ![t] = l]
    <3>1. /\ scan' = [scan EXCEPT ![t] = s1]
          /\ IF s.readonly THEN CanRead(t, p) ELSE CanWrite(t, p)
      BY <1>2 DEF MoveToPage
    <3>2. IF first = None THEN UNCHANGED pc ELSE pc' = [pc EXCEPT ![t] = "use"]
      BY <1>2 DEF MoveToPage, Goto
    <3>3. pc' = [pc EXCEPT ![t] = l]
      <4> HIDE DEF first
      <4> QED BY <1>0, <3>2 DEF TypeOK
    <3> QED BY <3>1, <3>3
  <2>f. /\ first = None => \A r \in slots : r[1] # p
        /\ first # None => /\ first \in slots /\ first \in Rids /\ first[1] = p
                           /\ \A r \in slots : r[1] = p => first[2] <= r[2]
    <3>1. /\ first = None => \A r \in slots : r[1] = p => r[2] < 0
          /\ first # None => /\ first \in slots /\ first[1] = p
                             /\ \A r \in slots : r[1] = p /\ r[2] >= 0 => first[2] <= r[2]
      <4> HIDE DEF p
      <4> QED BY NextUsedIs DEF TypeOK
    <3>2. \A r \in slots : r \in Rids /\ r[2] \in Nat
      BY Numbers DEF TypeOK
    <3> HIDE DEF first, p
    <3> QED BY <3>1, <3>2
  <2>g. p \in Nat /\ p \in Pages
    BY <1>2, <1>p, Numbers
  <2> HIDE DEF first, p
  <2>1. /\ s1 \in Scanners /\ s1.readonly = s.readonly /\ s1.last = p /\ s1.next = first
        /\ s1.page = (IF first = None THEN None ELSE p)
        /\ s1.page_count = s.page_count /\ s1.current = s.current /\ s1.out = s.out /\ s1.twice = s.twice
    BY <1>0, <2>f, <2>g DEF Scanners
  <2>l. l \in {"move", "use"} /\ (l = "move" <=> first = None)
    OBVIOUS
  <2>2. scan'[t] = s1 /\ pc'[t] = l
    BY <1>0, <2>0 DEF TypeOK
  <2> HIDE DEF s, s1, l
  <2>3. Position(t)'
    <3>1. s.current # None => s.current[1] \in ready /\ s.current \in s.out
      BY <1>s DEF Position, s
    <3>2. first # None => first[1] \in ready /\ first \in maybe[t]
      BY <1>s, <2>f DEF FileInv, Ahead
    <3> QED BY <1>0, <2>1, <2>2, <2>f, <2>l, <2>g, <3>1, <3>2, Numbers DEF Position
  <2>4. Behind(t)'
    <3>1. s.out \subseteq maybe[t] /\ ~s.twice /\ \A r \in s.out : r \in Rids /\ r[1] <= s.last
      BY <1>s, <1>0 DEF Behind, s, TypeOK
    <3>2. \A r \in s.out : r[1] < p
      BY <1>2, <1>p, <1>n, <2>g, <3>1, Numbers
    <3>3. \A r \in s.out : r[1] \in Nat
      BY <3>1, Numbers
    <3> QED BY <1>0, <2>1, <2>2, <2>g, <3>1, <3>2, <3>3 DEF Behind
  <2>5. Ahead(t)'
    <3>1. sure[t] \subseteq slots /\ slots \subseteq maybe[t]
          /\ \A r \in sure[t] : r[1] <= s.page_count /\ (r \in s.out \/ r[1] > s.last)
      BY <1>s DEF Ahead, s
    <3>2. ASSUME NEW r \in sure[t], r \notin s.out
          PROVE  \/ r[1] > p
                 \/ first # None /\ r[1] = p /\ r[2] >= first[2]
      <4>1. r[1] \in allocated /\ r[1] > s.last /\ r[1] <= s.page_count /\ r \in slots /\ r[1] \in Nat
            /\ r[2] \in Nat
        BY <1>m, <3>1, <3>2, Numbers
      <4>2. p <= r[1]
        BY <1>2, <1>p, <4>1
      <4>3. ASSUME r[1] = p PROVE first # None /\ first[2] <= r[2] /\ first[2] \in Nat
        BY <2>f, <4>1, <4>3, Numbers
      <4> QED BY <2>g, <4>1, <4>2, <4>3
    <3> QED BY <1>0, <2>1, <2>2, <2>l, <3>1, <3>2 DEF Ahead
  <2>6. s1.page # None => s1.page = p
    BY <2>1
  <2>7. scan[t] = s
    BY DEF s
  <2> QED BY <1>0, <2>0, <2>1, <2>l, <2>3, <2>4, <2>5, <2>6, <2>7, ScanStep
<1> QED BY <1>1, <1>2

\* The record fetched last is returned, and the one after it on its page fetched.
LEMMA ScanNextInd ==
  ASSUME IndInv, NEW t \in Threads, ScanNext(t)
  PROVE  IndInv'
<1> USE DEF IndInv
<1> DEFINE s == scan[t]
           n == s.next
           after == NextUsed(s.page, n[2] + 1)
           s1 == [s EXCEPT !.current = n, !.next = after, !.page = IF after = None THEN None ELSE @,
                           !.twice = @ \/ n \in s.out, !.out = @ \cup {n}]
           l == IF after = None THEN "move" ELSE "use"
<1>0. /\ pc[t] = "scan" /\ s # None /\ s \in Scanners /\ n # None /\ target[t] \in Rids \cup {None}
      /\ target' = [target EXCEPT ![t] = target[t]]
      /\ UNCHANGED <<allocated, ready, slots, free_pages, lock, hold, target, sure, maybe, recovering, calls>>
  BY DEF ScanNext, fileVars, historyVars, ScanInv, TypeOK
<1>1. scan' = [scan EXCEPT ![t] = s1] /\ pc' = [pc EXCEPT ![t] = l]
  BY DEF ScanNext, Goto
<1>s. Position(t) /\ Behind(t) /\ Ahead(t)
  BY <1>0 DEF ScanInv
<1>n. /\ n \in Rids /\ n[1] = s.page /\ s.last = s.page /\ s.page \in ready /\ n \in maybe[t]
      /\ n[1] \in Nat /\ n[2] \in Nat /\ n = <<n[1], n[2]>>
  <2>1. n \in Rids
    BY <1>0 DEF Scanners
  <2> QED BY <1>0, <1>s, <2>1, Numbers DEF Position
<1>a. /\ after = None => \A r \in slots : r[1] = s.page => r[2] < n[2] + 1
      /\ after # None => /\ after \in slots /\ after \in Rids /\ after[1] = s.page /\ after[2] >= n[2] + 1
                         /\ \A r \in slots : r[1] = s.page /\ r[2] >= n[2] + 1 => after[2] <= r[2]
  <2>1. n[2] + 1 \in Nat
    BY <1>n
  <2> HIDE DEF n
  <2> QED BY <2>1, NextUsedIs DEF TypeOK
<1> HIDE DEF after
<1>2. /\ s1 \in Scanners /\ s1.readonly = s.readonly /\ s1.last = s.last /\ s1.next = after
      /\ s1.page = (IF after = None THEN None ELSE s.page) /\ s1.page_count = s.page_count
      /\ s1.current = n /\ s1.out = s.out \cup {n} /\ s1.twice = (s.twice \/ n \in s.out)
  BY <1>0, <1>n, <1>a DEF Scanners
<1>l. l \in {"move", "use"} /\ (l = "move" <=> after = None)
  OBVIOUS
<1>3. scan'[t] = s1 /\ pc'[t] = l
  BY <1>0, <1>1 DEF TypeOK
<1>b. /\ s.out \subseteq maybe[t] /\ ~s.twice
      /\ \A r \in s.out : r \in Rids /\ r[1] <= s.last /\ (r[1] = s.last => r[2] < n[2])
  BY <1>0, <1>s DEF Behind, TypeOK
<1>h. /\ sure[t] \subseteq slots /\ slots \subseteq maybe[t]
      /\ \A r \in sure[t] :
           r[1] <= s.page_count /\ (r \in s.out \/ r[1] > s.last \/ (r[1] = s.last /\ r[2] >= n[2]))
  BY <1>0, <1>s DEF Ahead
<1>7. scan[t] = s /\ scan[t].next = n
  OBVIOUS
<1> HIDE DEF s, n, s1, l
<1>4. Position(t)'
  <2>1. after # None => after[1] \in ready /\ after \in maybe[t]
    BY <1>a, <1>h DEF FileInv
  <2> QED BY <1>0, <1>n, <1>a, <1>2, <1>l, <1>3, <2>1, Numbers DEF Position, TypeOK
<1>5. Behind(t)'
  <2>1. n \notin s.out
    BY <1>n, <1>b
  <2>2. \A r \in s.out : r[1] \in Nat /\ r[2] \in Nat
    BY <1>b, Numbers
  <2>3. after # None => after[2] \in Nat
    BY <1>a, Numbers
  <2>4. \A r \in s.out \cup {n} : r[1] <= s.last /\ (after # None /\ r[1] = s.last => r[2] < after[2])
    BY <1>n, <1>a, <1>b, <2>2, <2>3
  <2> QED BY <1>0, <1>n, <1>2, <1>3, <1>b, <2>1, <2>4 DEF Behind
<1>6. Ahead(t)'
  <2>1. ASSUME NEW r \in sure[t], r \notin s.out \cup {n}
        PROVE  \/ r[1] > s.last
               \/ after # None /\ r[1] = s.last /\ r[2] >= after[2]
    <3>1. r \in slots /\ r \in Rids /\ r[1] \in Nat /\ r[2] \in Nat /\ r = <<r[1], r[2]>>
      BY <1>h, Numbers DEF TypeOK
    <3>2. ASSUME r[1] = s.last, r[2] >= n[2] PROVE after # None /\ r[2] >= after[2]
      <4>1. r[2] # n[2]
        BY <1>n, <2>1, <3>1, <3>2
      <4>2. r[2] >= n[2] + 1
        BY <1>n, <3>1, <3>2, <4>1
      <4>3. after # None
        BY <1>n, <1>a, <3>1, <3>2, <4>2
      <4>4. after[2] \in Nat
        BY <1>a, <4>3, Numbers
      <4> QED BY <1>n, <1>a, <3>1, <3>2, <4>2, <4>3, <4>4
    <3> QED BY <1>h, <2>1, <3>2
  <2> QED BY <1>0, <1>2, <1>3, <1>l, <1>h, <2>1 DEF Ahead
<1> QED BY <1>0, <1>1, <1>2, <1>l, <1>4, <1>5, <1>6, <1>7, ScanStep, ZenonT(30)

\* The caller goes on with the scan, or deletes the record it was given.
LEMMA UseRecordInd ==
  ASSUME IndInv, NEW t \in Threads, UseRecord(t)
  PROVE  IndInv'
<1> USE DEF IndInv
<1> DEFINE s == scan[t]
<1>0. /\ pc[t] = "use" /\ s # None /\ s \in Scanners /\ target[t] \in Rids \cup {None}
      /\ scan' = [scan EXCEPT ![t] = s]
      /\ UNCHANGED <<allocated, ready, slots, free_pages, lock, hold, scan, sure, maybe, recovering, calls>>
  BY DEF UseRecord, fileVars, historyVars, ScanInv, TypeOK
<1>s. Position(t) /\ Behind(t) /\ Ahead(t)
  BY <1>0 DEF ScanInv
<1>1. CASE s.readonly \/ s.current = None
  <2>0. /\ pc' = [pc EXCEPT ![t] = "scan"] /\ target' = [target EXCEPT ![t] = target[t]]
        /\ UNCHANGED target
    BY <1>1 DEF UseRecord, Goto, TypeOK
  <2>1. pc'[t] = "scan"
    BY <2>0 DEF TypeOK
  <2>2. Position(t)'
    BY <1>0, <1>s, <2>0, <2>1 DEF Position
  <2>3. Behind(t)'
    BY <1>0, <1>s DEF Behind
  <2>4. Ahead(t)'
    BY <1>0, <1>s, <2>1 DEF Ahead
  <2> QED BY <1>0, <2>0, <2>2, <2>3, <2>4, ScanStep
<1>2. CASE ~(s.readonly \/ s.current = None)
  <2>0. pc' = [pc EXCEPT ![t] = "remove"] /\ target' = [target EXCEPT ![t] = s.current]
    BY <1>2 DEF UseRecord, Goto
  <2>1. pc'[t] = "remove" /\ target'[t] = s.current
    BY <2>0 DEF TypeOK
  <2>2. s.current \in Rids /\ s.current # None /\ s.current[1] \in allocated
    BY <1>0, <1>2, <1>s DEF Position, Scanners, TypeOK
  <2>3. Position(t)'
    BY <1>0, <1>2, <1>s, <2>1 DEF Position
  <2>4. Behind(t)'
    BY <1>0, <1>s DEF Behind
  <2>5. Ahead(t)'
    BY <1>0, <1>s, <2>1 DEF Ahead
  <2> HIDE DEF s
  <2> QED BY <1>0, <2>0, <2>2, <2>3, <2>4, <2>5, ScanStep DEF s
<1> QED BY <1>1, <1>2

\* The scan is at its end and is closed.
LEMMA CloseScanInd ==
  ASSUME IndInv, NEW t \in Threads, CloseScan(t)
  PROVE  IndInv'
<1> USE DEF IndInv
<1>0. /\ pc[t] = "scan" /\ lock # t /\ hold[t] = None
      /\ scan' = [scan EXCEPT ![t] = None] /\ sure' = [sure EXCEPT ![t] = {}]
      /\ maybe' = [maybe EXCEPT ![t] = {}] /\ target' = [target EXCEPT ![t] = None]
      /\ pc' = [pc EXCEPT ![t] = "idle"]
      /\ UNCHANGED <<allocated, ready, slots, free_pages, lock, hold, recovering, calls>>
  BY DEF CloseScan, EndScan, Goto, fileVars, LockInv, CallInv
<1>i. \A q : InPage(q)' = InPage(q)
  BY <1>0 DEF InPage
<1>f. \A q : is_full(q)' <=> is_full(q)
  BY <1>0, <1>i DEF is_full
<1>t. pc'[t] = "idle" /\ scan'[t] = None
  BY <1>0 DEF TypeOK
<1>u. \A u \in Threads : u # t => /\ pc'[u] = pc[u] /\ target'[u] = target[u] /\ scan'[u] = scan[u]
                                  /\ sure'[u] = sure[u] /\ maybe'[u] = maybe[u]
  BY <1>0 DEF TypeOK
<1>1. TypeOK'
  BY <1>0 DEF TypeOK, Pcs
<1>2. FileInv'
  BY <1>0 DEF FileInv
<1>3. LockInv'
  BY <1>0 DEF LockInv, TypeOK, Quiet
<1>4. CallInv'
  BY <1>0, <1>i, <1>f, <1>t, <1>u DEF CallInv
<1>5. LatchInv'
  <2>1. \A q \in Pages : Writes(t, q)' => Writes(t, q) \/ CanWrite(t, q)
    BY <1>0, <1>t DEF Writes
  <2>2. \A q \in Pages : Reads(t, q)' => Reads(t, q) \/ CanRead(t, q)
    BY <1>t DEF Reads
  <2> QED BY <1>0, <1>u, <2>1, <2>2, LatchStep
<1>6. NewInv'
  BY <1>0, <1>t, <1>u DEF NewInv
<1>7. RoomInv'
  <2>1. \A q \in allocated' \ ready' : \E u \in Threads : pc'[u] = "init" /\ target'[u][1] = q
    BY <1>0, <1>u DEF RoomInv
  <2>2. \A q \in ready' : is_full(q)' \/ q \in free_pages' \/ \E u \in Threads : Enlists(u, q)'
    BY <1>0, <1>f, <1>u DEF RoomInv, Enlists
  <2> QED BY <2>1, <2>2 DEF RoomInv
<1>8. ScanInv'
  <2>1. ASSUME NEW u \in Threads, u # t, scan[u] # None PROVE Position(u)' /\ Behind(u)' /\ Ahead(u)'
    <3>1. Position(u) /\ Behind(u) /\ Ahead(u)
      BY <2>1 DEF ScanInv
    <3> QED BY <1>0, <1>u, <2>1, <3>1, KeptScan DEF Ahead
  <2> QED BY <1>t, <1>u, <2>1 DEF ScanInv
<1> QED BY <1>1, <1>2, <1>3, <1>4, <1>5, <1>6, <1>7, <1>8

\* Steps of a file nobody is using: its pages stay, and no page has room outside the set.
LEMMA QuietStep ==
  ASSUME IndInv, Quiet, UNCHANGED <<allocated, ready, lock, callVars, scan, historyVars>>,
         slots' \subseteq Rids, \A r \in slots' : r[1] \in ready,
         free_pages' \subseteq ready, recovering' \in BOOLEAN, calls' \in Nat,
         \A p \in ready : is_full(p)' \/ p \in free_pages'
  PROVE  IndInv'
<1> USE DEF IndInv, callVars, historyVars
<1>0. \A t \in Threads : pc[t] = "idle" /\ scan[t] = None
  BY DEF Quiet, ScanInv, Position
<1>1. TypeOK'
  BY DEF TypeOK
<1>2. FileInv'
  BY DEF FileInv
<1>3. LockInv'
  BY DEF LockInv, Quiet
<1>4. CallInv'
  BY <1>0 DEF CallInv
<1>5. LatchInv'
  BY DEF LatchInv, Writes, Reads
<1>6. NewInv'
  BY <1>0 DEF NewInv
<1>7. RoomInv'
  BY <1>0 DEF RoomInv
<1>8. ScanInv'
  BY <1>0 DEF ScanInv
<1> QED BY <1>1, <1>2, <1>3, <1>4, <1>5, <1>6, <1>7, <1>8

\* Every step keeps the invariant.
LEMMA NextInd == IndInv /\ [Next]_vars => IndInv'
<1> SUFFICES ASSUME IndInv, [Next]_vars PROVE IndInv'
  OBVIOUS
<1>f. ASSUME UNCHANGED <<slots, ready>> PROVE \A p : is_full(p)' <=> is_full(p)
  BY <1>f DEF is_full, InPage
<1>1. CASE Reopen
  <2>1. Quiet /\ UNCHANGED <<allocated, ready, slots, lock, callVars, scan, historyVars>>
    BY <1>1 DEF Reopen, Quiet
  <2>2. \A p \in allocated : ~is_full(p) => p \in ready
    <3>1. \A p \in allocated : Cardinality(InPage(p)) \in Nat
      BY PageCounts DEF IndInv, TypeOK, InPage
    <3> QED BY <3>1 DEF is_full
  <2>3. free_pages' \subseteq ready /\ \A p \in ready : is_full(p)' \/ p \in free_pages'
    BY <1>1, <1>f, <2>1, <2>2 DEF Reopen, IndInv, TypeOK
  <2>4. slots' \subseteq Rids /\ (\A r \in slots' : r[1] \in ready) /\ recovering' \in BOOLEAN /\ calls' \in Nat
    BY <1>1, <2>1 DEF Reopen, IndInv, TypeOK, FileInv
  <2> QED BY <2>1, <2>3, <2>4, QuietStep
<1>2. ASSUME NEW r \in Rids, r[1] \in allocated, RecoverInsertRecord(r) PROVE IndInv'
  <2>1. /\ Quiet /\ UNCHANGED <<allocated, ready, free_pages, lock, callVars, scan, historyVars, recovering, calls>>
        /\ slots \subseteq slots' /\ slots' \subseteq slots \cup {r} /\ (r[1] \notin ready => slots' = slots)
    BY <1>2 DEF RecoverInsertRecord, IndInv, LockInv
  <2>2. slots' \subseteq Rids /\ (\A q \in slots' : q[1] \in ready)
    BY <2>1 DEF IndInv, TypeOK, FileInv
  <2>3. ASSUME NEW p \in ready PROVE is_full(p)' \/ p \in free_pages'
    <3>1. is_full(p) \/ p \in free_pages
      BY <2>1 DEF IndInv, RoomInv, Enlists, Quiet
    <3>2. p \in Pages
      BY DEF IndInv, TypeOK
    <3>3. /\ Cardinality(InPage(p)) \in Nat /\ Cardinality(InPage(p)') \in Nat
          /\ Cardinality(InPage(p)) <= Cardinality(InPage(p)')
      BY <2>1, <2>2, <3>2, PageCounts DEF InPage
    <3> QED BY <2>1, <3>1, <3>3, CapacityAssumption DEF is_full
  <2>4. free_pages' \subseteq ready /\ recovering' \in BOOLEAN /\ calls' \in Nat
    BY <2>1 DEF IndInv, TypeOK, FileInv
  <2> QED BY <2>1, <2>2, <2>3, <2>4, QuietStep
<1>3. CASE Recovered
  <2>1. Quiet /\ UNCHANGED <<allocated, ready, slots, free_pages, lock, callVars, scan, historyVars, calls>>
        /\ recovering' = FALSE
    BY <1>3 DEF Recovered, IndInv, LockInv, fileVars
  <2>2. \A p \in ready : is_full(p)' \/ p \in free_pages'
    BY <1>f, <2>1 DEF IndInv, RoomInv, Enlists, Quiet
  <2>3. /\ slots' \subseteq Rids /\ \A r \in slots' : r[1] \in ready
        /\ free_pages' \subseteq ready /\ recovering' \in BOOLEAN /\ calls' \in Nat
    BY <2>1 DEF IndInv, TypeOK, FileInv
  <2> QED BY <2>1, <2>2, <2>3, QuietStep
<1>4. CASE UNCHANGED vars
  <2> USE <1>4 DEF vars, fileVars, callVars, historyVars
  <2>1. TypeOK' /\ FileInv' /\ LockInv'
    BY DEF IndInv, TypeOK, FileInv, LockInv, Quiet
  <2>2. CallInv' /\ RoomInv'
    <3>1. \A p : InPage(p)' = InPage(p)
      BY DEF InPage
    <3>2. \A p : is_full(p)' <=> is_full(p)
      BY <1>f
    <3>3. CallInv'
      BY <3>1, <3>2 DEF IndInv, CallInv
    <3>4. RoomInv'
      BY <3>2 DEF IndInv, RoomInv, Enlists
    <3> QED BY <3>3, <3>4
  <2>3. LatchInv' /\ NewInv'
    BY DEF IndInv, LatchInv, NewInv, Writes, Reads
  <2>4. ScanInv'
    BY DEF IndInv, ScanInv, Position, Behind, Ahead
  <2> QED BY <2>1, <2>2, <2>3, <2>4 DEF IndInv
<1>5. ASSUME NEW t \in Threads, NEW r \in Rids, r[1] \in allocated, DeleteRecord(t, r) PROVE IndInv'
  BY <1>5, DeleteRecordInd
<1>6. ASSUME NEW t \in Threads, NEW readonly \in BOOLEAN, OpenScan(t, readonly) PROVE IndInv'
  BY <1>6, OpenScanInd
<1>7. ASSUME NEW t \in Threads,
             \/ InsertRecord(t) \/ TakeLock(t) \/ FindPage(t) \/ AllocatePage(t)
             \/ InitEmptyPage(t) \/ EnlistPage(t) \/ PutRecord(t)
      PROVE  IndInv'
  BY <1>7, InsertRecordInd, TakeLockInd, FindPageInd, AllocatePageInd, InitEmptyPageInd,
     EnlistPageInd, PutRecordInd
<1>8. ASSUME NEW t \in Threads,
             RemoveRecord(t) \/ Enlist(t) \/ MoveToPage(t) \/ ScanNext(t) \/ UseRecord(t) \/ CloseScan(t)
      PROVE  IndInv'
  BY <1>8, RemoveRecordInd, EnlistInd, MoveToPageInd, ScanNextInd, UseRecordInd, CloseScanInd
<1> QED BY <1>1, <1>2, <1>3, <1>4, <1>5, <1>6, <1>7, <1>8 DEF Next

-----------------------------------------------------------------------------
(* What follows from it *)

\* The invariant holds in every state the record manager can reach.
THEOREM Invariant == Spec => []IndInv
<1>1. Init => IndInv
  BY InitInd
<1>2. IndInv /\ [Next]_vars => IndInv'
  BY NextInd
<1> QED BY <1>1, <1>2, PTL DEF Spec

\* However inserts that drop full pages and deletes that add theirs are interleaved, a
\* page chosen for an insert keeps its room, and between calls no page with room is
\* missing from free_pages_ and every page has been initialised.
THEOREM FreePagesCorrect == Spec => []FreePagesComplete
<1>1. IndInv => FreePagesComplete
  <2> SUFFICES ASSUME IndInv PROVE FreePagesComplete
    OBVIOUS
  <2> USE DEF IndInv
  <2>1. TypeOK /\ InsertHasRoom
    BY DEF InsertHasRoom, CallInv
  <2>2. ASSUME Quiet PROVE ready = allocated /\ {p \in allocated : ~is_full(p)} \subseteq free_pages
    <3>1. ready = allocated
      BY <2>2 DEF RoomInv, Quiet, TypeOK
    <3>2. \A p \in ready : is_full(p) \/ p \in free_pages
      BY <2>2 DEF RoomInv, Enlists, Quiet
    <3> QED BY <3>1, <3>2
  <2> QED BY <2>1, <2>2 DEF FreePagesComplete
<1> QED BY <1>1, Invariant, PTL

\* A scan that has come to its end, whatever other threads put and removed meanwhile
\* and whatever it deleted itself, has returned every record that was there all the
\* time, only records that were there at some time, and none twice.
THEOREM ScanCorrect == Spec => []ScanExact
<1>1. IndInv => ScanExact
  <2> SUFFICES ASSUME IndInv, NEW t \in Threads, scan[t] # None, pc[t] = "scan", scan[t].next = None
               PROVE  sure[t] \subseteq scan[t].out /\ scan[t].out \subseteq maybe[t] /\ ~scan[t].twice
    BY DEF ScanExact
  <2>1. Behind(t) /\ Ahead(t)
    BY DEF IndInv, ScanInv
  <2> QED BY <2>1 DEF Behind, Ahead
<1> QED BY <1>1, Invariant, PTL

\* A thread that deletes inside its scan, stands on page p of the scan and is about to
\* latch the page of the record it was given.
Deletes(t, p) == pc[t] = "remove" /\ scan[t] # None /\ scan[t].page = p

\* The thread has the lock, has a new page that is not in the set yet, or deletes
\* inside its scan.
Blocks(t) == pc[t] \in {"find", "enlist_page"} \/ \E p \in Pages : Deletes(t, p)

\* Of threads that wait for one another, one that is waited for is such a thread, unless
\* it asks for the lock with the latch of its scan.
LEMMA WaitedFor ==
  ASSUME IndInv, NEW t \in Threads, NEW u \in Threads, NEW v \in Threads,
         WaitsFor(t, u), WaitsFor(u, v),
         ~(pc[u] = "enlist" /\ scan[u] # None /\ scan[u].page # None)
  PROVE  Blocks(u)
<1>1. pc[u] = "find" \/ \E p \in Pages : Writes(u, p) \/ Reads(u, p)
  <2>1. free_pages # {} => Candidate \in Pages
    BY CandidateIs DEF IndInv, TypeOK
  <2>2. pc[t] \in {"remove", "init"} => target[t][1] \in Pages
    BY DEF IndInv, CallInv, TypeOK
  <2>3. NextPage(scan[t]) # None => NextPage(scan[t]) \in Pages
    BY NextPageIs DEF IndInv, TypeOK
  <2> QED BY <2>1, <2>2, <2>3 DEF WaitsFor, IndInv, LockInv
<1>2. pc[u] \in {"lock", "enlist", "enlist_page", "find", "remove", "init", "move"}
  BY DEF WaitsFor
<1>3. ASSUME NEW p \in Pages, hold[u] = p PROVE pc[u] = "enlist_page"
  BY <1>2, <1>3, Numbers DEF IndInv, CallInv
<1>4. ASSUME NEW p \in Pages, scan[u] # None, scan[u].page = p PROVE Deletes(u, p)
  <2>1. Position(u) /\ p # None
    BY <1>4, Numbers DEF IndInv, ScanInv
  <2> QED BY <1>2, <1>4, <2>1 DEF Position, Deletes
<1> QED BY <1>1, <1>3, <1>4 DEF Writes, Reads, Blocks

\* The thread with the lock is kept only by one that deletes inside its scan: the pages
\* of the set are nobody's new page.
LEMMA FinderWaits ==
  ASSUME IndInv, NEW u \in Threads, NEW v \in Threads, WaitsFor(u, v), pc[u] = "find", Blocks(v)
  PROVE  \E p \in Pages : Deletes(v, p)
<1>1. free_pages # {} /\ Candidate \in free_pages /\ Candidate \in Pages
      /\ (Writes(v, Candidate) \/ Reads(v, Candidate)) /\ u # v
  BY CandidateIs DEF WaitsFor, IndInv, TypeOK
<1>2. pc[v] # "find"
  BY <1>1 DEF IndInv, LockInv
<1>3. ASSUME pc[v] = "enlist_page" PROVE FALSE
  <2>1. hold[v] \notin free_pages /\ scan[v] = None
    BY <1>3 DEF IndInv, CallInv, ScanInv, Position
  <2> QED BY <1>1, <2>1 DEF Writes, Reads
<1> QED BY <1>2, <1>3 DEF Blocks

\* A thread that deletes inside its scan is kept only by one that does so on a page
\* nearer the start of the file.
LEMMA DeleterWaits ==
  ASSUME IndInv, NEW u \in Threads, NEW v \in Threads, WaitsFor(u, v), Blocks(v),
         NEW p \in Pages, Deletes(u, p)
  PROVE  \E q \in Pages : q < p /\ Deletes(v, q)
<1> DEFINE q == target[u][1]
<1>1. /\ Position(u) /\ Behind(u) /\ p # None /\ u # v
      /\ Writes(v, q) \/ Reads(v, q)
  BY Numbers DEF Deletes, WaitsFor, IndInv, ScanInv
<1>2. /\ target[u] = scan[u].current /\ scan[u].current # None /\ scan[u].current \in scan[u].out
      /\ scan[u].last = p /\ ~scan[u].readonly
  BY <1>1 DEF Position, Deletes
<1>3. q \in Pages /\ q \in Nat /\ p \in Nat /\ q <= p
  <2>1. target[u] \in Rids
    BY <1>2 DEF IndInv, TypeOK
  <2> QED BY <1>1, <1>2, <2>1, Numbers DEF Behind
<1>4. ASSUME pc[v] = "enlist_page" PROVE FALSE
  <2>1. hold[v] # q /\ scan[v] = None
    BY <1>2, <1>4 DEF IndInv, NewInv, ScanInv, Position, Deletes
  <2> QED BY <1>1, <2>1 DEF Writes, Reads
<1>5. ASSUME pc[v] = "find" PROVE FALSE
  <2>1. hold[v] = None /\ scan[v] = None
    BY <1>5 DEF IndInv, CallInv, ScanInv, Position
  <2> QED BY <1>1, <1>3, <2>1, Numbers DEF Writes, Reads
<1>6. PICK m \in Pages : Deletes(v, m)
  BY <1>4, <1>5 DEF Blocks
<1>7. m = q
  <2>1. hold[v] = None
    BY <1>6 DEF Deletes, IndInv, CallInv
  <2> QED BY <1>1, <1>3, <1>6, <2>1, Numbers DEF Writes, Reads, Deletes
<1>8. q # p
  <2> SUFFICES ASSUME q = p PROVE FALSE
    OBVIOUS
  <2>1. Writes(u, p)
    BY <1>2 DEF Writes, Deletes
  <2> QED BY <1>1, <2>1 DEF IndInv, LatchInv
<1> QED BY <1>3, <1>6, <1>7, <1>8

\* Threads wait for one another in a circle only when one of them asks for the lock of
\* free_pages_ while it has the latch of its own scan; with more threads, or more pages
\* to stand on, no other circle appears.
THEOREM DeadlockCorrect == Spec => []OnlyScansDeadlock
<1>1. IndInv => OnlyScansDeadlock
  <2> SUFFICES ASSUME IndInv, NEW s \in SUBSET Threads, s # {}, \A t \in s : \E u \in s : WaitsFor(t, u),
                      \A t \in s : ~(pc[t] = "enlist" /\ scan[t] # None /\ scan[t].page # None)
               PROVE  FALSE
    BY DEF OnlyScansDeadlock
  <2>1. \A t \in s : \A u \in s : WaitsFor(t, u) => Blocks(u)
    BY WaitedFor
  <2> DEFINE D == {p \in Pages : \E u \in s : Deletes(u, p)}
  <2>2. D # {}
    <3>1. PICK t \in s : Blocks(t)
      BY <2>1
    <3>2. PICK u \in s : WaitsFor(t, u) /\ Blocks(u)
      BY <2>1
    <3>3. PICK v \in s : WaitsFor(u, v) /\ Blocks(v)
      BY <2>1
    <3>4. CASE pc[t] = "find"
      BY <3>2, <3>4, FinderWaits
    <3>5. CASE pc[t] = "enlist_page"
      <4>1. pc[u] = "find"
        BY <3>2, <3>5 DEF WaitsFor, IndInv, LockInv
      <4> QED BY <3>3, <4>1, FinderWaits
    <3> QED BY <3>1, <3>4, <3>5 DEF Blocks
  <2>3. D \subseteq Nat
    BY Numbers
  <2>4. PICK p \in D : \A q \in D : p <= q
    <3> HIDE DEF D
    <3> QED BY <2>2, <2>3, LeastNat
  <2>5. PICK u \in s : Deletes(u, p)
    OBVIOUS
  <2>6. PICK v \in s : WaitsFor(u, v) /\ Blocks(v)
    BY <2>1
  <2>7. PICK q \in Pages : q < p /\ Deletes(v, q)
    BY <2>5, <2>6, DeleterWaits
  <2>8. q \in D /\ q \in Nat /\ p \in Nat
    BY <2>3, <2>7
  <2> QED BY <2>4, <2>7, <2>8
<1> QED BY <1>1, Invariant, PTL
==============================================================================
