--------------------------- MODULE BufferPoolProofs ---------------------------
(***************************************************************************)
(* Proofs about the buffer pool, for any number of threads, files, pages   *)
(* and frames: map, list, pool and pin counts agree, a page in use stays   *)
(* in its frame, and no update is lost but by a double load.               *)
(***************************************************************************)
EXTENDS BufferPool, InductionLemmas, FiniteSetTheorems, SequenceTheorems, TLAPS

----------------------------------------------------------------------------
(* The inductive invariant.                                                *)

\* A file's header counts the pages of its bitmap, and the header page.
HeaderInv == \A x \in Files : allocated_pages[x] = Cardinality(bitmap[x]) + 1

\* A frame is free or has one page; the list has every cached page once.
FrameInv ==
  /\ \A f \in Frames : f \in frees <=> \A p \in Pages : frames[p] # f
  /\ \A p, q \in Cached : frames[p] = frames[q] => p = q
  /\ \A i, j \in DOMAIN lru : lru[i] = lru[j] => i = j
  /\ \A p \in Pages : p \in Cached <=> Listed(p)

\* The calls that have the lock of a pool.
Locked == {"alloc", "extend_alloc", "flush", "extend_flush", "load", "extend"}

PoolInv ==
  \A x \in Files : \A t \in Threads :
    pool_lock[x] = t <=> pc[t] \in Locked /\ target[t][1] = x

\* What a call is about: a page of the file, or the one the file will grow by.
CallInv ==
  \A t \in Threads :
    /\ target[t] = None <=> pc[t] = "idle"
    /\ target[t] # None => held[t][target[t]] = None
    /\ pc[t] \in {"get", "lock", "alloc", "flush", "load"} => target[t][2] \in bitmap[target[t][1]]
    /\ pc[t] \in {"extend_alloc", "extend_flush", "extend"} => target[t][2] = page_count[target[t][1]]
    /\ pc[t] \in {"load", "extend"} => frames[target[t]] # None

\* A page that is evicted for another file has nobody else who uses it.
VictimInv ==
  \A t \in Threads :
    /\ victim[t] # None <=> pc[t] \in {"flush", "extend_flush"}
    /\ victim[t] # None <=> fm_lock = t
    /\ victim[t] # None =>
         /\ frames[victim[t]] \in loaded
         /\ \A u \in Threads : /\ \A p \in Pages : held[u][p] # frames[victim[t]]
                               /\ pc[u] \in {"load", "extend"} => target[u] # victim[t]

\* A page in use is in the frame its user was given, and is a page of the file.
HeldInv ==
  \A t \in Threads : \A p \in Pages :
    held[t][p] # None => frames[p] = held[t][p] /\ p[2] \in bitmap[p[1]]

\* A cached page that is not loaded has a call that will load it; one that is clean
\* is as in the file, unless its last change was not marked.
ContentInv ==
  /\ \A f \in loaded : f \notin frees
  /\ \A p \in Cached :
       /\ frames[p] \notin loaded => \E t \in Threads : pc[t] \in {"load", "extend"} /\ target[t] = p
       /\ frames[p] \in loaded /\ ~dirty[frames[p]] /\ frames[p] \notin unmarked => data[frames[p]] = disk[p]

IndInv == /\ TypeOK /\ HeaderInv /\ FrameInv /\ PoolInv /\ CallInv /\ VictimInv
          /\ HeldInv /\ PinsAgree /\ ContentInv

----------------------------------------------------------------------------
(* Pages, and how many there are.                                          *)

\* A page has a file and a number in it, and is not None.
LEMMA PageIs ==
  /\ \A p \in Pages : /\ p[1] \in Files /\ p[2] \in 1 .. MAX_PAGE_NUM[p[1]] - 1
                      /\ p = <<p[1], p[2]>> /\ p # None
  /\ \A x \in Files : \A i \in 1 .. MAX_PAGE_NUM[x] - 1 :
       /\ <<x, i>> \in Pages /\ <<x, i>>[1] = x /\ <<x, i>>[2] = i
  /\ \A f \in Frames : f # None
  /\ \A t \in Threads : t # None
<1>1. \A p \in Pages : p # None
  BY NoneAssumption
<1>2. /\ \A f \in Frames : f # None
      /\ \A t \in Threads : t # None
  BY NoneAssumption
<1> QED BY <1>1, <1>2 DEF Pages

\* There are finitely many pages, so finitely many uses of pages and of threads.
LEMMA FinitelyMany ==
  /\ IsFiniteSet(Pages)
  /\ \A S : S \subseteq Threads \X Pages => IsFiniteSet(S) /\ Cardinality(S) \in Nat
  /\ \A S : S \subseteq Threads => IsFiniteSet(S) /\ Cardinality(S) \in Nat
<1> DEFINE Of(x) == {x} \X (1 .. MAX_PAGE_NUM[x] - 1)
           All == {Of(x) : x \in Files}
           F == [x \in Files |-> Of(x)]
<1>1. \A x \in Files : IsFiniteSet(Of(x))
  <2> TAKE x \in Files
  <2>1. IsFiniteSet(1 .. MAX_PAGE_NUM[x] - 1)
    BY SizeAssumption, FS_Interval
  <2> QED BY <2>1, FS_Singleton, FS_Product
<1>2. F \in Surjection(Files, All)
  BY DEF Surjection
<1>3. IsFiniteSet(All)
  <2> HIDE DEF F, All
  <2> QED BY <1>2, FiniteAssumption, FS_Surjection
<1>4. \A T \in All : IsFiniteSet(T)
  <2> HIDE DEF Of
  <2> QED BY <1>1
<1>5. IsFiniteSet(UNION All)
  <2> HIDE DEF All
  <2> QED BY <1>3, <1>4, FS_UNION
<1>6. IsFiniteSet(Pages)
  BY <1>5 DEF Pages
<1>7. IsFiniteSet(Threads \X Pages)
  BY <1>6, FiniteAssumption, FS_Product
<1> QED BY <1>6, <1>7, FiniteAssumption, FS_Subset, FS_CardinalityType

\* A list from which a page is taken out has the other pages, each once, as before.
LEMMA WithoutIs ==
  ASSUME lru \in Seq(Pages), \A i, j \in DOMAIN lru : lru[i] = lru[j] => i = j, NEW p \in Pages
  PROVE  /\ Without(p) \in Seq(Pages)
         /\ \A i, j \in DOMAIN Without(p) : Without(p)[i] = Without(p)[j] => i = j
         /\ \A q : (\E i \in DOMAIN Without(p) : Without(p)[i] = q) <=> q # p /\ Listed(q)
<1>0. DOMAIN lru = 1 .. Len(lru) /\ Len(lru) \in Nat /\ \A i \in 1 .. Len(lru) : lru[i] \in Pages
  OBVIOUS
<1>1. CASE ~Listed(p)
  BY <1>1 DEF Without, Listed
<1>2. CASE Listed(p)
  <2> DEFINE k == CHOOSE j \in DOMAIN lru : lru[j] = p
             a == SubSeq(lru, 1, k - 1)
             b == SubSeq(lru, k + 1, Len(lru))
             w == a \o b
  <2>1. k \in 1 .. Len(lru) /\ lru[k] = p
    BY <1>0, <1>2 DEF Listed
  <2>w. Without(p) = w
    BY <1>2 DEF Without
  <2> HIDE DEF k
  <2>2. a \in Seq(Pages) /\ Len(a) = k - 1 /\ \A i \in 1 .. k - 1 : a[i] = lru[i]
    <3>1. \A i \in 1 .. k - 1 : lru[i] \in Pages
      BY <1>0, <2>1
    <3>2. a \in Seq(Pages) /\ Len(a) = (IF 1 <= k - 1 THEN (k - 1) - 1 + 1 ELSE 0)
          /\ \A i \in 1 .. (k - 1) - 1 + 1 : a[i] = lru[1 + i - 1]
      BY <2>1, <3>1, SubSeqProperties
    <3> HIDE DEF a
    <3> QED BY <2>1, <3>2
  <2>3. /\ b \in Seq(Pages) /\ Len(b) = Len(lru) - k
        /\ \A i \in 1 .. Len(lru) - k : b[i] = lru[k + i]
    <3>1. \A i \in k + 1 .. Len(lru) : lru[i] \in Pages
      BY <1>0, <2>1
    <3>2. b \in Seq(Pages) /\ Len(b) = (IF k + 1 <= Len(lru) THEN Len(lru) - (k + 1) + 1 ELSE 0)
          /\ \A i \in 1 .. Len(lru) - (k + 1) + 1 : b[i] = lru[k + 1 + i - 1]
      BY <1>0, <2>1, <3>1, SubSeqProperties
    <3> HIDE DEF b
    <3>3. Len(lru) - (k + 1) + 1 = Len(lru) - k /\ Len(b) = Len(lru) - k
      <4>1. \A n \in Nat : \A j \in 1 .. n :
              n - (j + 1) + 1 = n - j /\ (IF j + 1 <= n THEN n - (j + 1) + 1 ELSE 0) = n - j
        OBVIOUS
      <4> QED BY <1>0, <2>1, <3>2, <4>1
    <3>4. ASSUME NEW i \in 1 .. Len(lru) - k PROVE b[i] = lru[k + i]
      <4>1. k + 1 + i - 1 = k + i
        BY <1>0, <2>1
      <4> QED BY <3>2, <3>3, <4>1
    <3> QED BY <3>2, <3>3, <3>4
  <2> HIDE DEF a, b
  <2>4. /\ w \in Seq(Pages) /\ Len(w) = Len(lru) - 1 /\ DOMAIN w = 1 .. Len(lru) - 1
        /\ \A i \in 1 .. Len(lru) - 1 : w[i] = IF i < k THEN lru[i] ELSE lru[i + 1]
    <3>1. /\ w \in Seq(Pages) /\ Len(w) = Len(a) + Len(b)
          /\ \A i \in 1 .. Len(a) + Len(b) : w[i] = IF i <= Len(a) THEN a[i] ELSE b[i - Len(a)]
      BY <2>2, <2>3, ConcatProperties, ZenonT(30)
    <3> HIDE DEF w
    <3>2. Len(w) = Len(lru) - 1
      BY <1>0, <2>1, <2>2, <2>3, <3>1
    <3>3. ASSUME NEW i \in 1 .. Len(lru) - 1 PROVE w[i] = IF i < k THEN lru[i] ELSE lru[i + 1]
      <4>1. w[i] = IF i <= k - 1 THEN a[i] ELSE b[i - (k - 1)]
        BY <1>0, <2>1, <2>2, <2>3, <3>1
      <4>2. CASE i < k
        BY <1>0, <2>1, <2>2, <4>1, <4>2
      <4>3. CASE ~(i < k)
        <5>1. i - (k - 1) \in 1 .. Len(lru) - k /\ k + (i - (k - 1)) = i + 1
          BY <1>0, <2>1, <4>3
        <5>2. b[i - (k - 1)] = lru[i + 1]
          BY <2>3, <5>1
        <5> QED BY <1>0, <2>1, <4>1, <4>3, <5>2
      <4> QED BY <4>2, <4>3
    <3> QED BY <3>1, <3>2, <3>3
  <2> HIDE DEF w
  <2>5. \A i, j \in DOMAIN w : w[i] = w[j] => i = j
    BY <1>0, <2>1, <2>4, SMTT(30)
  <2>6. ASSUME NEW q PROVE (\E i \in DOMAIN w : w[i] = q) <=> q # p /\ Listed(q)
    <3>1. ASSUME NEW i \in DOMAIN w, w[i] = q PROVE q # p /\ Listed(q)
      BY <1>0, <2>1, <2>4, <3>1, SMTT(30) DEF Listed
    <3>2. ASSUME q # p, NEW i \in DOMAIN lru, lru[i] = q PROVE \E j \in DOMAIN w : w[j] = q
      <4>1. CASE i < k
        <5>1. i \in DOMAIN w /\ w[i] = q
          BY <1>0, <2>1, <2>4, <3>2, <4>1
        <5> QED BY <5>1
      <4>2. CASE i > k
        <5>1. i - 1 \in DOMAIN w /\ w[i - 1] = q
          BY <1>0, <2>1, <2>4, <3>2, <4>2
        <5> QED BY <5>1
      <4> QED BY <1>0, <2>1, <3>2, <4>1, <4>2
    <3> QED BY <3>1, <3>2 DEF Listed
  <2> QED BY <2>w, <2>4, <2>5, <2>6
<1> QED BY <1>1, <1>2

\* Looking a page up, or entering it, puts it in front of the others.
LEMMA TouchIs ==
  ASSUME lru \in Seq(Pages), \A i, j \in DOMAIN lru : lru[i] = lru[j] => i = j,
         NEW p \in Pages, Touch(p)
  PROVE  /\ lru' \in Seq(Pages) /\ \A i, j \in DOMAIN lru' : lru'[i] = lru'[j] => i = j
         /\ \A q : Listed(q)' <=> q = p \/ Listed(q)
<1> DEFINE w == Without(p)
<1>1. /\ w \in Seq(Pages) /\ \A i, j \in DOMAIN w : w[i] = w[j] => i = j
      /\ \A q : (\E i \in DOMAIN w : w[i] = q) <=> q # p /\ Listed(q)
  BY WithoutIs
<1>2. lru' = <<p>> \o w /\ <<p>> \in Seq(Pages) /\ Len(<<p>>) = 1 /\ <<p>>[1] = p
  BY DEF Touch
<1> HIDE DEF w
<1>3. /\ lru' \in Seq(Pages) /\ Len(lru') = 1 + Len(w) /\ Len(w) \in Nat
      /\ DOMAIN w = 1 .. Len(w) /\ DOMAIN lru' = 1 .. 1 + Len(w)
      /\ \A i \in 1 .. 1 + Len(w) : lru'[i] = IF i <= 1 THEN <<p>>[i] ELSE w[i - 1]
  <2>1. /\ <<p>> \o w \in Seq(Pages) /\ Len(<<p>> \o w) = Len(<<p>>) + Len(w)
        /\ \A i \in 1 .. Len(<<p>>) + Len(w) :
             (<<p>> \o w)[i] = IF i <= Len(<<p>>) THEN <<p>>[i] ELSE w[i - Len(<<p>>)]
    BY <1>1, <1>2, ConcatProperties
  <2>2. Len(w) \in Nat /\ DOMAIN w = 1 .. Len(w)
    BY <1>1, LenProperties
  <2>3. DOMAIN lru' = 1 .. Len(lru')
    BY <1>2, <2>1, LenProperties
  <2> QED BY <1>2, <2>1, <2>2, <2>3
<1>4. lru'[1] = p /\ \A i \in 2 .. 1 + Len(w) : i - 1 \in DOMAIN w /\ lru'[i] = w[i - 1]
  BY <1>2, <1>3
<1>5. \A i, j \in DOMAIN lru' : lru'[i] = lru'[j] => i = j
  <2> SUFFICES ASSUME NEW i \in 1 .. 1 + Len(w), NEW j \in 1 .. 1 + Len(w), lru'[i] = lru'[j], i < j
               PROVE  FALSE
    BY <1>3
  <2>1. j \in 2 .. 1 + Len(w) /\ j - 1 \in DOMAIN w /\ lru'[j] = w[j - 1]
    BY <1>3, <1>4
  <2>2. CASE i = 1
    BY <1>1, <1>4, <2>1, <2>2
  <2>3. CASE i # 1
    <3>1. i - 1 \in DOMAIN w /\ lru'[i] = w[i - 1]
      BY <1>3, <1>4, <2>3
    <3>2. i - 1 = j - 1
      BY <1>1, <2>1, <3>1
    <3> QED BY <3>2
  <2> QED BY <2>2, <2>3
<1>6. ASSUME NEW q PROVE Listed(q)' <=> q = p \/ Listed(q)
  <2>1. ASSUME NEW i \in DOMAIN lru', lru'[i] = q, q # p PROVE Listed(q)
    <3>1. i \in 2 .. 1 + Len(w)
      BY <1>3, <1>4, <2>1
    <3> QED BY <1>1, <1>4, <2>1, <3>1
  <2>2. ASSUME Listed(q), q # p PROVE \E i \in DOMAIN lru' : lru'[i] = q
    <3>1. PICK i \in DOMAIN w : w[i] = q
      BY <1>1, <2>2
    <3>2. i + 1 \in 2 .. 1 + Len(w) /\ (i + 1) - 1 = i /\ i + 1 \in DOMAIN lru'
      BY <1>3
    <3> QED BY <1>4, <3>1, <3>2
  <2>3. 1 \in DOMAIN lru' /\ lru'[1] = p
    BY <1>3, <1>4
  <2> QED BY <2>1, <2>2, <2>3 DEF Listed
<1> QED BY <1>3, <1>5, <1>6

----------------------------------------------------------------------------
(* What a step does to the frames and to their users.                      *)

\* A page that is looked up stays in its frame.
LEMMA TouchKeeps ==
  ASSUME TypeOK, FrameInv, NEW p \in Cached, Touch(p), UNCHANGED <<frames, frees>>
  PROVE  FrameInv' /\ lru' \in Seq(Pages)
<1>1. p \in Pages /\ Listed(p)
  BY DEF Cached, FrameInv
<1>2. /\ lru' \in Seq(Pages) /\ \A i, j \in DOMAIN lru' : lru'[i] = lru'[j] => i = j
      /\ \A q : Listed(q)' <=> q = p \/ Listed(q)
  BY <1>1, TouchIs DEF TypeOK, FrameInv
<1> QED BY <1>1, <1>2 DEF FrameInv, Cached

\* A page that gets a free frame is the only one in it.
LEMMA EnterKeeps ==
  ASSUME TypeOK, FrameInv, NEW p \in Pages, p \notin Cached, NEW f \in frees, Touch(p),
         frames' = [frames EXCEPT ![p] = f], frees' = frees \ {f}
  PROVE  FrameInv' /\ lru' \in Seq(Pages)
<1>1. /\ lru' \in Seq(Pages) /\ \A i, j \in DOMAIN lru' : lru'[i] = lru'[j] => i = j
      /\ \A q : Listed(q)' <=> q = p \/ Listed(q)
  BY TouchIs DEF TypeOK, FrameInv
<1>2. /\ frames'[p] = f /\ f \in Frames /\ f # None /\ \A q \in Pages : q # p => frames'[q] = frames[q]
      /\ \A q \in Pages : frames[q] # f
  BY PageIs DEF TypeOK, FrameInv
<1>3. \A q \in Pages : q \in Cached' <=> q = p \/ q \in Cached
  BY <1>2 DEF Cached
<1>4. \A q, r \in Cached' : frames'[q] = frames'[r] => q = r
  BY <1>2, <1>3 DEF FrameInv, Cached
<1>5. ASSUME NEW g \in Frames PROVE g \in frees' <=> \A q \in Pages : frames'[q] # g
  <2>1. CASE g = f
    BY <1>2, <2>1
  <2>2. CASE g # f
    <3>1. frames[p] # g
      BY PageIs DEF Cached
    <3>2. (\A q \in Pages : frames'[q] # g) <=> (\A q \in Pages : frames[q] # g)
      BY <1>2, <2>2, <3>1
    <3> QED BY <2>2, <3>2 DEF FrameInv
  <2> QED BY <2>1, <2>2
<1> QED BY <1>1, <1>3, <1>4, <1>5 DEF FrameInv

\* A page whose frame is freed is out of the map and the list, and its frame in the pool.
LEMMA FreeKeeps ==
  ASSUME TypeOK, FrameInv, NEW p \in Cached, Free(p)
  PROVE  /\ FrameInv' /\ lru' \in Seq(Pages) /\ frames' \in [Pages -> Frames \cup {None}]
         /\ frees' \subseteq Frames /\ loaded' \subseteq Frames /\ UNCHANGED unmarked
<1>1. /\ lru' \in Seq(Pages) /\ \A i, j \in DOMAIN lru' : lru'[i] = lru'[j] => i = j
      /\ \A q : Listed(q)' <=> q # p /\ Listed(q)
  <2>1. lru' = Without(p) /\ p \in Pages
    BY DEF Free, Cached
  <2>2. /\ Without(p) \in Seq(Pages)
        /\ \A i, j \in DOMAIN Without(p) : Without(p)[i] = Without(p)[j] => i = j
        /\ \A q : (\E i \in DOMAIN Without(p) : Without(p)[i] = q) <=> q # p /\ Listed(q)
    BY <2>1, WithoutIs DEF TypeOK, FrameInv
  <2>3. \A q : Listed(q)' <=> \E i \in DOMAIN Without(p) : Without(p)[i] = q
    BY <2>1 DEF Listed
  <2> QED BY <2>1, <2>2, <2>3
<1>2. /\ p \in Pages /\ frames[p] \in Frames /\ frames'[p] = None
      /\ \A q \in Pages : q # p => frames'[q] = frames[q]
      /\ frees' = frees \cup {frames[p]}
  BY DEF TypeOK, Free, Cached
<1>3. \A q \in Pages : q \in Cached' <=> q # p /\ q \in Cached
  BY <1>2 DEF Cached
<1>4. \A q, r \in Cached' : frames'[q] = frames'[r] => q = r
  BY <1>2, <1>3 DEF FrameInv, Cached
<1>5. \A g \in Frames : g \in frees' <=> \A q \in Pages : frames'[q] # g
  <2>1. ASSUME NEW q \in Pages, q # p PROVE frames'[q] # frames[p]
    BY <1>2, <2>1, PageIs DEF FrameInv, Cached
  <2>2. \A q \in Pages : frames'[q] # frames[p]
    BY <1>2, <2>1, PageIs
  <2>3. ASSUME NEW g \in Frames, g # frames[p]
        PROVE  (\A q \in Pages : frames'[q] # g) <=> (\A q \in Pages : frames[q] # g)
    BY <1>2, <2>3, PageIs
  <2> QED BY <1>2, <2>2, <2>3 DEF FrameInv
<1>6. /\ frames' \in [Pages -> Frames \cup {None}] /\ frees' \subseteq Frames /\ loaded' \subseteq Frames
      /\ UNCHANGED unmarked
  BY <1>2 DEF TypeOK, Free
<1> QED BY <1>1, <1>3, <1>4, <1>5, <1>6 DEF FrameInv

\* Threads, and uses of pages, can be counted.
LEMMA Counts ==
  ASSUME NEW f
  PROVE  /\ IsFiniteSet(Users(f)) /\ IsFiniteSet(InCall(f))
         /\ Cardinality(Users(f)) \in Nat /\ Cardinality(InCall(f)) \in Nat
  BY FinitelyMany DEF Users, InCall

\* A frame that nobody has pinned has no users, and no call is about it.
LEMMA Unpinned ==
  ASSUME IndInv, NEW f \in Frames, pin_count[f] = 0
  PROVE  /\ \A t \in Threads : \A p \in Pages : held[t][p] # f
         /\ \A t \in Threads : pc[t] \in {"load", "extend"} => frames[target[t]] # f
         /\ \A t \in Threads : victim[t] # None => frames[victim[t]] # f
<1>1. Cardinality(Users(f)) = 0 /\ Cardinality(InCall(f)) = 0
  BY Counts DEF IndInv, PinsAgree
<1>2. Users(f) = {} /\ InCall(f) = {}
  BY <1>1, Counts, FS_EmptySet
<1>3. ASSUME NEW t \in Threads, NEW p \in Pages, held[t][p] = f PROVE FALSE
  <2>1. <<t, p>> \in Users(f)
    BY <1>3 DEF Users
  <2> QED BY <1>2, <2>1
<1> QED BY <1>2, <1>3 DEF InCall

\* A frame that is free is not pinned.
LEMMA FreeUnpinned ==
  ASSUME IndInv, NEW f \in frees
  PROVE  /\ pin_count[f] = 0 /\ f \notin loaded
         /\ \A p \in Pages : frames[p] # f /\ \A t \in Threads : held[t][p] # f
<1>0. f \in Frames /\ f # None
  BY PageIs DEF IndInv, TypeOK
<1>1. \A p \in Pages : frames[p] # f /\ \A t \in Threads : held[t][p] # f
  BY <1>0 DEF IndInv, FrameInv, HeldInv
<1>2. Users(f) = {}
  BY <1>1 DEF Users
<1>3. InCall(f) = {}
  <2>1. \A t \in Threads : pc[t] \in {"load", "extend"} => target[t] \in Pages
    BY DEF IndInv, CallInv, TypeOK
  <2>2. \A t \in Threads : victim[t] # None => victim[t] \in Pages
    BY DEF IndInv, TypeOK
  <2> QED BY <1>1, <2>1, <2>2 DEF InCall
<1>4. pin_count[f] = 0
  BY <1>0, <1>2, <1>3, FS_EmptySet DEF IndInv, PinsAgree
<1> QED BY <1>1, <1>4 DEF IndInv, ContentInv

\* One more user, or one more call, is one more pin; one less is one less.
LEMMA OneMore ==
  ASSUME NEW S, NEW x, IsFiniteSet(S)
  PROVE  /\ x \notin S => Cardinality(S \cup {x}) = Cardinality(S) + 1
         /\ x \in S => Cardinality(S \ {x}) = Cardinality(S) - 1
  BY FS_AddElement, FS_RemoveElement

\* A call returns: its page has one more user, and the others are as before.
LEMMA ReturnIs ==
  ASSUME TypeOK, NEW t \in Threads, NEW p \in Pages, NEW f \in Frames, Return(t, p, f)
  PROVE  /\ held' \in [Threads -> [Pages -> Frames \cup {None}]]
         /\ held'[t][p] = f
         /\ \A u \in Threads : \A q \in Pages : u # t \/ q # p => held'[u][q] = held[u][q]
         /\ pc'[t] = "idle" /\ target'[t] = None
         /\ \A u \in Threads : u # t => pc'[u] = pc[u] /\ target'[u] = target[u]
         /\ pc' \in [Threads -> Pcs] /\ target' \in [Threads -> Pages \cup {None}]
<1>1. /\ held' \in [Threads -> [Pages -> Frames \cup {None}]] /\ held'[t][p] = f
      /\ \A u \in Threads : \A q \in Pages : u # t \/ q # p => held'[u][q] = held[u][q]
  BY DEF TypeOK, Return
<1>2. /\ pc'[t] = "idle" /\ target'[t] = None
      /\ \A u \in Threads : u # t => pc'[u] = pc[u] /\ target'[u] = target[u]
      /\ pc' \in [Threads -> Pcs] /\ target' \in [Threads -> Pages \cup {None}]
  BY DEF TypeOK, Return, Pcs
<1> QED BY <1>1, <1>2

\* The users of the frames when one page gets one more.
LEMMA UsersMore ==
  ASSUME NEW t \in Threads, NEW p \in Pages, NEW f \in Frames, held[t][p] = None, held'[t][p] = f,
         \A u \in Threads : \A q \in Pages : u # t \/ q # p => held'[u][q] = held[u][q]
  PROVE  /\ Cardinality(Users(f)') = Cardinality(Users(f)) + 1
         /\ \A g \in Frames \ {f} : Users(g)' = Users(g)
<1>0. f # None /\ <<t, p>>[1] = t /\ <<t, p>>[2] = p /\ <<t, p>> \in Threads \X Pages
  BY PageIs
<1>1. \A v \in Threads \X Pages : v # <<t, p>> => held'[v[1]][v[2]] = held[v[1]][v[2]]
  OBVIOUS
<1>2. Users(f)' = Users(f) \cup {<<t, p>>} /\ <<t, p>> \notin Users(f)
  BY <1>0, <1>1 DEF Users
<1>3. \A g \in Frames \ {f} : Users(g)' = Users(g)
  <2> TAKE g \in Frames \ {f}
  <2>1. g # None
    BY PageIs
  <2> QED BY <1>0, <1>1, <2>1 DEF Users
<1>4. IsFiniteSet(Users(f))
  BY Counts
<1> QED BY <1>2, <1>3, <1>4, OneMore

----------------------------------------------------------------------------
(* One lemma for each action.                                              *)

\* Open files without pages, and nothing cached.
LEMMA InitInd == Init => IndInv
<1> SUFFICES ASSUME Init PROVE IndInv
  OBVIOUS
<1> USE DEF Init
<1>0. Cached = {}
  BY DEF Cached
<1>1. TypeOK
  BY ValueAssumption, SizeAssumption DEF TypeOK, Pcs
<1>2. HeaderInv
  BY FS_EmptySet DEF HeaderInv
<1>3. FrameInv
  BY <1>0, PageIs DEF FrameInv, Listed
<1>4. PoolInv
  BY PageIs DEF PoolInv, Locked
<1>5. CallInv
  BY DEF CallInv
<1>6. VictimInv
  BY PageIs DEF VictimInv
<1>7. HeldInv
  BY DEF HeldInv
<1>8. PinsAgree
  <2>1. \A f \in Frames : Users(f) = {} /\ InCall(f) = {}
    BY PageIs DEF Users, InCall
  <2>2. \A f \in Frames : Cardinality(Users(f)) = 0 /\ Cardinality(InCall(f)) = 0
    BY <2>1, FS_EmptySet
  <2> QED BY <2>2 DEF PinsAgree
<1>9. ContentInv
  BY <1>0 DEF ContentInv
<1> QED BY <1>1, <1>2, <1>3, <1>4, <1>5, <1>6, <1>7, <1>8, <1>9 DEF IndInv

\* get_internal finds the page, before the pool's lock is taken.
LEMMA HitInd ==
  ASSUME IndInv, NEW t \in Threads, NEW p \in Cached, pc[t] \in {"idle", "get"},
         held[t][p] = None, p[2] \in bitmap[p[1]], fm_lock = None,
         Lookup(p), Return(t, p, frames[p]),
         UNCHANGED <<dirty, data, disk, headerVars, fm_lock, pool_lock, victim>>
  PROVE  IndInv'
<1> USE DEF IndInv, headerVars
<1>f. PICK f \in Frames : f = frames[p]
  BY DEF Cached, TypeOK
<1>0. /\ p \in Pages /\ f # None /\ Touch(p)
      /\ pin_count' = [pin_count EXCEPT ![f] = @ + 1] /\ UNCHANGED <<frames, frees, loaded, unmarked>>
  BY <1>f, PageIs DEF Lookup, Pin, Cached
<1>r. /\ held' \in [Threads -> [Pages -> Frames \cup {None}]]
      /\ held'[t][p] = f
      /\ \A u \in Threads : \A q \in Pages : u # t \/ q # p => held'[u][q] = held[u][q]
      /\ pc'[t] = "idle" /\ target'[t] = None
      /\ \A u \in Threads : u # t => pc'[u] = pc[u] /\ target'[u] = target[u]
      /\ pc' \in [Threads -> Pcs] /\ target' \in [Threads -> Pages \cup {None}]
  BY <1>0, <1>f, ReturnIs
<1>v. victim[t] = None /\ \A u \in Threads : victim[u] = None
  BY PageIs DEF VictimInv
<1>2. HeaderInv'
  BY DEF HeaderInv
<1>3. FrameInv' /\ lru' \in Seq(Pages)
  BY <1>0, TouchKeeps
<1>1. TypeOK'
  BY <1>0, <1>r, <1>3 DEF TypeOK
<1>4. PoolInv'
  BY <1>r DEF PoolInv, Locked
<1>5. CallInv'
  <2>1. \A u \in Threads : pc[u] # "idle" => target[u] \in Pages
    BY DEF CallInv, TypeOK
  <2> QED BY <1>0, <1>r, <2>1 DEF CallInv
<1>6. VictimInv'
  BY <1>r, <1>v DEF VictimInv
<1>7. HeldInv'
  BY <1>0, <1>f, <1>r DEF HeldInv
<1>8. PinsAgree'
  <2>1. /\ Cardinality(Users(f)') = Cardinality(Users(f)) + 1
        /\ \A g \in Frames \ {f} : Users(g)' = Users(g)
    BY <1>0, <1>r, UsersMore
  <2>2. \A g \in Frames : InCall(g)' = InCall(g)
    BY <1>0, <1>r, <1>v DEF InCall
  <2>3. pin_count'[f] = pin_count[f] + 1 /\ \A g \in Frames \ {f} : pin_count'[g] = pin_count[g]
    BY <1>0 DEF TypeOK
  <2>4. Cardinality(Users(f)) \in Nat /\ Cardinality(InCall(f)) \in Nat
    BY Counts
  <2> QED BY <1>0, <2>1, <2>2, <2>3, <2>4 DEF PinsAgree
<1>9. ContentInv'
  BY <1>0, <1>r DEF ContentInv, Cached
<1> QED BY <1>1, <1>2, <1>3, <1>4, <1>5, <1>6, <1>7, <1>8, <1>9

\* Steps that only move a thread from one part of its call to another, or to a call
\* about a page it does not use.
LEMMA MoveOn ==
  ASSUME IndInv, NEW t \in Threads, NEW l \in Pcs, NEW p \in Pages, victim[t] = None,
         pc[t] \notin {"load", "extend"}, l \notin {"idle", "flush", "extend_flush", "load", "extend"},
         pc' = [pc EXCEPT ![t] = l], target' = [target EXCEPT ![t] = p], held[t][p] = None,
         l \in {"get", "lock", "alloc"} => p[2] \in bitmap'[p[1]],
         l = "extend_alloc" => p[2] = page_count[p[1]],
         \/ l \notin Locked /\ pc[t] \notin Locked /\ UNCHANGED pool_lock
         \/ /\ l \in Locked /\ pc[t] \notin Locked /\ pool_lock[p[1]] = None
            /\ pool_lock' = [pool_lock EXCEPT ![p[1]] = t],
         \A x \in Files : bitmap[x] \subseteq bitmap'[x], TypeOK', HeaderInv',
         UNCHANGED <<frames, lru, frees, pin_count, dirty, data, disk, page_count, fm_lock, victim, held, loaded, unmarked>>
  PROVE  IndInv'
<1> USE DEF IndInv
<1>t. pc'[t] = l /\ target'[t] = p /\ p[1] \in Files /\ p # None
  BY PageIs DEF TypeOK
<1>u. \A u \in Threads : u # t => pc'[u] = pc[u] /\ target'[u] = target[u]
  BY DEF TypeOK
<1>3. FrameInv'
  BY DEF FrameInv, Listed, Cached
<1>4. PoolInv'
  <2>1. CASE l \notin Locked
    BY <1>t, <1>u, <2>1 DEF PoolInv
  <2>2. CASE l \in Locked
    <3>1. pool_lock'[p[1]] = t /\ \A x \in Files : x # p[1] => pool_lock'[x] = pool_lock[x]
      BY <1>t, <2>2 DEF TypeOK
    <3> QED BY <1>t, <1>u, <2>2, <3>1, PageIs DEF PoolInv
  <2> QED BY <2>1, <2>2
<1>5. CallInv'
  <2>1. \A u \in Threads : pc[u] # "idle" => target[u] \in Pages /\ target[u][1] \in Files
    BY PageIs DEF CallInv, TypeOK
  <2> QED BY <1>t, <1>u, <2>1 DEF CallInv, Pcs
<1>6. VictimInv'
  BY <1>t, <1>u DEF VictimInv
<1>7. HeldInv'
  BY PageIs DEF HeldInv
<1>8. PinsAgree'
  <2>1. \A g : Users(g)' = Users(g)
    BY DEF Users
  <2>2. \A g : InCall(g)' = InCall(g)
    BY <1>t, <1>u DEF InCall
  <2> QED BY <2>1, <2>2 DEF PinsAgree
<1>9. ContentInv'
  BY <1>t, <1>u DEF ContentInv, Cached
<1> QED BY <1>3, <1>4, <1>5, <1>6, <1>7, <1>8, <1>9

\* The first look of get_this_page.
LEMMA LookForFrameInd ==
  ASSUME IndInv, NEW t \in Threads, NEW p \in Pages, pc[t] \in {"idle", "get"},
         held[t][p] = None, p[2] \in bitmap[p[1]], LookForFrame(t, p)
  PROVE  IndInv'
<1>1. CASE p \in Cached
  BY <1>1, HitInd DEF LookForFrame
<1>2. CASE p \notin Cached
  <2>0. /\ pc' = [pc EXCEPT ![t] = "lock"] /\ target' = [target EXCEPT ![t] = p]
        /\ UNCHANGED <<frames, lru, frees, pin_count, loaded, unmarked, held, dirty, data, disk, headerVars, fm_lock,
                       pool_lock, victim>>
    BY <1>2 DEF LookForFrame, Goto
  <2>1. TypeOK' /\ HeaderInv'
    BY <2>0 DEF IndInv, TypeOK, HeaderInv, headerVars, Pcs
  <2>2. victim[t] = None
    BY DEF IndInv, VictimInv
  <2> QED BY <2>0, <2>1, <2>2, MoveOn DEF headerVars, Locked, Pcs
<1> QED BY <1>1, <1>2

\* The lock of the pool is taken, for a page that was not found.
LEMMA LockPoolInd ==
  ASSUME IndInv, NEW t \in Threads, LockPool(t)
  PROVE  IndInv'
<1>p. PICK p \in Pages : p = target[t]
  BY DEF LockPool, IndInv, CallInv, TypeOK
<1>0. /\ pc[t] = "lock" /\ pool_lock[p[1]] = None /\ pool_lock' = [pool_lock EXCEPT ![p[1]] = t]
      /\ pc' = [pc EXCEPT ![t] = "alloc"] /\ target' = [target EXCEPT ![t] = p]
      /\ UNCHANGED <<frames, lru, frees, pin_count, dirty, data, disk, headerVars, fm_lock,
                     target, victim, held, loaded, unmarked>>
  BY <1>p DEF LockPool, Goto, IndInv, TypeOK
<1>1. TypeOK' /\ HeaderInv'
  BY <1>0 DEF IndInv, TypeOK, HeaderInv, headerVars, Pcs
<1>2. victim[t] = None /\ held[t][p] = None /\ p[2] \in bitmap[p[1]]
  BY <1>0, <1>p DEF IndInv, VictimInv, CallInv
<1> QED BY <1>0, <1>1, <1>2, MoveOn DEF headerVars, Locked, Pcs

\* A bitmap has finitely many pages.
LEMMA BitmapFinite ==
  ASSUME TypeOK, NEW x \in Files
  PROVE  IsFiniteSet(bitmap[x]) /\ Cardinality(bitmap[x]) \in Nat
<1>1. bitmap[x] \subseteq 1 .. page_count[x] - 1 /\ page_count[x] - 1 \in Int
  BY DEF TypeOK
<1>2. IsFiniteSet(1 .. page_count[x] - 1)
  <2>1. \A n \in Int : IsFiniteSet(1 .. n)
    BY FS_Interval
  <2> QED BY <1>1, <2>1
<1>3. IsFiniteSet(bitmap[x])
  BY <1>1, <1>2, FS_Subset
<1> QED BY <1>3, FS_CardinalityType

\* allocate_page takes a page of the file that is not in the bitmap.
LEMMA ReusePageInd ==
  ASSUME IndInv, NEW t \in Threads, NEW x \in Files, ReusePage(t, x)
  PROVE  IndInv'
<1> USE DEF IndInv
<1> DEFINE free == (1 .. page_count[x] - 1) \ bitmap[x]
           k == CHOOSE n \in free : \A m \in free : n <= m
<1>0. /\ pc[t] = "idle" /\ allocated_pages[x] < page_count[x] /\ free # {}
      /\ allocated_pages' = [allocated_pages EXCEPT ![x] = @ + 1]
      /\ bitmap' = [bitmap EXCEPT ![x] = @ \cup {k}]
      /\ pc' = [pc EXCEPT ![t] = "get"] /\ target' = [target EXCEPT ![t] = <<x, k>>]
      /\ UNCHANGED <<frames, lru, frees, pin_count, dirty, data, disk, page_count, fm_lock,
                     pool_lock, victim, held, loaded, unmarked>>
  BY DEF ReusePage, Goto
<1>k. k \in free
  <2>1. free \subseteq Nat
    BY DEF TypeOK
  <2> HIDE DEF free
  <2>2. \E n \in free : \A m \in free : n <= m
    BY <1>0, <2>1, LeastNat
  <2> QED BY <2>2
<1> HIDE DEF k
<1>n. k \in 1 .. page_count[x] - 1 /\ k \notin bitmap[x] /\ k \in Nat /\ page_count[x] \in 1 .. MAX_PAGE_NUM[x]
  BY <1>k DEF TypeOK
<1>p. <<x, k>> \in Pages /\ <<x, k>>[1] = x /\ <<x, k>>[2] = k
  <2>1. k \in 1 .. MAX_PAGE_NUM[x] - 1
    BY <1>n, SizeAssumption
  <2> QED BY <2>1, PageIs
<1>b. bitmap'[x] = bitmap[x] \cup {k} /\ \A y \in Files : y # x => bitmap'[y] = bitmap[y]
  BY <1>0 DEF TypeOK
<1>a. allocated_pages'[x] = allocated_pages[x] + 1 /\ \A y \in Files : y # x => allocated_pages'[y] = allocated_pages[y]
  BY <1>0 DEF TypeOK
<1> HIDE DEF free
<1>1. TypeOK'
  <2>1. /\ page_count' \in [Files -> Nat] /\ allocated_pages' \in [Files -> Nat]
        /\ bitmap' \in [Files -> SUBSET Nat]
    BY <1>0, <1>n DEF TypeOK
  <2>2. \A y \in Files : /\ page_count'[y] \in 1 .. MAX_PAGE_NUM[y]
                         /\ allocated_pages'[y] \in 1 .. page_count'[y]
                         /\ bitmap'[y] \subseteq 1 .. page_count'[y] - 1
    BY <1>0, <1>n, <1>b, <1>a DEF TypeOK
  <2> QED BY <1>0, <1>p, <2>1, <2>2 DEF TypeOK, Pcs
<1>2. HeaderInv'
  <2>1. Cardinality(bitmap'[x]) = Cardinality(bitmap[x]) + 1 /\ Cardinality(bitmap[x]) \in Nat
    BY <1>n, <1>b, BitmapFinite, OneMore
  <2> QED BY <1>a, <1>b, <2>1 DEF HeaderInv
<1>3. victim[t] = None /\ held[t][<<x, k>>] = None
  BY <1>0, <1>n, <1>p DEF VictimInv, HeldInv
<1>4. \A y \in Files : bitmap[y] \subseteq bitmap'[y]
  BY <1>b
<1>5. k \in bitmap'[x]
  BY <1>b
<1> QED BY <1>0, <1>p, <1>1, <1>2, <1>3, <1>4, <1>5, MoveOn DEF Locked, Pcs

\* allocate_page is going to make the file longer.
LEMMA ExtendFileInd ==
  ASSUME IndInv, NEW t \in Threads, NEW x \in Files, ExtendFile(t, x)
  PROVE  IndInv'
<1> USE DEF IndInv
<1>k. PICK k \in Nat : k = page_count[x]
  BY DEF TypeOK
<1>0. /\ pc[t] = "idle" /\ page_count[x] < MAX_PAGE_NUM[x] /\ pool_lock[x] = None
      /\ pool_lock' = [pool_lock EXCEPT ![x] = t]
      /\ pc' = [pc EXCEPT ![t] = "extend_alloc"] /\ target' = [target EXCEPT ![t] = <<x, k>>]
      /\ UNCHANGED <<frames, lru, frees, pin_count, dirty, data, disk, headerVars, fm_lock, victim, held, loaded, unmarked>>
  BY <1>k DEF ExtendFile, Goto
<1>p. <<x, k>> \in Pages /\ <<x, k>>[1] = x /\ <<x, k>>[2] = k /\ k \notin bitmap[x]
  <2>1. k \in 1 .. MAX_PAGE_NUM[x] - 1 /\ k \notin bitmap[x]
    <3>1. MAX_PAGE_NUM[x] \in Nat /\ k \in 1 .. MAX_PAGE_NUM[x] /\ bitmap[x] \subseteq 1 .. k - 1
      BY <1>k, SizeAssumption DEF TypeOK
    <3>2. k < MAX_PAGE_NUM[x]
      BY <1>0, <1>k
    <3> QED BY <3>1, <3>2
  <2> QED BY <2>1, PageIs
<1>1. TypeOK' /\ HeaderInv'
  BY <1>0, <1>p DEF TypeOK, Pcs, HeaderInv, headerVars
<1>3. victim[t] = None /\ held[t][<<x, k>>] = None
  BY <1>0, <1>p DEF VictimInv, HeldInv
<1> QED BY <1>0, <1>k, <1>p, <1>1, <1>3, MoveOn DEF Locked, Pcs, headerVars

\* allocate_frame: the page has a frame now, or gets one; the call has it pinned.
LEMMA AllocateFrameInd ==
  ASSUME IndInv, NEW t \in Threads, AllocateFrame(t)
  PROVE  IndInv'
<1> USE DEF IndInv, headerVars
<1>p. PICK p \in Pages : p = target[t]
  BY DEF AllocateFrame, CallInv, TypeOK
<1>l. PICK l \in {"load", "extend"} : l = IF pc[t] = "alloc" THEN "load" ELSE "extend"
  OBVIOUS
<1>0. /\ pc[t] \in {"alloc", "extend_alloc"} /\ fm_lock = None
      /\ (p \in Cached /\ Lookup(p)) \/ (p \notin Cached /\ \E f \in Frames : Enter(p, f))
      /\ pc' = [pc EXCEPT ![t] = l]
      /\ UNCHANGED <<dirty, data, disk, bitmap, allocated_pages, page_count, fm_lock, pool_lock, target, victim, held>>
  BY <1>p, <1>l DEF AllocateFrame, Goto
<1>f. PICK f \in Frames :
        /\ pin_count' = [pin_count EXCEPT ![f] = @ + 1] /\ Touch(p) /\ UNCHANGED <<loaded, unmarked>>
        /\ \/ p \in Cached /\ f = frames[p] /\ UNCHANGED <<frames, frees>>
           \/ p \notin Cached /\ f \in frees /\ frames' = [frames EXCEPT ![p] = f] /\ frees' = frees \ {f}
  <2>1. CASE p \in Cached
    BY <1>0, <2>1 DEF Lookup, Pin, Cached, TypeOK
  <2>2. CASE p \notin Cached
    BY <1>0, <2>2 DEF Enter, Pin
  <2> QED BY <2>1, <2>2
<1>v. \A u \in Threads : victim[u] = None
  BY <1>0, PageIs DEF VictimInv
<1>t. pc'[t] = l /\ \A u \in Threads : u # t => pc'[u] = pc[u]
  BY <1>0 DEF TypeOK
<1>g. /\ frames'[p] = f /\ f # None /\ \A q \in Pages : q # p => frames'[q] = frames[q]
      /\ \A q \in Cached : frames'[q] = frames[q]
      /\ \A q \in Pages : q \in Cached' <=> q = p \/ q \in Cached
      /\ f \notin loaded \/ f = frames[p]
  <2>1. CASE p \in Cached
    BY <1>f, <2>1, PageIs DEF Cached
  <2>2. CASE p \notin Cached
    <3>1. frames'[p] = f /\ f # None /\ (\A q \in Pages : q # p => frames'[q] = frames[q]) /\ f \notin loaded
      BY <1>f, <2>2, PageIs, FreeUnpinned, SMTT(30) DEF TypeOK
    <3> QED BY <2>2, <3>1 DEF Cached
  <2> QED BY <2>1, <2>2
<1>c. \A u \in Threads : pc[u] \in {"load", "extend"} => target[u] \in Cached
  BY DEF CallInv, TypeOK, Cached
<1>2. HeaderInv'
  BY <1>0 DEF HeaderInv
<1>3. FrameInv' /\ lru' \in Seq(Pages) /\ frames' \in [Pages -> Frames \cup {None}] /\ frees' \subseteq Frames
  <2>1. CASE p \in Cached
    BY <1>f, <2>1, TouchKeeps DEF TypeOK
  <2>2. CASE p \notin Cached
    BY <1>f, <2>2, EnterKeeps DEF TypeOK
  <2> QED BY <2>1, <2>2
<1>1. TypeOK'
  <2>1. pin_count' \in [Frames -> Nat] /\ pc' \in [Threads -> Pcs]
    BY <1>0, <1>f DEF TypeOK, Pcs
  <2> QED BY <1>0, <1>f, <1>3, <2>1 DEF TypeOK
<1>4. PoolInv'
  BY <1>0, <1>t DEF PoolInv, Locked
<1>5. CallInv'
  <2>1. pc[t] = "alloc" <=> l = "load"
    BY <1>l
  <2>2. ASSUME NEW u \in Threads, pc'[u] \in {"load", "extend"} PROVE frames'[target[u]] # None
    BY <1>p, <1>t, <1>g, <1>c, <2>2 DEF Cached
  <2> QED BY <1>0, <1>t, <2>1, <2>2 DEF CallInv
<1>6. VictimInv'
  BY <1>0, <1>t, <1>v DEF VictimInv
<1>7. HeldInv'
  BY <1>0, <1>g DEF HeldInv, Cached
<1>8. PinsAgree'
  <2>1. \A g : Users(g)' = Users(g)
    BY <1>0 DEF Users
  <2>2. InCall(f)' = InCall(f) \cup {t} /\ t \notin InCall(f)
    <3>1. \A u \in Threads \ {t} : u \in InCall(f)' <=> u \in InCall(f)
      BY <1>0, <1>t, <1>v, <1>g, <1>c DEF InCall
    <3>2. t \in InCall(f)' /\ t \notin InCall(f)
      BY <1>0, <1>p, <1>t, <1>v, <1>g DEF InCall
    <3>3. InCall(f) \subseteq Threads /\ InCall(f)' \subseteq Threads
      BY DEF InCall
    <3> QED BY <3>1, <3>2, <3>3
  <2>3. \A g \in Frames \ {f} : InCall(g)' = InCall(g)
    BY <1>0, <1>p, <1>t, <1>v, <1>g, <1>c DEF InCall
  <2>4. Cardinality(InCall(f)') = Cardinality(InCall(f)) + 1
    BY <2>2, Counts, OneMore
  <2>5. pin_count'[f] = pin_count[f] + 1 /\ \A g \in Frames \ {f} : pin_count'[g] = pin_count[g]
    BY <1>f DEF TypeOK
  <2>6. Cardinality(Users(f)) \in Nat /\ Cardinality(InCall(f)) \in Nat
    BY Counts
  <2> QED BY <2>1, <2>3, <2>4, <2>5, <2>6 DEF PinsAgree
<1>9. ContentInv'
  <2>1. \A g \in loaded' : g \notin frees'
    BY <1>f DEF ContentInv
  <2>2. ASSUME NEW q \in Cached'
        PROVE  /\ frames'[q] \notin loaded' => \E u \in Threads : pc'[u] \in {"load", "extend"} /\ target'[u] = q
               /\ frames'[q] \in loaded' /\ ~dirty'[frames'[q]] /\ frames'[q] \notin unmarked' =>
                    data'[frames'[q]] = disk'[q]
    <3>1. CASE q = p
      BY <1>0, <1>p, <1>f, <1>t, <1>g, <3>1 DEF ContentInv
    <3>2. CASE q # p
      <4>1. q \in Cached /\ frames'[q] = frames[q]
        BY <1>g, <2>2, <3>2 DEF Cached
      <4> QED BY <1>0, <1>f, <1>t, <4>1 DEF ContentInv
    <3> QED BY <3>1, <3>2
  <2> QED BY <2>1, <2>2 DEF ContentInv
<1> QED BY <1>1, <1>2, <1>3, <1>4, <1>5, <1>6, <1>7, <1>8, <1>9

\* Frames of pages that are freed, when nobody uses them.
LEMMA FreeOthers ==
  ASSUME IndInv, NEW p \in Cached, Free(p),
         \A t \in Threads : held[t][p] = None,
         \A t \in Threads : pc[t] \in {"load", "extend"} => target[t] # p
  PROVE  /\ p \in Pages /\ frames[p] \in Frames /\ frames'[p] = None
         /\ \A q \in Pages : q # p => frames'[q] = frames[q] /\ (q \in Cached => frames[q] # frames[p])
         /\ \A q \in Pages : q \in Cached' <=> q # p /\ q \in Cached
         /\ \A t \in Threads : \A q \in Pages : held[t][q] # None => q # p /\ frames'[q] = held[t][q]
         /\ \A t \in Threads : \A q \in Pages : held[t][q] # frames[p]
         /\ \A t \in Threads : pc[t] \in {"load", "extend"} =>
              frames'[target[t]] = frames[target[t]] /\ frames[target[t]] # frames[p]
<1>1. /\ p \in Pages /\ frames[p] \in Frames /\ frames[p] # None /\ frames'[p] = None
      /\ \A q \in Pages : q # p => frames'[q] = frames[q] /\ (q \in Cached => frames[q] # frames[p])
  BY DEF Free, IndInv, TypeOK, Cached, FrameInv
<1>2. \A q \in Pages : q \in Cached' <=> q # p /\ q \in Cached
  BY <1>1 DEF Cached
<1>3. \A t \in Threads : \A q \in Pages : held[t][q] # None => q # p /\ frames'[q] = held[t][q]
  BY <1>1 DEF IndInv, HeldInv
<1>4. \A t \in Threads : \A q \in Pages : held[t][q] # frames[p]
  BY <1>1, <1>3 DEF Cached
<1>5. \A t \in Threads : pc[t] \in {"load", "extend"} => target[t] \in Cached /\ target[t] \in Pages
  BY DEF IndInv, CallInv, TypeOK, Cached
<1> QED BY <1>1, <1>2, <1>3, <1>4, <1>5

\* purge_frames evicts a page that is clean or of the same file.
LEMMA PurgeFramesInd ==
  ASSUME IndInv, NEW t \in Threads, PurgeFrames(t)
  PROVE  IndInv'
<1> USE DEF IndInv, headerVars
<1>p. PICK p \in Victims : WriteBackAndFree(p)
  BY DEF PurgeFrames
<1>f. PICK f \in Frames : f = frames[p]
  BY DEF Victims, Cached, TypeOK
<1>0. /\ p \in Cached /\ pin_count[f] = 0 /\ fm_lock = None
      /\ disk' = (IF dirty[f] THEN [disk EXCEPT ![p] = data[f]] ELSE disk)
      /\ dirty' = [dirty EXCEPT ![f] = FALSE] /\ Free(p)
      /\ UNCHANGED <<pin_count, data, bitmap, allocated_pages, page_count, fm_lock, pool_lock, pc, target, victim, held>>
  BY <1>p, <1>f DEF PurgeFrames, Victims, CanPurge, WriteBackAndFree
<1>v. \A u \in Threads : victim[u] = None
  BY <1>0, PageIs DEF VictimInv
<1>h. /\ \A u \in Threads : held[u][p] = None
      /\ \A u \in Threads : pc[u] \in {"load", "extend"} => target[u] # p
  <2>1. /\ \A u \in Threads : \A q \in Pages : held[u][q] # f
        /\ \A u \in Threads : pc[u] \in {"load", "extend"} => frames[target[u]] # f
    BY <1>0, Unpinned
  <2> QED BY <1>0, <1>f, <2>1 DEF HeldInv, Cached
<1>g. /\ p \in Pages /\ frames'[p] = None
      /\ \A q \in Pages : q # p => frames'[q] = frames[q] /\ (q \in Cached => frames[q] # f)
      /\ \A q \in Pages : q \in Cached' <=> q # p /\ q \in Cached
      /\ \A u \in Threads : \A q \in Pages : held[u][q] # None => q # p /\ frames'[q] = held[u][q]
      /\ \A u \in Threads : pc[u] \in {"load", "extend"} =>
           frames'[target[u]] = frames[target[u]] /\ frames[target[u]] # f
  BY <1>0, <1>f, <1>h, FreeOthers
<1>3. FrameInv' /\ lru' \in Seq(Pages) /\ frames' \in [Pages -> Frames \cup {None}]
      /\ frees' \subseteq Frames /\ loaded' \subseteq Frames /\ UNCHANGED unmarked
  BY <1>0, FreeKeeps
<1>1. TypeOK'
  <2>1. disk' \in [Pages -> Values] /\ dirty' \in [Frames -> BOOLEAN]
    BY <1>0, <1>g DEF TypeOK
  <2> QED BY <1>0, <1>3, <2>1 DEF TypeOK
<1>2. HeaderInv'
  BY <1>0 DEF HeaderInv
<1>4. PoolInv'
  BY <1>0 DEF PoolInv
<1>5. CallInv'
  BY <1>0, <1>g DEF CallInv
<1>6. VictimInv'
  BY <1>0, <1>v DEF VictimInv
<1>7. HeldInv'
  BY <1>0, <1>g DEF HeldInv
<1>8. PinsAgree'
  <2>1. \A h : Users(h)' = Users(h)
    BY <1>0 DEF Users
  <2>2. \A h : InCall(h)' = InCall(h)
    BY <1>0, <1>v, <1>g DEF InCall
  <2> QED BY <1>0, <2>1, <2>2 DEF PinsAgree
<1>9. ContentInv'
  <2>1. frees' = frees \cup {f} /\ loaded' = loaded \ {f} /\ UNCHANGED unmarked
    BY <1>0, <1>f DEF Free
  <2>2. ASSUME NEW q \in Cached'
        PROVE  /\ frames'[q] \notin loaded' => \E u \in Threads : pc'[u] \in {"load", "extend"} /\ target'[u] = q
               /\ frames'[q] \in loaded' /\ ~dirty'[frames'[q]] /\ frames'[q] \notin unmarked' =>
                    data'[frames'[q]] = disk'[q]
    <3>1. q \in Cached /\ q # p /\ q \in Pages /\ frames'[q] = frames[q] /\ frames[q] # f /\ frames[q] \in Frames
      BY <1>g, <2>2 DEF Cached, TypeOK
    <3>2. disk'[q] = disk[q] /\ dirty'[frames[q]] = dirty[frames[q]]
      BY <1>0, <3>1 DEF TypeOK
    <3> QED BY <1>0, <2>1, <3>1, <3>2 DEF ContentInv
  <2> QED BY <2>1, <2>2 DEF ContentInv
<1> QED BY <1>1, <1>2, <1>3, <1>4, <1>5, <1>6, <1>7, <1>8, <1>9

\* allocate_frame pins a dirty page of another file and keeps the frame manager's lock.
LEMMA PurgeOtherFileInd ==
  ASSUME IndInv, NEW t \in Threads, PurgeOtherFile(t)
  PROVE  IndInv'
<1> USE DEF IndInv, headerVars
<1>p. PICK p \in Victims : Pin(frames[p]) /\ victim' = [victim EXCEPT ![t] = p]
  BY DEF PurgeOtherFile
<1>f. PICK f \in Frames : f = frames[p]
  BY DEF Victims, Cached, TypeOK
<1>l. PICK l \in {"flush", "extend_flush"} : l = IF pc[t] = "alloc" THEN "flush" ELSE "extend_flush"
  OBVIOUS
<1>0. /\ p \in Cached /\ pin_count[f] = 0 /\ fm_lock = None /\ pc[t] \in {"alloc", "extend_alloc"}
      /\ pin_count' = [pin_count EXCEPT ![f] = @ + 1] /\ fm_lock' = t /\ pc' = [pc EXCEPT ![t] = l]
      /\ victim' = [victim EXCEPT ![t] = p]
      /\ UNCHANGED <<frames, lru, frees, dirty, data, disk, bitmap, allocated_pages, page_count, pool_lock,
                     target, held, loaded, unmarked>>
  BY <1>p, <1>f, <1>l DEF PurgeOtherFile, Victims, CanPurge, Pin, Goto
<1>g. p \in Pages /\ f # None /\ p # None
  BY <1>0, PageIs DEF Cached
<1>v. \A u \in Threads : victim[u] = None
  BY <1>0, PageIs DEF VictimInv
<1>h. /\ \A u \in Threads : \A q \in Pages : held[u][q] # f
      /\ \A u \in Threads : pc[u] \in {"load", "extend"} => frames[target[u]] # f
  BY <1>0, Unpinned
<1>t. pc'[t] = l /\ victim'[t] = p /\ \A u \in Threads : u # t => pc'[u] = pc[u] /\ victim'[u] = None
  BY <1>0, <1>v DEF TypeOK
<1>1. TypeOK'
  BY <1>0, <1>g DEF TypeOK, Pcs
<1>2. HeaderInv'
  BY <1>0 DEF HeaderInv
<1>3. FrameInv'
  BY <1>0 DEF FrameInv, Cached, Listed
<1>4. PoolInv'
  BY <1>0, <1>t DEF PoolInv, Locked
<1>5. CallInv'
  <2>1. pc[t] = "alloc" <=> l = "flush"
    BY <1>l
  <2> QED BY <1>0, <1>t, <2>1 DEF CallInv
<1>6. VictimInv'
  <2>1. f \in loaded
    BY <1>0, <1>f, <1>h DEF ContentInv
  <2> QED BY <1>0, <1>f, <1>g, <1>h, <1>t, <2>1 DEF VictimInv
<1>7. HeldInv'
  BY <1>0 DEF HeldInv
<1>8. PinsAgree'
  <2>1. \A g : Users(g)' = Users(g)
    BY <1>0 DEF Users
  <2>2. InCall(f)' = InCall(f) \cup {t} /\ t \notin InCall(f)
    <3>1. \A u \in Threads \ {t} : u \in InCall(f)' <=> u \in InCall(f)
      BY <1>0, <1>t, <1>v DEF InCall
    <3>2. t \in InCall(f)' /\ t \notin InCall(f)
      BY <1>0, <1>f, <1>g, <1>t, <1>v DEF InCall
    <3>3. InCall(f) \subseteq Threads /\ InCall(f)' \subseteq Threads
      BY DEF InCall
    <3> QED BY <3>1, <3>2, <3>3
  <2>3. \A g \in Frames \ {f} : InCall(g)' = InCall(g)
    BY <1>0, <1>f, <1>t, <1>v DEF InCall
  <2>4. Cardinality(InCall(f)') = Cardinality(InCall(f)) + 1
    BY <2>2, Counts, OneMore
  <2>5. pin_count'[f] = pin_count[f] + 1 /\ \A g \in Frames \ {f} : pin_count'[g] = pin_count[g]
    BY <1>0 DEF TypeOK
  <2>6. Cardinality(Users(f)) \in Nat /\ Cardinality(InCall(f)) \in Nat
    BY Counts
  <2> QED BY <2>1, <2>3, <2>4, <2>5, <2>6 DEF PinsAgree
<1>9. ContentInv'
  BY <1>0, <1>t DEF ContentInv, Cached
<1> QED BY <1>1, <1>2, <1>3, <1>4, <1>5, <1>6, <1>7, <1>8, <1>9

\* The page of the other file is written and its frame freed.
LEMMA FlushOtherFileInd ==
  ASSUME IndInv, NEW t \in Threads, FlushOtherFile(t)
  PROVE  IndInv'
<1> USE DEF IndInv, headerVars
<1>p. PICK p \in Pages : p = victim[t]
  BY PageIs DEF FlushOtherFile, VictimInv, TypeOK
<1>f. PICK f \in Frames : f = frames[p] /\ f \in loaded
  BY <1>p, PageIs DEF VictimInv, TypeOK
<1>l. PICK l \in {"alloc", "extend_alloc"} : l = IF pc[t] = "flush" THEN "alloc" ELSE "extend_alloc"
  OBVIOUS
<1>0. /\ pc[t] \in {"flush", "extend_flush"} /\ p \in Cached
      /\ disk' = (IF dirty[f] THEN [disk EXCEPT ![p] = data[f]] ELSE disk)
      /\ dirty' = [dirty EXCEPT ![f] = FALSE] /\ Free(p)
      /\ pin_count' = [pin_count EXCEPT ![f] = @ - 1]
      /\ victim' = [victim EXCEPT ![t] = None] /\ fm_lock' = None /\ pc' = [pc EXCEPT ![t] = l]
      /\ UNCHANGED <<data, bitmap, allocated_pages, page_count, pool_lock, target, held>>
  BY <1>p, <1>f, <1>l, PageIs DEF FlushOtherFile, WriteBackAndFree, Goto, Cached
<1>v. fm_lock = t /\ victim[t] # None /\ \A u \in Threads \ {t} : victim[u] = None
  BY <1>p, PageIs DEF VictimInv
<1>h. /\ \A u \in Threads : \A q \in Pages : held[u][q] # f
      /\ \A u \in Threads : held[u][p] = None
      /\ \A u \in Threads : pc[u] \in {"load", "extend"} => target[u] # p
  BY <1>p, <1>f, <1>v DEF VictimInv, HeldInv
<1>g. /\ frames'[p] = None
      /\ \A q \in Pages : q # p => frames'[q] = frames[q] /\ (q \in Cached => frames[q] # f)
      /\ \A q \in Pages : q \in Cached' <=> q # p /\ q \in Cached
      /\ \A u \in Threads : \A q \in Pages : held[u][q] # None => q # p /\ frames'[q] = held[u][q]
      /\ \A u \in Threads : pc[u] \in {"load", "extend"} =>
           frames'[target[u]] = frames[target[u]] /\ frames[target[u]] # f
  BY <1>0, <1>f, <1>h, FreeOthers
<1>t. pc'[t] = l /\ victim'[t] = None /\ \A u \in Threads : u # t => pc'[u] = pc[u] /\ victim'[u] = None
  BY <1>0, <1>v DEF TypeOK
<1>3. FrameInv' /\ lru' \in Seq(Pages) /\ frames' \in [Pages -> Frames \cup {None}]
      /\ frees' \subseteq Frames /\ loaded' \subseteq Frames /\ UNCHANGED unmarked
  BY <1>0, FreeKeeps
<1>8. PinsAgree' /\ pin_count'[f] = 0
  <2>1. Users(f) = {} /\ \A h : Users(h)' = Users(h)
    BY <1>0, <1>h DEF Users
  <2>2. InCall(f) = {t} /\ InCall(f)' = {}
    <3>1. InCall(f)' = {}
      BY <1>0, <1>t, <1>g DEF InCall
    <3>2. t \in InCall(f)
      BY <1>p, <1>f, <1>v DEF InCall
    <3>3. \A u \in InCall(f) : u = t
      BY <1>v, <1>g DEF InCall
    <3> QED BY <3>1, <3>2, <3>3
  <2>3. \A h \in Frames \ {f} : InCall(h)' = InCall(h)
    BY <1>0, <1>p, <1>f, <1>t, <1>v, <1>g DEF InCall
  <2>4. pin_count[f] = 1
    <3>1. Cardinality(Users(f)) = 0 /\ Cardinality(InCall(f)) = 1
      BY <2>1, <2>2, FS_EmptySet, FS_Singleton
    <3> QED BY <3>1 DEF PinsAgree
  <2>5. pin_count'[f] = 0 /\ \A h \in Frames \ {f} : pin_count'[h] = pin_count[h]
    BY <1>0, <2>4 DEF TypeOK
  <2>6. Cardinality(Users(f)') = 0 /\ Cardinality(InCall(f)') = 0
    BY <2>1, <2>2, FS_EmptySet
  <2> QED BY <2>1, <2>3, <2>5, <2>6 DEF PinsAgree
<1>1. TypeOK'
  <2>1. disk' \in [Pages -> Values] /\ dirty' \in [Frames -> BOOLEAN]
    BY <1>0 DEF TypeOK
  <2>2. pin_count' \in [Frames -> Nat]
    BY <1>0, <1>8 DEF TypeOK
  <2> QED BY <1>0, <1>3, <2>1, <2>2 DEF TypeOK, Pcs
<1>2. HeaderInv'
  BY <1>0 DEF HeaderInv
<1>4. PoolInv'
  BY <1>0, <1>t DEF PoolInv, Locked
<1>5. CallInv'
  <2>1. pc[t] = "flush" <=> l = "alloc"
    BY <1>l
  <2> QED BY <1>0, <1>t, <1>g, <2>1 DEF CallInv
<1>6. VictimInv'
  BY <1>0, <1>v, <1>t, PageIs DEF VictimInv
<1>7. HeldInv'
  BY <1>0, <1>g DEF HeldInv
<1>9. ContentInv'
  <2>1. frees' = frees \cup {f} /\ loaded' = loaded \ {f} /\ UNCHANGED unmarked
    BY <1>0, <1>f DEF Free
  <2>2. ASSUME NEW q \in Cached'
        PROVE  /\ frames'[q] \notin loaded' => \E u \in Threads : pc'[u] \in {"load", "extend"} /\ target'[u] = q
               /\ frames'[q] \in loaded' /\ ~dirty'[frames'[q]] /\ frames'[q] \notin unmarked' =>
                    data'[frames'[q]] = disk'[q]
    <3>1. q \in Cached /\ q # p /\ q \in Pages /\ frames'[q] = frames[q] /\ frames[q] # f /\ frames[q] \in Frames
      BY <1>g, <2>2 DEF Cached, TypeOK
    <3>2. disk'[q] = disk[q] /\ dirty'[frames[q]] = dirty[frames[q]]
      BY <1>0, <3>1 DEF TypeOK
    <3>3. frames[q] \notin loaded => \E u \in Threads : pc'[u] \in {"load", "extend"} /\ target'[u] = q
      BY <1>0, <1>t, <3>1 DEF ContentInv
    <3> QED BY <1>0, <2>1, <3>1, <3>2, <3>3 DEF ContentInv
  <2> QED BY <2>1, <2>2 DEF ContentInv
<1> QED BY <1>1, <1>2, <1>3, <1>4, <1>5, <1>6, <1>7, <1>8, <1>9

\* The end of a call that has its page's frame: what changes when it returns the page.
LEMMA EndOfCall ==
  ASSUME IndInv, NEW t \in Threads, NEW p \in Pages, NEW f \in Frames, p = target[t], f = frames[p],
         pc[t] \in {"load", "extend"}, Return(t, p, f), TypeOK', HeaderInv',
         pool_lock' = [pool_lock EXCEPT ![p[1]] = None], loaded' = loaded \cup {f},
         unmarked' = unmarked \ {f},
         p[2] \in bitmap'[p[1]], \A x \in Files : bitmap[x] \subseteq bitmap'[x],
         \A x \in Files \ {p[1]} : page_count'[x] = page_count[x],
         data'[f] = disk'[p], \A g \in Frames \ {f} : data'[g] = data[g] /\ dirty'[g] = dirty[g],
         \A q \in Pages \ {p} : disk'[q] = disk[q],
         UNCHANGED <<frames, lru, frees, pin_count, fm_lock, victim>>
  PROVE  IndInv'
<1> USE DEF IndInv
<1>r. /\ held'[t][p] = f
      /\ \A u \in Threads : \A q \in Pages : u # t \/ q # p => held'[u][q] = held[u][q]
      /\ pc'[t] = "idle" /\ target'[t] = None
      /\ \A u \in Threads : u # t => pc'[u] = pc[u] /\ target'[u] = target[u]
  BY ReturnIs
<1>0. /\ held[t][p] = None /\ p \in Cached /\ p # None /\ f # None /\ p[1] \in Files /\ victim[t] = None
      /\ pool_lock[p[1]] = t /\ \A u \in Threads : pc[u] \in Locked /\ target[u][1] = p[1] => u = t
  BY PageIs DEF CallInv, VictimInv, PoolInv, Locked, Cached
<1>t. \A u \in Threads : pc[u] # "idle" => target[u] \in Pages /\ target[u][1] \in Files
  BY PageIs DEF CallInv, TypeOK
<1>3. FrameInv'
  BY DEF FrameInv, Cached, Listed
<1>4. PoolInv'
  <2>1. pool_lock'[p[1]] = None /\ \A x \in Files : x # p[1] => pool_lock'[x] = pool_lock[x]
    BY <1>0 DEF TypeOK
  <2> QED BY <1>0, <1>r, <2>1, PageIs DEF PoolInv, Locked
<1>5. CallInv'
  <2>1. ASSUME NEW u \in Threads, u # t, pc[u] \in {"extend_alloc", "extend_flush", "extend"}
        PROVE  page_count'[target[u][1]] = page_count[target[u][1]]
    BY <1>0, <1>t, <2>1 DEF Locked
  <2>2. ASSUME NEW u \in Threads, u # t
        PROVE  /\ target'[u] = None <=> pc'[u] = "idle"
               /\ target'[u] # None => held'[u][target'[u]] = None
               /\ pc'[u] \in {"get", "lock", "alloc", "flush", "load"} => target'[u][2] \in bitmap'[target'[u][1]]
               /\ pc'[u] \in {"extend_alloc", "extend_flush", "extend"} => target'[u][2] = page_count'[target'[u][1]]
               /\ pc'[u] \in {"load", "extend"} => frames'[target'[u]] # None
    BY <1>r, <1>t, <2>1, <2>2 DEF CallInv
  <2> QED BY <1>r, <2>2 DEF CallInv
<1>6. VictimInv'
  <2>1. ASSUME NEW u \in Threads, victim[u] # None PROVE frames[victim[u]] # f
    BY <1>0, <2>1, PageIs DEF VictimInv, FrameInv, TypeOK, Cached
  <2> QED BY <1>0, <1>r, <2>1 DEF VictimInv
<1>7. HeldInv'
  BY <1>r, PageIs DEF HeldInv
<1>8. PinsAgree'
  <2>1. /\ Cardinality(Users(f)') = Cardinality(Users(f)) + 1
        /\ \A g \in Frames \ {f} : Users(g)' = Users(g)
    BY <1>0, <1>r, UsersMore
  <2>2. InCall(f)' = InCall(f) \ {t} /\ t \in InCall(f)
    <3>1. \A u \in Threads \ {t} : u \in InCall(f)' <=> u \in InCall(f)
      BY <1>r DEF InCall
    <3>2. t \notin InCall(f)' /\ t \in InCall(f)
      BY <1>0, <1>r DEF InCall
    <3>3. InCall(f) \subseteq Threads /\ InCall(f)' \subseteq Threads
      BY DEF InCall
    <3> QED BY <3>1, <3>2, <3>3
  <2>3. \A g \in Frames \ {f} : InCall(g)' = InCall(g)
    BY <1>0, <1>r DEF InCall
  <2>4. Cardinality(InCall(f)') = Cardinality(InCall(f)) - 1
    BY <2>2, Counts, OneMore
  <2>6. Cardinality(Users(f)) \in Nat /\ Cardinality(InCall(f)) \in Nat
    BY Counts
  <2> QED BY <2>1, <2>3, <2>4, <2>6 DEF PinsAgree
<1>9. ContentInv'
  <2>1. f \notin frees
    BY DEF FrameInv
  <2>2. ASSUME NEW q \in Cached'
        PROVE  /\ frames'[q] \notin loaded' => \E u \in Threads : pc'[u] \in {"load", "extend"} /\ target'[u] = q
               /\ frames'[q] \in loaded' /\ ~dirty'[frames'[q]] /\ frames'[q] \notin unmarked' =>
                    data'[frames'[q]] = disk'[q]
    <3>1. CASE q = p
      BY <3>1
    <3>2. CASE q # p
      <4>1. q \in Cached /\ q \in Pages /\ frames[q] # f /\ frames[q] \in Frames
        BY <1>0, <2>2, <3>2 DEF Cached, FrameInv, TypeOK
      <4>2. frames[q] \notin loaded => \E u \in Threads : pc'[u] \in {"load", "extend"} /\ target'[u] = q
        BY <1>r, <3>2, <4>1 DEF ContentInv
      <4> QED BY <3>2, <4>1, <4>2 DEF ContentInv
    <3> QED BY <3>1, <3>2
  <2> QED BY <2>1, <2>2 DEF ContentInv
<1> QED BY <1>3, <1>4, <1>5, <1>6, <1>7, <1>8, <1>9

\* load_page reads the page from its file, and get_this_page returns it.
LEMMA LoadPageInd ==
  ASSUME IndInv, NEW t \in Threads, LoadPage(t)
  PROVE  IndInv'
<1> USE DEF IndInv, headerVars
<1>p. PICK p \in Pages : p = target[t]
  BY DEF LoadPage, CallInv, TypeOK
<1>f. PICK f \in Frames : f = frames[p]
  BY <1>p DEF LoadPage, CallInv, TypeOK
<1>0. /\ pc[t] = "load" /\ data' = [data EXCEPT ![f] = disk[p]] /\ loaded' = loaded \cup {f}
      /\ unmarked' = unmarked \ {f}
      /\ pool_lock' = [pool_lock EXCEPT ![p[1]] = None] /\ Return(t, p, f)
      /\ UNCHANGED <<frames, lru, frees, pin_count, dirty, disk, bitmap, allocated_pages, page_count, fm_lock, victim>>
  BY <1>p, <1>f DEF LoadPage
<1>1. TypeOK'
  <2>1. /\ held' \in [Threads -> [Pages -> Frames \cup {None}]]
        /\ pc' \in [Threads -> Pcs] /\ target' \in [Threads -> Pages \cup {None}]
    BY <1>0, ReturnIs
  <2>2. /\ data' \in [Frames -> Values] /\ loaded' \subseteq Frames /\ unmarked' \subseteq Frames
        /\ pool_lock' \in [Files -> Threads \cup {None}]
    BY <1>0 DEF TypeOK
  <2> QED BY <1>0, <2>1, <2>2 DEF TypeOK
<1>2. HeaderInv' /\ p[2] \in bitmap[p[1]]
  BY <1>0, <1>p DEF HeaderInv, CallInv
<1>3. data'[f] = disk'[p] /\ \A g \in Frames \ {f} : data'[g] = data[g]
  BY <1>0 DEF TypeOK
<1> QED BY <1>0, <1>p, <1>f, <1>1, <1>2, <1>3, EndOfCall

\* The end of allocate_page when the file grows.
LEMMA ExtendDoneInd ==
  ASSUME IndInv, NEW t \in Threads, ExtendDone(t)
  PROVE  IndInv'
<1> USE DEF IndInv
<1>p. PICK p \in Pages : p = target[t]
  BY DEF ExtendDone, CallInv, TypeOK
<1>f. PICK f \in Frames : f = frames[p]
  BY <1>p DEF ExtendDone, CallInv, TypeOK
<1>x. PICK x \in Files : x = p[1]
  BY PageIs
<1>0. /\ pc[t] = "extend"
      /\ allocated_pages' = [allocated_pages EXCEPT ![x] = @ + 1]
      /\ page_count' = [page_count EXCEPT ![x] = @ + 1]
      /\ bitmap' = [bitmap EXCEPT ![x] = @ \cup {p[2]}]
      /\ data' = [data EXCEPT ![f] = Zero] /\ disk' = [disk EXCEPT ![p] = Zero]
      /\ dirty' = [dirty EXCEPT ![f] = FALSE] /\ loaded' = loaded \cup {f} /\ unmarked' = unmarked \ {f}
      /\ pool_lock' = [pool_lock EXCEPT ![x] = None] /\ Return(t, p, f)
      /\ UNCHANGED <<frames, lru, frees, pin_count, fm_lock, victim>>
  BY <1>p, <1>f, <1>x DEF ExtendDone
<1>k. PICK k \in Nat : k = page_count[x]
  BY DEF TypeOK
<1>n. p[2] = k /\ k \in 1 .. MAX_PAGE_NUM[x] - 1 /\ MAX_PAGE_NUM[x] \in Nat
  BY <1>0, <1>p, <1>x, <1>k, PageIs, SizeAssumption DEF CallInv
<1>h. /\ allocated_pages'[x] = allocated_pages[x] + 1 /\ page_count'[x] = k + 1
      /\ bitmap'[x] = bitmap[x] \cup {k}
      /\ \A y \in Files : y # x => /\ allocated_pages'[y] = allocated_pages[y]
                                   /\ page_count'[y] = page_count[y] /\ bitmap'[y] = bitmap[y]
  BY <1>0, <1>k, <1>n DEF TypeOK
<1>b. allocated_pages[x] \in 1 .. k /\ bitmap[x] \subseteq 1 .. k - 1
  BY <1>k DEF TypeOK
<1>1. TypeOK'
  <2>1. /\ held' \in [Threads -> [Pages -> Frames \cup {None}]]
        /\ pc' \in [Threads -> Pcs] /\ target' \in [Threads -> Pages \cup {None}]
    BY <1>0, ReturnIs
  <2>2. /\ data' \in [Frames -> Values] /\ disk' \in [Pages -> Values] /\ dirty' \in [Frames -> BOOLEAN]
        /\ loaded' \subseteq Frames /\ unmarked' \subseteq Frames /\ pool_lock' \in [Files -> Threads \cup {None}]
    BY <1>0, ValueAssumption DEF TypeOK
  <2>3. /\ page_count' \in [Files -> Nat] /\ allocated_pages' \in [Files -> Nat]
        /\ bitmap' \in [Files -> SUBSET Nat]
    BY <1>0, <1>n, SMTT(30) DEF TypeOK
  <2>4. ASSUME NEW y \in Files
        PROVE  /\ page_count'[y] \in 1 .. MAX_PAGE_NUM[y]
               /\ allocated_pages'[y] \in 1 .. page_count'[y]
               /\ bitmap'[y] \subseteq 1 .. page_count'[y] - 1
    <3>1. CASE y = x
      <4>1. \A i \in bitmap[x] \cup {k} : i \in 1 .. (k + 1) - 1
        BY <1>b, <1>n
      <4>2. allocated_pages[x] + 1 \in 1 .. k + 1 /\ k + 1 \in 1 .. MAX_PAGE_NUM[x]
        BY <1>b, <1>n
      <4> QED BY <1>h, <3>1, <4>1, <4>2
    <3>2. CASE y # x
      BY <1>h, <3>2 DEF TypeOK
    <3> QED BY <3>1, <3>2
  <2> QED BY <1>0, <2>1, <2>2, <2>3, <2>4 DEF TypeOK
<1>2. HeaderInv'
  <2>1. k \notin bitmap[x]
    BY <1>b
  <2>2. Cardinality(bitmap'[x]) = Cardinality(bitmap[x]) + 1 /\ Cardinality(bitmap[x]) \in Nat
    BY <1>h, <2>1, BitmapFinite, OneMore
  <2> QED BY <1>h, <2>2 DEF HeaderInv
<1>3. /\ data'[f] = disk'[p] /\ \A g \in Frames \ {f} : data'[g] = data[g] /\ dirty'[g] = dirty[g]
      /\ \A q \in Pages \ {p} : disk'[q] = disk[q]
  BY <1>0 DEF TypeOK
<1>4. p[2] \in bitmap'[p[1]] /\ \A y \in Files : bitmap[y] \subseteq bitmap'[y]
  BY <1>x, <1>n, <1>h
<1>5. \A y \in Files \ {p[1]} : page_count'[y] = page_count[y]
  BY <1>x, <1>h
<1>6. /\ pool_lock' = [pool_lock EXCEPT ![p[1]] = None] /\ pc[t] \in {"load", "extend"}
      /\ loaded' = loaded \cup {f} /\ unmarked' = unmarked \ {f} /\ Return(t, p, f)
      /\ UNCHANGED <<frames, lru, frees, pin_count, fm_lock, victim>>
  BY <1>0, <1>x
<1> HIDE DEF IndInv
<1> QED BY <1>p, <1>f, <1>1, <1>2, <1>3, <1>4, <1>5, <1>6, EndOfCall

\* A caller changes a page it uses, and marks its frame dirty or not.
LEMMA WritePageInd ==
  ASSUME IndInv, NEW t \in Threads, NEW p \in Pages, WritePage(t, p)
  PROVE  IndInv'
<1> USE DEF IndInv, headerVars
<1>f. PICK f \in Frames : f = held[t][p]
  BY DEF WritePage, TypeOK
<1>0. /\ data' \in [Frames -> Values] /\ \A g \in Frames \ {f} : data'[g] = data[g]
      /\ UNCHANGED <<frames, lru, frees, pin_count, disk, bitmap, allocated_pages, page_count, fm_lock,
                     pool_lock, pc, target, victim, held, loaded>>
  <2>1. PICK v \in Values : data' = [data EXCEPT ![f] = v]
    BY <1>f DEF WritePage
  <2> QED BY <1>f, <2>1 DEF WritePage, TypeOK
<1>d. /\ dirty' \in [Frames -> BOOLEAN] /\ unmarked' \subseteq Frames
      /\ dirty'[f] \/ f \in unmarked'
      /\ \A g \in Frames \ {f} : dirty'[g] = dirty[g] /\ (g \in unmarked' <=> g \in unmarked)
  <2>1. CASE dirty' = [dirty EXCEPT ![f] = TRUE] /\ unmarked' = unmarked \ {f}
    BY <2>1 DEF TypeOK
  <2>2. CASE unmarked' = unmarked \cup {f} /\ UNCHANGED dirty
    BY <2>2 DEF TypeOK
  <2> QED BY <1>f, <2>1, <2>2 DEF WritePage
<1>1. TypeOK'
  BY <1>0, <1>d DEF TypeOK
<1>2. HeaderInv' /\ PoolInv' /\ CallInv' /\ VictimInv' /\ HeldInv'
  BY <1>0 DEF HeaderInv, PoolInv, CallInv, VictimInv, HeldInv
<1>3. FrameInv'
  BY <1>0 DEF FrameInv, Cached, Listed
<1>4. PinsAgree'
  BY <1>0 DEF PinsAgree, Users, InCall
<1>5. ContentInv'
  <2>1. ASSUME NEW q \in Cached, frames[q] \in loaded, ~dirty'[frames[q]], frames[q] \notin unmarked'
        PROVE  data'[frames[q]] = disk[q]
    <3>1. frames[q] \in Frames
      BY DEF TypeOK, Cached
    <3>2. frames[q] # f /\ ~dirty[frames[q]] /\ frames[q] \notin unmarked
      BY <1>d, <2>1, <3>1
    <3> QED BY <1>0, <2>1, <3>1, <3>2 DEF ContentInv
  <2> QED BY <1>0, <2>1 DEF ContentInv, Cached
<1> QED BY <1>1, <1>2, <1>3, <1>4, <1>5

\* flush_page of a page in use.
LEMMA FlushPageInd ==
  ASSUME IndInv, NEW t \in Threads, NEW p \in Pages, FlushPage(t, p)
  PROVE  IndInv'
<1> USE DEF IndInv, headerVars
<1>f. PICK f \in Frames : f = held[t][p]
  BY DEF FlushPage, TypeOK
<1>0. /\ disk' = [disk EXCEPT ![p] = data[f]] /\ dirty' = [dirty EXCEPT ![f] = FALSE]
      /\ unmarked' = unmarked \ {f}
      /\ UNCHANGED <<frames, lru, frees, pin_count, data, bitmap, allocated_pages, page_count, fm_lock,
                     pool_lock, pc, target, victim, held, loaded>>
  BY <1>f DEF FlushPage
<1>h. frames[p] = f /\ f # None
  BY <1>f, PageIs DEF HeldInv
<1>1. TypeOK'
  BY <1>0 DEF TypeOK
<1>2. HeaderInv' /\ PoolInv' /\ CallInv' /\ VictimInv' /\ HeldInv'
  BY <1>0 DEF HeaderInv, PoolInv, CallInv, VictimInv, HeldInv
<1>3. FrameInv'
  BY <1>0 DEF FrameInv, Cached, Listed
<1>4. PinsAgree'
  BY <1>0 DEF PinsAgree, Users, InCall
<1>5. ContentInv'
  <2>1. ASSUME NEW q \in Cached, frames[q] \in loaded, ~dirty'[frames[q]], frames[q] \notin unmarked'
        PROVE  data[frames[q]] = disk'[q]
    <3>1. q \in Pages /\ frames[q] \in Frames
      BY DEF TypeOK, Cached
    <3>2. CASE q = p
      BY <1>0, <1>h, <3>2 DEF TypeOK
    <3>3. CASE q # p
      <4>1. frames[q] # f
        BY <1>h, <3>1, <3>3 DEF FrameInv, Cached
      <4>2. ~dirty[frames[q]] /\ frames[q] \notin unmarked /\ disk'[q] = disk[q]
        BY <1>0, <2>1, <3>1, <3>3, <4>1 DEF TypeOK
      <4> QED BY <2>1, <4>2 DEF ContentInv
    <3> QED BY <3>2, <3>3
  <2> QED BY <1>0, <2>1 DEF ContentInv, Cached
<1> QED BY <1>1, <1>2, <1>3, <1>4, <1>5

\* A caller releases a page.
LEMMA UnpinPageInd ==
  ASSUME IndInv, NEW t \in Threads, NEW p \in Pages, UnpinPage(t, p)
  PROVE  IndInv'
<1> USE DEF IndInv, headerVars
<1>f. PICK f \in Frames : f = held[t][p]
  BY DEF UnpinPage, TypeOK
<1>0. /\ pin_count' = [pin_count EXCEPT ![f] = @ - 1] /\ held' = [held EXCEPT ![t][p] = None]
      /\ UNCHANGED <<frames, lru, frees, dirty, data, disk, bitmap, allocated_pages, page_count, fm_lock,
                     pool_lock, pc, target, victim, loaded, unmarked>>
  BY <1>f DEF UnpinPage
<1>h. /\ held' \in [Threads -> [Pages -> Frames \cup {None}]] /\ held'[t][p] = None
      /\ \A u \in Threads : \A q \in Pages : u # t \/ q # p => held'[u][q] = held[u][q]
  BY <1>0 DEF TypeOK
<1>n. f # None
  BY PageIs
<1>8. PinsAgree' /\ pin_count'[f] \in Nat
  <2>0. <<t, p>>[1] = t /\ <<t, p>>[2] = p /\ <<t, p>> \in Threads \X Pages
    OBVIOUS
  <2>1. \A v \in Threads \X Pages : v # <<t, p>> => held'[v[1]][v[2]] = held[v[1]][v[2]]
    BY <1>h
  <2>2. Users(f)' = Users(f) \ {<<t, p>>} /\ <<t, p>> \in Users(f)
    BY <1>f, <1>h, <1>n, <2>0, <2>1 DEF Users
  <2>3. \A g \in Frames \ {f} : Users(g)' = Users(g)
    <3> TAKE g \in Frames \ {f}
    <3>1. g # None
      BY PageIs
    <3> QED BY <1>f, <1>h, <2>0, <2>1, <3>1 DEF Users
  <2>4. Cardinality(Users(f)') = Cardinality(Users(f)) - 1
    BY <2>2, Counts, OneMore
  <2>5. \A g : InCall(g)' = InCall(g)
    BY <1>0 DEF InCall
  <2>6. pin_count'[f] = pin_count[f] - 1 /\ \A g \in Frames \ {f} : pin_count'[g] = pin_count[g]
    BY <1>0 DEF TypeOK
  <2>7. Cardinality(Users(f)) \in Nat /\ Cardinality(InCall(f)) \in Nat
    BY Counts
  <2>8. Users(f) # {} /\ Cardinality(Users(f)) # 0
    BY <2>2, Counts, FS_EmptySet
  <2>9. pin_count'[f] \in Nat
    BY <2>6, <2>7, <2>8 DEF PinsAgree
  <2> QED BY <2>3, <2>4, <2>5, <2>6, <2>7, <2>9 DEF PinsAgree
<1>1. TypeOK'
  <2>1. pin_count' \in [Frames -> Nat]
    BY <1>0, <1>8 DEF TypeOK
  <2> QED BY <1>0, <1>h, <2>1 DEF TypeOK
<1>2. HeaderInv' /\ PoolInv'
  BY <1>0 DEF HeaderInv, PoolInv
<1>3. FrameInv'
  BY <1>0 DEF FrameInv, Cached, Listed
<1>5. CallInv'
  <2>1. \A u \in Threads : target[u] # None => target[u] \in Pages
    BY DEF TypeOK
  <2> QED BY <1>0, <1>h, <2>1 DEF CallInv
<1>6. VictimInv'
  <2>1. \A u \in Threads : victim[u] # None => frames[victim[u]] # None
    BY PageIs DEF VictimInv, TypeOK
  <2> QED BY <1>0, <1>h, <2>1 DEF VictimInv
<1>7. HeldInv'
  BY <1>0, <1>h DEF HeldInv
<1>9. ContentInv'
  BY <1>0 DEF ContentInv, Cached
<1> QED BY <1>1, <1>2, <1>3, <1>5, <1>6, <1>7, <1>8, <1>9

\* dispose_page takes the page out of the bitmap and frees its frame.
LEMMA DisposePageInd ==
  ASSUME IndInv, NEW t \in Threads, NEW p \in Pages, DisposePage(t, p)
  PROVE  IndInv'
<1> USE DEF IndInv
<1>x. PICK x \in Files : x = p[1]
  BY PageIs
<1>k. PICK k \in Nat : k = p[2]
  BY PageIs
<1>0. /\ pc[t] = "idle" /\ pool_lock[x] = None /\ fm_lock = None
      /\ k \in bitmap[x] /\ p \in Cached
      /\ \A u \in Threads : held[u][p] = None /\ target[u] # p
      /\ Free(p)
      /\ allocated_pages' = [allocated_pages EXCEPT ![x] = @ - 1]
      /\ bitmap' = [bitmap EXCEPT ![x] = @ \ {k}]
      /\ UNCHANGED <<pin_count, dirty, data, disk, page_count, fm_lock, pool_lock, pc, target, victim, held>>
  BY <1>x, <1>k DEF DisposePage
<1>f. PICK f \in Frames : f = frames[p]
  BY <1>0 DEF Cached, TypeOK
<1>v. \A u \in Threads : victim[u] = None
  BY <1>0, PageIs DEF VictimInv
<1>g. /\ frames'[p] = None
      /\ \A q \in Pages : q # p => frames'[q] = frames[q] /\ (q \in Cached => frames[q] # f)
      /\ \A q \in Pages : q \in Cached' <=> q # p /\ q \in Cached
      /\ \A u \in Threads : \A q \in Pages : held[u][q] # None => q # p /\ frames'[q] = held[u][q]
      /\ \A u \in Threads : pc[u] \in {"load", "extend"} =>
           frames'[target[u]] = frames[target[u]] /\ frames[target[u]] # f
  BY <1>0, <1>f, FreeOthers
<1>h. /\ allocated_pages'[x] = allocated_pages[x] - 1 /\ bitmap'[x] = bitmap[x] \ {k}
      /\ \A y \in Files : y # x => allocated_pages'[y] = allocated_pages[y] /\ bitmap'[y] = bitmap[y]
  BY <1>0 DEF TypeOK
<1>b. \A q \in Pages : q # p /\ q[2] \in bitmap[q[1]] => q[2] \in bitmap'[q[1]]
  BY <1>x, <1>k, <1>h, PageIs
<1>c. /\ Cardinality(bitmap[x]) \in Nat /\ Cardinality(bitmap[x]) # 0
      /\ Cardinality(bitmap'[x]) = Cardinality(bitmap[x]) - 1
  <2>1. IsFiniteSet(bitmap[x]) /\ Cardinality(bitmap[x]) \in Nat
    BY BitmapFinite
  <2>2. Cardinality(bitmap[x]) # 0
    BY <1>0, <2>1, FS_EmptySet
  <2>3. Cardinality(bitmap[x] \ {k}) = Cardinality(bitmap[x]) - 1
    BY <1>0, <2>1, OneMore
  <2> QED BY <1>h, <2>1, <2>2, <2>3
<1>3. FrameInv' /\ lru' \in Seq(Pages) /\ frames' \in [Pages -> Frames \cup {None}]
      /\ frees' \subseteq Frames /\ loaded' \subseteq Frames /\ UNCHANGED unmarked
  BY <1>0, FreeKeeps
<1>2. HeaderInv'
  <2> SUFFICES ASSUME NEW y \in Files PROVE allocated_pages'[y] = Cardinality(bitmap'[y]) + 1
    BY DEF HeaderInv
  <2>1. CASE y = x
    <3>1. allocated_pages[x] = Cardinality(bitmap[x]) + 1
      BY DEF HeaderInv
    <3>2. PICK n \in Nat : n = Cardinality(bitmap[x])
      BY <1>c
    <3>3. allocated_pages'[x] = n /\ Cardinality(bitmap'[x]) = n - 1
      BY <1>c, <1>h, <3>1, <3>2
    <3> QED BY <2>1, <3>3
  <2>2. CASE y # x
    BY <1>h, <2>2 DEF HeaderInv
  <2> QED BY <2>1, <2>2
<1>1. TypeOK'
  <2>1. allocated_pages'[x] \in 1 .. page_count[x]
    BY <1>h, <1>c DEF HeaderInv, TypeOK
  <2>2. /\ allocated_pages' \in [Files -> Nat] /\ bitmap' \in [Files -> SUBSET Nat]
    BY <1>0, <1>h, <2>1 DEF TypeOK
  <2>3. \A y \in Files : /\ page_count'[y] \in 1 .. MAX_PAGE_NUM[y]
                         /\ allocated_pages'[y] \in 1 .. page_count'[y]
                         /\ bitmap'[y] \subseteq 1 .. page_count'[y] - 1
    BY <1>0, <1>h, <2>1 DEF TypeOK
  <2> QED BY <1>0, <1>3, <2>2, <2>3 DEF TypeOK
<1>4. PoolInv'
  BY <1>0 DEF PoolInv
<1>5. CallInv'
  <2>1. \A u \in Threads : pc[u] # "idle" => target[u] \in Pages
    BY DEF CallInv, TypeOK
  <2> QED BY <1>0, <1>b, <1>g, <2>1 DEF CallInv
<1>6. VictimInv'
  BY <1>0, <1>v DEF VictimInv
<1>7. HeldInv'
  BY <1>0, <1>b, <1>g DEF HeldInv
<1>8. PinsAgree'
  <2>1. \A h : Users(h)' = Users(h)
    BY <1>0 DEF Users
  <2>2. \A h : InCall(h)' = InCall(h)
    BY <1>0, <1>v, <1>g DEF InCall
  <2> QED BY <1>0, <2>1, <2>2 DEF PinsAgree
<1>9. ContentInv'
  <2>1. frees' = frees \cup {f} /\ loaded' = loaded \ {f} /\ UNCHANGED unmarked
    BY <1>0, <1>f DEF Free
  <2>2. ASSUME NEW q \in Cached'
        PROVE  /\ frames'[q] \notin loaded' => \E u \in Threads : pc'[u] \in {"load", "extend"} /\ target'[u] = q
               /\ frames'[q] \in loaded' /\ ~dirty'[frames'[q]] /\ frames'[q] \notin unmarked' =>
                    data'[frames'[q]] = disk'[q]
    <3>1. q \in Cached /\ q # p /\ q \in Pages /\ frames'[q] = frames[q] /\ frames[q] # f
      BY <1>g, <2>2 DEF Cached
    <3> QED BY <1>0, <2>1, <3>1 DEF ContentInv
  <2> QED BY <2>1, <2>2 DEF ContentInv
<1> QED BY <1>1, <1>2, <1>3, <1>4, <1>5, <1>6, <1>7, <1>8, <1>9

\* Every step of every thread keeps the invariant.
LEMMA NextInd == IndInv /\ [Next]_vars => IndInv'
<1> SUFFICES ASSUME IndInv, [Next]_vars PROVE IndInv'
  OBVIOUS
<1>1. CASE UNCHANGED vars
  <2> USE <1>1 DEF vars, headerVars
  <2>1. TypeOK' /\ HeaderInv' /\ PoolInv' /\ CallInv' /\ VictimInv' /\ HeldInv'
    BY DEF IndInv, TypeOK, HeaderInv, PoolInv, CallInv, VictimInv, HeldInv
  <2>2. FrameInv' /\ ContentInv'
    BY DEF IndInv, FrameInv, ContentInv, Cached, Listed
  <2>3. PinsAgree'
    BY DEF IndInv, PinsAgree, Users, InCall
  <2> QED BY <2>1, <2>2, <2>3 DEF IndInv
<1>2. ASSUME NEW t \in Threads, Step(t) PROVE IndInv'
  <2>1. ASSUME NEW p \in Pages, GetThisPage(t, p) PROVE IndInv'
    BY <2>1, LookForFrameInd DEF GetThisPage
  <2>2. ASSUME GetAllocated(t) PROVE IndInv'
    <3>1. target[t] \in Pages /\ held[t][target[t]] = None /\ target[t][2] \in bitmap[target[t][1]]
          /\ pc[t] = "get"
      BY <2>2 DEF GetAllocated, IndInv, CallInv, TypeOK
    <3> QED BY <2>2, <3>1, LookForFrameInd DEF GetAllocated
  <2>3. ASSUME NEW x \in Files, ReusePage(t, x) \/ ExtendFile(t, x) PROVE IndInv'
    BY <2>3, ReusePageInd, ExtendFileInd
  <2>4. ASSUME NEW p \in Pages, WritePage(t, p) \/ FlushPage(t, p) \/ UnpinPage(t, p) \/ DisposePage(t, p)
        PROVE  IndInv'
    BY <2>4, WritePageInd, FlushPageInd, UnpinPageInd, DisposePageInd
  <2>5. ASSUME LockPool(t) \/ AllocateFrame(t) \/ PurgeFrames(t) PROVE IndInv'
    BY <2>5, LockPoolInd, AllocateFrameInd, PurgeFramesInd
  <2>6. ASSUME PurgeOtherFile(t) \/ FlushOtherFile(t) \/ LoadPage(t) \/ ExtendDone(t) PROVE IndInv'
    BY <2>6, PurgeOtherFileInd, FlushOtherFileInd, LoadPageInd, ExtendDoneInd
  <2> QED BY <1>2, <2>1, <2>2, <2>3, <2>4, <2>5, <2>6 DEF Step
<1> QED BY <1>1, <1>2 DEF Next

----------------------------------------------------------------------------
(* What follows from it.                                                   *)

\* A list of every cached page once is as long as there are cached pages.
LEMMA ListLength ==
  ASSUME TypeOK, FrameInv
  PROVE  Len(lru) = Cardinality(Cached)
<1>1. Len(lru) \in Nat /\ DOMAIN lru = 1 .. Len(lru) /\ lru \in [1 .. Len(lru) -> Pages]
  BY LenProperties DEF TypeOK
<1>2. lru \in Bijection(1 .. Len(lru), Cached)
  <2>1. \A i \in 1 .. Len(lru) : lru[i] \in Cached
    BY <1>1 DEF FrameInv, Listed
  <2>2. \A p \in Cached : \E i \in 1 .. Len(lru) : lru[i] = p
    BY <1>1 DEF FrameInv, Listed, Cached
  <2>3. lru \in [1 .. Len(lru) -> Cached]
    BY <1>1, <2>1
  <2>4. \A i, j \in 1 .. Len(lru) : lru[i] = lru[j] => i = j
    BY <1>1 DEF FrameInv
  <2>5. lru \in Injection(1 .. Len(lru), Cached)
    BY <2>3, <2>4 DEF Injection, IsInjective
  <2>6. lru \in Surjection(1 .. Len(lru), Cached)
    BY <2>2, <2>3 DEF Surjection
  <2> QED BY <2>5, <2>6 DEF Bijection
<1>3. IsFiniteSet(1 .. Len(lru)) /\ Cardinality(1 .. Len(lru)) = Len(lru)
  <2>1. \A n \in Nat : IsFiniteSet(1 .. n) /\ Cardinality(1 .. n) = n
    BY FS_Interval
  <2> QED BY <1>1, <2>1
<1> QED BY <1>2, <1>3, FS_Bijection DEF ExistsBijection

\* The invariant holds in every state the buffer pool can reach.
THEOREM Invariant == Spec => []IndInv
<1>1. Init => IndInv
  BY InitInd
<1>2. IndInv /\ [Next]_vars => IndInv'
  BY NextInd
<1> QED BY <1>1, <1>2, PTL DEF Spec

\* Whatever threads get, evict, allocate, release and dispose of, on however many files
\* and frames: a page in use stays in the frame its user was given, a frame's pin count
\* is the number of its users and calls, and map, list and pool agree.
THEOREM PoolCorrect == Spec => []PoolAgrees
<1>1. IndInv => PoolAgrees
  <2> SUFFICES ASSUME IndInv PROVE PoolAgrees
    OBVIOUS
  <2> USE DEF IndInv
  <2>1. HeldIsResident
    BY DEF HeldIsResident, HeldInv, Using
  <2>2. FramesAgree
    <3>1. frees = Frames \ {frames[p] : p \in Cached}
      <4>1. \A f \in Frames : f \in frees <=> ~(\E p \in Cached : f = frames[p])
        BY PageIs DEF FrameInv, Cached
      <4>2. frees \subseteq Frames
        BY DEF TypeOK
      <4> QED BY <4>1, <4>2
    <3>2. {lru[i] : i \in DOMAIN lru} = Cached
      <4>1. \A i \in DOMAIN lru : lru[i] \in Pages
        BY DEF TypeOK
      <4> QED BY <4>1 DEF FrameInv, Listed, Cached
    <3>3. Len(lru) = Cardinality(Cached)
      BY ListLength
    <3> QED BY <3>1, <3>2, <3>3 DEF FramesAgree, FrameInv
  <2> QED BY <2>1, <2>2 DEF PoolAgrees
<1> QED BY <1>1, Invariant, PTL

----------------------------------------------------------------------------
(* No update is lost.                                                      *)

\* What a page contains, when nobody was given a frame before it was loaded.
Plain(p) == IF p \in Cached /\ frames[p] \in loaded THEN data[frames[p]] ELSE disk[p]

\* A user of a frame that is not loaded was given it while another call is about to
\* load it.
LEMMA UnloadedUsed ==
  ASSUME IndInv, NEW p \in Cached, p[2] \in bitmap[p[1]], frames[p] \notin loaded,
         NEW u \in Threads, held[u][p] # None
  PROVE  DoubleLoad(p)
<1> USE DEF IndInv
<1>f. PICK f \in Frames : f = frames[p]
  BY DEF Cached, TypeOK
<1>p. p \in Pages /\ p[1] \in Files
  BY PageIs DEF Cached
<1>1. PICK t \in Threads : pc[t] \in {"load", "extend"} /\ target[t] = p
  BY DEF ContentInv
<1>2. pc[t] = "load"
  <2>1. \A n \in Nat : n \notin 1 .. n - 1
    OBVIOUS
  <2>2. page_count[p[1]] \in Nat /\ bitmap[p[1]] \subseteq 1 .. page_count[p[1]] - 1
    BY <1>p DEF TypeOK
  <2>3. p[2] # page_count[p[1]]
    BY <2>1, <2>2
  <2> QED BY <1>1, <2>3 DEF CallInv
<1>3. Users(f) # {} /\ InCall(f) # {}
  <2>1. <<u, p>> \in Users(f)
    BY <1>f, <1>p DEF Users, HeldInv
  <2>2. t \in InCall(f)
    BY <1>f, <1>1 DEF InCall
  <2> QED BY <2>1, <2>2
<1>4. Cardinality(Users(f)) \in Nat \ {0} /\ Cardinality(InCall(f)) \in Nat \ {0}
  BY <1>3, Counts, FS_EmptySet
<1>5. pin_count[f] > 1
  <2>1. \A m, n \in Nat \ {0} : m + n > 1
    OBVIOUS
  <2>2. pin_count[f] = Cardinality(Users(f)) + Cardinality(InCall(f))
    BY DEF PinsAgree
  <2> QED BY <1>4, <2>1, <2>2
<1> QED BY <1>f, <1>1, <1>2, <1>5 DEF DoubleLoad

\* So what the next user of an allocated page will find is the loaded frame or the
\* file, unless a double load is under way.
LEMMA ContentIs ==
  IndInv => \A p \in Pages : p[2] \in bitmap[p[1]] => DoubleLoad(p) \/ Content(p) = Plain(p)
  BY UnloadedUsed DEF Content, Plain

\* The same of the state after a step.
LEMMA ContentIsNext ==
  IndInv' => (\A p \in Pages : p[2] \in bitmap[p[1]] => DoubleLoad(p) \/ Content(p) = Plain(p))'
  BY ContentIs, PTL

\* A frame that is evicted has been written to its file, if it differed from it and
\* its changes were marked.
LEMMA EvictionKeeps ==
  ASSUME IndInv, NEW v \in Cached, WriteBackAndFree(v), frames[v] \in loaded, UNCHANGED data,
         NEW p \in Pages, ~UnmarkedEvicted(p)
  PROVE  Plain(p)' = Plain(p)
<1> USE DEF IndInv
<1>f. PICK f \in Frames : f = frames[v]
  BY DEF Cached, TypeOK
<1>0. /\ disk' = (IF dirty[f] THEN [disk EXCEPT ![v] = data[f]] ELSE disk)
      /\ frames' = [frames EXCEPT ![v] = None] /\ loaded' = loaded \ {f} /\ v \in Pages
  BY <1>f DEF WriteBackAndFree, Free, Cached
<1>1. CASE p = v
  <2>1. Plain(p) = data[f]
    BY <1>f, <1>1 DEF Plain
  <2>2. Plain(p)' = disk'[v] /\ p \notin Cached'
    BY <1>0, <1>1 DEF Plain, Cached, TypeOK
  <2>3. f \notin unmarked
    BY <1>f, <1>1, <2>2 DEF UnmarkedEvicted
  <2>4. disk'[v] = data[f]
    BY <1>f, <1>0, <2>3 DEF ContentInv, TypeOK
  <2> QED BY <2>1, <2>2, <2>4
<1>2. CASE p # v
  <2>1. frames'[p] = frames[p] /\ disk'[p] = disk[p] /\ (p \in Cached <=> p \in Cached')
    BY <1>0, <1>2 DEF TypeOK, Cached
  <2>2. p \in Cached => frames[p] # f
    BY <1>f, <1>2 DEF FrameInv
  <2> QED BY <1>0, <2>1, <2>2 DEF Plain
<1> QED BY <1>1, <1>2

\* Every step but a user's change keeps what a page contains, unless it overwrites a
\* frame that was loaded already, or evicts a change that was not marked.
LEMMA StepKeeps ==
  ASSUME IndInv, NEW t \in Threads, Step(t), NEW p \in Pages,
         p[2] \in bitmap[p[1]], p[2] \in bitmap'[p[1]], ~DoubleLoad(p), ~UnmarkedEvicted(p), ~WritePage(t, p)
  PROVE  Plain(p)' = Plain(p)
<1> USE DEF IndInv
<1>1. ASSUME NEW q \in Pages, GetThisPage(t, q) PROVE Plain(p)' = Plain(p)
  BY <1>1 DEF GetThisPage, LookForFrame, Lookup, Plain, Cached
<1>2. ASSUME GetAllocated(t) PROVE Plain(p)' = Plain(p)
  BY <1>2 DEF GetAllocated, LookForFrame, Lookup, Plain, Cached
<1>3. ASSUME LockPool(t) \/ PurgeOtherFile(t) PROVE Plain(p)' = Plain(p)
  BY <1>3 DEF LockPool, PurgeOtherFile, Plain, Cached
<1>4. ASSUME AllocateFrame(t) PROVE Plain(p)' = Plain(p)
  <2>1. PICK q \in Pages : q = target[t]
    BY <1>4 DEF AllocateFrame, CallInv, TypeOK
  <2>2. CASE q \in Cached
    BY <1>4, <2>1, <2>2 DEF AllocateFrame, Lookup, Plain, Cached
  <2>3. CASE q \notin Cached
    <3>1. PICK f \in Frames : Enter(q, f)
      BY <1>4, <2>1, <2>3 DEF AllocateFrame
    <3>2. f \notin loaded
      BY <3>1 DEF Enter, ContentInv
    <3>3. /\ frames' = [frames EXCEPT ![q] = f] /\ UNCHANGED <<loaded, data, disk>>
      BY <1>4, <3>1 DEF AllocateFrame, Enter
    <3>4. CASE p = q
      BY <2>3, <3>2, <3>3, <3>4 DEF Plain, Cached, TypeOK
    <3>5. CASE p # q
      BY <3>3, <3>5 DEF Plain, Cached, TypeOK
    <3> QED BY <3>4, <3>5
  <2> QED BY <2>2, <2>3
<1>5. ASSUME PurgeFrames(t) PROVE Plain(p)' = Plain(p)
  <2>1. PICK v \in Victims : WriteBackAndFree(v) /\ UNCHANGED data
    BY <1>5 DEF PurgeFrames
  <2>2. v \in Cached /\ frames[v] \in Frames /\ pin_count[frames[v]] = 0
    BY DEF Victims, CanPurge, Cached, TypeOK
  <2>3. frames[v] \in loaded
    BY <2>2, Unpinned DEF ContentInv
  <2> QED BY <2>1, <2>2, <2>3, EvictionKeeps
<1>6. ASSUME FlushOtherFile(t) PROVE Plain(p)' = Plain(p)
  <2>1. PICK v \in Pages : v = victim[t]
    BY <1>6, PageIs DEF FlushOtherFile, VictimInv, TypeOK
  <2>2. WriteBackAndFree(v) /\ UNCHANGED data
    BY <1>6, <2>1 DEF FlushOtherFile
  <2>3. frames[v] \in loaded
    BY <2>1, PageIs DEF VictimInv
  <2>4. v \in Cached
    BY <2>3, PageIs DEF Cached, TypeOK
  <2> QED BY <2>2, <2>3, <2>4, EvictionKeeps
<1>7. ASSUME LoadPage(t) PROVE Plain(p)' = Plain(p)
  <2>1. PICK q \in Pages : q = target[t]
    BY <1>7 DEF LoadPage, CallInv, TypeOK
  <2>2. PICK f \in Frames : f = frames[q]
    BY <1>7, <2>1 DEF LoadPage, CallInv, TypeOK
  <2>3. /\ data' = [data EXCEPT ![f] = disk[q]] /\ loaded' = loaded \cup {f}
        /\ UNCHANGED <<frames, disk>> /\ pc[t] = "load" /\ q \in Cached
    BY <1>7, <2>1, <2>2, PageIs DEF LoadPage, Cached
  <2>4. CASE p = q
    <3>1. f \notin loaded
      BY <2>1, <2>2, <2>3, <2>4 DEF DoubleLoad
    <3> QED BY <2>2, <2>3, <2>4, <3>1 DEF Plain, Cached, TypeOK
  <2>5. CASE p # q
    <3>1. p \in Cached => frames[p] # f /\ frames[p] \in Frames
      BY <2>2, <2>3, <2>5 DEF FrameInv, Cached, TypeOK
    <3>2. p \in Cached => data'[frames[p]] = data[frames[p]]
      BY <2>3, <3>1 DEF TypeOK
    <3> QED BY <2>3, <3>1, <3>2 DEF Plain, Cached
  <2> QED BY <2>4, <2>5
<1>8. ASSUME NEW x \in Files, ReusePage(t, x) \/ ExtendFile(t, x) PROVE Plain(p)' = Plain(p)
  BY <1>8 DEF ReusePage, ExtendFile, Plain, Cached
<1>9. ASSUME ExtendDone(t) PROVE Plain(p)' = Plain(p)
  <2>1. PICK q \in Pages : q = target[t]
    BY <1>9 DEF ExtendDone, CallInv, TypeOK
  <2>2. PICK f \in Frames : f = frames[q]
    BY <1>9, <2>1 DEF ExtendDone, CallInv, TypeOK
  <2>3. /\ data' = [data EXCEPT ![f] = Zero] /\ loaded' = loaded \cup {f}
        /\ disk' = [disk EXCEPT ![q] = Zero]
        /\ UNCHANGED frames /\ pc[t] = "extend" /\ q \in Cached
    BY <1>9, <2>1, <2>2, PageIs DEF ExtendDone, Cached
  <2>4. p # q
    <3>1. \A n \in Nat : n \notin 1 .. n - 1
      OBVIOUS
    <3>2. page_count[q[1]] \in Nat /\ bitmap[q[1]] \subseteq 1 .. page_count[q[1]] - 1
      BY PageIs DEF TypeOK
    <3>3. q[2] = page_count[q[1]]
      BY <2>1, <2>3 DEF CallInv
    <3> QED BY <3>1, <3>2, <3>3
  <2>5. p \in Cached => frames[p] # f /\ frames[p] \in Frames
    BY <2>2, <2>3, <2>4 DEF FrameInv, Cached, TypeOK
  <2>6. (p \in Cached => data'[frames[p]] = data[frames[p]]) /\ disk'[p] = disk[p]
    BY <2>3, <2>4, <2>5 DEF TypeOK
  <2> QED BY <2>3, <2>5, <2>6 DEF Plain, Cached
<1>10. ASSUME NEW q \in Pages, WritePage(t, q) PROVE Plain(p)' = Plain(p)
  <2>1. PICK f \in Frames : f = held[t][q]
    BY <1>10 DEF WritePage, TypeOK
  <2>2. frames[q] = f /\ q \in Cached /\ p # q
    BY <1>10, <2>1, PageIs DEF HeldInv, Cached
  <2>3. p \in Cached => frames[p] # f /\ frames[p] \in Frames
    BY <2>2 DEF FrameInv, Cached, TypeOK
  <2>4. /\ UNCHANGED <<frames, disk, loaded>>
        /\ \E v \in Values : data' = [data EXCEPT ![f] = v]
    BY <1>10, <2>1 DEF WritePage
  <2>5. p \in Cached => data'[frames[p]] = data[frames[p]]
    BY <2>3, <2>4 DEF TypeOK
  <2> QED BY <2>4, <2>5 DEF Plain, Cached
<1>11. ASSUME NEW q \in Pages, FlushPage(t, q) PROVE Plain(p)' = Plain(p)
  <2>1. PICK f \in Frames : f = held[t][q]
    BY <1>11 DEF FlushPage, TypeOK
  <2>2. frames[q] = f /\ q \in Cached
    BY <2>1, PageIs DEF HeldInv, Cached
  <2>3. disk' = [disk EXCEPT ![q] = data[f]] /\ UNCHANGED <<frames, data, loaded>>
    BY <1>11, <2>1 DEF FlushPage
  <2>4. CASE p = q
    <3>1. f \in loaded
      BY <2>1, <2>2, <2>4, UnloadedUsed, PageIs
    <3> QED BY <2>2, <2>3, <2>4, <3>1 DEF Plain, Cached
  <2>5. CASE p # q
    <3>1. disk'[p] = disk[p]
      BY <2>3, <2>5 DEF TypeOK
    <3> QED BY <2>3, <3>1 DEF Plain, Cached
  <2> QED BY <2>4, <2>5
<1>12. ASSUME NEW q \in Pages, UnpinPage(t, q) PROVE Plain(p)' = Plain(p)
  BY <1>12 DEF UnpinPage, Plain, Cached
<1>13. ASSUME NEW q \in Pages, DisposePage(t, q) PROVE Plain(p)' = Plain(p)
  <2>1. PICK f \in Frames : f = frames[q]
    BY <1>13 DEF DisposePage, Cached, TypeOK
  <2>2. /\ frames' = [frames EXCEPT ![q] = None] /\ loaded' = loaded \ {f}
        /\ UNCHANGED <<data, disk>> /\ q \in Cached
    BY <1>13, <2>1 DEF DisposePage, Free
  <2>3. p # q
    BY <1>13, PageIs DEF DisposePage, TypeOK
  <2>4. frames'[p] = frames[p] /\ (p \in Cached <=> p \in Cached') /\ (p \in Cached => frames[p] # f)
    BY <2>1, <2>2, <2>3 DEF FrameInv, Cached, TypeOK
  <2> QED BY <2>2, <2>4 DEF Plain
<1> QED BY <1>1, <1>2, <1>3, <1>4, <1>5, <1>6, <1>7, <1>8, <1>9, <1>10, <1>11, <1>12, <1>13 DEF Step

\* No update that was marked is lost, for any number of threads, files, pages and
\* frames: evictions, by whichever thread and for whichever file, flushes, allocations
\* and disposals keep what every other allocated page contains; only get_this_page's
\* second load may not, and the eviction of a frame whose caller did not mark_dirty.
THEOREM UpdatesCorrect == Spec => UpdatesKept
<1>1. ASSUME IndInv, IndInv', [Next]_vars PROVE [\A p \in Pages : Kept(p)]_vars
  <2> SUFFICES ASSUME NEW t \in Threads, Step(t), NEW p \in Pages, p[2] \in bitmap[p[1]],
                      p[2] \in bitmap'[p[1]], ~DoubleLoad(p), ~DoubleLoad(p)',
                      ~UnmarkedEvicted(p), ~WritePage(t, p)
               PROVE  Content(p)' = Content(p)
    BY <1>1 DEF Next, Kept
  <2>1. Plain(p)' = Plain(p)
    BY <1>1, StepKeeps
  <2>2. Content(p) = Plain(p)
    BY <1>1, ContentIs
  <2>3. Content(p)' = Plain(p)'
    BY <1>1, ContentIsNext
  <2> QED BY <2>1, <2>2, <2>3
<1> QED BY <1>1, Invariant, PTL DEF Spec, UpdatesKept
=============================================================================
