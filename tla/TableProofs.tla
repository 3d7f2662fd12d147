----------------------------- MODULE TableProofs -----------------------------
(***************************************************************************)
(* Proofs about one table, for any number of threads, slots, fields and    *)
(* indexes, and for any faults and restarts: index entries have their rows *)
(* at every moment, and rows have their entries between statements (the    *)
(* invariant IInv); what rows hold reads as it was written, and no text is *)
(* kept for nothing (ContentInv); a unique index has let in two rows with  *)
(* the same values only where two inserts met (UniqueInv).                 *)
(***************************************************************************)
EXTENDS Table, InductionLemmas, SequenceTheorems, TLAPS

----------------------------------------------------------------------------
(* The inductive invariant.  Its parts are operators of the values they    *)
(* speak about: an index ix, the rows rs, a thread's state s.              *)

ThreadFields == {"pc", "op", "rest", "rid", "data", "vals", "forced", "i", "ix", "set", "new",
                 "copy", "unasked"}
IndexFields == {"name", "fields", "unique", "entries"}

\* The steps of a thread that works on a slot, and those at which the slot's row
\* may be without some of its entries.
Working == {"enter", "undo", "unrow", "leave", "clear"}
Covering == {"enter", "undo", "unrow", "leave"}

IsSeq(s) == s \in Seq({s[i] : i \in DOMAIN s})

IndexOK(ix, fs) ==
  /\ DOMAIN ix = IndexFields /\ ix.name \in fs
  /\ \A e \in ix.entries : e = <<e[1], e[2]>> /\ e[2] \in Rids

ThreadOK(s, fs) ==
  /\ DOMAIN s = ThreadFields
  /\ s.pc \in Working \cup {"idle", "next", "check", "publish", "write", "rename"}
  /\ s.rid \in IF s.pc \in Working THEN Rids ELSE {None}
  /\ s.pc \in Working => s.i \in Nat \ {0}
  /\ s.op \in {"delete", "update"} => DOMAIN s.rest \subseteq Rids
  /\ s.pc = "check" => DOMAIN s.data = Fields
  /\ s.pc \in {"leave", "clear"} /\ s.op # "delete" => DOMAIN s.new = Fields
  /\ s.pc = "publish" => IndexOK(s.ix, fs)

\* An index has no entry for slot r; it has the one of the record, if there is to
\* be one; what it has for r is the key of the row.
Absent(ix, r) == \A e \in ix.entries : e[2] # r
Has(ix, rec, r) == SkipUniqueNullKey(ix, rec) \/ <<Key(ix, rec), r>> \in ix.entries
Sound(ix, rs, r) ==
  \A e \in ix.entries : e[2] = r =>
    r \in DOMAIN rs /\ e[1] = Key(ix, rs[r]) /\ ~SkipUniqueNullKey(ix, rs[r])

\* How far a thread has come with its slot: entries are made from the first index
\* on, and taken back or deleted from the first one on.
WorkOK(s, rs, ixs) ==
  /\ s.pc \in {"enter", "undo", "unrow"} => s.rid \in DOMAIN rs /\ rs[s.rid] = s.data
  /\ s.pc = "enter" => \A j \in 1 .. Len(ixs) :
       IF j < s.i THEN Has(ixs[j], s.data, s.rid) ELSE Absent(ixs[j], s.rid)
  /\ s.pc = "undo" => \E k \in 1 .. Len(ixs) + 1 : \A j \in 1 .. Len(ixs) :
       IF s.i <= j /\ j < k THEN Has(ixs[j], s.data, s.rid) ELSE Absent(ixs[j], s.rid)
  /\ s.pc = "unrow" => \A j \in 1 .. Len(ixs) : Absent(ixs[j], s.rid)
  /\ s.pc = "leave" /\ s.rid \in DOMAIN rs /\ rs[s.rid] = s.data =>
       \A j \in 1 .. Len(ixs) : j < s.i => Absent(ixs[j], s.rid)

\* An index about to be published agrees with the rows.
BuildOK(ix, rs, sus) ==
  \A r \in Rids \ sus : Sound(ix, rs, r) /\ (r \in DOMAIN rs => Has(ix, rs[r], r))

TypeInv ==
  /\ DOMAIN rows \subseteq Rids /\ DOMAIN given = DOMAIN rows
  /\ \A r \in DOMAIN rows : DOMAIN rows[r] = Fields
  /\ IsSeq(indexes)
  /\ \A i \in 1 .. Len(indexes) : IndexOK(indexes[i], files)
  /\ th = [t \in Threads |-> th[t]]
  /\ \A t \in Threads : ThreadOK(th[t], files)

\* Two threads on one slot make it suspect.
SlotInv ==
  \A t, u \in Threads : t # u /\ th[t].rid = th[u].rid /\ th[t].rid \in Rids => th[t].rid \in suspect

EntryInv == \A r \in Rids \ suspect : \A i \in 1 .. Len(indexes) : Sound(indexes[i], rows, r)

\* A row without all its entries has a thread that is at work on it.
Covered(r) == \E t \in Threads : th[t].rid = r /\ th[t].pc \in Covering
RowInv ==
  \A r \in DOMAIN rows \ suspect :
    Covered(r) \/ \A i \in 1 .. Len(indexes) : Has(indexes[i], rows[r], r)

WorkInv == \A t \in Threads : th[t].rid \in Rids \ suspect => WorkOK(th[t], rows, indexes)

BuildInv == \A t \in Threads : th[t].pc = "publish" => BuildOK(th[t].ix, rows, suspect)

IInv == TypeInv /\ SlotInv /\ EntryInv /\ RowInv /\ WorkInv /\ BuildInv

\* A list of names is of indexes there are; it has them all.
Named(list, ixs) == IsSeq(list) /\ \A i \in 1 .. Len(list) : \E j \in 1 .. Len(ixs) : list[i] = ixs[j].name
Complete(list, ixs) == \A i \in 1 .. Len(ixs) : \E j \in 1 .. Len(list) : list[j] = ixs[i].name

\* The metadata in memory and in the file name indexes there are, and so do the copies
\* being written, and the temporary file while a thread is to rename it. As long as no
\* metadata has gone unwritten one thread writes at a time, and what it writes, or what
\* is in the file when none does, has every index.
MetaInv ==
  /\ Named(table_meta, indexes) /\ Named(disk_meta, indexes)
  /\ \A t \in Threads : Publishing(t) => Named(th[t].copy, indexes)
  /\ (\E t \in Threads : th[t].pc = "rename") /\ tmp_meta # None => Named(tmp_meta, indexes)
  /\ ~unwritten =>
       /\ \A t, u \in Threads : Publishing(t) /\ Publishing(u) => t = u
       /\ \A t \in Threads : Publishing(t) => Complete(th[t].copy, indexes)
       /\ \A t \in Threads : th[t].pc = "rename" => tmp_meta = th[t].copy
       /\ (\A t \in Threads : ~Publishing(t)) => Complete(disk_meta, indexes) /\ Complete(table_meta, indexes)

TableInv == IInv /\ MetaInv

----------------------------------------------------------------------------
(* Sequences, keys and slots.                                              *)

LEMMA SeqTuple ==
  ASSUME NEW n \in Nat, NEW f, NEW s, s = [i \in 1 .. n |-> f[i]]
  PROVE  IsSeq(s) /\ Len(s) = n
<1> DEFINE S == {s[i] : i \in DOMAIN s}
<1>1. s \in [1 .. n -> S]
  OBVIOUS
<1> HIDE DEF S
<1>2. s \in Seq(S) /\ Len(s) = n
  BY <1>1
<1> QED BY <1>2 DEF IsSeq, S

LEMMA SeqAppend ==
  ASSUME NEW s, IsSeq(s), NEW v
  PROVE  LET z == Append(s, v)
         IN  IsSeq(z) /\ Len(z) = Len(s) + 1 /\ z[Len(s) + 1] = v /\ \A i \in 1 .. Len(s) : z[i] = s[i]
<1> DEFINE S == {s[i] : i \in DOMAIN s} \cup {v}
           z == Append(s, v)
<1>1. s \in Seq(S) /\ v \in S
  <2>1. s \in Seq({s[i] : i \in DOMAIN s})
    BY DEF IsSeq
  <2> QED BY <2>1
<1> HIDE DEF S
<1>2. /\ z \in Seq(S) /\ Len(z) = Len(s) + 1 /\ z[Len(s) + 1] = v
      /\ \A i \in 1 .. Len(s) : z[i] = s[i]
  BY <1>1
<1>3. z = [i \in 1 .. Len(s) + 1 |-> z[i]] /\ Len(s) + 1 \in Nat
  <2> HIDE DEF z
  <2>1. z \in [1 .. Len(z) -> S] /\ Len(s) \in Nat
    BY <1>1, <1>2
  <2> QED BY <1>2, <2>1
<1> HIDE DEF z
<1>4. IsSeq(z)
  BY <1>3, SeqTuple
<1> QED BY <1>2, <1>4 DEF z

LEMMA SameKey ==
  ASSUME NEW a, NEW b, a.fields = b.fields, a.unique = b.unique, NEW rec
  PROVE  Key(a, rec) = Key(b, rec) /\ (SkipUniqueNullKey(a, rec) <=> SkipUniqueNullKey(b, rec))
<1>1. Key(a, rec) = Key(b, rec)
  BY DEF Key
<1> QED BY <1>1 DEF SkipUniqueNullKey

\* The first slot of a set of slots is one of them.
LEMMA FirstIn ==
  ASSUME NEW S, S \subseteq Rids, S # {}
  PROVE  First(S) \in S
<1>1. \E x \in S : \A y \in S : x <= y
  BY LeastNat, RidAssumption
<1> QED BY <1>1 DEF First

\* Two indexes that differ, if at all, in their entries for slot r.
SameElsewhere(a, b, r) ==
  /\ a.fields = b.fields /\ a.unique = b.unique
  /\ \A e : e[2] # r => (e \in a.entries <=> e \in b.entries)

\* A change of the entries of one slot leaves those of the others as they are.
LEMMA OtherSlots ==
  ASSUME NEW a, NEW b, NEW r, SameElsewhere(a, b, r), NEW q, q # r
  PROVE  /\ Absent(a, q) <=> Absent(b, q)
         /\ \A rec : Has(a, rec, q) <=> Has(b, rec, q)
         /\ \A x, y : q \in DOMAIN x /\ q \in DOMAIN y /\ x[q] = y[q] => (Sound(a, x, q) <=> Sound(b, y, q))
         /\ \A x, y : q \notin DOMAIN x /\ q \notin DOMAIN y => (Sound(a, x, q) <=> Sound(b, y, q))
<1>1. \A e : e[2] = q => (e \in a.entries <=> e \in b.entries)
  BY DEF SameElsewhere
<1>2. \A rec : Key(a, rec) = Key(b, rec) /\ (SkipUniqueNullKey(a, rec) <=> SkipUniqueNullKey(b, rec))
  BY SameKey DEF SameElsewhere
<1>3. Absent(a, q) <=> Absent(b, q)
  BY <1>1 DEF Absent
<1>4. \A rec : Has(a, rec, q) <=> Has(b, rec, q)
  <2>1. \A k : <<k, q>>[2] = q
    OBVIOUS
  <2> QED BY <1>1, <1>2, <2>1 DEF Has
<1>5. \A x, y : q \in DOMAIN x /\ q \in DOMAIN y /\ x[q] = y[q] => (Sound(a, x, q) <=> Sound(b, y, q))
  BY <1>1, <1>2 DEF Sound
<1>6. \A x, y : q \notin DOMAIN x /\ q \notin DOMAIN y => (Sound(a, x, q) <=> Sound(b, y, q))
  BY <1>1 DEF Sound
<1> QED BY <1>3, <1>4, <1>5, <1>6

----------------------------------------------------------------------------
(* What a step of one thread does: it changes the thread, the row of one   *)
(* slot and the entries of that slot.  Unless the slot is suspect, the     *)
(* thread has it to itself.                                                *)

LEMMA SlotStep ==
  ASSUME IInv, NEW t \in Threads, NEW s, NEW r \in Rids \cup {None},
         th' = [th EXCEPT ![t] = s], ThreadOK(s, files'),
         th[t].rid \in {r, None}, s.rid \in {r, None},
         DOMAIN rows' \subseteq Rids, DOMAIN given' = DOMAIN rows',
         \A q \in DOMAIN rows' : DOMAIN rows'[q] = Fields,
         \A q \in Rids : q # r =>
           (q \in DOMAIN rows' <=> q \in DOMAIN rows) /\ (q \in DOMAIN rows => rows'[q] = rows[q]),
         IsSeq(indexes'), Len(indexes') = Len(indexes),
         \A i \in 1 .. Len(indexes) :
           /\ IndexOK(indexes'[i], files')
           /\ indexes'[i].name = indexes[i].name
           /\ SameElsewhere(indexes'[i], indexes[i], r),
         files \subseteq files', suspect \subseteq suspect',
         s.pc = "publish" => BuildOK(s.ix, rows', suspect'),
         r \in Rids \ suspect' =>
           /\ \A u \in Threads \ {t} : th[u].rid # r
           /\ \A i \in 1 .. Len(indexes) : Sound(indexes'[i], rows', r)
           /\ r \in DOMAIN rows' =>
                \/ s.rid = r /\ s.pc \in Covering
                \/ \A i \in 1 .. Len(indexes) : Has(indexes'[i], rows'[r], r)
           /\ s.rid = r => WorkOK(s, rows', indexes')
           /\ \A u \in Threads \ {t} : th[u].pc = "publish" =>
                (r \in DOMAIN rows' <=> r \in DOMAIN rows) /\ (r \in DOMAIN rows => rows'[r] = rows[r])
  PROVE  IInv'
<1> USE RidAssumption
<1>1. /\ TypeInv /\ th' = [u \in Threads |-> th'[u]] /\ th'[t] = s
      /\ \A u \in Threads \ {t} : th'[u] = th[u]
  BY DEF IInv, TypeInv
<1>2. \A i \in 1 .. Len(indexes) : \A q \in Rids : q # r =>
        /\ Absent(indexes'[i], q) <=> Absent(indexes[i], q)
        /\ \A rec : Has(indexes'[i], rec, q) <=> Has(indexes[i], rec, q)
        /\ Sound(indexes'[i], rows', q) <=> Sound(indexes[i], rows, q)
  <2> SUFFICES ASSUME NEW i \in 1 .. Len(indexes), NEW q \in Rids, q # r
               PROVE  /\ Absent(indexes'[i], q) <=> Absent(indexes[i], q)
                      /\ \A rec : Has(indexes'[i], rec, q) <=> Has(indexes[i], rec, q)
                      /\ Sound(indexes'[i], rows', q) <=> Sound(indexes[i], rows, q)
    OBVIOUS
  <2>0. PICK a, b : a = indexes'[i] /\ b = indexes[i]
    OBVIOUS
  <2>1. SameElsewhere(a, b, r)
    BY <2>0
  <2>2. \/ q \in DOMAIN rows' /\ q \in DOMAIN rows /\ rows'[q] = rows[q]
        \/ q \notin DOMAIN rows' /\ q \notin DOMAIN rows
    OBVIOUS
  <2>3. /\ Absent(a, q) <=> Absent(b, q)
        /\ \A rec : Has(a, rec, q) <=> Has(b, rec, q)
        /\ \A x, y : q \in DOMAIN x /\ q \in DOMAIN y /\ x[q] = y[q] => (Sound(a, x, q) <=> Sound(b, y, q))
        /\ \A x, y : q \notin DOMAIN x /\ q \notin DOMAIN y => (Sound(a, x, q) <=> Sound(b, y, q))
    BY <2>1, OtherSlots, ZenonT(30)
  <2>4. Sound(a, rows', q) <=> Sound(b, rows, q)
    BY <2>2, <2>3, Zenon
  <2> QED BY <2>0, <2>3, <2>4
<1>3. TypeInv'
  <2>1. \A u \in Threads : ThreadOK(th'[u], files')
    <3>1. \A u \in Threads : ThreadOK(th[u], files) => ThreadOK(th[u], files')
      BY DEF ThreadOK, IndexOK
    <3> QED BY <1>1, <3>1 DEF TypeInv
  <2> QED BY <1>1, <2>1 DEF TypeInv
<1>4. SlotInv'
  <2> SUFFICES ASSUME NEW u \in Threads, NEW v \in Threads, u # v,
                      th'[u].rid = th'[v].rid, th'[u].rid \in Rids
               PROVE  th'[u].rid \in suspect'
    BY DEF SlotInv
  <2>1. CASE u # t /\ v # t
    BY <1>1, <2>1 DEF IInv, SlotInv
  <2>2. CASE u = t \/ v = t
    BY <1>1, <2>2
  <2> QED BY <2>1, <2>2
<1>5. EntryInv'
  BY <1>2 DEF IInv, EntryInv
<1>6. RowInv'
  <2> SUFFICES ASSUME NEW q \in DOMAIN rows', q \notin suspect',
                      ~ Covered(q)'
               PROVE  \A i \in 1 .. Len(indexes) : Has(indexes'[i], rows'[q], q)
    BY DEF RowInv
  <2>1. CASE q = r
    BY <1>1, <2>1 DEF Covered
  <2>2. CASE q # r
    <3>1. ~ Covered(q)
      BY <1>1, <2>2 DEF Covered, Covering, TypeInv
    <3>2. q \in DOMAIN rows \ suspect /\ rows'[q] = rows[q]
      BY <2>2
    <3>3. \A i \in 1 .. Len(indexes) : Has(indexes[i], rows[q], q)
      BY <3>1, <3>2 DEF IInv, RowInv
    <3> QED BY <1>2, <2>2, <3>2, <3>3
  <2> QED BY <2>1, <2>2
<1>7. WorkInv'
  <2> SUFFICES ASSUME NEW u \in Threads, th'[u].rid \in Rids \ suspect'
               PROVE  WorkOK(th'[u], rows', indexes')
    BY DEF WorkInv
  <2>1. CASE u = t
    BY <1>1, <2>1
  <2>2. CASE u # t
    <3>1. PICK s2 : s2 = th[u]
      OBVIOUS
    <3>2. s2 = th'[u] /\ s2.rid # r /\ s2.rid \in Rids \ suspect
      BY <1>1, <2>2, <3>1
    <3>3. WorkOK(s2, rows, indexes)
      BY <3>1, <3>2 DEF IInv, WorkInv
    <3>4. (s2.rid \in DOMAIN rows' <=> s2.rid \in DOMAIN rows)
          /\ (s2.rid \in DOMAIN rows => rows'[s2.rid] = rows[s2.rid])
      BY <3>2
    <3>5. \A i \in 1 .. Len(indexes) :
            /\ Absent(indexes'[i], s2.rid) <=> Absent(indexes[i], s2.rid)
            /\ Has(indexes'[i], s2.data, s2.rid) <=> Has(indexes[i], s2.data, s2.rid)
      BY <1>2, <3>2
    <3>6. WorkOK(s2, rows', indexes')
      BY <3>3, <3>4, <3>5 DEF WorkOK
    <3> QED BY <3>2, <3>6
  <2> QED BY <2>1, <2>2
<1>8. BuildInv'
  <2> SUFFICES ASSUME NEW u \in Threads, th'[u].pc = "publish"
               PROVE  BuildOK(th'[u].ix, rows', suspect')
    BY DEF BuildInv
  <2>1. CASE u = t
    BY <1>1, <2>1
  <2>2. CASE u # t
    <3>1. PICK ix : ix = th[u].ix
      OBVIOUS
    <3>2. th[u].pc = "publish" /\ th'[u].ix = ix /\ BuildOK(ix, rows, suspect)
      BY <1>1, <2>2, <3>1 DEF IInv, BuildInv
    <3>3. \A q \in Rids \ suspect' : (q \in DOMAIN rows' <=> q \in DOMAIN rows)
                                     /\ (q \in DOMAIN rows => rows'[q] = rows[q])
      <4> SUFFICES ASSUME NEW q \in Rids \ suspect'
                   PROVE  (q \in DOMAIN rows' <=> q \in DOMAIN rows)
                          /\ (q \in DOMAIN rows => rows'[q] = rows[q])
        OBVIOUS
      <4>1. CASE q # r
        BY <4>1
      <4>2. CASE q = r
        <5>1. r \in Rids \ suspect' /\ u \in Threads \ {t}
          BY <2>2, <4>2
        <5>2. (r \in DOMAIN rows' <=> r \in DOMAIN rows) /\ (r \in DOMAIN rows => rows'[r] = rows[r])
          BY <3>2, <5>1
        <5> QED BY <4>2, <5>2
      <4> QED BY <4>1, <4>2
    <3>4. BuildOK(ix, rows', suspect')
      BY <3>2, <3>3 DEF BuildOK, Sound
    <3> QED BY <3>2, <3>4
  <2> QED BY <2>1, <2>2
<1> QED BY <1>3, <1>4, <1>5, <1>6, <1>7, <1>8 DEF IInv

\* A step that changes only what the thread is doing.
LEMMA ThreadStep ==
  ASSUME IInv, NEW t \in Threads, NEW s, NEW r \in Rids \cup {None},
         th' = [th EXCEPT ![t] = s], ThreadOK(s, files'),
         th[t].rid \in {r, None}, s.rid \in {r, None},
         rows' = rows, given' = given, indexes' = indexes,
         files \subseteq files', suspect \subseteq suspect',
         s.pc = "publish" => BuildOK(s.ix, rows, suspect'),
         r \in Rids \ suspect' =>
           /\ \A u \in Threads \ {t} : th[u].rid # r
           /\ r \in DOMAIN rows =>
                \/ s.rid = r /\ s.pc \in Covering
                \/ \A i \in 1 .. Len(indexes) : Has(indexes[i], rows[r], r)
           /\ s.rid = r => WorkOK(s, rows, indexes)
  PROVE  IInv'
<1>1. TypeInv /\ EntryInv
  BY DEF IInv
<1>2. \A i \in 1 .. Len(indexes) :
        /\ IndexOK(indexes'[i], files')
        /\ indexes'[i].name = indexes[i].name
        /\ SameElsewhere(indexes'[i], indexes[i], r)
  BY <1>1 DEF TypeInv, IndexOK, SameElsewhere
<1>3. r \in Rids \ suspect' => \A i \in 1 .. Len(indexes) : Sound(indexes'[i], rows', r)
  BY <1>1 DEF EntryInv
<1>4. /\ DOMAIN rows' \subseteq Rids /\ DOMAIN given' = DOMAIN rows'
      /\ \A q \in DOMAIN rows' : DOMAIN rows'[q] = Fields
      /\ IsSeq(indexes')
  BY <1>1 DEF TypeInv
<1> QED BY <1>2, <1>3, <1>4, SlotStep

\* A step of a thread that has no slot before it and none after it.
LEMMA FreeStep ==
  ASSUME IInv, NEW t \in Threads, NEW s,
         th' = [th EXCEPT ![t] = s], ThreadOK(s, files'), th[t].rid = None, s.rid = None,
         rows' = rows, given' = given, indexes' = indexes,
         files \subseteq files', suspect \subseteq suspect',
         s.pc # "publish"
  PROVE  IInv'
<1>1. None \notin Rids
  BY RidAssumption
<1> QED BY <1>1, ThreadStep

\* Who has a slot that is not suspect has it alone.
LEMMA Alone ==
  ASSUME IInv, NEW t \in Threads, NEW r \in Rids \ suspect, th[t].rid = r
  PROVE  \A u \in Threads \ {t} : th[u].rid # r
BY DEF IInv, SlotInv

\* The threads with a slot are the ones SharesSlot and Disturbed look at.
LEMMA Shares ==
  ASSUME IInv, NEW t \in Threads
  PROVE  /\ \A r \in Rids : ~ SharesSlot(t, r) => \A u \in Threads \ {t} : th[u].rid # r
         /\ \A u \in Threads \ {t} : th[u].rid \in Rids => th[u].rid \in Disturbed(t)
<1>1. \A u \in Threads : th[u].rid \in Rids => InFlight(u) /\ th[u].rid # None
  BY RidAssumption DEF IInv, TypeInv, ThreadOK, InFlight, Working
<1> QED BY <1>1 DEF SharesSlot, Disturbed

\* A thread's type and the values that go with it.
LEMMA ThreadType ==
  ASSUME IInv, NEW t \in Threads
  PROVE  ThreadOK(th[t], files)
BY DEF IInv, TypeInv

----------------------------------------------------------------------------
(* The actions, one by one.                                                *)

LEMMA BeginKeeps ==
  ASSUME IInv, NEW t \in Threads,
         \/ \E tuples \in Tuples : Insert(t, tuples)
         \/ \E r \in DOMAIN rows : Delete(t, r)
         \/ \E S \in SUBSET DOMAIN rows, f \in Fields : \E v \in Values(f) : Update(t, S, f, v)
  PROVE  IInv'
<1> USE DEF Begin, Set, history
<1>0. ThreadOK(th[t], files) /\ DOMAIN rows \subseteq Rids /\ th = [u \in Threads |-> th[u]]
  BY DEF IInv, TypeInv
<1>1. ASSUME NEW tuples \in Tuples, Insert(t, tuples)
      PROVE  IInv'
  <2>1. PICK s : s = [Idle EXCEPT !.pc = "next", !.op = "insert", !.rest = tuples]
    OBVIOUS
  <2>2. ThreadOK(s, files) /\ s.rid = None /\ s.pc # "publish"
    BY <2>1 DEF ThreadOK, Idle, ThreadFields, Working
  <2>3. th' = [th EXCEPT ![t] = s] /\ th[t].rid = None
    BY <1>0, <1>1, <2>1 DEF Insert, ThreadOK, Working
  <2> QED BY <1>1, <2>2, <2>3, FreeStep DEF Insert
<1>2. ASSUME NEW r \in DOMAIN rows, Delete(t, r)
      PROVE  IInv'
  <2>1. PICK s : s = [Idle EXCEPT !.pc = "next", !.op = "delete", !.rest = Collected({r})]
    OBVIOUS
  <2>2. ThreadOK(s, files) /\ s.rid = None /\ s.pc # "publish"
    BY <1>0, <2>1 DEF ThreadOK, Idle, ThreadFields, Working, Collected
  <2>3. th' = [th EXCEPT ![t] = s] /\ th[t].rid = None
    BY <1>0, <1>2, <2>1 DEF Delete, ThreadOK, Working
  <2> QED BY <1>2, <2>2, <2>3, FreeStep DEF Delete
<1>3. ASSUME NEW S \in SUBSET DOMAIN rows, NEW f \in Fields, NEW v \in Values(f), Update(t, S, f, v)
      PROVE  IInv'
  <2>1. PICK s : s = [Idle EXCEPT !.pc = "next", !.op = "update", !.rest = Collected(S),
                                  !.set = [field |-> f, value |-> Kept(f, v)]]
    OBVIOUS
  <2>2. ThreadOK(s, files) /\ s.rid = None /\ s.pc # "publish"
    BY <1>0, <2>1 DEF ThreadOK, Idle, ThreadFields, Working, Collected
  <2>3. th[t].rid = None /\ th[t].pc = "idle"
    BY <1>0, <1>3 DEF Update, ThreadOK, Working
  <2>4. CASE UNCHANGED th
    <3>1. th' = [th EXCEPT ![t] = th[t]]
      BY <1>0, <2>4
    <3> QED BY <1>0, <1>3, <2>3, <3>1, FreeStep DEF Update
  <2>5. CASE th' = [th EXCEPT ![t] = s]
    BY <1>3, <2>2, <2>3, <2>5, FreeStep DEF Update
  <2> QED BY <1>3, <2>1, <2>4, <2>5 DEF Update
<1> QED BY <1>1, <1>2, <1>3

LEMMA InsertNextKeeps ==
  ASSUME IInv, NEW t \in Threads, InsertNext(t)
  PROVE  IInv'
<1> DEFINE tuple == Head(th[t].rest)
           kept == [f \in Fields |-> Kept(f, tuple.vals[f])]
           vals == [f \in Fields |-> IF f \in tuple.forced THEN Null ELSE kept[f]]
<1>0. ThreadOK(th[t], files) /\ th[t].rid = None
  BY ThreadType DEF InsertNext, ThreadOK, Working
<1>1. CASE Accepts(kept, tuple.forced)
  <2>1. PICK s : s = [th[t] EXCEPT !.pc = "check", !.rest = Tail(@), !.i = 1,
                                   !.data = Record(kept, tuple.forced),
                                   !.vals = vals, !.forced = tuple.forced]
    OBVIOUS
  <2>2. th' = [th EXCEPT ![t] = s]
    BY <1>1, <2>1 DEF InsertNext, Set
  <2>3. DOMAIN Record(kept, tuple.forced) = Fields
    BY DEF Record
  <2>4. ThreadOK(s, files) /\ s.rid = None /\ s.pc # "publish"
    <3> HIDE DEF vals, kept, tuple
    <3>1. /\ DOMAIN s = ThreadFields /\ s.pc = "check" /\ s.rid = None /\ s.op = th[t].op
          /\ DOMAIN s.data = Fields
      BY <1>0, <2>1, <2>3 DEF ThreadOK, ThreadFields
    <3>2. s.op = "insert"
      BY <3>1 DEF InsertNext
    <3> QED BY <3>1, <3>2 DEF ThreadOK, Working
  <2> QED BY <1>0, <2>2, <2>4, FreeStep DEF InsertNext
<1>2. CASE ~ Accepts(kept, tuple.forced)
  <2>1. ThreadOK(Idle, files) /\ Idle.rid = None /\ Idle.pc # "publish"
    BY DEF ThreadOK, Idle, ThreadFields, Working
  <2> QED BY <1>0, <1>2, <2>1, FreeStep DEF InsertNext, Done, Set
<1> QED BY <1>1, <1>2

\* Taking up a slot: whoever else has it makes it suspect.
LEMMA DeleteNextKeeps ==
  ASSUME IInv, NEW t \in Threads, DeleteNext(t)
  PROVE  IInv'
<1>1. PICK r : r = First(DOMAIN th[t].rest)
  OBVIOUS
<1>2. PICK s : s = [th[t] EXCEPT !.pc = "leave", !.i = 1, !.rid = r, !.data = th[t].rest[r],
                                 !.rest = Without(@, r)]
  OBVIOUS
<1>3. /\ ThreadOK(th[t], files) /\ th[t].rid = None /\ th[t].op = "delete"
      /\ DOMAIN th[t].rest # {} /\ DOMAIN th[t].rest \subseteq Rids
  BY ThreadType DEF DeleteNext, ThreadOK, Working
<1>4. r \in Rids
  BY <1>1, <1>3, FirstIn
<1>5. /\ th' = [th EXCEPT ![t] = s] /\ suspect \subseteq suspect'
      /\ r \notin suspect' => ~ SharesSlot(t, r)
      /\ UNCHANGED <<rows, given, indexes, files>>
  BY <1>1, <1>2 DEF DeleteNext, Set
<1>6. DOMAIN s = ThreadFields /\ s.pc = "leave" /\ s.i = 1 /\ s.rid = r /\ s.op = "delete"
      /\ s.rest = Without(th[t].rest, r)
  BY <1>2, <1>3 DEF ThreadOK, ThreadFields
<1>7. ThreadOK(s, files)
  BY <1>3, <1>4, <1>6 DEF ThreadOK, Working, Without
<1>8. WorkOK(s, rows, indexes)
  BY <1>6 DEF WorkOK
<1>9. r \in Rids \ suspect' => \A u \in Threads \ {t} : th[u].rid # r
  BY <1>5, Shares
<1> QED BY <1>3, <1>4, <1>5, <1>6, <1>7, <1>8, <1>9, ThreadStep DEF Covering

LEMMA UpdateNextKeeps ==
  ASSUME IInv, NEW t \in Threads, UpdateNext(t)
  PROVE  IInv'
<1> DEFINE r0 == First(DOMAIN th[t].rest)
           old == th[t].rest[r0]
           set == th[t].set
           vals == [f \in Fields |-> IF f = set.field THEN set.value ELSE Cell(r0, old, f)]
           forced == {f \in Fields \ {set.field} : ForcedNull(r0, f)}
           certain == /\ r0 \in DOMAIN given \ (aged \cup suspect) /\ ~SharesSlot(t, r0)
                      /\ rows[r0] = old
                      /\ \A n \in stale, f \in TextFields : old[f] # Marker(n)
           before == IF certain THEN given[r0] ELSE vals
           changed == [before EXCEPT ![set.field] = set.value]
           new == Record(vals, forced)
<1>1. PICK r : r = r0
  OBVIOUS
<1>2. PICK s : s = [th[t] EXCEPT !.pc = "leave", !.i = 1, !.rid = r0, !.data = old, !.rest = Without(@, r0),
                                 !.new = new, !.forced = forced, !.vals = changed]
  OBVIOUS
<1>3. /\ ThreadOK(th[t], files) /\ th[t].rid = None /\ th[t].op = "update"
      /\ DOMAIN th[t].rest # {} /\ DOMAIN th[t].rest \subseteq Rids
  BY ThreadType DEF UpdateNext, ThreadOK, Working
<1>4. r \in Rids
  BY <1>1, <1>3, FirstIn
<1>5. /\ th' = [th EXCEPT ![t] = s] /\ suspect \subseteq suspect'
      /\ r \notin suspect' => ~ SharesSlot(t, r)
      /\ UNCHANGED <<rows, given, indexes, files>>
  BY <1>1, <1>2 DEF UpdateNext, Set
<1>6. DOMAIN s = ThreadFields /\ s.pc = "leave" /\ s.i = 1 /\ s.rid = r /\ s.op = "update"
      /\ s.rest = Without(th[t].rest, r) /\ DOMAIN s.new = Fields
  <2>1. DOMAIN new = Fields
    BY DEF Record
  <2> HIDE DEF new, forced, changed, old, r0
  <2> QED BY <1>1, <1>2, <1>3, <2>1 DEF ThreadOK, ThreadFields
<1>7. ThreadOK(s, files)
  BY <1>3, <1>4, <1>6 DEF ThreadOK, Working, Without
<1>8. WorkOK(s, rows, indexes)
  BY <1>6 DEF WorkOK
<1>9. r \in Rids \ suspect' => \A u \in Threads \ {t} : th[u].rid # r
  BY <1>5, Shares
<1> QED BY <1>2, <1>3, <1>4, <1>5, <1>6, <1>7, <1>8, <1>9, ThreadStep DEF Covering

LEMMA IdleType == ThreadOK(Idle, files') /\ Idle.rid = None /\ Idle.pc # "publish"
BY DEF ThreadOK, Idle, ThreadFields, Working

LEMMA EndStatementKeeps ==
  ASSUME IInv, NEW t \in Threads, EndStatement(t)
  PROVE  IInv'
<1>1. ThreadOK(th[t], files) /\ th[t].rid = None
  BY ThreadType DEF EndStatement, ThreadOK, Working
<1> QED BY <1>1, IdleType, FreeStep DEF EndStatement, Done, Set

LEMMA CheckUniqueKeeps ==
  ASSUME IInv, NEW t \in Threads, CheckUnique(t)
  PROVE  IInv'
<1>1. ThreadOK(th[t], files) /\ th[t].rid = None
  BY ThreadType DEF CheckUnique, ThreadOK, Working
<1>2. PICK s, n : s = [th[t] EXCEPT !.i = @ + 1] /\ n = [th[t] EXCEPT !.i = @ + 1, !.unasked = TRUE]
  OBVIOUS
<1>3. /\ ThreadOK(s, files) /\ s.rid = None /\ s.pc # "publish"
      /\ ThreadOK(n, files) /\ n.rid = None /\ n.pc # "publish"
  BY <1>1, <1>2 DEF CheckUnique, ThreadOK, ThreadFields, Working
<1>4. CASE th' = [th EXCEPT ![t] = Idle]
  BY <1>1, <1>4, IdleType, FreeStep DEF CheckUnique
<1>5. CASE th' = [th EXCEPT ![t] = s]
  BY <1>1, <1>3, <1>5, FreeStep DEF CheckUnique
<1>6. CASE th' = [th EXCEPT ![t] = n]
  BY <1>1, <1>3, <1>6, FreeStep DEF CheckUnique
<1> QED BY <1>2, <1>4, <1>5, <1>6 DEF CheckUnique, Done, Set

LEMMA NoSlotKeeps ==
  ASSUME IInv, NEW t \in Threads, NoSlot(t)
  PROVE  IInv'
<1>1. ThreadOK(th[t], files) /\ th[t].rid = None
  BY ThreadType DEF NoSlot, ThreadOK, Working
<1> QED BY <1>1, IdleType, FreeStep DEF NoSlot, Done, Set

\* A free slot that is not suspect has no entries.
LEMMA NoRow ==
  ASSUME IInv, NEW r \in Rids \ suspect, r \notin DOMAIN rows
  PROVE  \A i \in 1 .. Len(indexes) : Absent(indexes[i], r)
BY DEF IInv, EntryInv, Sound, Absent

LEMMA PutRowKeeps ==
  ASSUME IInv, NEW t \in Threads, PutRow(t)
  PROVE  IInv'
<1>0. /\ ThreadOK(th[t], files) /\ th[t].rid = None /\ th[t].pc = "check"
      /\ DOMAIN th[t].data = Fields /\ TypeInv
  BY ThreadType DEF PutRow, ThreadOK, Working, IInv
<1>1. PICK r : r = First(FreeSlots)
  OBVIOUS
<1>2. PICK s : s = [th[t] EXCEPT !.pc = "enter", !.i = 1, !.rid = r]
  OBVIOUS
<1>3. r \in Rids /\ r \notin DOMAIN rows
  BY <1>1, FirstIn DEF FreeSlots, PutRow
<1>4. /\ th' = [th EXCEPT ![t] = s]
      /\ rows' = [q \in DOMAIN rows \cup {r} |-> IF q = r THEN th[t].data ELSE rows[q]]
      /\ DOMAIN given' = DOMAIN rows'
      /\ suspect \subseteq suspect'
      /\ r \notin suspect' => ~ SharesSlot(t, r) /\ ~ Building(t)
      /\ UNCHANGED <<indexes, files>>
  BY <1>1, <1>2 DEF PutRow, Set
<1>5. /\ DOMAIN s = ThreadFields /\ s.pc = "enter" /\ s.i = 1 /\ s.rid = r /\ s.data = th[t].data
      /\ s.op = th[t].op /\ s.rest = th[t].rest
  BY <1>0, <1>2 DEF ThreadOK, ThreadFields
<1>6. ThreadOK(s, files')
  BY <1>0, <1>3, <1>4, <1>5 DEF ThreadOK, Working
<1>7. \A i \in 1 .. Len(indexes) :
        /\ IndexOK(indexes'[i], files')
        /\ indexes'[i].name = indexes[i].name
        /\ SameElsewhere(indexes'[i], indexes[i], r)
  BY <1>0, <1>4 DEF TypeInv, SameElsewhere
<1>8. /\ DOMAIN rows' \subseteq Rids
      /\ \A q \in DOMAIN rows' : DOMAIN rows'[q] = Fields
      /\ \A q \in Rids : q # r =>
           (q \in DOMAIN rows' <=> q \in DOMAIN rows) /\ (q \in DOMAIN rows => rows'[q] = rows[q])
      /\ r \in DOMAIN rows' /\ rows'[r] = s.data
      /\ IsSeq(indexes')
  BY <1>0, <1>3, <1>4, <1>5 DEF TypeInv
<1>9. ASSUME r \notin suspect'
      PROVE  /\ \A u \in Threads \ {t} : th[u].rid # r
             /\ \A i \in 1 .. Len(indexes) : Sound(indexes'[i], rows', r)
             /\ WorkOK(s, rows', indexes')
             /\ \A u \in Threads \ {t} : th[u].pc # "publish"
  <2>1. \A i \in 1 .. Len(indexes) : Absent(indexes'[i], r)
    BY <1>3, <1>4, <1>9, NoRow
  <2>2. \A u \in Threads \ {t} : th[u].rid # r
    BY <1>3, <1>4, <1>9, Shares
  <2>3. \A i \in 1 .. Len(indexes) : Sound(indexes'[i], rows', r)
    BY <2>1 DEF Sound, Absent
  <2>4. WorkOK(s, rows', indexes')
    BY <1>4, <1>5, <1>8, <2>1 DEF WorkOK
  <2> QED BY <1>4, <1>9, <2>2, <2>3, <2>4 DEF Building
<1>10. s.pc # "publish" /\ s.pc \in Covering
  BY <1>5 DEF Covering
<1>11. r \in Rids \ suspect' =>
         /\ \A u \in Threads \ {t} : th[u].rid # r
         /\ \A i \in 1 .. Len(indexes) : Sound(indexes'[i], rows', r)
         /\ r \in DOMAIN rows' =>
              \/ s.rid = r /\ s.pc \in Covering
              \/ \A i \in 1 .. Len(indexes) : Has(indexes'[i], rows'[r], r)
         /\ s.rid = r => WorkOK(s, rows', indexes')
         /\ \A u \in Threads \ {t} : th[u].pc = "publish" =>
              (r \in DOMAIN rows' <=> r \in DOMAIN rows) /\ (r \in DOMAIN rows => rows'[r] = rows[r])
  BY <1>5, <1>9, <1>10
<1>12. /\ Len(indexes') = Len(indexes) /\ files \subseteq files'
       /\ s.rid \in {r, None} /\ th[t].rid \in {r, None} /\ r \in Rids \cup {None}
  BY <1>0, <1>3, <1>4, <1>5
<1> QED BY <1>4, <1>6, <1>7, <1>8, <1>10, <1>11, <1>12, SlotStep

\* A row leaves the file: its slot has no entries, or is suspect.
LEMMA RowGone ==
  ASSUME IInv, NEW t \in Threads, NEW s, NEW r \in Rids,
         th' = [th EXCEPT ![t] = s], ThreadOK(s, files), th[t].rid = r, s.rid \in {r, None},
         s.pc \in {"idle", "clear"},
         rows' = Without(rows, r), given' = Without(given, r),
         UNCHANGED <<indexes, files>>, suspect \subseteq suspect',
         r \notin suspect' => ~ Building(t) /\ \A i \in 1 .. Len(indexes) : Absent(indexes[i], r)
  PROVE  IInv'
<1>1. TypeInv
  BY DEF IInv
<1>2. \A i \in 1 .. Len(indexes) :
        /\ IndexOK(indexes'[i], files')
        /\ indexes'[i].name = indexes[i].name
        /\ SameElsewhere(indexes'[i], indexes[i], r)
  BY <1>1 DEF TypeInv, SameElsewhere
<1>3. /\ DOMAIN rows' \subseteq Rids /\ DOMAIN given' = DOMAIN rows' /\ r \notin DOMAIN rows'
      /\ \A q \in DOMAIN rows' : DOMAIN rows'[q] = Fields
      /\ \A q \in Rids : q # r =>
           (q \in DOMAIN rows' <=> q \in DOMAIN rows) /\ (q \in DOMAIN rows => rows'[q] = rows[q])
      /\ IsSeq(indexes')
  BY <1>1 DEF TypeInv, Without
<1>4. ASSUME r \notin suspect'
      PROVE  /\ \A u \in Threads \ {t} : th[u].rid # r
             /\ \A i \in 1 .. Len(indexes) : Sound(indexes'[i], rows', r)
             /\ WorkOK(s, rows', indexes')
             /\ \A u \in Threads \ {t} : th[u].pc # "publish"
  <2>1. \A u \in Threads \ {t} : th[u].rid # r
    BY <1>4, Alone
  <2>2. \A i \in 1 .. Len(indexes) : Sound(indexes'[i], rows', r)
    BY <1>4 DEF Sound, Absent
  <2>3. WorkOK(s, rows', indexes')
    BY DEF WorkOK
  <2> QED BY <1>4, <2>1, <2>2, <2>3 DEF Building
<1>5. r \in Rids \ suspect' =>
        /\ \A u \in Threads \ {t} : th[u].rid # r
        /\ \A i \in 1 .. Len(indexes) : Sound(indexes'[i], rows', r)
        /\ r \in DOMAIN rows' =>
             \/ s.rid = r /\ s.pc \in Covering
             \/ \A i \in 1 .. Len(indexes) : Has(indexes'[i], rows'[r], r)
        /\ s.rid = r => WorkOK(s, rows', indexes')
        /\ \A u \in Threads \ {t} : th[u].pc = "publish" =>
             (r \in DOMAIN rows' <=> r \in DOMAIN rows) /\ (r \in DOMAIN rows => rows'[r] = rows[r])
  BY <1>3, <1>4
<1>6. /\ Len(indexes') = Len(indexes) /\ files \subseteq files'
      /\ s.pc # "publish" /\ ThreadOK(s, files') /\ r \in Rids \cup {None}
  OBVIOUS
<1> QED BY <1>2, <1>3, <1>5, <1>6, SlotStep

LEMMA UndoRowKeeps ==
  ASSUME IInv, NEW t \in Threads, UndoRow(t)
  PROVE  IInv'
<1>1. ThreadOK(th[t], files) /\ th[t].pc = "unrow" /\ th[t].rid \in Rids
  BY ThreadType DEF UndoRow, ThreadOK, Working
<1>2. PICK r \in Rids : r = th[t].rid
  BY <1>1
<1>3. Idle.pc = "idle"
  BY DEF Idle
<1>4. CASE /\ rows' = Without(rows, r) /\ given' = Without(given, r)
           /\ suspect' = IF Building(t) THEN suspect \cup {r} ELSE suspect
  <2>1. /\ th' = [th EXCEPT ![t] = Idle] /\ suspect \subseteq suspect'
        /\ r \notin suspect' => ~ Building(t) /\ r \notin suspect
        /\ UNCHANGED <<indexes, files>>
    BY <1>4 DEF UndoRow, Done, Set
  <2>2. r \notin suspect => \A i \in 1 .. Len(indexes) : Absent(indexes[i], r)
    BY <1>1, <1>2 DEF IInv, WorkInv, WorkOK
  <2> QED BY <1>2, <1>3, <1>4, <2>1, <2>2, IdleType, RowGone
<1>5. CASE UNCHANGED <<rows, given>> /\ suspect' = suspect \cup {r}
  <2>1. th' = [th EXCEPT ![t] = Idle] /\ UNCHANGED <<indexes, files>>
    BY DEF UndoRow, Done, Set
  <2> QED BY <1>2, <1>5, <2>1, IdleType, ThreadStep
<1> QED BY <1>2, <1>4, <1>5 DEF UndoRow

LEMMA DropRowKeeps ==
  ASSUME IInv, NEW t \in Threads, DropRow(t)
  PROVE  IInv'
<1>1. ThreadOK(th[t], files) /\ th[t].pc = "leave" /\ th[t].rid \in Rids /\ th[t].i \in Nat
  BY ThreadType DEF DropRow, ThreadOK, Working
<1>2. PICK r \in Rids : r = th[t].rid
  BY <1>1
<1>3. PICK s : s = [th[t] EXCEPT !.pc = "clear"]
  OBVIOUS
<1>4. CASE /\ r \in DOMAIN rows /\ th' = [th EXCEPT ![t] = s]
           /\ rows' = Without(rows, r) /\ given' = Without(given, r)
           /\ suspect' = IF Building(t) \/ rows[r] # th[t].data THEN suspect \cup {r} ELSE suspect
  <2>1. /\ suspect \subseteq suspect'
        /\ r \notin suspect' => ~ Building(t) /\ r \notin suspect /\ rows[r] = th[t].data
        /\ UNCHANGED <<indexes, files>>
    BY <1>4 DEF DropRow
  <2>2. r \notin suspect /\ rows[r] = th[t].data => \A i \in 1 .. Len(indexes) : Absent(indexes[i], r)
    <3>1. IsSeq(indexes) /\ Len(indexes) \in Nat /\ th[t].i > Len(indexes)
      BY DEF DropRow, IInv, TypeInv, IsSeq
    <3> QED BY <1>1, <1>2, <1>4, <3>1 DEF IInv, WorkInv, WorkOK
  <2>3. s.pc = "clear" /\ s.rid = r /\ ThreadOK(s, files)
    BY <1>1, <1>2, <1>3 DEF ThreadOK, Working, ThreadFields
  <2> QED BY <1>2, <1>4, <2>1, <2>2, <2>3, RowGone
<1>5. CASE th' = [th EXCEPT ![t] = Idle] /\ suspect' = suspect \cup {r} /\ UNCHANGED <<rows, given>>
  <2>1. UNCHANGED <<indexes, files>>
    BY DEF DropRow
  <2> QED BY <1>2, <1>5, <2>1, IdleType, ThreadStep
<1> QED BY <1>2, <1>3, <1>4, <1>5 DEF DropRow, Done, Set

WithEntries(ixs, k, E) == [ixs EXCEPT ![k].entries = E]

\* The sequence z is ixs with the entries of index k replaced.
Rewritten(z, ixs, k, E) ==
  /\ IsSeq(z) /\ Len(z) = Len(ixs)
  /\ \A i \in 1 .. Len(ixs) : i # k => z[i] = ixs[i]
  /\ DOMAIN z[k] = IndexFields /\ z[k].name = ixs[k].name
  /\ z[k].fields = ixs[k].fields /\ z[k].unique = ixs[k].unique /\ z[k].entries = E

LEMMA EntriesShape ==
  \A ixs, k, E : IsSeq(ixs) /\ k \in 1 .. Len(ixs) /\ DOMAIN ixs[k] = IndexFields
                 => Rewritten(WithEntries(ixs, k, E), ixs, k, E)
<1> SUFFICES ASSUME NEW ixs, NEW k, NEW E, IsSeq(ixs), k \in 1 .. Len(ixs), DOMAIN ixs[k] = IndexFields
             PROVE  Rewritten(WithEntries(ixs, k, E), ixs, k, E)
  OBVIOUS
<1>1. PICK v : v = [ixs[k] EXCEPT !.entries = E]
  OBVIOUS
<1>2. PICK z : z = WithEntries(ixs, k, E)
  OBVIOUS
<1>3. z = [ixs EXCEPT ![k] = v]
  BY <1>1, <1>2 DEF WithEntries
<1>4. DOMAIN ixs = 1 .. Len(ixs) /\ Len(ixs) \in Nat
  BY DEF IsSeq
<1>5. z = [i \in 1 .. Len(ixs) |-> z[i]] /\ \A i \in 1 .. Len(ixs) : z[i] = IF i = k THEN v ELSE ixs[i]
  BY <1>3, <1>4
<1>6. IsSeq(z) /\ Len(z) = Len(ixs)
  BY <1>4, <1>5, SeqTuple
<1>7. /\ DOMAIN v = IndexFields /\ v.name = ixs[k].name
      /\ v.fields = ixs[k].fields /\ v.unique = ixs[k].unique /\ v.entries = E
  BY <1>1 DEF IndexFields
<1> QED BY <1>2, <1>5, <1>6, <1>7 DEF Rewritten

\* A thread changes the entries of its slot in one index.
LEMMA EntriesStep ==
  ASSUME IInv, NEW t \in Threads, NEW s, NEW r \in Rids,
         th' = [th EXCEPT ![t] = s], ThreadOK(s, files), th[t].rid = r, s.rid = r,
         s.pc \in Covering,
         NEW k \in 1 .. Len(indexes), NEW E,
         indexes' = [indexes EXCEPT ![k].entries = E],
         \A e : e[2] # r => (e \in E <=> e \in indexes[k].entries),
         \A e \in E : e = <<e[1], e[2]>> /\ e[2] \in Rids,
         UNCHANGED <<rows, given, files>>, suspect \subseteq suspect',
         r \notin suspect' => Sound(indexes'[k], rows, r) /\ WorkOK(s, rows, indexes')
  PROVE  IInv'
<1>1. TypeInv /\ EntryInv
  BY DEF IInv
<1>2. DOMAIN indexes[k] = IndexFields
  BY <1>1 DEF TypeInv, IndexOK
<1>3. /\ IsSeq(indexes') /\ Len(indexes') = Len(indexes)
      /\ \A i \in 1 .. Len(indexes) : i # k => indexes'[i] = indexes[i]
      /\ DOMAIN indexes'[k] = IndexFields /\ indexes'[k].name = indexes[k].name
      /\ indexes'[k].fields = indexes[k].fields /\ indexes'[k].unique = indexes[k].unique
      /\ indexes'[k].entries = E
  <2>1. IsSeq(indexes)
    BY <1>1 DEF TypeInv
  <2>2. indexes' = WithEntries(indexes, k, E)
    BY DEF WithEntries
  <2>3. Rewritten(WithEntries(indexes, k, E), indexes, k, E)
    BY <1>2, <2>1, EntriesShape
  <2>4. Rewritten(indexes', indexes, k, E)
    BY <2>2, <2>3
  <2> QED BY <2>4 DEF Rewritten
<1>4. \A i \in 1 .. Len(indexes) :
        /\ IndexOK(indexes'[i], files')
        /\ indexes'[i].name = indexes[i].name
        /\ SameElsewhere(indexes'[i], indexes[i], r)
  BY <1>1, <1>3 DEF TypeInv, SameElsewhere, IndexOK
<1>5. r \notin suspect' => \A i \in 1 .. Len(indexes) : Sound(indexes'[i], rows', r)
  BY <1>1, <1>3 DEF EntryInv
<1>6. r \in Rids \ suspect' =>
        /\ \A u \in Threads \ {t} : th[u].rid # r
        /\ \A i \in 1 .. Len(indexes) : Sound(indexes'[i], rows', r)
        /\ r \in DOMAIN rows' =>
             \/ s.rid = r /\ s.pc \in Covering
             \/ \A i \in 1 .. Len(indexes) : Has(indexes'[i], rows'[r], r)
        /\ s.rid = r => WorkOK(s, rows', indexes')
        /\ \A u \in Threads \ {t} : th[u].pc = "publish" =>
             (r \in DOMAIN rows' <=> r \in DOMAIN rows) /\ (r \in DOMAIN rows => rows'[r] = rows[r])
  <2>1. r \notin suspect' => \A u \in Threads \ {t} : th[u].rid # r
    BY Alone
  <2> QED BY <1>5, <2>1
<1>7. /\ DOMAIN rows' \subseteq Rids /\ DOMAIN given' = DOMAIN rows'
      /\ \A q \in DOMAIN rows' : DOMAIN rows'[q] = Fields
  BY <1>1 DEF TypeInv
<1>8. s.pc # "publish" /\ r \in Rids \cup {None} /\ ThreadOK(s, files') /\ files \subseteq files'
  BY DEF Covering
<1> QED BY <1>3, <1>4, <1>6, <1>7, <1>8, SlotStep

\* A slot's own entry is the only one it has in an index.
LEMMA OneEntry ==
  ASSUME IInv, NEW i \in 1 .. Len(indexes), NEW r \in Rids \ suspect, NEW rec,
         r \in DOMAIN rows, rows[r] = rec
  PROVE  /\ \A e \in indexes[i].entries : e[2] = r => e = <<Key(indexes[i], rec), r>>
         /\ SkipUniqueNullKey(indexes[i], rec) => Absent(indexes[i], r)
<1>1. IndexOK(indexes[i], files) /\ Sound(indexes[i], rows, r)
  BY DEF IInv, TypeInv, EntryInv
<1> QED BY <1>1 DEF IndexOK, Sound, Absent

LEMMA EnterIndexKeeps ==
  ASSUME IInv, NEW t \in Threads, EnterIndex(t)
  PROVE  IInv'
<1> DEFINE e0 == <<Key(indexes[th[t].i], th[t].data), th[t].rid>>
<1>1. PICK r, k, rec : r = th[t].rid /\ k = th[t].i /\ rec = th[t].data
  OBVIOUS
<1>2. /\ ThreadOK(th[t], files) /\ th[t].pc = "enter" /\ TypeInv /\ IsSeq(indexes) /\ Len(indexes) \in Nat
      /\ r \in Rids /\ k \in 1 .. Len(indexes)
  <2>1. ThreadOK(th[t], files) /\ TypeInv
    BY ThreadType DEF IInv
  <2>2. th[t].pc = "enter" /\ k <= Len(indexes)
    BY <1>1 DEF EnterIndex
  <2>3. r \in Rids /\ k \in Nat \ {0}
    BY <1>1, <2>1, <2>2 DEF ThreadOK, Working
  <2>4. IsSeq(indexes) /\ Len(indexes) \in Nat
    BY <2>1 DEF TypeInv, IsSeq
  <2> QED BY <2>1, <2>2, <2>3, <2>4
<1>3. IndexOK(indexes[k], files)
  BY <1>2 DEF TypeInv
<1>4. r \notin suspect => /\ \A u \in Threads \ {t} : th[u].rid # r
                          /\ r \in DOMAIN rows /\ rows[r] = rec
                          /\ \A j \in 1 .. Len(indexes) :
                               IF j < k THEN Has(indexes[j], rec, r) ELSE Absent(indexes[j], r)
  BY <1>1, <1>2, Alone DEF IInv, WorkInv, WorkOK
<1>5. PICK s, u : s = [th[t] EXCEPT !.i = @ + 1] /\ u = [th[t] EXCEPT !.pc = "undo", !.i = 1]
  OBVIOUS
<1>6. /\ DOMAIN s = ThreadFields /\ s.pc = "enter" /\ s.i = k + 1 /\ s.rid = r /\ s.data = rec
      /\ DOMAIN u = ThreadFields /\ u.pc = "undo" /\ u.i = 1 /\ u.rid = r /\ u.data = rec
      /\ s.op = th[t].op /\ s.rest = th[t].rest /\ u.op = th[t].op /\ u.rest = th[t].rest
  BY <1>1, <1>2, <1>5 DEF ThreadOK, ThreadFields
<1>7. ThreadOK(s, files) /\ ThreadOK(u, files) /\ s.pc \in Covering /\ u.pc \in Covering
  BY <1>2, <1>6 DEF ThreadOK, Working, Covering
<1>8. UNCHANGED <<rows, given, files>> /\ suspect' = suspect
  BY DEF EnterIndex, history
<1>9. CASE SkipUniqueNullKey(indexes[k], rec) /\ th' = [th EXCEPT ![t] = s] /\ UNCHANGED indexes
  <2>1. r \notin suspect => WorkOK(s, rows, indexes)
    <3>1. Has(indexes[k], rec, r)
      BY <1>9 DEF Has
    <3> QED BY <1>2, <1>4, <1>6, <3>1 DEF WorkOK
  <2> QED BY <1>1, <1>2, <1>4, <1>6, <1>7, <1>8, <1>9, <2>1, ThreadStep DEF Covering
<1>10. CASE /\ ~SkipUniqueNullKey(indexes[k], rec) /\ th' = [th EXCEPT ![t] = s]
            /\ indexes' = [indexes EXCEPT ![k].entries = @ \cup {e0}]
  <2>1. PICK E, e : E = indexes[k].entries \cup {e} /\ e = <<Key(indexes[k], rec), r>>
    OBVIOUS
  <2>2. e0 = e
    BY <1>1, <2>1
  <2>3. indexes' = [indexes EXCEPT ![k].entries = E]
    BY <1>10, <2>1, <2>2
  <2>4. e = <<e[1], e[2]>> /\ e[1] = Key(indexes[k], rec) /\ e[2] = r
    BY <2>1
  <2>5. /\ \A d : d[2] # r => (d \in E <=> d \in indexes[k].entries)
        /\ \A d \in E : d = <<d[1], d[2]>> /\ d[2] \in Rids
    BY <1>2, <1>3, <2>1, <2>4 DEF IndexOK
  <2>6. Rewritten(indexes', indexes, k, E)
    <3>1. Rewritten(WithEntries(indexes, k, E), indexes, k, E)
      BY <1>2, <1>3, EntriesShape DEF IndexOK
    <3> QED BY <2>3, <3>1 DEF WithEntries
  <2>7. ASSUME r \notin suspect'
        PROVE  Sound(indexes'[k], rows, r) /\ WorkOK(s, rows, indexes')
    <3>0. r \notin suspect
      BY <1>8, <2>7
    <3>1. /\ Key(indexes'[k], rec) = Key(indexes[k], rec)
          /\ SkipUniqueNullKey(indexes'[k], rec) <=> SkipUniqueNullKey(indexes[k], rec)
      BY <2>6, SameKey DEF Rewritten
    <3>2. \A d \in E : d[2] = r => d = e
      BY <1>2, <1>4, <2>1, <3>0 DEF Absent
    <3>3. Sound(indexes'[k], rows, r)
      BY <1>4, <1>10, <2>4, <2>6, <3>0, <3>1, <3>2 DEF Sound, Rewritten
    <3>4. Has(indexes'[k], rec, r)
      BY <2>1, <2>6, <3>1 DEF Has, Rewritten
    <3>5. WorkOK(s, rows, indexes')
      <4>1. \A j \in 1 .. Len(indexes) : j # k => indexes'[j] = indexes[j]
        BY <2>6 DEF Rewritten
      <4>2. \A j \in 1 .. Len(indexes) : IF j < k + 1 THEN Has(indexes'[j], rec, r) ELSE Absent(indexes'[j], r)
        BY <1>2, <1>4, <3>0, <3>4, <4>1
      <4> QED BY <1>4, <1>6, <2>6, <3>0, <4>2 DEF WorkOK, Rewritten
    <3> QED BY <3>3, <3>5
  <2>8. suspect \subseteq suspect' /\ th[t].rid = r /\ s.rid = r
    BY <1>1, <1>6, <1>8
  <2> QED BY <1>2, <1>7, <1>8, <1>10, <2>3, <2>5, <2>7, <2>8, EntriesStep, ZenonT(30)
<1>11. CASE th' = [th EXCEPT ![t] = u] /\ UNCHANGED indexes
  <2>1. r \notin suspect => WorkOK(u, rows, indexes)
    <3>1. k \in 1 .. Len(indexes) + 1
      BY <1>2
    <3> QED BY <1>4, <1>6, <3>1 DEF WorkOK
  <2> QED BY <1>1, <1>2, <1>4, <1>6, <1>7, <1>8, <1>11, <2>1, ThreadStep DEF Covering
<1> QED BY <1>1, <1>5, <1>9, <1>10, <1>11 DEF EnterIndex, Set

Out(ix, rec, r) == ix.entries \ {<<Key(ix, rec), r>>}

\* The sequence z is ixs without the entry of record rec and slot r in index k: the
\* slot, if rec is its row, has none there any more.
TakenFrom(z, ixs, k, r, rec, rs, sus) ==
  /\ Rewritten(z, ixs, k, Out(ixs[k], rec, r))
  /\ \A d : d[2] # r => (d \in Out(ixs[k], rec, r) <=> d \in ixs[k].entries)
  /\ \A d \in Out(ixs[k], rec, r) : d = <<d[1], d[2]>> /\ d[2] \in Rids
  /\ r \notin sus => Sound(z[k], rs, r)
  /\ r \notin sus /\ r \in DOMAIN rs /\ rs[r] = rec => Absent(z[k], r)

LEMMA TakenOut ==
  ASSUME IInv
  PROVE  \A k, r, rec :
           /\ k \in 1 .. Len(indexes) /\ r \in Rids
           /\ indexes' = WithEntries(indexes, k, Out(indexes[k], rec, r))
           => TakenFrom(indexes', indexes, k, r, rec, rows, suspect)
<1> SUFFICES ASSUME NEW k, NEW r, NEW rec,
                    k \in 1 .. Len(indexes), r \in Rids,
                    indexes' = WithEntries(indexes, k, Out(indexes[k], rec, r))
             PROVE  TakenFrom(indexes', indexes, k, r, rec, rows, suspect)
  OBVIOUS
<1>0. PICK E : E = Out(indexes[k], rec, r)
  OBVIOUS
<1>1. IsSeq(indexes) /\ IndexOK(indexes[k], files)
  BY DEF IInv, TypeInv
<1>2. Rewritten(indexes', indexes, k, E)
  BY <1>0, <1>1, EntriesShape DEF IndexOK
<1>3. PICK e : e = <<Key(indexes[k], rec), r>>
  OBVIOUS
<1>4. e[2] = r /\ E = indexes[k].entries \ {e}
  BY <1>0, <1>3 DEF Out
<1>5. /\ \A d : d[2] # r => (d \in E <=> d \in indexes[k].entries)
      /\ \A d \in E : d = <<d[1], d[2]>> /\ d[2] \in Rids
  BY <1>1, <1>4 DEF IndexOK
<1>6. ASSUME r \notin suspect
      PROVE  Sound(indexes'[k], rows, r)
  <2>1. Sound(indexes[k], rows, r)
    BY <1>6 DEF IInv, EntryInv
  <2>2. \A x : Key(indexes'[k], x) = Key(indexes[k], x)
               /\ (SkipUniqueNullKey(indexes'[k], x) <=> SkipUniqueNullKey(indexes[k], x))
    BY <1>2, SameKey DEF Rewritten
  <2> QED BY <1>2, <1>4, <2>1, <2>2 DEF Sound, Rewritten
<1>7. r \notin suspect /\ r \in DOMAIN rows /\ rows[r] = rec => Absent(indexes'[k], r)
  BY <1>2, <1>3, <1>4, OneEntry DEF Absent, Rewritten
<1> QED BY <1>0, <1>2, <1>5, <1>6, <1>7 DEF TakenFrom

LEMMA UndoIndexKeeps ==
  ASSUME IInv, NEW t \in Threads, UndoIndex(t)
  PROVE  IInv'
<1>1. PICK r, k, rec : r = th[t].rid /\ k = th[t].i /\ rec = th[t].data
  OBVIOUS
<1>2. /\ ThreadOK(th[t], files) /\ th[t].pc = "undo" /\ IsSeq(indexes) /\ Len(indexes) \in Nat
      /\ r \in Rids /\ k \in Nat \ {0}
  BY <1>1, ThreadType DEF UndoIndex, ThreadOK, Working, IInv, TypeInv, IsSeq
<1>3. r \notin suspect => /\ \A v \in Threads \ {t} : th[v].rid # r
                          /\ r \in DOMAIN rows /\ rows[r] = rec
                          /\ \E n \in 1 .. Len(indexes) + 1 : \A j \in 1 .. Len(indexes) :
                               IF k <= j /\ j < n THEN Has(indexes[j], rec, r) ELSE Absent(indexes[j], r)
  BY <1>1, <1>2, Alone DEF IInv, WorkInv, WorkOK
<1>4. PICK s, u : s = [th[t] EXCEPT !.i = @ + 1] /\ u = [th[t] EXCEPT !.pc = "unrow"]
  OBVIOUS
<1>5. /\ DOMAIN s = ThreadFields /\ s.pc = "undo" /\ s.i = k + 1 /\ s.rid = r /\ s.data = rec
      /\ DOMAIN u = ThreadFields /\ u.pc = "unrow" /\ u.i = k /\ u.rid = r /\ u.data = rec
      /\ s.op = th[t].op /\ s.rest = th[t].rest /\ u.op = th[t].op /\ u.rest = th[t].rest
  BY <1>1, <1>2, <1>4 DEF ThreadOK, ThreadFields
<1>6. ThreadOK(s, files) /\ ThreadOK(u, files) /\ s.pc \in Covering /\ u.pc \in Covering
  BY <1>2, <1>5 DEF ThreadOK, Working, Covering
<1>7. UNCHANGED <<rows, given, files>> /\ suspect \subseteq suspect'
  BY DEF UndoIndex
<1>8. CASE /\ k > Len(indexes) \/ ~ Has(indexes[k], rec, r)
           /\ th' = [th EXCEPT ![t] = u] /\ UNCHANGED indexes
  <2>1. r \notin suspect => WorkOK(u, rows, indexes)
    <3>1. r \notin suspect => \A j \in 1 .. Len(indexes) : Absent(indexes[j], r)
      BY <1>2, <1>3, <1>8
    <3> QED BY <1>3, <1>5, <3>1 DEF WorkOK
  <2> QED BY <1>1, <1>2, <1>3, <1>5, <1>6, <1>7, <1>8, <2>1, ThreadStep DEF Covering
<1>9. CASE /\ k <= Len(indexes) /\ SkipUniqueNullKey(indexes[k], rec)
           /\ th' = [th EXCEPT ![t] = s] /\ UNCHANGED indexes
  <2>1. r \notin suspect => WorkOK(s, rows, indexes)
    <3>1. r \notin suspect => Absent(indexes[k], r)
      BY <1>2, <1>3, <1>9, OneEntry
    <3>2. r \notin suspect => \E n \in 1 .. Len(indexes) + 1 : \A j \in 1 .. Len(indexes) :
            IF k + 1 <= j /\ j < n THEN Has(indexes[j], rec, r) ELSE Absent(indexes[j], r)
      BY <1>2, <1>3, <3>1
    <3> QED BY <1>3, <1>5, <3>2 DEF WorkOK
  <2> QED BY <1>1, <1>2, <1>3, <1>5, <1>6, <1>7, <1>9, <2>1, ThreadStep DEF Covering
<1>10. CASE /\ k <= Len(indexes) /\ th' = [th EXCEPT ![t] = s]
            /\ indexes' = [indexes EXCEPT ![k].entries = @ \ {<<Key(indexes[k], rec), r>>}]
  <2>1. PICK E : E = Out(indexes[k], rec, r)
    OBVIOUS
  <2>2. indexes' = [indexes EXCEPT ![k].entries = E] /\ k \in 1 .. Len(indexes)
    BY <1>2, <1>10, <2>1 DEF Out
  <2>3. /\ Rewritten(indexes', indexes, k, E)
        /\ \A d : d[2] # r => (d \in E <=> d \in indexes[k].entries)
        /\ \A d \in E : d = <<d[1], d[2]>> /\ d[2] \in Rids
        /\ r \notin suspect => Sound(indexes'[k], rows, r)
        /\ r \notin suspect /\ r \in DOMAIN rows /\ rows[r] = rec => Absent(indexes'[k], r)
    <3>1. indexes' = WithEntries(indexes, k, Out(indexes[k], rec, r))
      BY <2>1, <2>2 DEF WithEntries
    <3>2. TakenFrom(indexes', indexes, k, r, rec, rows, suspect)
      BY <1>2, <2>2, <3>1, TakenOut
    <3> QED BY <2>1, <3>2 DEF TakenFrom
  <2>4. r \notin suspect => WorkOK(s, rows, indexes')
    <3>1. /\ \A j \in 1 .. Len(indexes) : j # k => indexes'[j] = indexes[j]
          /\ Len(indexes') = Len(indexes)
      BY <2>3 DEF Rewritten
    <3>2. r \notin suspect => \E n \in 1 .. Len(indexes) + 1 : \A j \in 1 .. Len(indexes) :
            IF k + 1 <= j /\ j < n THEN Has(indexes'[j], rec, r) ELSE Absent(indexes'[j], r)
      BY <1>2, <1>3, <2>3, <3>1
    <3> QED BY <1>3, <1>5, <3>1, <3>2 DEF WorkOK
  <2>5. /\ suspect \subseteq suspect' /\ th[t].rid = r /\ s.rid = r /\ th' = [th EXCEPT ![t] = s]
        /\ r \notin suspect' => Sound(indexes'[k], rows, r) /\ WorkOK(s, rows, indexes')
    BY <1>1, <1>5, <1>7, <1>10, <2>3, <2>4
  <2> QED BY <1>2, <1>6, <1>7, <2>2, <2>3, <2>5, EntriesStep
<1>11. k > Len(indexes) \/ k <= Len(indexes)
  BY <1>2
<1>12. CASE th' = [th EXCEPT ![t] = u] /\ suspect' = suspect \cup {r} /\ UNCHANGED indexes
  <2>1. r \in suspect' /\ th[t].rid = r /\ u.rid = r /\ u.pc # "publish"
    BY <1>1, <1>5, <1>12
  <2> QED BY <1>2, <1>6, <1>7, <1>12, <2>1, ThreadStep
<1> QED BY <1>1, <1>4, <1>8, <1>9, <1>10, <1>11, <1>12 DEF UndoIndex, Set, Has

LEMMA LeaveIndexKeeps ==
  ASSUME IInv, NEW t \in Threads, LeaveIndex(t)
  PROVE  IInv'
<1>1. PICK r, k, rec : r = th[t].rid /\ k = th[t].i /\ rec = th[t].data
  OBVIOUS
<1>2. /\ ThreadOK(th[t], files) /\ th[t].pc = "leave" /\ IsSeq(indexes) /\ Len(indexes) \in Nat
      /\ r \in Rids /\ k \in 1 .. Len(indexes)
  <2>1. ThreadOK(th[t], files) /\ TypeInv
    BY ThreadType DEF IInv
  <2>2. th[t].pc = "leave" /\ k <= Len(indexes)
    BY <1>1 DEF LeaveIndex
  <2>3. r \in Rids /\ k \in Nat \ {0}
    BY <1>1, <2>1, <2>2 DEF ThreadOK, Working
  <2>4. IsSeq(indexes) /\ Len(indexes) \in Nat
    BY <2>1 DEF TypeInv, IsSeq
  <2> QED BY <2>1, <2>2, <2>3, <2>4
<1>3. r \notin suspect => /\ \A v \in Threads \ {t} : th[v].rid # r
                          /\ r \in DOMAIN rows /\ rows[r] = rec =>
                               \A j \in 1 .. Len(indexes) : j < k => Absent(indexes[j], r)
  BY <1>1, <1>2, Alone DEF IInv, WorkInv, WorkOK
<1>4. PICK s : s = [th[t] EXCEPT !.i = @ + 1]
  OBVIOUS
<1>5. /\ DOMAIN s = ThreadFields /\ s.pc = "leave" /\ s.i = k + 1 /\ s.rid = r /\ s.data = rec
      /\ s.op = th[t].op /\ s.rest = th[t].rest /\ s.new = th[t].new
  BY <1>1, <1>2, <1>4 DEF ThreadOK, ThreadFields
<1>6. ThreadOK(s, files) /\ s.pc \in Covering
  BY <1>2, <1>5 DEF ThreadOK, Working, Covering
<1>7. /\ UNCHANGED <<rows, given, files>> /\ suspect \subseteq suspect'
      /\ th' = [th EXCEPT ![t] = s]
  BY <1>4 DEF LeaveIndex, Set
<1>8. CASE SkipUniqueNullKey(indexes[k], rec) /\ UNCHANGED indexes
  <2>1. r \notin suspect => WorkOK(s, rows, indexes)
    <3>1. r \notin suspect /\ r \in DOMAIN rows /\ rows[r] = rec => Absent(indexes[k], r)
      BY <1>2, <1>8, OneEntry
    <3>2. r \notin suspect /\ r \in DOMAIN rows /\ rows[r] = rec =>
            \A j \in 1 .. Len(indexes) : j < k + 1 => Absent(indexes[j], r)
      BY <1>2, <1>3, <3>1
    <3> QED BY <1>5, <3>2 DEF WorkOK
  <2> QED BY <1>1, <1>2, <1>3, <1>5, <1>6, <1>7, <1>8, <2>1, ThreadStep DEF Covering
<1>9. CASE indexes' = [indexes EXCEPT ![k].entries = @ \ {<<Key(indexes[k], rec), r>>}]
  <2>1. PICK E : E = Out(indexes[k], rec, r)
    OBVIOUS
  <2>2. indexes' = [indexes EXCEPT ![k].entries = E]
    BY <1>9, <2>1 DEF Out
  <2>3. /\ Rewritten(indexes', indexes, k, E)
        /\ \A d : d[2] # r => (d \in E <=> d \in indexes[k].entries)
        /\ \A d \in E : d = <<d[1], d[2]>> /\ d[2] \in Rids
        /\ r \notin suspect => Sound(indexes'[k], rows, r)
        /\ r \notin suspect /\ r \in DOMAIN rows /\ rows[r] = rec => Absent(indexes'[k], r)
    <3>1. indexes' = WithEntries(indexes, k, Out(indexes[k], rec, r))
      BY <2>1, <2>2 DEF WithEntries
    <3>2. TakenFrom(indexes', indexes, k, r, rec, rows, suspect)
      BY <1>2, <2>2, <3>1, TakenOut
    <3> QED BY <2>1, <3>2 DEF TakenFrom
  <2>4. r \notin suspect => WorkOK(s, rows, indexes')
    <3>1. /\ \A j \in 1 .. Len(indexes) : j # k => indexes'[j] = indexes[j]
          /\ Len(indexes') = Len(indexes)
      BY <2>3 DEF Rewritten
    <3>2. r \notin suspect /\ r \in DOMAIN rows /\ rows[r] = rec =>
            \A j \in 1 .. Len(indexes) : j < k + 1 => Absent(indexes'[j], r)
      BY <1>2, <1>3, <2>3, <3>1
    <3> QED BY <1>5, <3>1, <3>2 DEF WorkOK
  <2>5. th[t].rid = r /\ s.rid = r /\ (r \notin suspect' => r \notin suspect)
    BY <1>1, <1>5, <1>7
  <2> QED BY <1>2, <1>6, <1>7, <2>2, <2>3, <2>4, <2>5, EntriesStep
<1>10. CASE suspect' = suspect \cup {r} /\ UNCHANGED indexes
  <2>1. r \in suspect' /\ th[t].rid = r /\ s.rid = r /\ s.pc # "publish"
    BY <1>1, <1>5, <1>10
  <2> QED BY <1>2, <1>6, <1>7, <1>10, <2>1, ThreadStep
<1> QED BY <1>1, <1>8, <1>9, <1>10 DEF LeaveIndex

LEMMA RowDoneKeeps ==
  ASSUME IInv, NEW t \in Threads, RowDone(t)
  PROVE  IInv'
<1>1. PICK r, s : r = th[t].rid
                  /\ s = [Idle EXCEPT !.pc = "next", !.op = th[t].op, !.rest = th[t].rest, !.set = th[t].set]
  OBVIOUS
<1>2. /\ ThreadOK(th[t], files) /\ th[t].pc = "enter" /\ r \in Rids /\ th[t].i \in Nat
      /\ Len(indexes) \in Nat /\ th[t].i > Len(indexes)
  BY <1>1, ThreadType DEF RowDone, ThreadOK, Working, IInv, TypeInv, IsSeq
<1>3. /\ UNCHANGED <<rows, given, indexes, files, suspect>>
      /\ th' = [th EXCEPT ![t] = s]
  BY <1>1 DEF RowDone, Set
<1>4. ThreadOK(s, files) /\ s.rid = None /\ s.pc # "publish"
  BY <1>1, <1>2 DEF ThreadOK, ThreadFields, Idle, Working
<1>5. r \notin suspect => /\ \A u \in Threads \ {t} : th[u].rid # r
                          /\ \A i \in 1 .. Len(indexes) : Has(indexes[i], rows[r], r)
  BY <1>1, <1>2, Alone DEF IInv, WorkInv, WorkOK
<1>6. s.rid # r
  BY <1>2, <1>4, RidAssumption
<1> QED BY <1>1, <1>2, <1>3, <1>4, <1>5, <1>6, ThreadStep

LEMMA ClearRowKeeps ==
  ASSUME IInv, NEW t \in Threads, ClearRow(t)
  PROVE  IInv'
<1>1. PICK r : r = th[t].rid
  OBVIOUS
<1>2. PICK s, u :
        /\ s = [Idle EXCEPT !.pc = "next", !.op = th[t].op, !.rest = th[t].rest]
        /\ u = [th[t] EXCEPT !.pc = "check", !.i = 1, !.rid = None, !.data = th[t].new, !.new = None]
  OBVIOUS
<1>3. ThreadOK(th[t], files) /\ th[t].pc = "clear" /\ r \in Rids
  BY <1>1, ThreadType DEF ClearRow, ThreadOK, Working
<1>4. UNCHANGED <<rows, given, indexes, files, suspect>>
  BY DEF ClearRow
<1>5. PICK v : /\ th' = [th EXCEPT ![t] = v]
               /\ v = s \/ (v = u /\ th[t].op # "delete")
  BY <1>2 DEF ClearRow, Set
<1>6. ThreadOK(v, files) /\ v.rid = None /\ v.pc # "publish"
  <2>1. CASE v = s
    BY <1>2, <1>3, <2>1 DEF ThreadOK, ThreadFields, Idle, Working
  <2>2. CASE v = u /\ th[t].op # "delete"
    BY <1>2, <1>3, <2>2 DEF ThreadOK, ThreadFields, Working
  <2> QED BY <1>5, <2>1, <2>2
<1>7. r \notin suspect =>
        /\ \A w \in Threads \ {t} : th[w].rid # r
        /\ r \in DOMAIN rows => \A i \in 1 .. Len(indexes) : Has(indexes[i], rows[r], r)
  <2>1. r \notin suspect => \A w \in Threads \ {t} : th[w].rid # r
    BY <1>1, <1>3, Alone
  <2>2. r \notin suspect => ~ Covered(r)
    BY <1>3, <2>1 DEF Covered, Covering
  <2> QED BY <2>1, <2>2 DEF IInv, RowInv
<1>8. v.rid # r
  BY <1>3, <1>6, RidAssumption
<1> QED BY <1>1, <1>3, <1>4, <1>5, <1>6, <1>7, <1>8, ThreadStep

LEMMA BuildIndexKeeps ==
  ASSUME IInv, NEW t \in Threads, NEW meta \in NewIndexes, BuildIndex(t, meta)
  PROVE  IInv'
<1>1. /\ ThreadOK(th[t], files) /\ th[t].pc = "idle" /\ th[t].rid = None
      /\ th = [u \in Threads |-> th[u]] /\ DOMAIN rows \subseteq Rids
  BY ThreadType DEF BuildIndex, ThreadOK, Working, IInv, TypeInv
<1>2. UNCHANGED <<rows, given, indexes>> /\ files \subseteq files' /\ suspect \subseteq suspect'
  BY DEF BuildIndex, EnterRows
<1>3. CASE UNCHANGED th
  <2>1. th' = [th EXCEPT ![t] = th[t]]
    BY <1>1, <1>3
  <2>2. ThreadOK(th[t], files')
    BY <1>1, <1>2 DEF ThreadOK
  <2> QED BY <1>1, <1>2, <2>1, <2>2, FreeStep
<1>4. CASE ~ UNCHANGED th
  <2>1. PICK ix, s :
          /\ ix = [name |-> meta.name, fields |-> meta.fields, unique |-> meta.unique,
                   entries |-> Entries(meta)]
          /\ s = [Idle EXCEPT !.pc = "publish", !.op = "index", !.ix = ix]
    OBVIOUS
  <2>2. th' = [th EXCEPT ![t] = s] /\ meta.name \in files'
    BY <1>4, <2>1 DEF BuildIndex, EnterRows, Set
  <2>3. /\ DOMAIN ix = IndexFields /\ ix.name \in files' /\ ix.fields = meta.fields
        /\ ix.unique = meta.unique /\ ix.entries = Entries(meta)
    BY <2>1, <2>2 DEF IndexFields
  <2>4. \A x : Key(ix, x) = Key(meta, x) /\ (SkipUniqueNullKey(ix, x) <=> SkipUniqueNullKey(meta, x))
    BY <2>3, SameKey
  <2>5. \A e \in ix.entries : \E q \in DOMAIN rows :
          /\ e = <<Key(ix, rows[q]), q>> /\ e = <<e[1], e[2]>> /\ e[2] = q /\ e[1] = Key(ix, rows[q])
          /\ ~ SkipUniqueNullKey(ix, rows[q])
    BY <2>3, <2>4 DEF Entries, Indexed
  <2>6. \A q \in DOMAIN rows : ~ SkipUniqueNullKey(ix, rows[q]) => <<Key(ix, rows[q]), q>> \in ix.entries
    BY <2>3, <2>4 DEF Entries, Indexed
  <2>7. IndexOK(ix, files')
    BY <1>1, <2>3, <2>5 DEF IndexOK
  <2>8. BuildOK(ix, rows, suspect')
    BY <2>5, <2>6 DEF BuildOK, Sound, Has
  <2>9. /\ DOMAIN s = ThreadFields /\ s.pc = "publish" /\ s.op = "index" /\ s.rid = None /\ s.ix = ix
    BY <2>1 DEF Idle, ThreadFields
  <2>10. ThreadOK(s, files')
    BY <2>7, <2>9 DEF ThreadOK, Working
  <2>11. None \notin Rids
    BY RidAssumption
  <2> QED BY <1>1, <1>2, <2>2, <2>8, <2>9, <2>10, <2>11, ThreadStep
<1> QED BY <1>3, <1>4

\* The new index agrees with all rows but those of slots that are suspect by now: so
\* it may be added to the list.
LEMMA PublishIndexKeeps ==
  ASSUME IInv, NEW t \in Threads, PublishIndex(t)
  PROVE  IInv'
<1>1. TypeInv /\ ThreadOK(th[t], files) /\ th[t].pc = "publish" /\ th[t].rid = None
  BY ThreadType DEF PublishIndex, ThreadOK, Working, IInv
<1>2. PICK ix, n : ix = th[t].ix /\ n = Len(indexes)
  OBVIOUS
<1>3. IndexOK(ix, files) /\ BuildOK(ix, rows, suspect) /\ n \in Nat /\ IsSeq(indexes)
  BY <1>1, <1>2 DEF ThreadOK, IInv, BuildInv, TypeInv, IsSeq
<1>4. PICK s : s = [Idle EXCEPT !.pc = "write", !.op = "index", !.copy = Append(table_meta, ix.name)]
  OBVIOUS
<1>5. ThreadOK(s, files) /\ s.rid = None /\ s.pc # "publish"
  BY <1>4 DEF ThreadOK, Idle, ThreadFields, Working
<1>6. /\ indexes' = Append(indexes, ix) /\ th' = [th EXCEPT ![t] = s]
      /\ UNCHANGED <<rows, files, given>> /\ suspect' = suspect \cup Disturbed(t)
  BY <1>2, <1>4 DEF PublishIndex, Set
<1>7. IsSeq(indexes') /\ Len(indexes') = n + 1 /\ indexes'[n + 1] = ix
      /\ \A i \in 1 .. n : indexes'[i] = indexes[i]
  BY <1>2, <1>3, <1>6, SeqAppend
<1>8. \A i \in 1 .. n + 1 : i \in 1 .. n \/ i = n + 1
  BY <1>3
<1>9. /\ \A u \in Threads \ {t} : th'[u] = th[u]
      /\ th'[t] = s /\ th' = [u \in Threads |-> th'[u]]
  BY <1>1, <1>6 DEF TypeInv
<1>10. \A u \in Threads : th'[u].rid \in Rids => th'[u].rid \in suspect'
  BY <1>6, <1>9, Shares, <1>5, RidAssumption
<1>11. TypeInv'
  <2>1. \A i \in 1 .. Len(indexes') : IndexOK(indexes'[i], files')
    BY <1>1, <1>2, <1>3, <1>6, <1>7, <1>8 DEF TypeInv
  <2>2. \A u \in Threads : ThreadOK(th'[u], files')
    BY <1>1, <1>6, <1>9, <1>5 DEF TypeInv
  <2> QED BY <1>1, <1>6, <1>7, <1>9, <2>1, <2>2 DEF TypeInv
<1>12. SlotInv'
  BY <1>10 DEF SlotInv
<1>13. EntryInv'
  <2>1. \A r \in Rids \ suspect' : Sound(ix, rows, r) /\ \A i \in 1 .. n : Sound(indexes[i], rows, r)
    BY <1>2, <1>3, <1>6 DEF IInv, EntryInv, BuildOK
  <2> QED BY <1>6, <1>7, <1>8, <2>1 DEF EntryInv
<1>14. RowInv'
  <2>1. \A r \in DOMAIN rows \ suspect' : ~ Covered(r)
    <3>1. \A u \in Threads : th[u].rid \in Rids => th[u].rid \in suspect'
      BY <1>1, <1>6, Shares, RidAssumption
    <3> QED BY <1>1, <3>1 DEF Covered, TypeInv
  <2>2. \A r \in DOMAIN rows \ suspect' : Has(ix, rows[r], r) /\ \A i \in 1 .. n : Has(indexes[i], rows[r], r)
    BY <1>1, <1>2, <1>3, <1>6, <2>1 DEF IInv, RowInv, BuildOK, TypeInv
  <2>3. \A r \in DOMAIN rows' \ suspect' : \A i \in 1 .. Len(indexes') : Has(indexes'[i], rows'[r], r)
    BY <1>6, <1>7, <1>8, <2>2
  <2> QED BY <2>3 DEF RowInv
<1>15. WorkInv'
  BY <1>10 DEF WorkInv
<1>16. BuildInv'
  <2>1. \A u \in Threads : th'[u].pc = "publish" => BuildOK(th'[u].ix, rows, suspect)
    BY <1>9, <1>5 DEF IInv, BuildInv
  <2> QED BY <1>6, <2>1 DEF BuildInv, BuildOK
<1> QED BY <1>11, <1>12, <1>13, <1>14, <1>15, <1>16 DEF IInv

\* The metadata is written by a thread that has no slot.
LEMMA MetaKeeps ==
  ASSUME IInv, NEW t \in Threads, WriteMeta(t) \/ RenameMeta(t)
  PROVE  IInv'
<1>1. /\ ThreadOK(th[t], files) /\ th[t].pc \in {"write", "rename"} /\ th[t].rid = None
      /\ UNCHANGED <<rows, given, indexes, files, suspect>>
  BY ThreadType DEF WriteMeta, RenameMeta, ThreadOK, Working
<1>2. PICK s : s = [th[t] EXCEPT !.pc = "rename"]
  OBVIOUS
<1>3. th' = [th EXCEPT ![t] = s] \/ th' = [th EXCEPT ![t] = Idle]
  BY <1>2 DEF WriteMeta, RenameMeta, Set
<1>4. ThreadOK(s, files) /\ s.rid = None /\ s.pc # "publish"
  BY <1>1, <1>2 DEF ThreadOK, ThreadFields, Working
<1> QED BY <1>1, <1>3, <1>4, IdleType, FreeStep

\* After a restart each index is one of those there were before.
LEMMA RestartKeeps ==
  ASSUME IInv, MetaInv, Restart
  PROVE  IInv'
<1>1. /\ TypeInv /\ UNCHANGED <<rows, disk_meta, files, th, given, suspect>>
      /\ \A t \in Threads : th[t] = Idle
      /\ Named(disk_meta, indexes)
  BY DEF IInv, Restart, MetaInv
<1>2. PICK z, m : z = indexes' /\ m = Len(disk_meta)
  OBVIOUS
<1>3. IsSeq(disk_meta) /\ m \in Nat
  BY <1>1, <1>2 DEF Named, IsSeq
<1>4. z = [i \in 1 .. m |-> z[i]]
      /\ \A i \in 1 .. m :
           z[i] = indexes[CHOOSE j \in 1 .. Len(indexes) : indexes[j].name = disk_meta[i]]
  BY <1>2, <1>3 DEF Restart
<1>5. IsSeq(z) /\ Len(z) = m
  BY <1>3, <1>4, SeqTuple
<1>6. \A i \in 1 .. m : \E j \in 1 .. Len(indexes) : z[i] = indexes[j] /\ indexes[j].name = disk_meta[i]
  <2> SUFFICES ASSUME NEW i \in 1 .. m
               PROVE  \E j \in 1 .. Len(indexes) : z[i] = indexes[j] /\ indexes[j].name = disk_meta[i]
    OBVIOUS
  <2>1. \E j \in 1 .. Len(indexes) : indexes[j].name = disk_meta[i]
    BY <1>1, <1>2 DEF Named
  <2> QED BY <1>4, <2>1
<1>7. TypeInv'
  <2>1. \A i \in 1 .. Len(indexes') : IndexOK(indexes'[i], files')
    BY <1>1, <1>2, <1>5, <1>6 DEF TypeInv
  <2>2. \A t \in Threads : ThreadOK(th'[t], files')
    BY <1>1, IdleType
  <2> QED BY <1>1, <1>2, <1>3, <1>5, <2>1, <2>2 DEF TypeInv
<1>8. \A t \in Threads : th'[t].rid \notin Rids /\ th'[t].pc # "publish"
  BY <1>1, IdleType, RidAssumption
<1>9. SlotInv' /\ WorkInv' /\ BuildInv'
  BY <1>8 DEF SlotInv, WorkInv, BuildInv
<1>10. EntryInv'
  BY <1>1, <1>2, <1>5, <1>6 DEF IInv, EntryInv
<1>11. RowInv'
  <2>1. \A r \in DOMAIN rows : ~ Covered(r)
    BY <1>1, IdleType, RidAssumption DEF Covered, TypeInv
  <2>2. \A r \in DOMAIN rows \ suspect : \A i \in 1 .. Len(indexes) : Has(indexes[i], rows[r], r)
    BY <2>1 DEF IInv, RowInv
  <2> QED BY <1>1, <1>2, <1>5, <1>6, <2>2 DEF RowInv
<1> QED BY <1>7, <1>9, <1>10, <1>11 DEF IInv

LEMMA InitHolds == Init => IInv
<1> SUFFICES ASSUME Init
             PROVE  IInv
  OBVIOUS
<1>1. /\ rows = <<>> /\ given = <<>> /\ indexes \in StartIndexes
      /\ th = [t \in Threads |-> Idle]
  BY DEF Init
<1>2. PICK list \in StartIndexes : list = indexes
  BY <1>1
<1>3. list \in Seq([name : {list[i].name : i \in DOMAIN list}, fields : Seq(Fields),
                   unique : BOOLEAN, entries : {{}}])
  BY IndexAssumption
<1>4. /\ Len(list) \in Nat /\ DOMAIN list = 1 .. Len(list) /\ list = [i \in 1 .. Len(list) |-> list[i]]
      /\ \A i \in 1 .. Len(list) : DOMAIN list[i] = IndexFields /\ list[i].entries = {}
  <2>1. PICK S : S = [name : {list[i].name : i \in DOMAIN list}, fields : Seq(Fields),
                      unique : BOOLEAN, entries : {{}}]
    OBVIOUS
  <2>2. \A x \in S : DOMAIN x = IndexFields /\ x.entries = {}
    BY <2>1 DEF IndexFields
  <2>3. list \in Seq(S)
    BY <1>3, <2>1
  <2>4. /\ Len(list) \in Nat /\ DOMAIN list = 1 .. Len(list) /\ list = [i \in 1 .. Len(list) |-> list[i]]
        /\ \A i \in 1 .. Len(list) : list[i] \in S
    BY <2>3
  <2> QED BY <2>2, <2>4
<1>5. IsSeq(indexes)
  BY <1>2, <1>4, SeqTuple
<1>6. \A i \in 1 .. Len(indexes) : DOMAIN indexes[i] = IndexFields /\ indexes[i].entries = {}
  BY <1>2, <1>4
<1>7. DOMAIN rows = {} /\ DOMAIN given = {}
  BY <1>1
<1>8. \A t \in Threads : ThreadOK(th[t], files) /\ th[t].rid \notin Rids /\ th[t].pc # "publish"
  BY <1>1, RidAssumption DEF Idle, ThreadOK, ThreadFields, Working
<1>9. TypeInv
  <2>1. \A i \in 1 .. Len(indexes) : IndexOK(indexes[i], files)
    BY <1>6 DEF Init, IndexOK
  <2> QED BY <1>1, <1>5, <1>7, <1>8, <2>1 DEF TypeInv
<1>10. SlotInv /\ WorkInv /\ BuildInv
  BY <1>8 DEF SlotInv, WorkInv, BuildInv
<1>11. EntryInv /\ RowInv
  BY <1>6, <1>7 DEF EntryInv, RowInv, Sound
<1> QED BY <1>9, <1>10, <1>11 DEF IInv

LEMMA StepKeeps == TableInv /\ [Next]_vars => IInv'
<1> SUFFICES ASSUME IInv, MetaInv, [Next]_vars
             PROVE  IInv'
  BY DEF TableInv
<1>1. CASE UNCHANGED vars
  BY <1>1 DEF vars, memory, history, metadata, IInv, TypeInv, SlotInv, EntryInv, RowInv, Covered, WorkInv, BuildInv
<1>2. ASSUME NEW t \in Threads,
             \/ \E tuples \in Tuples : Insert(t, tuples)
             \/ \E r \in DOMAIN rows : Delete(t, r)
             \/ \E S \in SUBSET DOMAIN rows, f \in Fields : \E v \in Values(f) : Update(t, S, f, v)
      PROVE  IInv'
  BY <1>2, BeginKeeps
<1>3. ASSUME NEW t \in Threads,
             \/ InsertNext(t) \/ DeleteNext(t) \/ UpdateNext(t) \/ EndStatement(t)
             \/ CheckUnique(t) \/ NoSlot(t) \/ PutRow(t) \/ EnterIndex(t) \/ RowDone(t) \/ UndoIndex(t)
             \/ UndoRow(t) \/ LeaveIndex(t) \/ DropRow(t) \/ ClearRow(t)
      PROVE  IInv'
  BY <1>3, InsertNextKeeps, DeleteNextKeeps, UpdateNextKeeps, EndStatementKeeps, CheckUniqueKeeps,
     NoSlotKeeps, PutRowKeeps, EnterIndexKeeps, RowDoneKeeps, UndoIndexKeeps, UndoRowKeeps,
     LeaveIndexKeeps, DropRowKeeps, ClearRowKeeps
<1>4. ASSUME NEW t \in Threads,
             (\E meta \in NewIndexes : BuildIndex(t, meta)) \/ PublishIndex(t) \/ WriteMeta(t) \/ RenameMeta(t)
      PROVE  IInv'
  BY <1>4, BuildIndexKeeps, PublishIndexKeeps, MetaKeeps
<1>5. CASE Restart
  BY <1>5, RestartKeeps
<1> QED BY <1>1, <1>2, <1>3, <1>4, <1>5 DEF Next

-----------------------------------------------------------------------------
(* The metadata and its file.                                              *)

\* A list stays a list of the indexes there are when their names stay.
SameNames(a, b) == Len(a) = Len(b) /\ \A i \in 1 .. Len(b) : a[i].name = b[i].name

LEMMA NamesStay ==
  ASSUME NEW a, NEW b, SameNames(a, b), NEW list
  PROVE  (Named(list, a) <=> Named(list, b)) /\ (Complete(list, a) <=> Complete(list, b))
BY DEF SameNames, Named, Complete

\* A thread that neither was nor is to write metadata leaves it as it is.
LEMMA MetaStays ==
  ASSUME MetaInv, NEW t \in Threads, \A u \in Threads \ {t} : th'[u] = th[u],
         ~Publishing(t), th'[t].pc \notin {"write", "rename"},
         UNCHANGED <<metadata, unwritten>>, SameNames(indexes', indexes)
  PROVE  MetaInv'
<1>1. \A u \in Threads : /\ Publishing(u)' <=> Publishing(u)
                         /\ Publishing(u) => th'[u] = th[u]
                         /\ th'[u].pc = "rename" <=> th[u].pc = "rename"
  BY DEF Publishing
<1>2. \A list : (Named(list, indexes') <=> Named(list, indexes))
                /\ (Complete(list, indexes') <=> Complete(list, indexes))
  BY NamesStay
<1>3. \A u \in Threads : th[u].pc = "rename" => Publishing(u)
  BY DEF Publishing
<1>4. table_meta' = table_meta /\ disk_meta' = disk_meta /\ tmp_meta' = tmp_meta /\ unwritten' = unwritten
  BY DEF metadata
<1> QED BY <1>1, <1>2, <1>3, <1>4 DEF MetaInv

\* What UPDATE reads from its copy of a row, and the record it makes of it.
ReadVals(r, old, set) == [f \in Fields |-> IF f = set.field THEN set.value ELSE Cell(r, old, f)]
KeptForced(r, set) == {f \in Fields \ {set.field} : ForcedNull(r, f)}

\* UPDATE is known to read the row that was written.
Certain(t, r, old) ==
  /\ r \in DOMAIN given \ (aged \cup suspect) /\ ~SharesSlot(t, r)
  /\ rows[r] = old
  /\ \A n \in stale, f \in TextFields : old[f] # Marker(n)
History(t, r, old, set) ==
  [(IF Certain(t, r, old) THEN given[r] ELSE ReadVals(r, old, set)) EXCEPT ![set.field] = set.value]

Updated(t, r, old, set) ==
  [th[t] EXCEPT !.pc = "leave", !.i = 1, !.rid = r, !.data = old, !.rest = Without(@, r),
                !.new = Record(ReadVals(r, old, set), KeptForced(r, set)),
                !.forced = KeptForced(r, set), !.vals = History(t, r, old, set)]

LEMMA UpdateIs ==
  ASSUME NEW t \in Threads, UpdateNext(t), NEW r, r = First(DOMAIN th[t].rest), NEW old, old = th[t].rest[r],
         NEW set, set = th[t].set
  PROVE  th' = [th EXCEPT ![t] = Updated(t, r, old, set)] /\ MakeRecord(ReadVals(r, old, set), KeptForced(r, set))
BY DEF UpdateNext, Set, ReadVals, KeptForced, History, Certain, Updated

LEMMA RowMeta ==
  ASSUME IInv, MetaInv, NEW t \in Threads,
         \/ \E tuples \in Tuples : Insert(t, tuples)
         \/ \E r \in DOMAIN rows : Delete(t, r)
         \/ \E S \in SUBSET DOMAIN rows, f \in Fields : \E v \in Values(f) : Update(t, S, f, v)
         \/ InsertNext(t) \/ DeleteNext(t) \/ UpdateNext(t) \/ EndStatement(t)
         \/ CheckUnique(t) \/ NoSlot(t) \/ PutRow(t) \/ RowDone(t) \/ UndoRow(t) \/ DropRow(t) \/ ClearRow(t)
         \/ \E meta \in NewIndexes : BuildIndex(t, meta)
  PROVE  MetaInv'
<1>1. TypeInv /\ DOMAIN th[t] = ThreadFields /\ th = [u \in Threads |-> th[u]]
  BY DEF IInv, TypeInv, ThreadOK
<1>2. /\ indexes' = indexes /\ UNCHANGED <<metadata, unwritten>> /\ ~Publishing(t)
  BY DEF Insert, Delete, Update, Begin, history, InsertNext, DeleteNext, UpdateNext, EndStatement, CheckUnique,
     NoSlot, PutRow, RowDone, UndoRow, DropRow, ClearRow, BuildIndex, Publishing
<1>3. SameNames(indexes', indexes)
  BY <1>2 DEF SameNames
<1>4. (\A u \in Threads \ {t} : th'[u] = th[u]) /\ th'[t].pc \notin {"write", "rename"}
  <2> DEFINE Goal == (\A u \in Threads \ {t} : th'[u] = th[u]) /\ th'[t].pc \notin {"write", "rename"}
  <2> SUFFICES Goal
    OBVIOUS
  <2>0. /\ th[t].pc \notin {"write", "rename"}
        /\ th' = th => Goal
        /\ \A s : th' = [th EXCEPT ![t] = s] /\ s.pc \notin {"write", "rename"} => Goal
    BY <1>1, <1>2 DEF Publishing
  <2> HIDE DEF Goal
  <2>1. CASE \/ \E tuples \in Tuples : Insert(t, tuples)
             \/ \E r \in DOMAIN rows : Delete(t, r)
    <3>1. \A x, y : [Idle EXCEPT !.pc = "next", !.op = x, !.rest = y].pc = "next"
      BY DEF Idle
    <3> QED BY <2>0, <2>1, <3>1 DEF Insert, Delete, Set
  <2>2. CASE \E S \in SUBSET DOMAIN rows, f \in Fields : \E v \in Values(f) : Update(t, S, f, v)
    <3>1. \A x, y : [Idle EXCEPT !.pc = "next", !.op = "update", !.rest = x, !.set = y].pc = "next"
      BY DEF Idle
    <3> QED BY <2>0, <2>2, <3>1 DEF Update, Set
  <2>3. CASE InsertNext(t)
    <3>1. \A a, b, c, d : [th[t] EXCEPT !.pc = "check", !.rest = a, !.i = 1, !.data = b, !.vals = c,
                                        !.forced = d].pc = "check"
      BY <1>1 DEF ThreadFields
    <3>2. CASE th' = [th EXCEPT ![t] = Idle]
      BY <2>0, <3>2 DEF Idle
    <3> DEFINE tuple == Head(th[t].rest)
               kept == [f \in Fields |-> Kept(f, tuple.vals[f])]
               vals == [f \in Fields |-> IF f \in tuple.forced THEN Null ELSE kept[f]]
    <3>3. CASE th' = [th EXCEPT ![t] = [th[t] EXCEPT !.pc = "check", !.rest = Tail(@), !.i = 1,
                                          !.data = Record(kept, tuple.forced), !.vals = vals,
                                          !.forced = tuple.forced]]
      BY <2>0, <3>1, <3>3
    <3> QED BY <2>3, <3>2, <3>3 DEF InsertNext, Set, Done
  <2>4. CASE DeleteNext(t)
    <3>1. \A a, b, c : [th[t] EXCEPT !.pc = "leave", !.i = 1, !.rid = a, !.data = b, !.rest = c].pc = "leave"
      BY <1>1 DEF ThreadFields
    <3> QED BY <2>0, <2>4, <3>1 DEF DeleteNext, Set
  <2>5. CASE UpdateNext(t)
    <3>1. PICK r, old, set : r = First(DOMAIN th[t].rest) /\ old = th[t].rest[r] /\ set = th[t].set
      OBVIOUS
    <3>2. PICK s : s = Updated(t, r, old, set)
      OBVIOUS
    <3>3. th' = [th EXCEPT ![t] = s]
      BY <2>5, <3>1, <3>2, UpdateIs
    <3>4. s.pc = "leave"
      BY <1>1, <3>2 DEF Updated, ThreadFields
    <3> QED BY <2>0, <3>3, <3>4
  <2>6. CASE EndStatement(t) \/ NoSlot(t) \/ UndoRow(t)
    BY <2>0, <2>6 DEF EndStatement, NoSlot, UndoRow, Done, Set, Idle
  <2>7. CASE CheckUnique(t)
    <3>1. \A a : /\ [th[t] EXCEPT !.i = a].pc = th[t].pc
                 /\ [th[t] EXCEPT !.i = a, !.unasked = TRUE].pc = th[t].pc
      BY <1>1 DEF ThreadFields
    <3> QED BY <2>0, <2>7, <3>1 DEF CheckUnique, Done, Set, Idle
  <2>8. CASE PutRow(t)
    <3>1. \A a : [th[t] EXCEPT !.pc = "enter", !.i = 1, !.rid = a].pc = "enter"
      BY <1>1 DEF ThreadFields
    <3> QED BY <2>0, <2>8, <3>1 DEF PutRow, Set
  <2>9. CASE RowDone(t)
    <3>1. \A a, b, c : [Idle EXCEPT !.pc = "next", !.op = a, !.rest = b, !.set = c].pc = "next"
      BY DEF Idle
    <3> QED BY <2>0, <2>9, <3>1 DEF RowDone, Set
  <2>10. CASE DropRow(t)
    <3>1. [th[t] EXCEPT !.pc = "clear"].pc = "clear"
      BY <1>1 DEF ThreadFields
    <3> QED BY <2>0, <2>10, <3>1 DEF DropRow, Done, Set, Idle
  <2>11. CASE ClearRow(t)
    <3>1. \A a, b : /\ [Idle EXCEPT !.pc = "next", !.op = a, !.rest = b].pc = "next"
                    /\ [th[t] EXCEPT !.pc = "check", !.i = 1, !.rid = None, !.data = a, !.new = None].pc = "check"
      BY <1>1 DEF ThreadFields, Idle
    <3> QED BY <2>0, <2>11, <3>1 DEF ClearRow, Set
  <2>12. CASE \E meta \in NewIndexes : BuildIndex(t, meta)
    <3>1. \A a : [Idle EXCEPT !.pc = "publish", !.op = "index", !.ix = a].pc = "publish"
      BY DEF Idle
    <3> QED BY <2>0, <2>12, <3>1 DEF BuildIndex, EnterRows, Set
  <2> QED BY <2>1, <2>2, <2>3, <2>4, <2>5, <2>6, <2>7, <2>8, <2>9, <2>10, <2>11, <2>12
<1> QED BY <1>2, <1>3, <1>4, MetaStays

\* New entries of an index leave its name as it is.
\* A step through the indexes changes the entries of the one it is at, if any.
LEMMA EntriesSet ==
  ASSUME NEW t \in Threads, EnterIndex(t) \/ UndoIndex(t) \/ LeaveIndex(t)
  PROVE  indexes' = indexes \/ \E k, E : indexes' = [indexes EXCEPT ![k].entries = E]
<1>1. PICK k, e : k = th[t].i /\ e = <<Key(indexes[k], th[t].data), th[t].rid>>
  OBVIOUS
<1>2. PICK E, F : E = indexes[k].entries \cup {e} /\ F = indexes[k].entries \ {e}
  OBVIOUS
<1>3. \/ indexes' = indexes
      \/ indexes' = [indexes EXCEPT ![k].entries = E]
      \/ indexes' = [indexes EXCEPT ![k].entries = F]
  <2>1. CASE EnterIndex(t)
    BY <1>1, <1>2, <2>1 DEF EnterIndex
  <2>2. CASE UndoIndex(t)
    BY <1>1, <1>2, <2>2 DEF UndoIndex
  <2>3. CASE LeaveIndex(t)
    BY <1>1, <1>2, <2>3 DEF LeaveIndex
  <2> QED BY <2>1, <2>2, <2>3
<1> QED BY <1>3

LEMMA EntriesMeta ==
  ASSUME IInv, MetaInv, NEW t \in Threads, EnterIndex(t) \/ UndoIndex(t) \/ LeaveIndex(t)
  PROVE  MetaInv'
<1>1. TypeInv /\ ThreadOK(th[t], files) /\ DOMAIN th[t] = ThreadFields
  BY DEF IInv, TypeInv, ThreadOK
<1>2. UNCHANGED <<metadata, unwritten>> /\ ~Publishing(t)
  BY DEF EnterIndex, UndoIndex, LeaveIndex, Publishing, history
<1>3. SameNames(indexes', indexes)
  <2>1. CASE indexes' = indexes
    BY <2>1 DEF SameNames
  <2>2. ASSUME NEW k \in 1 .. Len(indexes), NEW E, indexes' = [indexes EXCEPT ![k].entries = E]
        PROVE  SameNames(indexes', indexes)
    <3>1. IsSeq(indexes) /\ DOMAIN indexes[k] = IndexFields
      BY <1>1 DEF TypeInv, IndexOK
    <3>2. Rewritten(indexes', indexes, k, E)
      BY <2>2, <3>1, EntriesShape DEF WithEntries
    <3> QED BY <3>2 DEF Rewritten, SameNames
  <2>3. Len(indexes) \in Nat /\ th[t].i \in Nat \ {0}
    BY <1>1 DEF EnterIndex, UndoIndex, LeaveIndex, TypeInv, IsSeq, ThreadOK, Working
  <2>4. PICK k, e : k = th[t].i /\ e = <<Key(indexes[k], th[t].data), th[t].rid>>
    OBVIOUS
  <2>5. PICK E, F : E = indexes[k].entries \cup {e} /\ F = indexes[k].entries \ {e}
    OBVIOUS
  <2>6. indexes' = indexes \/ k \in 1 .. Len(indexes)
    <3>1. CASE EnterIndex(t)
      BY <2>3, <2>4, <3>1 DEF EnterIndex
    <3>2. CASE UndoIndex(t)
      BY <2>3, <2>4, <3>2 DEF UndoIndex
    <3>3. CASE LeaveIndex(t)
      BY <2>3, <2>4, <3>3 DEF LeaveIndex
    <3> QED BY <3>1, <3>2, <3>3
  <2>7. \/ indexes' = indexes
        \/ indexes' = [indexes EXCEPT ![k].entries = E]
        \/ indexes' = [indexes EXCEPT ![k].entries = F]
    <3>1. CASE EnterIndex(t)
      BY <2>4, <2>5, <3>1 DEF EnterIndex
    <3>2. CASE UndoIndex(t)
      BY <2>4, <2>5, <3>2 DEF UndoIndex
    <3>3. CASE LeaveIndex(t)
      BY <2>4, <2>5, <3>3 DEF LeaveIndex
    <3> QED BY <3>1, <3>2, <3>3
  <2> QED BY <2>1, <2>2, <2>6, <2>7
<1>4. (\A u \in Threads \ {t} : th'[u] = th[u]) /\ th'[t].pc \notin {"write", "rename"}
  <2>1. CASE EnterIndex(t)
    BY <1>1, <2>1 DEF EnterIndex, Set, ThreadFields, TypeInv
  <2>2. CASE UndoIndex(t)
    BY <1>1, <2>2 DEF UndoIndex, Set, ThreadFields, TypeInv
  <2>3. CASE LeaveIndex(t)
    BY <1>1, <2>3 DEF LeaveIndex, Set, ThreadFields, TypeInv
  <2> QED BY <2>1, <2>2, <2>3
<1> QED BY <1>2, <1>3, <1>4, MetaStays

\* The copy has the index that is published: all of them if no other is being written.
LEMMA PublishMeta ==
  ASSUME IInv, MetaInv, NEW t \in Threads, PublishIndex(t)
  PROVE  MetaInv'
<1>1. PICK ix, n, s : /\ ix = th[t].ix /\ n = Len(indexes)
                      /\ s = [Idle EXCEPT !.pc = "write", !.op = "index", !.copy = Append(table_meta, th[t].ix.name)]
  OBVIOUS
<1>2. /\ th[t].pc = "publish" /\ th' = [th EXCEPT ![t] = s] /\ indexes' = Append(indexes, ix)
      /\ table_meta' = table_meta /\ disk_meta' = disk_meta /\ tmp_meta' = tmp_meta
      /\ unwritten' = (unwritten \/ \E u \in Threads \ {t} : Publishing(u))
  BY <1>1 DEF PublishIndex, Set, metadata
<1>3. s.pc = "write" /\ s.copy = Append(table_meta, ix.name)
  BY <1>1 DEF Idle
<1>4. /\ IsSeq(indexes) /\ n \in Nat /\ th'[t] = s /\ \A u \in Threads \ {t} : th'[u] = th[u]
  BY <1>1, <1>2 DEF IInv, TypeInv, IsSeq
<1>5. IsSeq(indexes') /\ Len(indexes') = n + 1 /\ indexes'[n + 1] = ix
      /\ \A i \in 1 .. n : indexes'[i] = indexes[i]
  BY <1>1, <1>2, <1>4, SeqAppend
<1>6. \A list : Named(list, indexes) => Named(list, indexes')
  BY <1>1, <1>4, <1>5 DEF Named
<1>7. PICK m : m = Len(table_meta)
  OBVIOUS
<1>8. IsSeq(table_meta) /\ m \in Nat
  BY <1>7 DEF MetaInv, Named, IsSeq
<1>9. IsSeq(s.copy) /\ Len(s.copy) = m + 1 /\ s.copy[m + 1] = ix.name
      /\ \A i \in 1 .. m : s.copy[i] = table_meta[i]
  BY <1>3, <1>7, <1>8, SeqAppend
<1>10. Named(s.copy, indexes')
  <2>1. \A i \in 1 .. m + 1 : i \in 1 .. m \/ i = m + 1
    BY <1>8
  <2>2. \A i \in 1 .. m : \E j \in 1 .. n + 1 : s.copy[i] = indexes'[j].name
    <3>1. Named(table_meta, indexes')
      BY <1>6 DEF MetaInv
    <3>2. \A i \in 1 .. m : \E j \in 1 .. Len(indexes') : table_meta[i] = indexes'[j].name
      BY <1>7, <3>1 DEF Named
    <3> QED BY <1>5, <1>9, <3>2
  <2>3. n + 1 \in 1 .. n + 1 /\ s.copy[m + 1] = indexes'[n + 1].name
    BY <1>4, <1>5, <1>9
  <2> QED BY <1>5, <1>9, <2>1, <2>2, <2>3 DEF Named
<1>11. Complete(table_meta, indexes) => Complete(s.copy, indexes')
  <2>1. \A i \in 1 .. n + 1 : i \in 1 .. n \/ i = n + 1
    BY <1>4
  <2>2. m + 1 \in 1 .. m + 1 /\ \A j \in 1 .. m : j \in 1 .. m + 1
    BY <1>8
  <2>3. Complete(table_meta, indexes) => \A i \in 1 .. n : \E j \in 1 .. m + 1 : s.copy[j] = indexes'[i].name
    BY <1>1, <1>5, <1>7, <1>9, <2>2 DEF Complete
  <2> QED BY <1>5, <1>9, <2>1, <2>2, <2>3 DEF Complete
<1>12. /\ ~Publishing(t) /\ Publishing(t)'
       /\ \A u \in Threads \ {t} : Publishing(u)' <=> Publishing(u)
       /\ \A u \in Threads : th'[u].pc = "rename" => th[u].pc = "rename" /\ u # t
  BY <1>2, <1>3, <1>4 DEF Publishing
<1>13. /\ Named(table_meta, indexes') /\ Named(disk_meta, indexes')
       /\ \A u \in Threads : Publishing(u)' => Named(th'[u].copy, indexes')
       /\ (\E u \in Threads : th'[u].pc = "rename") /\ tmp_meta # None => Named(tmp_meta, indexes')
  BY <1>4, <1>6, <1>10, <1>12 DEF MetaInv
<1>14. ~unwritten' => /\ \A u \in Threads \ {t} : ~Publishing(u)'
                      /\ Complete(s.copy, indexes')
  BY <1>2, <1>11, <1>12 DEF MetaInv
<1>15. \A u \in Threads : th'[u].pc = "rename" => Publishing(u)' /\ u # t
  BY <1>12 DEF Publishing
<1> QED BY <1>2, <1>4, <1>12, <1>13, <1>14, <1>15 DEF MetaInv

LEMMA WriteMetaMeta ==
  ASSUME IInv, MetaInv, NEW t \in Threads, WriteMeta(t)
  PROVE  MetaInv'
<1>1. PICK s : s = [th[t] EXCEPT !.pc = "rename"]
  OBVIOUS
<1>2. /\ s.pc = "rename" /\ s.copy = th[t].copy /\ Idle.pc = "idle" /\ th = [u \in Threads |-> th[u]]
  BY <1>1 DEF IInv, TypeInv, ThreadOK, ThreadFields, Idle
<1>3. /\ th[t].pc = "write" /\ indexes' = indexes /\ table_meta' = table_meta /\ disk_meta' = disk_meta
      /\ \/ tmp_meta' = th[t].copy /\ th' = [th EXCEPT ![t] = s] /\ unwritten' = unwritten
         \/ tmp_meta' = tmp_meta /\ th' = [th EXCEPT ![t] = Idle] /\ unwritten' = TRUE
  BY <1>1 DEF WriteMeta, Set
<1>4. CASE tmp_meta' = th[t].copy /\ th' = [th EXCEPT ![t] = s] /\ unwritten' = unwritten
  <2>1. \A u \in Threads : /\ Publishing(u)' <=> Publishing(u)
                           /\ th'[u].copy = th[u].copy
                           /\ u # t => (th'[u].pc = "rename" => Publishing(u))
    BY <1>2, <1>3, <1>4 DEF Publishing
  <2>2. Publishing(t)
    BY <1>3 DEF Publishing
  <2> QED BY <1>3, <1>4, <2>1, <2>2 DEF MetaInv
<1>5. CASE tmp_meta' = tmp_meta /\ th' = [th EXCEPT ![t] = Idle] /\ unwritten' = TRUE
  <2>1. \A u \in Threads : /\ Publishing(u)' => Publishing(u) /\ th'[u] = th[u]
                           /\ th'[u].pc = "rename" => th[u].pc = "rename"
    BY <1>2, <1>3, <1>5 DEF Publishing
  <2> QED BY <1>3, <1>5, <2>1 DEF MetaInv
<1> QED BY <1>3, <1>4, <1>5

LEMMA RenameMetaMeta ==
  ASSUME IInv, MetaInv, NEW t \in Threads, RenameMeta(t)
  PROVE  MetaInv'
<1>1. /\ th[t].pc = "rename" /\ indexes' = indexes /\ th' = [th EXCEPT ![t] = Idle]
      /\ \/ /\ tmp_meta # None /\ disk_meta' = tmp_meta /\ tmp_meta' = None /\ table_meta' = th[t].copy
            /\ unwritten' = unwritten
         \/ /\ table_meta' = table_meta /\ disk_meta' = disk_meta /\ tmp_meta' = tmp_meta
            /\ unwritten' = TRUE
  BY DEF RenameMeta, Set, metadata
<1>2. Idle.pc = "idle" /\ th = [u \in Threads |-> th[u]]
  BY DEF IInv, TypeInv, Idle
<1>3. \A u \in Threads : /\ Publishing(u)' => Publishing(u) /\ th'[u] = th[u] /\ u # t
                         /\ th'[u].pc = "rename" => th[u].pc = "rename" /\ u # t
  BY <1>1, <1>2 DEF Publishing
<1>4. Publishing(t) /\ \A u \in Threads : th[u].pc = "rename" => Publishing(u)
  BY <1>1 DEF Publishing
<1>5. CASE /\ tmp_meta # None /\ disk_meta' = tmp_meta /\ tmp_meta' = None /\ table_meta' = th[t].copy
           /\ unwritten' = unwritten
  <2>1. Named(disk_meta', indexes) /\ Named(table_meta', indexes)
    BY <1>1, <1>4, <1>5 DEF MetaInv
  <2>2. ~unwritten => /\ \A u \in Threads : ~Publishing(u)'
                      /\ Complete(disk_meta', indexes) /\ Complete(table_meta', indexes)
    BY <1>1, <1>3, <1>4, <1>5 DEF MetaInv
  <2>3. \A u \in Threads : Publishing(u)' => Named(th'[u].copy, indexes)
    BY <1>3 DEF MetaInv
  <2>4. ~unwritten => \A u \in Threads : th'[u].pc # "rename"
    BY <1>1, <1>3, <1>4 DEF MetaInv
  <2> QED BY <1>1, <1>5, <2>1, <2>2, <2>3, <2>4 DEF MetaInv
<1>6. CASE /\ table_meta' = table_meta /\ disk_meta' = disk_meta /\ tmp_meta' = tmp_meta
           /\ unwritten' = TRUE
  BY <1>1, <1>3, <1>6 DEF MetaInv
<1> QED BY <1>1, <1>5, <1>6

\* After a restart the indexes are those the file names, in this order.
LEMMA RestartMeta ==
  ASSUME IInv, MetaInv, Restart
  PROVE  MetaInv'
<1>1. PICK z, m : z = indexes' /\ m = Len(disk_meta)
  OBVIOUS
<1>2. IsSeq(disk_meta) /\ m \in Nat
  BY <1>1 DEF MetaInv, Named, IsSeq
<1>3. /\ table_meta' = disk_meta /\ disk_meta' = disk_meta /\ unwritten' = unwritten
      /\ \A t \in Threads : th'[t] = Idle
      /\ z = [i \in 1 .. m |-> z[i]]
      /\ \A i \in 1 .. m :
           z[i] = indexes[CHOOSE j \in 1 .. Len(indexes) : indexes[j].name = disk_meta[i]]
  BY <1>1, <1>2 DEF Restart
<1>4. IsSeq(z) /\ Len(z) = m
  BY <1>2, <1>3, SeqTuple
<1>5. \A i \in 1 .. m : z[i].name = disk_meta[i]
  <2> SUFFICES ASSUME NEW i \in 1 .. m
               PROVE  z[i].name = disk_meta[i]
    OBVIOUS
  <2>1. \E j \in 1 .. Len(indexes) : indexes[j].name = disk_meta[i]
    BY <1>1 DEF MetaInv, Named
  <2> QED BY <1>3, <2>1
<1>6. Named(disk_meta, indexes') /\ Complete(disk_meta, indexes')
  BY <1>1, <1>2, <1>4, <1>5 DEF Named, Complete
<1>7. \A t \in Threads : ~Publishing(t)' /\ th'[t].pc # "rename"
  BY <1>3 DEF Publishing, Idle
<1> QED BY <1>3, <1>6, <1>7 DEF MetaInv

LEMMA InitMeta == Init => MetaInv
<1> SUFFICES ASSUME Init
             PROVE  MetaInv
  OBVIOUS
<1>1. PICK meta : meta = disk_meta
  OBVIOUS
<1>2. /\ indexes \in StartIndexes /\ meta = [i \in 1 .. Len(indexes) |-> indexes[i].name]
      /\ table_meta = meta /\ disk_meta = meta /\ tmp_meta = None
      /\ \A t \in Threads : th[t] = Idle
  BY <1>1 DEF Init
<1>3. Len(indexes) \in Nat
  BY <1>2, IndexAssumption
<1>4. meta = [i \in 1 .. Len(indexes) |-> meta[i]] /\ \A i \in 1 .. Len(indexes) : meta[i] = indexes[i].name
  BY <1>2
<1>5. IsSeq(meta) /\ Len(meta) = Len(indexes)
  BY <1>3, <1>4, SeqTuple
<1>6. Named(meta, indexes) /\ Complete(meta, indexes)
  BY <1>4, <1>5 DEF Named, Complete
<1>7. \A t \in Threads : ~Publishing(t) /\ th[t].pc # "rename"
  BY <1>2 DEF Publishing, Idle
<1> QED BY <1>2, <1>6, <1>7 DEF MetaInv

LEMMA MetaStepKeeps == TableInv /\ [Next]_vars => MetaInv'
<1> SUFFICES ASSUME IInv, MetaInv, [Next]_vars
             PROVE  MetaInv'
  BY DEF TableInv
<1>1. CASE UNCHANGED vars
  BY <1>1 DEF vars, history, metadata, MetaInv, Publishing
<1>2. CASE \E t \in Threads :
             \/ \E tuples \in Tuples : Insert(t, tuples)
             \/ \E r \in DOMAIN rows : Delete(t, r)
             \/ \E S \in SUBSET DOMAIN rows, f \in Fields : \E v \in Values(f) : Update(t, S, f, v)
             \/ InsertNext(t) \/ DeleteNext(t) \/ UpdateNext(t) \/ EndStatement(t)
             \/ CheckUnique(t) \/ NoSlot(t) \/ PutRow(t) \/ RowDone(t) \/ UndoRow(t) \/ DropRow(t) \/ ClearRow(t)
             \/ \E meta \in NewIndexes : BuildIndex(t, meta)
  BY <1>2, RowMeta
<1>3. CASE \E t \in Threads : EnterIndex(t) \/ UndoIndex(t) \/ LeaveIndex(t)
  BY <1>3, EntriesMeta
<1>4. CASE \E t \in Threads : PublishIndex(t) \/ WriteMeta(t) \/ RenameMeta(t)
  BY <1>4, PublishMeta, WriteMetaMeta, RenameMetaMeta
<1>5. CASE Restart
  BY <1>5, RestartMeta
<1> QED BY <1>1, <1>2, <1>3, <1>4, <1>5 DEF Next
LEMMA InvAgrees == TableInv => IndexesAgree
<1> SUFFICES ASSUME TableInv
             PROVE  IndexesAgree
  OBVIOUS
<1>1. TypeInv /\ EntryInv /\ RowInv /\ MetaInv
  BY DEF TableInv, IInv
<1>2. TypeOK
  BY <1>1 DEF TypeInv, TypeOK, IndexOK, MetaInv, Named
<1>3. EntryHasRow
  <2> SUFFICES ASSUME NEW i \in 1 .. Len(indexes), NEW e \in indexes[i].entries, e[2] \notin suspect
               PROVE  e[2] \in DOMAIN rows /\ Key(indexes[i], rows[e[2]]) = e[1]
    BY DEF EntryHasRow
  <2>1. e[2] \in Rids
    BY <1>1 DEF TypeInv, IndexOK
  <2> QED BY <1>1, <2>1 DEF EntryInv, Sound
<1>4. RowHasEntries
  <2>1. Quiet => \A r : ~ Covered(r)
    BY DEF Quiet, Covered, Covering
  <2> QED BY <1>1, <2>1 DEF RowHasEntries, RowInv, Has
<1>5. MetaComplete
  <2>1. Quiet => \A t \in Threads : ~Publishing(t)
    BY DEF Quiet, Publishing
  <2> QED BY <1>1, <2>1 DEF MetaComplete, MetaInv, Complete
<1> QED BY <1>2, <1>3, <1>4, <1>5 DEF IndexesAgree

\* Rows and index entries of a table agree (Table::insert_record, delete_record,
\* create_index, open, and UpdateExecutor), for any number of threads, slots, fields
\* and indexes, whatever operation of an index, of the record file or of the metadata
\* fails: an entry has its row at every moment, a row its entries between statements,
\* and an index its place in the metadata, but for the slots two statements worked on
\* at the same time, those where taking back or deleting an entry or a row has failed
\* (delete_record and the undo of insert_record go on), and the metadata that was not
\* written or was written over by another CREATE INDEX.
THEOREM IndexesCorrect == Spec => []IndexesAgree
<1>1. Init => TableInv
  BY InitHolds, InitMeta DEF TableInv
<1>2. TableInv /\ [Next]_vars => TableInv'
  BY StepKeeps, MetaStepKeeps DEF TableInv
<1>3. TableInv => IndexesAgree
  BY InvAgrees
<1> QED BY <1>1, <1>2, <1>3, PTL DEF Spec

-----------------------------------------------------------------------------
(* Contents: what rows hold, which texts are kept for them, and which rows  *)
(* of a unique index have the same key.                                     *)

TextBytes == [text : STRING]
MarkBytes == [marker : Nat]
Value(f) == {Null} \cup IF f \in IntFields THEN Int ELSE TextBytes \cup MarkBytes
Stored(f) == {Zero} \cup IF f \in IntFields THEN Int ELSE TextBytes \cup MarkBytes
RecOK(rec) == DOMAIN rec = Fields /\ \A f \in Fields : rec[f] \in Stored(f)
ValsOK(v) == DOMAIN v = Fields /\ \A f \in Fields : v[f] \in Value(f)
LongText(v) == v \in TextBytes /\ v.text \in LongTexts
TextsOK(T, next) ==
  /\ next \in Nat \ {0} /\ \A n \in DOMAIN T : n \in 1 .. next - 1 /\ LongText(T[n])
MetaOK(ix) == ix.fields \in Seq(Fields)

\* The row is being filled, and not all of its entries are made.
Fills == {"enter", "undo", "unrow"}
Replaces(s) == s.pc \in {"leave", "clear"} /\ s.op # "delete"
Copies(s) == s.op \in {"delete", "update"}

HeldOK(s) ==
  /\ s.op = "insert" => \E S : s.rest \in Seq(S) /\ \A x \in S : IsTuple(x)
  /\ Copies(s) => \A r \in DOMAIN s.rest : RecOK(s.rest[r])
  /\ s.op = "update" => s.set.field \in Fields /\ s.set.value \in Domain(s.set.field)
                        /\ (s.set.value = Null => s.set.field \in Nullable)
  /\ s.pc \in Working \cup {"check"} => RecOK(s.data)
  /\ Replaces(s) => RecOK(s.new)
  /\ s.pc \in Fills \cup {"check"} \/ Replaces(s) => ValsOK(s.vals)
  /\ s.pc = "publish" => MetaOK(s.ix)

HoldInv ==
  /\ TextsOK(overflow_texts, next_overflow_text_id)
  /\ \A r \in DOMAIN rows : RecOK(rows[r]) /\ ValsOK(given[r])
  /\ \A t \in Threads : HeldOK(th[t])
  /\ \A i \in 1 .. Len(indexes) : MetaOK(indexes[i])

\* A record names text n; a thread has one in hand that belongs to slot r, or one that
\* has no slot yet, or one whose slot is gone and whose text is still there.
Names(rec, n) == \E f \in TextFields : rec[f] = Marker(n)
SlotNames(s, r, n) ==
  \/ s.pc \in Working /\ s.rid = r /\ Names(s.data, n)
  \/ Copies(s) /\ r \in DOMAIN s.rest /\ Names(s.rest[r], n)
Pends(s, n) == (s.pc = "check" /\ Names(s.data, n)) \/ (Replaces(s) /\ Names(s.new, n))
Clears(s, n) == s.pc = "clear" /\ Names(s.data, n)
RowNames(rs, r, n) == r \in DOMAIN rs /\ Names(rs[r], n)
InSlot(r, n) == RowNames(rows, r, n) \/ \E t \in Threads : SlotNames(th[t], r, n)

\* Every marker is of a text that was kept, since the restart or before it; a text
\* that is kept is of one slot, or of one record that has no slot yet.
Known(n) == n \in stale \/ n \in 1 .. next_overflow_text_id - 1
MarkInv ==
  /\ \A r \in Rids, n \in Nat : InSlot(r, n) => Known(n)
  /\ \A t \in Threads, n \in Nat : Pends(th[t], n) => Known(n)
SoleInv ==
  \A n \in DOMAIN overflow_texts \ stale :
    /\ \A r, q \in Rids : InSlot(r, n) /\ InSlot(q, n) => r = q
    /\ \A t \in Threads : Pends(th[t], n) => \A r \in Rids : ~InSlot(r, n)
    /\ \A t, u \in Threads : Pends(th[t], n) /\ Pends(th[u], n) => t = u
\* and of no slot or record it is not kept for, unless two statements met.
LeakInv ==
  suspect = {} => \A n \in DOMAIN overflow_texts :
    \/ \E r \in DOMAIN rows : Names(rows[r], n)
    \/ \E t \in Threads : Pends(th[t], n) \/ Clears(th[t], n)

\* The record holds the values: F are the fields forced to NULL, T the texts, x the
\* markers from before a restart.
Holds(rec, v, F, T, x) ==
  \A f \in Fields :
    /\ f \in F => v[f] = Null
    /\ v[f] \in {Null, Default(f)} => rec[f] = Zero
    /\ IsLong(f, v[f]) => \E n \in Nat : rec[f] = Marker(n) /\ (n \in x \/ (n \in DOMAIN T /\ T[n] = v[f]))
    /\ v[f] \notin {Null, Default(f)} /\ ~IsLong(f, v[f]) => rec[f] = v[f]
    /\ f \in TextFields => \A n \in Nat : v[f] = Marker(n) => n \notin DOMAIN T \/ n \in x
Accepted(v, F) == \A f \in Fields : v[f] = Null => f \in F \cup Nullable

ForcedAt(fn, r) == IF r \in DOMAIN fn THEN fn[r] ELSE {}
Filler(s, r) == s.pc \in Fills /\ s.rid = r
RowRight(r, rs, g, F, T, x, a) ==
  r \in DOMAIN rs => Holds(rs[r], g[r], F, T, x) /\ (r \in a \/ Accepted(g[r], F))
PendRight(s, T, x) ==
  /\ s.pc = "check" => Holds(s.data, s.vals, s.forced, T, x) /\ Accepted(s.vals, s.forced)
  /\ Replaces(s) => Holds(s.new, s.vals, s.forced, T, x) /\ Accepted(s.vals, s.forced)
SlotRight(r) ==
  /\ (\A t \in Threads : ~Filler(th[t], r)) =>
       RowRight(r, rows, given, ForcedAt(forced_null_fields, r), overflow_texts, stale, aged)
  /\ \A t \in Threads : Filler(th[t], r) =>
       RowRight(r, rows, given, th[t].forced, overflow_texts, stale, aged)
  /\ \A t \in Threads : th[t].pc = "clear" /\ th[t].rid = r => r \notin DOMAIN rows
ValueInv ==
  /\ \A r \in Rids \ suspect : SlotRight(r)
  /\ \A t \in Threads : PendRight(th[t], overflow_texts, stale)

ContentInv == HoldInv /\ MarkInv /\ SoleInv /\ LeakInv /\ ValueInv

\* Inserts that meet are rivals of each other; a slot is marked when the insert that
\* fills it, or has filled it, has met another one. An insert that has asked every unique
\* index it has passed has met the inserts of the rows that have its key there.
RivalInv == \A t, u \in Threads : t # u /\ Inserting(t) /\ Inserting(u) => t \in rivals
Marked(r) ==
  /\ \A t \in Threads : Filler(th[t], r) => t \in rivals
  /\ (\A t \in Threads : ~Filler(th[t], r)) => r \in raced
Met(t, ix, r) ==
  ix.unique /\ ~SkipUniqueNullKey(ix, th[t].data) =>
    \A e \in ix.entries : e[2] \notin suspect /\ e[2] # r /\ e[1] = Key(ix, th[t].data)
                          => t \in rivals /\ Marked(e[2])
MetAt(t, i, r) == Met(t, indexes[i], r)
PassedOK(t) ==
  /\ th[t].pc = "check" => /\ th[t].i \in 1 .. Len(indexes) + 1
                           /\ ~th[t].unasked =>
                                \A i \in 1 .. Len(indexes) : i < th[t].i => Met(t, indexes[i], None)
  /\ th[t].pc = "enter" /\ th[t].rid \notin suspect =>
       \A i \in 1 .. Len(indexes) : Met(t, indexes[i], th[t].rid)
PassedInv == \A t \in Threads : PassedOK(t)
Once(ix) ==
  \A d, e \in ix.entries :
    ix.unique /\ d[1] = e[1] /\ d[2] # e[2] /\ d[2] \notin suspect /\ e[2] \notin suspect => Marked(d[2])
OnceInv == \A i \in 1 .. Len(indexes) : Once(indexes[i])
PublishOK(s, sus) ==
  s.pc = "publish" /\ s.ix.unique =>
    \A d, e \in s.ix.entries : d[1] = e[1] => d[2] = e[2] \/ d[2] \in sus
PublishInv == \A t \in Threads : PublishOK(th[t], suspect)
UniqueInv == RivalInv /\ PassedInv /\ OnceInv /\ PublishInv

-----------------------------------------------------------------------------
(* Values and what is stored for them                                       *)

LEMMA Kinds ==
  /\ \A x \in TextBytes : x = Text(x.text) /\ x \notin MarkBytes /\ ~IsMarker(x) /\ x # Null /\ x # Zero
  /\ \A x \in MarkBytes : x = Marker(x.marker) /\ x.marker \in Nat /\ IsMarker(x) /\ x # Null /\ x # Zero
  /\ \A n \in Nat : Marker(n) \in MarkBytes /\ Marker(n).marker = n
  /\ \A n, m \in Nat : Marker(n) = Marker(m) => n = m
  /\ \A x \in Int : x # Null /\ x # Zero
<1>1. \A x \in Int \cup TextBytes \cup MarkBytes : x # Null /\ x # Zero
  BY ValueAssumption DEF TextBytes, MarkBytes
<1>2. \A x \in TextBytes : x = Text(x.text) /\ DOMAIN x = {"text"}
  BY DEF TextBytes, Text
<1>3. \A x \in MarkBytes : x = Marker(x.marker) /\ x.marker \in Nat /\ DOMAIN x = {"marker"}
  BY DEF MarkBytes, Marker
<1>4. \A n \in Nat : Marker(n) \in MarkBytes /\ Marker(n).marker = n
  BY DEF MarkBytes, Marker
<1>5. \A x \in TextBytes : x \notin MarkBytes
  BY <1>2, <1>3
<1>6. \A x \in TextBytes : ~IsMarker(x)
  BY <1>2 DEF IsMarker
<1>7. \A x \in MarkBytes : IsMarker(x)
  BY <1>1, <1>3 DEF IsMarker
<1>8. \A n, m \in Nat : Marker(n) = Marker(m) => n = m
  BY <1>4
<1> QED BY <1>1, <1>2, <1>3, <1>4, <1>5, <1>6, <1>7, <1>8

\* The kinds of values of a field, one of which a value is.
LEMMA ValueIs ==
  ASSUME NEW f \in Fields, NEW v \in Value(f)
  PROVE  /\ IsLong(f, v) <=> f \in TextFields /\ LongText(v)
         /\ v \in {Null, Default(f)} => ~IsLong(f, v)
         /\ v \notin {Null, Default(f)} => v \in Stored(f)
         /\ Default(f) # Null /\ v # Zero
         /\ f \in TextFields /\ v \in MarkBytes => v \notin {Null, Default(f)} /\ ~IsLong(f, v)
         /\ f \in TextFields /\ v \notin MarkBytes => ~IsMarker(v)
<1>1. CASE f \in IntFields
  <2>1. f \notin TextFields /\ Default(f) = 0 /\ v \in {Null} \cup Int
    BY <1>1, FieldAssumption DEF Default, Value
  <2>2. ~IsLong(f, v)
    BY <2>1 DEF IsLong
  <2>3. v # Zero /\ Default(f) # Null
    <3>1. \A x \in Int : x # Null /\ x # Zero
      BY Kinds
    <3>2. Null # Zero
      BY ValueAssumption
    <3>3. Default(f) \in Int
      BY <2>1
    <3> QED BY <2>1, <3>1, <3>2, <3>3
  <2> QED BY <1>1, <2>1, <2>2, <2>3 DEF Stored
<1>2. CASE f \notin IntFields
  <2>1. Default(f) = Text("") /\ v \in {Null} \cup TextBytes \cup MarkBytes
    BY <1>2 DEF Default, Value
  <2>2. Text("") \in TextBytes /\ Text("").text = ""
    BY ValueAssumption DEF Text, TextBytes
  <2>3. v \in TextBytes => (IsLong(f, v) <=> f \in TextFields /\ LongText(v))
    BY <2>1, Kinds DEF IsLong, LongText
  <2>4. v \in MarkBytes \/ v = Null => ~IsLong(f, v) /\ ~LongText(v)
    BY Kinds DEF IsLong, LongText
  <2>5. ~LongText(Text(""))
    BY <2>2, ValueAssumption DEF LongText
  <2>6. v \notin MarkBytes => ~IsMarker(v)
    BY <2>1, Kinds DEF IsMarker
  <2>7. v # Zero /\ Default(f) # Null
    BY <2>1, <2>2, Kinds, ValueAssumption
  <2>8. v \notin {Null, Default(f)} => v \in Stored(f)
    BY <1>2, <2>1 DEF Stored
  <2>9. (IsLong(f, v) <=> f \in TextFields /\ LongText(v)) /\ (v \in {Null, Default(f)} => ~IsLong(f, v))
    BY <2>1, <2>2, <2>3, <2>4, <2>5
  <2>10. v \in MarkBytes => v \notin {Null, Default(f)} /\ ~IsLong(f, v)
    BY <2>1, <2>2, <2>4, Kinds
  <2> QED BY <2>6, <2>7, <2>8, <2>9, <2>10
<1> QED BY <1>1, <1>2

LEMMA BytesIs ==
  ASSUME NEW f \in Fields, NEW v \in Value(f), next_overflow_text_id \in Nat
  PROVE  /\ v \in {Null, Default(f)} => Bytes(f, v) = Zero
         /\ IsLong(f, v) => Bytes(f, v) = Marker(next_overflow_text_id)
         /\ v \notin {Null, Default(f)} /\ ~IsLong(f, v) => Bytes(f, v) = v
         /\ Bytes(f, v) \in Stored(f)
<1>1. /\ v \in {Null, Default(f)} => Bytes(f, v) = Zero
      /\ IsLong(f, v) => Bytes(f, v) = Marker(next_overflow_text_id)
      /\ v \notin {Null, Default(f)} /\ ~IsLong(f, v) => Bytes(f, v) = v
  BY ValueIs DEF Bytes
<1>2. IsLong(f, v) => Marker(next_overflow_text_id) \in Stored(f)
  BY Kinds, FieldAssumption DEF Stored, IsLong
<1> QED BY <1>1, <1>2, ValueIs DEF Stored

\* A record of the table, or none is, of the values it is made of.
LEMMA RecordIs ==
  ASSUME NEW vals, NEW forced, next_overflow_text_id \in Nat, \A f \in Fields : vals[f] \in Value(f)
  PROVE  RecOK(Record(vals, forced))
<1>1. \A f \in Fields : Bytes(f, vals[f]) \in Stored(f)
  BY BytesIs
<1> QED BY <1>1 DEF Record, RecOK, Stored

LEMMA CellIs ==
  ASSUME NEW r, NEW rec, RecOK(rec), NEW f \in Fields, TextsOK(overflow_texts, next_overflow_text_id)
  PROVE  /\ Cell(r, rec, f) \in Value(f)
         /\ ForcedNull(r, f) => Cell(r, rec, f) = Null
         /\ ~ForcedNull(r, f) =>
              /\ rec[f] = Zero => Cell(r, rec, f) = IF f \in Nullable THEN Null ELSE Default(f)
              /\ f \in TextFields => \A n \in Nat : rec[f] = Marker(n) =>
                   Cell(r, rec, f) = IF n \in DOMAIN overflow_texts THEN overflow_texts[n] ELSE Marker(n)
              /\ rec[f] # Zero /\ (f \in TextFields => rec[f] \notin MarkBytes) => Cell(r, rec, f) = rec[f]
<1>1. rec[f] \in Stored(f)
  BY DEF RecOK
<1>2. Null \in Value(f) /\ Default(f) \in Value(f)
  <2>1. Text("") \in TextBytes
    BY ValueAssumption DEF Text, TextBytes
  <2>2. CASE f \in IntFields
    BY <2>2 DEF Value, Default
  <2>3. CASE f \notin IntFields
    BY <2>1, <2>3 DEF Value, Default
  <2> QED BY <2>2, <2>3
<1>0. rec[f] # Zero => rec[f] \in Value(f)
  BY <1>1 DEF Stored, Value
<1>3. CASE f \in TextFields /\ rec[f] \in MarkBytes
  <2>1. f \in TextFields /\ IsMarker(rec[f]) /\ rec[f] # Zero
    BY <1>3, Kinds
  <2>2. rec[f] = Marker(rec[f].marker) /\ rec[f].marker \in Nat
    BY <1>3, Kinds
  <2>3. \A n \in DOMAIN overflow_texts : overflow_texts[n] \in Value(f)
    BY <2>1, FieldAssumption DEF TextsOK, LongText, Value
  <2>4. \A n \in Nat : rec[f] = Marker(n) => rec[f].marker = n
    BY Kinds
  <2> QED BY <1>0, <1>2, <1>3, <2>1, <2>2, <2>3, <2>4 DEF Cell
<1>4. CASE ~(f \in TextFields /\ rec[f] \in MarkBytes)
  <2>1. f \in TextFields => ~IsMarker(rec[f])
    BY <1>1, <1>4, Kinds, FieldAssumption DEF Stored, IsMarker
  <2>3. f \in TextFields => \A n \in Nat : rec[f] # Marker(n)
    BY <1>4, Kinds
  <2> QED BY <1>0, <1>2, <2>1, <2>3 DEF Cell
<1> QED BY <1>3, <1>4

\* What make_record does to the texts and which marker the record gets.
LEMMA MakeRecordIs ==
  ASSUME NEW vals, NEW forced, \A f \in Fields : vals[f] \in Value(f), MakeRecord(vals, forced),
         TextsOK(overflow_texts, next_overflow_text_id)
  PROVE  LET T == overflow_texts   n == next_overflow_text_id
         IN  /\ TextsOK(T', n') /\ n' \in {n, n + 1}
             /\ DOMAIN T' = IF n' = n THEN DOMAIN T ELSE DOMAIN T \cup {n}
             /\ \A m \in DOMAIN T : T'[m] = T[m]
             /\ \A f \in Fields \ forced : IsLong(f, vals[f]) => n' = n + 1 /\ T'[n] = vals[f]
             /\ n' = n + 1 => Names(Record(vals, forced), n)
             /\ \A m \in Nat : Names(Record(vals, forced), m) =>
                  (m = n /\ n' = n + 1) \/ \E f \in TextFields \ forced : vals[f] = Marker(m)
<1> DEFINE long == {f \in Fields \ forced : IsLong(f, vals[f])}
           T == overflow_texts
           n == next_overflow_text_id
           rec == Record(vals, forced)
<1>1. n \in Nat \ {0} /\ n \notin DOMAIN T /\ \A m \in DOMAIN T : m \in Nat /\ m \in 1 .. n - 1 /\ LongText(T[m])
  BY DEF TextsOK
<1>2. \A f \in Fields : /\ f \in forced => rec[f] = Zero
                        /\ f \notin forced => rec[f] = Bytes(f, vals[f])
  BY DEF Record
<1>3. \A f \in TextFields : f \in Fields
  BY DEF Fields
<1>4. \A f \in long : f \in TextFields /\ f \notin forced /\ LongText(vals[f])
  BY ValueIs
<1>5. \A m \in Nat : Names(rec, m) => (m = n /\ long # {}) \/ \E f \in TextFields \ forced : vals[f] = Marker(m)
  <2> SUFFICES ASSUME NEW m \in Nat, NEW f \in TextFields, rec[f] = Marker(m)
               PROVE  (m = n /\ f \in long) \/ (f \notin forced /\ vals[f] = Marker(m))
    BY DEF Names
  <2>1. f \in Fields /\ Marker(m) # Zero
    BY <1>3, Kinds
  <2>2. f \notin forced /\ rec[f] = Bytes(f, vals[f]) /\ vals[f] \in Value(f)
    BY <1>2, <2>1
  <2>3. CASE IsLong(f, vals[f])
    <3>1. rec[f] = Marker(n)
      BY <1>1, <2>1, <2>2, <2>3, BytesIs
    <3> QED BY <1>1, <2>1, <2>2, <2>3, <3>1, Kinds
  <2>4. CASE ~IsLong(f, vals[f])
    BY <1>1, <2>1, <2>2, <2>4, BytesIs
  <2> QED BY <2>3, <2>4
<1>6. CASE long = {}
  <2>1. T' = T /\ n' = n
    BY <1>6 DEF MakeRecord
  <2> QED BY <1>1, <1>5, <1>6, <2>1 DEF TextsOK
<1>7. CASE long # {}
  <2>1. PICK f \in long : f = CHOOSE g \in long : TRUE
    BY <1>7
  <2>2. /\ T' = [m \in DOMAIN T \cup {n} |-> IF m = n THEN vals[f] ELSE T[m]]
        /\ n' = n + 1
    BY <1>7, <2>1 DEF MakeRecord
  <2>3. \A g \in long : g = f
    BY <1>4, FieldAssumption
  <2>4. LongText(vals[f])
    BY <1>4
  <2>5. TextsOK(T', n')
    BY <1>1, <2>2, <2>4 DEF TextsOK
  <2>6. Names(rec, n)
    <3>1. f \in TextFields /\ f \in Fields \ forced /\ IsLong(f, vals[f]) /\ vals[f] \in Value(f)
      BY <1>4
    <3>2. rec[f] = Marker(n)
      BY <1>1, <1>2, <3>1, BytesIs
    <3> QED BY <3>1, <3>2 DEF Names
  <2>7. /\ n' \in {n, n + 1} /\ n' # n
        /\ DOMAIN T' = DOMAIN T \cup {n}
        /\ \A m \in DOMAIN T : T'[m] = T[m]
        /\ T'[n] = vals[f]
    BY <1>1, <2>2
  <2>8. \A g \in Fields \ forced : IsLong(g, vals[g]) => n' = n + 1 /\ T'[n] = vals[g]
    BY <2>2, <2>3, <2>7
  <2> QED BY <1>5, <2>2, <2>5, <2>6, <2>7, <2>8
<1> QED BY <1>6, <1>7

\* What a record holds it goes on holding while the texts it names stay as they are.
LEMMA HoldsKept ==
  ASSUME NEW rec, NEW v, NEW F, NEW T, NEW U, NEW x, Holds(rec, v, F, T, x), ValsOK(v),
         \A n \in Nat \ x : Names(rec, n) =>
           (n \in DOMAIN T <=> n \in DOMAIN U) /\ (n \in DOMAIN T => U[n] = T[n])
  PROVE  Holds(rec, v, F, U, x)
<1> SUFFICES ASSUME NEW f \in Fields
             PROVE  /\ f \in F => v[f] = Null
                    /\ v[f] \in {Null, Default(f)} => rec[f] = Zero
                    /\ IsLong(f, v[f]) =>
                         \E n \in Nat : rec[f] = Marker(n) /\ (n \in x \/ (n \in DOMAIN U /\ U[n] = v[f]))
                    /\ v[f] \notin {Null, Default(f)} /\ ~IsLong(f, v[f]) => rec[f] = v[f]
                    /\ f \in TextFields => \A n \in Nat : v[f] = Marker(n) => n \notin DOMAIN U \/ n \in x
  BY DEF Holds
<1>1. /\ f \in F => v[f] = Null
      /\ v[f] \in {Null, Default(f)} => rec[f] = Zero
      /\ IsLong(f, v[f]) => \E n \in Nat : rec[f] = Marker(n) /\ (n \in x \/ (n \in DOMAIN T /\ T[n] = v[f]))
      /\ v[f] \notin {Null, Default(f)} /\ ~IsLong(f, v[f]) => rec[f] = v[f]
      /\ f \in TextFields => \A n \in Nat : v[f] = Marker(n) => n \notin DOMAIN T \/ n \in x
  BY DEF Holds
<1>2. v[f] \in Value(f)
  BY DEF ValsOK
<1>3. IsLong(f, v[f]) => \E n \in Nat : rec[f] = Marker(n) /\ (n \in x \/ (n \in DOMAIN U /\ U[n] = v[f]))
  <2> SUFFICES ASSUME IsLong(f, v[f])
               PROVE  \E n \in Nat : rec[f] = Marker(n) /\ (n \in x \/ (n \in DOMAIN U /\ U[n] = v[f]))
    OBVIOUS
  <2>1. PICK n \in Nat : rec[f] = Marker(n) /\ (n \in x \/ (n \in DOMAIN T /\ T[n] = v[f]))
    BY <1>1
  <2>2. Names(rec, n)
    BY <2>1 DEF Names, IsLong
  <2> QED BY <2>1, <2>2
<1>4. ASSUME f \in TextFields, NEW n \in Nat, v[f] = Marker(n)
      PROVE  n \notin DOMAIN U \/ n \in x
  <2>1. v[f] \in MarkBytes
    BY <1>4, Kinds
  <2>2. rec[f] = v[f]
    BY <1>1, <1>2, <1>4, <2>1, ValueIs
  <2>3. Names(rec, n)
    BY <1>4, <2>2 DEF Names
  <2> QED BY <1>1, <1>4, <2>3
<1> QED BY <1>1, <1>3, <1>4

\* What the record made of vals holds.
LEMMA HoldsNew ==
  ASSUME NEW vals, NEW forced, NEW v, \A f \in Fields : vals[f] \in Value(f), ValsOK(v),
         TextsOK(overflow_texts, next_overflow_text_id), MakeRecord(vals, forced),
         \A f \in Fields \cap forced : v[f] = Null,
         \A f \in Fields \ forced : v[f] = vals[f] \/ {v[f], vals[f]} \subseteq {Null, Default(f)},
         \A f \in TextFields, n \in Nat : v[f] = Marker(n) =>
           n \in stale \/ (n \notin DOMAIN overflow_texts /\ n # next_overflow_text_id)
  PROVE  Holds(Record(vals, forced), v, forced, overflow_texts', stale)
<1> DEFINE rec == Record(vals, forced)
           U == overflow_texts'
           n == next_overflow_text_id
<1>1. /\ n \in Nat
      /\ \A f \in Fields \ forced : IsLong(f, vals[f]) => n \in DOMAIN U /\ U[n] = vals[f]
      /\ \A m \in DOMAIN U : m \in DOMAIN overflow_texts \/ m = n
  <2>1. n \in Nat
    BY DEF TextsOK
  <2>2. /\ n' \in {n, n + 1}
        /\ DOMAIN U = IF n' = n THEN DOMAIN overflow_texts ELSE DOMAIN overflow_texts \cup {n}
        /\ \A f \in Fields \ forced : IsLong(f, vals[f]) => n' = n + 1 /\ U[n] = vals[f]
    BY MakeRecordIs
  <2> QED BY <2>1, <2>2
<1>2. \A f \in Fields : /\ f \in forced => rec[f] = Zero
                        /\ f \notin forced => rec[f] = Bytes(f, vals[f])
  BY DEF Record
<1> HIDE DEF rec, U, n
<1>3. SUFFICES ASSUME NEW f \in Fields
               PROVE  /\ f \in forced => v[f] = Null
                      /\ v[f] \in {Null, Default(f)} => rec[f] = Zero
                      /\ IsLong(f, v[f]) =>
                           \E m \in Nat : rec[f] = Marker(m) /\ (m \in stale \/ (m \in DOMAIN U /\ U[m] = v[f]))
                      /\ v[f] \notin {Null, Default(f)} /\ ~IsLong(f, v[f]) => rec[f] = v[f]
                      /\ f \in TextFields => \A m \in Nat : v[f] = Marker(m) => m \notin DOMAIN U \/ m \in stale
  BY DEF Holds, rec, U
<1>4. v[f] \in Value(f) /\ vals[f] \in Value(f)
  BY DEF ValsOK
<1>5. f \in TextFields => \A m \in Nat : v[f] = Marker(m) => m \notin DOMAIN U \/ m \in stale
  BY <1>1 DEF n
<1>6. CASE f \in forced
  <2>1. v[f] = Null /\ rec[f] = Zero /\ ~IsLong(f, v[f])
    BY <1>2, <1>6 DEF IsLong
  <2> QED BY <1>5, <2>1
<1>7. CASE f \notin forced /\ v[f] \in {Null, Default(f)}
  <2>1. vals[f] \in {Null, Default(f)}
    BY <1>7
  <2>2. Bytes(f, vals[f]) = Zero
    BY <2>1 DEF Bytes
  <2>3. ~IsLong(f, v[f])
    BY <1>4, <1>7, ValueIs
  <2> QED BY <1>2, <1>5, <1>7, <2>2, <2>3
<1>8. CASE f \notin forced /\ v[f] \notin {Null, Default(f)}
  <2>1. vals[f] = v[f]
    BY <1>8
  <2>2. /\ IsLong(f, v[f]) => rec[f] = Marker(n)
        /\ ~IsLong(f, v[f]) => rec[f] = v[f]
    BY <1>1, <1>2, <1>4, <1>8, <2>1, BytesIs DEF n
  <2>3. IsLong(f, v[f]) => n \in Nat /\ n \in DOMAIN U /\ U[n] = v[f]
    BY <1>1, <1>8, <2>1
  <2> QED BY <1>5, <1>8, <2>2, <2>3
<1> QED BY <1>6, <1>7, <1>8

-----------------------------------------------------------------------------
(* What a step of one thread does to the contents: it changes the thread,   *)
(* the row of one slot, and texts that are the thread's or the slot's.      *)

SameSlot(q) ==
  /\ q \in DOMAIN rows' <=> q \in DOMAIN rows
  /\ q \in DOMAIN rows => rows'[q] = rows[q] /\ given'[q] = given[q]
  /\ ForcedAt(forced_null_fields', q) = ForcedAt(forced_null_fields, q)
  /\ q \in aged' <=> q \in aged

\* Texts go only if they are of thread t or of slot r, and stay as they are otherwise; a
\* new one has the next number.
TextsMove(t, r) ==
  LET T == overflow_texts   n == next_overflow_text_id
  IN  /\ TextsOK(T', n') /\ n' \in {n, n + 1} /\ stale' = stale
      /\ \A m \in DOMAIN T' : m \in DOMAIN T \/ (m = n /\ n' = n + 1)
      /\ \A m \in DOMAIN T \cap DOMAIN T' : T'[m] = T[m]
      /\ \A m \in DOMAIN T \ DOMAIN T' : Pends(th[t], m) \/ (r \in Rids /\ InSlot(r, m))

\* The markers of the thread and of the slot were there before: in the slot, or in the
\* record the thread had pending and puts into the slot.
MarkersMove(t, s, r) ==
  /\ \A q \in Rids, n \in Nat : (q = r /\ RowNames(rows', q, n)) \/ SlotNames(s, q, n) =>
       InSlot(q, n) \/ (q = r /\ Pends(th[t], n) /\ ~Pends(s, n))
  /\ \A n \in Nat : Pends(s, n) =>
       \/ Pends(th[t], n) \/ n \in stale \/ (Known(n) /\ n \notin DOMAIN overflow_texts)
       \/ n = next_overflow_text_id /\ next_overflow_text_id' = next_overflow_text_id + 1

\* What was kept for the thread or the slot is kept for them still.
NoneLost(t, s, r) ==
  suspect' = {} => \A n \in DOMAIN overflow_texts' :
    n \notin DOMAIN overflow_texts \/ RowNames(rows, r, n) \/ Pends(th[t], n) \/ Clears(th[t], n) =>
      RowNames(rows', r, n) \/ Pends(s, n) \/ Clears(s, n)

LEMMA OneThread ==
  ASSUME IInv, NEW t \in Threads, NEW s, th' = [th EXCEPT ![t] = s]
  PROVE  th'[t] = s /\ \A u \in Threads \ {t} : th'[u] = th[u]
BY DEF IInv, TypeInv

LEMMA MarkStep ==
  ASSUME IInv, HoldInv, MarkInv, SoleInv, NEW t \in Threads, NEW s, NEW r,
         th' = [th EXCEPT ![t] = s], TextsMove(t, r), MarkersMove(t, s, r),
         \A q \in Rids \ {r} : SameSlot(q)
  PROVE  MarkInv' /\ SoleInv'
<1> DEFINE T == overflow_texts
           m == next_overflow_text_id
<1>0. th'[t] = s /\ \A u \in Threads \ {t} : th'[u] = th[u]
  BY OneThread
<1>1. /\ m \in Nat \ {0} /\ \A n \in DOMAIN T : n \in Nat /\ n \in 1 .. m - 1
      /\ m' \in {m, m + 1} /\ stale' = stale
      /\ \A n \in DOMAIN T' : n \in Nat /\ (n \in DOMAIN T \/ (n = m /\ m' = m + 1))
  BY DEF HoldInv, TextsOK, TextsMove
<1>2. \A q \in Rids, n \in Nat : InSlot(q, n)' =>
        InSlot(q, n) \/ (q = r /\ Pends(th[t], n) /\ ~Pends(s, n))
  <2> SUFFICES ASSUME NEW q \in Rids, NEW n \in Nat, InSlot(q, n)'
               PROVE  InSlot(q, n) \/ (q = r /\ Pends(th[t], n) /\ ~Pends(s, n))
    OBVIOUS
  <2>1. RowNames(rows', q, n) \/ \E u \in Threads : SlotNames(th'[u], q, n)
    BY DEF InSlot
  <2>2. CASE RowNames(rows', q, n) /\ q # r
    <3>1. RowNames(rows, q, n)
      BY <2>2 DEF SameSlot, RowNames
    <3> QED BY <3>1 DEF InSlot
  <2>3. CASE RowNames(rows', q, n) /\ q = r
    BY <2>3 DEF MarkersMove
  <2>4. CASE \E u \in Threads : SlotNames(th'[u], q, n)
    <3>1. PICK u \in Threads : SlotNames(th'[u], q, n)
      BY <2>4
    <3>2. CASE u = t
      BY <1>0, <3>1, <3>2 DEF MarkersMove
    <3>3. CASE u # t
      <4>1. SlotNames(th[u], q, n)
        BY <1>0, <3>1, <3>3
      <4> QED BY <4>1 DEF InSlot
    <3> QED BY <3>2, <3>3
  <2> QED BY <2>1, <2>2, <2>3, <2>4
<1>3. \A n \in Nat : Pends(s, n) =>
        \/ Pends(th[t], n) \/ n \in stale \/ (Known(n) /\ n \notin DOMAIN T)
        \/ n = m /\ m' = m + 1
  BY DEF MarkersMove
<1>9. PICK x, y \in Nat \ {0} : x = m /\ y = m' /\ y \in {x, x + 1}
  BY <1>1
<1>10. \A n : /\ Known(n) <=> n \in stale \/ n \in 1 .. x - 1
              /\ Known(n)' <=> n \in stale \/ n \in 1 .. y - 1
  BY <1>1, <1>9 DEF Known
<1>4. \A n \in Nat : Known(n) => Known(n)'
  BY <1>9, <1>10
<1>5. \A n \in Nat : n = m /\ m' = m + 1 => Known(n)'
  BY <1>9, <1>10
<1>6. ~Known(m) \/ m \in stale
  BY <1>1 DEF Known
<1> HIDE DEF T, m
<1>7. MarkInv'
  <2>1. \A q \in Rids, n \in Nat : InSlot(q, n)' => Known(n)'
    BY <1>2, <1>4 DEF MarkInv
  <2>2. \A u \in Threads, n \in Nat : Pends(th'[u], n) => Known(n)'
    <3> SUFFICES ASSUME NEW u \in Threads, NEW n \in Nat, Pends(th'[u], n)
                 PROVE  Known(n)'
      OBVIOUS
    <3>1. CASE u # t
      BY <1>0, <1>4, <3>1 DEF MarkInv
    <3>2. CASE u = t
      <4>1. Pends(s, n)
        BY <1>0, <3>2
      <4>2. n \in stale => Known(n)
        BY DEF Known
      <4> QED BY <1>3, <1>4, <1>5, <4>1, <4>2 DEF MarkInv
    <3> QED BY <3>1, <3>2
  <2> QED BY <2>1, <2>2 DEF MarkInv
<1>8. SoleInv'
  <2> SUFFICES ASSUME NEW n \in DOMAIN T', n \notin stale
               PROVE  /\ \A a, b \in Rids : InSlot(a, n)' /\ InSlot(b, n)' => a = b
                      /\ \A u \in Threads : Pends(th'[u], n) => \A a \in Rids : ~InSlot(a, n)'
                      /\ \A u, v \in Threads : Pends(th'[u], n) /\ Pends(th'[v], n) => u = v
    BY <1>1 DEF SoleInv, T
  <2>0. n \in Nat
    BY <1>1
  <2>1. CASE n \notin DOMAIN T
    <3>1. n = m /\ ~Known(n)
      BY <1>1, <1>6, <2>1
    <3>2. \A a \in Rids : ~InSlot(a, n)
      BY <2>0, <3>1 DEF MarkInv
    <3>3. \A u \in Threads : ~Pends(th[u], n)
      BY <2>0, <3>1 DEF MarkInv
    <3>4. \A a \in Rids : ~InSlot(a, n)'
      BY <1>2, <2>0, <3>2, <3>3
    <3>5. \A u \in Threads : Pends(th'[u], n) => u = t
      BY <1>0, <3>3
    <3> QED BY <3>4, <3>5
  <2>2. CASE n \in DOMAIN T
    <3>1. /\ \A a, b \in Rids : InSlot(a, n) /\ InSlot(b, n) => a = b
          /\ \A u \in Threads : Pends(th[u], n) => \A a \in Rids : ~InSlot(a, n)
          /\ \A u, v \in Threads : Pends(th[u], n) /\ Pends(th[v], n) => u = v
      BY <2>2 DEF SoleInv, T
    <3>2. n # m
      BY <1>1, <2>2
    <3>3. Pends(s, n) => Pends(th[t], n)
      BY <1>3, <2>0, <2>2, <3>2
    <3>4. \A u \in Threads : Pends(th'[u], n) => Pends(th[u], n) /\ (u = t => Pends(s, n))
      BY <1>0, <3>3
    <3>5. \A a \in Rids : InSlot(a, n)' => InSlot(a, n) \/ (a = r /\ Pends(th[t], n) /\ ~Pends(s, n))
      BY <1>2, <2>0
    <3>6. \A a, b \in Rids : InSlot(a, n)' /\ InSlot(b, n)' => a = b
      BY <3>1, <3>5
    <3>7. \A u \in Threads : Pends(th'[u], n) => \A a \in Rids : ~InSlot(a, n)'
      BY <3>1, <3>4, <3>5
    <3> QED BY <3>1, <3>4, <3>6, <3>7
  <2> QED BY <2>1, <2>2
<1> QED BY <1>7, <1>8

\* The texts that others name stay as they are.
LEMMA OthersKept ==
  ASSUME IInv, HoldInv, MarkInv, SoleInv, NEW t \in Threads, NEW r, TextsMove(t, r),
         NEW n \in Nat \ stale,
         \/ \E u \in Threads \ {t} : Pends(th[u], n)
         \/ \E q \in Rids \ {r} : InSlot(q, n)
  PROVE  /\ n \in DOMAIN overflow_texts <=> n \in DOMAIN overflow_texts'
         /\ n \in DOMAIN overflow_texts => overflow_texts'[n] = overflow_texts[n]
<1>1. Known(n)
  BY DEF MarkInv
<1>2. n # next_overflow_text_id
  BY <1>1 DEF Known, HoldInv, TextsOK
<1>3. n \in DOMAIN overflow_texts => ~Pends(th[t], n) /\ ~(r \in Rids /\ InSlot(r, n))
  BY DEF SoleInv
<1> QED BY <1>2, <1>3 DEF TextsMove

LEMMA ContentStep ==
  ASSUME IInv, IInv', ContentInv, NEW t \in Threads, NEW s, NEW r \in Rids \cup {None},
         th' = [th EXCEPT ![t] = s], th[t].rid \in {r, None}, s.rid \in {r, None}, HeldOK(s),
         \A i \in 1 .. Len(indexes') : MetaOK(indexes'[i]),
         suspect \subseteq suspect', TextsMove(t, r), MarkersMove(t, s, r), NoneLost(t, s, r),
         \A q \in Rids \ {r} : SameSlot(q),
         r \in DOMAIN rows' => RecOK(rows'[r]) /\ ValsOK(given'[r]),
         PendRight(s, overflow_texts', stale),
         r \in Rids \ suspect' => SlotRight(r)'
  PROVE  ContentInv'
<1>0. /\ HoldInv /\ MarkInv /\ SoleInv /\ LeakInv /\ ValueInv /\ TypeInv /\ TypeInv'
      /\ stale' = stale /\ None \notin Rids
  BY RidAssumption DEF ContentInv, IInv, TextsMove
<1>1. th'[t] = s /\ \A u \in Threads \ {t} : th'[u] = th[u]
  BY OneThread
<1>2. HoldInv'
  <2>1. TextsOK(overflow_texts, next_overflow_text_id)'
    BY DEF TextsMove
  <2>2. \A q \in DOMAIN rows' : RecOK(rows'[q]) /\ ValsOK(given'[q])
    <3> SUFFICES ASSUME NEW q \in DOMAIN rows', q # r
                 PROVE  RecOK(rows'[q]) /\ ValsOK(given'[q])
      OBVIOUS
    <3>1. q \in Rids \ {r}
      BY <1>0 DEF TypeInv
    <3>2. SameSlot(q)
      BY <3>1
    <3> QED BY <1>0, <3>2 DEF SameSlot, HoldInv
  <2>3. \A u \in Threads : HeldOK(th'[u])
    BY <1>0, <1>1 DEF HoldInv
  <2> QED BY <2>1, <2>2, <2>3 DEF HoldInv, RecOK, ValsOK, HeldOK, MetaOK
<1>3. MarkInv' /\ SoleInv'
  BY <1>0, MarkStep
<1>4. LeakInv'
  <2> SUFFICES ASSUME suspect' = {}, NEW n \in DOMAIN overflow_texts'
               PROVE  \/ \E q \in DOMAIN rows' : Names(rows'[q], n)
                      \/ \E u \in Threads : Pends(th'[u], n) \/ Clears(th'[u], n)
    BY DEF LeakInv
  <2>1. CASE RowNames(rows', r, n) \/ Pends(s, n) \/ Clears(s, n)
    BY <1>1, <2>1 DEF RowNames
  <2>2. CASE ~(RowNames(rows', r, n) \/ Pends(s, n) \/ Clears(s, n))
    <3>1. /\ n \in DOMAIN overflow_texts /\ ~RowNames(rows, r, n)
          /\ ~Pends(th[t], n) /\ ~Clears(th[t], n)
      BY <2>2 DEF NoneLost
    <3>2. suspect = {}
      OBVIOUS
    <3>3. \/ \E q \in DOMAIN rows : Names(rows[q], n)
          \/ \E u \in Threads : Pends(th[u], n) \/ Clears(th[u], n)
      BY <1>0, <3>1, <3>2 DEF LeakInv
    <3>4. CASE \E q \in DOMAIN rows : Names(rows[q], n)
      <4>1. PICK q \in DOMAIN rows : Names(rows[q], n)
        BY <3>4
      <4>2. q # r /\ q \in Rids
        BY <1>0, <3>1, <4>1 DEF RowNames, TypeInv
      <4>3. SameSlot(q)
        BY <4>2
      <4> QED BY <4>1, <4>3 DEF SameSlot
    <3>5. CASE \E u \in Threads : Pends(th[u], n) \/ Clears(th[u], n)
      <4>1. PICK u \in Threads : Pends(th[u], n) \/ Clears(th[u], n)
        BY <3>5
      <4>2. u # t
        BY <3>1, <4>1
      <4> QED BY <1>1, <4>1, <4>2
    <3> QED BY <3>3, <3>4, <3>5
  <2> QED BY <2>1, <2>2
<1>5. \A u \in Threads : PendRight(th'[u], overflow_texts', stale')
  <2> SUFFICES ASSUME NEW u \in Threads, u # t
               PROVE  PendRight(th'[u], overflow_texts', stale')
    BY <1>0, <1>1
  <2>1. PICK s2 : s2 = th[u] /\ s2 = th'[u]
    BY <1>1
  <2>2. PendRight(s2, overflow_texts, stale) /\ HeldOK(s2)
    BY <1>0, <2>1 DEF ValueInv, HoldInv
  <2>3. \A n \in Nat \ stale : Pends(s2, n) =>
          /\ n \in DOMAIN overflow_texts <=> n \in DOMAIN overflow_texts'
          /\ n \in DOMAIN overflow_texts => overflow_texts'[n] = overflow_texts[n]
    BY <1>0, <2>1, OthersKept
  <2>4. s2.pc = "check" => Holds(s2.data, s2.vals, s2.forced, overflow_texts', stale)
    <3> HAVE s2.pc = "check"
    <3>1. Holds(s2.data, s2.vals, s2.forced, overflow_texts, stale) /\ ValsOK(s2.vals)
      BY <2>2 DEF PendRight, HeldOK
    <3>2. \A n \in Nat : Names(s2.data, n) => Pends(s2, n)
      BY DEF Pends
    <3> QED BY <2>3, <3>1, <3>2, HoldsKept
  <2>5. Replaces(s2) => Holds(s2.new, s2.vals, s2.forced, overflow_texts', stale)
    <3> HAVE Replaces(s2)
    <3>1. Holds(s2.new, s2.vals, s2.forced, overflow_texts, stale) /\ ValsOK(s2.vals)
      BY <2>2 DEF PendRight, HeldOK
    <3>2. \A n \in Nat : Names(s2.new, n) => Pends(s2, n)
      BY DEF Pends
    <3> QED BY <2>3, <3>1, <3>2, HoldsKept
  <2> QED BY <1>0, <2>1, <2>2, <2>4, <2>5 DEF PendRight
<1>6. \A q \in Rids \ suspect' : SlotRight(q)'
  <2> SUFFICES ASSUME NEW q \in Rids \ suspect', q # r
               PROVE  SlotRight(q)'
    OBVIOUS
  <2>1. SlotRight(q) /\ SameSlot(q)
    BY <1>0 DEF ValueInv
  <2>2. \A u \in Threads : /\ Filler(th'[u], q) <=> Filler(th[u], q)
                           /\ Filler(th[u], q) => th'[u] = th[u]
                           /\ th'[u].pc = "clear" /\ th'[u].rid = q => th[u].pc = "clear" /\ th[u].rid = q
    <3>1. th[t].rid # q /\ s.rid # q
      BY <1>0
    <3> QED BY <1>1, <3>1 DEF Filler
  <2>3. \A F : RowRight(q, rows, given, F, overflow_texts, stale, aged) =>
                 RowRight(q, rows', given', F, overflow_texts', stale', aged')
    <3> SUFFICES ASSUME NEW F, RowRight(q, rows, given, F, overflow_texts, stale, aged), q \in DOMAIN rows'
                 PROVE  Holds(rows'[q], given'[q], F, overflow_texts', stale')
                        /\ (q \in aged' \/ Accepted(given'[q], F))
      BY DEF RowRight
    <3>1. /\ q \in DOMAIN rows /\ rows'[q] = rows[q] /\ given'[q] = given[q] /\ (q \in aged' <=> q \in aged)
      BY <2>1 DEF SameSlot
    <3>2. Holds(rows[q], given[q], F, overflow_texts, stale) /\ (q \in aged \/ Accepted(given[q], F))
      BY <3>1 DEF RowRight
    <3>3. \A n \in Nat : Names(rows[q], n) => InSlot(q, n)
      BY <3>1 DEF InSlot, RowNames
    <3>4. \A n \in Nat \ stale : Names(rows[q], n) =>
            /\ n \in DOMAIN overflow_texts <=> n \in DOMAIN overflow_texts'
            /\ n \in DOMAIN overflow_texts => overflow_texts'[n] = overflow_texts[n]
      BY <1>0, <3>3, OthersKept
    <3>5. ValsOK(given[q])
      BY <1>0, <3>1 DEF HoldInv
    <3>6. Holds(rows[q], given[q], F, overflow_texts', stale)
      BY <3>2, <3>4, <3>5, HoldsKept
    <3> QED BY <1>0, <3>1, <3>2, <3>6
  <2>4. ForcedAt(forced_null_fields', q) = ForcedAt(forced_null_fields, q)
    BY <2>1 DEF SameSlot
  <2>5. (\A u \in Threads : ~Filler(th'[u], q)) =>
          RowRight(q, rows', given', ForcedAt(forced_null_fields', q), overflow_texts', stale', aged')
    <3> HAVE \A u \in Threads : ~Filler(th'[u], q)
    <3>1. RowRight(q, rows, given, ForcedAt(forced_null_fields, q), overflow_texts, stale, aged)
      BY <2>1, <2>2 DEF SlotRight
    <3> QED BY <2>3, <2>4, <3>1
  <2>6. \A u \in Threads : Filler(th'[u], q) =>
          RowRight(q, rows', given', th'[u].forced, overflow_texts', stale', aged')
    <3> SUFFICES ASSUME NEW u \in Threads, Filler(th'[u], q)
                 PROVE  RowRight(q, rows', given', th'[u].forced, overflow_texts', stale', aged')
      OBVIOUS
    <3>1. RowRight(q, rows, given, th[u].forced, overflow_texts, stale, aged) /\ th'[u] = th[u]
      BY <2>1, <2>2 DEF SlotRight
    <3> QED BY <2>3, <3>1
  <2>7. \A u \in Threads : th'[u].pc = "clear" /\ th'[u].rid = q => q \notin DOMAIN rows'
    BY <2>1, <2>2 DEF SlotRight, SameSlot
  <2> QED BY <2>5, <2>6, <2>7 DEF SlotRight, RowRight
<1>7. ValueInv'
  BY <1>5, <1>6 DEF ValueInv, PendRight
<1> QED BY <1>2, <1>3, <1>4, <1>7 DEF ContentInv

LEMMA TextsStay ==
  ASSUME HoldInv, UNCHANGED <<overflow_texts, next_overflow_text_id, stale>>
  PROVE  \A t, r : TextsMove(t, r)
BY DEF TextsMove, HoldInv, TextsOK

LEMMA SlotStays ==
  ASSUME UNCHANGED <<rows, given, forced_null_fields, aged>>
  PROVE  \A q : SameSlot(q)
BY DEF SameSlot

\* erase_overflow_texts: the texts the record names go.
LEMMA EraseIs ==
  ASSUME HoldInv, NEW rec, EraseTexts(rec), UNCHANGED <<next_overflow_text_id, stale>>
  PROVE  /\ \A n : n \in DOMAIN overflow_texts' <=> n \in DOMAIN overflow_texts /\ ~Names(rec, n)
         /\ \A n \in DOMAIN overflow_texts' : overflow_texts'[n] = overflow_texts[n]
         /\ \A t, r : (\A n \in Nat : Names(rec, n) => Pends(th[t], n) \/ (r \in Rids /\ InSlot(r, n))) =>
              TextsMove(t, r)
<1>1. PICK T, U, gone : /\ T = overflow_texts /\ U = overflow_texts'
                        /\ gone = {k \in DOMAIN T : \E f \in TextFields : rec[f] = Marker(k)}
  OBVIOUS
<1>2. U = [n \in DOMAIN T \ gone |-> T[n]]
  BY <1>1 DEF EraseTexts
<1>3. \A n : n \in gone <=> n \in DOMAIN T /\ Names(rec, n)
  BY <1>1 DEF Names
<1>4. \A n : n \in DOMAIN U <=> n \in DOMAIN T /\ ~Names(rec, n)
  BY <1>2, <1>3
<1>5. \A n \in DOMAIN U : U[n] = T[n]
  BY <1>2
<1>6. TextsOK(T, next_overflow_text_id) /\ TextsOK(U, next_overflow_text_id)
  BY <1>1, <1>4, <1>5 DEF HoldInv, TextsOK
<1>7. \A n \in DOMAIN T : n \in Nat
  BY <1>6 DEF TextsOK
<1> QED BY <1>1, <1>4, <1>5, <1>6, <1>7 DEF TextsMove

\* A thread that goes on, with the records it had and the slot it had.
Goes(t, s, r) ==
  /\ \A q \in Rids, n \in Nat : SlotNames(s, q, n) => InSlot(q, n)
  /\ \A n \in Nat : Pends(s, n) => Pends(th[t], n)
  /\ suspect' = {} => \A n \in Nat : Pends(th[t], n) \/ Clears(th[t], n) => Pends(s, n) \/ Clears(s, n)
  /\ PendRight(s, overflow_texts, stale)
  /\ r \in Rids \ suspect' => /\ Filler(s, r) <=> Filler(th[t], r)
                              /\ Filler(s, r) => s.forced = th[t].forced
                              /\ s.pc # "clear"

LEMMA ContentGoes ==
  ASSUME IInv, IInv', ContentInv, NEW t \in Threads, NEW s, NEW r \in Rids \cup {None},
         th' = [th EXCEPT ![t] = s], th[t].rid \in {r, None}, s.rid \in {r, None}, HeldOK(s),
         \A i \in 1 .. Len(indexes') : MetaOK(indexes'[i]), suspect \subseteq suspect',
         UNCHANGED <<rows, given, memory, stale, aged>>, Goes(t, s, r)
  PROVE  ContentInv'
<1>0. HoldInv /\ ValueInv /\ \A n \in DOMAIN overflow_texts : n \in Nat
  BY DEF ContentInv, HoldInv, TextsOK
<1>1. th'[t] = s /\ \A u \in Threads \ {t} : th'[u] = th[u]
  BY OneThread
<1>2. TextsMove(t, r)
  BY <1>0, TextsStay DEF memory
<1>3. \A q \in Rids \ {r} : SameSlot(q)
  BY SlotStays DEF memory
<1>4. MarkersMove(t, s, r)
  <2>1. \A q \in Rids, n \in Nat : RowNames(rows', q, n) => InSlot(q, n)
    BY DEF InSlot
  <2> QED BY <2>1 DEF MarkersMove, Goes
<1>5. NoneLost(t, s, r)
  BY <1>0 DEF NoneLost, Goes, memory
<1>6. r \in DOMAIN rows' => RecOK(rows'[r]) /\ ValsOK(given'[r])
  BY <1>0 DEF HoldInv
<1>7. r \in Rids \ suspect' => SlotRight(r)'
  <2> SUFFICES ASSUME r \in Rids \ suspect'
               PROVE  SlotRight(r)'
    OBVIOUS
  <2>1. SlotRight(r)
    BY <1>0 DEF ValueInv
  <2>2. \A u \in Threads : /\ Filler(th'[u], r) <=> Filler(th[u], r)
                           /\ Filler(th[u], r) => th'[u].forced = th[u].forced
                           /\ th'[u].pc = "clear" /\ th'[u].rid = r => th[u].pc = "clear" /\ th[u].rid = r
    BY <1>1 DEF Goes
  <2> QED BY <2>1, <2>2 DEF SlotRight, RowRight, memory
<1>8. PendRight(s, overflow_texts', stale)
  BY DEF Goes, memory
<1> QED BY <1>2, <1>3, <1>4, <1>5, <1>6, <1>7, <1>8, ContentStep

\* The indexes keep their fields.
LEMMA MetasKept ==
  ASSUME HoldInv, Len(indexes') = Len(indexes), \A i \in 1 .. Len(indexes) : indexes'[i].fields = indexes[i].fields
  PROVE  \A i \in 1 .. Len(indexes') : MetaOK(indexes'[i])
BY DEF HoldInv, MetaOK

LEMMA IdleHolds ==
  /\ HeldOK(Idle) /\ Idle.rid = None
  /\ \A r, n : ~SlotNames(Idle, r, n) /\ ~Pends(Idle, n) /\ ~Clears(Idle, n)
  /\ \A T, x : PendRight(Idle, T, x)
  /\ \A r \in Rids : ~Filler(Idle, r)
BY RidAssumption DEF Idle, HeldOK, SlotNames, Pends, Clears, PendRight, Filler, Copies, Replaces, Working, Fills

\* A thread between its rows has copies only.
LEMMA NextHolds ==
  ASSUME NEW s, s.pc = "next", s.rid = None
  PROVE  /\ \A n : ~Pends(s, n) /\ ~Clears(s, n)
         /\ \A r, n : SlotNames(s, r, n) <=> Copies(s) /\ r \in DOMAIN s.rest /\ Names(s.rest[r], n)
         /\ \A T, x : PendRight(s, T, x)
         /\ \A r \in Rids : ~Filler(s, r)
BY RidAssumption DEF SlotNames, Pends, Clears, PendRight, Filler, Replaces, Working, Fills

LEMMA BeginContents ==
  ASSUME IInv, IInv', ContentInv, NEW t \in Threads,
         \/ \E tuples \in Tuples : Insert(t, tuples)
         \/ \E r \in DOMAIN rows : Delete(t, r)
         \/ \E S \in SUBSET DOMAIN rows, f \in Fields : \E v \in Values(f) : Update(t, S, f, v)
  PROVE  ContentInv'
<1>0. /\ ThreadOK(th[t], files) /\ DOMAIN rows \subseteq Rids /\ th = [u \in Threads |-> th[u]]
      /\ HoldInv /\ ValueInv /\ \A i \in 1 .. Len(indexes) : MetaOK(indexes[i])
  BY DEF IInv, TypeInv, ContentInv, HoldInv
<1>1. /\ th[t].pc = "idle"
      /\ UNCHANGED <<rows, given, memory, stale, aged, indexes, suspect>>
  BY DEF Insert, Delete, Update, Begin, history
<1>2. th[t].rid = None
  BY <1>0, <1>1 DEF ThreadOK, Working
<1>3. \A n : ~Pends(th[t], n) /\ ~Clears(th[t], n)
  BY <1>1 DEF Pends, Clears, Replaces
<1>4. ASSUME NEW s, th' = [th EXCEPT ![t] = s], HeldOK(s), s.pc = "next", s.rid = None,
             Copies(s) => \E S : S \subseteq DOMAIN rows /\ s.rest = Collected(S)
      PROVE  ContentInv'
  <2>1. \A q \in Rids, n \in Nat : SlotNames(s, q, n) => InSlot(q, n)
    <3> SUFFICES ASSUME NEW q \in Rids, NEW n \in Nat, SlotNames(s, q, n)
                 PROVE  InSlot(q, n)
      OBVIOUS
    <3>1. Copies(s) /\ q \in DOMAIN s.rest /\ Names(s.rest[q], n)
      BY <1>4, NextHolds
    <3>2. q \in DOMAIN rows /\ s.rest[q] = rows[q]
      BY <1>4, <3>1 DEF Collected
    <3> QED BY <3>1, <3>2 DEF InSlot, RowNames
  <2>2. Goes(t, s, None)
    BY <1>3, <1>4, <2>1, NextHolds, RidAssumption DEF Goes
  <2> QED BY <1>0, <1>1, <1>2, <1>4, <2>2, ContentGoes
<1>5. ASSUME NEW tuples \in Tuples, Insert(t, tuples)
      PROVE  ContentInv'
  <2>1. PICK s : s = [Idle EXCEPT !.pc = "next", !.op = "insert", !.rest = tuples]
    OBVIOUS
  <2>2. s.pc = "next" /\ s.op = "insert" /\ s.rest = tuples /\ s.rid = None
    BY <2>1 DEF Idle
  <2>3. \E S : tuples \in Seq(S) /\ \A x \in S : IsTuple(x)
    <3>1. PICK S : S = {tuples[i] : i \in DOMAIN tuples}
      OBVIOUS
    <3>2. tuples \in Seq(S)
      BY <3>1, TupleAssumption
    <3>3. \A x \in S : IsTuple(x)
      BY <3>1, TupleAssumption
    <3> QED BY <3>2, <3>3
  <2>4. HeldOK(s) /\ ~Copies(s)
    BY <2>2, <2>3 DEF HeldOK, Copies, Replaces, Working, Fills
  <2>5. th' = [th EXCEPT ![t] = s]
    BY <1>5, <2>1 DEF Insert, Set
  <2> QED BY <1>4, <2>2, <2>4, <2>5
<1>6. ASSUME NEW r \in DOMAIN rows, Delete(t, r)
      PROVE  ContentInv'
  <2>1. PICK s : s = [Idle EXCEPT !.pc = "next", !.op = "delete", !.rest = Collected({r})]
    OBVIOUS
  <2>2. s.pc = "next" /\ s.op = "delete" /\ s.rest = Collected({r}) /\ s.rid = None
    BY <2>1 DEF Idle
  <2>3. \A q \in DOMAIN s.rest : RecOK(s.rest[q])
    BY <1>0, <2>2 DEF Collected, HoldInv
  <2>4. HeldOK(s)
    BY <2>2, <2>3 DEF HeldOK, Copies, Replaces, Working, Fills
  <2>5. th' = [th EXCEPT ![t] = s]
    BY <1>6, <2>1 DEF Delete, Set
  <2> QED BY <1>4, <2>2, <2>4, <2>5
<1>7. ASSUME NEW S \in SUBSET DOMAIN rows, NEW f \in Fields, NEW v \in Values(f), Update(t, S, f, v)
      PROVE  ContentInv'
  <2>1. PICK w, s : w = Kept(f, v) /\ s = [Idle EXCEPT !.pc = "next", !.op = "update", !.rest = Collected(S),
                                                       !.set = [field |-> f, value |-> w]]
    OBVIOUS
  <2>2. CASE UNCHANGED th
    <3>1. th' = [th EXCEPT ![t] = th[t]] /\ HeldOK(th[t])
      BY <1>0, <2>2 DEF HoldInv
    <3>2. Goes(t, th[t], None)
      <4>1. \A q \in Rids, n \in Nat : SlotNames(th[t], q, n) => InSlot(q, n)
        BY DEF InSlot
      <4>2. PendRight(th[t], overflow_texts, stale)
        BY <1>0 DEF ValueInv
      <4> QED BY <4>1, <4>2, RidAssumption DEF Goes
    <3> QED BY <1>0, <1>1, <1>2, <3>1, <3>2, ContentGoes
  <2>3. CASE ~UNCHANGED th
    <3>1. th' = [th EXCEPT ![t] = s] /\ (v = Null => f \in Nullable)
      BY <1>7, <2>1, <2>3 DEF Update, Set
    <3>2. /\ s.pc = "next" /\ s.op = "update" /\ s.rest = Collected(S) /\ s.rid = None
          /\ s.set.field = f /\ s.set.value = w
      BY <2>1 DEF Idle
    <3>3. \A q \in DOMAIN s.rest : RecOK(s.rest[q])
      BY <1>0, <3>2 DEF Collected, HoldInv
    <3>4. w \in Domain(f) /\ (w = Null => v = Null)
      <4>1. Ints \subseteq Int /\ Texts \subseteq STRING
        BY ValueAssumption
      <4>2. CASE v \in DOMAIN Inexact[f]
        BY <2>1, <4>2, InexactAssumption DEF Kept
      <4>3. CASE v \notin DOMAIN Inexact[f]
        <5>1. w = v /\ v \in {Null} \cup (IF f \in IntFields THEN Ints ELSE {Text(x) : x \in Texts})
          BY <2>1, <4>3 DEF Kept, Values
        <5>2. CASE f \in IntFields
          BY <4>1, <5>1, <5>2 DEF Domain
        <5>3. CASE f \notin IntFields
          <6>1. w = Null \/ \E x \in Texts : w = [text |-> x]
            BY <5>1, <5>3 DEF Text
          <6>2. Domain(f) = {Null} \cup [text : STRING]
            BY <5>3 DEF Domain
          <6>3. w = Null \/ w \in [text : STRING]
            BY <4>1, <6>1
          <6> QED BY <5>1, <6>2, <6>3
        <5> QED BY <5>2, <5>3
      <4> QED BY <4>2, <4>3
    <3>5. HeldOK(s)
      BY <3>1, <3>2, <3>3, <3>4 DEF HeldOK, Copies, Replaces, Working, Fills
    <3> QED BY <1>4, <3>1, <3>2, <3>5
  <2> QED BY <2>2, <2>3
<1> QED BY <1>5, <1>6, <1>7

LEMMA InsertNextContents ==
  ASSUME IInv, IInv', ContentInv, NEW t \in Threads, InsertNext(t)
  PROVE  ContentInv'
<1> DEFINE tuple == Head(th[t].rest)
           n0 == next_overflow_text_id
<1>0. /\ ThreadOK(th[t], files) /\ th[t].rid = None /\ th[t].pc = "next" /\ th[t].op = "insert"
      /\ HoldInv /\ HeldOK(th[t])
  BY ThreadType DEF InsertNext, ThreadOK, Working, ContentInv, HoldInv
<1>1. PICK kept, row, rest :
        /\ kept = [f \in Fields |-> Kept(f, tuple.vals[f])]
        /\ row = [vals |-> kept, forced |-> tuple.forced] /\ rest = Tail(th[t].rest)
        /\ \A f \in Fields : kept[f] \in Domain(f)
        /\ \E S : rest \in Seq(S) /\ \A x \in S : IsTuple(x)
  <2>1. PICK S : th[t].rest \in Seq(S) /\ \A x \in S : IsTuple(x)
    BY <1>0 DEF HeldOK
  <2>2. th[t].rest # <<>>
    BY DEF InsertNext
  <2>3. tuple \in S /\ Tail(th[t].rest) \in Seq(S)
    BY <2>1, <2>2
  <2>4. \A f \in Fields : Kept(f, tuple.vals[f]) \in Domain(f)
    BY <2>1, <2>3 DEF IsTuple
  <2>5. PICK kept, row, rest : /\ kept = [f \in Fields |-> Kept(f, tuple.vals[f])]
                               /\ row = [vals |-> kept, forced |-> tuple.forced] /\ rest = Tail(th[t].rest)
    OBVIOUS
  <2>6. \A f \in Fields : kept[f] \in Domain(f)
    BY <2>4, <2>5
  <2>7. \E Z : rest \in Seq(Z) /\ \A x \in Z : IsTuple(x)
    BY <2>1, <2>3, <2>5
  <2> QED BY <2>5, <2>6, <2>7
<1>9. /\ row.vals = kept /\ row.forced = tuple.forced
      /\ IF Accepts(row.vals, row.forced)
         THEN /\ MakeRecord(row.vals, row.forced)
              /\ Set(t, [th[t] EXCEPT !.pc = "check", !.rest = rest, !.i = 1,
                                      !.data = Record(row.vals, row.forced),
                                      !.vals = [f \in Fields |-> IF f \in row.forced THEN Null ELSE row.vals[f]],
                                      !.forced = row.forced])
         ELSE Done(t) /\ UNCHANGED <<overflow_texts, next_overflow_text_id>>
  <2>1. row.vals = kept /\ row.forced = tuple.forced
    BY <1>1
  <2> QED BY <1>1, <2>1 DEF InsertNext
<1>2. /\ UNCHANGED <<rows, given, indexes, forced_null_fields, aged, stale, suspect>>
      /\ \A i \in 1 .. Len(indexes') : MetaOK(indexes'[i])
  BY <1>0 DEF InsertNext, HoldInv
<1>3. CASE ~Accepts(row.vals, row.forced)
  <2>1. th' = [th EXCEPT ![t] = Idle] /\ UNCHANGED memory
    BY <1>3, <1>9 DEF InsertNext, Done, Set, memory
  <2>2. Goes(t, Idle, None)
    BY <1>0, IdleHolds, NextHolds, RidAssumption DEF Goes
  <2> QED BY <1>0, <1>2, <2>1, <2>2, IdleHolds, ContentGoes
<1>4. CASE Accepts(row.vals, row.forced)
  <2>1. PICK vals, rec : /\ vals = [f \in Fields |-> IF f \in row.forced THEN Null ELSE row.vals[f]]
                         /\ rec = Record(row.vals, row.forced)
    OBVIOUS
  <2>2. PICK s : s = [th[t] EXCEPT !.pc = "check", !.rest = rest, !.i = 1, !.data = rec,
                                   !.vals = vals, !.forced = row.forced]
    OBVIOUS
  <2>3. th' = [th EXCEPT ![t] = s] /\ MakeRecord(row.vals, row.forced)
    BY <1>4, <1>9, <2>1, <2>2 DEF Set
  <2>4. /\ s.pc = "check" /\ s.rest = rest /\ s.data = rec /\ s.vals = vals /\ s.forced = row.forced
        /\ s.rid = None /\ s.op = "insert"
    BY <1>0, <2>2 DEF ThreadOK, ThreadFields
  <2>5. n0 \in Nat /\ n0 \notin DOMAIN overflow_texts /\ TextsOK(overflow_texts, n0)
    BY <1>0 DEF HoldInv, TextsOK
  <2>6. \A f \in Fields : row.vals[f] \in Value(f) /\ (f \in TextFields => row.vals[f] \notin MarkBytes)
    <3>1. \A f \in Fields : row.vals[f] \in Domain(f)
      BY <1>1, <1>9
    <3>2. \A f \in TextFields : f \notin IntFields
      BY FieldAssumption
    <3>3. Null \notin MarkBytes
      BY Kinds
    <3> QED BY <3>1, <3>2, <3>3, Kinds DEF Domain, Value, TextBytes
  <2>7. ValsOK(vals) /\ \A f \in TextFields : vals[f] \notin MarkBytes
    <3>1. \A f \in Fields : Null \in Value(f)
      BY DEF Value
    <3>2. Null \notin MarkBytes
      BY Kinds
    <3> QED BY <2>1, <2>6, <3>1, <3>2 DEF ValsOK, Fields
  <2>8. \A m \in Nat : \A f \in TextFields : vals[f] # Marker(m) /\ row.vals[f] # Marker(m)
    BY <2>6, <2>7, Kinds DEF Fields
  <2>9. RecOK(rec)
    BY <2>1, <2>5, <2>6, RecordIs
  <2>10. /\ TextsOK(overflow_texts', n0') /\ n0' \in {n0, n0 + 1}
         /\ DOMAIN overflow_texts' = IF n0' = n0 THEN DOMAIN overflow_texts ELSE DOMAIN overflow_texts \cup {n0}
         /\ \A m \in DOMAIN overflow_texts : overflow_texts'[m] = overflow_texts[m]
         /\ n0' = n0 + 1 => Names(rec, n0)
         /\ \A m \in Nat : Names(rec, m) => m = n0 /\ n0' = n0 + 1
    <3>1. \A f \in Fields : row.vals[f] \in Value(f)
      BY <2>6
    <3>2. /\ TextsOK(overflow_texts', n0') /\ n0' \in {n0, n0 + 1}
          /\ DOMAIN overflow_texts' = IF n0' = n0 THEN DOMAIN overflow_texts ELSE DOMAIN overflow_texts \cup {n0}
          /\ \A m \in DOMAIN overflow_texts : overflow_texts'[m] = overflow_texts[m]
          /\ n0' = n0 + 1 => Names(Record(row.vals, row.forced), n0)
          /\ \A m \in Nat : Names(Record(row.vals, row.forced), m) =>
               (m = n0 /\ n0' = n0 + 1) \/ \E f \in TextFields \ row.forced : row.vals[f] = Marker(m)
      <4>1. PICK kv, fd : kv = row.vals /\ fd = row.forced
        OBVIOUS
      <4>2. MakeRecord(kv, fd) /\ \A f \in Fields : kv[f] \in Value(f)
        BY <2>3, <3>1, <4>1
      <4> HIDE DEF n0
      <4>3. LET T == overflow_texts   n == next_overflow_text_id
            IN  /\ TextsOK(T', n') /\ n' \in {n, n + 1}
                /\ DOMAIN T' = IF n' = n THEN DOMAIN T ELSE DOMAIN T \cup {n}
                /\ \A m \in DOMAIN T : T'[m] = T[m]
                /\ n' = n + 1 => Names(Record(kv, fd), n)
                /\ \A m \in Nat : Names(Record(kv, fd), m) =>
                     (m = n /\ n' = n + 1) \/ \E f \in TextFields \ fd : kv[f] = Marker(m)
        BY <2>5, <4>2, MakeRecordIs DEF n0
      <4> QED BY <4>1, <4>3 DEF n0
    <3> QED BY <2>1, <2>8, <3>2
  <2>11. TextsMove(t, None)
    BY <1>2, <2>10 DEF TextsMove
  <2>12. \A n : (Pends(s, n) <=> Names(rec, n)) /\ ~Clears(s, n) /\ \A q : ~SlotNames(s, q, n)
    BY <2>4 DEF Pends, Clears, SlotNames, Replaces, Copies, Working
  <2>13. MarkersMove(t, s, None)
    BY <2>10, <2>12, RidAssumption DEF MarkersMove
  <2>14. NoneLost(t, s, None)
    <3>1. \A n \in DOMAIN overflow_texts' : n \notin DOMAIN overflow_texts => Pends(s, n)
      BY <2>5, <2>10, <2>12
    <3>2. ~RowNames(rows, None, 1) /\ \A n : ~RowNames(rows, None, n)
      BY RidAssumption DEF RowNames, IInv, TypeInv
    <3> QED BY <1>0, <3>1, <3>2, NextHolds DEF NoneLost
  <2>15. \A q \in Rids \ {None} : SameSlot(q)
    BY <1>2, SlotStays
  <2>16. PendRight(s, overflow_texts', stale)
    <3>1. /\ \A f \in Fields \cap row.forced : vals[f] = Null
          /\ \A f \in Fields \ row.forced :
             vals[f] = row.vals[f] \/ {vals[f], row.vals[f]} \subseteq {Null, Default(f)}
          /\ \A f \in TextFields, n \in Nat : vals[f] = Marker(n) =>
               n \in stale \/ (n \notin DOMAIN overflow_texts /\ n # next_overflow_text_id)
      BY <2>1, <2>8
    <3>2. Holds(rec, vals, row.forced, overflow_texts', stale)
      BY <2>1, <2>3, <2>5, <2>6, <2>7, <3>1, HoldsNew
    <3>3. Accepted(vals, row.forced)
      BY <1>4, <2>1 DEF Accepts, Accepted
    <3> QED BY <2>4, <3>2, <3>3 DEF PendRight, Replaces
  <2>17. HeldOK(s)
    <3>1. s.op = "insert" /\ \E S : s.rest \in Seq(S) /\ \A x \in S : IsTuple(x)
      BY <1>1, <2>4
    <3> QED BY <2>4, <2>7, <2>9, <3>1 DEF HeldOK, Copies, Replaces
  <2>18. None \notin DOMAIN rows' /\ None \notin Rids
    BY RidAssumption DEF IInv, TypeInv
  <2> QED BY <1>0, <1>2, <2>3, <2>4, <2>11, <2>13, <2>14, <2>15, <2>16, <2>17, <2>18, ContentStep
<1> QED BY <1>3, <1>4

LEMMA DeleteNextContents ==
  ASSUME IInv, IInv', ContentInv, NEW t \in Threads, DeleteNext(t)
  PROVE  ContentInv'
<1>1. PICK r : r = First(DOMAIN th[t].rest)
  OBVIOUS
<1>2. PICK s : s = [th[t] EXCEPT !.pc = "leave", !.i = 1, !.rid = r, !.data = th[t].rest[r],
                                 !.rest = Without(@, r)]
  OBVIOUS
<1>3. /\ ThreadOK(th[t], files) /\ th[t].rid = None /\ th[t].op = "delete" /\ th[t].pc = "next"
      /\ DOMAIN th[t].rest # {} /\ DOMAIN th[t].rest \subseteq Rids
      /\ HoldInv /\ HeldOK(th[t])
  BY ThreadType DEF DeleteNext, ThreadOK, Working, ContentInv, HoldInv
<1>4. r \in Rids /\ r \in DOMAIN th[t].rest
  BY <1>1, <1>3, FirstIn
<1>5. /\ th' = [th EXCEPT ![t] = s] /\ suspect \subseteq suspect'
      /\ UNCHANGED <<rows, given, indexes, memory, stale, aged>>
  BY <1>1, <1>2 DEF DeleteNext, Set
<1>6. /\ DOMAIN s = ThreadFields /\ s.pc = "leave" /\ s.rid = r /\ s.op = "delete"
      /\ s.data = th[t].rest[r] /\ DOMAIN s.rest = DOMAIN th[t].rest \ {r}
      /\ \A q \in DOMAIN s.rest : s.rest[q] = th[t].rest[q]
  BY <1>2, <1>3 DEF ThreadOK, ThreadFields, Without
<1>7. HeldOK(s)
  BY <1>3, <1>4, <1>6 DEF HeldOK, Copies, Replaces, Working, Fills
<1>8. Goes(t, s, r)
  <2>1. \A q \in Rids, n \in Nat : SlotNames(s, q, n) => SlotNames(th[t], q, n)
    BY <1>3, <1>4, <1>6 DEF SlotNames, Copies, Working
  <2>2. \A n : ~Pends(s, n)
    BY <1>6 DEF Pends, Replaces
  <2>3. PendRight(s, overflow_texts, stale)
    BY <1>6 DEF PendRight, Replaces
  <2>4. ~Filler(s, r) /\ ~Filler(th[t], r)
    BY <1>3, <1>6 DEF Filler, Fills
  <2> QED BY <1>3, <1>6, <2>1, <2>2, <2>3, <2>4, NextHolds DEF Goes, InSlot
<1>9. \A i \in 1 .. Len(indexes') : MetaOK(indexes'[i])
  BY <1>3, <1>5 DEF HoldInv
<1> QED BY <1>3, <1>4, <1>5, <1>6, <1>7, <1>8, <1>9, ContentGoes

LEMMA EndStatementContents ==
  ASSUME IInv, IInv', ContentInv, NEW t \in Threads, EndStatement(t)
  PROVE  ContentInv'
<1>1. ThreadOK(th[t], files) /\ th[t].rid = None /\ th[t].pc = "next" /\ HoldInv
  BY ThreadType DEF EndStatement, ThreadOK, Working, ContentInv
<1>2. th' = [th EXCEPT ![t] = Idle] /\ UNCHANGED <<rows, given, indexes, memory, stale, aged, suspect>>
  BY DEF EndStatement, Done, Set
<1>3. Goes(t, Idle, None)
  BY <1>1, IdleHolds, NextHolds, RidAssumption DEF Goes
<1>4. \A i \in 1 .. Len(indexes') : MetaOK(indexes'[i])
  BY <1>1, <1>2 DEF HoldInv
<1> QED BY <1>1, <1>2, <1>3, <1>4, IdleHolds, ContentGoes

LEMMA NoMark ==
  ASSUME NEW f \in TextFields, NEW v \in Domain(f)
  PROVE  v \in Value(f) /\ v \notin MarkBytes /\ \A n \in Nat : v # Marker(n)
<1>1. f \notin IntFields
  BY FieldAssumption
<1>2. v = Null \/ v \in TextBytes
  BY <1>1 DEF Domain, TextBytes
<1> QED BY <1>1, <1>2, Kinds DEF Value

LEMMA CellNull ==
  ASSUME NEW r, NEW rec, RecOK(rec), NEW f \in Fields, TextsOK(overflow_texts, next_overflow_text_id),
         Cell(r, rec, f) = Null, ~ForcedNull(r, f)
  PROVE  f \in Nullable
<1>1. rec[f] \in Stored(f)
  BY DEF RecOK
<1>2. CASE rec[f] = Zero
  <2>1. \A v \in Value(f) : Default(f) # Null
    BY ValueIs
  <2>2. Cell(r, rec, f) \in Value(f)
    BY CellIs
  <2>3. Cell(r, rec, f) = IF f \in Nullable THEN Null ELSE Default(f)
    BY <1>2, CellIs
  <2> QED BY <2>1, <2>2, <2>3
<1>3. CASE f \in TextFields /\ rec[f] \in MarkBytes
  <2>1. PICK n \in Nat : rec[f] = Marker(n)
    BY <1>3, Kinds
  <2>2. Cell(r, rec, f) = IF n \in DOMAIN overflow_texts THEN overflow_texts[n] ELSE Marker(n)
    BY <1>3, <2>1, CellIs
  <2>3. n \in DOMAIN overflow_texts => overflow_texts[n] # Null
    BY Kinds DEF TextsOK, LongText
  <2>4. Marker(n) # Null
    BY Kinds
  <2> QED BY <2>2, <2>3, <2>4
<1>4. CASE rec[f] # Zero /\ ~(f \in TextFields /\ rec[f] \in MarkBytes)
  <2>1. Cell(r, rec, f) = rec[f]
    BY <1>4, CellIs
  <2>2. rec[f] # Null
    BY <1>1, <1>4, Kinds DEF Stored
  <2> QED BY <2>1, <2>2
<1> QED BY <1>2, <1>3, <1>4

LEMMA UpdateReads ==
  ASSUME TextsOK(overflow_texts, next_overflow_text_id), NEW r, NEW old, RecOK(old), NEW set,
         set.field \in Fields, set.value \in Domain(set.field), set.value = Null => set.field \in Nullable
  PROVE  LET vals == ReadVals(r, old, set)
         IN  /\ ValsOK(vals) /\ Accepted(vals, KeptForced(r, set))
             /\ \A f \in KeptForced(r, set) : vals[f] = Null
             /\ \A f \in TextFields, n \in Nat : vals[f] = Marker(n) =>
                  old[f] = Marker(n) /\ n \notin DOMAIN overflow_texts
<1> DEFINE vals == ReadVals(r, old, set)
<1>1. \A f \in Fields : vals[f] = IF f = set.field THEN set.value ELSE Cell(r, old, f)
  BY DEF ReadVals
<1>2. DOMAIN vals = Fields
  BY DEF ReadVals
<1> HIDE DEF vals
<1>3. set.value \in Value(set.field)
  BY DEF Domain, Value, TextBytes
<1>4. \A f \in Fields : Cell(r, old, f) \in Value(f)
  BY CellIs
<1>5. ValsOK(vals)
  BY <1>1, <1>2, <1>3, <1>4 DEF ValsOK
<1>6. Accepted(vals, KeptForced(r, set))
  BY <1>1, CellNull DEF Accepted, KeptForced
<1>7. \A f \in KeptForced(r, set) : vals[f] = Null
  BY <1>1, CellIs DEF KeptForced
<1>8. ASSUME NEW f \in TextFields, NEW n \in Nat, vals[f] = Marker(n)
      PROVE  old[f] = Marker(n) /\ n \notin DOMAIN overflow_texts
  <2>1. f \in Fields /\ Marker(n) \in MarkBytes /\ Marker(n) # Null
    BY Kinds DEF Fields
  <2>2. f # set.field
    BY <1>1, <1>8, <2>1, NoMark
  <2>3. Cell(r, old, f) = Marker(n) /\ ~ForcedNull(r, f)
    BY <1>1, <1>8, <2>1, <2>2, CellIs
  <2>4. CASE old[f] = Zero
    <3>1. Marker(n) \in {Null, Default(f)}
      BY <2>1, <2>3, <2>4, CellIs
    <3> QED BY <1>4, <2>1, <2>3, <3>1, ValueIs
  <2>5. CASE old[f] \in MarkBytes
    <3>1. PICK m \in Nat : old[f] = Marker(m)
      BY <2>5, Kinds
    <3>2. Marker(n) = IF m \in DOMAIN overflow_texts THEN overflow_texts[m] ELSE Marker(m)
      BY <2>1, <2>3, <3>1, CellIs
    <3>3. m \in DOMAIN overflow_texts => overflow_texts[m] \notin MarkBytes
      BY Kinds DEF TextsOK, LongText
    <3> QED BY <2>1, <3>1, <3>2, <3>3, Kinds
  <2>6. CASE old[f] # Zero /\ old[f] \notin MarkBytes
    <3>1. Cell(r, old, f) = old[f]
      BY <2>1, <2>3, <2>6, CellIs
    <3> QED BY <2>1, <2>3, <2>6, <3>1
  <2> QED BY <2>4, <2>5, <2>6
<1> QED BY <1>5, <1>6, <1>7, <1>8 DEF vals

\* What is read from a row that is as it was written is what it was written with, but for
\* the zero of a nullable field.
LEMMA ReadsBack ==
  ASSUME TextsOK(overflow_texts, next_overflow_text_id), NEW r, NEW rec, RecOK(rec), NEW v, ValsOK(v),
         Holds(rec, v, ForcedAt(forced_null_fields, r), overflow_texts, stale),
         NEW f \in Fields, \A n \in stale : f \in TextFields => rec[f] # Marker(n)
  PROVE  IF ForcedNull(r, f) THEN v[f] = Null
         ELSE Cell(r, rec, f) = v[f] \/ {Cell(r, rec, f), v[f]} \subseteq {Null, Default(f)}
<1> DEFINE F == ForcedAt(forced_null_fields, r)
           T == overflow_texts
<1>1. /\ f \in F => v[f] = Null
      /\ v[f] \in {Null, Default(f)} => rec[f] = Zero
      /\ IsLong(f, v[f]) => \E n \in Nat : rec[f] = Marker(n) /\ (n \in stale \/ (n \in DOMAIN T /\ T[n] = v[f]))
      /\ v[f] \notin {Null, Default(f)} /\ ~IsLong(f, v[f]) => rec[f] = v[f]
      /\ f \in TextFields => \A n \in Nat : v[f] = Marker(n) => n \notin DOMAIN T \/ n \in stale
  BY DEF Holds
<1>2. v[f] \in Value(f) /\ (ForcedNull(r, f) <=> f \in F)
  BY DEF ValsOK, ForcedNull, ForcedAt
<1> HIDE DEF F, T
<1>3. CASE ForcedNull(r, f)
  BY <1>1, <1>2, <1>3
<1>4. CASE ~ForcedNull(r, f) /\ v[f] \in {Null, Default(f)}
  <2>1. Cell(r, rec, f) = IF f \in Nullable THEN Null ELSE Default(f)
    BY <1>1, <1>4, CellIs
  <2> QED BY <1>4, <2>1
<1>5. CASE ~ForcedNull(r, f) /\ IsLong(f, v[f])
  <2>1. PICK n \in Nat : rec[f] = Marker(n) /\ (n \in stale \/ (n \in DOMAIN T /\ T[n] = v[f]))
    BY <1>1, <1>5
  <2>2. f \in TextFields /\ n \in DOMAIN T /\ T[n] = v[f]
    BY <1>5, <2>1 DEF IsLong
  <2>3. Cell(r, rec, f) = IF n \in DOMAIN T THEN T[n] ELSE Marker(n)
    BY <1>5, <2>1, <2>2, CellIs DEF T
  <2> QED BY <1>5, <2>2, <2>3
<1>6. CASE ~ForcedNull(r, f) /\ v[f] \notin {Null, Default(f)} /\ ~IsLong(f, v[f])
  <2>1. rec[f] = v[f] /\ rec[f] # Zero
    BY <1>1, <1>2, <1>6, ValueIs
  <2>2. CASE f \in TextFields /\ v[f] \in MarkBytes
    <3>1. PICK n \in Nat : v[f] = Marker(n)
      BY <2>2, Kinds
    <3>2. n \notin DOMAIN T
      BY <1>1, <2>1, <2>2, <3>1
    <3>3. Cell(r, rec, f) = IF n \in DOMAIN T THEN T[n] ELSE Marker(n)
      BY <1>6, <2>1, <2>2, <3>1, CellIs DEF T
    <3> QED BY <1>6, <3>1, <3>2, <3>3
  <2>3. CASE ~(f \in TextFields /\ v[f] \in MarkBytes)
    <3>1. Cell(r, rec, f) = rec[f]
      BY <1>6, <2>1, <2>3, CellIs
    <3> QED BY <1>6, <2>1, <3>1
  <2> QED BY <2>2, <2>3
<1> QED BY <1>3, <1>4, <1>5, <1>6

\* A new text changes nothing for the row of a slot.
LEMMA SlotGrows ==
  ASSUME IInv, HoldInv, MarkInv, NEW r \in Rids, SlotRight(r), NEW t, TextsMove(t, r),
         DOMAIN overflow_texts \subseteq DOMAIN overflow_texts',
         UNCHANGED <<rows, given, forced_null_fields, aged>>,
         \A u \in Threads : /\ Filler(th'[u], r) <=> Filler(th[u], r)
                            /\ Filler(th[u], r) => th'[u].forced = th[u].forced
                            /\ th'[u].pc = "clear" /\ th'[u].rid = r => th[u].pc = "clear" /\ th[u].rid = r
  PROVE  SlotRight(r)'
<1>1. stale' = stale
  BY DEF TextsMove
<1>2. ASSUME NEW F, RowRight(r, rows, given, F, overflow_texts, stale, aged)
      PROVE  RowRight(r, rows, given, F, overflow_texts', stale, aged)
  <2> SUFFICES ASSUME r \in DOMAIN rows
               PROVE  Holds(rows[r], given[r], F, overflow_texts', stale)
    BY <1>2 DEF RowRight
  <2>1. Holds(rows[r], given[r], F, overflow_texts, stale) /\ ValsOK(given[r])
    BY <1>2 DEF RowRight, HoldInv
  <2>2. \A n \in Nat \ stale : Names(rows[r], n) =>
          /\ n \in DOMAIN overflow_texts <=> n \in DOMAIN overflow_texts'
          /\ n \in DOMAIN overflow_texts => overflow_texts'[n] = overflow_texts[n]
    <3> SUFFICES ASSUME NEW n \in Nat \ stale, Names(rows[r], n)
                 PROVE  /\ n \in DOMAIN overflow_texts <=> n \in DOMAIN overflow_texts'
                        /\ n \in DOMAIN overflow_texts => overflow_texts'[n] = overflow_texts[n]
      OBVIOUS
    <3>1. InSlot(r, n)
      BY DEF InSlot, RowNames
    <3>2. Known(n)
      BY <3>1 DEF MarkInv
    <3>3. n # next_overflow_text_id
      BY <3>2 DEF Known, HoldInv, TextsOK
    <3> QED BY <3>3 DEF TextsMove
  <2> QED BY <2>1, <2>2, HoldsKept
<1>3. PICK T, U : T = overflow_texts /\ U = overflow_texts'
  OBVIOUS
<1>4. /\ (\A u \in Threads : ~Filler(th'[u], r)) =>
         RowRight(r, rows, given, ForcedAt(forced_null_fields, r), U, stale, aged)
      /\ \A u \in Threads : Filler(th'[u], r) => RowRight(r, rows, given, th'[u].forced, U, stale, aged)
      /\ \A u \in Threads : th'[u].pc = "clear" /\ th'[u].rid = r => r \notin DOMAIN rows
  BY <1>2, <1>3 DEF SlotRight
<1> QED BY <1>1, <1>3, <1>4 DEF SlotRight, RowRight

\* The history of the new row: the old one's, or what was read, which agree where both are.
LEMMA HistoryIs ==
  ASSUME IInv, HoldInv, ValueInv, NEW t \in Threads, th[t].pc = "next", NEW r \in Rids, NEW old, RecOK(old), NEW set,
         set.field \in Fields, set.value \in Domain(set.field), set.value = Null => set.field \in Nullable
  PROVE  LET vals == ReadVals(r, old, set)   forced == KeptForced(r, set)   v == History(t, r, old, set)
         IN  /\ ValsOK(v) /\ Accepted(v, forced)
             /\ \A f \in Fields \cap forced : v[f] = Null
             /\ \A f \in Fields \ forced : v[f] = vals[f] \/ {v[f], vals[f]} \subseteq {Null, Default(f)}
<1> DEFINE vals == ReadVals(r, old, set)
           forced == KeptForced(r, set)
           v == History(t, r, old, set)
<1>0. TextsOK(overflow_texts, next_overflow_text_id)
  BY DEF HoldInv
<1>1. /\ ValsOK(vals) /\ Accepted(vals, forced)
      /\ \A f \in forced : vals[f] = Null
  BY <1>0, UpdateReads
<1>2. /\ vals[set.field] = set.value /\ \A f \in Fields \ {set.field} : vals[f] = Cell(r, old, f)
      /\ \A f \in forced : f # set.field
      /\ \A f \in Fields \ {set.field} : f \in forced <=> ForcedNull(r, f)
  BY DEF ReadVals, KeptForced
<1>3. CASE ~Certain(t, r, old)
  <2>1. v = [vals EXCEPT ![set.field] = set.value]
    BY <1>3 DEF History
  <2>2. DOMAIN vals = Fields /\ vals = [f \in Fields |-> vals[f]]
    BY DEF ReadVals
  <2> HIDE DEF vals, v
  <2>3. v = vals
    BY <1>2, <2>1, <2>2
  <2> QED BY <1>1, <2>3 DEF v, vals
<1>4. CASE Certain(t, r, old)
  <2>1. PICK g : g = given[r] /\ ValsOK(g) /\ r \in DOMAIN rows /\ rows[r] = old /\ r \notin suspect
                 /\ r \notin aged /\ \A n \in stale, f \in TextFields : old[f] # Marker(n)
    BY <1>4 DEF Certain, HoldInv, IInv, TypeInv
  <2>2. \A u \in Threads : ~Filler(th[u], r)
    <3>1. \A u \in Threads \ {t} : th[u].rid # r
      BY <1>4, Shares DEF Certain
    <3> QED BY <3>1 DEF Filler, Fills
  <2>3. Holds(old, g, ForcedAt(forced_null_fields, r), overflow_texts, stale)
        /\ Accepted(g, ForcedAt(forced_null_fields, r))
    BY <2>1, <2>2 DEF ValueInv, SlotRight, RowRight
  <2>4. \A f \in Fields : IF ForcedNull(r, f) THEN g[f] = Null
                          ELSE Cell(r, old, f) = g[f] \/ {Cell(r, old, f), g[f]} \subseteq {Null, Default(f)}
    BY <1>0, <2>1, <2>3, ReadsBack
  <2>5. v = [g EXCEPT ![set.field] = set.value]
    BY <1>4, <2>1 DEF History
  <2> HIDE DEF vals, v, forced
  <2>6. DOMAIN g = Fields /\ \A f \in Fields : g[f] \in Value(f)
    BY <2>1 DEF ValsOK
  <2>7. /\ DOMAIN v = Fields /\ v[set.field] = set.value
        /\ \A f \in Fields \ {set.field} : v[f] = g[f]
    BY <2>5, <2>6
  <2>8. ValsOK(v)
    BY <1>1, <1>2, <2>6, <2>7 DEF ValsOK
  <2>9. \A f \in Fields \cap forced : v[f] = Null
    BY <1>2, <2>4, <2>7
  <2>10. \A f \in Fields \ forced : v[f] = vals[f] \/ {v[f], vals[f]} \subseteq {Null, Default(f)}
    <3> SUFFICES ASSUME NEW f \in Fields \ forced
                 PROVE  v[f] = vals[f] \/ {v[f], vals[f]} \subseteq {Null, Default(f)}
      OBVIOUS
    <3>1. CASE f = set.field
      BY <1>2, <2>7, <3>1
    <3>2. CASE f # set.field
      <4>1. v[f] = g[f] /\ vals[f] = Cell(r, old, f) /\ ~ForcedNull(r, f)
        BY <1>2, <2>7, <3>2
      <4>2. Cell(r, old, f) = g[f] \/ {Cell(r, old, f), g[f]} \subseteq {Null, Default(f)}
        BY <2>4, <4>1
      <4> QED BY <4>1, <4>2
    <3> QED BY <3>1, <3>2
  <2>11. Accepted(v, forced)
    <3> SUFFICES ASSUME NEW f \in Fields, v[f] = Null
                 PROVE  f \in forced \cup Nullable
      BY DEF Accepted
    <3>1. CASE f = set.field
      BY <2>7, <3>1
    <3>2. CASE f # set.field
      <4>1. f \in ForcedAt(forced_null_fields, r) \cup Nullable
        BY <2>3, <2>7, <3>2 DEF Accepted
      <4>2. f \in ForcedAt(forced_null_fields, r) <=> ForcedNull(r, f)
        BY DEF ForcedAt, ForcedNull
      <4> QED BY <1>2, <3>2, <4>1, <4>2
    <3> QED BY <3>1, <3>2
  <2> QED BY <2>8, <2>9, <2>10, <2>11 DEF vals, v, forced
<1> QED BY <1>3, <1>4

LEMMA UpdateNextContents ==
  ASSUME IInv, IInv', ContentInv, NEW t \in Threads, UpdateNext(t)
  PROVE  ContentInv'
<1> DEFINE n0 == next_overflow_text_id
           T == overflow_texts
<1>1. PICK r, old, set : r = First(DOMAIN th[t].rest) /\ old = th[t].rest[r] /\ set = th[t].set
  OBVIOUS
<1>2. PICK read, kept, v, new :
        /\ read = ReadVals(r, old, set) /\ kept = KeptForced(r, set) /\ v = History(t, r, old, set)
        /\ new = Record(read, kept)
  OBVIOUS
<1>3. PICK s : s = [th[t] EXCEPT !.pc = "leave", !.i = 1, !.rid = r, !.data = old, !.rest = Without(@, r),
                                 !.new = new, !.forced = kept, !.vals = v]
  OBVIOUS
<1>4. /\ ThreadOK(th[t], files) /\ th[t].rid = None /\ th[t].op = "update" /\ th[t].pc = "next"
      /\ DOMAIN th[t].rest # {} /\ DOMAIN th[t].rest \subseteq Rids
      /\ HoldInv /\ MarkInv /\ SoleInv /\ ValueInv /\ HeldOK(th[t])
  BY ThreadType DEF UpdateNext, ThreadOK, Working, ContentInv, HoldInv
<1>5. r \in Rids /\ r \in DOMAIN th[t].rest
  BY <1>1, <1>4, FirstIn
<1>6. /\ UNCHANGED <<rows, given, indexes, forced_null_fields, stale, aged>> /\ suspect \subseteq suspect'
      /\ \A i \in 1 .. Len(indexes') : MetaOK(indexes'[i])
  BY <1>4 DEF UpdateNext, HoldInv
<1>7. th' = [th EXCEPT ![t] = s] /\ MakeRecord(read, kept)
  <2>1. th' = [th EXCEPT ![t] = Updated(t, r, old, set)] /\ MakeRecord(ReadVals(r, old, set), KeptForced(r, set))
    BY <1>1, UpdateIs
  <2>2. s = Updated(t, r, old, set)
    BY <1>2, <1>3 DEF Updated
  <2> QED BY <1>2, <2>1, <2>2
<1>8. /\ s.pc = "leave" /\ s.rid = r /\ s.op = "update" /\ s.data = old /\ s.new = new
      /\ s.vals = v /\ s.forced = kept /\ s.set = set
      /\ DOMAIN s.rest = DOMAIN th[t].rest \ {r}
      /\ \A q \in DOMAIN s.rest : s.rest[q] = th[t].rest[q]
  BY <1>1, <1>3, <1>4 DEF ThreadOK, ThreadFields, Without
<1>9. /\ RecOK(old) /\ set.field \in Fields /\ set.value \in Domain(set.field)
      /\ set.value = Null => set.field \in Nullable
  BY <1>1, <1>4, <1>5 DEF HeldOK, Copies
<1>10. n0 \in Nat /\ n0 \notin DOMAIN T /\ TextsOK(T, n0) /\ \A m : Known(m) => m # n0 \/ m \in stale
  BY <1>4 DEF HoldInv, TextsOK, Known
<1>11. /\ ValsOK(read)
       /\ \A f \in TextFields, n \in Nat : read[f] = Marker(n) =>
            old[f] = Marker(n) /\ n \notin DOMAIN T
  BY <1>2, <1>9, <1>10, UpdateReads
<1>12. /\ ValsOK(v) /\ Accepted(v, kept)
       /\ \A f \in Fields \cap kept : v[f] = Null
       /\ \A f \in Fields \ kept : v[f] = read[f] \/ {v[f], read[f]} \subseteq {Null, Default(f)}
  BY <1>2, <1>4, <1>5, <1>9, HistoryIs
<1>13. \A f \in Fields : read[f] \in Value(f)
  BY <1>11 DEF ValsOK
<1>14. \A n \in Nat : Names(old, n) => InSlot(r, n) /\ Known(n)
  <2>1. \A n \in Nat : Names(old, n) => SlotNames(th[t], r, n)
    BY <1>1, <1>4, <1>5 DEF SlotNames, Copies
  <2> QED BY <1>4, <1>5, <2>1 DEF InSlot, MarkInv
<1>15. /\ TextsOK(T', n0') /\ n0' \in {n0, n0 + 1}
       /\ DOMAIN T' = IF n0' = n0 THEN DOMAIN T ELSE DOMAIN T \cup {n0}
       /\ \A m \in DOMAIN T : T'[m] = T[m]
       /\ n0' = n0 + 1 => Names(new, n0)
       /\ \A m \in Nat : Names(new, m) =>
            (m = n0 /\ n0' = n0 + 1) \/ \E f \in TextFields \ kept : read[f] = Marker(m)
  <2>0. TextsOK(overflow_texts, next_overflow_text_id) /\ MakeRecord(read, kept)
    BY <1>7, <1>10
  <2>1. /\ TextsOK(overflow_texts', next_overflow_text_id')
        /\ next_overflow_text_id' \in {next_overflow_text_id, next_overflow_text_id + 1}
        /\ DOMAIN overflow_texts' = IF next_overflow_text_id' = next_overflow_text_id
                                       THEN DOMAIN overflow_texts
                                       ELSE DOMAIN overflow_texts \cup {next_overflow_text_id}
        /\ \A m \in DOMAIN overflow_texts : overflow_texts'[m] = overflow_texts[m]
        /\ next_overflow_text_id' = next_overflow_text_id + 1 => Names(Record(read, kept), next_overflow_text_id)
        /\ \A m \in Nat : Names(Record(read, kept), m) =>
             \/ m = next_overflow_text_id /\ next_overflow_text_id' = next_overflow_text_id + 1
             \/ \E f \in TextFields \ kept : read[f] = Marker(m)
    BY <2>0, <1>13, MakeRecordIs
  <2> QED BY <1>2, <2>1
<1>16. \A m \in Nat : Names(new, m) => (m = n0 /\ n0' = n0 + 1) \/ (Known(m) /\ m \notin DOMAIN T)
  <2>1. \A m \in Nat, f \in TextFields : read[f] = Marker(m) => Names(old, m) /\ m \notin DOMAIN T
    BY <1>11 DEF Names
  <2> QED BY <1>14, <1>15, <2>1
<1>17. TextsMove(t, r)
  BY <1>6, <1>15 DEF TextsMove
<1>18. \A n : Pends(s, n) <=> Names(new, n)
  BY <1>8 DEF Pends, Replaces
<1>19. MarkersMove(t, s, r)
  <2>1. \A q \in Rids, n \in Nat : SlotNames(s, q, n) => SlotNames(th[t], q, n)
    BY <1>1, <1>4, <1>5, <1>8 DEF SlotNames, Copies, Working
  <2>2. \A q \in Rids, n \in Nat : (q = r /\ RowNames(rows', q, n)) \/ SlotNames(s, q, n) => InSlot(q, n)
    BY <1>6, <2>1 DEF InSlot
  <2> QED BY <1>16, <1>18, <2>2 DEF MarkersMove
<1>20. NoneLost(t, s, r)
  <2>1. \A n \in DOMAIN T' : n \notin DOMAIN T => Pends(s, n)
    BY <1>15, <1>18
  <2>2. \A n : ~Pends(th[t], n) /\ ~Clears(th[t], n)
    BY <1>4, NextHolds
  <2> QED BY <1>6, <2>1, <2>2 DEF NoneLost
<1>21. \A q \in Rids \ {r} : SameSlot(q)
  BY <1>6, SlotStays
<1>22. PendRight(s, T', stale)
  <2>1. \A f \in TextFields, n \in Nat : v[f] = Marker(n) =>
          n \in stale \/ (n \notin DOMAIN T /\ n # n0)
    <3> SUFFICES ASSUME NEW f \in TextFields, NEW n \in Nat, v[f] = Marker(n)
                 PROVE  n \in stale \/ (n \notin DOMAIN T /\ n # n0)
      OBVIOUS
    <3>1. f \in Fields /\ v[f] \in MarkBytes /\ v[f] \in Value(f) /\ Marker(n) # Null
      BY <1>12, Kinds DEF Fields, ValsOK
    <3>2. v[f] \notin {Null, Default(f)}
      BY <3>1, ValueIs
    <3>3. read[f] = Marker(n)
      BY <1>12, <3>1, <3>2
    <3>4. Names(old, n) /\ n \notin DOMAIN T
      BY <1>11, <3>3 DEF Names
    <3> QED BY <1>10, <1>14, <3>4
  <2>2. Holds(Record(read, kept), v, kept, T', stale)
    BY <1>7, <1>10, <1>12, <1>13, <2>1, HoldsNew
  <2> QED BY <1>2, <1>8, <1>12, <2>2 DEF PendRight
<1>23. HeldOK(s)
  <2>1. RecOK(new)
    BY <1>2, <1>10, <1>13, RecordIs
  <2>2. \A q \in DOMAIN s.rest : RecOK(s.rest[q])
    BY <1>4, <1>8 DEF HeldOK, Copies
  <2> QED BY <1>8, <1>9, <1>12, <2>1, <2>2 DEF HeldOK
<1>24. r \in Rids \ suspect' => SlotRight(r)'
  <2> SUFFICES ASSUME r \notin suspect'
               PROVE  SlotRight(r)'
    OBVIOUS
  <2>1. SlotRight(r)
    BY <1>4, <1>5, <1>6 DEF ValueInv
  <2>2. th'[t] = s /\ \A u \in Threads \ {t} : th'[u] = th[u]
    BY <1>7, OneThread
  <2>3. \A u \in Threads : /\ Filler(th'[u], r) <=> Filler(th[u], r)
                           /\ Filler(th[u], r) => th'[u].forced = th[u].forced
                           /\ th'[u].pc = "clear" /\ th'[u].rid = r => th[u].pc = "clear" /\ th[u].rid = r
    BY <1>4, <1>8, <2>2 DEF Filler, Fills
  <2>4. DOMAIN T \subseteq DOMAIN T'
    BY <1>15
  <2>5. HoldInv /\ MarkInv /\ r \in Rids /\ UNCHANGED <<rows, given, forced_null_fields, aged>>
    BY <1>4, <1>5, <1>6
  <2>6. DOMAIN overflow_texts \subseteq DOMAIN overflow_texts'
    BY <2>4
  <2> QED BY <1>17, <2>1, <2>3, <2>5, <2>6, SlotGrows
<1>25. r \in DOMAIN rows' => RecOK(rows'[r]) /\ ValsOK(given'[r])
  BY <1>4, <1>6 DEF HoldInv
<1> QED BY <1>4, <1>5, <1>6, <1>7, <1>8, <1>17, <1>19, <1>20, <1>21, <1>22, <1>23, <1>24, <1>25, ContentStep

\* A thread that goes on to the next index, with the records it has.
SameHeld(s, p) ==
  /\ s.op = p.op /\ s.rest = p.rest /\ s.rid = p.rid /\ s.data = p.data
  /\ s.vals = p.vals /\ s.forced = p.forced /\ s.set = p.set /\ s.new = p.new
  /\ (s.pc = p.pc /\ s.pc \in {"check", "leave"}) \/ {s.pc, p.pc} \subseteq Fills

LEMMA MovesOn ==
  ASSUME IInv, IInv', ContentInv, NEW t \in Threads, NEW s, th' = [th EXCEPT ![t] = s], SameHeld(s, th[t]),
         \A i \in 1 .. Len(indexes') : MetaOK(indexes'[i]), suspect \subseteq suspect',
         UNCHANGED <<rows, given, memory, stale, aged>>
  PROVE  ContentInv'
<1>1. /\ ThreadOK(th[t], files) /\ HoldInv /\ ValueInv /\ HeldOK(th[t])
      /\ PendRight(th[t], overflow_texts, stale)
  BY ThreadType DEF ContentInv, HoldInv, ValueInv
<1>2. PICK p, r : p = th[t] /\ r = th[t].rid
  OBVIOUS
<1>3. HeldOK(p) /\ PendRight(p, overflow_texts, stale) /\ SameHeld(s, p) /\ r \in Rids \cup {None}
  BY <1>1, <1>2 DEF ThreadOK
<1>4. HeldOK(s)
  <2>1. s.pc # "publish" /\ (s.pc \in Working \cup {"check"} <=> p.pc \in Working \cup {"check"})
        /\ (Replaces(s) <=> Replaces(p)) /\ (s.pc \in Fills \cup {"check"} <=> p.pc \in Fills \cup {"check"})
    BY <1>3 DEF SameHeld, Working, Fills, Replaces
  <2> QED BY <1>3, <2>1 DEF HeldOK, SameHeld, Copies
<1>5. /\ \A q, n : SlotNames(s, q, n) <=> SlotNames(p, q, n)
      /\ \A n : (Pends(s, n) <=> Pends(p, n)) /\ ~Clears(p, n)
      /\ PendRight(s, overflow_texts, stale)
      /\ \A q : Filler(s, q) <=> Filler(p, q)
      /\ s.pc # "clear"
  BY <1>3 DEF SameHeld, SlotNames, Pends, Clears, PendRight, Filler, Working, Fills, Replaces, Copies
<1>6. Goes(t, s, r)
  <2>1. \A q \in Rids, n \in Nat : SlotNames(s, q, n) => InSlot(q, n)
    BY <1>2, <1>5 DEF InSlot
  <2> QED BY <1>2, <1>3, <1>5, <2>1 DEF Goes, SameHeld
<1>7. s.rid = r /\ th[t].rid = r
  BY <1>2, <1>3 DEF SameHeld
<1> QED BY <1>3, <1>4, <1>6, <1>7, ContentGoes

\* A record that was refused: its text goes, and the statement is over.
LEMMA RefusedContents ==
  ASSUME IInv, IInv', ContentInv, NEW t \in Threads, th[t].pc = "check", EraseTexts(th[t].data),
         th' = [th EXCEPT ![t] = Idle],
         UNCHANGED <<rows, given, indexes, next_overflow_text_id, forced_null_fields, stale, aged, suspect>>
  PROVE  ContentInv'
<1>1. ThreadOK(th[t], files) /\ th[t].rid = None /\ HoldInv
  BY ThreadType DEF ThreadOK, Working, ContentInv
<1>2. \A n : (Pends(th[t], n) <=> Names(th[t].data, n)) /\ ~Clears(th[t], n)
  BY DEF Pends, Clears, Replaces
<1>3. /\ \A n : n \in DOMAIN overflow_texts' => n \in DOMAIN overflow_texts /\ ~Names(th[t].data, n)
      /\ TextsMove(t, None)
  BY <1>1, <1>2, EraseIs
<1>4. \A n : ~RowNames(rows, None, n)
  BY RidAssumption DEF RowNames, IInv, TypeInv
<1>5. MarkersMove(t, Idle, None)
  BY IdleHolds, RidAssumption DEF MarkersMove
<1>6. NoneLost(t, Idle, None)
  BY <1>2, <1>3, <1>4 DEF NoneLost
<1>7. \A q \in Rids \ {None} : SameSlot(q)
  BY SlotStays
<1>8. /\ None \notin DOMAIN rows' /\ None \notin Rids
      /\ \A i \in 1 .. Len(indexes') : MetaOK(indexes'[i])
  BY <1>1, RidAssumption DEF IInv, TypeInv, HoldInv
<1> QED BY <1>1, <1>3, <1>5, <1>6, <1>7, <1>8, IdleHolds, ContentStep

LEMMA CheckUniqueContents ==
  ASSUME IInv, IInv', ContentInv, NEW t \in Threads, CheckUnique(t)
  PROVE  ContentInv'
<1>1. ThreadOK(th[t], files) /\ th[t].pc = "check" /\ HoldInv
  BY ThreadType DEF CheckUnique, ContentInv
<1>2. PICK s, z : s = [th[t] EXCEPT !.i = @ + 1] /\ z = [th[t] EXCEPT !.i = @ + 1, !.unasked = TRUE]
  OBVIOUS
<1>3. SameHeld(s, th[t]) /\ SameHeld(z, th[t])
  BY <1>1, <1>2 DEF SameHeld, ThreadOK, ThreadFields
<1>4. /\ UNCHANGED <<rows, given, indexes, next_overflow_text_id, forced_null_fields, stale, aged, suspect>>
      /\ \A i \in 1 .. Len(indexes') : MetaOK(indexes'[i])
  BY <1>1 DEF CheckUnique, HoldInv
<1>5. \/ EraseTexts(th[t].data) /\ th' = [th EXCEPT ![t] = Idle]
      \/ th' = [th EXCEPT ![t] = s] /\ UNCHANGED memory
      \/ th' = [th EXCEPT ![t] = z] /\ UNCHANGED memory
  BY <1>2, <1>4 DEF CheckUnique, Done, Set, memory
<1>6. UNCHANGED memory => UNCHANGED <<rows, given, memory, stale, aged>> /\ suspect \subseteq suspect'
  BY <1>4
<1>7. CASE th' = [th EXCEPT ![t] = s] /\ UNCHANGED memory
  BY <1>3, <1>4, <1>6, <1>7, MovesOn
<1>8. CASE th' = [th EXCEPT ![t] = z] /\ UNCHANGED memory
  BY <1>3, <1>4, <1>6, <1>8, MovesOn
<1> QED BY <1>1, <1>4, <1>5, <1>7, <1>8, RefusedContents

LEMMA NoSlotContents ==
  ASSUME IInv, IInv', ContentInv, NEW t \in Threads, NoSlot(t)
  PROVE  ContentInv'
<1>1. /\ th[t].pc = "check" /\ EraseTexts(th[t].data) /\ th' = [th EXCEPT ![t] = Idle]
      /\ UNCHANGED <<rows, given, indexes, next_overflow_text_id, forced_null_fields, stale, aged, suspect>>
  BY DEF NoSlot, Done, Set
<1> QED BY <1>1, RefusedContents

LEMMA PutRowContents ==
  ASSUME IInv, IInv', ContentInv, NEW t \in Threads, PutRow(t)
  PROVE  ContentInv'
<1>20. /\ ThreadOK(th[t], files) /\ th[t].rid = None /\ th[t].pc = "check"
      /\ HoldInv /\ ValueInv /\ HeldOK(th[t]) /\ DOMAIN rows \subseteq Rids /\ DOMAIN given = DOMAIN rows
  BY ThreadType DEF PutRow, ThreadOK, Working, ContentInv, HoldInv, IInv, TypeInv
<1>30. FreeSlots # {}
  BY DEF PutRow
<1>1. PICK r : r = First(FreeSlots)
  OBVIOUS
<1>2. PICK s : s = [th[t] EXCEPT !.pc = "enter", !.i = 1, !.rid = r]
  OBVIOUS
<1>3. r \in Rids /\ r \notin DOMAIN rows
  BY <1>1, <1>30, FirstIn DEF FreeSlots
<1>4. /\ th' = [th EXCEPT ![t] = s]
      /\ rows' = [q \in DOMAIN rows \cup {r} |-> IF q = r THEN th[t].data ELSE rows[q]]
      /\ given' = [q \in DOMAIN rows' |-> IF q = r THEN th[t].vals ELSE given[q]]
      /\ suspect \subseteq suspect'
      /\ r \notin suspect' => ~ SharesSlot(t, r)
      /\ aged' = aged \ {r}
      /\ UNCHANGED <<indexes, overflow_texts, next_overflow_text_id, forced_null_fields, stale>>
  BY <1>1, <1>2, <1>30 DEF PutRow, Set, memory
<1>5. /\ s.pc = "enter" /\ s.rid = r /\ s.data = th[t].data /\ s.vals = th[t].vals
      /\ s.forced = th[t].forced /\ s.op = th[t].op /\ s.rest = th[t].rest /\ s.set = th[t].set
  BY <1>20, <1>2 DEF ThreadOK, ThreadFields
<1>6. /\ r \in DOMAIN rows' /\ rows'[r] = s.data /\ given'[r] = s.vals /\ r \notin aged'
      /\ \A q \in Rids \ {r} : SameSlot(q)
  <2>1. DOMAIN rows' = DOMAIN rows \cup {r} /\ DOMAIN given' = DOMAIN rows \cup {r}
    BY <1>4
  <2>2. rows'[r] = th[t].data /\ given'[r] = th[t].vals
    BY <1>4, <2>1
  <2>3. \A q \in DOMAIN rows : q # r => rows'[q] = rows[q] /\ given'[q] = given[q]
    BY <1>4, <2>1
  <2> QED BY <1>4, <1>5, <2>1, <2>2, <2>3 DEF SameSlot
<1>7. HeldOK(s) /\ RecOK(s.data) /\ ValsOK(s.vals)
  BY <1>20, <1>5 DEF HeldOK, Copies, Replaces, Fills, Working
<1>8. TextsMove(t, r)
  BY <1>20, <1>4, TextsStay
<1>9. \A n : ~Pends(s, n) /\ ~Clears(s, n) /\ ~Clears(th[t], n) /\ (Pends(th[t], n) <=> Names(s.data, n))
  BY <1>20, <1>5 DEF Pends, Clears, Replaces
<1>10. MarkersMove(t, s, r)
  <2>1. \A q \in Rids, n \in Nat : SlotNames(s, q, n) => (q = r /\ Names(s.data, n)) \/ SlotNames(th[t], q, n)
    BY <1>20, <1>5 DEF SlotNames, Copies
  <2>2. \A n : RowNames(rows', r, n) <=> Names(s.data, n)
    BY <1>6 DEF RowNames
  <2> QED BY <1>9, <2>1, <2>2 DEF MarkersMove, InSlot
<1>11. NoneLost(t, s, r)
  BY <1>3, <1>4, <1>6, <1>9 DEF NoneLost, RowNames
<1>12. PendRight(s, overflow_texts', stale)
  BY <1>5 DEF PendRight, Replaces
<1>13. r \in Rids \ suspect' => SlotRight(r)'
  <2> SUFFICES ASSUME r \notin suspect'
               PROVE  SlotRight(r)'
    OBVIOUS
  <2>1. \A u \in Threads \ {t} : th[u].rid # r
    BY <1>3, <1>4, Shares
  <2>2. th'[t] = s /\ \A u \in Threads \ {t} : th'[u] = th[u]
    BY <1>4, OneThread
  <2>3. \A u \in Threads : th'[u].rid = r => u = t
    BY <2>1, <2>2
  <2>4. Holds(s.data, s.vals, s.forced, overflow_texts, stale) /\ Accepted(s.vals, s.forced)
    BY <1>20, <1>5 DEF ValueInv, PendRight
  <2>5. RowRight(r, rows', given', s.forced, overflow_texts, stale, aged')
    BY <1>6, <2>4 DEF RowRight
  <2>6. Filler(th'[t], r) /\ th'[t].pc # "clear" /\ th'[t].forced = s.forced
    BY <1>5, <2>2 DEF Filler, Fills
  <2> QED BY <1>4, <2>3, <2>5, <2>6 DEF SlotRight, RowRight, Filler
<1>14. \A i \in 1 .. Len(indexes') : MetaOK(indexes'[i])
  BY <1>20, <1>4 DEF HoldInv
<1> QED BY <1>20, <1>3, <1>4, <1>5, <1>6, <1>7, <1>8, <1>10, <1>11, <1>12, <1>13, <1>14, ContentStep

LEMMA IndexStepContents ==
  ASSUME IInv, IInv', ContentInv, NEW t \in Threads, EnterIndex(t) \/ UndoIndex(t) \/ LeaveIndex(t)
  PROVE  ContentInv'
<1>1. PICK p : p = th[t]
  OBVIOUS
<1>2. ThreadOK(p, files) /\ HoldInv
  BY <1>1, ThreadType DEF ContentInv
<1>3. /\ UNCHANGED <<rows, given, memory, stale, aged>> /\ suspect \subseteq suspect'
      /\ Len(indexes') = Len(indexes)
      /\ \A i \in 1 .. Len(indexes) : indexes'[i].fields = indexes[i].fields
  <2>1. UNCHANGED <<rows, given, memory, stale, aged>> /\ suspect \subseteq suspect'
    BY DEF EnterIndex, UndoIndex, LeaveIndex, history
  <2>2. indexes' = indexes \/ \E k, E : indexes' = [indexes EXCEPT ![k].entries = E]
    BY EntriesSet
  <2>3. CASE indexes' = indexes
    BY <2>1, <2>3
  <2>4. CASE \E k, E : indexes' = [indexes EXCEPT ![k].entries = E]
    <3>1. PICK k, E : indexes' = WithEntries(indexes, k, E)
      BY <2>4 DEF WithEntries
    <3>2. PICK z, ixs, S : z = indexes' /\ ixs = indexes /\ ixs \in Seq(S) /\ TypeInv
      BY DEF IInv, TypeInv, IsSeq
    <3>3. z = [ixs EXCEPT ![k].entries = E]
      BY <3>1, <3>2 DEF WithEntries
    <3>4. \A i \in 1 .. Len(ixs) : DOMAIN ixs[i] = IndexFields
      BY <3>2 DEF TypeInv, IndexOK
    <3>5. DOMAIN z = 1 .. Len(ixs) /\ Len(ixs) \in Nat
      BY <3>2, <3>3
    <3>6. Len(z) = Len(ixs)
      BY <3>2, <3>3
    <3>7. \A i \in 1 .. Len(ixs) : z[i].fields = ixs[i].fields
      BY <3>2, <3>3, <3>4 DEF IndexFields
    <3> QED BY <2>1, <3>2, <3>6, <3>7
  <2> QED BY <2>2, <2>3, <2>4
<1>4. ASSUME NEW s, th' = [th EXCEPT ![t] = s], SameHeld(s, p)
      PROVE  ContentInv'
  BY <1>1, <1>2, <1>3, <1>4, MetasKept, MovesOn
<1>5. PICK a, b, c :
        a = [p EXCEPT !.i = @ + 1] /\ b = [p EXCEPT !.pc = "undo", !.i = 1] /\ c = [p EXCEPT !.pc = "unrow"]
  OBVIOUS
<1>6. CASE EnterIndex(t)
  <2>1. th' = [th EXCEPT ![t] = a] \/ th' = [th EXCEPT ![t] = b]
    BY <1>1, <1>5, <1>6 DEF EnterIndex, Set
  <2>2. p.pc = "enter"
    BY <1>1, <1>6 DEF EnterIndex
  <2>3. SameHeld(a, p) /\ SameHeld(b, p)
    BY <1>2, <1>5, <2>2 DEF SameHeld, ThreadOK, ThreadFields, Fills
  <2> QED BY <1>4, <2>1, <2>3
<1>7. CASE UndoIndex(t)
  <2>1. th' = [th EXCEPT ![t] = a] \/ th' = [th EXCEPT ![t] = c]
    BY <1>1, <1>5, <1>7 DEF UndoIndex, Set
  <2>2. p.pc = "undo"
    BY <1>1, <1>7 DEF UndoIndex
  <2>3. SameHeld(a, p) /\ SameHeld(c, p)
    BY <1>2, <1>5, <2>2 DEF SameHeld, ThreadOK, ThreadFields, Fills
  <2> QED BY <1>4, <2>1, <2>3
<1>8. CASE LeaveIndex(t)
  <2>1. th' = [th EXCEPT ![t] = a] /\ p.pc = "leave"
    BY <1>1, <1>5, <1>8 DEF LeaveIndex, Set
  <2>2. SameHeld(a, p)
    BY <1>2, <1>5, <2>1 DEF SameHeld, ThreadOK, ThreadFields, Fills
  <2> QED BY <1>4, <2>1, <2>2
<1> QED BY <1>6, <1>7, <1>8

LEMMA RowDoneContents ==
  ASSUME IInv, IInv', ContentInv, NEW t \in Threads, RowDone(t)
  PROVE  ContentInv'
<1>1. PICK r, s : r = th[t].rid
                  /\ s = [Idle EXCEPT !.pc = "next", !.op = th[t].op, !.rest = th[t].rest, !.set = th[t].set]
  OBVIOUS
<1>2. /\ ThreadOK(th[t], files) /\ th[t].pc = "enter" /\ r \in Rids
      /\ HoldInv /\ ValueInv /\ HeldOK(th[t])
  BY <1>1, ThreadType DEF RowDone, ThreadOK, Working, ContentInv, HoldInv
<1>3. /\ th' = [th EXCEPT ![t] = s]
      /\ UNCHANGED <<rows, given, indexes, overflow_texts, next_overflow_text_id, stale, aged, suspect>>
  BY <1>1 DEF RowDone, Set
<1>4. /\ \A q \in Rids \ {r} : SameSlot(q)
      /\ ForcedAt(forced_null_fields', r) = th[t].forced
  <2>1. PICK a, b, S, F : /\ a = forced_null_fields /\ b = forced_null_fields' /\ F = th[t].forced
                          /\ S = (DOMAIN a \ {r}) \cup (IF F = {} THEN {} ELSE {r})
    OBVIOUS
  <2>2. b = [q \in S |-> IF q = r THEN F ELSE a[q]]
    BY <1>1, <2>1 DEF RowDone
  <2>3. \A q : q # r => (q \in DOMAIN b <=> q \in DOMAIN a) /\ (q \in DOMAIN a => b[q] = a[q])
    BY <2>1, <2>2
  <2>4. (r \in DOMAIN b <=> F # {}) /\ (r \in DOMAIN b => b[r] = F)
    BY <2>1, <2>2
  <2> QED BY <1>3, <2>1, <2>3, <2>4 DEF SameSlot, ForcedAt
<1>5. s.pc = "next" /\ s.rid = None /\ s.op = th[t].op /\ s.rest = th[t].rest /\ s.set = th[t].set
  BY <1>1 DEF Idle
<1>6. HeldOK(s)
  BY <1>2, <1>5 DEF HeldOK, Copies, Replaces, Working, Fills
<1>7. TextsMove(t, r)
  BY <1>2, <1>3, TextsStay
<1>8. \A n : ~Pends(th[t], n) /\ ~Clears(th[t], n) /\ ~Pends(s, n)
  BY <1>2, <1>5 DEF Pends, Clears, Replaces
<1>9. MarkersMove(t, s, r)
  <2>1. \A q \in Rids, n \in Nat : SlotNames(s, q, n) => SlotNames(th[t], q, n)
    BY <1>5 DEF SlotNames, Copies, Working
  <2> QED BY <1>3, <1>8, <2>1 DEF MarkersMove, InSlot
<1>10. NoneLost(t, s, r)
  BY <1>3, <1>8 DEF NoneLost
<1>11. PendRight(s, overflow_texts', stale)
  BY <1>5, NextHolds
<1>12. r \in Rids \ suspect' => SlotRight(r)'
  <2> SUFFICES ASSUME r \notin suspect
               PROVE  SlotRight(r)'
    BY <1>3
  <2>1. \A u \in Threads \ {t} : th[u].rid # r
    BY <1>1, <1>2, Alone
  <2>2. th'[t] = s /\ \A u \in Threads \ {t} : th'[u] = th[u]
    BY <1>3, OneThread
  <2>3. \A u \in Threads : th'[u].rid # r
    BY <1>2, <1>5, <2>1, <2>2, RidAssumption
  <2>4. Filler(th[t], r)
    BY <1>1, <1>2 DEF Filler, Fills
  <2>5. RowRight(r, rows, given, th[t].forced, overflow_texts, stale, aged)
    BY <1>2, <2>4 DEF ValueInv, SlotRight
  <2> QED BY <1>3, <1>4, <2>3, <2>5 DEF SlotRight, RowRight, Filler
<1>13. /\ r \in DOMAIN rows' => RecOK(rows'[r]) /\ ValsOK(given'[r])
       /\ \A i \in 1 .. Len(indexes') : MetaOK(indexes'[i])
  BY <1>2, <1>3 DEF HoldInv
<1> QED BY <1>1, <1>2, <1>3, <1>4, <1>5, <1>6, <1>7, <1>9, <1>10, <1>11, <1>12, <1>13, ContentStep

\* The row of a slot is gone: nothing is claimed of it, and the other slots are as before.
LEMMA WithoutRow ==
  ASSUME NEW r, rows' = Without(rows, r), given' = Without(given, r), DOMAIN given = DOMAIN rows,
         UNCHANGED <<forced_null_fields, aged>>
  PROVE  /\ r \notin DOMAIN rows' /\ SlotRight(r)'
         /\ \A q \in Rids \ {r} : SameSlot(q)
         /\ \A n : ~RowNames(rows', r, n)
<1>1. PICK a, b, c, d : a = rows /\ b = given /\ c = rows' /\ d = given'
  OBVIOUS
<1>2. /\ DOMAIN c = DOMAIN a \ {r} /\ \A q \in DOMAIN a : q # r => c[q] = a[q]
      /\ \A q \in DOMAIN a : q # r => d[q] = b[q]
  BY <1>1 DEF Without
<1>3. r \notin DOMAIN c /\ \A q \in Rids \ {r} : SameSlot(q)
  BY <1>1, <1>2 DEF SameSlot
<1>4. \A n : ~RowNames(rows', r, n)
  BY <1>1, <1>3 DEF RowNames
<1>5. SlotRight(r)'
  BY <1>1, <1>3 DEF SlotRight, RowRight
<1> QED BY <1>1, <1>3, <1>4, <1>5

LEMMA UndoRowContents ==
  ASSUME IInv, IInv', ContentInv, NEW t \in Threads, UndoRow(t)
  PROVE  ContentInv'
<1>1. PICK r : r = th[t].rid
  OBVIOUS
<1>2. /\ ThreadOK(th[t], files) /\ th[t].pc = "unrow" /\ r \in Rids /\ HoldInv
      /\ DOMAIN given = DOMAIN rows
  BY <1>1, ThreadType DEF UndoRow, ThreadOK, Working, ContentInv, IInv, TypeInv
<1>3. /\ th' = [th EXCEPT ![t] = Idle] /\ suspect \subseteq suspect' /\ EraseTexts(th[t].data)
      /\ UNCHANGED <<indexes, next_overflow_text_id, forced_null_fields, stale, aged>>
      /\ \/ rows' = Without(rows, r) /\ given' = Without(given, r)
         \/ UNCHANGED <<rows, given>> /\ suspect' = suspect \cup {r}
  BY <1>1 DEF UndoRow, Done, Set
<1>4. /\ r \in DOMAIN rows' => RecOK(rows'[r]) /\ ValsOK(given'[r])
      /\ r \notin suspect' => SlotRight(r)'
      /\ \A q \in Rids \ {r} : SameSlot(q)
      /\ \A n : RowNames(rows', r, n) => RowNames(rows, r, n)
  <2>1. CASE rows' = Without(rows, r) /\ given' = Without(given, r)
    BY <1>2, <1>3, <2>1, WithoutRow
  <2>2. CASE UNCHANGED <<rows, given>> /\ suspect' = suspect \cup {r}
    BY <1>2, <1>3, <2>2, SlotStays DEF HoldInv
  <2> QED BY <1>3, <2>1, <2>2
<1>5. \A n \in Nat : Names(th[t].data, n) => InSlot(r, n)
  BY <1>1, <1>2 DEF InSlot, SlotNames, Working
<1>6. /\ \A n : n \in DOMAIN overflow_texts' => n \in DOMAIN overflow_texts /\ ~Names(th[t].data, n)
      /\ TextsMove(t, r)
  BY <1>2, <1>3, <1>5, EraseIs
<1>7. MarkersMove(t, Idle, r)
  BY <1>4, IdleHolds DEF MarkersMove, InSlot
<1>8. NoneLost(t, Idle, r)
  <2> SUFFICES ASSUME suspect' = {}, NEW n \in DOMAIN overflow_texts',
                      n \notin DOMAIN overflow_texts \/ RowNames(rows, r, n) \/ Pends(th[t], n) \/ Clears(th[t], n)
               PROVE  FALSE
    BY DEF NoneLost
  <2>0. r \notin suspect
    BY <1>3
  <2>1. rows[r] = th[t].data
    BY <1>1, <1>2, <2>0 DEF IInv, WorkInv, WorkOK
  <2>2. ~Pends(th[t], n) /\ ~Clears(th[t], n)
    BY <1>2 DEF Pends, Clears, Replaces
  <2> QED BY <1>6, <2>1, <2>2 DEF RowNames
<1>9. /\ \A i \in 1 .. Len(indexes') : MetaOK(indexes'[i])
      /\ r \in Rids \cup {None} /\ th[t].rid \in {r, None}
  BY <1>1, <1>2, <1>3 DEF HoldInv
<1> QED BY <1>3, <1>4, <1>6, <1>7, <1>8, <1>9, IdleHolds, ContentStep

LEMMA DropRowContents ==
  ASSUME IInv, IInv', ContentInv, NEW t \in Threads, DropRow(t)
  PROVE  ContentInv'
<1>1. PICK r : r = th[t].rid
  OBVIOUS
<1>2. /\ ThreadOK(th[t], files) /\ th[t].pc = "leave" /\ r \in Rids /\ HoldInv /\ HeldOK(th[t])
      /\ PendRight(th[t], overflow_texts, stale)
      /\ DOMAIN given = DOMAIN rows
  BY <1>1, ThreadType DEF DropRow, ThreadOK, Working, ContentInv, HoldInv, ValueInv, IInv, TypeInv
<1>3. /\ suspect \subseteq suspect' /\ \A i \in 1 .. Len(indexes') : MetaOK(indexes'[i])
      /\ UNCHANGED <<indexes, overflow_texts, next_overflow_text_id, forced_null_fields, stale, aged>>
  BY <1>2 DEF DropRow, memory, HoldInv
<1>6. PICK s : s = [th[t] EXCEPT !.pc = "clear"]
  OBVIOUS
<1>4. CASE /\ th' = [th EXCEPT ![t] = s]
           /\ rows' = Without(rows, r) /\ given' = Without(given, r)
           /\ suspect' = {} => rows[r] = th[t].data
  <2>2. /\ th' = [th EXCEPT ![t] = s]
        /\ rows' = Without(rows, r) /\ given' = Without(given, r)
        /\ suspect' = {} => rows[r] = th[t].data
    BY <1>4
  <2>3. /\ s.pc = "clear" /\ s.rid = r /\ s.op = th[t].op /\ s.rest = th[t].rest /\ s.data = th[t].data
        /\ s.vals = th[t].vals /\ s.forced = th[t].forced /\ s.new = th[t].new /\ s.set = th[t].set
    BY <1>1, <1>2, <1>6 DEF ThreadOK, ThreadFields
  <2>4. /\ r \notin DOMAIN rows' /\ SlotRight(r)'
        /\ \A q \in Rids \ {r} : SameSlot(q)
        /\ \A n : ~RowNames(rows', r, n)
    BY <1>2, <1>3, <2>2, WithoutRow
  <2>5. HeldOK(s)
    BY <1>2, <2>3 DEF HeldOK, Copies, Replaces, Working, Fills
  <2>6. TextsMove(t, r)
    BY <1>2, <1>3, TextsStay
  <2>7. /\ \A n : (Pends(s, n) <=> Pends(th[t], n)) /\ ~Clears(th[t], n)
        /\ \A n : Clears(s, n) <=> Names(th[t].data, n)
        /\ \A q, n : SlotNames(s, q, n) => SlotNames(th[t], q, n)
        /\ PendRight(s, overflow_texts, stale)
    BY <1>1, <1>2, <2>3 DEF Pends, Clears, SlotNames, PendRight, Replaces, Copies, Working
  <2>8. MarkersMove(t, s, r)
    BY <2>4, <2>7 DEF MarkersMove, InSlot
  <2>9. NoneLost(t, s, r)
    BY <1>3, <2>2, <2>7 DEF NoneLost, RowNames
  <2>10. /\ PendRight(s, overflow_texts', stale)
         /\ r \in Rids \cup {None} /\ th[t].rid \in {r, None} /\ s.rid \in {r, None}
    BY <1>1, <1>2, <1>3, <2>3, <2>7
  <2> QED BY <1>3, <2>2, <2>4, <2>5, <2>6, <2>8, <2>9, <2>10, ContentStep
<1>5. CASE th' = [th EXCEPT ![t] = Idle] /\ suspect' = suspect \cup {r} /\ UNCHANGED <<rows, given>>
  <2>1. /\ th' = [th EXCEPT ![t] = Idle] /\ suspect' = suspect \cup {r} /\ UNCHANGED <<rows, given>>
    BY <1>5
  <2>2. Goes(t, Idle, r)
    BY <2>1, IdleHolds DEF Goes
  <2>3. UNCHANGED <<rows, given, memory, stale, aged>> /\ r \in Rids \cup {None} /\ th[t].rid \in {r, None}
    BY <1>1, <1>2, <1>3, <2>1 DEF memory
  <2> QED BY <1>3, <2>1, <2>2, <2>3, IdleHolds, ContentGoes
<1> QED BY <1>1, <1>4, <1>5, <1>6 DEF DropRow, Done, Set

LEMMA ClearRowContents ==
  ASSUME IInv, IInv', ContentInv, NEW t \in Threads, ClearRow(t)
  PROVE  ContentInv'
<1>1. PICK r, p : r = th[t].rid /\ p = th[t]
  OBVIOUS
<1>2. PICK s, u :
        /\ s = [Idle EXCEPT !.pc = "next", !.op = p.op, !.rest = p.rest]
        /\ u = [p EXCEPT !.pc = "check", !.i = 1, !.rid = None, !.data = p.new, !.new = None]
  OBVIOUS
<1>3. /\ ThreadOK(p, files) /\ p.pc = "clear" /\ r \in Rids /\ p.rid = r
      /\ HoldInv /\ SoleInv /\ ValueInv /\ HeldOK(p) /\ PendRight(p, overflow_texts, stale)
  BY <1>1, ThreadType DEF ClearRow, ThreadOK, Working, ContentInv, HoldInv, ValueInv
<1>4. PICK v : /\ th' = [th EXCEPT ![t] = v]
               /\ (v = s /\ p.op = "delete") \/ (v = u /\ p.op # "delete")
  BY <1>1, <1>2 DEF ClearRow, Set
<1>5. /\ EraseTexts(p.data) /\ forced_null_fields' = Without(forced_null_fields, r)
      /\ UNCHANGED <<rows, given, indexes, next_overflow_text_id, stale, aged, suspect>>
  BY <1>1 DEF ClearRow
<1>6. \A n \in Nat : Names(p.data, n) => InSlot(r, n)
  BY <1>1, <1>3 DEF InSlot, SlotNames, Working
<1>7. /\ \A n : n \in DOMAIN overflow_texts' <=> n \in DOMAIN overflow_texts /\ ~Names(p.data, n)
      /\ \A n \in DOMAIN overflow_texts' : overflow_texts'[n] = overflow_texts[n]
      /\ TextsMove(t, r)
  <2>1. \A n \in Nat : Names(p.data, n) => Pends(th[t], n) \/ (r \in Rids /\ InSlot(r, n))
    BY <1>3, <1>6
  <2>2. EraseTexts(p.data) /\ UNCHANGED <<next_overflow_text_id, stale>>
    BY <1>5
  <2> QED BY <1>3, <2>1, <2>2, EraseIs
<1>8. \A q \in Rids \ {r} : SameSlot(q)
  <2>1. \A q : q # r => ForcedAt(forced_null_fields', q) = ForcedAt(forced_null_fields, q)
    BY <1>5 DEF ForcedAt, Without
  <2> QED BY <1>5, <2>1 DEF SameSlot
<1>9. /\ v.rid = None /\ v.op = p.op /\ v.rest = p.rest /\ v.pc \in {"next", "check"}
      /\ v.pc = "check" <=> p.op # "delete"
      /\ v.pc = "check" => v.data = p.new /\ v.vals = p.vals /\ v.forced = p.forced /\ v.set = p.set
  <2>1. CASE v = s /\ p.op = "delete"
    BY <1>2, <2>1 DEF Idle
  <2>2. CASE v = u /\ p.op # "delete"
    BY <1>2, <1>3, <2>2 DEF ThreadOK, ThreadFields
  <2> QED BY <1>4, <2>1, <2>2
<1>10. HeldOK(v)
  BY <1>3, <1>9 DEF HeldOK, Copies, Replaces, Working, Fills
<1>11. /\ \A n : Pends(v, n) <=> Pends(p, n)
       /\ \A q, n : SlotNames(v, q, n) => SlotNames(p, q, n)
       /\ \A n : Clears(p, n) => Names(p.data, n)
  BY <1>3, <1>9 DEF Pends, Clears, SlotNames, Replaces, Copies, Working
<1>12. MarkersMove(t, v, r)
  BY <1>1, <1>5, <1>11 DEF MarkersMove, InSlot
<1>13. NoneLost(t, v, r)
  BY <1>1, <1>5, <1>7, <1>11 DEF NoneLost
<1>14. PendRight(v, overflow_texts', stale)
  <2> SUFFICES ASSUME v.pc = "check"
               PROVE  Holds(v.data, v.vals, v.forced, overflow_texts', stale) /\ Accepted(v.vals, v.forced)
    BY <1>9 DEF PendRight, Replaces
  <2>1. Replaces(p)
    BY <1>3, <1>9 DEF Replaces
  <2>2. /\ Holds(p.new, p.vals, p.forced, overflow_texts, stale) /\ Accepted(p.vals, p.forced)
        /\ ValsOK(p.vals)
    BY <1>3, <2>1 DEF PendRight, HeldOK
  <2>3. \A n \in Nat \ stale : Names(p.new, n) =>
          /\ n \in DOMAIN overflow_texts <=> n \in DOMAIN overflow_texts'
          /\ n \in DOMAIN overflow_texts => overflow_texts'[n] = overflow_texts[n]
    <3> SUFFICES ASSUME NEW n \in Nat \ stale, Names(p.new, n), n \in DOMAIN overflow_texts
                 PROVE  n \in DOMAIN overflow_texts' /\ overflow_texts'[n] = overflow_texts[n]
      BY <1>7
    <3>1. Pends(th[t], n)
      BY <1>1, <2>1 DEF Pends
    <3>2. ~InSlot(r, n)
      BY <1>3, <3>1 DEF SoleInv
    <3>3. ~Names(p.data, n)
      BY <1>6, <3>2
    <3> QED BY <1>7, <3>3
  <2>4. Holds(p.new, p.vals, p.forced, overflow_texts', stale)
    BY <2>2, <2>3, HoldsKept
  <2> QED BY <1>9, <2>2, <2>4
<1>15. r \in Rids \ suspect' => SlotRight(r)'
  <2> SUFFICES ASSUME r \notin suspect
               PROVE  SlotRight(r)'
    BY <1>5
  <2>1. r \notin DOMAIN rows
    BY <1>1, <1>3 DEF ValueInv, SlotRight
  <2>2. r \notin DOMAIN rows'
    BY <1>5, <2>1
  <2> QED BY <2>2 DEF SlotRight, RowRight
<1>16. /\ r \in DOMAIN rows' => RecOK(rows'[r]) /\ ValsOK(given'[r])
       /\ \A i \in 1 .. Len(indexes') : MetaOK(indexes'[i])
       /\ r \in Rids \cup {None} /\ th[t].rid \in {r, None} /\ v.rid \in {r, None} /\ suspect \subseteq suspect'
  BY <1>1, <1>3, <1>5, <1>9 DEF HoldInv
<1> QED BY <1>4, <1>7, <1>8, <1>10, <1>12, <1>13, <1>14, <1>15, <1>16, ContentStep

LEMMA BuildIndexContents ==
  ASSUME IInv, IInv', ContentInv, NEW t \in Threads, NEW meta \in NewIndexes, BuildIndex(t, meta)
  PROVE  ContentInv'
<1>1. PICK ix : ix = [name |-> meta.name, fields |-> meta.fields, unique |-> meta.unique, entries |-> Entries(meta)]
  OBVIOUS
<1>2. PICK s : s = [Idle EXCEPT !.pc = "publish", !.op = "index", !.ix = ix]
  OBVIOUS
<1>3. /\ ThreadOK(th[t], files) /\ th[t].pc = "idle" /\ th[t].rid = None /\ HoldInv /\ HeldOK(th[t])
      /\ PendRight(th[t], overflow_texts, stale)
  BY ThreadType DEF BuildIndex, ThreadOK, Working, ContentInv, HoldInv, ValueInv
<1>4. /\ UNCHANGED <<rows, given, indexes, memory, stale, aged>> /\ suspect \subseteq suspect'
      /\ \A i \in 1 .. Len(indexes') : MetaOK(indexes'[i])
  BY <1>3 DEF BuildIndex, EnterRows, HoldInv
<1>7. UNCHANGED th \/ EnterRows(t, meta)
  BY DEF BuildIndex
<1>5. CASE UNCHANGED th
  <2>1. th' = [th EXCEPT ![t] = th[t]]
    BY <1>5 DEF IInv, TypeInv
  <2>2. \A q \in Rids, n \in Nat : SlotNames(th[t], q, n) => InSlot(q, n)
    BY DEF InSlot
  <2>3. Goes(t, th[t], None)
    BY <1>3, <2>2, RidAssumption DEF Goes
  <2> QED BY <1>3, <1>4, <2>1, <2>3, ContentGoes
<1>6. CASE EnterRows(t, meta)
  <2>1. th' = [th EXCEPT ![t] = s]
    BY <1>1, <1>2, <1>6 DEF EnterRows, Set
  <2>2. s.pc = "publish" /\ s.op = "index" /\ s.rid = None /\ s.ix.fields = meta.fields
    BY <1>1, <1>2 DEF Idle
  <2>3. MetaOK(s.ix)
    <3>1. meta.fields \in Seq(Fields)
      BY NewIndexAssumption
    <3> QED BY <2>2, <3>1 DEF MetaOK
  <2>4. HeldOK(s)
    BY <2>2, <2>3 DEF HeldOK, Copies, Replaces, Working, Fills
  <2>5. Goes(t, s, None)
    <3>1. \A n : ~Pends(th[t], n) /\ ~Clears(th[t], n) /\ ~Pends(s, n)
      BY <1>3, <2>2 DEF Pends, Clears, Replaces
    <3>2. \A q, n : ~SlotNames(s, q, n)
      BY <2>2 DEF SlotNames, Copies, Working
    <3>3. PendRight(s, overflow_texts, stale)
      BY <2>2 DEF PendRight, Replaces
    <3> QED BY <3>1, <3>2, <3>3, RidAssumption DEF Goes
  <2> QED BY <1>3, <1>4, <2>1, <2>2, <2>4, <2>5, ContentGoes
<1> QED BY <1>5, <1>6, <1>7

\* A thread that has come to the metadata has nothing in hand.
LEMMA MetaGoes ==
  ASSUME IInv, IInv', ContentInv, NEW t \in Threads, NEW s, th' = [th EXCEPT ![t] = s],
         th[t].pc \in {"publish", "write", "rename"},
         s = Idle \/ (/\ s.pc \in {"write", "rename"} /\ s.rid = None
                      /\ s.op = "index" \/ (s.op = th[t].op /\ s.rest = th[t].rest /\ s.set = th[t].set)),
         UNCHANGED <<rows, given, memory, stale, aged>>, suspect \subseteq suspect',
         \A i \in 1 .. Len(indexes') : MetaOK(indexes'[i])
  PROVE  ContentInv'
<1>1. /\ th[t].rid = None /\ HoldInv /\ HeldOK(th[t])
  BY ThreadType DEF ThreadOK, Working, ContentInv, HoldInv
<1>2. \A n : ~Pends(th[t], n) /\ ~Clears(th[t], n)
  BY DEF Pends, Clears, Replaces
<1>3. /\ HeldOK(s) /\ s.rid = None /\ \A r, n : SlotNames(s, r, n) => SlotNames(th[t], r, n)
      /\ \A n : ~Pends(s, n) /\ PendRight(s, overflow_texts, stale)
  <2>1. CASE s = Idle
    BY <2>1, IdleHolds
  <2>2. CASE s.pc \in {"write", "rename"} /\ s.rid = None /\ s.op = "index"
    BY <2>2 DEF HeldOK, SlotNames, Pends, PendRight, Copies, Replaces, Working, Fills
  <2>3. CASE /\ s.pc \in {"write", "rename"} /\ s.rid = None
             /\ s.op = th[t].op /\ s.rest = th[t].rest /\ s.set = th[t].set
    BY <1>1, <2>3 DEF HeldOK, SlotNames, Pends, PendRight, Copies, Replaces, Working, Fills
  <2> QED BY <2>1, <2>2, <2>3
<1>4. Goes(t, s, None)
  BY <1>2, <1>3, RidAssumption DEF Goes, InSlot
<1> QED BY <1>1, <1>3, <1>4, ContentGoes

LEMMA PublishIndexContents ==
  ASSUME IInv, IInv', ContentInv, NEW t \in Threads, PublishIndex(t)
  PROVE  ContentInv'
<1>1. /\ ThreadOK(th[t], files) /\ th[t].pc = "publish" /\ th[t].rid = None /\ HoldInv /\ HeldOK(th[t])
      /\ IsSeq(indexes)
  BY ThreadType DEF PublishIndex, ThreadOK, Working, ContentInv, HoldInv, IInv, TypeInv
<1>5. PICK s : s = [Idle EXCEPT !.pc = "write", !.op = "index", !.copy = Append(table_meta, th[t].ix.name)]
  OBVIOUS
<1>2. /\ th' = [th EXCEPT ![t] = s] /\ indexes' = Append(indexes, th[t].ix)
      /\ UNCHANGED <<rows, given, memory, stale, aged>> /\ suspect \subseteq suspect'
  BY <1>5 DEF PublishIndex, Set
<1>3. \A i \in 1 .. Len(indexes') : MetaOK(indexes'[i])
  <2>1. PICK z, ix, n : z = indexes' /\ ix = th[t].ix /\ n = Len(indexes)
    OBVIOUS
  <2>2. Len(z) = n + 1 /\ z[n + 1] = ix /\ (\A i \in 1 .. n : z[i] = indexes[i]) /\ n \in Nat
    BY <1>1, <1>2, <2>1, SeqAppend DEF IsSeq
  <2>3. MetaOK(ix) /\ \A i \in 1 .. n : MetaOK(indexes[i])
    BY <1>1, <2>1 DEF HoldInv, HeldOK
  <2>4. \A i \in 1 .. n + 1 : MetaOK(z[i])
    BY <2>2, <2>3
  <2> QED BY <2>1, <2>2, <2>4
<1>6. s.pc = "write" /\ s.op = "index" /\ s.rid = None
  BY <1>5 DEF Idle
<1> QED BY <1>1, <1>2, <1>3, <1>6, MetaGoes

LEMMA MetaContents ==
  ASSUME IInv, IInv', ContentInv, NEW t \in Threads, WriteMeta(t) \/ RenameMeta(t)
  PROVE  ContentInv'
<1>1. PICK s : s = [th[t] EXCEPT !.pc = "rename"]
  OBVIOUS
<1>2. /\ ThreadOK(th[t], files) /\ HoldInv /\ th[t].pc \in {"write", "rename"}
  BY ThreadType DEF ContentInv, WriteMeta, RenameMeta
<1>3. /\ UNCHANGED <<rows, given, memory, stale, aged, indexes>> /\ suspect \subseteq suspect'
      /\ \A i \in 1 .. Len(indexes') : MetaOK(indexes'[i])
  BY <1>2 DEF WriteMeta, RenameMeta, HoldInv
<1>4. th' = [th EXCEPT ![t] = s] \/ th' = [th EXCEPT ![t] = Idle]
  BY <1>1 DEF WriteMeta, RenameMeta, Set
<1>5. s.pc = "rename" /\ s.rid = None /\ s.op = th[t].op /\ s.rest = th[t].rest /\ s.set = th[t].set
  BY <1>1, <1>2 DEF ThreadOK, ThreadFields, Working
<1> QED BY <1>2, <1>3, <1>4, <1>5, MetaGoes

\* The indexes after a restart are some of those before it.
LEMMA RestartIndexes ==
  ASSUME IInv, MetaInv, Restart
  PROVE  \A i \in 1 .. Len(indexes') : \E j \in 1 .. Len(indexes) : indexes'[i] = indexes[j]
<1>1. PICK z, m, d : z = indexes' /\ m = Len(disk_meta) /\ d = disk_meta
  OBVIOUS
<1>2. m \in Nat /\ \A i \in 1 .. m : \E j \in 1 .. Len(indexes) : d[i] = indexes[j].name
  BY <1>1 DEF MetaInv, Named, IsSeq
<1>3. z = [i \in 1 .. m |-> indexes[CHOOSE j \in 1 .. Len(indexes) : indexes[j].name = d[i]]]
  BY <1>1 DEF Restart
<1>4. Len(z) = m
  BY <1>2, <1>3, SeqTuple
<1>5. ASSUME NEW i \in 1 .. m
      PROVE  \E j \in 1 .. Len(indexes) : z[i] = indexes[j]
  <2>1. \E j \in 1 .. Len(indexes) : indexes[j].name = d[i]
    BY <1>2
  <2> QED BY <1>3, <2>1
<1> QED BY <1>1, <1>4, <1>5

LEMMA RestartContents ==
  ASSUME IInv, MetaInv, IInv', ContentInv, Restart
  PROVE  ContentInv'
<1>1. /\ \A t \in Threads : th[t] = Idle /\ th'[t] = Idle
      /\ UNCHANGED <<rows, given, suspect>>
      /\ overflow_texts' = <<>> /\ next_overflow_text_id' = 1 /\ forced_null_fields' = <<>>
      /\ aged' = DOMAIN rows /\ stale \subseteq stale'
      /\ HoldInv /\ MarkInv /\ ValueInv /\ DOMAIN rows \subseteq Rids
  BY DEF Restart, ContentInv, IInv, TypeInv
<1>2. PICK T : T = overflow_texts' /\ DOMAIN T = {}
  BY <1>1
<1>3. \A r \in DOMAIN rows, n \in Nat : Names(rows[r], n) => n \in stale'
  <2> SUFFICES ASSUME NEW r \in DOMAIN rows, NEW n \in Nat, Names(rows[r], n)
               PROVE  n \in stale'
    OBVIOUS
  <2>1. PICK f \in TextFields : rows[r][f] = Marker(n)
    BY DEF Names
  <2>2. InSlot(r, n) /\ r \in Rids
    BY <1>1 DEF InSlot, RowNames
  <2>3. n \in stale \/ n \in 1 .. next_overflow_text_id - 1
    BY <1>1, <2>2 DEF MarkInv, Known
  <2>4. n \in 1 .. next_overflow_text_id - 1 => n \in 1 .. next_overflow_text_id
    BY <1>1 DEF HoldInv, TextsOK
  <2> QED BY <2>1, <2>3, <2>4 DEF Restart
<1>4. HoldInv'
  <2>1. TextsOK(overflow_texts', next_overflow_text_id')
    BY <1>1, <1>2 DEF TextsOK
  <2>2. \A i \in 1 .. Len(indexes') : MetaOK(indexes'[i])
    BY <1>1, RestartIndexes DEF HoldInv
  <2>3. \A t \in Threads : HeldOK(th'[t])
    BY <1>1, IdleHolds
  <2> QED BY <1>1, <2>1, <2>2, <2>3 DEF HoldInv, TextsOK, HeldOK, MetaOK, RecOK, ValsOK
<1>5. MarkInv'
  <2>1. \A r \in Rids, n \in Nat : InSlot(r, n)' => n \in stale'
    <3>1. \A t \in Threads : \A r, n : ~SlotNames(th'[t], r, n)
      BY <1>1, IdleHolds
    <3> QED BY <1>1, <1>3, <3>1 DEF InSlot, RowNames
  <2>2. \A t \in Threads, n \in Nat : ~Pends(th'[t], n)
    BY <1>1, IdleHolds
  <2> QED BY <2>1, <2>2 DEF MarkInv, Known
<1>6. SoleInv' /\ LeakInv'
  BY <1>2 DEF SoleInv, LeakInv
<1>7. ValueInv'
  <2>1. \A t \in Threads : PendRight(th'[t], overflow_texts', stale')
    BY <1>1, IdleHolds
  <2>2. ASSUME NEW r \in Rids \ suspect
        PROVE  SlotRight(r)'
    <3>1. \A t \in Threads : ~Filler(th'[t], r) /\ ~Filler(th[t], r) /\ th'[t].pc # "clear"
      <4>1. Idle.pc # "clear"
        BY DEF Idle
      <4> QED BY <1>1, <4>1, IdleHolds
    <3>2. ForcedAt(forced_null_fields', r) = {}
      BY <1>1 DEF ForcedAt
    <3>3. ASSUME r \in DOMAIN rows
          PROVE  Holds(rows[r], given[r], {}, T, stale')
      <4>1. PICK F : Holds(rows[r], given[r], F, overflow_texts, stale)
        BY <1>1, <3>1, <3>3 DEF ValueInv, SlotRight, RowRight
      <4> SUFFICES ASSUME NEW f \in Fields
                   PROVE  /\ given[r][f] \in {Null, Default(f)} => rows[r][f] = Zero
                          /\ IsLong(f, given[r][f]) => \E n \in Nat : rows[r][f] = Marker(n) /\ n \in stale'
                          /\ given[r][f] \notin {Null, Default(f)} /\ ~IsLong(f, given[r][f]) =>
                              rows[r][f] = given[r][f]
        BY <1>2 DEF Holds
      <4>2. /\ given[r][f] \in {Null, Default(f)} => rows[r][f] = Zero
            /\ given[r][f] \notin {Null, Default(f)} /\ ~IsLong(f, given[r][f]) => rows[r][f] = given[r][f]
            /\ IsLong(f, given[r][f]) => \E n \in Nat : rows[r][f] = Marker(n)
        BY <4>1 DEF Holds
      <4>3. \A n \in Nat : IsLong(f, given[r][f]) /\ rows[r][f] = Marker(n) => n \in stale'
        BY <1>3, <3>3 DEF Names, IsLong
      <4> QED BY <4>2, <4>3
    <3>4. RowRight(r, rows, given, {}, T, stale', DOMAIN rows)
      BY <3>3 DEF RowRight
    <3> QED BY <1>1, <1>2, <3>1, <3>2, <3>4 DEF SlotRight, RowRight
  <2> QED BY <1>1, <2>1, <2>2 DEF ValueInv, PendRight
<1> QED BY <1>4, <1>5, <1>6, <1>7 DEF ContentInv

LEMMA InitContents == Init => ContentInv
<1> SUFFICES ASSUME Init
             PROVE  ContentInv
  OBVIOUS
<1>1. /\ \A t \in Threads : th[t] = Idle
      /\ rows = <<>> /\ overflow_texts = <<>> /\ next_overflow_text_id = 1
  BY DEF Init
<1>2. PICK T, R : T = overflow_texts /\ R = rows /\ DOMAIN T = {} /\ DOMAIN R = {}
  BY <1>1
<1>3. \A i \in 1 .. Len(indexes) : MetaOK(indexes[i])
  <2> SUFFICES ASSUME NEW i \in 1 .. Len(indexes)
               PROVE  MetaOK(indexes[i])
    OBVIOUS
  <2>1. indexes \in Seq([name : {indexes[j].name : j \in DOMAIN indexes}, fields : Seq(Fields),
                         unique : BOOLEAN, entries : {{}}])
    BY IndexAssumption DEF Init
  <2>2. PICK S, ixs : /\ S = [name : {indexes[j].name : j \in DOMAIN indexes}, fields : Seq(Fields),
                              unique : BOOLEAN, entries : {{}}]
                      /\ ixs = indexes
    OBVIOUS
  <2>3. ixs[i] \in S
    <3>1. ixs \in Seq(S) /\ i \in 1 .. Len(ixs)
      BY <2>1, <2>2
    <3> QED BY <3>1
  <2>4. \A x \in S : x.fields \in Seq(Fields)
    BY <2>2
  <2>5. indexes[i].fields \in Seq(Fields)
    BY <2>2, <2>3, <2>4
  <2> QED BY <2>5 DEF MetaOK
<1>4. HoldInv
  BY <1>1, <1>2, <1>3, IdleHolds DEF HoldInv, TextsOK
<1>5. MarkInv /\ SoleInv /\ LeakInv
  BY <1>1, <1>2, IdleHolds DEF MarkInv, SoleInv, LeakInv, InSlot, RowNames
<1>6. ValueInv
  <2>1. Idle.pc # "clear"
    BY DEF Idle
  <2> QED BY <1>1, <1>2, <2>1, IdleHolds DEF ValueInv, SlotRight, RowRight
<1> QED BY <1>4, <1>5, <1>6 DEF ContentInv

LEMMA ContentKeeps == TableInv /\ IInv' /\ ContentInv /\ [Next]_vars => ContentInv'
<1> SUFFICES ASSUME IInv, MetaInv, IInv', ContentInv, [Next]_vars
             PROVE  ContentInv'
  BY DEF TableInv
<1>1. CASE UNCHANGED vars
  BY <1>1 DEF vars, memory, history, ContentInv, HoldInv, MarkInv, SoleInv, LeakInv, ValueInv, Known, InSlot,
     SlotRight
<1>2. CASE Restart
  BY <1>2, RestartContents
<1>3. CASE Next /\ ~Restart
  <2>1. PICK t \in Threads :
          \/ \E tuples \in Tuples : Insert(t, tuples)
          \/ \E r \in DOMAIN rows : Delete(t, r)
          \/ \E S \in SUBSET DOMAIN rows, f \in Fields : \E v \in Values(f) : Update(t, S, f, v)
          \/ InsertNext(t) \/ DeleteNext(t) \/ UpdateNext(t) \/ EndStatement(t)
          \/ CheckUnique(t) \/ NoSlot(t) \/ PutRow(t) \/ EnterIndex(t) \/ RowDone(t) \/ UndoIndex(t) \/ UndoRow(t)
          \/ LeaveIndex(t) \/ DropRow(t) \/ ClearRow(t)
          \/ \E meta \in NewIndexes : BuildIndex(t, meta)
          \/ PublishIndex(t) \/ WriteMeta(t) \/ RenameMeta(t)
    BY <1>3 DEF Next
  <2> QED BY <2>1, BeginContents, InsertNextContents, DeleteNextContents, UpdateNextContents,
             EndStatementContents, CheckUniqueContents, NoSlotContents, PutRowContents, IndexStepContents, RowDoneContents,
             UndoRowContents, DropRowContents, ClearRowContents, BuildIndexContents, PublishIndexContents,
             MetaContents
<1> QED BY <1>1, <1>2, <1>3

-----------------------------------------------------------------------------
(* Which rows of a unique index have the same key: a step adds to the       *)
(* rivals who meets another insert, and takes away only itself.             *)

RivalsMove(t, s) ==
  LET inserts(x) == x.pc \in {"check", "enter", "undo", "unrow"}
  IN  /\ \A u \in Threads \ {t} : u \in rivals => u \in rivals'
      /\ inserts(s) /\ inserts(th[t]) /\ t \in rivals => t \in rivals'
      /\ inserts(s) /\ ~inserts(th[t]) => \A u \in Threads \ {t} : inserts(th[u]) => {t, u} \subseteq rivals'

\* An index loses entries, or gets the one of the row that thread t fills.
EntriesMove(t, s) ==
  /\ Len(indexes') = Len(indexes)
  /\ \A i \in 1 .. Len(indexes) :
       /\ indexes'[i].fields = indexes[i].fields /\ indexes'[i].unique = indexes[i].unique
       /\ \A e \in indexes'[i].entries :
            \/ e \in indexes[i].entries
            \/ /\ th[t].pc = "enter" /\ s.pc = "enter" /\ s.rid = th[t].rid /\ e[2] = s.rid
               /\ e[1] = Key(indexes[i], th[t].data) /\ ~SkipUniqueNullKey(indexes[i], th[t].data)

MarksMove ==
  \A i \in 1 .. Len(indexes) : \A e \in indexes[i].entries :
    e[2] \notin suspect' /\ Marked(e[2]) => Marked(e[2])'

LEMMA RivalStep ==
  ASSUME IInv, RivalInv, NEW t \in Threads, NEW s, th' = [th EXCEPT ![t] = s], RivalsMove(t, s)
  PROVE  RivalInv'
<1>1. th'[t] = s /\ \A u \in Threads \ {t} : th'[u] = th[u]
  BY OneThread
<1>2. SUFFICES ASSUME NEW u \in Threads, NEW v \in Threads, u # v, Inserting(u)', Inserting(v)'
               PROVE  u \in rivals'
  BY DEF RivalInv
<1>3. CASE u # t /\ v # t
  BY <1>1, <1>2, <1>3 DEF RivalInv, Inserting, RivalsMove
<1>4. CASE u = t
  BY <1>1, <1>2, <1>4 DEF RivalInv, Inserting, RivalsMove
<1>5. CASE v = t
  BY <1>1, <1>2, <1>5 DEF RivalInv, Inserting, RivalsMove
<1> QED BY <1>3, <1>4, <1>5

LEMMA UniqueStep ==
  ASSUME IInv, IInv', UniqueInv, NEW t \in Threads, NEW s, th' = [th EXCEPT ![t] = s],
         suspect \subseteq suspect', RivalsMove(t, s), EntriesMove(t, s), MarksMove,
         PassedOK(t)', PublishOK(s, suspect')
  PROVE  UniqueInv'
<1>0. RivalInv /\ PassedInv /\ OnceInv /\ PublishInv /\ RivalInv'
  BY RivalStep DEF UniqueInv
<1>1. th'[t] = s /\ \A u \in Threads \ {t} : th'[u] = th[u]
  BY OneThread
<1>2. PICK ixs, ixs1, n : ixs = indexes /\ ixs1 = indexes' /\ n = Len(indexes) /\ n = Len(indexes')
  BY DEF EntriesMove
\* The row that a new entry is for is marked when the thread has met another insert.
<1>3. ASSUME s.pc = "enter", s.rid \notin suspect', t \in rivals'
      PROVE  Marked(s.rid)'
  <2>1. s.rid \in Rids
    BY <1>1, <1>3 DEF IInv, TypeInv, ThreadOK, Working
  <2>2. \A u \in Threads : th'[u].rid = s.rid => u = t
    BY <1>1, <1>3, <2>1 DEF IInv, SlotInv
  <2>3. Filler(th'[t], s.rid)
    BY <1>1, <1>3 DEF Filler, Fills
  <2>4. \A q : q = s.rid => Marked(q)'
    BY <1>3, <2>2, <2>3 DEF Marked, Filler
  <2> QED BY <2>4
<1>4. \A i \in 1 .. n : \A rec :
        Key(ixs1[i], rec) = Key(ixs[i], rec)
        /\ (SkipUniqueNullKey(ixs1[i], rec) <=> SkipUniqueNullKey(ixs[i], rec))
  BY <1>2, SameKey DEF EntriesMove
<1>5. \A i \in 1 .. n : \A e \in ixs1[i].entries :
        \/ e \in ixs[i].entries
        \/ /\ th[t].pc = "enter" /\ s.pc = "enter" /\ s.rid = th[t].rid /\ e[2] = s.rid
           /\ e[1] = Key(ixs[i], th[t].data) /\ ~SkipUniqueNullKey(ixs[i], th[t].data)
  BY <1>2 DEF EntriesMove
<1>6. \A i \in 1 .. n : \A e \in ixs[i].entries : e[2] \notin suspect' /\ Marked(e[2]) => Marked(e[2])'
  BY <1>2 DEF MarksMove
<1>7. ASSUME NEW u \in Threads \ {t}, NEW i \in 1 .. n, NEW r, Met(u, ixs[i], r),
             th[u].pc \in {"check", "enter"}
      PROVE  Met(u, ixs1[i], r)'
  <2> SUFFICES ASSUME ixs1[i].unique, ~SkipUniqueNullKey(ixs1[i], th[u].data), NEW e \in ixs1[i].entries,
                      e[2] \notin suspect', e[2] # r, e[1] = Key(ixs1[i], th[u].data)
               PROVE  u \in rivals' /\ Marked(e[2])'
    BY <1>1 DEF Met
  <2>1. ixs[i].unique /\ ~SkipUniqueNullKey(ixs[i], th[u].data) /\ e[1] = Key(ixs[i], th[u].data)
    BY <1>2, <1>4 DEF EntriesMove
  <2>2. CASE e \in ixs[i].entries
    <3>1. u \in rivals /\ Marked(e[2])
      BY <1>7, <2>1, <2>2 DEF Met
    <3> QED BY <1>6, <2>2, <3>1 DEF RivalsMove
  <2>3. CASE e \notin ixs[i].entries
    <3>1. s.pc = "enter" /\ e[2] = s.rid
      BY <1>5, <2>3
    <3>2. u \in rivals' /\ t \in rivals'
      BY <1>0, <1>1, <1>7, <3>1 DEF RivalInv, Inserting
    <3> QED BY <1>3, <3>1, <3>2
  <2> QED BY <2>2, <2>3
<1>8. PassedInv'
  <2> SUFFICES ASSUME NEW u \in Threads \ {t}
               PROVE  PassedOK(u)'
    BY DEF PassedInv
  <2>1. /\ th[u].pc = "check" => /\ th[u].i \in 1 .. n + 1
                                 /\ ~th[u].unasked => \A i \in 1 .. n : i < th[u].i => Met(u, ixs[i], None)
        /\ th[u].pc = "enter" /\ th[u].rid \notin suspect => \A i \in 1 .. n : Met(u, ixs[i], th[u].rid)
    BY <1>0, <1>2 DEF PassedInv, PassedOK
  <2>2. PICK p : p = th[u] /\ p = th'[u]
    BY <1>1
  <2>3. p.pc = "check" /\ ~p.unasked => \A i \in 1 .. n : i < p.i => Met(u, ixs1[i], None)'
    BY <1>7, <2>1, <2>2
  <2>4. p.pc = "enter" /\ p.rid \notin suspect' => \A i \in 1 .. n : Met(u, ixs1[i], p.rid)'
    BY <1>7, <2>1, <2>2
  <2> QED BY <1>2, <2>1, <2>2, <2>3, <2>4 DEF PassedOK, Met
<1>9. OnceInv'
  <2> SUFFICES ASSUME NEW i \in 1 .. n, NEW d \in ixs1[i].entries, NEW e \in ixs1[i].entries,
                      ixs1[i].unique, d[1] = e[1], d[2] # e[2], d[2] \notin suspect', e[2] \notin suspect'
               PROVE  Marked(d[2])'
    BY <1>2 DEF OnceInv, Once
  <2>1. ixs[i].unique
    BY <1>2 DEF EntriesMove
  <2>2. CASE d \in ixs[i].entries /\ e \in ixs[i].entries
    <3>1. Marked(d[2])
      BY <1>0, <1>2, <2>1, <2>2 DEF OnceInv, Once
    <3> QED BY <1>6, <2>2, <3>1
  <2>3. ASSUME NEW x \in ixs[i].entries, NEW y \in {d, e}, y \notin ixs[i].entries,
               x[1] = y[1], x[2] # y[2], x[2] \notin suspect', y[2] \notin suspect'
        PROVE  Marked(x[2])' /\ Marked(y[2])'
    <3>1. /\ th[t].pc = "enter" /\ s.pc = "enter" /\ s.rid = th[t].rid /\ y[2] = s.rid
          /\ y[1] = Key(ixs[i], th[t].data) /\ ~SkipUniqueNullKey(ixs[i], th[t].data)
      BY <1>5, <2>3
    <3>2. Met(t, ixs[i], th[t].rid)
      BY <1>0, <1>2, <2>3, <3>1 DEF PassedInv, PassedOK
    <3>3. t \in rivals /\ Marked(x[2])
      BY <2>1, <2>3, <3>1, <3>2 DEF Met
    <3>4. t \in rivals'
      BY <3>1, <3>3 DEF RivalsMove
    <3> QED BY <1>3, <1>6, <2>3, <3>1, <3>3, <3>4
  <2>4. d \in ixs[i].entries \/ e \in ixs[i].entries
    BY <1>5
  <2> QED BY <2>2, <2>3, <2>4
<1>10. PublishInv'
  BY <1>0, <1>1 DEF PublishInv, PublishOK
<1> QED BY <1>0, <1>8, <1>9, <1>10 DEF UniqueInv

LEMMA EntriesStay ==
  ASSUME indexes' = indexes
  PROVE  \A t, s : EntriesMove(t, s)
BY DEF EntriesMove

\* The marks stay, but for a slot that a thread begins or ceases to fill.
LEMMA MarksStay ==
  ASSUME IInv, NEW t \in Threads, NEW s, NEW r, th' = [th EXCEPT ![t] = s], RivalsMove(t, s),
         \A q \in Rids \ {r} : (q \in raced => q \in raced') /\ (Filler(s, q) <=> Filler(th[t], q)),
         r \in Rids \ suspect' => \A i \in 1 .. Len(indexes) : Absent(indexes[i], r)
  PROVE  MarksMove
<1>1. th'[t] = s /\ \A u \in Threads \ {t} : th'[u] = th[u]
  BY OneThread
<1>2. SUFFICES ASSUME NEW i \in 1 .. Len(indexes), NEW e \in indexes[i].entries,
                      e[2] \notin suspect', Marked(e[2])
               PROVE  Marked(e[2])'
  BY DEF MarksMove
<1>3. PICK q : q = e[2] /\ q \in Rids
  BY <1>2 DEF IInv, TypeInv, IndexOK
<1>4. q # r
  BY <1>2, <1>3 DEF Absent
<1>5. \A u \in Threads : Filler(th'[u], q) => Filler(th[u], q) /\ u \in rivals'
  <2> SUFFICES ASSUME NEW u \in Threads, Filler(th'[u], q)
               PROVE  Filler(th[u], q) /\ u \in rivals'
    OBVIOUS
  <2>1. CASE u # t
    BY <1>1, <1>2, <1>3, <2>1 DEF Marked, RivalsMove
  <2>2. CASE u = t
    <3>1. Filler(s, q) /\ Filler(th[t], q)
      BY <1>1, <1>3, <1>4, <2>2
    <3>2. t \in rivals
      BY <1>2, <1>3, <3>1 DEF Marked
    <3> QED BY <2>2, <3>1, <3>2 DEF RivalsMove, Filler, Fills
  <2> QED BY <2>1, <2>2
<1>6. (\A u \in Threads : ~Filler(th'[u], q)) => q \in raced'
  <2> HAVE \A u \in Threads : ~Filler(th'[u], q)
  <2>1. \A u \in Threads : ~Filler(th[u], q)
    BY <1>1, <1>3, <1>4
  <2> QED BY <1>2, <1>3, <1>4, <2>1 DEF Marked
<1>7. Marked(q)'
  BY <1>5, <1>6 DEF Marked
<1> QED BY <1>3, <1>7

\* A step of a thread that has no row being filled, and does not begin to insert.
LEMMA AsideStep ==
  ASSUME IInv, IInv', UniqueInv, NEW t \in Threads, NEW s, th' = [th EXCEPT ![t] = s],
         suspect \subseteq suspect', EntriesMove(t, s),
         s.pc \notin Fills \cup {"check"}, th[t].pc \notin Fills, raced' = raced,
         \A u \in Threads \ {t} : u \in rivals => u \in rivals', PublishOK(s, suspect')
  PROVE  UniqueInv'
<1>1. th'[t] = s /\ \A u \in Threads \ {t} : th'[u] = th[u]
  BY OneThread
<1>2. RivalsMove(t, s)
  BY DEF RivalsMove, Fills
<1>3. MarksMove
  <2>1. \A q \in Rids \ {None} : (q \in raced => q \in raced') /\ (Filler(s, q) <=> Filler(th[t], q))
    BY DEF Filler
  <2> QED BY <1>2, <2>1, RidAssumption, MarksStay
<1>4. PassedOK(t)'
  BY <1>1 DEF PassedOK, Fills
<1> QED BY <1>2, <1>3, <1>4, UniqueStep

\* What an insert has met it has met after the step as well.
LEMMA MetKept ==
  ASSUME IInv, NEW t \in Threads, NEW s, th' = [th EXCEPT ![t] = s], s.data = th[t].data,
         suspect \subseteq suspect', EntriesMove(t, s), MarksMove, t \in rivals => t \in rivals',
         NEW i \in 1 .. Len(indexes), NEW q, MetAt(t, i, None) \/ MetAt(t, i, q),
         th[t].pc = "enter" => q = th[t].rid
  PROVE  MetAt(t, i, q)'
<1>1. th'[t] = s
  BY OneThread
<1>2. PICK ix, z : ix = indexes[i] /\ z = indexes'[i] /\ ix.fields = z.fields /\ ix.unique = z.unique
  BY DEF EntriesMove
<1>3. \A rec : Key(z, rec) = Key(ix, rec) /\ (SkipUniqueNullKey(z, rec) <=> SkipUniqueNullKey(ix, rec))
  BY <1>2, SameKey
<1>4. ASSUME z.unique, ~SkipUniqueNullKey(z, s.data), NEW e \in z.entries,
             e[2] \notin suspect', e[2] # q, e[1] = Key(z, s.data)
      PROVE  t \in rivals' /\ Marked(e[2])'
  <2>1. e \in ix.entries
    BY <1>2, <1>4 DEF EntriesMove
  <2>2. e[2] \in Rids
    BY <1>2, <2>1 DEF IInv, TypeInv, IndexOK
  <2>3. e[2] \notin {None, q} /\ e[2] \notin suspect
    BY <1>4, <2>2, RidAssumption
  <2>4. t \in rivals /\ Marked(e[2])
    BY <1>2, <1>3, <1>4, <2>1, <2>3 DEF Met, MetAt
  <2> QED BY <1>2, <1>4, <2>1, <2>4 DEF MarksMove
<1> QED BY <1>1, <1>2, <1>4 DEF Met, MetAt

LEMMA BeginRivals ==
  ASSUME IInv, IInv', UniqueInv, NEW t \in Threads,
         \/ \E tuples \in Tuples : Insert(t, tuples)
         \/ \E r \in DOMAIN rows : Delete(t, r)
         \/ \E S \in SUBSET DOMAIN rows, f \in Fields : \E v \in Values(f) : Update(t, S, f, v)
  PROVE  UniqueInv'
<1>1. th[t].pc = "idle" /\ UNCHANGED <<indexes, suspect, raced, rivals>>
  BY DEF Insert, Delete, Update, Begin, history
<1>2. PICK s : th' = [th EXCEPT ![t] = s] /\ s.pc \in {"idle", "next"}
  <2>1. th' = [th EXCEPT ![t] = th[t]] \/ \E s : th' = [th EXCEPT ![t] = s] /\ s.pc = "next"
    <3>1. th = [th EXCEPT ![t] = th[t]]
      BY DEF IInv, TypeInv
    <3>2. ASSUME NEW tuples, Insert(t, tuples)
          PROVE  \E s : th' = [th EXCEPT ![t] = s] /\ s.pc = "next"
      <4>1. PICK s : s = [Idle EXCEPT !.pc = "next", !.op = "insert", !.rest = tuples]
        OBVIOUS
      <4>2. th' = [th EXCEPT ![t] = s]
        BY <3>2, <4>1 DEF Insert, Set
      <4>3. s.pc = "next"
        BY <4>1 DEF Idle
      <4> QED BY <4>2, <4>3
    <3>3. ASSUME NEW r, Delete(t, r)
          PROVE  \E s : th' = [th EXCEPT ![t] = s] /\ s.pc = "next"
      <4>1. PICK s : s = [Idle EXCEPT !.pc = "next", !.op = "delete", !.rest = Collected({r})]
        OBVIOUS
      <4>2. th' = [th EXCEPT ![t] = s]
        BY <3>3, <4>1 DEF Delete, Set
      <4>3. s.pc = "next"
        BY <4>1 DEF Idle
      <4> QED BY <4>2, <4>3
    <3>4. ASSUME NEW S, NEW f, NEW v, Update(t, S, f, v)
          PROVE  th' = th \/ \E s : th' = [th EXCEPT ![t] = s] /\ s.pc = "next"
      <4>1. PICK s : s = [Idle EXCEPT !.pc = "next", !.op = "update", !.rest = Collected(S),
                                      !.set = [field |-> f, value |-> Kept(f, v)]]
        OBVIOUS
      <4>2. th' = th \/ th' = [th EXCEPT ![t] = s]
        BY <3>4, <4>1 DEF Update, Set
      <4>3. s.pc = "next"
        BY <4>1 DEF Idle
      <4> QED BY <4>2, <4>3
    <3> QED BY <3>1, <3>2, <3>3, <3>4
  <2> QED BY <1>1, <2>1
<1>3. EntriesMove(t, s)
  BY <1>1, EntriesStay
<1> QED BY <1>1, <1>2, <1>3, AsideStep DEF Fills, PublishOK

\* An insert that starts makes rivals of itself and the others that are under way.
LEMMA StartStep ==
  ASSUME IInv, IInv', UniqueInv, NEW t \in Threads, NEW s, th' = [th EXCEPT ![t] = s],
         s.pc = "check", s.i = 1, th[t].pc \notin Fills \cup {"check"},
         UNCHANGED <<indexes, suspect, raced>>,
         LET others == {u \in Threads \ {t} : Inserting(u)}
         IN  rivals' = IF others = {} THEN rivals ELSE rivals \cup others \cup {t}
  PROVE  UniqueInv'
<1>1. th'[t] = s
  BY OneThread
<1>2. RivalsMove(t, s)
  <2>1. \A u \in Threads \ {t} : Inserting(u) => {t, u} \subseteq rivals'
    OBVIOUS
  <2>2. rivals \subseteq rivals'
    OBVIOUS
  <2> QED BY <2>1, <2>2 DEF RivalsMove, Inserting
<1>3. MarksMove
  <2>1. \A q \in Rids \ {None} : (q \in raced => q \in raced') /\ (Filler(s, q) <=> Filler(th[t], q))
    BY DEF Filler, Fills
  <2> QED BY <1>2, <2>1, RidAssumption, MarksStay
<1>4. PassedOK(t)'
  <2>1. Len(indexes') \in Nat
    BY DEF IInv, TypeInv, IsSeq
  <2> QED BY <1>1, <2>1 DEF PassedOK
<1>5. EntriesMove(t, s) /\ PublishOK(s, suspect')
  BY EntriesStay DEF PublishOK
<1> QED BY <1>2, <1>3, <1>4, <1>5, UniqueStep

LEMMA InsertNextRivals ==
  ASSUME IInv, IInv', UniqueInv, NEW t \in Threads, InsertNext(t)
  PROVE  UniqueInv'
<1>1. PICK tuple, kept : tuple = Head(th[t].rest) /\ kept = [f \in Fields |-> Kept(f, tuple.vals[f])]
  OBVIOUS
<1>2. ThreadOK(th[t], files) /\ th[t].pc = "next" /\ UNCHANGED <<indexes, suspect, raced>>
  BY ThreadType DEF InsertNext
<1>3. CASE Accepts(kept, tuple.forced)
  <2>1. PICK vals, rec : /\ vals = [f \in Fields |-> IF f \in tuple.forced THEN Null ELSE kept[f]]
                         /\ rec = Record(kept, tuple.forced)
    OBVIOUS
  <2>2. PICK s : s = [th[t] EXCEPT !.pc = "check", !.rest = Tail(@), !.i = 1, !.data = rec, !.vals = vals,
                                   !.forced = tuple.forced]
    OBVIOUS
  <2>3. /\ th' = [th EXCEPT ![t] = s]
        /\ rivals' = IF {u \in Threads \ {t} : Inserting(u)} = {} THEN rivals
                     ELSE rivals \cup {u \in Threads \ {t} : Inserting(u)} \cup {t}
    BY <1>1, <1>3, <2>1, <2>2 DEF InsertNext, Set
  <2>4. s.pc = "check" /\ s.i = 1
    BY <1>2, <2>2 DEF ThreadOK, ThreadFields
  <2> QED BY <1>2, <2>3, <2>4, StartStep DEF Fills
<1>4. CASE ~Accepts(kept, tuple.forced)
  <2>1. th' = [th EXCEPT ![t] = Idle] /\ rivals' = rivals \ {t}
    BY <1>1, <1>4 DEF InsertNext, Done, Set
  <2>2. Idle.pc = "idle"
    BY DEF Idle
  <2>3. EntriesMove(t, Idle)
    BY <1>2, EntriesStay
  <2> QED BY <1>2, <2>1, <2>2, <2>3, AsideStep DEF Fills, PublishOK
<1> QED BY <1>3, <1>4

LEMMA NextRivals ==
  ASSUME IInv, IInv', UniqueInv, NEW t \in Threads, DeleteNext(t) \/ UpdateNext(t) \/ EndStatement(t)
  PROVE  UniqueInv'
<1>1. /\ ThreadOK(th[t], files) /\ th[t].pc = "next"
      /\ UNCHANGED <<indexes, raced>> /\ suspect \subseteq suspect'
      /\ \A u \in Threads \ {t} : u \in rivals => u \in rivals'
  BY ThreadType DEF DeleteNext, UpdateNext, EndStatement, Done
<1>2. PICK s : th' = [th EXCEPT ![t] = s] /\ s.pc \in {"leave", "idle"}
  <2>1. CASE DeleteNext(t)
    <3>1. PICK r : r = First(DOMAIN th[t].rest)
      OBVIOUS
    <3>2. PICK s : s = [th[t] EXCEPT !.pc = "leave", !.i = 1, !.rid = r, !.data = th[t].rest[r],
                                     !.rest = Without(@, r)]
      OBVIOUS
    <3>3. th' = [th EXCEPT ![t] = s]
      BY <2>1, <3>1, <3>2 DEF DeleteNext, Set
    <3>4. s.pc = "leave"
      BY <1>1, <3>2 DEF ThreadOK, ThreadFields
    <3> QED BY <3>3, <3>4
  <2>2. CASE UpdateNext(t)
    <3>1. PICK r, old, set : r = First(DOMAIN th[t].rest) /\ old = th[t].rest[r] /\ set = th[t].set
      OBVIOUS
    <3>2. th' = [th EXCEPT ![t] = Updated(t, r, old, set)]
      BY <2>2, <3>1, UpdateIs
    <3>3. Updated(t, r, old, set).pc = "leave"
      BY <1>1 DEF Updated, ThreadOK, ThreadFields
    <3> QED BY <3>2, <3>3
  <2>3. CASE EndStatement(t)
    <3>1. th' = [th EXCEPT ![t] = Idle]
      BY <2>3 DEF EndStatement, Done, Set
    <3>2. Idle.pc = "idle"
      BY DEF Idle
    <3> QED BY <3>1, <3>2
  <2> QED BY <2>1, <2>2, <2>3
<1>3. EntriesMove(t, s)
  BY <1>1, EntriesStay
<1> QED BY <1>1, <1>2, <1>3, AsideStep DEF Fills, PublishOK

LEMMA CheckUniqueRivals ==
  ASSUME IInv, IInv', UniqueInv, NEW t \in Threads, CheckUnique(t)
  PROVE  UniqueInv'
<1>1. PICK p, s, z, k : /\ p = th[t] /\ k = p.i
                        /\ s = [p EXCEPT !.i = @ + 1] /\ z = [p EXCEPT !.i = @ + 1, !.unasked = TRUE]
  OBVIOUS
<1>2. /\ ThreadOK(p, files) /\ p.pc = "check" /\ k <= Len(indexes) /\ PassedOK(t)
      /\ UNCHANGED <<indexes, suspect, raced>> /\ Len(indexes) \in Nat
  BY <1>1, ThreadType DEF CheckUnique, UniqueInv, PassedInv, IInv, TypeInv, IsSeq
<1>3. k \in 1 .. Len(indexes) /\ (~p.unasked => \A i \in 1 .. Len(indexes) : i < k => MetAt(t, i, None))
  BY <1>1, <1>2 DEF PassedOK, MetAt
<1>4. CASE th' = [th EXCEPT ![t] = Idle] /\ rivals' = rivals \ {t}
  <2>1. Idle.pc = "idle"
    BY DEF Idle
  <2>2. EntriesMove(t, Idle)
    BY <1>2, EntriesStay
  <2> QED BY <1>1, <1>2, <1>4, <2>1, <2>2, AsideStep DEF Fills, PublishOK
<1>5. ASSUME NEW x, th' = [th EXCEPT ![t] = x], rivals' = rivals,
             x.pc = "check", x.i = k + 1, x.data = th[t].data, x.rid = th[t].rid,
             x.unasked \/ (/\ x.unasked = p.unasked
                           /\ ~(indexes[k].unique /\ ~SkipUniqueNullKey(indexes[k], p.data)
                                /\ HasKey(indexes[k], Key(indexes[k], p.data))))
      PROVE  UniqueInv'
  <2>1. th'[t] = x
    BY <1>5, OneThread
  <2>2. RivalsMove(t, x) /\ EntriesMove(t, x)
    BY <1>1, <1>2, <1>5, EntriesStay DEF RivalsMove
  <2>3. MarksMove
    <3>1. \A q \in Rids \ {None} : (q \in raced => q \in raced') /\ (Filler(x, q) <=> Filler(th[t], q))
      BY <1>1, <1>2, <1>5 DEF Filler, Fills
    <3> QED BY <1>5, <2>2, <3>1, RidAssumption, MarksStay
  <2>4. ~x.unasked => MetAt(t, k, None)
    BY <1>1, <1>5 DEF Met, MetAt, HasKey
  <2>5. ~x.unasked => \A i \in 1 .. Len(indexes) : i < k + 1 => MetAt(t, i, None)
    BY <1>3, <1>5, <2>4
  <2>6. ~x.unasked => \A i \in 1 .. Len(indexes) : i < k + 1 => MetAt(t, i, None)'
    <3> SUFFICES ASSUME ~x.unasked, NEW i \in 1 .. Len(indexes), i < k + 1
                 PROVE  MetAt(t, i, None)'
      OBVIOUS
    <3>1. MetAt(t, i, None) /\ th[t].pc # "enter" /\ suspect \subseteq suspect' /\ (t \in rivals => t \in rivals')
      BY <1>1, <1>2, <1>5, <2>5
    <3>2. \A n : n = None => MetAt(t, i, n)'
      BY <1>5, <2>1, <2>2, <2>3, <3>1, MetKept
    <3> QED BY <3>2
  <2>7. PassedOK(t)'
    <3>1. k + 1 \in 1 .. Len(indexes') + 1 /\ Len(indexes') = Len(indexes)
      BY <1>2, <1>3
    <3> QED BY <1>5, <2>1, <2>6, <3>1 DEF PassedOK, MetAt
  <2>8. PublishOK(x, suspect') /\ suspect \subseteq suspect'
    BY <1>2, <1>5 DEF PublishOK
  <2> QED BY <1>5, <2>2, <2>3, <2>7, <2>8, UniqueStep
<1>6. \/ th' = [th EXCEPT ![t] = Idle] /\ rivals' = rivals \ {t}
      \/ /\ th' = [th EXCEPT ![t] = s] /\ rivals' = rivals
         /\ ~(indexes[k].unique /\ ~SkipUniqueNullKey(indexes[k], p.data)
              /\ HasKey(indexes[k], Key(indexes[k], p.data)))
      \/ th' = [th EXCEPT ![t] = z] /\ rivals' = rivals
  BY <1>1 DEF CheckUnique, Done, Set
<1>7. /\ s.pc = "check" /\ s.i = k + 1 /\ s.data = th[t].data /\ s.rid = th[t].rid /\ s.unasked = p.unasked
      /\ z.pc = "check" /\ z.i = k + 1 /\ z.data = th[t].data /\ z.rid = th[t].rid /\ z.unasked
  BY <1>1, <1>2 DEF ThreadOK, ThreadFields
<1>8. CASE th' = [th EXCEPT ![t] = z] /\ rivals' = rivals
  BY <1>5, <1>7, <1>8
<1>9. CASE /\ th' = [th EXCEPT ![t] = s] /\ rivals' = rivals
           /\ ~(indexes[k].unique /\ ~SkipUniqueNullKey(indexes[k], p.data)
                /\ HasKey(indexes[k], Key(indexes[k], p.data)))
  BY <1>5, <1>7, <1>9
<1> QED BY <1>4, <1>6, <1>8, <1>9

LEMMA NoSlotRivals ==
  ASSUME IInv, IInv', UniqueInv, NEW t \in Threads, NoSlot(t)
  PROVE  UniqueInv'
<1>1. /\ th[t].pc = "check" /\ UNCHANGED <<indexes, raced, suspect>>
      /\ th' = [th EXCEPT ![t] = Idle] /\ rivals' = rivals \ {t}
  BY DEF NoSlot, Done, Set
<1>2. Idle.pc = "idle" /\ EntriesMove(t, Idle)
  BY <1>1, EntriesStay DEF Idle
<1> QED BY <1>1, <1>2, AsideStep DEF Fills, PublishOK

LEMMA PutRowRivals ==
  ASSUME IInv, IInv', UniqueInv, NEW t \in Threads, PutRow(t)
  PROVE  UniqueInv'
<1>1. /\ ThreadOK(th[t], files) /\ th[t].pc = "check" /\ th[t].i > Len(indexes) /\ PassedOK(t)
      /\ UNCHANGED <<indexes, raced>> /\ suspect \subseteq suspect' /\ Len(indexes) \in Nat
      /\ FreeSlots # {}
  BY ThreadType DEF PutRow, UniqueInv, PassedInv, IInv, TypeInv, IsSeq
<1>2. PICK r : r = First(FreeSlots)
  OBVIOUS
<1>3. PICK s : s = [th[t] EXCEPT !.pc = "enter", !.i = 1, !.rid = r]
  OBVIOUS
<1>4. r \in Rids /\ r \notin DOMAIN rows
  BY <1>1, <1>2, FirstIn DEF FreeSlots
<1>5. th' = [th EXCEPT ![t] = s] /\ rivals' = rivals /\ (r \notin suspect' => ~th[t].unasked)
  BY <1>2, <1>3 DEF PutRow, Set
<1>6. th'[t] = s /\ s.pc = "enter" /\ s.rid = r /\ s.data = th[t].data
  BY <1>1, <1>3, <1>5, OneThread DEF ThreadOK, ThreadFields
<1>7. RivalsMove(t, s) /\ EntriesMove(t, s)
  BY <1>1, <1>5, EntriesStay DEF RivalsMove
<1>8. MarksMove
  <2>1. \A q \in Rids \ {r} : (q \in raced => q \in raced') /\ (Filler(s, q) <=> Filler(th[t], q))
    BY <1>1, <1>6 DEF Filler, Fills
  <2>2. r \in Rids \ suspect' => \A i \in 1 .. Len(indexes) : Absent(indexes[i], r)
    BY <1>1, <1>4, NoRow
  <2> QED BY <1>5, <1>7, <2>1, <2>2, MarksStay
<1>9. r \notin suspect' => \A i \in 1 .. Len(indexes) : MetAt(t, i, r)'
  <2> SUFFICES ASSUME r \notin suspect', NEW i \in 1 .. Len(indexes)
               PROVE  MetAt(t, i, r)'
    OBVIOUS
  <2>0. i < th[t].i
    BY <1>1 DEF PassedOK
  <2>1. /\ MetAt(t, i, None) /\ th[t].pc # "enter" /\ EntriesMove(t, s) /\ MarksMove
        /\ th' = [th EXCEPT ![t] = s] /\ s.data = th[t].data /\ (t \in rivals => t \in rivals')
    BY <1>1, <1>5, <1>6, <1>7, <1>8, <2>0 DEF PassedOK, MetAt
  <2>2. \A q : q = r => MetAt(t, i, q)'
    BY <1>1, <2>1, MetKept
  <2> QED BY <2>2
<1>10. PassedOK(t)' /\ PublishOK(s, suspect')
  BY <1>1, <1>6, <1>9 DEF PassedOK, MetAt, PublishOK
<1> QED BY <1>1, <1>5, <1>7, <1>8, <1>10, UniqueStep

\* The entries of one index change.
LEMMA EntriesChange ==
  ASSUME IInv, NEW t, NEW s, NEW k \in 1 .. Len(indexes), NEW E, indexes' = [indexes EXCEPT ![k].entries = E],
         \A e \in E :
           \/ e \in indexes[k].entries
           \/ /\ th[t].pc = "enter" /\ s.pc = "enter" /\ s.rid = th[t].rid /\ e[2] = s.rid
              /\ e[1] = Key(indexes[k], th[t].data) /\ ~SkipUniqueNullKey(indexes[k], th[t].data)
  PROVE  EntriesMove(t, s)
<1>1. IsSeq(indexes) /\ DOMAIN indexes[k] = IndexFields
  BY DEF IInv, TypeInv, IndexOK
<1>2. Rewritten(WithEntries(indexes, k, E), indexes, k, E)
  BY <1>1, EntriesShape
<1>3. indexes' = WithEntries(indexes, k, E)
  BY DEF WithEntries
<1>4. Rewritten(indexes', indexes, k, E)
  BY <1>2, <1>3
<1> QED BY <1>4 DEF Rewritten, EntriesMove

\* A step of a thread that goes on with its slot.
LEMMA SlotGoesOn ==
  ASSUME IInv, IInv', UniqueInv, NEW t \in Threads, NEW s, th' = [th EXCEPT ![t] = s],
         s.rid = th[t].rid, s.data = th[t].data, EntriesMove(t, s),
         \/ th[t].pc = "enter" /\ s.pc \in {"enter", "undo"}
         \/ th[t].pc = "undo" /\ s.pc \in {"undo", "unrow"},
         suspect \subseteq suspect', UNCHANGED <<raced, rivals>>
  PROVE  UniqueInv'
<1>1. th'[t] = s
  BY OneThread
<1>2. RivalsMove(t, s) /\ PublishOK(s, suspect')
  BY DEF RivalsMove, PublishOK
<1>3. MarksMove
  <2>1. \A q \in Rids \ {None} : (q \in raced => q \in raced') /\ (Filler(s, q) <=> Filler(th[t], q))
    BY DEF Filler, Fills
  <2> QED BY <1>2, <2>1, RidAssumption, MarksStay
<1>4. PassedOK(t)'
  <2>1. CASE s.pc # "enter" \/ s.rid \in suspect'
    BY <1>1, <2>1 DEF PassedOK, MetAt
  <2>2. CASE s.pc = "enter" /\ s.rid \notin suspect'
    <3>1. PICK r : r = s.rid
      OBVIOUS
    <3>2. \A i \in 1 .. Len(indexes) : MetAt(t, i, r)
      BY <2>2, <3>1 DEF UniqueInv, PassedInv, PassedOK, MetAt
    <3>3. \A i \in 1 .. Len(indexes) : MetAt(t, i, r)'
      <4>1. suspect \subseteq suspect' /\ (t \in rivals => t \in rivals')
        OBVIOUS
      <4>2. \A q : \A i \in 1 .. Len(indexes) : q = r => MetAt(t, i, q)'
        BY <1>3, <3>1, <3>2, <4>1, MetKept
      <4> QED BY <4>2
    <3>4. Len(indexes') = Len(indexes)
      BY DEF EntriesMove
    <3> QED BY <1>1, <2>2, <3>1, <3>3, <3>4 DEF PassedOK, MetAt
  <2> QED BY <2>1, <2>2
<1> QED BY <1>2, <1>3, <1>4, UniqueStep

LEMMA EnterIndexRivals ==
  ASSUME IInv, IInv', UniqueInv, NEW t \in Threads, EnterIndex(t)
  PROVE  UniqueInv'
<1> DEFINE e0 == <<Key(indexes[th[t].i], th[t].data), th[t].rid>>
<1>1. PICK p, k, r, rec : p = th[t] /\ k = th[t].i /\ r = th[t].rid /\ rec = th[t].data
  OBVIOUS
<1>2. /\ ThreadOK(p, files) /\ p.pc = "enter" /\ k \in Nat \ {0} /\ k <= Len(indexes) /\ Len(indexes) \in Nat
      /\ UNCHANGED <<suspect, raced, rivals>>
  <2>1. ThreadOK(p, files) /\ p.pc = "enter" /\ k <= Len(indexes) /\ UNCHANGED <<suspect, raced, rivals>>
    BY <1>1, ThreadType DEF EnterIndex, history
  <2>2. k \in Nat \ {0}
    BY <1>1, <2>1 DEF ThreadOK, Working
  <2>3. Len(indexes) \in Nat
    BY DEF IInv, TypeInv, IsSeq
  <2> QED BY <2>1, <2>2, <2>3
<1>3. k \in 1 .. Len(indexes)
  BY <1>2
<1>4. PICK s, u : s = [p EXCEPT !.i = @ + 1] /\ u = [p EXCEPT !.pc = "undo", !.i = 1]
  OBVIOUS
<1>5. /\ s.pc = "enter" /\ s.rid = r /\ s.data = rec
      /\ u.pc = "undo" /\ u.rid = r /\ u.data = rec
  BY <1>1, <1>2, <1>4 DEF ThreadOK, ThreadFields
<1>9. /\ th[t].pc = "enter" /\ s.rid = th[t].rid /\ s.data = th[t].data
      /\ u.rid = th[t].rid /\ u.data = th[t].data
  BY <1>1, <1>2, <1>5
<1>6. \/ (th' = [th EXCEPT ![t] = s] \/ th' = [th EXCEPT ![t] = u]) /\ indexes' = indexes
      \/ /\ ~SkipUniqueNullKey(indexes[k], rec) /\ th' = [th EXCEPT ![t] = s]
         /\ indexes' = [indexes EXCEPT ![k].entries = @ \cup {e0}]
  BY <1>1, <1>4 DEF EnterIndex, Set
<1>7. CASE (th' = [th EXCEPT ![t] = s] \/ th' = [th EXCEPT ![t] = u]) /\ indexes' = indexes
  <2>1. EntriesMove(t, s) /\ EntriesMove(t, u)
    BY <1>7, EntriesStay
  <2>2. CASE th' = [th EXCEPT ![t] = s]
    <3>1. th[t].pc = "enter" /\ s.pc \in {"enter", "undo"}
      BY <1>5, <1>9
    <3> QED BY <1>2, <1>9, <2>1, <2>2, <3>1, SlotGoesOn
  <2>3. CASE th' = [th EXCEPT ![t] = u]
    BY <1>2, <1>5, <1>9, <2>1, <2>3, SlotGoesOn
  <2> QED BY <1>7, <2>2, <2>3
<1>8. CASE /\ ~SkipUniqueNullKey(indexes[k], rec) /\ th' = [th EXCEPT ![t] = s]
           /\ indexes' = [indexes EXCEPT ![k].entries = @ \cup {e0}]
  <2>1. PICK E, e : E = indexes[k].entries \cup {e} /\ e = <<Key(indexes[k], rec), r>>
    OBVIOUS
  <2>2. e0 = e
    BY <1>1, <2>1
  <2>3. indexes' = [indexes EXCEPT ![k].entries = E]
    BY <1>8, <2>1, <2>2
  <2>4. e[1] = Key(indexes[k], rec) /\ e[2] = r
    BY <2>1
  <2>5. EntriesMove(t, s)
    <3>1. \A d \in E :
            \/ d \in indexes[k].entries
            \/ /\ th[t].pc = "enter" /\ s.pc = "enter" /\ s.rid = th[t].rid /\ d[2] = s.rid
               /\ d[1] = Key(indexes[k], th[t].data) /\ ~SkipUniqueNullKey(indexes[k], th[t].data)
      BY <1>1, <1>2, <1>5, <1>8, <2>1, <2>4
    <3> QED BY <1>3, <2>3, <3>1, EntriesChange
  <2>6. th[t].pc = "enter" /\ s.pc \in {"enter", "undo"}
    BY <1>5, <1>9
  <2> QED BY <1>2, <1>8, <1>9, <2>5, <2>6, SlotGoesOn
<1> QED BY <1>6, <1>7, <1>8

LEMMA UndoIndexRivals ==
  ASSUME IInv, IInv', UniqueInv, NEW t \in Threads, UndoIndex(t)
  PROVE  UniqueInv'
<1>1. PICK p, k, e : p = th[t] /\ k = th[t].i /\ e = <<Key(indexes[th[t].i], th[t].data), th[t].rid>>
  OBVIOUS
<1>2. /\ ThreadOK(p, files) /\ p.pc = "undo" /\ k \in Nat \ {0} /\ Len(indexes) \in Nat
      /\ suspect \subseteq suspect' /\ UNCHANGED <<raced, rivals>>
  <2>1. ThreadOK(p, files) /\ p.pc = "undo" /\ suspect \subseteq suspect' /\ UNCHANGED <<raced, rivals>>
    BY <1>1, ThreadType DEF UndoIndex, history
  <2>2. k \in Nat \ {0}
    BY <1>1, <2>1 DEF ThreadOK, Working
  <2>3. Len(indexes) \in Nat
    BY DEF IInv, TypeInv, IsSeq
  <2> QED BY <2>1, <2>2, <2>3
<1>3. PICK s, u : s = [p EXCEPT !.i = @ + 1] /\ u = [p EXCEPT !.pc = "unrow"]
  OBVIOUS
<1>4. /\ s.pc = "undo" /\ s.rid = p.rid /\ s.data = p.data
      /\ u.pc = "unrow" /\ u.rid = p.rid /\ u.data = p.data
  BY <1>2, <1>3 DEF ThreadOK, ThreadFields
<1>5. \/ (th' = [th EXCEPT ![t] = s] \/ th' = [th EXCEPT ![t] = u]) /\ indexes' = indexes
      \/ /\ k <= Len(indexes) /\ th' = [th EXCEPT ![t] = s]
         /\ indexes' = [indexes EXCEPT ![k].entries = @ \ {e}]
  BY <1>1, <1>3 DEF UndoIndex, Set
<1>6. CASE (th' = [th EXCEPT ![t] = s] \/ th' = [th EXCEPT ![t] = u]) /\ indexes' = indexes
  <2>1. EntriesMove(t, s) /\ EntriesMove(t, u)
    BY <1>6, EntriesStay
  <2> QED BY <1>1, <1>2, <1>4, <1>6, <2>1, SlotGoesOn
<1>7. CASE /\ k <= Len(indexes) /\ th' = [th EXCEPT ![t] = s]
           /\ indexes' = [indexes EXCEPT ![k].entries = @ \ {e}]
  <2>1. PICK E : E = indexes[k].entries \ {e}
    OBVIOUS
  <2>2. indexes' = [indexes EXCEPT ![k].entries = E] /\ k \in 1 .. Len(indexes)
    BY <1>2, <1>7, <2>1
  <2>3. EntriesMove(t, s)
    <3>1. \A d \in E : d \in indexes[k].entries
      BY <2>1
    <3> QED BY <2>2, <3>1, EntriesChange
  <2> QED BY <1>1, <1>2, <1>4, <1>7, <2>3, SlotGoesOn
<1> QED BY <1>5, <1>6, <1>7

\* A row that is in keeps the mark that its insert has got.
LEMMA RowDoneRivals ==
  ASSUME IInv, IInv', UniqueInv, NEW t \in Threads, RowDone(t)
  PROVE  UniqueInv'
<1>1. PICK r, s : /\ r = th[t].rid
                  /\ s = [Idle EXCEPT !.pc = "next", !.op = th[t].op, !.rest = th[t].rest, !.set = th[t].set]
  OBVIOUS
<1>2. /\ th' = [th EXCEPT ![t] = s] /\ th[t].pc = "enter" /\ UNCHANGED <<indexes, suspect>>
      /\ raced' = (IF t \in rivals THEN raced \cup {r} ELSE raced \ {r}) /\ rivals' = rivals \ {t}
  BY <1>1 DEF RowDone, Set
<1>3. s.pc = "next"
  BY <1>1 DEF Idle
<1>4. RivalsMove(t, s) /\ EntriesMove(t, s) /\ PublishOK(s, suspect')
  BY <1>2, <1>3, EntriesStay DEF RivalsMove, PublishOK
<1>5. th'[t] = s /\ \A u \in Threads \ {t} : th'[u] = th[u]
  BY <1>2, OneThread
<1>6. \A q : Marked(q) => Marked(q)'
  <2> SUFFICES ASSUME NEW q, Marked(q)
               PROVE  Marked(q)'
    OBVIOUS
  <2>1. \A u \in Threads : Filler(th'[u], q) => u \in rivals'
    BY <1>2, <1>3, <1>5 DEF Marked, Filler, Fills
  <2>2. ASSUME \A u \in Threads : ~Filler(th'[u], q)
        PROVE  q \in raced'
    <3>1. \A u \in Threads \ {t} : ~Filler(th[u], q)
      BY <1>5, <2>2
    <3>2. CASE q = r
      <4>1. Filler(th[t], q)
        BY <1>1, <1>2, <3>2 DEF Filler, Fills
      <4> QED BY <1>2, <3>2, <4>1 DEF Marked
    <3>3. CASE q # r
      <4>1. ~Filler(th[t], q)
        BY <1>1, <3>3 DEF Filler
      <4> QED BY <1>2, <3>1, <3>3, <4>1 DEF Marked
    <3> QED BY <3>2, <3>3
  <2> QED BY <2>1, <2>2 DEF Marked
<1>7. MarksMove
  <2> SUFFICES ASSUME NEW i \in 1 .. Len(indexes), NEW e \in indexes[i].entries, Marked(e[2])
               PROVE  Marked(e[2])'
    BY DEF MarksMove
  <2>1. \A q : q = e[2] => Marked(q)'
    BY <1>6
  <2> QED BY <2>1
<1>8. PassedOK(t)'
  BY <1>3, <1>5 DEF PassedOK
<1> QED BY <1>2, <1>4, <1>7, <1>8, UniqueStep

LEMMA UndoRowRivals ==
  ASSUME IInv, IInv', UniqueInv, NEW t \in Threads, UndoRow(t)
  PROVE  UniqueInv'
<1>1. PICK r : r = th[t].rid
  OBVIOUS
<1>2. /\ ThreadOK(th[t], files) /\ th[t].pc = "unrow" /\ r \in Rids
      /\ th' = [th EXCEPT ![t] = Idle] /\ rivals' = rivals \ {t}
      /\ UNCHANGED <<indexes, raced>> /\ suspect \subseteq suspect'
  BY <1>1, ThreadType DEF UndoRow, Done, Set, ThreadOK, Working
<1>3. th'[t] = Idle /\ Idle.pc = "idle"
  BY <1>2, OneThread DEF Idle
<1>4. RivalsMove(t, Idle) /\ EntriesMove(t, Idle) /\ PublishOK(Idle, suspect')
  BY <1>2, <1>3, EntriesStay DEF RivalsMove, PublishOK
<1>5. MarksMove
  <2>1. \A q \in Rids \ {r} : (q \in raced => q \in raced') /\ (Filler(Idle, q) <=> Filler(th[t], q))
    BY <1>1, <1>2, <1>3 DEF Filler, Fills
  <2>2. r \in Rids \ suspect' => \A i \in 1 .. Len(indexes) : Absent(indexes[i], r)
    BY <1>1, <1>2 DEF IInv, WorkInv, WorkOK
  <2> QED BY <1>2, <1>4, <2>1, <2>2, MarksStay
<1>6. PassedOK(t)'
  BY <1>3 DEF PassedOK
<1> QED BY <1>2, <1>4, <1>5, <1>6, UniqueStep

LEMMA LeaveIndexRivals ==
  ASSUME IInv, IInv', UniqueInv, NEW t \in Threads, LeaveIndex(t)
  PROVE  UniqueInv'
<1>1. PICK p, k, e : p = th[t] /\ k = th[t].i /\ e = <<Key(indexes[th[t].i], th[t].data), th[t].rid>>
  OBVIOUS
<1>2. /\ ThreadOK(p, files) /\ p.pc = "leave" /\ k \in Nat \ {0} /\ Len(indexes) \in Nat /\ k <= Len(indexes)
      /\ UNCHANGED <<raced, rivals>> /\ suspect \subseteq suspect'
  <2>1. ThreadOK(p, files) /\ p.pc = "leave" /\ k <= Len(indexes)
        /\ UNCHANGED <<raced, rivals>> /\ suspect \subseteq suspect'
    BY <1>1, ThreadType DEF LeaveIndex
  <2>2. k \in Nat \ {0}
    BY <1>1, <2>1 DEF ThreadOK, Working
  <2>3. Len(indexes) \in Nat
    BY DEF IInv, TypeInv, IsSeq
  <2> QED BY <2>1, <2>2, <2>3
<1>3. PICK s : s = [p EXCEPT !.i = @ + 1]
  OBVIOUS
<1>4. s.pc = "leave"
  BY <1>2, <1>3 DEF ThreadOK, ThreadFields
<1>5. th' = [th EXCEPT ![t] = s]
  BY <1>1, <1>3 DEF LeaveIndex, Set
<1>6. indexes' = indexes \/ indexes' = [indexes EXCEPT ![k].entries = @ \ {e}]
  BY <1>1 DEF LeaveIndex
<1>7. EntriesMove(t, s)
  <2>1. CASE indexes' = indexes
    BY <2>1, EntriesStay
  <2>2. CASE indexes' = [indexes EXCEPT ![k].entries = @ \ {e}]
    <3>1. PICK E : E = indexes[k].entries \ {e}
      OBVIOUS
    <3>2. indexes' = [indexes EXCEPT ![k].entries = E] /\ k \in 1 .. Len(indexes)
      BY <1>2, <2>2, <3>1
    <3>3. \A d \in E : d \in indexes[k].entries
      BY <3>1
    <3> QED BY <3>2, <3>3, EntriesChange
  <2> QED BY <1>6, <2>1, <2>2
<1> QED BY <1>1, <1>2, <1>4, <1>5, <1>7, AsideStep DEF Fills, PublishOK

LEMMA DropRowRivals ==
  ASSUME IInv, IInv', UniqueInv, NEW t \in Threads, DropRow(t)
  PROVE  UniqueInv'
<1>1. /\ ThreadOK(th[t], files) /\ th[t].pc = "leave" /\ UNCHANGED <<indexes, raced>> /\ suspect \subseteq suspect'
      /\ \A u \in Threads \ {t} : u \in rivals => u \in rivals'
  BY ThreadType DEF DropRow, Done
<1>2. PICK s : s = [th[t] EXCEPT !.pc = "clear"]
  OBVIOUS
<1>3. s.pc = "clear" /\ Idle.pc = "idle"
  BY <1>1, <1>2 DEF ThreadOK, ThreadFields, Idle
<1>4. EntriesMove(t, s) /\ EntriesMove(t, Idle)
  BY <1>1, EntriesStay
<1>5. th' = [th EXCEPT ![t] = s] \/ th' = [th EXCEPT ![t] = Idle]
  BY <1>2 DEF DropRow, Done, Set
<1>6. CASE th' = [th EXCEPT ![t] = s]
  BY <1>1, <1>3, <1>4, <1>6, AsideStep DEF Fills, PublishOK
<1>7. CASE th' = [th EXCEPT ![t] = Idle]
  BY <1>1, <1>3, <1>4, <1>7, AsideStep DEF Fills, PublishOK
<1> QED BY <1>5, <1>6, <1>7

LEMMA ClearRowRivals ==
  ASSUME IInv, IInv', UniqueInv, NEW t \in Threads, ClearRow(t)
  PROVE  UniqueInv'
<1>1. ThreadOK(th[t], files) /\ th[t].pc = "clear" /\ UNCHANGED <<indexes, suspect, raced>>
  BY ThreadType DEF ClearRow
<1>2. CASE th[t].op = "delete"
  <2>1. PICK s : s = [Idle EXCEPT !.pc = "next", !.op = th[t].op, !.rest = th[t].rest]
    OBVIOUS
  <2>2. th' = [th EXCEPT ![t] = s] /\ rivals' = rivals
    BY <1>2, <2>1 DEF ClearRow, Set
  <2>3. s.pc = "next"
    BY <2>1 DEF Idle
  <2>4. EntriesMove(t, s)
    BY <1>1, EntriesStay
  <2> QED BY <1>1, <2>2, <2>3, <2>4, AsideStep DEF Fills, PublishOK
<1>3. CASE th[t].op # "delete"
  <2>1. PICK s : s = [th[t] EXCEPT !.pc = "check", !.i = 1, !.rid = None, !.data = th[t].new, !.new = None]
    OBVIOUS
  <2>2. /\ th' = [th EXCEPT ![t] = s]
        /\ rivals' = IF {u \in Threads \ {t} : Inserting(u)} = {} THEN rivals
                     ELSE rivals \cup {u \in Threads \ {t} : Inserting(u)} \cup {t}
    BY <1>3, <2>1 DEF ClearRow, Set
  <2>3. s.pc = "check" /\ s.i = 1
    BY <1>1, <2>1 DEF ThreadOK, ThreadFields
  <2> QED BY <1>1, <2>2, <2>3, StartStep DEF Fills
<1> QED BY <1>2, <1>3

\* The entries of an index that is built have a key each, if it is to be unique.
LEMMA BuildIndexRivals ==
  ASSUME IInv, IInv', UniqueInv, NEW t \in Threads, NEW meta \in NewIndexes, BuildIndex(t, meta)
  PROVE  UniqueInv'
<1>1. /\ ThreadOK(th[t], files) /\ th[t].pc = "idle" /\ UNCHANGED <<indexes, raced, rivals>>
      /\ suspect \subseteq suspect' /\ th = [u \in Threads |-> th[u]]
      /\ UNCHANGED th \/ EnterRows(t, meta)
  BY ThreadType DEF BuildIndex, EnterRows, IInv, TypeInv
<1>2. CASE UNCHANGED th
  <2>1. th' = [th EXCEPT ![t] = th[t]]
    BY <1>1, <1>2
  <2>2. EntriesMove(t, th[t])
    BY <1>1, EntriesStay
  <2> QED BY <1>1, <2>1, <2>2, AsideStep DEF Fills, PublishOK
<1>3. CASE EnterRows(t, meta)
  <2>1. PICK ix, s :
          /\ ix = [name |-> meta.name, fields |-> meta.fields, unique |-> meta.unique,
                   entries |-> Entries(meta)]
          /\ s = [Idle EXCEPT !.pc = "publish", !.op = "index", !.ix = ix]
    OBVIOUS
  <2>2. th' = [th EXCEPT ![t] = s]
    BY <1>3, <2>1 DEF EnterRows, Set
  <2>3. s.pc = "publish" /\ s.ix = ix /\ ix.unique = meta.unique /\ ix.entries = Entries(meta)
    BY <2>1 DEF Idle
  <2>4. PublishOK(s, suspect')
    <3> SUFFICES ASSUME meta.unique, NEW d \in Entries(meta), NEW e \in Entries(meta), d[1] = e[1], d[2] # e[2]
                 PROVE  d[2] \in suspect'
      BY <2>3 DEF PublishOK
    <3>1. \E r \in Indexed(meta) : d[1] = Key(meta, rows[r]) /\ d[2] = r
      BY DEF Entries
    <3>2. \E q \in Indexed(meta) : e[1] = Key(meta, rows[q]) /\ e[2] = q
      BY DEF Entries
    <3>3. d[2] \in Doubles(meta)
      BY <3>1, <3>2 DEF Doubles
    <3> QED BY <1>3, <3>3 DEF EnterRows
  <2>5. EntriesMove(t, s)
    BY <1>1, EntriesStay
  <2> QED BY <1>1, <2>2, <2>3, <2>4, <2>5, AsideStep DEF Fills
<1> QED BY <1>1, <1>2, <1>3

\* An insert that has gone past the list of indexes when a new one is published has a
\* slot, which is suspect by then.
LEMMA PublishIndexRivals ==
  ASSUME IInv, IInv', UniqueInv, NEW t \in Threads, PublishIndex(t)
  PROVE  UniqueInv'
<1>0. RivalInv /\ PassedInv /\ OnceInv /\ PublishInv
  BY DEF UniqueInv
<1>1. PICK ix, n, ixs, s :
        /\ ix = th[t].ix /\ n = Len(indexes) /\ ixs = indexes'
        /\ s = [Idle EXCEPT !.pc = "write", !.op = "index", !.copy = Append(table_meta, th[t].ix.name)]
  OBVIOUS
<1>2. n \in Nat /\ IsSeq(indexes) /\ th[t].pc = "publish" /\ s.pc = "write"
  BY <1>1 DEF PublishIndex, IInv, TypeInv, IsSeq, Idle
<1>3. /\ indexes' = Append(indexes, ix) /\ th' = [th EXCEPT ![t] = s]
      /\ UNCHANGED <<raced, rivals>> /\ suspect' = suspect \cup Disturbed(t)
  BY <1>1 DEF PublishIndex, Set
<1>4. /\ Len(indexes') = n + 1 /\ indexes'[n + 1] = ix
      /\ \A i \in 1 .. n : indexes'[i] = indexes[i]
      /\ \A i \in 1 .. n + 1 : i \in 1 .. n \/ i = n + 1
  BY <1>1, <1>2, <1>3, SeqAppend
<1>5. th'[t] = s /\ \A u \in Threads \ {t} : th'[u] = th[u]
  BY <1>3, OneThread
<1>6. \A q : Marked(q)' <=> Marked(q)
  <2> TAKE q
  <2>1. \A u \in Threads : Filler(th'[u], q) <=> Filler(th[u], q)
    BY <1>2, <1>5 DEF Filler, Fills
  <2> QED BY <1>3, <2>1 DEF Marked
<1>7. RivalInv'
  <2>1. RivalsMove(t, s)
    BY <1>2, <1>3 DEF RivalsMove
  <2> QED BY <1>0, <1>3, <2>1, RivalStep
<1>8. PassedInv'
  <2> SUFFICES ASSUME NEW u \in Threads
               PROVE  PassedOK(u)'
    BY DEF PassedInv
  <2>1. CASE u = t
    BY <1>2, <1>5, <2>1 DEF PassedOK
  <2>2. CASE u # t
    <3>1. th'[u] = th[u] /\ PassedOK(u) /\ ThreadOK(th[u], files)
      BY <1>0, <1>5, <2>2, ThreadType DEF PassedInv
    <3>2. th[u].pc = "enter" => th[u].rid \in suspect'
      BY <1>3, <2>2, <3>1, Shares DEF ThreadOK, Working
    <3>3. ASSUME th[u].pc = "check"
          PROVE  /\ th[u].i \in 1 .. n + 2
                 /\ ~th[u].unasked => \A i \in 1 .. n + 1 : i < th[u].i => Met(u, ixs[i], None)'
      <4>1. /\ th[u].i \in 1 .. n + 1
            /\ ~th[u].unasked => \A i \in 1 .. n : i < th[u].i => Met(u, indexes[i], None)
        BY <1>1, <3>1, <3>3 DEF PassedOK
      <4>2. th[u].i \in 1 .. n + 2
        BY <1>2, <4>1
      <4>3. ASSUME ~th[u].unasked, NEW i \in 1 .. n + 1, i < th[u].i
            PROVE  Met(u, ixs[i], None)'
        <5>1. i \in 1 .. n
          BY <1>2, <4>1, <4>3
        <5>2. PICK z : z = indexes[i] /\ z = ixs[i]
          BY <1>1, <1>4, <5>1
        <5>3. Met(u, z, None)
          BY <4>1, <4>3, <5>1, <5>2
        <5>4. \A e \in z.entries : e[2] \notin suspect' => e[2] \notin suspect
          BY <1>3
        <5>5. \A e : Marked(e[2]) => Marked(e[2])'
          <6> TAKE e
          <6>1. \A q : q = e[2] => (Marked(q)' <=> Marked(q))
            BY <1>6
          <6> QED BY <6>1
        <5> QED BY <1>3, <3>1, <5>2, <5>3, <5>4, <5>5 DEF Met
      <4> QED BY <4>2, <4>3
    <3>4. Len(indexes') + 1 = n + 2
      BY <1>2, <1>4
    <3> QED BY <1>1, <1>4, <3>1, <3>2, <3>3, <3>4 DEF PassedOK, Met
  <2> QED BY <2>1, <2>2
<1>9. OnceInv'
  <2> SUFFICES ASSUME NEW i \in 1 .. n + 1, NEW d \in indexes'[i].entries, NEW e \in indexes'[i].entries,
                      indexes'[i].unique, d[1] = e[1], d[2] # e[2], d[2] \notin suspect', e[2] \notin suspect'
               PROVE  Marked(d[2])'
    BY <1>4 DEF OnceInv, Once
  <2>1. CASE i = n + 1
    BY <1>0, <1>1, <1>2, <1>3, <1>4, <2>1 DEF PublishInv, PublishOK
  <2>2. CASE i \in 1 .. n
    <3>1. Marked(d[2])
      BY <1>0, <1>1, <1>3, <1>4, <2>2 DEF OnceInv, Once
    <3>2. \A q : q = d[2] => Marked(q)'
      BY <1>6, <3>1
    <3> QED BY <3>2
  <2> QED BY <1>4, <2>1, <2>2
<1>10. PublishInv'
  BY <1>0, <1>2, <1>3, <1>5 DEF PublishInv, PublishOK
<1> QED BY <1>7, <1>8, <1>9, <1>10 DEF UniqueInv

LEMMA MetaRivals ==
  ASSUME IInv, IInv', UniqueInv, NEW t \in Threads, WriteMeta(t) \/ RenameMeta(t)
  PROVE  UniqueInv'
<1>1. PICK s : s = [th[t] EXCEPT !.pc = "rename"]
  OBVIOUS
<1>2. /\ ThreadOK(th[t], files) /\ th[t].pc \in {"write", "rename"}
      /\ UNCHANGED <<indexes, raced, rivals, suspect>>
  BY ThreadType DEF WriteMeta, RenameMeta
<1>3. s.pc = "rename" /\ Idle.pc = "idle"
  BY <1>1, <1>2 DEF ThreadOK, ThreadFields, Idle
<1>4. EntriesMove(t, s) /\ EntriesMove(t, Idle)
  BY <1>2, EntriesStay
<1>5. th' = [th EXCEPT ![t] = s] \/ th' = [th EXCEPT ![t] = Idle]
  BY <1>1 DEF WriteMeta, RenameMeta, Set
<1>6. CASE th' = [th EXCEPT ![t] = s]
  BY <1>2, <1>3, <1>4, <1>6, AsideStep DEF Fills, PublishOK
<1>7. CASE th' = [th EXCEPT ![t] = Idle]
  BY <1>2, <1>3, <1>4, <1>7, AsideStep DEF Fills, PublishOK
<1> QED BY <1>5, <1>6, <1>7

LEMMA RestartRivals ==
  ASSUME IInv, MetaInv, UniqueInv, Restart
  PROVE  UniqueInv'
<1>1. /\ UNCHANGED <<th, suspect, raced, rivals>> /\ \A t \in Threads : th'[t].pc = "idle" /\ th[t].pc = "idle"
  BY DEF Restart, Idle
<1>2. \A q : Marked(q) <=> q \in raced
  BY <1>1 DEF Marked, Filler, Fills
<1>3. \A q : q \in raced => Marked(q)'
  BY <1>1 DEF Marked, Filler, Fills
<1>4. OnceInv'
  <2> SUFFICES ASSUME NEW i \in 1 .. Len(indexes'), NEW d \in indexes'[i].entries, NEW e \in indexes'[i].entries,
                      indexes'[i].unique, d[1] = e[1], d[2] # e[2], d[2] \notin suspect', e[2] \notin suspect'
               PROVE  Marked(d[2])'
    BY DEF OnceInv, Once
  <2>1. PICK j \in 1 .. Len(indexes) : indexes'[i] = indexes[j]
    BY RestartIndexes
  <2>2. d[2] \in raced
    BY <1>1, <1>2, <2>1 DEF UniqueInv, OnceInv, Once
  <2>3. \A q : q = d[2] => Marked(q)'
    BY <1>3, <2>2
  <2> QED BY <2>3
<1>5. RivalInv' /\ PassedInv' /\ PublishInv'
  BY <1>1 DEF RivalInv, Inserting, PassedInv, PassedOK, PublishInv, PublishOK
<1> QED BY <1>4, <1>5 DEF UniqueInv

LEMMA InitRivals == Init => UniqueInv
<1> SUFFICES ASSUME Init
             PROVE  UniqueInv
  OBVIOUS
<1>1. \A t \in Threads : th[t].pc = "idle"
  BY DEF Init, Idle
<1>2. IInv /\ DOMAIN rows = {} /\ suspect = {}
  BY InitHolds DEF Init
<1>3. \A i \in 1 .. Len(indexes) : indexes[i].entries = {}
  <2> SUFFICES ASSUME NEW i \in 1 .. Len(indexes), NEW e \in indexes[i].entries
               PROVE  FALSE
    OBVIOUS
  <2>1. e[2] \in Rids \ suspect
    BY <1>2 DEF IInv, TypeInv, IndexOK
  <2> QED BY <1>2, <2>1 DEF IInv, EntryInv, Sound
<1> QED BY <1>1, <1>3 DEF UniqueInv, RivalInv, Inserting, PassedInv, PassedOK, OnceInv, Once, PublishInv, PublishOK

LEMMA RivalKeeps == TableInv /\ IInv' /\ UniqueInv /\ [Next]_vars => UniqueInv'
<1> SUFFICES ASSUME IInv, MetaInv, IInv', UniqueInv, [Next]_vars
             PROVE  UniqueInv'
  BY DEF TableInv
<1>1. CASE UNCHANGED vars
  BY <1>1 DEF vars, history, UniqueInv, RivalInv, Inserting, PassedInv, PassedOK, OnceInv, Once, PublishInv,
     PublishOK, Met, Marked
<1>2. CASE Restart
  BY <1>2, RestartRivals
<1>3. ASSUME NEW t \in Threads,
             \/ \E tuples \in Tuples : Insert(t, tuples)
             \/ \E r \in DOMAIN rows : Delete(t, r)
             \/ \E S \in SUBSET DOMAIN rows, f \in Fields : \E v \in Values(f) : Update(t, S, f, v)
             \/ InsertNext(t) \/ DeleteNext(t) \/ UpdateNext(t) \/ EndStatement(t)
             \/ CheckUnique(t) \/ NoSlot(t) \/ PutRow(t) \/ EnterIndex(t) \/ RowDone(t) \/ UndoIndex(t) \/ UndoRow(t)
             \/ LeaveIndex(t) \/ DropRow(t) \/ ClearRow(t)
             \/ \E meta \in NewIndexes : BuildIndex(t, meta)
             \/ PublishIndex(t) \/ WriteMeta(t) \/ RenameMeta(t)
      PROVE  UniqueInv'
  BY <1>3, BeginRivals, InsertNextRivals, NextRivals, CheckUniqueRivals, NoSlotRivals, PutRowRivals, EnterIndexRivals,
     RowDoneRivals, UndoIndexRivals, UndoRowRivals, LeaveIndexRivals, DropRowRivals, ClearRowRivals,
     BuildIndexRivals, PublishIndexRivals, MetaRivals
<1> QED BY <1>1, <1>2, <1>3 DEF Next

-----------------------------------------------------------------------------
(* Between statements the invariants are what the property asks for.        *)

\* Where the zero bytes of a key's fields are, and the fields up to the first of them.
Ends(fs, rec) == {i \in 1 .. Len(fs) : rec[fs[i]] \notin Full[fs[i]]}
FirstFields(fs, ends) ==
  IF Len(fs) = 1 THEN (IF fs[1] \in TextFields THEN <<>> ELSE fs)
  ELSE IF ends = {} THEN fs
  ELSE SubSeq(fs, 1, First(ends))

\* Records that agree on the fields of an index have the same key there.
LEMMA KeyAgree ==
  ASSUME NEW ix, MetaOK(ix), NEW rec, NEW x,
         \A j \in 1 .. Len(ix.fields) : rec[ix.fields[j]] = x[ix.fields[j]]
  PROVE  Key(ix, rec) = Key(ix, x) /\ (SkipUniqueNullKey(ix, rec) <=> SkipUniqueNullKey(ix, x))
<1>1. PICK fs : fs = ix.fields
  OBVIOUS
<1>2. fs \in Seq(Fields) /\ Len(fs) \in Nat /\ \A j \in 1 .. Len(fs) : rec[fs[j]] = x[fs[j]]
  BY <1>1 DEF MetaOK
<1>3. PICK ends : ends = Ends(fs, rec)
  OBVIOUS
<1>4. ends = Ends(fs, x) /\ ends \subseteq 1 .. Len(fs)
  BY <1>2, <1>3 DEF Ends
<1>5. PICK c, ks : c = First(ends) /\ ks = FirstFields(fs, ends)
  OBVIOUS
<1>6. ks = IF Len(fs) = 1 THEN (IF fs[1] \in TextFields THEN <<>> ELSE fs)
           ELSE IF ends = {} THEN fs ELSE SubSeq(fs, 1, c)
  BY <1>5 DEF FirstFields
<1>7. KeyFields(fs, rec) = ks /\ KeyFields(fs, x) = ks
  <2>1. KeyFields(fs, rec) = FirstFields(fs, Ends(fs, rec)) /\ KeyFields(fs, x) = FirstFields(fs, Ends(fs, x))
    BY DEF KeyFields, FirstFields, Ends, First
  <2> QED BY <1>3, <1>4, <1>5, <2>1
<1>8. \A i \in 1 .. Len(ks) : rec[ks[i]] = x[ks[i]]
  <2>1. CASE ks = fs
    BY <1>2, <2>1
  <2>3. CASE ks = <<>>
    BY <2>3
  <2>2. CASE ~(Len(fs) = 1 \/ ends = {})
    <3>1. ends # {} /\ ends \subseteq Nat
      BY <1>2, <1>4, <2>2
    <3>2. c \in ends
      <4>1. \E j \in ends : \A m \in ends : j <= m
        BY <3>1, LeastNat
      <4> QED BY <1>5, <4>1 DEF First
    <3>3. c \in 1 .. Len(fs)
      BY <1>4, <3>2
    <3>4. Len(ks) = c /\ \A i \in 1 .. c : ks[i] = fs[i]
      BY <1>2, <1>6, <2>2, <3>3
    <3> QED BY <1>2, <3>3, <3>4
  <2> QED BY <1>6, <2>1, <2>2, <2>3
<1>9. Key(ix, rec) = Key(ix, x)
  BY <1>1, <1>7, <1>8 DEF Key
<1>10. SkipUniqueNullKey(ix, rec) <=> SkipUniqueNullKey(ix, x)
  BY <1>1, <1>2 DEF SkipUniqueNullKey
<1> QED BY <1>9, <1>10

LEMMA InvCells == IInv /\ ContentInv /\ Quiet => CellsMatch
<1> SUFFICES ASSUME IInv, ContentInv, Quiet, NEW r \in DOMAIN rows \ suspect, NEW f \in Fields
             PROVE  \/ Cell(r, rows[r], f) = given[r][f]
                    \/ f \in Nullable /\ given[r][f] = Default(f) /\ Cell(r, rows[r], f) = Null
                    \/ f \in TextFields /\ \E n \in stale : rows[r][f] = Marker(n)
                    \/ r \in aged /\ given[r][f] = Null /\ f \notin Nullable
  BY DEF CellsMatch
<1>1. PICK rec, v, F : rec = rows[r] /\ v = given[r] /\ F = ForcedAt(forced_null_fields, r)
  OBVIOUS
<1>2. TextsOK(overflow_texts, next_overflow_text_id) /\ RecOK(rec) /\ ValsOK(v)
  BY <1>1 DEF ContentInv, HoldInv
<1>3. Holds(rec, v, F, overflow_texts, stale) /\ (r \in aged \/ Accepted(v, F))
  <2>1. r \in Rids \ suspect
    BY DEF IInv, TypeInv
  <2>2. \A t \in Threads : ~Filler(th[t], r)
    BY DEF Quiet, Filler, Fills
  <2>3. RowRight(r, rows, given, F, overflow_texts, stale, aged)
    BY <1>1, <2>1, <2>2 DEF ContentInv, ValueInv, SlotRight
  <2> QED BY <1>1, <2>3 DEF RowRight
<1>4. f \in F <=> ForcedNull(r, f)
  BY <1>1 DEF ForcedNull, ForcedAt
<1>5. CASE f \in TextFields /\ \E n \in stale : rec[f] = Marker(n)
  BY <1>1, <1>5
<1>6. CASE ~(f \in TextFields /\ \E n \in stale : rec[f] = Marker(n))
  <2>1. IF ForcedNull(r, f) THEN v[f] = Null
        ELSE Cell(r, rec, f) = v[f] \/ {Cell(r, rec, f), v[f]} \subseteq {Null, Default(f)}
    BY <1>1, <1>2, <1>3, <1>6, ReadsBack
  <2>2. CASE ForcedNull(r, f)
    BY <1>1, <2>1, <2>2 DEF Cell
  <2>3. CASE ~ForcedNull(r, f) /\ Cell(r, rec, f) = v[f]
    BY <1>1, <2>3
  <2>4. CASE ~ForcedNull(r, f) /\ Cell(r, rec, f) # v[f]
    <3>1. rec[f] = Zero
      BY <1>3, <2>1, <2>4 DEF Holds
    <3>2. Cell(r, rec, f) = IF f \in Nullable THEN Null ELSE Default(f)
      BY <2>4, <3>1 DEF Cell
    <3>3. CASE f \in Nullable
      BY <1>1, <2>1, <2>4, <3>2, <3>3
    <3>4. CASE f \notin Nullable
      <4>1. v[f] = Null
        BY <2>1, <2>4, <3>2, <3>4
      <4>2. f \notin F
        BY <1>4, <2>4
      <4> QED BY <1>1, <1>3, <3>4, <4>1, <4>2 DEF Accepted
    <3> QED BY <3>3, <3>4
  <2> QED BY <2>2, <2>3, <2>4
<1> QED BY <1>5, <1>6

LEMMA InvTexts == ContentInv /\ Quiet => NoTextLeaks
<1>1. Quiet => \A t \in Threads : \A n : ~Pends(th[t], n) /\ ~Clears(th[t], n)
  BY DEF Quiet, Pends, Clears, Replaces
<1>2. ContentInv => LeakInv
  BY DEF ContentInv
<1> QED BY <1>1, <1>2 DEF LeakInv, NoTextLeaks, Names

\* Two rows with the same values in the fields of a unique index have the same key,
\* and so were raced.
LEMMA InvUnique == IInv /\ ContentInv /\ UniqueInv => UniqueHolds
<1> SUFFICES ASSUME IInv, ContentInv, UniqueInv, Quiet,
                    NEW i \in 1 .. Len(indexes), NEW r \in DOMAIN rows, NEW q \in DOMAIN rows,
                    r # q, indexes[i].unique,
                    \A j \in 1 .. Len(indexes[i].fields) :
                      given[r][indexes[i].fields[j]] = given[q][indexes[i].fields[j]],
                    ~ \E j \in 1 .. Len(indexes[i].fields) :
                      indexes[i].fields[j] \in Nullable /\ rows[r][indexes[i].fields[j]] = Zero,
                    ~ \E j \in 1 .. Len(indexes[i].fields) :
                      IsLong(indexes[i].fields[j], given[r][indexes[i].fields[j]]),
                    {r, q} \cap suspect = {}
             PROVE  {r, q} \subseteq raced
  BY DEF UniqueHolds
<1>1. PICK ix : ix = indexes[i]
  OBVIOUS
<1>2. r \in Rids \ suspect /\ q \in Rids \ suspect
  BY DEF IInv, TypeInv
<1>3. \A p \in {r, q} : Has(ix, rows[p], p)
  <2>1. \A p : ~Covered(p)
    BY DEF Quiet, Covered, Covering
  <2> QED BY <1>1, <1>2, <2>1 DEF IInv, RowInv
<1>4. \A p \in {r, q} : \E F : Holds(rows[p], given[p], F, overflow_texts, stale)
  <2>1. \A p \in {r, q}, t \in Threads : ~Filler(th[t], p)
    BY DEF Quiet, Filler, Fills
  <2> QED BY <1>2, <2>1 DEF ContentInv, ValueInv, SlotRight, RowRight
<1>5. MetaOK(ix)
  BY <1>1 DEF ContentInv, HoldInv
<1>6. \A j \in 1 .. Len(ix.fields) : rows[r][ix.fields[j]] = rows[q][ix.fields[j]]
  <2> SUFFICES ASSUME NEW j \in 1 .. Len(ix.fields)
               PROVE  rows[r][ix.fields[j]] = rows[q][ix.fields[j]]
    OBVIOUS
  <2>1. PICK f \in Fields : f = ix.fields[j]
    BY <1>5 DEF MetaOK
  <2>2. PICK v : v = given[r][f] /\ v = given[q][f]
    BY <1>1, <2>1
  <2>3. ~IsLong(f, v)
    BY <1>1, <2>1, <2>2
  <2>4. \A p \in {r, q} : rows[p][f] = IF v \in {Null, Default(f)} THEN Zero ELSE v
    <3> SUFFICES ASSUME NEW p \in {r, q}
                 PROVE  rows[p][f] = IF v \in {Null, Default(f)} THEN Zero ELSE v
      OBVIOUS
    <3>1. PICK F : Holds(rows[p], given[p], F, overflow_texts, stale)
      BY <1>4
    <3>2. given[p][f] = v
      BY <2>2
    <3> QED BY <2>3, <3>1, <3>2 DEF Holds
  <2> QED BY <2>1, <2>4
<1>7. /\ Key(ix, rows[r]) = Key(ix, rows[q])
      /\ SkipUniqueNullKey(ix, rows[r]) <=> SkipUniqueNullKey(ix, rows[q])
  BY <1>5, <1>6, KeyAgree
<1>8. ~SkipUniqueNullKey(ix, rows[r])
  BY <1>1 DEF SkipUniqueNullKey
<1>9. PICK k, d, e : k = Key(ix, rows[r]) /\ k = Key(ix, rows[q]) /\ d = <<k, r>> /\ e = <<k, q>>
  BY <1>7
<1>10. d \in ix.entries /\ e \in ix.entries
  BY <1>3, <1>7, <1>8, <1>9 DEF Has
<1>11. Once(ix)
  BY <1>1 DEF UniqueInv, OnceInv
<1>12. Marked(r) /\ Marked(q)
  BY <1>1, <1>2, <1>9, <1>10, <1>11 DEF Once
<1>13. \A p : Marked(p) => p \in raced
  BY DEF Quiet, Marked, Filler, Fills
<1> QED BY <1>12, <1>13

-----------------------------------------------------------------------------
(* UPDATE keeps the row.                                                     *)

\* What two records hold under the same bytes looks the same to the code.
LEMMA SameBytes ==
  ASSUME NEW rec, NEW x, NEW v, NEW w, NEW F, NEW G, ValsOK(v), ValsOK(w),
         Holds(rec, v, F, overflow_texts, stale), Holds(x, w, G, overflow_texts, stale),
         NEW f \in Fields, rec[f] = x[f]
  PROVE  \/ v[f] = w[f]
         \/ rec[f] = Zero /\ {v[f], w[f]} \subseteq {Null, Default(f)}
         \/ f \in TextFields /\ \E n \in stale : rec[f] = Marker(n)
<1> DEFINE T == overflow_texts
<1>1. PICK a, b : a = v[f] /\ b = w[f] /\ a \in Value(f) /\ b \in Value(f)
  BY DEF ValsOK
<1>2. /\ a \in {Null, Default(f)} => rec[f] = Zero
      /\ IsLong(f, a) => \E n \in Nat : rec[f] = Marker(n) /\ (n \in stale \/ (n \in DOMAIN T /\ T[n] = a))
      /\ a \notin {Null, Default(f)} /\ ~IsLong(f, a) => rec[f] = a
      /\ f \in TextFields => \A n \in Nat : a = Marker(n) => n \notin DOMAIN T \/ n \in stale
  BY <1>1 DEF Holds
<1>3. /\ b \in {Null, Default(f)} => rec[f] = Zero
      /\ IsLong(f, b) => \E n \in Nat : rec[f] = Marker(n) /\ (n \in stale \/ (n \in DOMAIN T /\ T[n] = b))
      /\ b \notin {Null, Default(f)} /\ ~IsLong(f, b) => rec[f] = b
      /\ f \in TextFields => \A n \in Nat : b = Marker(n) => n \notin DOMAIN T \/ n \in stale
  BY <1>1 DEF Holds
<1> HIDE DEF T
<1>4. a # Zero /\ b # Zero /\ \A n \in Nat : Marker(n) # Zero
  BY <1>1, ValueIs, Kinds
<1>5. (IsLong(f, a) \/ IsLong(f, b)) => f \in TextFields
  BY DEF IsLong
<1>6. \A n, m \in Nat : Marker(n) = Marker(m) => n = m
  BY Kinds
<1>7. CASE rec[f] = Zero
  <2>1. ~IsLong(f, a) /\ ~IsLong(f, b)
    BY <1>2, <1>3, <1>4, <1>7
  <2> QED BY <1>1, <1>2, <1>3, <1>4, <1>7, <2>1
<1>8. CASE rec[f] # Zero /\ ~IsLong(f, a) /\ ~IsLong(f, b)
  BY <1>1, <1>2, <1>3, <1>8
<1>9. CASE rec[f] # Zero /\ IsLong(f, a) /\ IsLong(f, b)
  <2>1. PICK n \in Nat : rec[f] = Marker(n) /\ (n \in stale \/ (n \in DOMAIN T /\ T[n] = a))
    BY <1>2, <1>9
  <2>2. PICK m \in Nat : rec[f] = Marker(m) /\ (m \in stale \/ (m \in DOMAIN T /\ T[m] = b))
    BY <1>3, <1>9
  <2> QED BY <1>1, <1>5, <1>6, <1>9, <2>1, <2>2
<1>10. CASE rec[f] # Zero /\ IsLong(f, a) /\ ~IsLong(f, b)
  <2>1. PICK n \in Nat : rec[f] = Marker(n) /\ (n \in stale \/ n \in DOMAIN T)
    BY <1>2, <1>10
  <2>2. b = Marker(n) /\ f \in TextFields
    BY <1>3, <1>5, <1>10, <2>1
  <2> QED BY <1>3, <2>1, <2>2
<1>11. CASE rec[f] # Zero /\ ~IsLong(f, a) /\ IsLong(f, b)
  <2>1. PICK n \in Nat : rec[f] = Marker(n) /\ (n \in stale \/ n \in DOMAIN T)
    BY <1>3, <1>11
  <2>2. a = Marker(n) /\ f \in TextFields
    BY <1>2, <1>5, <1>11, <2>1
  <2> QED BY <1>2, <2>1, <2>2
<1> QED BY <1>7, <1>8, <1>9, <1>10, <1>11

\* Records with the same key have the same bytes in the fields the key is made of.
LEMMA KeyBytes ==
  ASSUME NEW ix, MetaOK(ix), NEW rec, NEW x, Key(ix, rec) = Key(ix, x)
  PROVE  \A j \in 1 .. Len(KeyFields(ix.fields, rec)) :
           j \in 1 .. Len(ix.fields) /\ rec[ix.fields[j]] = x[ix.fields[j]]
<1>1. PICK fs : fs = ix.fields
  OBVIOUS
<1>2. fs \in Seq(Fields) /\ Len(fs) \in Nat
  BY <1>1 DEF MetaOK
<1>3. ASSUME NEW y
      PROVE  /\ Len(KeyFields(fs, y)) \in 0 .. Len(fs)
             /\ \A j \in 1 .. Len(KeyFields(fs, y)) : KeyFields(fs, y)[j] = fs[j]
  <2>1. PICK ends : ends = Ends(fs, y) /\ ends \subseteq 1 .. Len(fs)
    BY <1>2 DEF Ends
  <2>2. PICK c, ks : c = First(ends) /\ ks = FirstFields(fs, ends)
    OBVIOUS
  <2>3. ks = IF Len(fs) = 1 THEN (IF fs[1] \in TextFields THEN <<>> ELSE fs)
             ELSE IF ends = {} THEN fs ELSE SubSeq(fs, 1, c)
    BY <2>2 DEF FirstFields
  <2>4. KeyFields(fs, y) = ks
    <3>1. KeyFields(fs, y) = FirstFields(fs, Ends(fs, y))
      BY DEF KeyFields, FirstFields, Ends, First
    <3> QED BY <2>1, <2>2, <3>1
  <2>5. CASE ks = fs
    BY <1>2, <2>4, <2>5
  <2>7. CASE ks = <<>>
    BY <1>2, <2>4, <2>7
  <2>6. CASE ~(Len(fs) = 1 \/ ends = {})
    <3>1. \E j \in ends : \A m \in ends : j <= m
      <4>1. ends # {} /\ ends \subseteq Nat
        BY <1>2, <2>1, <2>6
      <4> QED BY <4>1, LeastNat
    <3>2. c \in 1 .. Len(fs)
      BY <2>1, <2>2, <3>1 DEF First
    <3>3. Len(ks) = c /\ \A j \in 1 .. c : ks[j] = fs[j]
      BY <1>2, <2>3, <2>6, <3>2
    <3> QED BY <1>2, <2>4, <3>2, <3>3
  <2> QED BY <2>3, <2>5, <2>6, <2>7
<1>4. PICK g, h : g = KeyFields(fs, rec) /\ h = KeyFields(fs, x)
  OBVIOUS
<1>5. /\ Len(g) \in 0 .. Len(fs) /\ Len(h) \in 0 .. Len(fs)
      /\ \A j \in 1 .. Len(g) : g[j] = fs[j]
      /\ \A j \in 1 .. Len(h) : h[j] = fs[j]
  BY <1>3, <1>4
<1>6. [i \in 1 .. Len(g) |-> rec[g[i]]] = [i \in 1 .. Len(h) |-> x[h[i]]]
  BY <1>1, <1>4 DEF Key
<1>7. 1 .. Len(g) = 1 .. Len(h) /\ \A i \in 1 .. Len(g) : rec[g[i]] = x[h[i]]
  BY <1>6
<1> QED BY <1>1, <1>2, <1>4, <1>5, <1>7

LEMMA TakenBy ==
  ASSUME IInv, ContentInv, NEW t \in Threads, th[t].pc = "check",
         NEW i \in 1 .. Len(indexes), ~SkipUniqueNullKey(indexes[i], th[t].data), indexes[i].unique,
         HasKey(indexes[i], Key(indexes[i], th[t].data)), ~LeftBehind(t, indexes[i])
  PROVE  Taken(t, indexes[i])
<1>1. PICK ix, rec, w : ix = indexes[i] /\ rec = th[t].data /\ w = th[t].vals
  OBVIOUS
<1>2. PICK e \in ix.entries : e[1] = Key(ix, rec)
  BY <1>1 DEF HasKey
<1>3. PICK r : r = e[2] /\ r \in Rids \ suspect
  BY <1>1, <1>2 DEF IInv, TypeInv, IndexOK, LeftBehind
<1>4. PICK row, v : row = rows[r] /\ v = given[r]
  OBVIOUS
<1>5. r \in DOMAIN rows /\ e[1] = Key(ix, row)
  BY <1>1, <1>2, <1>3, <1>4 DEF IInv, EntryInv, Sound
<1>6. MetaOK(ix) /\ ValsOK(v) /\ ValsOK(w)
  BY <1>1, <1>4, <1>5 DEF ContentInv, HoldInv, HeldOK
<1>7. PICK F : Holds(row, v, F, overflow_texts, stale)
  <2>1. SlotRight(r)
    BY <1>3 DEF ContentInv, ValueInv
  <2> QED BY <1>4, <1>5, <2>1 DEF SlotRight, RowRight
<1>8. PICK G : Holds(rec, w, G, overflow_texts, stale)
  BY <1>1 DEF ContentInv, ValueInv, PendRight
<1>9. ASSUME NEW j \in 1 .. Len(KeyFields(ix.fields, rec))
      PROVE  LooksSame(r, ix.fields[j], w[ix.fields[j]])
  <2>1. j \in 1 .. Len(ix.fields) /\ rec[ix.fields[j]] = row[ix.fields[j]]
    <3>1. Key(ix, rec) = Key(ix, row)
      BY <1>2, <1>5
    <3>2. \A k \in 1 .. Len(KeyFields(ix.fields, rec)) :
            k \in 1 .. Len(ix.fields) /\ rec[ix.fields[k]] = row[ix.fields[k]]
      BY <1>6, <3>1, KeyBytes
    <3> QED BY <3>2
  <2>2. PICK f \in Fields : f = ix.fields[j]
    BY <1>6, <2>1 DEF MetaOK
  <2>3. \/ v[f] = w[f]
        \/ row[f] = Zero /\ {v[f], w[f]} \subseteq {Null, Default(f)}
        \/ f \in TextFields /\ \E n \in stale : row[f] = Marker(n)
    BY <1>6, <1>7, <1>8, <2>1, <2>2, SameBytes
  <2>4. row[f] = Zero => f \notin Nullable
    BY <1>1, <2>1, <2>2 DEF SkipUniqueNullKey
  <2> QED BY <1>4, <2>2, <2>3, <2>4 DEF LooksSame
<1> QED BY <1>1, <1>5, <1>9 DEF Taken

\* Only a step of the thread itself makes it give up, and only one from "check".
LEMMA GivesUpBy ==
  ASSUME IInv, Next, NEW t \in Threads, GivesUp(t)
  PROVE  CheckUnique(t) \/ NoSlot(t) \/ PutRow(t)
<1>1. /\ th = [u \in Threads |-> th[u]] /\ th[t].pc = "check" /\ th[t].op = "update" /\ th'[t] # th[t]
  BY DEF GivesUp, IInv, TypeInv
<1>2. ~Restart
  BY <1>1 DEF Restart
<1>3. PICK u \in Threads :
        \/ \E tuples \in Tuples : Insert(u, tuples)
        \/ \E r \in DOMAIN rows : Delete(u, r)
        \/ \E S \in SUBSET DOMAIN rows, f \in Fields : \E v \in Values(f) : Update(u, S, f, v)
        \/ InsertNext(u) \/ DeleteNext(u) \/ UpdateNext(u) \/ EndStatement(u)
        \/ CheckUnique(u) \/ NoSlot(u) \/ PutRow(u) \/ EnterIndex(u) \/ RowDone(u) \/ UndoIndex(u) \/ UndoRow(u)
        \/ LeaveIndex(u) \/ DropRow(u) \/ ClearRow(u)
        \/ \E meta \in NewIndexes : BuildIndex(u, meta)
        \/ PublishIndex(u) \/ WriteMeta(u) \/ RenameMeta(u)
  BY <1>2 DEF Next
<1>4. u = t
  <2> SUFFICES ASSUME u # t
               PROVE  th'[t] = th[t]
    BY <1>1
  <2>1. CASE \/ \E tuples \in Tuples : Insert(u, tuples)
             \/ \E r \in DOMAIN rows : Delete(u, r)
             \/ \E S \in SUBSET DOMAIN rows, f \in Fields : \E v \in Values(f) : Update(u, S, f, v)
    BY <1>1, <2>1 DEF Insert, Delete, Update, Set
  <2>2. CASE InsertNext(u) \/ DeleteNext(u) \/ EndStatement(u)
    BY <1>1, <2>2 DEF InsertNext, DeleteNext, EndStatement, Done, Set
  <2>3. CASE UpdateNext(u)
    <3>1. PICK r, old, set : r = First(DOMAIN th[u].rest) /\ old = th[u].rest[r] /\ set = th[u].set
      OBVIOUS
    <3>2. th' = [th EXCEPT ![u] = Updated(u, r, old, set)]
      BY <2>3, <3>1, UpdateIs
    <3> QED BY <1>1, <3>2
  <2>4. CASE CheckUnique(u) \/ NoSlot(u) \/ PutRow(u) \/ EnterIndex(u) \/ RowDone(u)
    BY <1>1, <2>4 DEF CheckUnique, NoSlot, PutRow, EnterIndex, RowDone, Done, Set
  <2>5. CASE UndoIndex(u) \/ UndoRow(u) \/ LeaveIndex(u) \/ DropRow(u) \/ ClearRow(u)
    BY <1>1, <2>5 DEF UndoIndex, UndoRow, LeaveIndex, DropRow, ClearRow, Done, Set
  <2>6. CASE \/ \E meta \in NewIndexes : BuildIndex(u, meta)
             \/ PublishIndex(u) \/ WriteMeta(u) \/ RenameMeta(u)
    BY <1>1, <2>6 DEF BuildIndex, EnterRows, PublishIndex, WriteMeta, RenameMeta, Set
  <2> QED BY <1>3, <2>1, <2>2, <2>3, <2>4, <2>5, <2>6
<1> QED BY <1>1, <1>3, <1>4 DEF Insert, Delete, Update, Begin, InsertNext, DeleteNext, UpdateNext, EndStatement,
     EnterIndex, RowDone, UndoIndex, UndoRow, LeaveIndex, DropRow, ClearRow, BuildIndex, PublishIndex, WriteMeta, RenameMeta

\* Every action leaves the number of faults alone or adds one.
LEMMA FaultsKeep == faults \in Nat /\ [Next]_vars => faults' \in Nat
<1> SUFFICES ASSUME faults \in Nat, [Next]_vars
             PROVE  faults' \in Nat
  OBVIOUS
<1>1. CASE vars' = vars
  BY <1>1 DEF vars
<1>2. CASE Restart
  BY <1>2 DEF Restart
<1>3. ASSUME NEW t \in Threads
      PROVE  /\ (\E tuples \in Tuples : Insert(t, tuples)) => faults' = faults
             /\ (\E r \in DOMAIN rows : Delete(t, r)) => faults' = faults
             /\ (\E S \in SUBSET DOMAIN rows, f \in Fields : \E v \in Values(f) : Update(t, S, f, v)) => faults' = faults
  BY DEF Insert, Delete, Update, Begin
<1>4. ASSUME NEW t \in Threads,
             \/ InsertNext(t) \/ DeleteNext(t) \/ UpdateNext(t) \/ EndStatement(t)
             \/ RowDone(t) \/ ClearRow(t) \/ PublishIndex(t)
      PROVE  faults' = faults
  BY <1>4 DEF InsertNext, DeleteNext, UpdateNext, EndStatement, RowDone, ClearRow, PublishIndex
<1>5. ASSUME NEW t \in Threads,
             \/ CheckUnique(t) \/ NoSlot(t) \/ PutRow(t) \/ EnterIndex(t) \/ UndoIndex(t) \/ UndoRow(t)
      PROVE  faults' = faults \/ Fault
  BY <1>5 DEF CheckUnique, NoSlot, PutRow, EnterIndex, UndoIndex, UndoRow
<1>6. ASSUME NEW t \in Threads,
             \/ LeaveIndex(t) \/ DropRow(t) \/ WriteMeta(t) \/ RenameMeta(t)
             \/ \E meta \in NewIndexes : BuildIndex(t, meta)
      PROVE  faults' = faults \/ Fault
  BY <1>6 DEF LeaveIndex, DropRow, WriteMeta, RenameMeta, BuildIndex, EnterRows
<1> QED BY <1>1, <1>2, <1>3, <1>4, <1>5, <1>6 DEF Next, Fault

LEMMA KeepsRow ==
  ASSUME TableInv, ContentInv, faults \in Nat, UniqueInv, Next, NEW t \in Threads, GivesUp(t)
  PROVE  \/ FreeSlots = {} \/ faults' # faults
         \/ \E i \in 1 .. Len(indexes) :
              indexes[i].unique /\ (Taken(t, indexes[i]) \/ LeftBehind(t, indexes[i]))
<1>1. /\ (CheckUnique(t) \/ NoSlot(t) \/ PutRow(t)) /\ th[t].pc = "check" /\ th'[t].pc = "idle"
      /\ ThreadOK(th[t], files) /\ th = [u \in Threads |-> th[u]] /\ IInv
  BY GivesUpBy, ThreadType DEF GivesUp, TableInv, IInv, TypeInv
<1>2. CASE NoSlot(t)
  BY <1>2 DEF NoSlot, Fault
<1>3. CASE PutRow(t)
  <2>1. th'[t].pc # "idle"
    <3>1. PICK s : s = [th[t] EXCEPT !.pc = "enter", !.i = 1, !.rid = First(FreeSlots)]
      OBVIOUS
    <3>2. s.pc = "enter"
      BY <1>1, <3>1 DEF ThreadOK, ThreadFields
    <3> QED BY <1>1, <1>3, <3>1, <3>2 DEF PutRow, Set
  <2> QED BY <1>1, <2>1
<1>4. CASE CheckUnique(t)
  <2>1. PICK i, ix : i = th[t].i /\ ix = indexes[i]
    OBVIOUS
  <2>2. ix.unique /\ ~SkipUniqueNullKey(ix, th[t].data) /\ HasKey(ix, Key(ix, th[t].data))
    <3>1. PICK s, u : /\ s = [th[t] EXCEPT !.i = @ + 1]
                      /\ u = [th[t] EXCEPT !.i = @ + 1, !.unasked = TRUE]
      OBVIOUS
    <3>2. s.pc = "check" /\ u.pc = "check"
      BY <1>1, <3>1 DEF ThreadOK, ThreadFields
    <3>3. \/ th'[t] \in {s, u}
          \/ ix.unique /\ ~SkipUniqueNullKey(ix, th[t].data) /\ HasKey(ix, Key(ix, th[t].data))
      BY <1>1, <1>4, <2>1, <3>1 DEF CheckUnique, Set
    <3> QED BY <1>1, <3>2, <3>3
  <2>3. i \in 1 .. Len(indexes)
    <3>1. i <= Len(indexes) /\ PassedOK(t) /\ Len(indexes) \in Nat
      BY <1>1, <1>4, <2>1 DEF CheckUnique, UniqueInv, PassedInv, IInv, TypeInv, IsSeq
    <3> QED BY <1>1, <2>1, <3>1 DEF PassedOK
  <2> QED BY <1>1, <2>1, <2>2, <2>3, TakenBy
<1> QED BY <1>1, <1>2, <1>3, <1>4

-----------------------------------------------------------------------------
(* The theorems *)

AllInv == TableInv /\ ContentInv /\ UniqueInv /\ faults \in Nat

LEMMA AllHolds == Spec => []AllInv
<1>1. Init => AllInv
  <2>1. Init => faults \in Nat
    BY DEF Init
  <2> QED BY <2>1, InitHolds, InitMeta, InitContents, InitRivals DEF TableInv, AllInv
<1>2. AllInv /\ [Next]_vars => AllInv'
  <2>1. AllInv /\ [Next]_vars => IInv' /\ MetaInv'
    BY StepKeeps, MetaStepKeeps DEF AllInv
  <2> QED BY <2>1, ContentKeeps, RivalKeeps, FaultsKeep DEF TableInv, AllInv
<1> QED BY <1>1, <1>2, PTL DEF Spec

\* What queries read is what was written, rounded or cut to fit its field (make_record,
\* cell_at, mark_forced_null_fields), no text is kept that no row names
\* (erase_overflow_texts), and a unique index has kept out what may not be there twice
\* (insert_record, create_index): between statements, for any number of threads, slots,
\* fields and indexes, and whatever operations of an index or of the file fail.  What is
\* excepted are the suspect slots (two statements worked on one at once; a delete that
\* failed; an index that could not be asked for the key), and inserts that met.
THEOREM ContentsCorrect == Spec => []ContentsRight
<1>1. AllInv => ContentsRight
  BY InvCells, InvTexts, InvUnique DEF AllInv, TableInv, ContentsRight, ReadBack
<1> QED BY <1>1, AllHolds, PTL

\* An UPDATE that has deleted a row gives up the new one before it is in the file
\* (UpdateExecutor, insert_record) only when there is no slot, when the file fails, or when
\* a unique index has the new key: from another row, which looks the same to the code, or
\* from a suspect slot.  So it loses a row to an entry that the row itself, or a statement
\* that failed, has left only where a delete_entry has failed or two statements have worked
\* on one slot.
THEOREM UpdateKeeps == Spec => UpdateKeepsRow
<1>1. ASSUME AllInv, [Next]_vars
      PROVE  [\A t \in Threads : GivesUp(t) =>
                \/ FreeSlots = {} \/ faults' # faults
                \/ \E i \in 1 .. Len(indexes) :
                     indexes[i].unique /\ (Taken(t, indexes[i]) \/ LeftBehind(t, indexes[i]))]_vars
  BY <1>1, KeepsRow DEF AllInv
<1> QED BY <1>1, AllHolds, PTL DEF Spec, UpdateKeepsRow
=============================================================================
