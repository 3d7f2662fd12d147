--------------------------- MODULE MvccTrxProofs ---------------------------
(***************************************************************************)
(* Proofs about MvccTrx for every set of sessions, slots and pages and     *)
(* every bound: each action keeps IndInv; from it follow type correctness  *)
(* and the properties of committed rows, and, when DELETE reaches its rows *)
(* through index scans, the ownership of uncommitted marks.                *)
(***************************************************************************)
EXTENDS MvccTrx, TLAPS

InsertInv ==
  \A s \in Sessions :
    pc[s] = "inserted" => cur[s] \in Rids /\ InsertedAt(s, cur[s])

\* What appending an end record adds to the log, and nothing else.
LEMMA LogEndAdds ==
  ASSUME NEW s, NEW type, LogEnd(type, s)
  PROVE  \A ty \in {"MTR_COMMIT", "MTR_ROLLBACK"}, t \in Int :
           Logged(ty, t)' <=> Logged(ty, t) \/ (ty = type /\ t = trx_id[s])
  BY DEF LogEnd, Logged

\* The numbers of sessions with work in hand are positive and their own.
LEMMA IdFacts ==
  ASSUME IndInv
  PROVE  /\ \A u \in Sessions : trx_id[u] \in Int /\ trx_id[u] < MaxTrxId
         /\ \A u \in Sessions, x \in Rids : operations[u][x] # None => trx_id[u] > 0
         /\ \A u \in Sessions : pc[u] \in CallPcs => started[u] /\ trx_id[u] > 0
         /\ \A u, v \in Sessions : trx_id[u] = trx_id[v] /\ trx_id[u] > 0 => u = v
         /\ \A x \in Rids : rec[x] # None => rec[x].begin \in Int /\ rec[x].end \in Int
<1> USE DEF IndInv
<1>1. \A u \in Sessions : trx_id[u] \in Int /\ trx_id[u] < MaxTrxId
  BY IdAssumption DEF TypeOK
<1>2. \A u \in Sessions, x \in Rids : operations[u][x] # None => trx_id[u] > 0
  BY DEF IdInv, OwnerAt
<1>3. \A u \in Sessions : pc[u] \in CallPcs => started[u] /\ trx_id[u] > 0
  BY DEF IdInv, IdAt
<1>4. \A u, v \in Sessions : trx_id[u] = trx_id[v] /\ trx_id[u] > 0 => u = v
  BY DEF IdInv
<1>5. \A x \in Rids : rec[x] # None => rec[x].begin \in Int /\ rec[x].end \in Int
  BY DEF TypeOK, Row
<1> QED
  BY <1>1, <1>2, <1>3, <1>4, <1>5

\* Negation keeps different numbers apart.
LEMMA NegInj ==
  ASSUME NEW a \in Int, NEW b \in Int, a # b
  PROVE  -a # -b
  OBVIOUS

\* Two sessions' marks differ.
LEMMA OtherMark ==
  ASSUME IndInv, NEW s \in Sessions, NEW u \in Sessions, s # u, trx_id[s] > 0
  PROVE  -trx_id[s] # -trx_id[u]
<1>1. trx_id[s] \in Int /\ trx_id[u] \in Int /\ trx_id[s] # trx_id[u]
  BY IdFacts
<1> QED
  BY <1>1, NegInj

\* Two sessions with an operation on one row are both deleting it, which takes a
\* table scan.
LEMMA OpClash ==
  ASSUME IndInv, NEW s \in Sessions, NEW u \in Sessions, s # u, NEW r \in Rids,
         operations[s][r] # None, operations[u][r] # None, OpAt(s, r), OpAt(u, r)
  PROVE  operations[s][r] = "DELETE" /\ operations[u][r] = "DELETE" /\ ~IndexOnly
<1>1. /\ trx_id[s] \in Int /\ trx_id[u] \in Int /\ trx_id[s] > 0 /\ trx_id[u] > 0
      /\ -trx_id[s] # -trx_id[u]
  BY IdFacts, OtherMark
<1>2. operations[s][r] \in OpTypes /\ operations[u][r] \in OpTypes
  BY DEF IndInv, TypeOK
<1> QED
  BY <1>1, <1>2 DEF OpAt, OpTypes

\* An operation of one session on the row another is deleting is a deletion.
LEMMA DeleteClash ==
  ASSUME IndInv, NEW s \in Sessions, NEW u \in Sessions, s # u, NEW r \in Rids,
         operations[s][r] # None, OpAt(s, r), DeleteAt(u, r), trx_id[u] > 0
  PROVE  operations[s][r] = "DELETE"
<1>1. /\ trx_id[s] \in Int /\ trx_id[u] \in Int /\ trx_id[s] > 0
      /\ -trx_id[s] # -trx_id[u]
  BY IdFacts, OtherMark
<1>2. operations[s][r] \in OpTypes
  BY DEF IndInv, TypeOK
<1> QED
  BY <1>1, <1>2 DEF OpAt, DeleteAt, OpTypes

\* A row being inserted is in nobody else's hands.
LEMMA InsertAlone ==
  ASSUME IndInv, NEW s \in Sessions, NEW u \in Sessions, NEW r \in Rids,
         InsertedAt(u, r), trx_id[u] > 0, trx_id[s] > 0,
         \/ OpAt(s, r) /\ operations[s][r] # None
         \/ DeleteAt(s, r) /\ s # u
  PROVE  FALSE
<1>1. CASE s = u
  BY <1>1 DEF InsertedAt
<1>2. CASE s # u
  <2>1. /\ trx_id[s] \in Int /\ trx_id[u] \in Int /\ -trx_id[s] # -trx_id[u]
    BY <1>2, IdFacts, OtherMark
  <2>2. operations[s][r] # None => operations[s][r] \in OpTypes
    BY DEF IndInv, TypeOK
  <2> QED
    BY <2>1, <2>2 DEF OpAt, DeleteAt, InsertedAt, OpTypes
<1> QED
  BY <1>1, <1>2

\* The only number whose negation is a session's mark is its own.
LEMMA MarkNumber ==
  ASSUME IndInv, NEW s \in Sessions, NEW t \in 1 .. TrxBound, -t = -trx_id[s]
  PROVE  t = trx_id[s]
<1>1. t \in Int /\ trx_id[s] \in Int
  BY IdFacts, IdAssumption
<1> QED
  BY <1>1, NegInj

----------------------------------------------------------------------------
(* Each action keeps the invariant.                                        *)

\* Beginning a transaction takes a number nobody has.
LEMMA StartIfNeedKeeps ==
  ASSUME IndInv, NEW s \in Sessions,
         StartIfNeed(s)
  PROVE  IndInv'
<1> USE PageAssumption, NoneAssumption, IdAssumption
        DEF IndInv, TypeOK, Row, Pcs, OpTypes, EndRecord, DeletePcs, CallPcs, IndexOnly
<1>1. TypeOK'
  BY DEF StartIfNeed
<1>2. IdInv'
  BY DEF StartIfNeed, IdInv, IdAt, OwnerAt
<1>3. RowInv'
  BY DEF StartIfNeed, RowInv
<1>4. LatchInv'
  BY DEF StartIfNeed, LatchInv
<1>5. OpInv'
  BY DEF StartIfNeed, IdInv, OwnerAt, OpInv, OpAt, Unsettled
<1>6. CallInv'
  BY DEF StartIfNeed, CallInv, InsertedAt, DeleteAt
<1>7. MarkInv'
  <2> SUFFICES ASSUME NEW u \in Sessions, NEW x \in Rids,
                      rec[x] # None, trx_id'[u] > 0
               PROVE  MarkAt(u, x)'
    BY DEF StartIfNeed, MarkInv
  <2>1. CASE u = s
    BY <2>1 DEF StartIfNeed, RowInv, MarkAt
  <2>2. CASE u # s
    BY <2>2 DEF StartIfNeed, MarkInv, MarkAt, Unsettled, Logged
  <2> QED
    BY <2>1, <2>2
<1>8. EndedInv'
  BY DEF StartIfNeed, EndedInv, Logged
<1>9. EndSettlesRows'
  BY DEF StartIfNeed, EndSettlesRows, Logged
<1> QED
  BY <1>1, <1>2, <1>3, <1>4, <1>5, <1>6, <1>7, <1>8, <1>9

\* The new row carries the mark of its inserter.
LEMMA InsertRecordKeeps ==
  ASSUME IndInv, NEW s \in Sessions, NEW r \in Rids,
         InsertRecord(s, r)
  PROVE  IndInv'
<1> USE PageAssumption, NoneAssumption, IdAssumption
        DEF IndInv, TypeOK, Row, Pcs, OpTypes, EndRecord, DeletePcs, CallPcs, IndexOnly
<1>1. TypeOK'
  BY DEF InsertRecord
<1>2. IdInv'
  BY DEF InsertRecord, IdInv, IdAt, OwnerAt
<1>3. RowInv'
  BY DEF InsertRecord, IdInv, IdAt, RowInv
<1>4. LatchInv'
  BY DEF InsertRecord, LatchInv
<1>5. OpInv'
  BY DEF InsertRecord, OpInv, OpAt, Unsettled
<1>6. CallInv'
  BY DEF InsertRecord, IdAt, OpInv, OpAt, CallInv, InsertedAt, DeleteAt,
         Unsettled
<1>7. MarkInv'
  <2> SUFFICES ASSUME NEW u \in Sessions, NEW x \in Rids,
                      rec'[x] # None, trx_id[u] > 0
               PROVE  MarkAt(u, x)'
    BY DEF InsertRecord, MarkInv
  <2>1. CASE x = r
    <3>1. rec'[x].begin = -trx_id[s] /\ rec'[x].end = MaxTrxId
      BY <2>1 DEF InsertRecord
    <3>2. pc'[s] = "inserted" /\ cur'[s] = r
      BY DEF InsertRecord
    <3>3. UNCHANGED trx_id
      BY DEF InsertRecord
    <3> QED
      <4>1. CASE u = s
        BY <2>1, <3>1, <3>2, <3>3, <4>1, IdFacts DEF MarkAt
      <4>2. CASE u # s
        <5>1. -trx_id[s] # -trx_id[u]
          BY <4>2, OtherMark, IdFacts DEF InsertRecord, IdInv, IdAt
        <5>2. MaxTrxId # -trx_id[u]
          BY IdFacts
        <5> QED
          BY <3>1, <3>3, <5>1, <5>2 DEF MarkAt
      <4> QED
        BY <4>1, <4>2
  <2>2. CASE x # r
    BY <2>2 DEF InsertRecord, MarkInv, MarkAt, Unsettled, Logged
  <2> QED
    BY <2>1, <2>2
<1>8. EndedInv'
  BY DEF InsertRecord, EndedInv, Logged
<1>9. EndSettlesRows'
  <2>1. rec'[r].begin = -trx_id[s] /\ rec'[r].end = MaxTrxId
    BY DEF InsertRecord
  <2>2. \A x \in Rids : x # r => rec'[x] = rec[x]
    BY DEF InsertRecord
  <2>3. ~Logged("MTR_COMMIT", trx_id[s]) /\ ~Logged("MTR_ROLLBACK", trx_id[s])
    BY DEF InsertRecord, EndedInv
  <2>4. \A ty, t : Logged(ty, t)' <=> Logged(ty, t)
    BY DEF InsertRecord, Logged
  <2> SUFFICES ASSUME NEW x \in Rids, NEW t \in 1 .. TrxBound, rec'[x] # None
               PROVE  /\ rec'[x].begin = -t =>
                           ~Logged("MTR_COMMIT", t) /\ ~Logged("MTR_ROLLBACK", t)
                      /\ rec'[x].end = -t =>
                           (Logged("MTR_ROLLBACK", t) => Logged("MTR_COMMIT", t))
    BY <2>4 DEF EndSettlesRows
  <2>5. CASE x = r
    <3>1. MaxTrxId # -t
      OBVIOUS
    <3> QED
      BY <2>1, <2>3, <2>5, <3>1, MarkNumber
  <2>6. CASE x # r
    BY <2>2, <2>6 DEF EndSettlesRows
  <2> QED
    BY <2>5, <2>6
<1> QED
  BY <1>1, <1>2, <1>3, <1>4, <1>5, <1>6, <1>7, <1>8, <1>9

\* The inserted row becomes an operation of its transaction.
LEMMA LogInsertKeeps ==
  ASSUME IndInv, NEW s \in Sessions,
         LogInsert(s)
  PROVE  IndInv'
<1> USE PageAssumption, NoneAssumption, IdAssumption
        DEF IndInv, TypeOK, Row, Pcs, OpTypes, EndRecord, DeletePcs, CallPcs, IndexOnly
<1>1. TypeOK'
  BY DEF LogInsert, AddOperation
<1>2. IdInv'
  BY DEF LogInsert, IdInv, IdAt, OwnerAt
<1>3. RowInv'
  BY DEF LogInsert, RowInv
<1>4. LatchInv'
  BY DEF LogInsert, LatchInv
<1>5. OpInv'
  BY DEF LogInsert, AddOperation, OpInv, OpAt, CallInv, InsertedAt, Unsettled
<1>6. CallInv'
  BY DEF LogInsert, CallInv, InsertedAt, DeleteAt
<1>7. MarkInv'
  <2>1. cur[s] \in Rids /\ operations'[s][cur[s]] = "INSERT"
    BY DEF LogInsert, AddOperation, CallInv, InsertedAt
  <2>2. pc'[s] = "idle" /\ \A x \in Rids : x # cur[s] => operations'[s][x] = operations[s][x]
    BY DEF LogInsert, AddOperation
  <2>3. \A u \in Sessions : u # s =>
          pc'[u] = pc[u] /\ cur'[u] = cur[u] /\ operations'[u] = operations[u]
    BY DEF LogInsert
  <2>4. UNCHANGED <<rec, trx_id, todo, ended>> /\ pc[s] = "inserted"
    BY DEF LogInsert
  <2> SUFFICES ASSUME NEW u \in Sessions, NEW x \in Rids,
                      rec[x] # None, trx_id[u] > 0
               PROVE  MarkAt(u, x)'
    BY <2>4 DEF MarkInv
  <2>5. MarkAt(u, x) /\ (Logged("MTR_COMMIT", trx_id[u]) => Logged("MTR_COMMIT", trx_id[u])')
    BY <2>4 DEF MarkInv, Logged
  <2>6. CASE u # s
    BY <2>3, <2>4, <2>5, <2>6 DEF MarkAt, Unsettled
  <2>7. CASE u = s /\ x = cur[s]
    BY <2>1, <2>2, <2>7 DEF MarkAt, Unsettled
  <2>8. CASE u = s /\ x # cur[s]
    BY <2>1, <2>2, <2>4, <2>5, <2>8 DEF MarkAt, Unsettled
  <2> QED
    BY <2>6, <2>7, <2>8
<1>8. EndedInv'
  BY DEF LogInsert, EndedInv, Logged
<1>9. EndSettlesRows'
  BY DEF LogInsert, EndSettlesRows, Logged
<1> QED
  BY <1>1, <1>2, <1>3, <1>4, <1>5, <1>6, <1>7, <1>8, <1>9

\* A row that passes the conflict check is in nobody else's hands.
LEMMA VisitForDeleteKeeps ==
  ASSUME IndInv, NEW s \in Sessions, NEW r \in Rids, NEW path \in ScanPaths,
         VisitForDelete(s, r, path)
  PROVE  IndInv'
<1> USE PageAssumption, NoneAssumption, IdAssumption
        DEF IndInv, TypeOK, Row, Pcs, OpTypes, EndRecord, DeletePcs, CallPcs, IndexOnly
<1>1. TypeOK'
  BY DEF VisitForDelete
<1>2. IdInv'
  BY DEF VisitForDelete, IdInv, IdAt, OwnerAt
<1>3. RowInv'
  BY DEF VisitForDelete, RowInv
<1>4. LatchInv'
  BY PathAssumption DEF VisitForDelete, CanLatch, IndexOnly, LatchInv
<1>5. OpInv'
  BY DEF VisitForDelete, OpInv, OpAt, Unsettled
<1>6. CallInv'
  <2>1. InsertInv'
    BY DEF InsertInv, InsertedAt, VisitForDelete, CallInv
  <2>2. ASSUME NEW u \in Sessions, u # s, pc'[u] \in DeletePcs
        PROVE  DeleteAt(u, cur[u])'
    BY <2>2 DEF VisitForDelete, CallInv, DeleteAt
  <2>3. DeleteAt(s, r)'
    <3>1. trx_id[s] > 0 /\ rec[r] # None /\ pc'[s] = "delete"
      BY DEF VisitForDelete, IdInv, IdAt, OwnerAt
    <3>2. \/ rec[r].begin = -trx_id[s]
          \/ 0 < rec[r].begin /\ rec[r].begin <= trx_id[s] /\ 0 < rec[r].end
      BY <3>1 DEF VisitForDelete, VisitRecord, RowInv
    <3>3. operations[s][r] # None => Unsettled(s, r)
      BY DEF VisitForDelete, Unsettled
    <3>4. CASE rec[r].begin = -trx_id[s]
      BY <3>1, <3>4 DEF VisitForDelete, MarkInv, MarkAt, DeleteAt
    <3>5. CASE 0 < rec[r].begin /\ rec[r].begin <= trx_id[s] /\ 0 < rec[r].end
      <4>1. operations[s][r] # "INSERT" /\ (IndexOnly => operations[s][r] = None)
        BY <3>1, <3>3, <3>5 DEF OpInv, OpAt
      <4> QED
        BY <3>1, <3>5, <4>1 DEF VisitForDelete, DeleteAt
    <3> QED
      BY <3>2, <3>4, <3>5
  <2> QED
    BY <2>1, <2>2, <2>3 DEF CallInv, InsertInv, VisitForDelete
<1>7. MarkInv'
  BY DEF VisitForDelete, MarkInv, MarkAt, Logged, Unsettled
<1>8. EndedInv'
  BY DEF VisitForDelete, EndedInv, Logged
<1>9. EndSettlesRows'
  BY DEF VisitForDelete, EndSettlesRows, Logged
<1> QED
  BY <1>1, <1>2, <1>3, <1>4, <1>5, <1>6, <1>7, <1>8, <1>9

\* A row that is not the newest version is given back.
LEMMA CheckEndXidKeeps ==
  ASSUME IndInv, NEW s \in Sessions,
         CheckEndXid(s)
  PROVE  IndInv'
<1> USE PageAssumption, NoneAssumption, IdAssumption
        DEF IndInv, TypeOK, Row, Pcs, OpTypes, EndRecord, DeletePcs, CallPcs, IndexOnly
<1>1. TypeOK'
  <2>1. CASE rec[cur[s]].end = MaxTrxId
    BY <2>1 DEF CheckEndXid
  <2>2. CASE rec[cur[s]].end # MaxTrxId
    <3>1. ReleaseLatch(s) \in [Pages -> Sessions \cup {None}]
      BY DEF ReleaseLatch
    <3> QED
      BY <2>2, <3>1 DEF CheckEndXid
  <2> QED
    BY <2>1, <2>2
<1>2. IdInv'
  BY DEF CheckEndXid, ReleaseLatch, IdInv, IdAt, OwnerAt
<1>3. RowInv'
  BY DEF CheckEndXid, RowInv
<1>4. LatchInv'
  <2>1. CASE rec[cur[s]].end = MaxTrxId
    <3>1. /\ UNCHANGED <<latch, cur>> /\ pc[s] = "delete" /\ pc'[s] = "mark"
          /\ \A u \in Sessions : u # s => pc'[u] = pc[u]
      BY <2>1 DEF CheckEndXid
    <3> QED
      BY <3>1 DEF LatchInv
  <2>2. CASE rec[cur[s]].end # MaxTrxId
    <3>1. /\ pc[s] = "delete" /\ pc'[s] = "idle"
          /\ \A u \in Sessions : u # s => pc'[u] = pc[u] /\ cur'[u] = cur[u]
          /\ \A p \in Pages : latch'[p] = IF latch[p] = s THEN None ELSE latch[p]
      BY <2>2 DEF CheckEndXid, ReleaseLatch
    <3> QED
      BY <3>1 DEF LatchInv
  <2> QED
    BY <2>1, <2>2
<1>5. OpInv'
  <2>1. \A u \in Sessions, x \in Rids : Unsettled(u, x)' => Unsettled(u, x)
    BY DEF CheckEndXid, Unsettled
  <2> QED
    BY <2>1 DEF CheckEndXid, OpInv, OpAt
<1>6. CallInv'
  BY DEF CheckEndXid, CallInv, InsertedAt, DeleteAt
<1>7. MarkInv'
  BY DEF CheckEndXid, IdInv, MarkInv, MarkAt, Logged, Unsettled
<1>8. EndedInv'
  BY DEF CheckEndXid, EndedInv, Logged
<1>9. EndSettlesRows'
  BY DEF CheckEndXid, EndSettlesRows, Logged
<1> QED
  BY <1>1, <1>2, <1>3, <1>4, <1>5, <1>6, <1>7, <1>8, <1>9

\* The mark replaces the end of a newest version only.
LEMMA MarkRecordKeeps ==
  ASSUME IndInv, NEW s \in Sessions,
         MarkRecord(s)
  PROVE  IndInv'
<1> USE PageAssumption, NoneAssumption, IdAssumption
        DEF IndInv, TypeOK, Row, Pcs, OpTypes, EndRecord, DeletePcs, CallPcs, IndexOnly
<1> DEFINE c == cur[s]
<1>a. c \in Rids /\ rec[c] # None /\ DeleteAt(s, c) /\ started[s] /\ trx_id[s] > 0
  BY DEF MarkRecord, LatchInv, CallInv, DeleteAt, IdInv, IdAt, OwnerAt
<1>b. rec' = [rec EXCEPT ![c].end = -trx_id[s]] /\ pc[s] = "mark"
  BY DEF MarkRecord
<1>c. /\ rec' \in [Rids -> Row \cup {None}]
      /\ rec'[c] # None /\ rec'[c].begin = rec[c].begin /\ rec'[c].end = -trx_id[s]
      /\ \A x \in Rids : x # c => rec'[x] = rec[x]
  BY <1>a, <1>b, SMTT(30)
<1>d. /\ pc'[s] = "updater" /\ \A u \in Sessions : u # s => pc'[u] = pc[u]
      /\ UNCHANGED <<current_trx_id, latch, trx_id, started, operations, cur,
                     todo, commit_xid, ended>>
  BY DEF MarkRecord
<1>1. TypeOK'
  BY SMTT(30) DEF MarkRecord, LatchInv, CallInv, DeleteAt
<1>2. IdInv'
  BY DEF MarkRecord, IdInv, IdAt, OwnerAt
<1>3. RowInv'
  BY DEF MarkRecord, IdInv, IdAt, RowInv, CallInv, DeleteAt
<1>4. LatchInv'
  BY DEF MarkRecord, LatchInv
<1>5. OpInv'
  <2> SUFFICES ASSUME NEW u \in Sessions, NEW x \in Rids, Unsettled(u, x)'
               PROVE  OpAt(u, x)'
    BY DEF OpInv
  <2>1. OpAt(u, x) /\ operations[u][x] # None /\ trx_id[u] > 0
    BY <1>b, <1>d DEF OpInv, Unsettled, IdInv, IdAt, OwnerAt
  <2>2. CASE x = c
    <3>1. CASE operations[u][c] = "INSERT"
      BY <1>a, <1>c, <1>d, <2>1, <2>2, <3>1
         DEF OpAt, DeleteAt, IdInv, IdAt, OwnerAt
    <3>2. CASE operations[u][c] = "DELETE"
      BY <1>a, <1>b, <1>c, <1>d, <2>1, <2>2, <3>2
         DEF OpAt, DeleteAt, IdInv, IdAt, OwnerAt
    <3> QED
      BY <2>1, <2>2, <3>1, <3>2
  <2>3. CASE x # c
    BY <1>c, <1>d, <2>1, <2>3 DEF OpAt
  <2> QED
    BY <2>2, <2>3
<1>6. CallInv'
  <2> SUFFICES ASSUME NEW u \in Sessions
               PROVE  /\ pc'[u] = "inserted" => cur[u] \in Rids /\ InsertedAt(u, cur[u])'
                      /\ pc'[u] \in DeletePcs => DeleteAt(u, cur[u])'
    BY <1>d DEF CallInv
  <2>1. CASE u = s
    BY <1>a, <1>b, <1>c, <1>d, <2>1 DEF DeleteAt
  <2>2. CASE u # s /\ pc[u] = "inserted"
    <3>1. cur[u] \in Rids /\ InsertedAt(u, cur[u]) /\ cur[u] # c
      <4>1. cur[u] \in Rids /\ InsertedAt(u, cur[u]) /\ trx_id[u] > 0
        BY IdFacts, <2>2 DEF CallInv
      <4> QED
        BY <1>a, <2>2, <4>1, InsertAlone
    <3> QED
      BY <1>c, <1>d, <2>2, <3>1 DEF InsertedAt
  <2>3. CASE u # s /\ pc[u] \in DeletePcs
    <3>1. cur[u] \in Rids /\ DeleteAt(u, cur[u]) /\ (IndexOnly => cur[u] # c)
      BY <1>a, <1>b, <2>3 DEF CallInv, LatchInv
    <3> QED
      BY <1>a, <1>c, <1>d, <2>3, <3>1 DEF DeleteAt
  <2> QED
    BY <1>d, <2>1, <2>2, <2>3
<1>7. MarkInv'
  <2> SUFFICES ASSUME NEW u \in Sessions, NEW x \in Rids,
                      rec'[x] # None, trx_id[u] > 0
               PROVE  MarkAt(u, x)'
    BY <1>d DEF MarkInv
  <2>1. MarkAt(u, x) /\ (Unsettled(u, x) => Unsettled(u, x)')
    BY <1>a, <1>b, <1>c, <1>d DEF MarkInv, Unsettled
  <2>2. CASE u = s /\ x = c
    BY <1>a, <1>b, <1>c, <1>d, <2>1, <2>2 DEF MarkAt
  <2>3. CASE u # s /\ x = c
    <3>1. rec'[x].end # -trx_id[u]
      BY OtherMark, <1>a, <1>c, <2>3
    <3> QED
      BY <1>c, <1>d, <2>1, <2>3, <3>1 DEF MarkAt
  <2>4. CASE x # c
    BY <1>a, <1>b, <1>c, <1>d, <2>1, <2>4 DEF MarkAt, Logged
  <2> QED
    BY <2>2, <2>3, <2>4
<1>8. EndedInv'
  BY DEF MarkRecord, EndedInv, Logged
<1>9. EndSettlesRows'
  <2>1. ~Logged("MTR_COMMIT", trx_id[s]) /\ ~Logged("MTR_ROLLBACK", trx_id[s])
    BY <1>a DEF EndedInv
  <2>2. \A ty, t : Logged(ty, t)' <=> Logged(ty, t)
    BY <1>d DEF Logged
  <2> SUFFICES ASSUME NEW x \in Rids, NEW t \in 1 .. TrxBound, rec'[x] # None
               PROVE  /\ rec'[x].begin = -t =>
                           ~Logged("MTR_COMMIT", t) /\ ~Logged("MTR_ROLLBACK", t)
                      /\ rec'[x].end = -t =>
                           (Logged("MTR_ROLLBACK", t) => Logged("MTR_COMMIT", t))
    BY <2>2 DEF EndSettlesRows
  <2>3. CASE x = c
    <3>1. rec'[x].end = -t => t = trx_id[s]
      BY <1>c, <2>3, MarkNumber
    <3>2. rec[x].begin = -t => ~Logged("MTR_COMMIT", t) /\ ~Logged("MTR_ROLLBACK", t)
      BY <1>a, <2>3 DEF EndSettlesRows
    <3> QED
      BY <1>c, <2>1, <2>3, <3>1, <3>2
  <2>4. CASE x # c
    BY <1>c, <2>4 DEF EndSettlesRows
  <2> QED
    BY <2>3, <2>4
<1> QED
  BY <1>1, <1>2, <1>3, <1>4, <1>5, <1>6, <1>7, <1>8, <1>9

\* Marking again changes nothing for an index scan.
LEMMA MarkStoredKeeps ==
  ASSUME IndInv, NEW s \in Sessions,
         MarkStored(s)
  PROVE  IndInv'
<1> USE PageAssumption, NoneAssumption, IdAssumption
        DEF IndInv, TypeOK, Row, Pcs, OpTypes, EndRecord, DeletePcs, CallPcs, IndexOnly
<1> DEFINE c == cur[s]
<1>a. c \in Rids /\ rec[c] # None /\ DeleteAt(s, c) /\ started[s] /\ trx_id[s] > 0
  BY DEF MarkStored, LatchInv, CallInv, DeleteAt, IdInv, IdAt, OwnerAt
<1>b. rec' = [rec EXCEPT ![c].end = -trx_id[s]] /\ pc[s] = "updater"
  BY DEF MarkStored
<1>c. /\ rec' \in [Rids -> Row \cup {None}]
      /\ rec'[c] # None /\ rec'[c].begin = rec[c].begin /\ rec'[c].end = -trx_id[s]
      /\ \A x \in Rids : x # c => rec'[x] = rec[x]
  BY <1>a, <1>b, SMTT(30)
<1>d. /\ pc'[s] = "deleted" /\ \A u \in Sessions : u # s => pc'[u] = pc[u]
      /\ UNCHANGED <<current_trx_id, latch, trx_id, started, operations, cur,
                     todo, commit_xid, ended>>
  BY DEF MarkStored
<1>1. TypeOK'
  BY DEF MarkStored, LatchInv, CallInv, DeleteAt
<1>2. IdInv'
  BY DEF MarkStored, IdInv, IdAt, OwnerAt
<1>3. RowInv'
  BY DEF MarkStored, IdInv, IdAt, RowInv, CallInv, DeleteAt
<1>4. LatchInv'
  BY DEF MarkStored, LatchInv
<1>5. OpInv'
  <2> SUFFICES ASSUME NEW u \in Sessions, NEW x \in Rids, Unsettled(u, x)'
               PROVE  OpAt(u, x)'
    BY DEF OpInv
  <2>1. OpAt(u, x) /\ operations[u][x] # None /\ trx_id[u] > 0
    BY <1>b, <1>d DEF OpInv, Unsettled, IdInv, IdAt, OwnerAt
  <2>2. CASE x = c
    <3>1. CASE operations[u][c] = "INSERT"
      BY <1>a, <1>c, <1>d, <2>1, <2>2, <3>1
         DEF OpAt, DeleteAt, IdInv, IdAt, OwnerAt
    <3>2. CASE operations[u][c] = "DELETE"
      BY <1>a, <1>b, <1>c, <1>d, <2>1, <2>2, <3>2
         DEF OpAt, DeleteAt, IdInv, IdAt, OwnerAt
    <3> QED
      BY <2>1, <2>2, <3>1, <3>2
  <2>3. CASE x # c
    BY <1>c, <1>d, <2>1, <2>3 DEF OpAt
  <2> QED
    BY <2>2, <2>3
<1>6. CallInv'
  <2> SUFFICES ASSUME NEW u \in Sessions
               PROVE  /\ pc'[u] = "inserted" => cur[u] \in Rids /\ InsertedAt(u, cur[u])'
                      /\ pc'[u] \in DeletePcs => DeleteAt(u, cur[u])'
    BY <1>d DEF CallInv
  <2>1. CASE u = s
    BY <1>a, <1>b, <1>c, <1>d, <2>1 DEF DeleteAt
  <2>2. CASE u # s /\ pc[u] = "inserted"
    <3>1. cur[u] \in Rids /\ InsertedAt(u, cur[u]) /\ cur[u] # c
      <4>1. cur[u] \in Rids /\ InsertedAt(u, cur[u]) /\ trx_id[u] > 0
        BY IdFacts, <2>2 DEF CallInv
      <4> QED
        BY <1>a, <2>2, <4>1, InsertAlone
    <3> QED
      BY <1>c, <1>d, <2>2, <3>1 DEF InsertedAt
  <2>3. CASE u # s /\ pc[u] \in DeletePcs
    <3>1. cur[u] \in Rids /\ DeleteAt(u, cur[u]) /\ (IndexOnly => cur[u] # c)
      BY <1>a, <1>b, <2>3 DEF CallInv, LatchInv
    <3> QED
      BY <1>a, <1>c, <1>d, <2>3, <3>1 DEF DeleteAt
  <2> QED
    BY <1>d, <2>1, <2>2, <2>3
<1>7. MarkInv'
  <2> SUFFICES ASSUME NEW u \in Sessions, NEW x \in Rids,
                      rec'[x] # None, trx_id[u] > 0
               PROVE  MarkAt(u, x)'
    BY <1>d DEF MarkInv
  <2>1. MarkAt(u, x) /\ (Unsettled(u, x) => Unsettled(u, x)')
    BY <1>a, <1>b, <1>c, <1>d DEF MarkInv, Unsettled
  <2>2. CASE u = s /\ x = c
    BY <1>a, <1>b, <1>c, <1>d, <2>1, <2>2 DEF MarkAt
  <2>3. CASE u # s /\ x = c
    <3>1. rec'[x].end # -trx_id[u]
      BY OtherMark, <1>a, <1>c, <2>3
    <3> QED
      BY <1>c, <1>d, <2>1, <2>3, <3>1 DEF MarkAt
  <2>4. CASE x # c
    BY <1>a, <1>b, <1>c, <1>d, <2>1, <2>4 DEF MarkAt, Logged
  <2> QED
    BY <2>2, <2>3, <2>4
<1>8. EndedInv'
  BY DEF MarkStored, EndedInv, Logged
<1>9. EndSettlesRows'
  <2>1. ~Logged("MTR_COMMIT", trx_id[s]) /\ ~Logged("MTR_ROLLBACK", trx_id[s])
    BY <1>a DEF EndedInv
  <2>2. \A ty, t : Logged(ty, t)' <=> Logged(ty, t)
    BY <1>d DEF Logged
  <2> SUFFICES ASSUME NEW x \in Rids, NEW t \in 1 .. TrxBound, rec'[x] # None
               PROVE  /\ rec'[x].begin = -t =>
                           ~Logged("MTR_COMMIT", t) /\ ~Logged("MTR_ROLLBACK", t)
                      /\ rec'[x].end = -t =>
                           (Logged("MTR_ROLLBACK", t) => Logged("MTR_COMMIT", t))
    BY <2>2 DEF EndSettlesRows
  <2>3. CASE x = c
    <3>1. rec'[x].end = -t => t = trx_id[s]
      BY <1>c, <2>3, MarkNumber
    <3>2. rec[x].begin = -t => ~Logged("MTR_COMMIT", t) /\ ~Logged("MTR_ROLLBACK", t)
      BY <1>a, <2>3 DEF EndSettlesRows
    <3> QED
      BY <1>c, <2>1, <2>3, <3>1, <3>2
  <2>4. CASE x # c
    BY <1>c, <2>4 DEF EndSettlesRows
  <2> QED
    BY <2>3, <2>4
<1> QED
  BY <1>1, <1>2, <1>3, <1>4, <1>5, <1>6, <1>7, <1>8, <1>9

\* The marked row becomes an operation, unless it is the transaction's own insert.
LEMMA LogDeleteKeeps ==
  ASSUME IndInv, NEW s \in Sessions,
         LogDelete(s)
  PROVE  IndInv'
<1> USE PageAssumption, NoneAssumption, IdAssumption
        DEF IndInv, TypeOK, Row, Pcs, OpTypes, EndRecord, DeletePcs, CallPcs, IndexOnly
<1> DEFINE c == cur[s]
<1>a. c \in Rids /\ DeleteAt(s, c) /\ pc[s] = "deleted" /\ trx_id[s] > 0
  BY DEF LogDelete, LatchInv, CallInv, IdInv, IdAt, OwnerAt
<1>b. /\ operations'[s][c] = IF operations[s][c] = None THEN "DELETE" ELSE operations[s][c]
      /\ \A x \in Rids : x # c => operations'[s][x] = operations[s][x]
      /\ \A u \in Sessions : u # s => operations'[u] = operations[u]
  BY <1>a DEF LogDelete, AddOperation
<1>c. /\ pc'[s] = "idle" /\ \A u \in Sessions : u # s => pc'[u] = pc[u] /\ cur'[u] = cur[u]
      /\ UNCHANGED <<current_trx_id, rec, trx_id, started, todo, commit_xid, ended>>
  BY DEF LogDelete
<1>1. TypeOK'
  BY DEF LogDelete, AddOperation, ReleaseLatch
<1>2. IdInv'
  BY DEF LogDelete, IdInv, IdAt, OwnerAt
<1>3. RowInv'
  BY DEF LogDelete, RowInv
<1>4. LatchInv'
  BY DEF LogDelete, ReleaseLatch, LatchInv
<1>5. OpInv'
  <2> SUFFICES ASSUME NEW u \in Sessions, NEW x \in Rids, Unsettled(u, x)'
               PROVE  OpAt(u, x)'
    BY DEF OpInv
  <2>1. CASE u = s /\ x = c
    <3>1. operations[s][c] # None => OpAt(s, c)
      BY <1>a DEF OpInv, Unsettled
    <3> QED
      BY <1>a, <1>b, <1>c, <2>1, <3>1 DEF OpAt, DeleteAt, Unsettled
  <2>2. CASE ~(u = s /\ x = c)
    <3>1. Unsettled(u, x) /\ operations'[u][x] = operations[u][x]
      BY <1>a, <1>b, <1>c, <2>2 DEF Unsettled
    <3> QED
      BY <1>c, <3>1 DEF OpInv, OpAt
  <2> QED
    BY <2>1, <2>2
<1>6. CallInv'
  BY DEF LogDelete, CallInv, InsertedAt, DeleteAt
<1>7. MarkInv'
  <2> SUFFICES ASSUME NEW u \in Sessions, NEW x \in Rids,
                      rec[x] # None, trx_id[u] > 0
               PROVE  MarkAt(u, x)'
    BY <1>c DEF MarkInv
  <2>1. MarkAt(u, x)
    BY DEF MarkInv
  <2>2. CASE u = s /\ x = c
    <3>1. Unsettled(s, x)'
      BY <1>a, <1>b, <1>c, <2>2 DEF Unsettled
    <3>2. rec[c].begin = -trx_id[s] => operations'[s][c] = "INSERT"
      BY <1>a, <1>b DEF DeleteAt
    <3> QED
      BY <1>c, <2>2, <3>1, <3>2 DEF MarkAt
  <2>3. CASE ~(u = s /\ x = c)
    <3>1. Unsettled(u, x) => Unsettled(u, x)'
      BY <1>a, <1>b, <1>c, <2>3 DEF Unsettled
    <3>2. operations'[u][x] = operations[u][x]
      BY <1>b, <2>3
    <3> QED
      BY <1>a, <1>c, <2>1, <2>3, <3>1, <3>2 DEF MarkAt, Logged
  <2> QED
    BY <2>2, <2>3
<1>8. EndedInv'
  BY DEF LogDelete, EndedInv, Logged
<1>9. EndSettlesRows'
  BY DEF LogDelete, EndSettlesRows, Logged
<1> QED
  BY <1>1, <1>2, <1>3, <1>4, <1>5, <1>6, <1>7, <1>8, <1>9

\* The commit number is above the transaction's own.
LEMMA CommitKeeps ==
  ASSUME IndInv, NEW s \in Sessions,
         Commit(s)
  PROVE  IndInv'
<1> USE PageAssumption, NoneAssumption, IdAssumption
        DEF IndInv, TypeOK, Row, Pcs, OpTypes, EndRecord, DeletePcs, CallPcs, IndexOnly
<1>1. TypeOK'
  BY DEF Commit, Pending
<1>2. IdInv'
  BY DEF Commit, Pending, IdInv, IdAt, OwnerAt
<1>3. RowInv'
  BY DEF Commit, RowInv
<1>4. LatchInv'
  BY DEF Commit, LatchInv
<1>5. OpInv'
  BY DEF Commit, OpInv, OpAt, Unsettled
<1>6. CallInv'
  BY DEF Commit, CallInv, InsertedAt, DeleteAt
<1>7. MarkInv'
  BY DEF Commit, Pending, MarkInv, MarkAt, Logged, Unsettled
<1>8. EndedInv'
  BY DEF Commit, EndedInv, Logged
<1>9. EndSettlesRows'
  BY DEF Commit, EndSettlesRows, Logged
<1> QED
  BY <1>1, <1>2, <1>3, <1>4, <1>5, <1>6, <1>7, <1>8, <1>9

\* A stamp replaces the transaction's own mark.
LEMMA CommitOperationKeeps ==
  ASSUME IndInv, NEW s \in Sessions, NEW r \in Rids,
         CommitOperation(s, r)
  PROVE  IndInv'
<1> USE PageAssumption, NoneAssumption, IdAssumption
        DEF IndInv, TypeOK, Row, Pcs, OpTypes, EndRecord, DeletePcs, CallPcs, IndexOnly
<1>a. OpAt(s, r) /\ operations[s][r] # None /\ trx_id[s] > 0 /\ pc[s] = "commit"
  BY DEF CommitOperation, OpInv, Unsettled, IdInv, IdAt, OwnerAt
<1>b. trx_id[s] < commit_xid[s] /\ commit_xid[s] <= current_trx_id
  BY <1>a DEF IdInv, IdAt, OwnerAt
<1>c. /\ rec' \in [Rids -> Row \cup {None}] /\ rec'[r] # None
      /\ operations[s][r] = "INSERT" =>
           rec'[r].begin = commit_xid[s] /\ rec'[r].end = rec[r].end
      /\ operations[s][r] = "DELETE" =>
           rec'[r].begin = rec[r].begin /\ rec'[r].end = commit_xid[s]
      /\ \A x \in Rids : x # r => rec'[x] = rec[x]
  BY <1>a DEF CommitOperation, OpAt
<1>d. /\ todo'[s] = todo[s] \ {r} /\ \A u \in Sessions : u # s => todo'[u] = todo[u]
      /\ UNCHANGED <<current_trx_id, latch, trx_id, started, operations, pc,
                     cur, commit_xid, ended>>
  BY DEF CommitOperation
<1>e. \A u \in Sessions : pc[u] \in DeletePcs /\ IndexOnly => cur[u] # r
  BY <1>a DEF CommitOperation, CanLatch, LatchInv
<1>1. TypeOK'
  BY <1>c, <1>d DEF CommitOperation
<1>2. IdInv'
  BY DEF CommitOperation, IdInv, IdAt, OwnerAt
<1>3. RowInv'
  BY DEF CommitOperation, IdInv, IdAt, OwnerAt, RowInv, OpInv, OpAt, Unsettled
<1>4. LatchInv'
  BY DEF CommitOperation, LatchInv
<1>5. OpInv'
  <2> SUFFICES ASSUME NEW u \in Sessions, NEW x \in Rids, Unsettled(u, x)'
               PROVE  OpAt(u, x)'
    BY DEF OpInv
  <2>1. OpAt(u, x) /\ operations[u][x] # None /\ trx_id[u] > 0 /\ ~(u = s /\ x = r)
    BY <1>a, <1>d DEF OpInv, Unsettled, IdInv, IdAt, OwnerAt
  <2>2. CASE x = r
    <3>1. u # s /\ trx_id[u] # trx_id[s]
      BY IdFacts, <1>a, <2>1, <2>2
    <3>2. operations[s][r] = "DELETE" /\ operations[u][r] = "DELETE" /\ ~IndexOnly
      BY OpClash, <1>a, <2>1, <2>2, <3>1
    <3> QED
      BY <1>c, <1>d, <2>1, <2>2, <3>2 DEF OpAt
  <2>3. CASE x # r
    BY <1>c, <1>d, <2>1, <2>3 DEF OpAt
  <2> QED
    BY <2>2, <2>3
<1>6. CallInv'
  <2> SUFFICES ASSUME NEW u \in Sessions
               PROVE  /\ pc[u] = "inserted" => cur[u] \in Rids /\ InsertedAt(u, cur[u])'
                      /\ pc[u] \in DeletePcs => DeleteAt(u, cur[u])'
    BY <1>d DEF CallInv
  <2>1. CASE pc[u] = "inserted"
    <3>1. cur[u] \in Rids /\ InsertedAt(u, cur[u]) /\ cur[u] # r
      <4>1. cur[u] \in Rids /\ InsertedAt(u, cur[u]) /\ trx_id[u] > 0
        BY IdFacts, <2>1 DEF CallInv
      <4> QED
        BY <1>a, <4>1, InsertAlone
    <3> QED
      BY <1>c, <1>d, <2>1, <3>1 DEF InsertedAt
  <2>2. CASE pc[u] \in DeletePcs
    <3>1. cur[u] \in Rids /\ DeleteAt(u, cur[u]) /\ u # s /\ trx_id[u] > 0
      BY <1>a, <2>2 DEF CallInv, LatchInv, IdInv, IdAt, OwnerAt
    <3>2. CASE cur[u] = r
      <4>1. ~IndexOnly /\ trx_id[u] # trx_id[s]
        BY IdFacts, <1>e, <2>2, <3>1, <3>2
      <4>2. operations[s][r] = "DELETE"
        BY DeleteClash, <1>a, <3>1, <3>2
      <4> QED
        BY <1>c, <1>d, <2>2, <3>1, <3>2, <4>1, <4>2 DEF DeleteAt
    <3>3. CASE cur[u] # r
      BY <1>c, <1>d, <2>2, <3>1, <3>3 DEF DeleteAt
    <3> QED
      BY <2>2, <3>2, <3>3
  <2> QED
    BY <2>1, <2>2
<1>7. MarkInv'
  BY DEF CommitOperation, IdInv, OwnerAt, MarkInv, MarkAt, Logged, OpInv, OpAt,
         Unsettled
<1>8. EndedInv'
  BY DEF CommitOperation, EndedInv, Logged
<1>9. EndSettlesRows'
  BY DEF CommitOperation, IdInv, OwnerAt, EndSettlesRows, Logged, OpInv, OpAt,
         Unsettled
<1> QED
  BY <1>1, <1>2, <1>3, <1>4, <1>5, <1>6, <1>7, <1>8, <1>9

\* When the loop has run, no insert mark of the transaction is left.
LEMMA CommitDoneKeeps ==
  ASSUME IndInv, NEW s \in Sessions,
         CommitDone(s)
  PROVE  IndInv'
<1> USE PageAssumption, NoneAssumption, IdAssumption
        DEF IndInv, TypeOK, Row, Pcs, OpTypes, EndRecord, DeletePcs, CallPcs, IndexOnly
<1>a. LogEnd("MTR_COMMIT", s) /\ pc[s] = "commit" /\ ~started[s]
  BY DEF CommitDone, IdInv, IdAt, OwnerAt
<1>b. \A ty \in {"MTR_COMMIT", "MTR_ROLLBACK"}, t \in Int :
        Logged(ty, t)' <=> Logged(ty, t) \/ (ty = "MTR_COMMIT" /\ t = trx_id[s])
  BY <1>a, LogEndAdds
<1>c. UNCHANGED <<current_trx_id, rec, trx_id, started>> /\ todo[s] = {}
  BY DEF CommitDone
<1>1. TypeOK'
  BY DEF CommitDone, LogEnd
<1>2. IdInv'
  BY DEF CommitDone, IdInv, IdAt, OwnerAt
<1>3. RowInv'
  BY DEF CommitDone, RowInv
<1>4. LatchInv'
  BY DEF CommitDone, LatchInv
<1>5. OpInv'
  BY DEF CommitDone, OpInv, OpAt, Unsettled
<1>6. CallInv'
  BY DEF CommitDone, CallInv, InsertedAt, DeleteAt
<1>7. MarkInv'
  BY DEF CommitDone, LogEnd, MarkInv, MarkAt, Logged, Unsettled
<1>8. EndedInv'
  <2>1. \A e \in ended' : e.trx <= current_trx_id
    BY <1>a DEF LogEnd, EndedInv, IdInv, IdAt, OwnerAt
  <2>2. \A u \in Sessions : started[u] =>
          ~Logged("MTR_COMMIT", trx_id[u])' /\ ~Logged("MTR_ROLLBACK", trx_id[u])'
    BY <1>a, <1>b, <1>c DEF EndedInv, IdInv, IdAt, OwnerAt
  <2> QED
    BY <1>c, <2>1, <2>2 DEF EndedInv
<1>9. EndSettlesRows'
  <2>1. \A x \in Rids : rec[x] # None /\ trx_id[s] > 0 => rec[x].begin # -trx_id[s]
    BY <1>a, <1>c DEF MarkInv, MarkAt, Unsettled
  <2> QED
    BY <1>b, <1>c, <2>1 DEF EndSettlesRows
<1> QED
  BY <1>1, <1>2, <1>3, <1>4, <1>5, <1>6, <1>7, <1>8, <1>9

\* Every operation is put before the rollback loop.
LEMMA RollbackKeeps ==
  ASSUME IndInv, NEW s \in Sessions,
         Rollback(s)
  PROVE  IndInv'
<1> USE PageAssumption, NoneAssumption, IdAssumption
        DEF IndInv, TypeOK, Row, Pcs, OpTypes, EndRecord, DeletePcs, CallPcs, IndexOnly
<1>1. TypeOK'
  BY DEF Rollback, Pending
<1>2. IdInv'
  BY DEF Rollback, Pending, IdInv, IdAt, OwnerAt
<1>3. RowInv'
  BY DEF Rollback, RowInv
<1>4. LatchInv'
  BY DEF Rollback, LatchInv
<1>5. OpInv'
  BY DEF Rollback, OpInv, OpAt, Unsettled
<1>6. CallInv'
  BY DEF Rollback, CallInv, InsertedAt, DeleteAt
<1>7. MarkInv'
  BY DEF Rollback, Pending, MarkInv, MarkAt, Logged, Unsettled
<1>8. EndedInv'
  BY DEF Rollback, EndedInv, Logged
<1>9. EndSettlesRows'
  BY DEF Rollback, EndSettlesRows, Logged
<1> QED
  BY <1>1, <1>2, <1>3, <1>4, <1>5, <1>6, <1>7, <1>8, <1>9

\* Undoing an operation removes the transaction's own mark.
LEMMA RollbackOperationKeeps ==
  ASSUME IndInv, NEW s \in Sessions, NEW r \in Rids,
         RollbackOperation(s, r)
  PROVE  IndInv'
<1> USE PageAssumption, NoneAssumption, IdAssumption
        DEF IndInv, TypeOK, Row, Pcs, OpTypes, EndRecord, DeletePcs, CallPcs, IndexOnly
<1>a. OpAt(s, r) /\ operations[s][r] # None /\ trx_id[s] > 0 /\ pc[s] = "rollback"
  BY DEF RollbackOperation, OpInv, Unsettled, IdInv, IdAt, OwnerAt
<1>b. MaxTrxId > trx_id[s]
  BY DEF IdInv, IdAt, OwnerAt
<1>c. /\ rec' \in [Rids -> Row \cup {None}]
      /\ operations[s][r] = "INSERT" => rec'[r] = None
      /\ operations[s][r] = "DELETE" =>
           rec'[r] # None /\ rec'[r].begin = rec[r].begin /\ rec'[r].end = MaxTrxId
      /\ \A x \in Rids : x # r => rec'[x] = rec[x]
  BY <1>a DEF RollbackOperation, OpAt
<1>d. /\ todo'[s] = todo[s] \ {r} /\ \A u \in Sessions : u # s => todo'[u] = todo[u]
      /\ UNCHANGED <<current_trx_id, latch, trx_id, started, operations, pc,
                     cur, commit_xid, ended>>
  BY DEF RollbackOperation
<1>e. \A u \in Sessions : pc[u] \in DeletePcs /\ IndexOnly => cur[u] # r
  BY <1>a DEF RollbackOperation, CanLatch, LatchInv
<1>1. TypeOK'
  BY <1>c, <1>d DEF RollbackOperation
<1>2. IdInv'
  BY DEF RollbackOperation, IdInv, IdAt, OwnerAt
<1>3. RowInv'
  BY DEF RollbackOperation, IdInv, OwnerAt, RowInv, OpInv, OpAt, Unsettled
<1>4. LatchInv'
  BY DEF RollbackOperation, LatchInv
<1>5. OpInv'
  <2> SUFFICES ASSUME NEW u \in Sessions, NEW x \in Rids, Unsettled(u, x)'
               PROVE  OpAt(u, x)'
    BY DEF OpInv
  <2>1. OpAt(u, x) /\ operations[u][x] # None /\ trx_id[u] > 0 /\ ~(u = s /\ x = r)
    BY <1>a, <1>d DEF OpInv, Unsettled, IdInv, IdAt, OwnerAt
  <2>2. CASE x = r
    <3>1. u # s /\ trx_id[u] # trx_id[s]
      BY IdFacts, <1>a, <2>1, <2>2
    <3>2. operations[s][r] = "DELETE" /\ operations[u][r] = "DELETE" /\ ~IndexOnly
      BY OpClash, <1>a, <2>1, <2>2, <3>1
    <3> QED
      BY <1>c, <1>d, <2>1, <2>2, <3>2 DEF OpAt
  <2>3. CASE x # r
    BY <1>c, <1>d, <2>1, <2>3 DEF OpAt
  <2> QED
    BY <2>2, <2>3
<1>6. CallInv'
  <2> SUFFICES ASSUME NEW u \in Sessions
               PROVE  /\ pc[u] = "inserted" => cur[u] \in Rids /\ InsertedAt(u, cur[u])'
                      /\ pc[u] \in DeletePcs => DeleteAt(u, cur[u])'
    BY <1>d DEF CallInv
  <2>1. CASE pc[u] = "inserted"
    <3>1. cur[u] \in Rids /\ InsertedAt(u, cur[u]) /\ cur[u] # r
      <4>1. cur[u] \in Rids /\ InsertedAt(u, cur[u]) /\ trx_id[u] > 0
        BY IdFacts, <2>1 DEF CallInv
      <4> QED
        BY <1>a, <4>1, InsertAlone
    <3> QED
      BY <1>c, <1>d, <2>1, <3>1 DEF InsertedAt
  <2>2. CASE pc[u] \in DeletePcs
    <3>1. cur[u] \in Rids /\ DeleteAt(u, cur[u]) /\ u # s /\ trx_id[u] > 0
      BY <1>a, <2>2 DEF CallInv, LatchInv, IdInv, IdAt, OwnerAt
    <3>2. CASE cur[u] = r
      <4>1. ~IndexOnly /\ trx_id[u] # trx_id[s]
        BY IdFacts, <1>e, <2>2, <3>1, <3>2
      <4>2. operations[s][r] = "DELETE"
        BY DeleteClash, <1>a, <3>1, <3>2
      <4> QED
        BY <1>c, <1>d, <2>2, <3>1, <3>2, <4>1, <4>2 DEF DeleteAt
    <3>3. CASE cur[u] # r
      BY <1>c, <1>d, <2>2, <3>1, <3>3 DEF DeleteAt
    <3> QED
      BY <2>2, <3>2, <3>3
  <2> QED
    BY <2>1, <2>2
<1>7. MarkInv'
  BY DEF RollbackOperation, IdInv, OwnerAt, MarkInv, MarkAt, Logged, OpInv,
         OpAt, Unsettled
<1>8. EndedInv'
  BY DEF RollbackOperation, EndedInv, Logged
<1>9. EndSettlesRows'
  BY DEF RollbackOperation, IdInv, OwnerAt, EndSettlesRows, Logged, OpInv,
         OpAt, Unsettled
<1> QED
  BY <1>1, <1>2, <1>3, <1>4, <1>5, <1>6, <1>7, <1>8, <1>9

\* When the loop has run, no mark of the transaction is left.
LEMMA RollbackDoneKeeps ==
  ASSUME IndInv, NEW s \in Sessions,
         RollbackDone(s)
  PROVE  IndInv'
<1> USE PageAssumption, NoneAssumption, IdAssumption
        DEF IndInv, TypeOK, Row, Pcs, OpTypes, EndRecord, DeletePcs, CallPcs, IndexOnly
<1>a. LogEnd("MTR_ROLLBACK", s) /\ pc[s] = "rollback" /\ ~started[s]
  BY DEF RollbackDone, IdInv, IdAt, OwnerAt
<1>b. \A ty \in {"MTR_COMMIT", "MTR_ROLLBACK"}, t \in Int :
        Logged(ty, t)' <=> Logged(ty, t) \/ (ty = "MTR_ROLLBACK" /\ t = trx_id[s])
  BY <1>a, LogEndAdds
<1>c. UNCHANGED <<current_trx_id, rec, trx_id, started>> /\ todo[s] = {}
  BY DEF RollbackDone
<1>1. TypeOK'
  BY DEF RollbackDone, LogEnd
<1>2. IdInv'
  BY DEF RollbackDone, IdInv, IdAt, OwnerAt
<1>3. RowInv'
  BY DEF RollbackDone, RowInv
<1>4. LatchInv'
  BY DEF RollbackDone, LatchInv
<1>5. OpInv'
  BY DEF RollbackDone, OpInv, OpAt, Unsettled
<1>6. CallInv'
  BY DEF RollbackDone, CallInv, InsertedAt, DeleteAt
<1>7. MarkInv'
  BY DEF RollbackDone, LogEnd, MarkInv, MarkAt, Logged, Unsettled
<1>8. EndedInv'
  <2>1. \A e \in ended' : e.trx <= current_trx_id
    BY <1>a DEF LogEnd, EndedInv, IdInv, IdAt, OwnerAt
  <2>2. \A u \in Sessions : started[u] =>
          ~Logged("MTR_COMMIT", trx_id[u])' /\ ~Logged("MTR_ROLLBACK", trx_id[u])'
    BY <1>a, <1>b, <1>c DEF EndedInv, IdInv, IdAt, OwnerAt
  <2> QED
    BY <1>c, <2>1, <2>2 DEF EndedInv
<1>9. EndSettlesRows'
  <2>1. \A x \in Rids : rec[x] # None /\ trx_id[s] > 0 =>
          /\ rec[x].begin # -trx_id[s]
          /\ rec[x].end = -trx_id[s] => Logged("MTR_COMMIT", trx_id[s])
    BY <1>a, <1>c DEF MarkInv, MarkAt, Unsettled
  <2> QED
    BY <1>b, <1>c, <2>1 DEF EndSettlesRows
<1> QED
  BY <1>1, <1>2, <1>3, <1>4, <1>5, <1>6, <1>7, <1>8, <1>9

\* Disconnecting forgets the operations and leaves the rows alone.
LEMMA DestroyTrxKeeps ==
  ASSUME IndInv, NEW s \in Sessions,
         DestroyTrx(s)
  PROVE  IndInv'
<1> USE PageAssumption, NoneAssumption, IdAssumption
        DEF IndInv, TypeOK, Row, Pcs, OpTypes, EndRecord, DeletePcs, CallPcs, IndexOnly
<1>1. TypeOK'
  BY DEF DestroyTrx
<1>2. IdInv'
  BY DEF DestroyTrx, IdInv, IdAt, OwnerAt
<1>3. RowInv'
  BY DEF DestroyTrx, RowInv
<1>4. LatchInv'
  BY DEF DestroyTrx, LatchInv
<1>5. OpInv'
  BY DEF DestroyTrx, OpInv, OpAt, Unsettled
<1>6. CallInv'
  BY DEF DestroyTrx, CallInv, InsertedAt, DeleteAt
<1>7. MarkInv'
  BY DEF DestroyTrx, MarkInv, MarkAt, Logged, Unsettled
<1>8. EndedInv'
  BY DEF DestroyTrx, EndedInv, Logged
<1>9. EndSettlesRows'
  BY DEF DestroyTrx, EndSettlesRows, Logged
<1> QED
  BY <1>1, <1>2, <1>3, <1>4, <1>5, <1>6, <1>7, <1>8, <1>9

----------------------------------------------------------------------------
(* The inductive invariant.                                                *)

\* It holds before any session begins.
LEMMA InitHolds == Init => IndInv
<1> SUFFICES ASSUME Init PROVE IndInv
  OBVIOUS
<1> USE PageAssumption, NoneAssumption, IdAssumption DEF Init
<1>1. TypeOK
  BY DEF TypeOK, Pcs, Row, OpTypes
<1>2. IdInv /\ RowInv
  BY DEF IdInv, IdAt, OwnerAt, RowInv, CallPcs, DeletePcs
<1>3. LatchInv /\ OpInv /\ CallInv
  BY DEF LatchInv, OpInv, Unsettled, CallInv, DeletePcs
<1>4. MarkInv /\ EndedInv /\ EndSettlesRows
  BY DEF MarkInv, EndedInv, EndSettlesRows
<1> QED
  BY <1>1, <1>2, <1>3, <1>4 DEF IndInv

\* A step that changes nothing keeps it.
LEMMA StutterKeeps == IndInv /\ UNCHANGED vars => IndInv'
  BY DEF vars, IndInv, TypeOK, IdInv, IdAt, OwnerAt, RowInv, LatchInv, OpInv,
         OpAt, CallInv, InsertedAt, DeleteAt, MarkInv, MarkAt, Unsettled, EndedInv,
         EndSettlesRows, Logged

\* Every step of every session keeps it.
LEMMA NextKeeps == IndInv /\ [Next]_vars => IndInv'
<1> SUFFICES ASSUME IndInv, [Next]_vars PROVE IndInv'
  OBVIOUS
<1>1. ASSUME NEW s \in Sessions, Step(s) PROVE IndInv'
  <2>1. CASE StartIfNeed(s)
    BY <2>1, StartIfNeedKeeps
  <2>2. CASE \E r \in Rids : InsertRecord(s, r)
    BY <2>2, InsertRecordKeeps
  <2>3. CASE LogInsert(s)
    BY <2>3, LogInsertKeeps
  <2>4. CASE \E r \in Rids, path \in ScanPaths : VisitForDelete(s, r, path)
    BY <2>4, VisitForDeleteKeeps
  <2>5. CASE CheckEndXid(s)
    BY <2>5, CheckEndXidKeeps
  <2>6. CASE MarkRecord(s)
    BY <2>6, MarkRecordKeeps
  <2>7. CASE MarkStored(s)
    BY <2>7, MarkStoredKeeps
  <2>8. CASE LogDelete(s)
    BY <2>8, LogDeleteKeeps
  <2>9. CASE Commit(s)
    BY <2>9, CommitKeeps
  <2>10. CASE \E r \in Rids : CommitOperation(s, r)
    BY <2>10, CommitOperationKeeps
  <2>11. CASE CommitDone(s)
    BY <2>11, CommitDoneKeeps
  <2>12. CASE Rollback(s)
    BY <2>12, RollbackKeeps
  <2>13. CASE \E r \in Rids : RollbackOperation(s, r)
    BY <2>13, RollbackOperationKeeps
  <2>14. CASE RollbackDone(s)
    BY <2>14, RollbackDoneKeeps
  <2>15. CASE DestroyTrx(s)
    BY <2>15, DestroyTrxKeeps
  <2> QED
    BY <1>1, <2>1, <2>2, <2>3, <2>4, <2>5, <2>6, <2>7, <2>8, <2>9, <2>10,
       <2>11, <2>12, <2>13, <2>14, <2>15
       DEF Step
<1> QED
  BY <1>1, StutterKeeps DEF Next

\* In every reachable state.
THEOREM Invariance == Spec => []IndInv
  BY InitHolds, NextKeeps, PTL DEF Spec

----------------------------------------------------------------------------
(* What follows, for every way DELETE may reach its rows.                  *)

\* The variables of MvccTrx keep their types: no commit, rollback or disconnect
\* of any session leaves one of them malformed.
THEOREM TypeCorrect == Spec => []TypeOK
  BY Invariance, PTL DEF IndInv

\* commit_with_trx_id never gives a row an empty validity range.
THEOREM RangeCorrect == Spec => []BeginBeforeEnd
<1>1. IndInv => BeginBeforeEnd
  BY DEF IndInv, RowInv, BeginBeforeEnd
<1> QED
  BY <1>1, Invariance, PTL

\* The commit and rollback loops leave no uncommitted mark behind the end record
\* they log, except the delete mark of a committed transaction.
THEOREM SettledCorrect == Spec => []EndSettlesRows
  BY Invariance, PTL DEF IndInv

\* A transaction keeps seeing the rows it saw when it began, whatever the others delete,
\* commit and roll back, but for the window of commit_with_trx_id.
THEOREM SnapshotCorrect == Spec => SnapshotKeeps
<1>1. ASSUME IndInv, [Next]_vars PROVE [SnapshotStep]_vars
  <2> SUFFICES ASSUME NEW v \in Sessions, Step(v), NEW s \in Sessions, NEW r \in Rids,
                      started[s], started'[s], trx_id'[s] = trx_id[s], Visible(s, r),
                      rec[r].begin \in 1 .. trx_id[s], ~(rec'[r] # None /\ rec'[r].end = -trx_id[s]),
                      \A u \in Sessions : pc[u] = "commit" => ~(commit_xid[u] < trx_id[s])
               PROVE  Visible(s, r)'
    BY <1>1 DEF Next, SnapshotStep
  <2> DEFINE id == trx_id[s]
             b == rec[r].begin
  <2>i. id \in Int /\ 0 < id /\ id < MaxTrxId /\ MaxTrxId \in Nat /\ b \in Int /\ 0 < b /\ b <= id
    BY <1>1, IdFacts, IdAssumption DEF IndInv, IdInv, IdAt
  <2>r. rec[r] # None /\ rec[r] \in Row /\ rec \in [Rids -> Row \cup {None}]
    BY <1>1 DEF Visible, IndInv, TypeOK
  \* A row in its place, committed before s began, that ends late enough or is only
  \* being deleted by another transaction, is visible.
  <2>v. ASSUME NEW e \in Int, rec' = [rec EXCEPT ![r].end = e], e >= id \/ (e < 0 /\ e # -id)
        PROVE  Visible(s, r)'
    <3>1. rec'[r] # None /\ rec'[r].begin = b /\ rec'[r].end = e
      BY <2>r, <2>v, NoneAssumption DEF Row
    <3>2. e < 0 => -e # id
      BY <2>i, <2>v
    <3> QED BY <2>i, <2>v, <3>1, <3>2 DEF Visible, VisitRecord
  <2>1. CASE rec'[r] = rec[r]
    BY <2>1 DEF Visible
  <2>2. ASSUME NEW x \in Rids, InsertRecord(v, x) PROVE Visible(s, r)'
    <3>1. x # r
      BY <2>2, <2>r DEF InsertRecord
    <3> QED BY <2>1, <2>2, <2>r, <3>1 DEF InsertRecord
  <2>3. ASSUME MarkRecord(v) \/ MarkStored(v) PROVE Visible(s, r)'
    <3>1. /\ pc[v] \in {"mark", "updater"} /\ rec' = [rec EXCEPT ![cur[v]].end = -trx_id[v]]
      BY <2>3 DEF MarkRecord, MarkStored
    <3>2. trx_id[v] \in Int /\ trx_id[v] > 0
      BY <1>1, <3>1, IdFacts DEF CallPcs, DeletePcs
    <3>3. CASE cur[v] # r
      BY <2>1, <2>r, <3>1, <3>3
    <3>4. CASE cur[v] = r
      <4>1. rec'[r] # None /\ rec'[r].end = -trx_id[v]
        BY <2>r, <3>1, <3>2, <3>4, NoneAssumption DEF Row
      <4>2. -trx_id[v] # -id
        BY <4>1
      <4>3. -trx_id[v] \in Int /\ -trx_id[v] < 0
        BY <3>2
      <4>4. rec' = [rec EXCEPT ![r].end = -trx_id[v]]
        BY <3>1, <3>4
      <4> QED BY <2>v, <4>2, <4>3, <4>4
    <3> QED BY <3>3, <3>4
  <2>4. ASSUME NEW x \in Rids, CommitOperation(v, x) \/ RollbackOperation(v, x) PROVE Visible(s, r)'
    <3>1. CASE x # r
      BY <2>1, <2>4, <2>r, <3>1 DEF CommitOperation, RollbackOperation
    <3>2. CASE x = r
      <4>1. r \in todo[v] /\ pc[v] \in {"commit", "rollback"}
        BY <2>4, <3>2 DEF CommitOperation, RollbackOperation
      <4>2. operations[v][r] # None /\ operations[v][r] \in OpTypes
        BY <1>1, <4>1 DEF IndInv, IdInv, OwnerAt, TypeOK
      <4>3. OpAt(v, r) /\ trx_id[v] \in Int /\ trx_id[v] > 0
        BY <1>1, <4>1, <4>2, IdFacts DEF IndInv, OpInv, Unsettled
      <4>4. operations[v][r] = "DELETE"
        BY <2>i, <4>2, <4>3 DEF OpAt, OpTypes
      <4>5. CASE CommitOperation(v, x)
        <5>1. rec' = [rec EXCEPT ![r].end = commit_xid[v]] /\ pc[v] = "commit"
          BY <3>2, <4>4, <4>5 DEF CommitOperation
        <5>2. commit_xid[v] \in Int /\ commit_xid[v] >= id
          BY <1>1, <2>i, <5>1, IdAssumption DEF IndInv, TypeOK
        <5> QED BY <2>v, <5>1, <5>2
      <4>6. CASE RollbackOperation(v, x)
        <5>1. rec' = [rec EXCEPT ![r].end = MaxTrxId]
          BY <3>2, <4>4, <4>6 DEF RollbackOperation
        <5>2. MaxTrxId >= id /\ MaxTrxId \in Int
          BY <2>i
        <5> QED BY <2>v, <5>1, <5>2
      <4> QED BY <2>4, <4>5, <4>6
    <3> QED BY <3>1, <3>2
  <2>5. ASSUME UNCHANGED rec PROVE Visible(s, r)'
    BY <2>1, <2>5
  <2> QED
    BY <2>2, <2>3, <2>4, <2>5
       DEF Step, StartIfNeed, LogInsert, VisitForDelete, CheckEndXid, LogDelete, Commit, CommitDone,
           Rollback, RollbackDone, DestroyTrx
<1> QED
  BY <1>1, Invariance, PTL DEF Spec, SnapshotKeeps

----------------------------------------------------------------------------
(* What needs the page to stay latched from the visit to the mark, as in   *)
(* an index scan.                                                          *)

\* The ASSERTs of commit_with_trx_id and rollback cannot fail: each row the
\* loop reaches carries the transaction's own mark.
THEOREM OwnershipCorrect ==
  ASSUME IndexOnly PROVE Spec => []StampOwnership
<1>1. IndInv => StampOwnership
  BY DEF IndInv, OpInv, OpAt, StampOwnership
<1> QED
  BY <1>1, Invariance, PTL

\* visit_record's conflict check is a write lock: one unfinished change per row.
THEOREM ExclusionCorrect ==
  ASSUME IndexOnly PROVE Spec => []WriterExclusion
<1>1. IndInv => WriterExclusion
  <2> SUFFICES ASSUME IndInv, NEW s \in Sessions, NEW u \in Sessions,
                      NEW r \in Rids, Unsettled(s, r), Unsettled(u, r), s # u
               PROVE  FALSE
    BY DEF WriterExclusion
  <2>1. OpAt(s, r) /\ OpAt(u, r)
    BY DEF IndInv, OpInv
  <2> QED
    BY <2>1, OpClash DEF Unsettled
<1> QED
  BY <1>1, Invariance, PTL

\* No step of mvcc_trx.cpp undoes or renumbers what was committed.
THEOREM FinalCorrect ==
  ASSUME IndexOnly PROVE Spec => CommittedIsFinal
<1> USE NoneAssumption DEF IndInv, TypeOK, Row, DeletePcs
<1>1. ASSUME IndInv, [Next]_vars PROVE [CommittedStep]_vars
  <2>1. ASSUME NEW s \in Sessions, Step(s) PROVE CommittedStep
    <3>1. CASE UNCHANGED rec
      BY <3>1 DEF CommittedStep
    <3>2. ASSUME NEW r \in Rids, InsertRecord(s, r) PROVE CommittedStep
      BY <3>2 DEF InsertRecord, CommittedStep
    <3>3. CASE MarkRecord(s)
      <4>1. cur[s] \in Rids /\ rec[cur[s]] # None /\ rec[cur[s]].end = MaxTrxId
        BY <1>1, <3>3 DEF MarkRecord, LatchInv, CallInv, DeleteAt
      <4> QED
        BY <1>1, <3>3, <4>1 DEF MarkRecord, CommittedStep
    <3>4. CASE MarkStored(s)
      <4>1. cur[s] \in Rids /\ rec[cur[s]] # None /\ rec[cur[s]].end = -trx_id[s]
        BY <1>1, <3>4 DEF MarkStored, LatchInv, CallInv, DeleteAt
      <4>2. trx_id[s] > 0
        BY <1>1, <3>4, IdFacts DEF MarkStored, CallPcs
      <4> QED
        BY <1>1, <3>4, <4>1, <4>2 DEF MarkStored, CommittedStep
    <3>5. ASSUME NEW r \in Rids, CommitOperation(s, r) \/ RollbackOperation(s, r)
          PROVE  CommittedStep
      <4>1. OpAt(s, r) /\ operations[s][r] \in OpTypes /\ trx_id[s] > 0
        BY <1>1, <3>5
           DEF CommitOperation, RollbackOperation, OpInv, Unsettled, IdInv,
               OwnerAt
      <4>2. operations[s][r] = "INSERT" => rec[r].begin < 0
        BY <1>1, <4>1, IdFacts DEF OpAt
      <4>3. operations[s][r] = "DELETE" => rec[r].end < 0
        BY <1>1, <4>1, IdFacts DEF OpAt
      <4>4. \A x \in Rids : x # r => rec'[x] = rec[x]
        BY <1>1, <3>5 DEF CommitOperation, RollbackOperation
      <4>5. operations[s][r] = "DELETE" => rec'[r] # None /\ rec'[r].begin = rec[r].begin
        BY <1>1, <3>5, <4>1, IdAssumption
           DEF CommitOperation, RollbackOperation, OpAt
      <4>6. rec[r] # None /\ rec[r].begin \in Int /\ rec[r].end \in Int
        BY <1>1, <4>1, IdFacts DEF OpAt
      <4>7. rec[r].begin > 0 => operations[s][r] = "DELETE" /\ ~(rec[r].end > 0)
        BY <4>1, <4>2, <4>3, <4>6 DEF OpTypes
      <4> QED
        BY <4>4, <4>5, <4>7 DEF CommittedStep
    <3> QED
      BY <2>1, <3>1, <3>2, <3>3, <3>4, <3>5
         DEF Step, StartIfNeed, LogInsert, VisitForDelete, CheckEndXid, LogDelete,
             Commit, CommitDone, Rollback, RollbackDone, DestroyTrx
  <2> QED
    BY <1>1, <2>1 DEF Next
<1> QED
  BY <1>1, Invariance, PTL DEF Spec, CommittedIsFinal
=============================================================================
