------------------------------ MODULE MvccTrx ------------------------------
(***************************************************************************)
(* The multi-version transaction manager of MiniOB                         *)
(* (src/src/observer/storage/trx/mvcc_trx.cpp) as several sessions use it  *)
(* through the Trx interface: begin, insert, delete, commit and rollback,  *)
(* on a table whose rows carry the two version fields begin_xid and        *)
(* end_xid.  A negative version field is an uncommitted change of the      *)
(* transaction with that number; commit replaces it by a new number, one   *)
(* row at a time.                                                          *)
(*                                                                         *)
(* The model is the build with CONCURRENCY on (latches are real) and       *)
(* without DEBUG (ASSERT does nothing): a failed ASSERT is a property here.*)
(* Rows carry no user data; inserts into a table whose indexes refuse the  *)
(* row change nothing and are left out.                                    *)
(***************************************************************************)
EXTENDS Integers, Sequences

CONSTANTS
  Sessions,     \* client sessions; each owns one Trx object
  Rids,         \* record slots of the table
  Pages,        \* pages of the record file
  PageOf,       \* the page a slot lies on
  None,         \* "no session", "no slot" and "no row"
  MaxTrxId,     \* MvccTrxKit::max_trx_id(), the end of a row not deleted
  TrxBound,     \* bound: ids are handed out up to here
  ScanPaths     \* how DELETE reaches its rows: "index" and/or "table"

ASSUME PageAssumption == PageOf \in [Rids -> Pages]
ASSUME NoneAssumption ==
  /\ None \notin Sessions \cup Rids \cup [begin : Int, end : Int]
  /\ None \notin {"INSERT", "DELETE"}
ASSUME IdAssumption == TrxBound \in Nat /\ MaxTrxId \in Nat /\ TrxBound < MaxTrxId
ASSUME PathAssumption == ScanPaths \subseteq {"index", "table"}

VARIABLES
  current_trx_id, \* MvccTrxKit::current_trx_id_
  rec,            \* the rows in the page buffers: version fields, or None
  latch,          \* write latch of each page
  trx_id,         \* MvccTrx::trx_id_ of each session
  started,        \* MvccTrx::started_
  operations,     \* MvccTrx::operations_: at most one operation per slot
  pc,             \* where the session stands in the call it executes
  cur,            \* the record an insert or delete is working on
  todo,           \* operations the commit or rollback loop has not reached
  commit_xid,     \* argument of commit_with_trx_id
  ended           \* MTR_COMMIT and MTR_ROLLBACK records in the commit log

vars == <<current_trx_id, rec, latch, trx_id, started, operations, pc, cur,
          todo, commit_xid, ended>>

Row == [begin : Int, end : Int]

OpTypes == {"INSERT", "DELETE"}

EndRecord == [type : {"MTR_COMMIT", "MTR_ROLLBACK"}, trx : Int]

Pcs == {"idle", "inserted", "delete", "mark", "updater", "deleted",
        "commit", "rollback"}

----------------------------------------------------------------------------
(* Visibility: MvccTrx::visit_record.                                      *)

\* Mutant: a reader takes an uncommitted delete for a delete.
VisitRecord_DirtyDelete(id, row, readonly) ==
  CASE row.begin > 0 /\ row.end > 0 ->
         IF row.begin <= id /\ id <= row.end THEN "SUCCESS" ELSE "RECORD_INVISIBLE"
    [] row.begin < 0 ->
         IF -row.begin = id THEN "SUCCESS" ELSE "RECORD_INVISIBLE"
    [] OTHER -> IF readonly THEN "RECORD_INVISIBLE" ELSE "LOCKED_CONCURRENCY_CONFLICT"

VisitRecord(id, row, readonly) ==
  CASE row.begin > 0 /\ row.end > 0 ->
         IF row.begin <= id /\ id <= row.end THEN "SUCCESS" ELSE "RECORD_INVISIBLE"
    [] row.begin < 0 ->
         IF -row.begin = id THEN "SUCCESS" ELSE "RECORD_INVISIBLE"
    [] row.begin >= 0 /\ row.end < 0 ->
         IF -row.end = id THEN "RECORD_INVISIBLE"
         ELSE IF readonly THEN "SUCCESS" ELSE "LOCKED_CONCURRENCY_CONFLICT"
    [] OTHER -> "SUCCESS"

\* What a read-only scan of session s returns of slot r.
Visible(s, r) ==
  rec[r] # None /\ VisitRecord(trx_id[s], rec[r], TRUE) = "SUCCESS"

----------------------------------------------------------------------------
(* Helpers shared by the actions.                                          *)

\* A session can take the write latch of a page that is free or its own: the
\* latch is recursive.
CanLatch(s, p) == latch[p] \in {None, s}

LogEnd(type, s) == ended' = ended \cup {[type |-> type, trx |-> trx_id[s]]}

\* Mutant: a later operation on a slot replaces the earlier one.
AddOperation_Overwrites(ops, r, type) == [ops EXCEPT ![r] = type]

\* operations_.insert: a slot already present keeps its old operation, since
\* OperationEqualer compares table and slot and not the type.
AddOperation(ops, r, type) ==
  IF ops[r] = None THEN [ops EXCEPT ![r] = type] ELSE ops

Init ==
  /\ current_trx_id = 0
  /\ rec = [r \in Rids |-> None]
  /\ latch = [p \in Pages |-> None]
  /\ trx_id = [s \in Sessions |-> -1]
  /\ started = [s \in Sessions |-> FALSE]
  /\ operations = [s \in Sessions |-> [r \in Rids |-> None]]
  /\ pc = [s \in Sessions |-> "idle"]
  /\ cur = [s \in Sessions |-> None]
  /\ todo = [s \in Sessions |-> {}]
  /\ commit_xid = [s \in Sessions |-> 0]
  /\ ended = {}

----------------------------------------------------------------------------
(* Beginning a transaction.                                                *)

\* MvccTrx::start_if_need on a Trx object that is not started.
StartIfNeed(s) ==
  /\ pc[s] = "idle" /\ ~started[s]
  /\ current_trx_id < TrxBound
  /\ current_trx_id' = current_trx_id + 1
  /\ trx_id' = [trx_id EXCEPT ![s] = current_trx_id + 1]
  /\ started' = [started EXCEPT ![s] = TRUE]
  /\ UNCHANGED <<rec, latch, operations, pc, cur, todo, commit_xid, ended>>

----------------------------------------------------------------------------
(* MvccTrx::insert_record.                                                 *)

\* The row enters a free slot, under the latch of its page.
InsertRecord(s, r) ==
  /\ pc[s] = "idle" /\ started[s]
  /\ rec[r] = None /\ CanLatch(s, PageOf[r])
  /\ rec' = [rec EXCEPT ![r] = [begin |-> -trx_id[s], end |-> MaxTrxId]]
  /\ cur' = [cur EXCEPT ![s] = r]
  /\ pc' = [pc EXCEPT ![s] = "inserted"]
  /\ UNCHANGED <<current_trx_id, latch, trx_id, started, operations, todo,
                 commit_xid, ended>>

\* Then it is logged and recorded in the operation set.
LogInsert(s) ==
  /\ pc[s] = "inserted"
  /\ operations' = [operations EXCEPT ![s] = AddOperation(@, cur[s], "INSERT")]
  /\ cur' = [cur EXCEPT ![s] = None]
  /\ pc' = [pc EXCEPT ![s] = "idle"]
  /\ UNCHANGED <<current_trx_id, rec, latch, trx_id, started, todo,
                 commit_xid, ended>>

----------------------------------------------------------------------------
(* DELETE: a scan visits the row (readonly = false), then hands it to      *)
(* MvccTrx::delete_record.  An index scan keeps the page latched while the *)
(* row is in use; the table scanner has fetched the following record       *)
(* before it returns this one, so for the last record of a page it has     *)
(* given the latch back.  Rows that are invisible, or locked by another    *)
(* transaction, are skipped or end the statement: nothing changes.         *)

\* Mutant: the index scan gives the page latch back before it returns the row.
VisitForDelete_Unlatched(s, r, path) ==
  /\ pc[s] = "idle" /\ started[s]
  /\ rec[r] # None /\ CanLatch(s, PageOf[r])
  /\ VisitRecord(trx_id[s], rec[r], FALSE) = "SUCCESS"
  /\ cur' = [cur EXCEPT ![s] = r]
  /\ pc' = [pc EXCEPT ![s] = "delete"]
  /\ UNCHANGED <<current_trx_id, rec, latch, trx_id, started, operations, todo,
                 commit_xid, ended>>

VisitForDelete(s, r, path) ==
  /\ pc[s] = "idle" /\ started[s]
  /\ rec[r] # None /\ CanLatch(s, PageOf[r])
  /\ VisitRecord(trx_id[s], rec[r], FALSE) = "SUCCESS"
  /\ latch' = IF path = "index" THEN [latch EXCEPT ![PageOf[r]] = s] ELSE latch
  /\ cur' = [cur EXCEPT ![s] = r]
  /\ pc' = [pc EXCEPT ![s] = "delete"]
  /\ UNCHANGED <<current_trx_id, rec, trx_id, started, operations, todo,
                 commit_xid, ended>>

ReleaseLatch(s) == [p \in Pages |-> IF latch[p] = s THEN None ELSE latch[p]]

\* Mutant: any visible version is marked, the newest or not.
CheckEndXid_Unchecked(s) ==
  /\ pc[s] = "delete"
  /\ pc' = [pc EXCEPT ![s] = "mark"]
  /\ UNCHANGED <<current_trx_id, rec, latch, trx_id, started, operations, cur,
                 todo, commit_xid, ended>>

\* delete_record reads end_xid; a row that is not the newest version is left
\* alone and the call reports success.
CheckEndXid(s) ==
  /\ pc[s] = "delete"
  /\ IF rec[cur[s]].end = MaxTrxId
       THEN /\ pc' = [pc EXCEPT ![s] = "mark"]
            /\ UNCHANGED <<latch, cur>>
       ELSE /\ pc' = [pc EXCEPT ![s] = "idle"]
            /\ latch' = ReleaseLatch(s)
            /\ cur' = [cur EXCEPT ![s] = None]
  /\ UNCHANGED <<current_trx_id, rec, trx_id, started, operations, todo,
                 commit_xid, ended>>

\* end_field.set_int on the scan's record, whose data is the page itself.
MarkRecord(s) ==
  /\ pc[s] = "mark"
  /\ rec' = [rec EXCEPT ![cur[s]].end = -trx_id[s]]
  /\ pc' = [pc EXCEPT ![s] = "updater"]
  /\ UNCHANGED <<current_trx_id, latch, trx_id, started, operations, cur, todo,
                 commit_xid, ended>>

\* The same assignment again, by record_updater under the page latch.
MarkStored(s) ==
  /\ pc[s] = "updater" /\ CanLatch(s, PageOf[cur[s]])
  /\ rec' = [rec EXCEPT ![cur[s]].end = -trx_id[s]]
  /\ pc' = [pc EXCEPT ![s] = "deleted"]
  /\ UNCHANGED <<current_trx_id, latch, trx_id, started, operations, cur, todo,
                 commit_xid, ended>>

LogDelete(s) ==
  /\ pc[s] = "deleted"
  /\ operations' = [operations EXCEPT ![s] = AddOperation(@, cur[s], "DELETE")]
  /\ latch' = ReleaseLatch(s)
  /\ cur' = [cur EXCEPT ![s] = None]
  /\ pc' = [pc EXCEPT ![s] = "idle"]
  /\ UNCHANGED <<current_trx_id, rec, trx_id, started, todo, commit_xid,
                 ended>>

----------------------------------------------------------------------------
(* MvccTrx::commit and commit_with_trx_id.                                 *)

Pending(s) == {r \in Rids : operations[s][r] # None}

\* Mutant: the counter is read and not advanced.
Commit_SharedNumber(s) ==
  /\ pc[s] = "idle"
  /\ commit_xid' = [commit_xid EXCEPT ![s] = current_trx_id]
  /\ started' = [started EXCEPT ![s] = FALSE]
  /\ todo' = [todo EXCEPT ![s] = Pending(s)]
  /\ pc' = [pc EXCEPT ![s] = "commit"]
  /\ UNCHANGED <<current_trx_id, rec, latch, trx_id, operations, cur, ended>>

Commit(s) ==
  /\ pc[s] = "idle"
  /\ current_trx_id < TrxBound
  /\ current_trx_id' = current_trx_id + 1
  /\ commit_xid' = [commit_xid EXCEPT ![s] = current_trx_id + 1]
  /\ started' = [started EXCEPT ![s] = FALSE]
  /\ todo' = [todo EXCEPT ![s] = Pending(s)]
  /\ pc' = [pc EXCEPT ![s] = "commit"]
  /\ UNCHANGED <<rec, latch, trx_id, operations, cur, ended>>

\* One turn of the loop, in the order of the hash set: any.
CommitOperation(s, r) ==
  /\ pc[s] = "commit" /\ r \in todo[s] /\ CanLatch(s, PageOf[r])
  /\ rec' = IF operations[s][r] = "INSERT"
              THEN [rec EXCEPT ![r].begin = commit_xid[s]]
              ELSE [rec EXCEPT ![r].end = commit_xid[s]]
  /\ todo' = [todo EXCEPT ![s] = @ \ {r}]
  /\ UNCHANGED <<current_trx_id, latch, trx_id, started, operations, pc, cur,
                 commit_xid, ended>>

\* operations_.clear(), then the commit record.
CommitDone(s) ==
  /\ pc[s] = "commit" /\ todo[s] = {}
  /\ operations' = [operations EXCEPT ![s] = [r \in Rids |-> None]]
  /\ LogEnd("MTR_COMMIT", s)
  /\ commit_xid' = [commit_xid EXCEPT ![s] = 0]
  /\ pc' = [pc EXCEPT ![s] = "idle"]
  /\ UNCHANGED <<current_trx_id, rec, latch, trx_id, started, cur, todo>>

----------------------------------------------------------------------------
(* MvccTrx::rollback.                                                      *)

Rollback(s) ==
  /\ pc[s] = "idle"
  /\ started' = [started EXCEPT ![s] = FALSE]
  /\ todo' = [todo EXCEPT ![s] = Pending(s)]
  /\ pc' = [pc EXCEPT ![s] = "rollback"]
  /\ UNCHANGED <<current_trx_id, rec, latch, trx_id, operations, cur,
                 commit_xid, ended>>

\* An inserted row is removed from its page; a deleted one is unmarked.
RollbackOperation(s, r) ==
  /\ pc[s] = "rollback" /\ r \in todo[s] /\ CanLatch(s, PageOf[r])
  /\ rec' = IF operations[s][r] = "INSERT"
              THEN [rec EXCEPT ![r] = None]
              ELSE [rec EXCEPT ![r].end = MaxTrxId]
  /\ todo' = [todo EXCEPT ![s] = @ \ {r}]
  /\ UNCHANGED <<current_trx_id, latch, trx_id, started, operations, pc, cur,
                 commit_xid, ended>>

RollbackDone(s) ==
  /\ pc[s] = "rollback" /\ todo[s] = {}
  /\ operations' = [operations EXCEPT ![s] = [r \in Rids |-> None]]
  /\ LogEnd("MTR_ROLLBACK", s)
  /\ pc' = [pc EXCEPT ![s] = "idle"]
  /\ UNCHANGED <<current_trx_id, rec, latch, trx_id, started, cur, todo,
                 commit_xid>>

----------------------------------------------------------------------------
(* The connection closes between two statements: ~Session calls            *)
(* destroy_trx, which deletes the Trx object and rolls nothing back.  The  *)
(* next connection gets a new object.                                      *)
DestroyTrx(s) ==
  /\ pc[s] = "idle" /\ trx_id[s] # -1
  /\ trx_id' = [trx_id EXCEPT ![s] = -1]
  /\ started' = [started EXCEPT ![s] = FALSE]
  /\ operations' = [operations EXCEPT ![s] = [r \in Rids |-> None]]
  /\ UNCHANGED <<current_trx_id, rec, latch, pc, cur, todo, commit_xid, ended>>

----------------------------------------------------------------------------
Step(s) ==
  \/ StartIfNeed(s)
  \/ \E r \in Rids : InsertRecord(s, r)
  \/ LogInsert(s)
  \/ \E r \in Rids, path \in ScanPaths : VisitForDelete(s, r, path)
  \/ CheckEndXid(s)
  \/ MarkRecord(s)
  \/ MarkStored(s)
  \/ LogDelete(s)
  \/ Commit(s)
  \/ \E r \in Rids : CommitOperation(s, r)
  \/ CommitDone(s)
  \/ Rollback(s)
  \/ \E r \in Rids : RollbackOperation(s, r)
  \/ RollbackDone(s)
  \/ DestroyTrx(s)

Next == \E s \in Sessions : Step(s)

Spec == Init /\ [][Next]_vars

----------------------------------------------------------------------------
(* Properties.                                                             *)

\* Every variable keeps its type.
TypeOK ==
  /\ current_trx_id \in 0 .. TrxBound
  /\ rec \in [Rids -> Row \cup {None}]
  /\ latch \in [Pages -> Sessions \cup {None}]
  /\ trx_id \in [Sessions -> -1 .. TrxBound]
  /\ started \in [Sessions -> BOOLEAN]
  /\ operations \in [Sessions -> [Rids -> OpTypes \cup {None}]]
  /\ pc \in [Sessions -> Pcs]
  /\ cur \in [Sessions -> Rids \cup {None}]
  /\ todo \in [Sessions -> SUBSET Rids]
  /\ commit_xid \in [Sessions -> 0 .. TrxBound]
  /\ ended \in SUBSET EndRecord

\* The operation of s on r whose row still carries the uncommitted mark:
\* recorded, and not yet reached by the commit or rollback loop.
Unsettled(s, r) ==
  /\ operations[s][r] # None
  /\ pc[s] \in {"commit", "rollback"} => r \in todo[s]

\* The ASSERTs of the commit and rollback loops (mvcc_trx.cpp lines 289, 310
\* and 370): when the loop reaches an operation, the row is there and carries
\* this transaction's own mark, whatever the other sessions did meanwhile.
StampOwnership ==
  \A s \in Sessions, r \in Rids :
    Unsettled(s, r) =>
      /\ rec[r] # None
      /\ operations[s][r] = "INSERT" => rec[r].begin = -trx_id[s]
      /\ operations[s][r] = "DELETE" => rec[r].end = -trx_id[s]

\* A row is deleted after it was inserted: the commit number of the deleting
\* transaction is above that of the inserting one, so no row has an empty
\* validity range.
BeginBeforeEnd ==
  \A r \in Rids :
    rec[r] # None /\ rec[r].begin > 0 /\ rec[r].end > 0
      => rec[r].begin < rec[r].end

\* No two sessions have an unfinished change of the same row: the conflict
\* check of visit_record is a write lock.
WriterExclusion ==
  \A s, u \in Sessions, r \in Rids :
    Unsettled(s, r) /\ Unsettled(u, r) => s = u

\* What was committed is final: a committed insert is never removed or
\* renumbered, and a committed delete is never undone or renumbered, by any
\* commit, rollback or disconnect of another session.
CommittedStep ==
  \A r \in Rids :
    rec[r] # None /\ rec[r].begin > 0 =>
      /\ rec'[r] # None /\ rec'[r].begin = rec[r].begin
      /\ rec[r].end > 0 /\ rec[r].end # MaxTrxId => rec'[r].end = rec[r].end

CommittedIsFinal == [][CommittedStep]_vars

Logged(type, t) == [type |-> type, trx |-> t] \in ended

\* Once the end of a transaction is in the log, no row is left with its
\* uncommitted insert mark; if it was rolled back, none is left with its delete
\* mark either.
EndSettlesRows ==
  \A r \in Rids, t \in 1 .. TrxBound :
    rec[r] # None =>
      /\ rec[r].begin = -t =>
           ~Logged("MTR_COMMIT", t) /\ ~Logged("MTR_ROLLBACK", t)
      /\ rec[r].end = -t =>
           (Logged("MTR_ROLLBACK", t) => Logged("MTR_COMMIT", t))

\* A row committed before a transaction began, and visible to it, stays visible
\* to it until it deletes the row itself.  The one exception is the window the
\* code's TODO describes: a delete that took its commit number before the
\* transaction began, and is still stamping its rows.
SnapshotStep ==
  \A s \in Sessions, r \in Rids :
    /\ started[s] /\ started'[s] /\ trx_id'[s] = trx_id[s]
    /\ Visible(s, r) /\ rec[r].begin \in 1 .. trx_id[s]
    => \/ Visible(s, r)'
       \/ rec'[r] # None /\ rec'[r].end = -trx_id[s]
       \/ \E u \in Sessions : pc[u] = "commit" /\ commit_xid[u] < trx_id[s]

\* So it is at every step of every session: a transaction reads the rows it began with.
SnapshotKeeps == [][SnapshotStep]_vars

----------------------------------------------------------------------------
(* The inductive invariant behind TypeOK, StampOwnership, WriterExclusion, *)
(* BeginBeforeEnd, EndSettlesRows and CommittedIsFinal, proved in          *)
(* MvccTrxProofs.  What depends on the page staying latched from the visit *)
(* of a row to the end of its deletion is conditional on IndexOnly.        *)

IndexOnly == "table" \notin ScanPaths

DeletePcs == {"delete", "mark", "updater", "deleted"}

CallPcs == DeletePcs \cup {"inserted"}

\* Numbers: a session's number is below the counter, its own, and above zero
\* while the session has work; a commit number is above the number of the
\* transaction that commits.
IdAt(s) ==
  /\ trx_id[s] <= current_trx_id /\ trx_id[s] # 0
  /\ started[s] => trx_id[s] > 0
  /\ pc[s] \in CallPcs => started[s]
  /\ pc[s] \in {"commit", "rollback"} => ~started[s]
  /\ pc[s] = "commit" => trx_id[s] < commit_xid[s] /\ 0 < commit_xid[s]
  /\ commit_xid[s] <= current_trx_id

\* Operations belong to a session that runs or ends a transaction.
OwnerAt(s, r) ==
  /\ operations[s][r] # None => trx_id[s] > 0
  /\ operations[s][r] # None => started[s] \/ pc[s] \in {"commit", "rollback"}
  /\ r \in todo[s] => operations[s][r] # None /\ pc[s] \in {"commit", "rollback"}

IdInv ==
  /\ \A s \in Sessions : IdAt(s)
  /\ \A s \in Sessions, r \in Rids : OwnerAt(s, r)
  /\ \A s, u \in Sessions : trx_id[s] = trx_id[u] /\ trx_id[s] > 0 => s = u

\* Rows: version fields name numbers already handed out.
RowInv ==
  \A r \in Rids : rec[r] # None =>
    /\ rec[r].begin # 0 /\ rec[r].begin <= current_trx_id
    /\ -rec[r].begin <= current_trx_id
    /\ rec[r].end = MaxTrxId \/ (rec[r].end # 0 /\ rec[r].end <= current_trx_id)
    /\ -rec[r].end <= current_trx_id
    /\ rec[r].begin > 0 /\ rec[r].end > 0 => rec[r].begin < rec[r].end

\* Latches: only a delete in progress holds one, on the page of its row.
LatchInv ==
  /\ \A p \in Pages : latch[p] # None =>
       pc[latch[p]] \in DeletePcs /\ PageOf[cur[latch[p]]] = p
  /\ \A s \in Sessions : pc[s] \in DeletePcs =>
       cur[s] \in Rids /\ (IndexOnly => latch[PageOf[cur[s]]] = s)

\* Operations: what the row of a recorded operation looks like.
OpAt(s, r) ==
  /\ rec[r] # None
  /\ operations[s][r] = "INSERT" =>
       rec[r].begin = -trx_id[s] /\ rec[r].end \in {MaxTrxId, -trx_id[s]}
  /\ operations[s][r] = "DELETE" =>
       /\ 0 < rec[r].begin /\ rec[r].begin <= trx_id[s]
       /\ IndexOnly => rec[r].end = -trx_id[s]

OpInv == \A s \in Sessions, r \in Rids : Unsettled(s, r) => OpAt(s, r)

\* Calls in progress: what the row in hand looks like.
InsertedAt(s, r) ==
  /\ rec[r] # None /\ operations[s][r] = None
  /\ rec[r].begin = -trx_id[s] /\ rec[r].end = MaxTrxId

DeleteAt(s, r) ==
  /\ rec[r] # None
  /\ IndexOnly /\ pc[s] = "mark" => rec[r].end = MaxTrxId
  /\ IndexOnly /\ pc[s] \in {"updater", "deleted"} => rec[r].end = -trx_id[s]
  /\ \/ rec[r].begin = -trx_id[s] /\ operations[s][r] = "INSERT"
     \/ /\ 0 < rec[r].begin /\ rec[r].begin <= trx_id[s]
        /\ operations[s][r] # "INSERT"
        /\ IndexOnly => operations[s][r] = None

CallInv ==
  \A s \in Sessions :
    /\ pc[s] = "inserted" => cur[s] \in Rids /\ InsertedAt(s, cur[s])
    /\ pc[s] \in DeletePcs => DeleteAt(s, cur[s])

\* Marks: whose they are, as long as the session still has that number.
MarkAt(s, r) ==
  /\ rec[r].begin = -trx_id[s] =>
       \/ operations[s][r] = "INSERT" /\ Unsettled(s, r)
       \/ pc[s] = "inserted" /\ cur[s] = r
  /\ rec[r].end = -trx_id[s] =>
       \/ Unsettled(s, r)
       \/ pc[s] \in {"updater", "deleted"} /\ cur[s] = r
       \/ pc[s] = "commit"
       \/ Logged("MTR_COMMIT", trx_id[s])

MarkInv ==
  \A s \in Sessions, r \in Rids : rec[r] # None /\ trx_id[s] > 0 => MarkAt(s, r)

\* End records: of numbers handed out, none of a transaction still running.
EndedInv ==
  /\ \A e \in ended : e.trx <= current_trx_id
  /\ \A s \in Sessions : started[s] =>
       ~Logged("MTR_COMMIT", trx_id[s]) /\ ~Logged("MTR_ROLLBACK", trx_id[s])

IndInv ==
  /\ TypeOK /\ IdInv /\ RowInv /\ LatchInv /\ OpInv /\ CallInv /\ MarkInv
  /\ EndedInv /\ EndSettlesRows

----------------------------------------------------------------------------
(* What the repository says of the code and the code does not do.          *)

\* docs/src/design/miniob-transaction.md: a transaction sees a row when its own
\* number lies in the row's version range, and otherwise does not; here, of a
\* row that another transaction is deleting.
VisibleInRange ==
  \A s, u \in Sessions, r \in Rids :
    /\ started[s] /\ Visible(s, r)
    /\ operations[u][r] = "DELETE" /\ Unsettled(u, r)
    => rec[r].begin <= trx_id[s]
=============================================================================
