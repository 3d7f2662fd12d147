---------------------------- MODULE MvccRecovery ----------------------------
(***************************************************************************)
(* MvccTrx together with the commit log: what every transaction step       *)
(* appends to the log, what a crash leaves of it, and what                 *)
(* CLogManager::recover (src/src/observer/storage/clog/clog.cpp) and       *)
(* MvccTrx::redo make of it when the server starts again.                  *)
(*                                                                         *)
(* As docs/src/design/miniob-clog.md assumes, the pages on disk are in     *)
(* their initial state when the log is replayed: rows live in the page     *)
(* buffers only.  The log buffer may refuse a record (LOGBUF_FULL), and a  *)
(* commit returns the way CLogBuffer, the module of that buffer, proves it *)
(* does.  A log record is written whole or not at all, and the log file    *)
(* takes every write here: CLogBuffer has the failing ones.  The table has *)
(* no index.                                                               *)
(***************************************************************************)
EXTENDS MvccTrx

LOCAL INSTANCE FiniteSetsExt

CONSTANTS
  FaultBound,   \* bound: how many crashes and refused records, the last a crash
  LogBound      \* bound: how many records the log is handed

ASSUME BoundAssumption == FaultBound \in Nat /\ LogBound \in Nat

VARIABLES
  log,          \* the commit log: the file, followed by CLogBuffer
  synced,       \* the commit record up to which the log is sure to be durable
  flushing,     \* in flush_buffer: where the commit record lies in the log, or 0
  refused,      \* history: the records the log refused
  reported,     \* history: the commits that returned SUCCESS
  crashes,      \* how often the server crashed
  up            \* FALSE: the last recovery failed and the server is down

logVars == <<log, synced, flushing, refused, reported, crashes, up>>

rvars == <<vars, logVars>>

RInit ==
  /\ Init
  /\ log = <<>> /\ synced = 0 /\ crashes = 0 /\ up = TRUE
  /\ flushing = [s \in Sessions |-> 0] /\ refused = {} /\ reported = {}

Faults == crashes + Cardinality(refused)

Handed == Len(log) + Cardinality(refused)

----------------------------------------------------------------------------
(* Running: the steps of MvccTrx and the records they append.  begin_trx,  *)
(* append_log and rollback_trx leave the record in CLogBuffer; commit_trx  *)
(* then drains the buffer.                                                 *)

AppendLog(record) ==
  /\ Handed < LogBound
  /\ log' = Append(log, record)
  /\ UNCHANGED refused

\* LOGBUF_FULL, possible while records wait in the buffer.  The callers have
\* nothing but an ASSERT for it: the step goes on without its record.
Refuse(record) ==
  /\ synced < Len(log)
  /\ Handed < LogBound /\ Faults + 1 < FaultBound
  /\ refused' = refused \cup {record}
  /\ UNCHANGED log

Buffered(record) ==
  /\ AppendLog(record) \/ Refuse(record)
  /\ UNCHANGED <<synced, flushing, reported>>

\* commit_trx: a refused commit record is the error the commit returns, with the
\* rows stamped.  An accepted one leaves the session in flush_buffer.
CommitRecord(s, record) ==
  /\ \/ AppendLog(record) /\ flushing' = [flushing EXCEPT ![s] = Len(log')]
     \/ Refuse(record) /\ UNCHANGED flushing
  /\ UNCHANGED <<synced, reported>>

CommitPositions == {i \in DOMAIN log : log[i].type = "MTR_COMMIT"}

\* The commit returns SUCCESS.  While another session drains the buffer too, that
\* one may have this record in hand, unwritten or unsynced; the last one to leave
\* has synced every record taken out.
FinishSync(s) ==
  /\ flushing[s] # 0
  /\ \E n \in {synced} \cup CommitPositions :
       /\ n >= synced
       /\ \A i \in CommitPositions : i <= n \/ \E u \in Sessions \ {s} : flushing[u] # 0
       /\ synced' = n
  /\ reported' = reported \cup {[trx |-> log[flushing[s]].trx, xid |-> log[flushing[s]].xid]}
  /\ flushing' = [flushing EXCEPT ![s] = 0]
  /\ UNCHANGED <<vars, log, refused>>

LoggedStep(s) ==
  \/ /\ StartIfNeed(s)
     /\ Buffered([type |-> "MTR_BEGIN", trx |-> trx_id'[s]])
  \/ /\ LogInsert(s)
     /\ Buffered([type |-> "INSERT", trx |-> trx_id[s], rid |-> cur[s]])
  \/ /\ LogDelete(s)
     /\ Buffered([type |-> "DELETE", trx |-> trx_id[s], rid |-> cur[s]])
  \/ /\ CommitDone(s)
     /\ CommitRecord(s, [type |-> "MTR_COMMIT", trx |-> trx_id[s],
                         xid |-> commit_xid[s]])
  \/ /\ RollbackDone(s)
     /\ Buffered([type |-> "MTR_ROLLBACK", trx |-> trx_id[s]])

\* COMMIT and ROLLBACK may come outside a transaction too; as a bound, only from
\* sessions that have not begun one, before the first fault, until one is logged.
MayEnd(s) ==
  \/ started[s]
  \/ trx_id[s] = -1 /\ Faults = 0 /\ \A i \in DOMAIN log : log[i].trx > 0

UnloggedStep(s) ==
  /\ \/ \E r \in Rids : InsertRecord(s, r)
     \/ \E r \in Rids, path \in ScanPaths : VisitForDelete(s, r, path)
     \/ CheckEndXid(s)
     \/ MarkRecord(s)
     \/ MarkStored(s)
     \/ MayEnd(s) /\ Commit(s)
     \/ \E r \in Rids : CommitOperation(s, r)
     \/ MayEnd(s) /\ Rollback(s)
     \/ \E r \in Rids : RollbackOperation(s, r)
     \/ DestroyTrx(s)
  /\ UNCHANGED <<log, synced, flushing, refused, reported>>

Run ==
  /\ up
  /\ \E s \in Sessions :
       \/ flushing[s] = 0 /\ (LoggedStep(s) \/ UnloggedStep(s))
       \/ FinishSync(s)
  /\ UNCHANGED <<crashes, up>>

----------------------------------------------------------------------------
(* MvccTrx::redo on the state of a recovery: the rows, and the operations  *)
(* of the transactions created so far, by number.                          *)

NoRows == [r \in Rids |-> None]

StartRecovery == [rows |-> NoRows, trxes |-> {}, ops |-> [t \in 1 .. TrxBound |-> NoRows],
                  ok |-> TRUE]

\* recover_insert_record writes the logged row, with its insert mark, over
\* whatever the slot holds.
RedoInsert(st, e) ==
  [st EXCEPT !.rows[e.rid] = [begin |-> -e.trx, end |-> MaxTrxId],
             !.ops[e.trx] = AddOperation(@, e.rid, "INSERT")]

\* Mutant: the replayed delete is not recorded as an operation.
RedoDelete_Unrecorded(st, e) ==
  [st EXCEPT !.rows[e.rid] = IF @ = None THEN None ELSE [@ EXCEPT !.end = -e.trx]]

\* A slot that holds no row is reported and skipped.
RedoDelete(st, e) ==
  [st EXCEPT !.rows[e.rid] = IF @ = None THEN None ELSE [@ EXCEPT !.end = -e.trx],
             !.ops[e.trx] = AddOperation(@, e.rid, "DELETE")]

\* commit_with_trx_id and rollback of a recovering transaction, which log
\* nothing; an operation whose slot is empty is passed over.
RedoCommit(st, t, xid) ==
  [st EXCEPT
     !.rows = [r \in Rids |->
        CASE st.rows[r] = None -> None
          [] st.ops[t][r] = "INSERT" -> [st.rows[r] EXCEPT !.begin = xid]
          [] st.ops[t][r] = "DELETE" -> [st.rows[r] EXCEPT !.end = xid]
          [] OTHER -> st.rows[r]],
     !.ops[t] = NoRows]

RedoRollback(st, t) ==
  [st EXCEPT
     !.rows = [r \in Rids |->
        CASE st.rows[r] = None \/ st.ops[t][r] = "INSERT" -> None
          [] st.ops[t][r] = "DELETE" -> [st.rows[r] EXCEPT !.end = MaxTrxId]
          [] OTHER -> st.rows[r]],
     !.ops[t] = NoRows]

\* One turn of the loop of CLogManager::recover.  A record whose transaction is
\* unknown ends the recovery with an error.
Redo(st, e) ==
  IF ~st.ok THEN st
  ELSE IF e.type = "MTR_BEGIN" THEN [st EXCEPT !.trxes = @ \cup {e.trx}]
  ELSE IF e.trx \notin st.trxes THEN [st EXCEPT !.ok = FALSE]
  ELSE CASE e.type = "INSERT" -> RedoInsert(st, e)
         [] e.type = "DELETE" -> RedoDelete(st, e)
         [] e.type = "MTR_COMMIT" -> RedoCommit(st, e.trx, e.xid)
         [] e.type = "MTR_ROLLBACK" -> RedoRollback(st, e.trx)

\* Then every transaction created is rolled back, in the order of creation: those
\* that ended have no operation left.
Recover(entries) ==
  LET replayed[i \in 0 .. Len(entries)] ==
        IF i = 0 THEN StartRecovery ELSE Redo(replayed[i - 1], entries[i])
      last == replayed[Len(entries)]
      rolled[t \in 0 .. TrxBound] ==
        IF t = 0 THEN last
        ELSE IF t \in last.trxes THEN RedoRollback(rolled[t - 1], t) ELSE rolled[t - 1]
  IN  rolled[TrxBound]

\* Mutant: numbering starts again at one.
LastBegun_Forgotten(trxes) == 0

\* create_trx(trx_id) raises the counter to the largest number begun.
LastBegun(trxes) == IF trxes = {} THEN 0 ELSE Max(trxes)

\* The server dies, between any two steps of any session, and starts again.
\* The log keeps what was synced and any part of the rest.
Restart ==
  /\ up /\ Faults < FaultBound
  /\ crashes' = crashes + 1
  /\ \E n \in synced .. Len(log) :
       LET entries == SubSeq(log, 1, n)
           st == Recover(entries)
       IN  /\ log' = entries /\ synced' = n
           /\ up' = st.ok
           /\ rec' = st.rows
           /\ current_trx_id' = LastBegun(st.trxes)
           /\ refused' = {e \in refused : e.trx \in st.trxes}
           /\ reported' = {c \in reported :
                            \E i \in CommitPositions : i <= n /\ log[i].trx = c.trx}
           /\ ended' = {[type |-> entries[i].type, trx |-> entries[i].trx] :
                          i \in {j \in 1 .. n : entries[j].type \in
                                                  {"MTR_COMMIT", "MTR_ROLLBACK"}}}
  /\ latch' = [p \in Pages |-> None]
  /\ trx_id' = [s \in Sessions |-> -1]
  /\ started' = [s \in Sessions |-> FALSE]
  /\ operations' = [s \in Sessions |-> NoRows]
  /\ pc' = [s \in Sessions |-> "idle"]
  /\ cur' = [s \in Sessions |-> None]
  /\ todo' = [s \in Sessions |-> {}]
  /\ commit_xid' = [s \in Sessions |-> 0]
  /\ flushing' = [s \in Sessions |-> 0]

RNext == Run \/ Restart

RSpec == RInit /\ [][RNext]_rvars

----------------------------------------------------------------------------
(* Properties.                                                             *)

\* The log as a relation: who inserted or deleted which slot, at which
\* positions, and with which commit number transactions ended.
Writes(type, r) == {i \in DOMAIN log : log[i].type = type /\ log[i].rid = r}

EndsOf(t) == {i \in DOMAIN log : log[i].type \in {"MTR_COMMIT", "MTR_ROLLBACK"}
                                   /\ log[i].trx = t}

\* The number under which a transaction is committed by the log: the first end
\* record counts.
CommitNumbers(t) ==
  {log[i].xid : i \in {j \in EndsOf(t) : /\ log[j].type = "MTR_COMMIT"
                                         /\ \A k \in EndsOf(t) : j <= k}}

\* What a slot holds when exactly the committed transactions of the log took
\* place.
CommittedRow(r) ==
  LET ins == {i \in Writes("INSERT", r) : CommitNumbers(log[i].trx) # {}}
      i == CHOOSE j \in ins : TRUE
      del == {j \in Writes("DELETE", r) : /\ CommitNumbers(log[j].trx) # {}
                                          /\ log[j].trx # log[i].trx}
      own == {j \in Writes("DELETE", r) : log[j].trx = log[i].trx}
  IN  IF ins = {} THEN None
      ELSE [begin |-> Max(CommitNumbers(log[i].trx)),
            end |-> IF del # {} THEN Max(UNION {CommitNumbers(log[j].trx) : j \in del})
                    ELSE IF own # {} THEN -log[i].trx ELSE MaxTrxId]

\* A slot used by several transactions is passed on in order: the earlier one
\* has its end in the log before the later one writes.
HandedOver ==
  \A r \in Rids :
    \A i, j \in Writes("INSERT", r) \cup Writes("DELETE", r) :
      i < j /\ log[i].trx # log[j].trx => \E k \in EndsOf(log[i].trx) : k < j

\* An end of a transaction that was never begun, logged with number -1.
EmptyEndLogged == \E i \in DOMAIN log : log[i].trx = -1

\* A record of a transaction whose MTR_BEGIN was refused.
BeginMissing ==
  \E i \in DOMAIN log :
    \A j \in 1 .. i : log[j].type = "MTR_BEGIN" => log[j].trx # log[i].trx

\* Atomicity across a crash: recovery succeeds and restores exactly the rows of the
\* transactions whose commit record it finds, and nothing of the others, whatever
\* part of the unsynced log survived.  Three things the code does stand in the way:
\* recover returns an error on a record whose transaction it does not know, which a
\* COMMIT or ROLLBACK outside a transaction leaves, and a refused MTR_BEGIN; and a
\* rollback frees its slots before its record is logged, so that replay is exact
\* only as long as the log hands slots over in order.
RecoveryExact ==
  [][crashes' > crashes =>
       /\ up' \/ EmptyEndLogged' \/ BeginMissing'
       /\ up' /\ HandedOver' => \A r \in Rids : rec'[r] = CommittedRow(r)']_rvars

\* Of commit c every record was accepted, and its commit record is synced or no
\* session is draining the buffer.
Kept(c) ==
  /\ \A e \in refused : e.trx # c.trx
  /\ \/ \E i \in CommitPositions : i <= synced /\ log[i].trx = c.trx
     \/ \A s \in Sessions : flushing[s] = 0

Writer(type, r, t) == \E i \in Writes(type, r) : log[i].trx = t

\* Durability: a row that a reported commit inserted is there after the next start,
\* and one that a reported commit deleted is not there again, under the numbers they
\* had before the crash.  The code leaves two ways for a reported commit to be lost:
\* a record of its transaction was refused by the full log buffer (mvcc_trx.cpp:150
\* and 191 only assert), or another session still had its commit record in hand
\* (clog.cpp:229).
CommitSurvives ==
  [][crashes' > crashes /\ up' /\ HandedOver' =>
       \A c \in reported, r \in Rids :
         Kept(c) /\ rec[r] # None =>
           /\ rec[r].begin = c.xid /\ Writer("INSERT", r, c.trx)
                => rec'[r] # None /\ rec'[r].begin = c.xid
           /\ rec[r].end = c.xid /\ Writer("DELETE", r, c.trx)
                => rec'[r] = None \/ rec'[r].end = c.xid]_rvars

=============================================================================
