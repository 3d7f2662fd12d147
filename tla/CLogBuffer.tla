----------------------------- MODULE CLogBuffer -----------------------------
(***************************************************************************)
(* The commit log's buffer and file (CLogManager, CLogBuffer and CLogFile  *)
(* in src/src/observer/storage/clog/clog.cpp) under the worker threads     *)
(* that append records and, at commit, flush the buffer.  There is no      *)
(* flusher thread: every committing thread runs flush_buffer itself.       *)
(*                                                                         *)
(* A record carries its length, which is all the buffer looks at.  Writes  *)
(* and fsyncs of the file may fail: a failed write has only an ASSERT,     *)
(* which this build leaves out, so that flush_buffer goes on without the   *)
(* record; a failed fsync is the error the commit returns.  Memory         *)
(* allocation succeeds.                                                    *)
(***************************************************************************)
EXTENDS Integers, Sequences, FiniteSets

CONSTANTS
  Threads,          \* worker threads
  None,             \* "no thread", "no record"
  DataLens,         \* lengths of the records of begin, insert, delete, rollback
  CommitLen,        \* sizeof(CLogRecordCommitData)
  CLOG_BUFFER_SIZE, \* capacity of the buffer
  RecordBound,      \* bound: records appended in all
  FaultBound        \* bound: writes and fsyncs that fail

ASSUME LenAssumption ==
  /\ DataLens \subseteq Nat /\ CommitLen \in Nat /\ CLOG_BUFFER_SIZE \in Nat \ {0}
  /\ IsFiniteSet(DataLens)
ASSUME RecordBoundAssumption == RecordBound \in Nat /\ FaultBound \in Nat
ASSUME ThreadAssumption == IsFiniteSet(Threads) /\ Threads # {} /\ None \notin Threads

VARIABLES
  total_size,   \* CLogBuffer::total_size_
  log_records,  \* CLogBuffer::log_records_
  lock,         \* owner of CLogBuffer::lock_
  file,         \* the records handed to the log file, in order
  synced,       \* how many of them the last fsync has covered
  lost,         \* positions of those whose write, or whose fsync, failed
  faults,       \* how many writes and fsyncs failed
  pc,           \* where each thread stands
  hand,         \* the record a thread is appending, or took from the buffer
  own,          \* position in the log of the commit record a thread waits for
  appended      \* history: the records in the order they entered the buffer

vars == <<total_size, log_records, lock, file, synced, lost, faults, pc, hand, own,
          appended>>

Record == [type : {"DATA"}, len : DataLens] \cup [type : {"MTR_COMMIT"}, len : {CommitLen}]

Pcs == {"idle", "append", "failed", "test", "lock", "write", "count", "sync",
        "returned"}

Init ==
  /\ total_size = 0 /\ log_records = <<>> /\ lock = None
  /\ file = <<>> /\ synced = 0 /\ lost = {} /\ faults = 0
  /\ pc = [t \in Threads |-> "idle"]
  /\ hand = [t \in Threads |-> None]
  /\ own = [t \in Threads |-> 0]
  /\ appended = <<>>

----------------------------------------------------------------------------
(* append_log_record.  The size is checked before the lock is taken.       *)

Full(len) == total_size + len >= CLOG_BUFFER_SIZE

\* A call with a record that fits.
CheckSize(t, record) ==
  /\ pc[t] = "idle" /\ ~Full(record.len)
  /\ Len(appended) + Cardinality({u \in Threads : pc[u] = "append"}) < RecordBound
  /\ hand' = [hand EXCEPT ![t] = record]
  /\ pc' = [pc EXCEPT ![t] = "append"]
  /\ UNCHANGED <<total_size, log_records, lock, file, synced, lost, faults, own, appended>>

\* RC::LOGBUF_FULL: the record is dropped and the call fails; commit_trx
\* returns without flushing.
RefuseFull(t, record) ==
  /\ pc[t] = "idle" /\ Full(record.len)
  /\ pc' = [pc EXCEPT ![t] = "failed"]
  /\ UNCHANGED <<total_size, log_records, lock, file, synced, lost, faults, hand, own, appended>>

AppendLogRecord(t) ==
  /\ pc[t] = "append" /\ lock = None
  /\ log_records' = Append(log_records, hand[t])
  /\ appended' = Append(appended, hand[t])
  /\ total_size' = total_size + hand[t].len
  /\ IF hand[t].type = "MTR_COMMIT"
       THEN /\ pc' = [pc EXCEPT ![t] = "test"]
            /\ own' = [own EXCEPT ![t] = Len(appended')]
       ELSE /\ pc' = [pc EXCEPT ![t] = "idle"]
            /\ UNCHANGED own
  /\ hand' = [hand EXCEPT ![t] = None]
  /\ UNCHANGED <<lock, file, synced, lost, faults>>

----------------------------------------------------------------------------
(* flush_buffer, called by commit_trx through sync.                        *)

\* Mutant: the flush returns when it has nothing left to write.
TestEmpty_ReturnsUnsynced(t) ==
  /\ pc[t] = "test"
  /\ pc' = [pc EXCEPT ![t] = IF log_records = <<>> THEN "returned" ELSE "lock"]
  /\ UNCHANGED <<total_size, log_records, lock, file, synced, lost, faults, hand, own, appended>>

\* while (!log_records_.empty()), read without the lock.
TestEmpty(t) ==
  /\ pc[t] = "test"
  /\ pc' = [pc EXCEPT ![t] = IF log_records = <<>> THEN "sync" ELSE "lock"]
  /\ UNCHANGED <<total_size, log_records, lock, file, synced, lost, faults, hand, own, appended>>

\* Under the lock the buffer is found empty: return, without a sync.
FoundEmpty(t) ==
  /\ pc[t] = "lock" /\ lock = None /\ log_records = <<>>
  /\ pc' = [pc EXCEPT ![t] = "returned"]
  /\ UNCHANGED <<total_size, log_records, lock, file, synced, lost, faults, hand, own, appended>>

\* Mutant: the lock is released before the record is written.
PopFront_Unlocks(t) ==
  /\ pc[t] = "lock" /\ lock = None /\ log_records # <<>>
  /\ hand' = [hand EXCEPT ![t] = Head(log_records)]
  /\ log_records' = Tail(log_records)
  /\ pc' = [pc EXCEPT ![t] = "write"]
  /\ UNCHANGED <<total_size, lock, file, synced, lost, faults, own, appended>>

\* The lock stays held until the record is in the file.
PopFront(t) ==
  /\ pc[t] = "lock" /\ lock = None /\ log_records # <<>>
  /\ lock' = t
  /\ hand' = [hand EXCEPT ![t] = Head(log_records)]
  /\ log_records' = Tail(log_records)
  /\ pc' = [pc EXCEPT ![t] = "write"]
  /\ UNCHANGED <<total_size, file, synced, lost, faults, own, appended>>

\* The record is written, or the write fails and leaves nothing of it, or a part.
WriteOutcome ==
  \/ UNCHANGED <<lost, faults>>
  \/ /\ faults < FaultBound /\ faults' = faults + 1
     /\ lost' = lost \cup {Len(file')}

\* Mutant: the unlock is missing.
WriteLogRecord_KeepsLock(t) ==
  /\ pc[t] = "write"
  /\ file' = Append(file, hand[t])
  /\ WriteOutcome
  /\ pc' = [pc EXCEPT ![t] = "count"]
  /\ UNCHANGED <<total_size, log_records, lock, synced, hand, own, appended>>

\* The thread goes on the same way whether the write succeeds or not.
WriteLogRecord(t) ==
  /\ pc[t] = "write"
  /\ file' = Append(file, hand[t])
  /\ WriteOutcome
  /\ lock' = None
  /\ pc' = [pc EXCEPT ![t] = "count"]
  /\ UNCHANGED <<total_size, log_records, synced, hand, own, appended>>

\* total_size_ is reduced after the lock is released.
CountDown(t) ==
  /\ pc[t] = "count"
  /\ total_size' = total_size - hand[t].len
  /\ hand' = [hand EXCEPT ![t] = None]
  /\ pc' = [pc EXCEPT ![t] = "test"]
  /\ UNCHANGED <<log_records, lock, file, synced, lost, faults, own, appended>>

\* fsync of the file, then commit_trx reports success.
Sync(t) ==
  /\ pc[t] = "sync"
  /\ synced' = Len(file)
  /\ pc' = [pc EXCEPT ![t] = "returned"]
  /\ UNCHANGED <<total_size, log_records, lock, file, lost, faults, hand, own, appended>>

\* fsync fails: so does the commit, and what no earlier fsync has covered may be lost.
SyncFails(t) ==
  /\ pc[t] = "sync"
  /\ faults < FaultBound /\ faults' = faults + 1
  /\ synced' = Len(file)
  /\ lost' = lost \cup (synced + 1 .. Len(file))
  /\ pc' = [pc EXCEPT ![t] = "failed"]
  /\ UNCHANGED <<total_size, log_records, lock, file, hand, own, appended>>

\* The thread goes on to its next statement.
NextStatement(t) ==
  /\ pc[t] \in {"returned", "failed"}
  /\ pc' = [pc EXCEPT ![t] = "idle"]
  /\ own' = [own EXCEPT ![t] = 0]
  /\ UNCHANGED <<total_size, log_records, lock, file, synced, lost, faults, hand, appended>>

----------------------------------------------------------------------------
\* The steps a thread takes once it has called append_log or commit_trx.
Proceed(t) ==
  \/ AppendLogRecord(t)
  \/ TestEmpty(t)
  \/ FoundEmpty(t)
  \/ PopFront(t)
  \/ WriteLogRecord(t)
  \/ CountDown(t)
  \/ Sync(t) \/ SyncFails(t)
  \/ NextStatement(t)

Call(t, record) == CheckSize(t, record) \/ RefuseFull(t, record)

Next == \E t \in Threads : Proceed(t) \/ \E record \in Record : Call(t, record)

Spec == Init /\ [][Next]_vars

\* The scheduler runs every thread that can run.
FairSpec == Spec /\ \A t \in Threads : WF_vars(Proceed(t))

----------------------------------------------------------------------------
(* Properties.                                                             *)

TypeOK ==
  /\ total_size \in Nat
  /\ log_records \in Seq(Record)
  /\ lock \in Threads \cup {None}
  /\ file \in Seq(Record)
  /\ synced \in Nat
  /\ lost \in SUBSET Nat /\ faults \in Nat
  /\ pc \in [Threads -> Pcs]
  /\ hand \in [Threads -> Record \cup {None}]
  /\ own \in [Threads -> Nat]
  /\ appended \in Seq(Record)

\* The record the lock holder has taken out and not yet written.
InFlight == IF lock = None THEN <<>> ELSE <<hand[lock]>>

\* Write-ahead order: no flush, however the threads interleave, skips, doubles or
\* reorders a record between append and file.
LogOrder == appended = file \o InFlight \o log_records

SumOf(nums) ==
  LET sum[i \in 0 .. Len(nums)] == IF i = 0 THEN 0 ELSE sum[i - 1] + nums[i]
  IN  sum[Len(nums)]

Lens(records) == [i \in 1 .. Len(records) |-> records[i].len]

Longest == CHOOSE n \in DataLens \cup {CommitLen} : \A m \in DataLens \cup {CommitLen} : m <= n

\* The size the admission check reads covers what is in the buffer, and the
\* check, made outside the lock, lets the buffer overshoot by at most one record
\* of each other thread.
SizeBounds ==
  /\ SumOf(Lens(log_records)) <= total_size
  /\ total_size < CLOG_BUFFER_SIZE + (Cardinality(Threads) - 1) * Longest

\* The buffer and the file, whatever the threads that append and flush do.
BufferInv == TypeOK /\ LogOrder /\ SizeBounds

\* The thread is inside flush_buffer and will not leave it before a sync, or before
\* another thread has taken the last record out.
Flushing(u) ==
  pc[u] \in {"write", "count", "test", "sync"} \/ (pc[u] = "lock" /\ log_records # <<>>)

\* Record i of the log is on disk.
OnDisk(i) == i <= synced /\ i \notin lost

\* commit_trx returns SUCCESS with its record on disk (its comment: "so that no data
\* is lost"), or leaves it to another thread that is still inside flush_buffer:
\* flush_buffer returns early when somebody else has taken the last record out.
\* The record of a commit that was reported is never left to nobody, but for a write
\* or an fsync that fails in some thread's hand (lost): of a failed write nobody is
\* told (clog.cpp:243), of a failed fsync only the thread that called it.
DurableOrInHand ==
  \A t \in Threads :
    pc[t] = "returned" /\ own[t] > 0 =>
      OnDisk(own[t]) \/ own[t] \in lost \/ \E u \in Threads \ {t} : Flushing(u)

\* flush_buffer: a commit record that entered the buffer reaches the disk, or is lost
\* by a write or an fsync that fails.  Of the threads that flush, some return early,
\* and the last one to write syncs.
CommitsReachDisk ==
  \A i \in 1 .. RecordBound :
    (i <= Len(appended) /\ appended[i].type = "MTR_COMMIT") ~> OnDisk(i) \/ i \in lost

\* commit_trx returns, however the threads that flush interleave, once the
\* records run out: each takes the lock from the others and gives it back.
CommitReturns ==
  \A t \in Threads : pc[t] = "test" ~> pc[t] \in {"returned", "failed"}
=============================================================================
