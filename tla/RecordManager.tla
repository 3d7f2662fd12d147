---------------------------- MODULE RecordManager ----------------------------
(***************************************************************************)
(* The file of a table's records (storage/record/record_manager.cpp):      *)
(* threads insert and delete records, scan the file for reading or for     *)
(* deleting, and visit single records, with the lock of the free-page set  *)
(* and the page latches.                                                   *)
(*                                                                         *)
(* A step is what a thread does between two locks it has to wait for.  A   *)
(* page latch is recursive for its writer, so that a thread that scans for *)
(* deletion latches the page it stands on a second time to delete.  Reads  *)
(* and writes of pages succeed; a record is deleted at once, as a vacuous  *)
(* transaction does it.                                                    *)
(***************************************************************************)
EXTENDS Integers, FiniteSets

CONSTANTS
  Threads,
  Pages,              \* bound: page numbers the file may grow to
  record_capacity,    \* how many records a page holds
  CallBound,          \* bound: calls
  None

ASSUME CapacityAssumption == record_capacity \in Nat \ {0}
(* Page 0 is the file's header; the pages after it are numbered without a gap. *)
ASSUME PageAssumption ==
  IsFiniteSet(Pages) /\ \A p \in Pages : p \in Nat \ {0} /\ 1 .. p \subseteq Pages

VARIABLES
  allocated,   \* pages of the file, in its header's bitmap
  ready,       \* those whose header init_empty_page has written
  slots,       \* the records: slots in use, <<page, slot>>
  free_pages,  \* RecordFileHandler::free_pages_
  lock,        \* who holds its lock_
  pc,
  hold,        \* the page a call has write-latched (RecordPageHandler)
  target,      \* the record a call is about
  scan,        \* a thread's RecordFileScanner, None when it has none
  sure, maybe, \* history: records there all along / at some time during the scan
  recovering,  \* the file has been opened and the log is being replayed
  calls

callVars == <<pc, hold, target>>
historyVars == <<sure, maybe>>
fileVars == <<allocated, ready, slots, free_pages>>
vars == <<fileVars, lock, callVars, scan, historyVars, recovering, calls>>

Rids == Pages \X (0 .. record_capacity - 1)

(* RecordFileScanner, with its iterator over the pages of the file *)
Scanners == [readonly : BOOLEAN, page : Pages \cup {None}, last : Nat, page_count : Nat,
             next : Rids \cup {None}, current : Rids \cup {None}, out : SUBSET Rids, twice : BOOLEAN]

ASSUME NoneAssumption == None \notin Threads \cup Nat /\ None \notin Rids /\ None \notin Scanners

InPage(p) == {r \in slots : r[1] = p}

(* Bitmap::next_unsetted_bit, next_setted_bit: the lowest slot that is free, in use *)
FirstFree(p) == CHOOSE r \in ({p} \X (0 .. record_capacity - 1)) \ slots :
                  \A q \in ({p} \X (0 .. record_capacity - 1)) \ slots : r[2] <= q[2]
\* Mutant: one slot is skipped
NextUsed_Skips(p, from) ==
  LET used == {r \in InPage(p) : r[2] > from}
  IN  IF used = {} THEN None ELSE CHOOSE r \in used : \A q \in used : r[2] <= q[2]
NextUsed(p, from) ==
  LET used == {r \in InPage(p) : r[2] >= from}
  IN  IF used = {} THEN None ELSE CHOOSE r \in used : \A q \in used : r[2] <= q[2]

is_full(p) == Cardinality(InPage(p)) >= (IF p \in ready THEN record_capacity ELSE 0)

-----------------------------------------------------------------------------
(* Latches: those of calls, and those of scanners *)

Writes(t, p) == hold[t] = p \/ (scan[t] # None /\ scan[t].page = p /\ ~scan[t].readonly)
Reads(t, p) == scan[t] # None /\ scan[t].page = p /\ scan[t].readonly

CanWrite(t, p) == \A u \in Threads \ {t} : ~Writes(u, p) /\ ~Reads(u, p)
CanRead(t, p) == \A u \in Threads \ {t} : ~Writes(u, p)

(* BufferPoolIterator: the next page below the page count at open *)
NextPage(s) ==
  LET later == {p \in allocated : p > s.last /\ p <= s.page_count}
  IN  IF later = {} THEN None ELSE CHOOSE p \in later : \A q \in later : p <= q

Candidate == CHOOSE p \in free_pages : \A q \in free_pages : p <= q

(* who keeps a thread from its next step *)
WaitsFor(t, u) ==
  /\ u # t
  /\ \/ pc[t] \in {"lock", "enlist", "enlist_page"} /\ lock = u
     \/ pc[t] = "find" /\ free_pages # {} /\ (Writes(u, Candidate) \/ Reads(u, Candidate))
     \/ pc[t] \in {"remove", "init"} /\ (Writes(u, target[t][1]) \/ Reads(u, target[t][1]))
     \/ /\ pc[t] = "move" /\ NextPage(scan[t]) # None
        /\ Writes(u, NextPage(scan[t])) \/ (Reads(u, NextPage(scan[t])) /\ ~scan[t].readonly)

-----------------------------------------------------------------------------
Init ==
  /\ allocated = {} /\ ready = {} /\ slots = {} /\ free_pages = {}
  /\ lock = None
  /\ pc = [t \in Threads |-> "idle"]
  /\ hold = [t \in Threads |-> None]
  /\ target = [t \in Threads |-> None]
  /\ scan = [t \in Threads |-> None]
  /\ sure = [t \in Threads |-> {}]
  /\ maybe = [t \in Threads |-> {}]
  /\ recovering = FALSE
  /\ calls = 0

Goto(t, l) == pc' = [pc EXCEPT ![t] = l]

Call(t, l) ==
  /\ pc[t] = "idle" /\ ~recovering /\ calls < CallBound
  /\ calls' = calls + 1
  /\ Goto(t, l)
  /\ UNCHANGED <<fileVars, lock, hold, recovering>>

(* A call is over: back to the caller, which may be a scan that deletes. *)
Finish(t) == Goto(t, IF scan[t] # None THEN "scan" ELSE "idle")

(* A statement is over, at the end of its scan or because a delete failed. *)
EndScan(t) ==
  /\ scan' = [scan EXCEPT ![t] = None]
  /\ sure' = [sure EXCEPT ![t] = {}]
  /\ maybe' = [maybe EXCEPT ![t] = {}]
  /\ target' = [target EXCEPT ![t] = None]
  /\ Goto(t, "idle")

(* the scans that are under way when a record comes or goes *)
Appears(r) == /\ maybe' = [t \in Threads |-> IF scan[t] # None THEN maybe[t] \cup {r} ELSE maybe[t]]
              /\ UNCHANGED sure
Vanishes(r) == sure' = [t \in Threads |-> sure[t] \ {r}] /\ UNCHANGED maybe

-----------------------------------------------------------------------------
(* RecordFileHandler::insert_record *)

InsertRecord(t) ==
  /\ Call(t, "lock")
  /\ UNCHANGED <<target, scan, historyVars>>

TakeLock(t) ==
  /\ pc[t] = "lock" /\ lock = None
  /\ lock' = t
  /\ Goto(t, "find")
  /\ UNCHANGED <<fileVars, hold, target, scan, historyVars, recovering, calls>>

(* The first page of the set: used if it has room, dropped if it is full.  Once *)
(* it is latched, or the set is empty, the lock is released. *)
FindPage(t) ==
  /\ pc[t] = "find"
  /\ UNCHANGED <<allocated, ready, slots, target, scan, historyVars, recovering, calls>>
  /\ IF free_pages = {}
     THEN lock' = None /\ Goto(t, "alloc") /\ UNCHANGED <<free_pages, hold>>
     ELSE /\ CanWrite(t, Candidate)
          /\ IF is_full(Candidate)
             THEN free_pages' = free_pages \ {Candidate} /\ UNCHANGED <<pc, lock, hold>>
             ELSE /\ hold' = [hold EXCEPT ![t] = Candidate]
                  /\ lock' = None
                  /\ Goto(t, "put")
                  /\ UNCHANGED free_pages

(* allocate_page: from here on scanners come across the page *)
AllocatePage(t) ==
  /\ pc[t] = "alloc"
  /\ UNCHANGED <<ready, slots, free_pages, lock, hold, scan, historyVars, recovering, calls>>
  /\ IF allocated = Pages THEN Finish(t) /\ UNCHANGED <<allocated, target>>
     ELSE LET p == CHOOSE q \in Pages \ allocated : \A r \in Pages \ allocated : q <= r
          IN  /\ allocated' = allocated \cup {p}
              /\ target' = [target EXCEPT ![t] = <<p, 0>>]
              /\ Goto(t, "init")

(* RecordPageHandler::init_empty_page, under the write latch *)
InitEmptyPage(t) ==
  LET p == target[t][1]
  IN  /\ pc[t] = "init" /\ CanWrite(t, p)
      /\ ready' = ready \cup {p}
      /\ hold' = [hold EXCEPT ![t] = p]
      /\ Goto(t, "enlist_page")
      /\ UNCHANGED <<allocated, slots, free_pages, lock, target, scan, historyVars, recovering, calls>>

(* The new page enters the set while its latch is held. *)
EnlistPage(t) ==
  /\ pc[t] = "enlist_page" /\ lock = None
  /\ free_pages' = free_pages \cup {hold[t]}
  /\ Goto(t, "put")
  /\ UNCHANGED <<allocated, ready, slots, lock, hold, target, scan, historyVars, recovering, calls>>

(* RecordPageHandler::insert_record, and the end of the call *)
PutRecord(t) ==
  /\ pc[t] = "put"
  /\ IF is_full(hold[t]) THEN UNCHANGED <<slots, historyVars>>
     ELSE slots' = slots \cup {FirstFree(hold[t])} /\ Appears(FirstFree(hold[t]))
  /\ hold' = [hold EXCEPT ![t] = None]
  /\ target' = [target EXCEPT ![t] = None]
  /\ Finish(t)
  /\ UNCHANGED <<allocated, ready, free_pages, lock, scan, recovering, calls>>

-----------------------------------------------------------------------------
(* RecordFileHandler::delete_record *)

DeleteRecord(t, r) ==
  /\ Call(t, "remove")
  /\ target' = [target EXCEPT ![t] = r]
  /\ UNCHANGED <<scan, historyVars>>

\* Mutant: the page stays latched while the lock is asked for, as the comment warns
RemoveRecord_KeepsLatch(t) ==
  LET r == target[t]
  IN  /\ pc[t] = "remove" /\ CanWrite(t, r[1])
      /\ UNCHANGED <<allocated, ready, free_pages, lock, recovering, calls>>
      /\ IF r \in slots
         THEN /\ slots' = slots \ {r} /\ Vanishes(r) /\ Goto(t, "enlist")
              /\ hold' = [hold EXCEPT ![t] = r[1]] /\ UNCHANGED <<target, scan>>
         ELSE EndScan(t) /\ UNCHANGED <<slots, hold>>

(* The slot is freed under the page latch, which is released before the lock *)
(* of the page set is asked for. *)
RemoveRecord(t) ==
  LET r == target[t]
  IN  /\ pc[t] = "remove" /\ CanWrite(t, r[1])
      /\ UNCHANGED <<allocated, ready, free_pages, lock, hold, recovering, calls>>
      /\ IF r \in slots
         THEN /\ slots' = slots \ {r} /\ Vanishes(r) /\ Goto(t, "enlist")
              /\ UNCHANGED <<target, scan>>
         ELSE EndScan(t) /\ UNCHANGED slots

\* Mutant: the page is put back only when it has become empty
Enlist_WhenEmpty(t) ==
  /\ pc[t] = "enlist" /\ lock = None
  /\ free_pages' = IF InPage(target[t][1]) = {} THEN free_pages \cup {target[t][1]} ELSE free_pages
  /\ target' = [target EXCEPT ![t] = None]
  /\ Finish(t)
  /\ UNCHANGED <<allocated, ready, slots, lock, hold, scan, historyVars, recovering, calls>>

Enlist(t) ==
  /\ pc[t] = "enlist" /\ lock = None
  /\ free_pages' = free_pages \cup {target[t][1]}
  /\ target' = [target EXCEPT ![t] = None]
  /\ Finish(t)
  /\ UNCHANGED <<allocated, ready, slots, lock, hold, scan, historyVars, recovering, calls>>

-----------------------------------------------------------------------------
(* RecordFileScanner: the next record is fetched before the caller has used the *)
(* one before it.                                                               *)

OpenScan(t, readonly) ==
  /\ Call(t, "move")
  /\ scan' = [scan EXCEPT ![t] = [readonly |-> readonly, page |-> None, last |-> 0,
                                  page_count |-> Cardinality(allocated),
                                  next |-> None, current |-> None, out |-> {}, twice |-> FALSE]]
  /\ sure' = [sure EXCEPT ![t] = slots]
  /\ maybe' = [maybe EXCEPT ![t] = slots]
  /\ UNCHANGED target

(* fetch_next_record goes on to another page: it gives its latch back first. *)
MoveToPage(t) ==
  LET s == scan[t]
      p == NextPage(s)
      first == NextUsed(p, 0)
  IN  /\ pc[t] = "move"
      /\ UNCHANGED <<fileVars, lock, hold, target, historyVars, recovering, calls>>
      /\ IF p = None
         THEN scan' = [scan EXCEPT ![t].next = None] /\ Goto(t, "use")
         ELSE /\ IF s.readonly THEN CanRead(t, p) ELSE CanWrite(t, p)
              /\ scan' = [scan EXCEPT ![t].page = IF first = None THEN None ELSE p,
                                      ![t].last = p, ![t].next = first]
              /\ IF first = None THEN UNCHANGED pc ELSE Goto(t, "use")

(* next: the record fetched last is returned, and the one after it fetched *)
ScanNext(t) ==
  LET s == scan[t]
      after == NextUsed(s.page, s.next[2] + 1)
  IN  /\ pc[t] = "scan" /\ s.next # None
      /\ UNCHANGED <<fileVars, lock, hold, target, historyVars, recovering, calls>>
      /\ scan' = [scan EXCEPT ![t].current = s.next, ![t].next = after,
                              ![t].page = IF after = None THEN None ELSE @,
                              ![t].twice = @ \/ s.next \in s.out,
                              ![t].out = @ \cup {s.next}]
      /\ Goto(t, IF after = None THEN "move" ELSE "use")

(* The caller reads the record, or deletes it while the scan is open. *)
UseRecord(t) ==
  /\ pc[t] = "use"
  /\ UNCHANGED <<fileVars, lock, hold, scan, historyVars, recovering, calls>>
  /\ IF scan[t].readonly \/ scan[t].current = None
     THEN Goto(t, "scan") /\ UNCHANGED target
     ELSE target' = [target EXCEPT ![t] = scan[t].current] /\ Goto(t, "remove")

CloseScan(t) ==
  /\ pc[t] = "scan" /\ scan[t].next = None
  /\ EndScan(t)
  /\ UNCHANGED <<fileVars, lock, hold, recovering, calls>>

-----------------------------------------------------------------------------
(* RecordFileHandler::init when the file is opened again: init_free_pages looks *)
(* at every page. *)
Reopen ==
  /\ \A t \in Threads : pc[t] = "idle"
  /\ ~recovering /\ calls < CallBound
  /\ calls' = calls + 1
  /\ free_pages' = {p \in allocated : ~is_full(p)}
  /\ recovering' = TRUE
  /\ UNCHANGED <<allocated, ready, slots, lock, callVars, scan, historyVars>>

(* recover_insert_record: a record of the log goes back to its slot, which may *)
(* be in use already; the page's bit in the file header is set if it is not.   *)
RecoverInsertRecord(r) ==
  /\ recovering
  /\ allocated' = allocated \cup {r[1]}
  /\ slots' = IF r[1] \in ready THEN slots \cup {r} ELSE slots
  /\ UNCHANGED <<ready, free_pages, lock, callVars, scan, historyVars, recovering, calls>>

Recovered ==
  /\ recovering
  /\ recovering' = FALSE
  /\ UNCHANGED <<fileVars, lock, callVars, scan, historyVars, calls>>

Next ==
  \/ \E t \in Threads :
       \/ InsertRecord(t) \/ TakeLock(t) \/ FindPage(t) \/ AllocatePage(t)
       \/ InitEmptyPage(t) \/ EnlistPage(t) \/ PutRecord(t)
       \/ \E r \in Rids : r[1] \in allocated /\ DeleteRecord(t, r)
       \/ RemoveRecord(t) \/ Enlist(t)
       \/ \E readonly \in BOOLEAN : OpenScan(t, readonly)
       \/ MoveToPage(t) \/ ScanNext(t) \/ UseRecord(t) \/ CloseScan(t)
  \/ Reopen
  \/ \E r \in Rids : r[1] \in allocated /\ RecoverInsertRecord(r)
  \/ Recovered

Spec == Init /\ [][Next]_vars

-----------------------------------------------------------------------------
(* Properties *)

Pcs == {"idle", "lock", "find", "alloc", "init", "enlist_page", "put", "remove", "enlist",
        "move", "use", "scan"}

(* The pages insert_record may take from, and those it has initialised, are pages  *)
(* of the file; latches and the lock are held by threads.                          *)
TypeOK ==
  /\ ready \subseteq allocated /\ allocated \subseteq Pages
  /\ slots \subseteq Rids /\ free_pages \subseteq allocated
  /\ lock \in Threads \cup {None}
  /\ pc \in [Threads -> Pcs]
  /\ hold \in [Threads -> Pages \cup {None}]
  /\ target \in [Threads -> Rids \cup {None}]
  /\ scan \in [Threads -> Scanners \cup {None}]
  /\ sure \in [Threads -> SUBSET Rids] /\ maybe \in [Threads -> SUBSET Rids]
  /\ recovering \in BOOLEAN /\ calls \in Nat

Quiet == \A t \in Threads : pc[t] = "idle"

(* The page insert_record has chosen cannot fill up before it puts the record there. *)
InsertHasRoom == \A t \in Threads : pc[t] = "put" => ~is_full(hold[t])

(* No space is lost: between calls, every page with room is in the set insert_record *)
(* takes pages from, whatever the order in which inserts dropped full pages and      *)
(* deletes added theirs; and every allocated page has been initialised.              *)
FreePagesComplete ==
  /\ TypeOK /\ InsertHasRoom
  /\ Quiet /\ ~recovering => ready = allocated /\ {p \in allocated : ~is_full(p)} \subseteq free_pages

(* A scan that has reached its end has returned every record that was there all the  *)
(* time, none that was never there, and none twice.                                  *)
ScanExact ==
  \A t \in Threads : scan[t] # None /\ pc[t] = "scan" /\ scan[t].next = None =>
    sure[t] \subseteq scan[t].out /\ scan[t].out \subseteq maybe[t] /\ ~scan[t].twice

(* Threads wait for one another in a circle only when one of them deletes inside its  *)
(* own scan and has the scan's page latch when it asks for the lock of the page set:  *)
(* the order delete_record's comment says must not happen.                            *)
OnlyScansDeadlock ==
  \A s \in SUBSET Threads :
    s # {} /\ (\A t \in s : \E u \in s : WaitsFor(t, u)) =>
      \E t \in s : pc[t] = "enlist" /\ scan[t] # None /\ scan[t].page # None
==============================================================================
