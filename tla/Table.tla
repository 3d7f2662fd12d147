-------------------------------- MODULE Table --------------------------------
(***************************************************************************)
(* One table (storage/table/table.cpp) under the statements that change    *)
(* it, with vacuous transactions: INSERT, DELETE, UPDATE                   *)
(* (sql/executor/update_executor.cpp) and CREATE INDEX, by several threads *)
(* whose steps interleave, operations of an index or a file that may fail, *)
(* also those that undo another one, and a restart of the server.          *)
(*                                                                         *)
(* A record is a function from the fields to the bytes stored for them.    *)
(* Bytes are told apart as far as the code does it: all zero (Zero), a     *)
(* number, a short text, or the marker that stands for a long text kept in *)
(* the memory of the server.                                               *)
(***************************************************************************)
EXTENDS Integers, Sequences, FiniteSets

CONSTANTS
  Threads,
  Rids,                \* bound: the slots of the data file, in the order they are taken
  IntFields, CharFields, TextFields,
  Nullable,            \* the fields declared nullable
  Ints, Texts,         \* numbers and texts
  Inexact,             \* for each field, what it keeps of the values it cannot hold
  Full,                \* for each field, its values without a zero byte
  LongTexts,           \* texts longer than a TEXTS field
  Tuples,              \* the rows INSERT may be asked to insert: [vals, forced]
  StartIndexes,        \* the indexes the table may start with
  NewIndexes,          \* what CREATE INDEX may be asked for: [name, fields, unique]
  StmtBound,           \* bound: statements and restarts
  FaultBound,          \* bound: failing operations of an index or a file
  Null, Zero, None

Fields == IntFields \cup CharFields \cup TextFields

(* A FLOAT is rounded to be kept in an INTS field (coerce_update_value does so too), *)
(* a string is cut to be kept in a CHARS field.                                      *)
Kept(f, v) == IF v \in DOMAIN Inexact[f] THEN Inexact[f][v] ELSE v

(* The values of a field, and the rows INSERT is asked for. *)
Domain(f) == {Null} \cup (IF f \in IntFields THEN Int ELSE [text : STRING])
IsTuple(row) ==
  /\ DOMAIN row.vals = Fields /\ \A f \in Fields : Kept(f, row.vals[f]) \in Domain(f)
  /\ row.forced \subseteq Fields

ASSUME FieldAssumption ==
  /\ \A f, g \in TextFields : f = g
  /\ IntFields \cap CharFields = {} /\ (IntFields \cup CharFields) \cap TextFields = {}
  /\ Nullable \subseteq Fields
ASSUME ValueAssumption ==
  /\ \A x \in {Null, Zero} : x \notin Int \cup [text : STRING] \cup [marker : Nat]
  /\ Null # Zero /\ Ints \subseteq Int /\ Texts \subseteq STRING /\ "" \in STRING \ LongTexts
ASSUME InexactAssumption ==
  \A f \in Fields : \A v \in DOMAIN Inexact[f] : Inexact[f][v] \in Domain(f) \ {Null}
ASSUME TupleAssumption ==
  \A list \in Tuples :
    list \in Seq({list[i] : i \in DOMAIN list}) /\ \A i \in DOMAIN list : IsTuple(list[i])
ASSUME RidAssumption == Rids \subseteq Nat /\ None \notin Rids
ASSUME IndexAssumption ==
  \A list \in StartIndexes :
    list \in Seq([name : {list[i].name : i \in DOMAIN list}, fields : Seq(Fields),
                  unique : BOOLEAN, entries : {{}}])
ASSUME NewIndexAssumption == \A meta \in NewIndexes : meta.fields \in Seq(Fields)

VARIABLES
  rows,           \* the data file: a function from the slots in use to records
  indexes,        \* Table::indexes_
  table_meta, disk_meta, \* names of the indexes in the metadata in memory, and in its file
  tmp_meta,       \* what is in the temporary file of create_index, None if there is none
  files,          \* names of the index files there are
  overflow_texts, next_overflow_text_id, forced_null_fields,
  th,             \* what each thread is doing
  given,          \* history: the values a row was written with
  suspect,        \* history: slots that two statements worked on at the same time, or
                  \* where what had failed could not be taken back or asked
  raced,          \* history: slots filled while another insert was under way
  rivals,         \* history: threads whose insert has met another one
  stale, aged,    \* history: markers, and rows, from before a restart
  unwritten,      \* history: the metadata of an index was not written, or over another's
  stmts, faults

memory == <<overflow_texts, next_overflow_text_id, forced_null_fields>>
history == <<given, suspect, raced, rivals, stale, aged, unwritten>>
metadata == <<table_meta, disk_meta, tmp_meta>>
vars == <<rows, indexes, metadata, files, memory, th, history, stmts, faults>>

Idle == [pc |-> "idle", op |-> "none", rest |-> <<>>, rid |-> None, data |-> None,
         vals |-> None, forced |-> {}, i |-> 0, ix |-> None, set |-> None, new |-> None,
         copy |-> None, unasked |-> FALSE]

-----------------------------------------------------------------------------
(* Records and values *)

Text(x) == [text |-> x]
Marker(n) == [marker |-> n]
IsMarker(s) == s \notin {Zero, Null} /\ "marker" \in DOMAIN s

Default(f) == IF f \in IntFields THEN 0 ELSE Text("")

IsLong(f, v) == f \in TextFields /\ v # Null /\ ~IsMarker(v) /\ v.text \in LongTexts

(* what make_record writes for a value; a long text gets the next marker, a marker *)
(* that UPDATE has read and not resolved is a short text *)
Bytes(f, v) ==
  IF v = Null \/ v = Default(f) THEN Zero
  ELSE IF IsLong(f, v) THEN Marker(next_overflow_text_id) ELSE v

Accepts(vals, forced) == \A f \in Fields : vals[f] = Null => f \in Nullable \cup forced

Record(vals, forced) == [f \in Fields |-> IF f \in forced THEN Zero ELSE Bytes(f, vals[f])]

\* Mutant: every long text gets the same number
MakeRecord_SameId(vals, forced) ==
  /\ overflow_texts' = IF \E f \in Fields \ forced : IsLong(f, vals[f])
                       THEN [n \in {next_overflow_text_id} |-> vals[CHOOSE f \in TextFields : TRUE]]
                       ELSE overflow_texts
  /\ UNCHANGED next_overflow_text_id

MakeRecord(vals, forced) ==
  LET long == {f \in Fields \ forced : IsLong(f, vals[f])}
  IN  IF long # {}
      THEN /\ overflow_texts' = [n \in DOMAIN overflow_texts \cup {next_overflow_text_id} |->
                                   IF n = next_overflow_text_id
                                   THEN vals[CHOOSE f \in long : TRUE] ELSE overflow_texts[n]]
           /\ next_overflow_text_id' = next_overflow_text_id + 1
      ELSE UNCHANGED <<overflow_texts, next_overflow_text_id>>

EraseTexts(rec) ==
  overflow_texts' = [n \in DOMAIN overflow_texts \ {k \in DOMAIN overflow_texts :
                       \E f \in TextFields : rec[f] = Marker(k)} |-> overflow_texts[n]]

ForcedNull(rid, f) == rid \in DOMAIN forced_null_fields /\ f \in forced_null_fields[rid]

(* RowTuple::cell_at, and the same reading in UPDATE *)
Cell(rid, rec, f) ==
  IF ForcedNull(rid, f) THEN Null
  ELSE IF rec[f] = Zero THEN (IF f \in Nullable THEN Null ELSE Default(f))
  ELSE IF f \in TextFields /\ IsMarker(rec[f]) /\ rec[f].marker \in DOMAIN overflow_texts
       THEN overflow_texts[rec[f].marker]
       ELSE rec[f]

-----------------------------------------------------------------------------
(* Keys.  The key of an index of several fields is their bytes one after the *)
(* other, compared as a string: up to the first zero byte.  Of one TEXTS     *)
(* field nothing is compared: AttrComparator does not know the type.         *)

KeyFields(fields, rec) ==
  LET ends == {i \in 1 .. Len(fields) : rec[fields[i]] \notin Full[fields[i]]}
  IN  IF Len(fields) = 1 THEN (IF fields[1] \in TextFields THEN <<>> ELSE fields)
      ELSE IF ends = {} THEN fields
      ELSE SubSeq(fields, 1, CHOOSE i \in ends : \A j \in ends : i <= j)

Key(meta, rec) ==
  LET fs == KeyFields(meta.fields, rec) IN [i \in 1 .. Len(fs) |-> rec[fs[i]]]

SkipUniqueNullKey(meta, rec) ==
  meta.unique /\ \E i \in 1 .. Len(meta.fields) :
                    meta.fields[i] \in Nullable /\ rec[meta.fields[i]] = Zero

HasKey(ix, key) == \E e \in ix.entries : e[1] = key

-----------------------------------------------------------------------------
InFlight(t) == th[t].pc \in {"check", "enter", "undo", "leave", "clear", "unrow"}
Inserting(t) == th[t].pc \in {"check", "enter", "undo", "unrow"}
SharesSlot(t, r) == \E u \in Threads \ {t} : th[u].rid = r /\ InFlight(u)
Building(t) == \E u \in Threads \ {t} : th[u].pc = "publish"

Set(t, r) == th' = [th EXCEPT ![t] = r]
Done(t) == Set(t, Idle) /\ rivals' = rivals \ {t}

Init ==
  /\ rows = <<>>
  /\ indexes \in StartIndexes
  /\ disk_meta = [i \in 1 .. Len(indexes) |-> indexes[i].name]
  /\ table_meta = disk_meta /\ tmp_meta = None /\ unwritten = FALSE
  /\ files = {indexes[i].name : i \in 1 .. Len(indexes)}
  /\ overflow_texts = <<>> /\ next_overflow_text_id = 1 /\ forced_null_fields = <<>>
  /\ th = [t \in Threads |-> Idle]
  /\ given = <<>> /\ suspect = {} /\ raced = {} /\ rivals = {} /\ stale = {} /\ aged = {}
  /\ stmts = 0 /\ faults = 0

Fault == faults < FaultBound /\ faults' = faults + 1

Begin(t) ==
  /\ th[t].pc = "idle" /\ stmts < StmtBound
  /\ stmts' = stmts + 1
  /\ UNCHANGED <<rows, indexes, metadata, files, memory, history, faults>>

(* InsertPhysicalOperator::open *)
Insert(t, tuples) ==
  Begin(t) /\ Set(t, [Idle EXCEPT !.pc = "next", !.op = "insert", !.rest = tuples])

(* the rows a scan has collected: a copy of the record in each slot *)
Collected(S) == [r \in S |-> rows[r]]

Without(f, r) == [q \in DOMAIN f \ {r} |-> f[q]]

First(S) == CHOOSE r \in S : \A q \in S : r <= q

(* DeletePhysicalOperator over a scan that has moved on: rows are deleted one by one. *)
Delete(t, r) ==
  Begin(t) /\ Set(t, [Idle EXCEPT !.pc = "next", !.op = "delete", !.rest = Collected({r})])

(* UpdateExecutor::execute: the matching rows are collected, then the new value *)
(* is checked against the field (coerce_update_value), and made to fit it. *)
Update(t, S, f, v) ==
  /\ Begin(t)
  /\ IF S = {} \/ (v = Null /\ f \notin Nullable) THEN UNCHANGED th
     ELSE Set(t, [Idle EXCEPT !.pc = "next", !.op = "update", !.rest = Collected(S),
                              !.set = [field |-> f, value |-> Kept(f, v)]])

(* The statement goes on with its next row, or is over. *)
InsertNext(t) ==
  /\ th[t].pc = "next" /\ th[t].op = "insert" /\ th[t].rest # <<>>
  /\ LET tuple == Head(th[t].rest)
         vals == [f \in Fields |-> Kept(f, tuple.vals[f])]
         others == {u \in Threads \ {t} : Inserting(u)}
     IN  IF Accepts(vals, tuple.forced)
         THEN /\ MakeRecord(vals, tuple.forced)
              /\ Set(t, [th[t] EXCEPT !.pc = "check", !.rest = Tail(@), !.i = 1,
                                      !.data = Record(vals, tuple.forced),
                                      !.vals = [f \in Fields |-> IF f \in tuple.forced THEN Null ELSE vals[f]],
                                      !.forced = tuple.forced])
              /\ rivals' = IF others = {} THEN rivals ELSE rivals \cup others \cup {t}
         ELSE Done(t) /\ UNCHANGED <<overflow_texts, next_overflow_text_id>>
  /\ UNCHANGED <<rows, indexes, metadata, files, forced_null_fields, given, suspect, raced, stale, aged, unwritten, stmts, faults>>

DeleteNext(t) ==
  /\ th[t].pc = "next" /\ th[t].op = "delete" /\ DOMAIN th[t].rest # {}
  /\ LET r == First(DOMAIN th[t].rest)
     IN  /\ Set(t, [th[t] EXCEPT !.pc = "leave", !.i = 1, !.rid = r, !.data = th[t].rest[r],
                                 !.rest = Without(@, r)])
         /\ suspect' = IF SharesSlot(t, r) THEN suspect \cup {r} ELSE suspect
  /\ UNCHANGED <<rows, indexes, metadata, files, memory, given, raced, rivals, stale, aged, unwritten, stmts, faults>>

(* The fields are read back from the copy, the changed one is replaced, and the *)
(* new record is made before the old one is deleted.  A NULL that is read back is *)
(* one the field accepts, so that make_record cannot refuse.  The history of the   *)
(* new row is that of the old one, unless the row is not known to be the one that  *)
(* was written or what it reads is only a marker from before a restart: then the   *)
(* new row is written with what was read.                                          *)
UpdateNext(t) ==
  LET r == First(DOMAIN th[t].rest)
      old == th[t].rest[r]
      set == th[t].set
      vals == [f \in Fields |-> IF f = set.field THEN set.value ELSE Cell(r, old, f)]
      forced == {f \in Fields \ {set.field} : ForcedNull(r, f)}
      certain == /\ r \in DOMAIN given \ (aged \cup suspect) /\ ~SharesSlot(t, r)
                 /\ rows[r] = old
                 /\ \A n \in stale, f \in TextFields : old[f] # Marker(n)
      before == IF certain THEN given[r] ELSE vals
  IN  /\ th[t].pc = "next" /\ th[t].op = "update" /\ DOMAIN th[t].rest # {}
      /\ MakeRecord(vals, forced)
      /\ Set(t, [th[t] EXCEPT !.pc = "leave", !.i = 1, !.rid = r, !.data = old, !.rest = Without(@, r),
                              !.new = Record(vals, forced), !.forced = forced,
                              !.vals = [before EXCEPT ![set.field] = set.value]])
      /\ suspect' = IF SharesSlot(t, r) THEN suspect \cup {r} ELSE suspect
      /\ UNCHANGED <<rows, indexes, metadata, files, forced_null_fields, given, raced, rivals, stale, aged, unwritten, stmts, faults>>

EndStatement(t) ==
  /\ th[t].pc = "next" /\ DOMAIN th[t].rest = {}
  /\ Done(t)
  /\ UNCHANGED <<rows, indexes, metadata, files, memory, given, suspect, raced, stale, aged, unwritten, stmts, faults>>

-----------------------------------------------------------------------------
(* Table::insert_record *)

(* one unique index after the other is asked for the key; one that cannot be asked *)
(* counts as one that has no such key *)
CheckUnique(t) ==
  LET s == th[t]
      ix == indexes[s.i]
      asked == ix.unique /\ ~SkipUniqueNullKey(ix, s.data)
      duplicate == asked /\ HasKey(ix, Key(ix, s.data))
  IN  /\ s.pc = "check" /\ s.i <= Len(indexes)
      /\ \/ duplicate /\ EraseTexts(s.data) /\ Done(t) /\ UNCHANGED faults
         \/ /\ ~duplicate /\ Set(t, [s EXCEPT !.i = @ + 1])
            /\ UNCHANGED <<overflow_texts, rivals, faults>>
         \/ /\ asked /\ Fault /\ Set(t, [s EXCEPT !.i = @ + 1, !.unasked = TRUE])
            /\ UNCHANGED <<overflow_texts, rivals>>
      /\ UNCHANGED <<rows, indexes, metadata, files, next_overflow_text_id, forced_null_fields, given, suspect,
                     raced, stale, aged, unwritten, stmts>>

FreeSlots == Rids \ DOMAIN rows

(* There is no slot, or the record file fails: the INSERT does. *)
NoSlot(t) ==
  /\ th[t].pc = "check" /\ th[t].i > Len(indexes)
  /\ IF FreeSlots = {} THEN UNCHANGED faults ELSE Fault
  /\ EraseTexts(th[t].data) /\ Done(t)
  /\ UNCHANGED <<rows, indexes, metadata, files, next_overflow_text_id, forced_null_fields, given, suspect,
                 raced, stale, aged, unwritten, stmts>>

PutRow(t) ==
  LET s == th[t]
      r == First(FreeSlots)
  IN  /\ s.pc = "check" /\ s.i > Len(indexes) /\ FreeSlots # {}
      /\ rows' = [q \in DOMAIN rows \cup {r} |-> IF q = r THEN s.data ELSE rows[q]]
      /\ given' = [q \in DOMAIN rows' |-> IF q = r THEN s.vals ELSE given[q]]
      /\ suspect' = IF SharesSlot(t, r) \/ Building(t) \/ s.unasked THEN suspect \cup {r} ELSE suspect
      /\ aged' = aged \ {r}
      /\ Set(t, [s EXCEPT !.pc = "enter", !.i = 1, !.rid = r])
      /\ UNCHANGED <<indexes, metadata, files, memory, raced, rivals, stale, unwritten, stmts, faults>>

(* insert_entry_of_indexes: an index may fail, or have the entry already *)
EnterIndex(t) ==
  LET s == th[t]
      ix == indexes[s.i]
      e == <<Key(ix, s.data), s.rid>>
  IN  /\ s.pc = "enter" /\ s.i <= Len(indexes)
      /\ \/ /\ SkipUniqueNullKey(ix, s.data)
            /\ Set(t, [s EXCEPT !.i = @ + 1]) /\ UNCHANGED <<indexes, faults>>
         \/ /\ ~SkipUniqueNullKey(ix, s.data) /\ e \notin ix.entries
            /\ indexes' = [indexes EXCEPT ![s.i].entries = @ \cup {e}]
            /\ Set(t, [s EXCEPT !.i = @ + 1]) /\ UNCHANGED faults
         \/ /\ ~SkipUniqueNullKey(ix, s.data)
            /\ IF e \in ix.entries THEN UNCHANGED faults ELSE Fault
            /\ Set(t, [s EXCEPT !.pc = "undo", !.i = 1]) /\ UNCHANGED indexes
      /\ UNCHANGED <<rows, metadata, files, memory, history, stmts>>

(* The row is in: mark_forced_null_fields by the operator or the executor. *)
RowDone(t) ==
  LET s == th[t]
  IN  /\ s.pc = "enter" /\ s.i > Len(indexes)
      /\ forced_null_fields' = [r \in (DOMAIN forced_null_fields \ {s.rid}) \cup (IF s.forced = {} THEN {} ELSE {s.rid}) |->
                                  IF r = s.rid THEN s.forced ELSE forced_null_fields[r]]
      /\ raced' = IF t \in rivals THEN raced \cup {s.rid} ELSE raced \ {s.rid}
      /\ rivals' = rivals \ {t}
      /\ Set(t, [Idle EXCEPT !.pc = "next", !.op = s.op, !.rest = s.rest, !.set = s.set])
      /\ UNCHANGED <<rows, indexes, metadata, files, overflow_texts, next_overflow_text_id, given, suspect, stale, aged, unwritten, stmts, faults>>

\* Mutant: only the row is taken back
UndoIndex_RowOnly(t) ==
  /\ th[t].pc = "undo"
  /\ Set(t, [th[t] EXCEPT !.pc = "unrow"])
  /\ UNCHANGED <<rows, indexes, metadata, files, memory, history, stmts, faults>>

(* delete_entry_of_indexes, up to the first index that has no such entry, or fails: *)
(* then the entries of that index and those after it stay *)
UndoIndex(t) ==
  LET s == th[t]
      ix == indexes[s.i]
      e == <<Key(ix, s.data), s.rid>>
  IN  /\ s.pc = "undo"
      /\ \/ s.i > Len(indexes) /\ Set(t, [s EXCEPT !.pc = "unrow"])
            /\ UNCHANGED <<indexes, suspect, faults>>
         \/ /\ s.i <= Len(indexes) /\ SkipUniqueNullKey(ix, s.data)
            /\ Set(t, [s EXCEPT !.i = @ + 1]) /\ UNCHANGED <<indexes, suspect, faults>>
         \/ /\ s.i <= Len(indexes) /\ ~SkipUniqueNullKey(ix, s.data)
            /\ \/ /\ e \notin ix.entries /\ Set(t, [s EXCEPT !.pc = "unrow"])
                  /\ UNCHANGED <<indexes, suspect, faults>>
               \/ /\ e \in ix.entries /\ indexes' = [indexes EXCEPT ![s.i].entries = @ \ {e}]
                  /\ Set(t, [s EXCEPT !.i = @ + 1]) /\ UNCHANGED <<suspect, faults>>
               \/ /\ Fault /\ suspect' = suspect \cup {s.rid}
                  /\ Set(t, [s EXCEPT !.pc = "unrow"]) /\ UNCHANGED indexes
      /\ UNCHANGED <<rows, metadata, files, memory, given, raced, rivals, stale, aged, unwritten, stmts>>

(* The row is deleted, or stays if that fails; its texts go in any case. *)
UndoRow(t) ==
  LET s == th[t]
  IN  /\ s.pc = "unrow"
      /\ \/ /\ rows' = Without(rows, s.rid) /\ given' = Without(given, s.rid)
            /\ suspect' = IF Building(t) THEN suspect \cup {s.rid} ELSE suspect
            /\ UNCHANGED faults
         \/ Fault /\ suspect' = suspect \cup {s.rid} /\ UNCHANGED <<rows, given>>
      /\ EraseTexts(s.data)
      /\ Done(t)
      /\ UNCHANGED <<indexes, metadata, files, next_overflow_text_id, forced_null_fields, raced, stale, aged,
                     unwritten, stmts>>

-----------------------------------------------------------------------------
(* Table::delete_record; its ASSERT is not evaluated, so that an index without *)
(* the entry, or one that fails to delete it, is passed over. *)

\* Mutant: the entries of the old row stay
LeaveIndex_Keeps(t) ==
  /\ th[t].pc = "leave" /\ th[t].i <= Len(indexes)
  /\ Set(t, [th[t] EXCEPT !.i = @ + 1])
  /\ UNCHANGED <<rows, indexes, metadata, files, memory, history, stmts, faults>>

LeaveIndex(t) ==
  LET s == th[t]
      ix == indexes[s.i]
      e == <<Key(ix, s.data), s.rid>>
  IN  /\ s.pc = "leave" /\ s.i <= Len(indexes)
      /\ Set(t, [s EXCEPT !.i = @ + 1])
      /\ \/ SkipUniqueNullKey(ix, s.data) /\ UNCHANGED <<indexes, suspect, faults>>
         \/ /\ ~SkipUniqueNullKey(ix, s.data)
            /\ indexes' = [indexes EXCEPT ![s.i].entries = @ \ {e}]
            /\ suspect' = IF e \in ix.entries THEN suspect ELSE suspect \cup {s.rid}
            /\ UNCHANGED faults
         \/ /\ ~SkipUniqueNullKey(ix, s.data)
            /\ Fault /\ suspect' = suspect \cup {s.rid} /\ UNCHANGED indexes
      /\ UNCHANGED <<rows, metadata, files, memory, given, raced, rivals, stale, aged, unwritten, stmts>>

(* The row is deleted; or it is gone already, or that fails, and the statement ends. *)
DropRow(t) ==
  LET s == th[t]
  IN  /\ s.pc = "leave" /\ s.i > Len(indexes)
      /\ \/ /\ s.rid \in DOMAIN rows
            /\ rows' = Without(rows, s.rid) /\ given' = Without(given, s.rid)
            /\ suspect' = IF Building(t) \/ rows[s.rid] # s.data THEN suspect \cup {s.rid} ELSE suspect
            /\ Set(t, [s EXCEPT !.pc = "clear"]) /\ UNCHANGED <<rivals, faults>>
         \/ /\ IF s.rid \in DOMAIN rows THEN Fault ELSE UNCHANGED faults
            /\ Done(t) /\ suspect' = suspect \cup {s.rid} /\ UNCHANGED <<rows, given>>
      /\ UNCHANGED <<indexes, metadata, files, memory, raced, stale, aged, unwritten, stmts>>

(* clear_forced_null_fields and erase_overflow_texts; UPDATE goes on with the *)
(* insert of the new record. *)
ClearRow(t) ==
  LET s == th[t]
      others == {u \in Threads \ {t} : Inserting(u)}
  IN  /\ s.pc = "clear"
      /\ forced_null_fields' = Without(forced_null_fields, s.rid)
      /\ EraseTexts(s.data)
      /\ IF s.op = "delete"
         THEN /\ Set(t, [Idle EXCEPT !.pc = "next", !.op = s.op, !.rest = s.rest])
              /\ UNCHANGED rivals
         ELSE /\ Set(t, [s EXCEPT !.pc = "check", !.i = 1, !.rid = None, !.data = s.new, !.new = None])
              /\ rivals' = IF others = {} THEN rivals ELSE rivals \cup others \cup {t}
      /\ UNCHANGED <<rows, indexes, metadata, files, next_overflow_text_id, given, suspect, raced, stale, aged, unwritten, stmts, faults>>

-----------------------------------------------------------------------------
(* Table::create_index: the file, an entry for every row, the list of indexes, *)
(* the temporary metadata file, and its renaming.                              *)

Indexed(meta) == {r \in DOMAIN rows : ~SkipUniqueNullKey(meta, rows[r])}

Doubles(meta) ==
  {r \in Indexed(meta) : \E q \in Indexed(meta) \ {r} : Key(meta, rows[r]) = Key(meta, rows[q])}

Entries(meta) == {<<Key(meta, rows[r]), r>> : r \in Indexed(meta)}

Disturbed(t) == {th[u].rid : u \in {v \in Threads \ {t} : InFlight(v) /\ th[v].rid # None}}

(* The rows are entered, unless two of a unique index have the same key; one that   *)
(* cannot be asked for a key lets them in.                                          *)
EnterRows(t, meta) ==
  LET doubles == IF meta.unique THEN Doubles(meta) ELSE {} IN
  /\ IF doubles = {} THEN UNCHANGED faults ELSE Fault
  /\ Set(t, [Idle EXCEPT !.pc = "publish", !.op = "index",
                !.ix = [name |-> meta.name, fields |-> meta.fields, unique |-> meta.unique,
                        entries |-> Entries(meta)]])
  /\ suspect' = suspect \cup Disturbed(t) \cup doubles

(* The file cannot be made when it is there already; it is left behind when the build *)
(* fails.                                                                             *)
BuildIndex(t, meta) ==
  /\ th[t].pc = "idle" /\ stmts < StmtBound
  /\ \A i \in 1 .. Len(indexes) : indexes[i].name # meta.name
  /\ stmts' = stmts + 1
  /\ \/ /\ IF meta.name \in files THEN UNCHANGED faults ELSE Fault
        /\ UNCHANGED <<files, th, suspect>>
     \/ /\ meta.name \notin files /\ files' = files \cup {meta.name}
        /\ \/ EnterRows(t, meta)
           \/ /\ IF meta.unique /\ Doubles(meta) # {} THEN UNCHANGED faults ELSE Fault
              /\ UNCHANGED <<th, suspect>>
  /\ UNCHANGED <<rows, indexes, metadata, memory, given, raced, rivals, stale, aged, unwritten>>

Publishing(t) == th[t].pc \in {"write", "rename"}

(* The index is in use before its metadata is written, and stays so if that fails. *)
PublishIndex(t) ==
  /\ th[t].pc = "publish"
  /\ indexes' = Append(indexes, th[t].ix)
  /\ suspect' = suspect \cup Disturbed(t)
  /\ Set(t, [Idle EXCEPT !.pc = "write", !.op = "index", !.copy = Append(table_meta, th[t].ix.name)])
  /\ unwritten' = (unwritten \/ \E u \in Threads \ {t} : Publishing(u))
  /\ UNCHANGED <<rows, metadata, files, memory, given, raced, rivals, stale, aged, stmts, faults>>

WriteMeta(t) ==
  /\ th[t].pc = "write"
  /\ \/ /\ tmp_meta' = th[t].copy /\ Set(t, [th[t] EXCEPT !.pc = "rename"])
        /\ UNCHANGED <<unwritten, faults>>
     \/ Fault /\ Set(t, Idle) /\ unwritten' = TRUE /\ UNCHANGED tmp_meta
  /\ UNCHANGED <<rows, indexes, table_meta, disk_meta, files, memory, given, suspect, raced, rivals, stale,
                 aged, stmts>>

(* Another CREATE INDEX may have written, or renamed, the temporary file since. *)
RenameMeta(t) ==
  /\ th[t].pc = "rename"
  /\ \/ /\ tmp_meta # None /\ disk_meta' = tmp_meta /\ tmp_meta' = None
        /\ table_meta' = th[t].copy
        /\ UNCHANGED <<unwritten, faults>>
     \/ /\ IF tmp_meta = None THEN UNCHANGED faults ELSE Fault
        /\ unwritten' = TRUE /\ UNCHANGED metadata
  /\ Set(t, Idle)
  /\ UNCHANGED <<rows, indexes, files, memory, given, suspect, raced, rivals, stale, aged, stmts>>

(* The server stops in order and starts again: Table::open reads the metadata. *)
Restart ==
  /\ \A t \in Threads : th[t] = Idle
  /\ stmts < StmtBound
  /\ stmts' = stmts + 1
  /\ indexes' = [i \in 1 .. Len(disk_meta) |->
                   indexes[CHOOSE j \in 1 .. Len(indexes) : indexes[j].name = disk_meta[i]]]
  /\ table_meta' = disk_meta
  /\ overflow_texts' = <<>> /\ next_overflow_text_id' = 1 /\ forced_null_fields' = <<>>
  /\ stale' = stale \cup {n \in 1 .. next_overflow_text_id :
                            \E r \in DOMAIN rows, f \in TextFields : rows[r][f] = Marker(n)}
  /\ aged' = DOMAIN rows
  /\ UNCHANGED <<rows, disk_meta, tmp_meta, files, th, given, suspect, raced, rivals, unwritten, faults>>

Values(f) == {Null} \cup DOMAIN Inexact[f] \cup (IF f \in IntFields THEN Ints ELSE {Text(x) : x \in Texts})

Next ==
  \/ \E t \in Threads :
       \/ \E tuples \in Tuples : Insert(t, tuples)
       \/ \E r \in DOMAIN rows : Delete(t, r)
       \/ \E S \in SUBSET DOMAIN rows, f \in Fields : \E v \in Values(f) : Update(t, S, f, v)
       \/ InsertNext(t) \/ DeleteNext(t) \/ UpdateNext(t) \/ EndStatement(t)
       \/ CheckUnique(t) \/ NoSlot(t) \/ PutRow(t) \/ EnterIndex(t) \/ RowDone(t) \/ UndoIndex(t) \/ UndoRow(t)
       \/ LeaveIndex(t) \/ DropRow(t) \/ ClearRow(t)
       \/ \E meta \in NewIndexes : BuildIndex(t, meta)
       \/ PublishIndex(t) \/ WriteMeta(t) \/ RenameMeta(t)
  \/ Restart

Spec == Init /\ [][Next]_vars

-----------------------------------------------------------------------------
(* Properties *)

Quiet == \A t \in Threads : th[t].pc = "idle"

(* Rows are records of the schema, in slots of the file, index entries point at     *)
(* slots, and the metadata names only indexes that have a file.                     *)
TypeOK ==
  /\ DOMAIN rows \subseteq Rids /\ DOMAIN given = DOMAIN rows
  /\ \A r \in DOMAIN rows : DOMAIN rows[r] = Fields
  /\ \A i \in 1 .. Len(indexes) : \A e \in indexes[i].entries : e[2] \in Rids
  /\ \A i \in 1 .. Len(disk_meta) : disk_meta[i] \in files

(* At every moment an index entry points at a row that has this key, also while     *)
(* inserts are undone and updates replace rows: a scan through an index does not    *)
(* meet a slot that is free or has another row.  Suspect slots are excepted: those  *)
(* two statements worked on at once, and those where delete_entry failed, which     *)
(* delete_record and the undo of insert_record pass over.                           *)
EntryHasRow ==
  \A i \in 1 .. Len(indexes) : \A e \in indexes[i].entries :
    e[2] \notin suspect => e[2] \in DOMAIN rows /\ Key(indexes[i], rows[e[2]]) = e[1]

(* Between statements every row is in every index, whatever insert failed in        *)
(* between: a failing index undoes the row and the entries made before it (unless   *)
(* that fails as well, and the slot is suspect).                                    *)
RowHasEntries ==
  Quiet => \A i \in 1 .. Len(indexes) : \A r \in DOMAIN rows \ suspect :
    SkipUniqueNullKey(indexes[i], rows[r]) \/ <<Key(indexes[i], rows[r]), r>> \in indexes[i].entries

(* Between statements two rows agree on the fields of a unique index (insert_record *)
(* asks each, create_index every row) only if two threads inserted them at the same *)
(* time, or the value is the zero of a nullable field, which the code cannot tell   *)
(* from NULL, or a text longer than its field, whose marker is all the index sees,  *)
(* or a slot is suspect (an index could not be asked for the key, say).             *)
UniqueHolds ==
  Quiet => \A i \in 1 .. Len(indexes) : \A r, q \in DOMAIN rows :
    LET same == \A j \in 1 .. Len(indexes[i].fields) :
                  given[r][indexes[i].fields[j]] = given[q][indexes[i].fields[j]]
        zero == \E j \in 1 .. Len(indexes[i].fields) :
                  indexes[i].fields[j] \in Nullable /\ rows[r][indexes[i].fields[j]] = Zero
        long == \E j \in 1 .. Len(indexes[i].fields) :
                  IsLong(indexes[i].fields[j], given[r][indexes[i].fields[j]])
    IN  r # q /\ indexes[i].unique /\ same => zero \/ long \/ {r, q} \subseteq raced \/ {r, q} \cap suspect # {}

(* Between statements every index in use is in the metadata file, and so there after *)
(* a restart, unless create_index failed to write it, or wrote over what another one *)
(* had added since it copied the metadata.                                           *)
MetaComplete ==
  Quiet /\ ~unwritten => \A i \in 1 .. Len(indexes) :
    \E j \in 1 .. Len(disk_meta) : disk_meta[j] = indexes[i].name

(* Rows and indexes agree: entries have their rows at every moment, rows have their  *)
(* entries between statements (insert_record, delete_record, create_index), indexes  *)
(* are in the metadata, and all have the types they should.                          *)
IndexesAgree == TypeOK /\ EntryHasRow /\ RowHasEntries /\ MetaComplete

(* Every field reads as it was written (rounded or cut to fit it), the zero of a     *)
(* nullable field excepted, which reads as NULL, and, after a restart, what was only *)
(* in memory: long texts (and those that got the marker of an older one) and forced  *)
(* NULLs.                                                                            *)
CellsMatch ==
  \A r \in DOMAIN rows \ suspect, f \in Fields :
    \/ Cell(r, rows[r], f) = given[r][f]
    \/ f \in Nullable /\ given[r][f] = Default(f) /\ Cell(r, rows[r], f) = Null
    \/ f \in TextFields /\ \E n \in stale : rows[r][f] = Marker(n)
    \/ r \in aged /\ given[r][f] = Null /\ f \notin Nullable

(* The texts kept in memory are those of rows: failed inserts and replaced rows     *)
(* leave none behind.                                                               *)
NoTextLeaks ==
  suspect = {} => \A n \in DOMAIN overflow_texts :
    \E r \in DOMAIN rows, f \in TextFields : rows[r][f] = Marker(n)

(* Between statements a query reads what was written (RowTuple::cell_at), and no    *)
(* text is kept that no row names.                                                  *)
ReadBack == Quiet => CellsMatch /\ NoTextLeaks

(* The contents are those that were written: they read back, and a unique index has *)
(* kept out what may not be there twice (insert_record, make_record, cell_at).       *)
ContentsRight == ReadBack /\ UniqueHolds

(* The code cannot tell the two values apart: the zero stored for a NULL in a field *)
(* that is not nullable (a default), and a text whose marker is from before a       *)
(* restart, as the numbers start again.                                             *)
LooksSame(r, f, v) ==
  \/ given[r][f] = v
  \/ f \notin Nullable /\ {given[r][f], v} \subseteq {Null, Default(f)}
  \/ f \in TextFields /\ \E n \in stale : rows[r][f] = Marker(n)

GivesUp(t) == th[t].op = "update" /\ th[t].pc = "check" /\ th'[t].pc = "idle"

\* A row has, as far as the key goes, the values that thread t is to insert.
Taken(t, ix) ==
  \E r \in DOMAIN rows : \A j \in 1 .. Len(KeyFields(ix.fields, th[t].data)) :
    LooksSame(r, ix.fields[j], th[t].vals[ix.fields[j]])

\* A suspect slot has left an entry with the key of the row that thread t is to insert.
LeftBehind(t, ix) ==
  \E e \in ix.entries : e[2] \in suspect /\ e[1] = Key(ix, th[t].data)

(* An UPDATE that has deleted a row and cannot insert the new one has lost it.  That *)
(* happens for want of a slot, when the record file fails, or to a unique index that *)
(* has the new key: from another row that looks the same, or from a suspect slot,    *)
(* where a delete_entry that failed may even have left it for the row itself.  It    *)
(* never happens to what the row, or a statement that failed, has left in an index   *)
(* when no such failure went before.  (The new row may also be taken back again,     *)
(* when an index fails to take its entry: UndoIndex.)                                *)
UpdateKeepsRow ==
  [][\A t \in Threads : GivesUp(t) =>
       \/ FreeSlots = {} \/ faults' # faults
       \/ \E i \in 1 .. Len(indexes) :
            indexes[i].unique /\ (Taken(t, indexes[i]) \/ LeftBehind(t, indexes[i]))]_vars
==============================================================================
