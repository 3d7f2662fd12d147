------------------------------- MODULE Catalog -------------------------------
(***************************************************************************)
(* The tables and views of a database: Db (storage/db/db.cpp), the files   *)
(* of a table and their metadata (Table::create, open and destroy,         *)
(* TableMeta, FieldMeta, IndexMeta), views that stand for a table or are   *)
(* filled from a SELECT (create_view_executor.cpp, materialize_select.cpp) *)
(* and the start of the server (DefaultHandler, init.cpp), which opens     *)
(* every metadata file and replays the log.                                *)
(*                                                                         *)
(* Two sessions run statements step by step; the process may be killed     *)
(* between any two steps.  A row is a value with the table it was made     *)
(* for; a condition is the set of values it accepts.                       *)
(***************************************************************************)
EXTENDS Integers, Sequences, FiniteSets, SequencesExt

CONSTANTS
  Names,        \* names of tables and views
  Sessions,
  Values,       \* values of rows
  Slots,        \* bound: slots of a table, 1 .. n
  TrxFields,    \* the fields a transaction adds to a table: sequence of [name, type, len]
  Scripts,      \* bound: the statements of each session
  Restarts,     \* bound: how often the server stops
  FaultBound,   \* bound: I/O errors
  None

ASSUME CatalogAssumption ==
  /\ Slots \subseteq Nat /\ Restarts \in Nat /\ FaultBound \in Nat
  /\ \A s \in Scripts : DOMAIN s = Sessions

VARIABLES
  files,     \* on disk: [meta, tmp, data, idx, inc] of a name; meta and tmp are None, Empty or what was written
  disk,      \* rows in the data file
  rows,      \* rows in the buffer pool
  tables,    \* opened_tables_: the object, 0 for none
  alias,     \* view_aliases_ and view_conditions_: None or [base, cond]
  readonly,  \* read_only_views_
  mview,     \* materialized_view_selects_: None or [from, cond]
  nextId,    \* next_table_id_
  objs,      \* Table objects: [name, meta, idx, alive, made, known], idx being the indexes in use; made
             \* and known are what CREATE TABLE asked for and the indexes whose CREATE has succeeded
  log,       \* the commit log: [id, slot, row]
  ses,       \* the sessions: [pc, st, tab, src, stack, new, hand, quiet]; new is a metadata to be
             \* written, hand holds log records to be written
  todo,      \* their statements to come
  up,        \* "up", "starting", "recovering", or how it failed: "bad file", "bad log", "freed"
  left,      \* restarts and faults that may still happen
  hist       \* history: [blame, acked, unsure, def, flat, answer, early, twins]

memory == <<tables, alias, readonly, mview, nextId, objs>>
store == <<files, disk, rows, log>>
vars == <<memory, store, ses, todo, up, left, hist>>

NoRows == [s \in Slots |-> None]
NoFile == [meta |-> None, tmp |-> None, data |-> FALSE, idx |-> {}, inc |-> 0]
Idle == [pc |-> "idle", st |-> None, tab |-> 0, src |-> 0, stack |-> <<>>, new |-> None, hand |-> <<>>, quiet |-> TRUE]

-----------------------------------------------------------------------------
(* Metadata and its JSON form.  attr_type_to_string gives every type a name. *)

TypeNames == <<"undefined", "chars", "ints", "floats", "dates", "booleans", "texts", "nulls">>
TypeToString(type) == TypeNames[type + 1]
TypeFromString(name) == IF \E i \in 1 .. Len(TypeNames) : TypeNames[i] = name
                        THEN (CHOOSE i \in 1 .. Len(TypeNames) : TypeNames[i] = name) - 1 ELSE 0

(* FieldMeta::init *)
ValidField(f) == f.type # 0 /\ f.offset >= 0 /\ f.len > 0

FieldToJson(f) == [name |-> f.name, type |-> TypeToString(f.type), offset |-> f.offset, len |-> f.len,
                   visible |-> f.visible, nullable |-> f.nullable]

FieldFromJson(j) == [name |-> j.name, type |-> TypeFromString(j.type), offset |-> j.offset, len |-> j.len,
                     visible |-> j.visible, nullable |-> j.nullable = TRUE]

(* the names of an index's fields are kept in one string *)
JoinNames(names) == FoldLeft(LAMBDA s, n : IF s = <<>> THEN <<n>> ELSE s \o <<",", n>>, <<>>, names)
SplitNames(s) == SelectSeq(s, LAMBDA n : n # ",")

IndexToJson(x) == [name |-> x.name, fields |-> JoinNames(x.fields), unique |-> IF x.unique THEN TRUE ELSE None]
IndexFromJson(j) == [name |-> j.name, fields |-> SplitNames(j.fields), unique |-> j.unique = TRUE]

(* TableMeta::init: the transaction's fields, hidden, and then the columns, one after the other *)
Offsets(attrs) == [i \in 1 .. Len(attrs) |-> FoldLeft(LAMBDA n, a : n + a.len, 0, SubSeq(attrs, 1, i - 1))]

MetaInit(id, attrs) ==
  LET all == TrxFields \o attrs
      sys == Len(TrxFields)
      offs == Offsets(all)
  IN  [id |-> id, indexes |-> <<>>,
       fields |-> [i \in 1 .. Len(all) |->
                     [name |-> all[i].name, type |-> all[i].type, offset |-> offs[i], len |-> all[i].len,
                      visible |-> i > sys, nullable |-> IF i > sys THEN all[i].nullable ELSE FALSE]]]

ValidMeta(m) == Len(m.fields) > Len(TrxFields) /\ \A i \in 1 .. Len(m.fields) : ValidField(m.fields[i])

Serialize(m) == [id |-> m.id, fields |-> [i \in 1 .. Len(m.fields) |-> FieldToJson(m.fields[i])],
                 indexes |-> [i \in 1 .. Len(m.indexes) |-> IndexToJson(m.indexes[i])]]

(* fields are sorted by offset *)
Deserialize(j) ==
  LET fs == [i \in 1 .. Len(j.fields) |-> FieldFromJson(j.fields[i])]
  IN  [id |-> j.id, fields |-> SortSeq(fs, LAMBDA f, g : f.offset < g.offset),
       indexes |-> [i \in 1 .. Len(j.indexes) |-> IndexFromJson(j.indexes[i])]]

IndexNames(m) == {m.indexes[k].name : k \in 1 .. Len(m.indexes)}

(* a file that was made and not written *)
Empty == [size |-> 0]
Readable(j) == j # Empty

-----------------------------------------------------------------------------
(* Db::find_table, by name and by number *)

Find(n) == IF tables[n] # 0 THEN n
           ELSE IF alias[n] # None /\ tables[alias[n].base] # 0 THEN alias[n].base ELSE None

FindId(tabs, id) ==
  LET found == {n \in Names : tabs[n] # 0 /\ objs[tabs[n]].meta.id = id}
  IN  IF found = {} THEN None ELSE CHOOSE n \in found : TRUE

Taken(n) == tables[n] # 0 \/ alias[n] # None

(* rows as a bag: how many of each value *)
Content(r, cond) == [v \in Values |-> IF v \in cond THEN Cardinality({s \in Slots : r[s] # None /\ r[s].v = v}) ELSE 0]
FreeSlot(r) == CHOOSE s \in Slots : r[s] = None /\ \A t \in Slots : r[t] = None => s <= t
Full(r) == \A s \in Slots : r[s] # None

(* values inserted one by one, for object i *)
Fill(r, vs, i) == FoldLeft(LAMBDA acc, v : IF Full(acc) THEN acc ELSE [acc EXCEPT ![FreeSlot(acc)] = [v |-> v, inc |-> i]],
                           r, vs)
Beginnings(vs) == {SubSeq(vs, 1, k) : k \in 0 .. Len(vs)}
ScanOf(r, cond) == LET used == SetToSortSeq({s \in Slots : r[s] # None /\ r[s].v \in cond}, <)
                   IN  [i \in 1 .. Len(used) |-> r[used[i]].v]

(* what a SELECT of n reads once it is resolved: view conditions are added to it *)
ViewCond(n) == IF alias[n] = None THEN Values ELSE alias[n].cond
Selected(n, cond) == ScanOf(rows[Find(n)], cond \cap ViewCond(n))

-----------------------------------------------------------------------------
(* Sessions.  Another session's change makes a SELECT under way a disturbed one. *)

Step(s, r) == ses' = [t \in Sessions |-> IF t = s THEN r ELSE [ses[t] EXCEPT !.quiet = FALSE]]
StepQuiet(s, r) == ses' = [ses EXCEPT ![s] = r]
Done(s) == Step(s, Idle)

TakeStatement(s) ==
  /\ up = "up" /\ ses[s].pc = "idle" /\ todo[s] # <<>>
  /\ todo' = [todo EXCEPT ![s] = Tail(@)]
  /\ StepQuiet(s, [Idle EXCEPT !.pc = Head(todo[s]).op, !.st = Head(todo[s])])
  /\ UNCHANGED <<memory, store, up, left, hist>>

At(s, pc) == up = "up" /\ ses[s].pc = pc
Blame(why) == [hist EXCEPT !.blame = @ \cup {why}]
Fault == left.faults > 0 /\ left' = [left EXCEPT !.faults = @ - 1]

(* a step that meets a deleted Table object *)
Dangling(s) == \E i \in {ses[s].tab, ses[s].src} \ {0} : ~objs[i].alive
Touch(s) ==
  /\ up = "up" /\ Dangling(s) /\ ses[s].pc \in {"put", "sync", "fill", "enter", "list", "write", "rename"}
  /\ up' = "freed"
  /\ UNCHANGED <<memory, store, ses, todo, left, hist>>

-----------------------------------------------------------------------------
(* CREATE TABLE, and the table behind a view *)

(* the attributes of a table made from a SELECT: those of the columns of its source *)
OutputAttrs(n) ==
  LET m == objs[tables[Find(n)]].meta
      cols == SubSeq(m.fields, Len(TrxFields) + 1, Len(m.fields))
  IN  [i \in 1 .. Len(cols) |-> [name |-> cols[i].name, type |-> cols[i].type, len |-> cols[i].len, nullable |-> TRUE]]

Attrs(st) == IF st.op = "create" THEN st.attrs ELSE OutputAttrs(st.from)

(* A SELECT that is resolved first refreshes the view it reads. *)
Push(s, steps) == [ses[s] EXCEPT !.pc = "refresh", !.stack = steps]
Doing(s, what) == At(s, "refresh") /\ ses[s].stack # <<>> /\ Head(ses[s].stack).do = what

StartMake(s) ==
  LET st == ses[s].st
  IN  /\ At(s, "make")
      /\ StepQuiet(s, Push(s, (IF st.kind \in {"select", "ctas"} THEN <<[do |-> "refresh", name |-> st.from]>> ELSE <<>>)
                             \o <<[do |-> "make", name |-> st.name]>>))
      /\ UNCHANGED <<memory, store, todo, up, left, hist>>

Making(s) == Doing(s, "make")

(* Db::create_table: the name, and a number that is read and written without a lock *)
TakeNumber(s) ==
  LET st == ses[s].st
      n == st.name
  IN  /\ At(s, "create") \/ (Making(s) /\ Find(st.from) # None)
      /\ IF Taken(n) THEN StepQuiet(s, Idle) /\ UNCHANGED hist
         ELSE /\ StepQuiet(s, [ses[s] EXCEPT !.pc = "number", !.new = MetaInit(nextId, Attrs(st)),
                                             !.src = IF st.op = "create" THEN 0 ELSE tables[Find(st.from)]])
              /\ hist' = IF \E t \in Sessions : ses[t].pc = "number" THEN Blame("shared number") ELSE hist
      /\ UNCHANGED <<store, memory, todo, up, left>>

(* Table::create: the metadata file, which must be new *)
CreateTable(s) ==
  LET n == ses[s].st.name
      meta == ses[s].new
  IN  /\ At(s, "number")
      /\ nextId' = meta.id + 1
      /\ IF files[n].meta # None THEN Done(s) /\ UNCHANGED <<files, objs>>
         ELSE /\ files' = [files EXCEPT ![n].meta = Empty]
              /\ objs' = Append(objs, [name |-> n, meta |-> meta, idx |-> {}, alive |-> TRUE, made |-> meta, known |-> {}])
              /\ Step(s, [ses[s] EXCEPT !.pc = "meta", !.tab = Len(objs) + 1, !.new = None])
      /\ UNCHANGED <<disk, rows, log, tables, alias, readonly, mview, todo, up, left, hist>>

(* a SELECT whose source is gone *)
NoSource(s) ==
  /\ Making(s) /\ Find(ses[s].st.from) = None
  /\ Done(s)
  /\ UNCHANGED <<memory, store, todo, up, left, hist>>

(* columns that cannot be are refused after the file was made *)
RefuseMeta(s) ==
  /\ At(s, "meta") /\ ~ValidMeta(objs[ses[s].tab].meta)
  /\ objs' = [objs EXCEPT ![ses[s].tab].alive = FALSE]
  /\ Done(s) /\ hist' = Blame("refused create")
  /\ UNCHANGED <<store, tables, alias, readonly, mview, nextId, todo, up, left>>

(* the metadata; that it could not be written goes unnoticed *)
WriteMeta(s) ==
  LET i == ses[s].tab
      n == objs[i].name
  IN  /\ At(s, "meta") /\ ValidMeta(objs[i].meta)
      /\ \/ /\ files' = [files EXCEPT ![n].meta = Serialize(objs[i].meta), ![n].inc = i]
            /\ StepQuiet(s, [ses[s] EXCEPT !.pc = "data"])
            /\ UNCHANGED <<objs, left, hist>>
         \/ /\ Fault /\ files' = [files EXCEPT ![n].inc = i] /\ hist' = Blame("unwritten metadata")
            /\ StepQuiet(s, [ses[s] EXCEPT !.pc = "data"]) /\ UNCHANGED objs
         \/ /\ Fault /\ hist' = Blame("failed create")
            /\ objs' = [objs EXCEPT ![i].alive = FALSE]
            /\ Done(s) /\ UNCHANGED files
      /\ UNCHANGED <<disk, rows, log, tables, alias, readonly, mview, nextId, todo, up>>

(* the data file, which must be new too, and then is opened *)
CreateData(s) ==
  LET i == ses[s].tab
      n == objs[i].name
      make == /\ ~files[n].data
              /\ files' = [files EXCEPT ![n].data = TRUE]
              /\ disk' = [disk EXCEPT ![n] = NoRows] /\ rows' = [rows EXCEPT ![n] = NoRows]
      fail == objs' = [objs EXCEPT ![i].alive = FALSE] /\ Done(s)
  IN  /\ At(s, "data")
      /\ \/ make /\ Step(s, [ses[s] EXCEPT !.pc = "publish"]) /\ UNCHANGED <<objs, left, hist>>
         \/ make /\ Fault /\ fail /\ UNCHANGED hist
         \/ /\ IF files[n].data THEN UNCHANGED left ELSE Fault
            /\ fail /\ hist' = Blame("failed create")
            /\ UNCHANGED <<files, disk, rows>>
      /\ UNCHANGED <<log, tables, alias, readonly, mview, nextId, todo, up>>

Publish(s) ==
  LET i == ses[s].tab
      n == objs[i].name
  IN  /\ At(s, "publish")
      /\ tables' = [tables EXCEPT ![n] = i]
      /\ mview' = [mview EXCEPT ![n] = None]
      /\ IF ses[s].st.op = "create" THEN Done(s)
         ELSE Step(s, [ses[s] EXCEPT !.pc = "fill"])
      /\ UNCHANGED <<store, alias, readonly, nextId, objs, todo, up, left, hist>>

-----------------------------------------------------------------------------
(* CREATE INDEX (Table::create_index): its file, the entries of the rows, the list *)
(* of indexes, a temporary metadata file, and its renaming.  What was done stays   *)
(* when a step fails.                                                              *)

CreateIndex(s) ==
  LET st == ses[s].st
      n == Find(st.name)
      x == st.index.name
      i == tables[n]
      make == files' = [files EXCEPT ![n].idx = @ \cup {x}]
  IN  /\ At(s, "index")
      /\ \/ /\ n = None \/ (n # None /\ x \in objs[i].idx \cup files[n].idx)
            /\ StepQuiet(s, Idle) /\ UNCHANGED <<files, left>>
         \/ /\ n # None /\ x \notin objs[i].idx \cup files[n].idx
            /\ \/ make /\ StepQuiet(s, [ses[s] EXCEPT !.pc = "enter", !.tab = i]) /\ UNCHANGED left
               \/ Fault /\ StepQuiet(s, Idle) /\ (make \/ UNCHANGED files)
      /\ UNCHANGED <<disk, rows, log, memory, todo, up, hist>>

(* Whether a row may not be entered, its key being there already, is Table's matter. *)
EnterRows(s) ==
  /\ At(s, "enter") /\ ~Dangling(s)
  /\ \/ StepQuiet(s, [ses[s] EXCEPT !.pc = "list"]) /\ UNCHANGED left
     \/ StepQuiet(s, Idle) /\ Fault
  /\ UNCHANGED <<store, memory, todo, up, hist>>

Listing(t) == ses[t].pc \in {"write", "rename"}

ListIndex(s) ==
  LET i == ses[s].tab
      x == ses[s].st.index
  IN  /\ At(s, "list") /\ ~Dangling(s)
      /\ objs' = [objs EXCEPT ![i].idx = @ \cup {x.name}]
      /\ StepQuiet(s, [ses[s] EXCEPT !.pc = "write", !.new = [objs[i].meta EXCEPT !.indexes = Append(@, x)]])
      /\ hist' = IF \E t \in Sessions : Listing(t) /\ ses[t].tab = i THEN Blame("two indexes") ELSE hist
      /\ UNCHANGED <<store, tables, alias, readonly, mview, nextId, todo, up, left>>

WriteTmp(s) ==
  LET n == objs[ses[s].tab].name
  IN  /\ At(s, "write") /\ ~Dangling(s)
      /\ \/ /\ files' = [files EXCEPT ![n].tmp = Serialize(ses[s].new)]
            /\ StepQuiet(s, [ses[s] EXCEPT !.pc = "rename"]) /\ UNCHANGED left
         \/ Fault /\ StepQuiet(s, Idle) /\ \E part \in {files[n].tmp, Empty} : files' = [files EXCEPT ![n].tmp = part]
      /\ UNCHANGED <<disk, rows, log, memory, todo, up, hist>>

RenameTmp(s) ==
  LET i == ses[s].tab
      n == objs[i].name
  IN  /\ At(s, "rename") /\ ~Dangling(s)
      /\ \/ /\ files[n].tmp # None /\ files' = [files EXCEPT ![n].meta = files[n].tmp, ![n].tmp = None]
            /\ objs' = [objs EXCEPT ![i].meta = ses[s].new, ![i].known = @ \cup {ses[s].st.index.name}]
            /\ UNCHANGED left
         \/ (IF files[n].tmp = None THEN UNCHANGED left ELSE Fault) /\ UNCHANGED <<files, objs>>
      /\ StepQuiet(s, Idle)
      /\ UNCHANGED <<disk, rows, log, tables, alias, readonly, mview, nextId, todo, up, hist>>

-----------------------------------------------------------------------------
(* Views *)

(* CreateViewExecutor::execute: which of the ways a SELECT is kept.  Its shape is "star" *)
(* or "fields" of one table, "exprs" over one table, the "self join" with two sums, or   *)
(* "other"; "named" when the view names its columns.                                     *)
ViewKind(st) ==
  CASE ~st.named /\ st.shape = "star" -> "alias"
    [] st.named /\ st.shape = "fields" -> "alias"
    [] st.shape \in {"fields", "exprs"} /\ st.cond = Values -> "expr"
    [] st.shape = "self join" -> "agg"
    [] OTHER -> "select"

CreateView(s) ==
  LET kind == ViewKind(ses[s].st)
  IN  /\ At(s, "view")
      /\ StepQuiet(s, [ses[s] EXCEPT !.pc = IF kind = "alias" THEN "alias" ELSE "make", !.st.kind = kind])
      /\ UNCHANGED <<memory, store, todo, up, left, hist>>

MakesTable(t, n) == \/ ses[t].tab # 0 /\ objs[ses[t].tab].name = n
                    \/ ses[t].pc = "number" /\ ses[t].st.name = n

(* Db::create_view_alias: another name for the table behind it *)
CreateViewAlias(s) ==
  LET st == ses[s].st
      n == st.name
      base == Find(st.from)
      loses == alias[st.from] # None /\ ViewCond(st.from) # Values
  IN  /\ At(s, "alias")
      /\ IF Taken(n) \/ base = None THEN UNCHANGED <<alias, readonly, mview, hist>>
         ELSE /\ alias' = [alias EXCEPT ![n] = [base |-> base, cond |-> st.cond]]
              /\ readonly' = readonly \ {n}
              /\ mview' = [mview EXCEPT ![n] = None]
              /\ hist' = [hist EXCEPT !.def[n] = [from |-> IF loses THEN st.from ELSE base, cond |-> st.cond],
                                      !.flat = IF loses THEN @ \cup {n} ELSE @ \ {n},
                                      !.twins = IF \E t \in Sessions : MakesTable(t, n) THEN @ \cup {n} ELSE @]
      /\ Done(s)
      /\ UNCHANGED <<store, tables, nextId, objs, todo, up, left>>

(* The other views are tables filled once (materialize_select_as_table, and *)
(* materialize_simple_expression_view, which reads the table without the    *)
(* conditions of a view in between).  CREATE TABLE AS SELECT stops here.    *)
FillTable(s) ==
  LET st == ses[s].st
      i == ses[s].tab
      n == st.name
      src == objs[ses[s].src].name
      vs == CASE st.kind = "expr" -> ScanOf(rows[src], Values)
              [] st.kind = "agg" -> <<CHOOSE v \in Values : TRUE>>
              [] OTHER -> ScanOf(rows[src], st.cond \cap ViewCond(st.from))
  IN  /\ At(s, "fill") /\ ~Dangling(s)
      /\ \/ /\ rows' = [rows EXCEPT ![n] = Fill(@, vs, i)]
            /\ Step(s, IF st.kind = "ctas" THEN Idle ELSE [ses[s] EXCEPT !.pc = "register"])
            /\ UNCHANGED left
         \/ /\ Fault                \* the table stays, with what was filled in
            /\ \E part \in Beginnings(vs) : rows' = [rows EXCEPT ![n] = Fill(@, part, i)]
            /\ Done(s)
      /\ UNCHANGED <<files, disk, log, memory, todo, up, hist>>

(* A view of the fast aggregation is not registered: it is never filled again. *)
RegisterView(s) ==
  LET st == ses[s].st
      n == st.name
  IN  /\ At(s, "register")
      /\ readonly' = readonly \cup {n}
      /\ mview' = [mview EXCEPT ![n] = IF st.kind = "agg" THEN @ ELSE [from |-> st.from, cond |-> st.cond]]
      /\ hist' = [hist EXCEPT !.def[n] = IF st.kind = "agg" THEN None ELSE [from |-> st.from, cond |-> st.cond]]
      /\ Done(s)
      /\ UNCHANGED <<store, tables, alias, nextId, objs, todo, up, left>>

-----------------------------------------------------------------------------
(* DROP TABLE, also for views *)

Without(f, n) == [f EXCEPT ![n] = None]

DropView(s) ==
  LET n == ses[s].st.name
  IN  /\ At(s, "drop") /\ alias[n] # None
      /\ alias' = Without(alias, n) /\ readonly' = readonly \ {n} /\ mview' = Without(mview, n)
      /\ hist' = [hist EXCEPT !.def[n] = None, !.flat = @ \ {n}]
      /\ Done(s)
      /\ UNCHANGED <<store, tables, nextId, objs, todo, up, left>>

DropTable(s) ==
  LET n == ses[s].st.name
  IN  /\ At(s, "drop") /\ alias[n] = None
      /\ IF tables[n] = 0 THEN Done(s) /\ UNCHANGED <<tables, readonly, mview, hist>>
         ELSE /\ tables' = [tables EXCEPT ![n] = 0]
              /\ readonly' = readonly \ {n} /\ mview' = Without(mview, n)
              /\ hist' = [hist EXCEPT !.def[n] = None]
              /\ Step(s, [ses[s] EXCEPT !.pc = "destroy", !.tab = tables[n]])
      /\ UNCHANGED <<store, alias, nextId, objs, todo, up, left>>

(* Table::destroy: pages are written first; if that fails all files stay.  Then the files *)
(* go: those of the indexes in use, the data, the metadata.  One that cannot be unlinked   *)
(* is left behind.                                                                         *)
DestroyIndexes(s) ==
  LET i == ses[s].tab
      n == objs[i].name
      gone == files[n].idx \ objs[i].idx
  IN  /\ At(s, "destroy")
      /\ \/ /\ Fault /\ hist' = Blame("failed drop")
            /\ objs' = [objs EXCEPT ![i].alive = FALSE]
            /\ Done(s) /\ UNCHANGED <<files, disk>>
         \/ /\ disk' = [disk EXCEPT ![n] = rows[n]]
            /\ StepQuiet(s, [ses[s] EXCEPT !.pc = "unlink data"])
            /\ \/ files' = [files EXCEPT ![n].idx = gone] /\ UNCHANGED left
               \/ Fault /\ \E x \in objs[i].idx : files' = [files EXCEPT ![n].idx = @ \ (objs[i].idx \ {x})]
            /\ UNCHANGED <<objs, hist>>
      /\ UNCHANGED <<rows, log, tables, alias, readonly, mview, nextId, todo, up>>

DestroyData(s) ==
  LET n == objs[ses[s].tab].name
  IN  /\ At(s, "unlink data")
      /\ \/ /\ files' = [files EXCEPT ![n].data = FALSE]
            /\ disk' = [disk EXCEPT ![n] = NoRows]
            /\ UNCHANGED <<left, hist>>
         \/ Fault /\ hist' = Blame("failed unlink") /\ UNCHANGED <<files, disk>>
      /\ rows' = [rows EXCEPT ![n] = NoRows]
      /\ Step(s, [ses[s] EXCEPT !.pc = "unlink"])
      /\ UNCHANGED <<log, memory, todo, up>>

\* Mutant: the metadata file is left
DestroyMeta_Keeps(s) ==
  LET i == ses[s].tab
  IN  /\ At(s, "unlink")
      /\ objs' = [objs EXCEPT ![i].alive = FALSE]
      /\ StepQuiet(s, [ses[s] EXCEPT !.pc = "aliases", !.tab = 0])
      /\ UNCHANGED <<store, tables, alias, readonly, mview, nextId, todo, up, left, hist>>

DestroyMeta(s) ==
  LET i == ses[s].tab
      n == objs[i].name
  IN  /\ At(s, "unlink")
      /\ objs' = [objs EXCEPT ![i].alive = FALSE]
      /\ \/ /\ files' = [files EXCEPT ![n].meta = None, ![n].inc = 0]
            /\ hist' = IF \E k \in 1 .. Len(log) : log[k].id = objs[i].meta.id THEN Blame("dropped log") ELSE hist
            /\ UNCHANGED left
         \/ Fault /\ hist' = Blame("failed unlink") /\ UNCHANGED files
      /\ StepQuiet(s, [ses[s] EXCEPT !.pc = "aliases", !.tab = 0])
      /\ UNCHANGED <<disk, rows, log, tables, alias, readonly, mview, nextId, todo, up>>

\* Mutant: views of the table are kept
DropAliases_Keeps(s) == At(s, "aliases") /\ Done(s) /\ UNCHANGED <<store, memory, todo, up, left, hist>>

(* its views go with it *)
DropAliases(s) ==
  LET of == {v \in Names : alias[v] # None /\ alias[v].base = ses[s].st.name}
  IN  /\ At(s, "aliases")
      /\ alias' = [v \in Names |-> IF v \in of THEN None ELSE alias[v]]
      /\ readonly' = readonly \ of
      /\ mview' = [v \in Names |-> IF v \in of THEN None ELSE mview[v]]
      /\ hist' = [hist EXCEPT !.def = [v \in Names |-> IF v \in of THEN None ELSE @[v]], !.flat = @ \ of]
      /\ Done(s)
      /\ UNCHANGED <<store, tables, nextId, objs, todo, up, left>>

-----------------------------------------------------------------------------
(* INSERT: through a view into the table behind it; not into a filled view *)

ResolveInsert(s) ==
  LET n == ses[s].st.name
  IN  /\ At(s, "insert")
      /\ IF Find(n) = None \/ n \in readonly THEN StepQuiet(s, Idle)
         ELSE StepQuiet(s, [ses[s] EXCEPT !.pc = "put", !.tab = tables[Find(n)]])
      /\ hist' = IF \E t \in Sessions : ses[t].pc \in {"fill", "register"} /\ objs[ses[t].tab].name = Find(n)
                 THEN [hist EXCEPT !.early = @ \cup {tables[Find(n)]}] ELSE hist
      /\ UNCHANGED <<memory, store, todo, up, left>>

(* The row is in its page, its record in the log buffer; then the commit record follows *)
(* and both are written, and the INSERT is answered.                                    *)
PutRow(s) ==
  LET i == ses[s].tab
      n == objs[i].name
      slot == FreeSlot(rows[n])
      row == [v |-> ses[s].st.value, inc |-> i]
  IN  /\ At(s, "put") /\ ~Dangling(s)
      /\ IF Full(rows[n]) THEN Done(s) /\ UNCHANGED rows
         ELSE /\ rows' = [rows EXCEPT ![n][slot] = row]
              /\ Step(s, [ses[s] EXCEPT !.pc = "sync", !.hand = <<[id |-> objs[i].meta.id, slot |-> slot, row |-> row]>>])
      /\ UNCHANGED <<files, disk, log, memory, todo, up, left, hist>>

AckOf(e) == [name |-> objs[e.row.inc].name, inc |-> e.row.inc, slot |-> e.slot]
Acks(hand) == {AckOf(hand[k]) : k \in 1 .. Len(hand)}

SyncLog(s) ==
  LET hand == ses[s].hand
      late == \E k \in 1 .. Len(hand) : files[objs[hand[k].row.inc].name].inc # hand[k].row.inc
  IN  /\ At(s, "sync")
      /\ log' = log \o hand
      /\ hist' = [hist EXCEPT !.acked = @ \cup Acks(hand), !.unsure = @ \ Acks(hand),
                              !.blame = IF late THEN @ \cup {"dropped log"} ELSE @]
      /\ StepQuiet(s, Idle)
      /\ UNCHANGED <<files, disk, rows, memory, todo, up, left>>

(* Another session that writes the log has taken the records from the buffer, and this one *)
(* does not wait for it; or they could not be written, which goes unnoticed.               *)
LeaveLog(s) ==
  LET hand == ses[s].hand
  IN  /\ At(s, "sync")
      /\ \/ /\ \E t \in Sessions \ {s} : At(t, "sync") /\ ses' = [ses EXCEPT ![s] = Idle, ![t].hand = @ \o hand]
            /\ UNCHANGED left
         \/ Fault /\ StepQuiet(s, Idle)
      /\ hist' = [hist EXCEPT !.acked = @ \cup Acks(hand), !.unsure = @ \cup Acks(hand)]
      /\ UNCHANGED <<store, memory, todo, up>>

-----------------------------------------------------------------------------
(* SELECT: every filled view it names is emptied and filled again, those it *)
(* depends on before it, unless this thread is already at it.               *)

StartSelect(s) ==
  /\ At(s, "select")
  /\ StepQuiet(s, Push(s, <<[do |-> "refresh", name |-> ses[s].st.name], [do |-> "read", name |-> ses[s].st.name]>>))
  /\ UNCHANGED <<memory, store, todo, up, left, hist>>

Refreshing(s) == {ses[s].stack[k].name : k \in {k \in 1 .. Len(ses[s].stack) : ses[s].stack[k].do = "populate"}}
\* Mutant: the rows of the last time are not cleared
Refresh_Keeps(s) ==
  LET n == Head(ses[s].stack).name
      rest == Tail(ses[s].stack)
  IN  /\ Doing(s, "refresh")
      /\ IF mview[n] = None \/ n \in Refreshing(s) THEN StepQuiet(s, Push(s, rest))
         ELSE IF Find(n) = None THEN StepQuiet(s, Idle)
         ELSE Step(s, Push(s, <<[do |-> "refresh", name |-> mview[n].from],
                                [do |-> "populate", name |-> n, select |-> mview[n]]>> \o rest))
      /\ UNCHANGED <<store, memory, todo, up, left, hist>>

(* the first k rows are deleted *)
CutTo(r, k) == [t \in Slots |-> IF Cardinality({u \in Slots : r[u] # None /\ u <= t}) <= k THEN None ELSE r[t]]

(* refresh_materialized_view; a row that cannot be deleted ends the SELECT, with those before it gone *)
Refresh(s) ==
  LET n == Head(ses[s].stack).name
      rest == Tail(ses[s].stack)
  IN  /\ Doing(s, "refresh")
      /\ IF mview[n] = None \/ n \in Refreshing(s) THEN StepQuiet(s, Push(s, rest)) /\ UNCHANGED <<rows, left>>
         ELSE IF Find(n) = None THEN StepQuiet(s, Idle) /\ UNCHANGED <<rows, left>>
         ELSE \/ /\ rows' = [rows EXCEPT ![Find(n)] = NoRows]
                 /\ Step(s, Push(s, <<[do |-> "refresh", name |-> mview[n].from],
                                      [do |-> "populate", name |-> n, select |-> mview[n]]>> \o rest))
                 /\ UNCHANGED left
              \/ Fault /\ Done(s) /\ rows' = [rows EXCEPT ![Find(n)] = CutTo(@, 1)]
      /\ UNCHANGED <<files, disk, log, memory, todo, up, hist>>

(* populate_existing_table_from_select; a row that cannot be inserted ends the SELECT *)
Populate(s) ==
  LET n == Head(ses[s].stack).name
      sel == Head(ses[s].stack).select
      to == Find(n)
  IN  /\ Doing(s, "populate")
      /\ IF to = None \/ Find(sel.from) = None THEN StepQuiet(s, Idle) /\ UNCHANGED <<rows, left>>
         ELSE LET vs == Selected(sel.from, sel.cond)
              IN  \/ /\ rows' = [rows EXCEPT ![to] = Fill(@, vs, tables[to])]
                     /\ Step(s, Push(s, Tail(ses[s].stack))) /\ UNCHANGED left
                  \/ /\ Fault /\ Done(s)
                     /\ \E part \in Beginnings(vs) : rows' = [rows EXCEPT ![to] = Fill(@, part, tables[to])]
      /\ UNCHANGED <<files, disk, log, memory, todo, up, hist>>

(* what the definition of a view says it contains *)
Meaning(n) ==
  LET f[d \in 0 .. Cardinality(Names), m \in Names] ==
        IF d = 0 THEN [v \in Values |-> 0]
        ELSE IF hist.def[m] # None
             THEN [v \in Values |-> IF v \in hist.def[m].cond THEN f[d - 1, hist.def[m].from][v] ELSE 0]
        ELSE IF Find(m) = None THEN [v \in Values |-> 0] ELSE Content(rows[Find(m)], Values)
  IN  f[Cardinality(Names), n]

(* the views it is defined on, and itself *)
Chain(n) ==
  LET f[d \in 0 .. Cardinality(Names), m \in Names] ==
        IF d = 0 \/ hist.def[m] = None THEN {m} ELSE {m} \cup f[d - 1, hist.def[m].from]
  IN  f[Cardinality(Names), n]

Read(s) ==
  LET n == Head(ses[s].stack).name
  IN  /\ Doing(s, "read")
      /\ hist' = IF Find(n) = None \/ ~ses[s].quiet THEN hist
                 ELSE [hist EXCEPT !.answer = [views |-> Chain(n), got |-> Content(rows[Find(n)], ViewCond(n)), want |-> Meaning(n)]]
      /\ StepQuiet(s, Idle)
      /\ UNCHANGED <<memory, store, todo, up, left>>

-----------------------------------------------------------------------------
(* The end of the server and its next start *)

Forget == /\ alias' = [n \in Names |-> None] /\ readonly' = {} /\ mview' = [n \in Names |-> None]
          /\ tables' = [n \in Names |-> 0] /\ nextId' = 0
          /\ objs' = [i \in 1 .. Len(objs) |-> [objs[i] EXCEPT !.alive = FALSE]]
          /\ ses' = [s \in Sessions |-> Idle]

InFiles(s) == ses[s].pc \in {"meta", "data", "unlink data", "unlink"}

(* DefaultHandler::destroy: every table is written *)
Stop ==
  /\ up = "up" /\ left.restarts > 0 /\ \A s \in Sessions : ses[s].pc = "idle"
  /\ disk' = [n \in Names |-> IF tables[n] # 0 THEN rows[n] ELSE disk[n]]
  /\ up' = "starting" /\ left' = [left EXCEPT !.restarts = @ - 1]
  /\ Forget
  /\ hist' = [hist EXCEPT !.def = [n \in Names |-> None], !.flat = {}, !.answer = None]
  /\ UNCHANGED <<files, rows, log, todo>>

(* killed: a page may have been written, or not *)
Crash ==
  /\ up = "up" /\ left.restarts > 0
  /\ \E wrote \in SUBSET Names : disk' = [n \in Names |-> IF n \in wrote THEN rows[n] ELSE disk[n]]
  /\ up' = "starting" /\ left' = [left EXCEPT !.restarts = @ - 1]
  /\ Forget
  /\ hist' = [hist EXCEPT !.def = [n \in Names |-> None], !.flat = {}, !.answer = None,
                          !.blame = IF \E s \in Sessions : InFiles(s) THEN @ \cup {"cut off"} ELSE @]
  /\ UNCHANGED <<files, rows, log, todo>>

(* the largest number in use, plus one *)
NextId(metas) == FoldSet(LAMBDA m, k : IF m.id >= k THEN m.id + 1 ELSE k, 0, metas)

(* Db::open_all_tables: one file that cannot be read, or whose data or index is missing, and *)
(* the database is not opened *)
OpenAllTables ==
  LET found == {n \in Names : files[n].meta # None}
  IN  /\ up = "starting"
      /\ IF \E n \in found : ~Readable(files[n].meta) \/ ~files[n].data \/ ~(IndexNames(Deserialize(files[n].meta)) \subseteq files[n].idx)
         THEN up' = "bad file" /\ UNCHANGED <<objs, tables, nextId, rows>>
         ELSE /\ objs' = [i \in 1 .. Len(objs) |->
                            IF \E n \in found : files[n].inc = i
                            THEN LET meta == Deserialize(files[objs[i].name].meta)
                                 IN  [objs[i] EXCEPT !.alive = TRUE, !.meta = meta, !.idx = IndexNames(meta)]
                            ELSE objs[i]]
              /\ tables' = [n \in Names |-> IF n \in found THEN files[n].inc ELSE 0]
              /\ nextId' = NextId({Deserialize(files[n].meta) : n \in found})
              /\ rows' = disk /\ up' = "recovering"
      /\ UNCHANGED <<files, disk, log, alias, readonly, mview, ses, todo, left, hist>>

(* Db::recover: every record of the log is redone in the table of its number *)
Recover ==
  /\ up = "recovering"
  /\ IF \E k \in 1 .. Len(log) : FindId(tables, log[k].id) = None
     THEN up' = "bad log" /\ UNCHANGED rows
     ELSE /\ up' = "up"
          /\ rows' = FoldLeft(LAMBDA r, e : [r EXCEPT ![FindId(tables, e.id)][e.slot] = e.row], rows, log)
  /\ UNCHANGED <<files, disk, log, memory, ses, todo, left, hist>>

-----------------------------------------------------------------------------
Init ==
  /\ files = [n \in Names |-> NoFile] /\ disk = [n \in Names |-> NoRows] /\ rows = [n \in Names |-> NoRows]
  /\ tables = [n \in Names |-> 0] /\ alias = [n \in Names |-> None] /\ readonly = {}
  /\ mview = [n \in Names |-> None] /\ nextId = 0 /\ objs = <<>> /\ log = <<>>
  /\ ses = [s \in Sessions |-> Idle] /\ todo \in Scripts /\ up = "up"
  /\ left = [restarts |-> Restarts, faults |-> FaultBound]
  /\ hist = [blame |-> {}, acked |-> {}, unsure |-> {}, def |-> [n \in Names |-> None], flat |-> {}, answer |-> None,
            early |-> {}, twins |-> {}]

Statement(s) ==
  \/ TakeStatement(s) \/ Touch(s)
  \/ StartMake(s) \/ TakeNumber(s) \/ NoSource(s) \/ CreateTable(s) \/ RefuseMeta(s) \/ WriteMeta(s) \/ CreateData(s) \/ Publish(s)
  \/ CreateIndex(s) \/ EnterRows(s) \/ ListIndex(s) \/ WriteTmp(s) \/ RenameTmp(s)
  \/ CreateView(s) \/ CreateViewAlias(s) \/ FillTable(s) \/ RegisterView(s)
  \/ DropView(s) \/ DropTable(s) \/ DestroyIndexes(s) \/ DestroyData(s) \/ DestroyMeta(s) \/ DropAliases(s)
  \/ ResolveInsert(s) \/ PutRow(s) \/ SyncLog(s) \/ LeaveLog(s)
  \/ StartSelect(s) \/ Refresh(s) \/ Populate(s) \/ Read(s)

Next == (\E s \in Sessions : Statement(s)) \/ Stop \/ Crash \/ OpenAllTables \/ Recover

Spec == Init /\ [][Next]_vars

-----------------------------------------------------------------------------
(* Properties *)

Running == up = "up"
Dropping(n) == \E s \in Sessions : ses[s].pc \in {"destroy", "unlink data", "unlink", "aliases"} /\ ses[s].st.name = n

(* An open table has its object and its files, under one name and one number, unless *)
(* two CREATE TABLE took their number at once; what is in the metadata file is what  *)
(* is in memory, unless it could not be written (CREATE TABLE goes on), or two       *)
(* CREATE INDEX wrote it at once; a filled view is a table.                          *)
TypeOK ==
  /\ up \in {"up", "starting", "recovering", "bad file", "bad log", "freed"}
  /\ Running => \A n \in Names : tables[n] # 0 =>
       /\ objs[tables[n]].name = n /\ objs[tables[n]].alive
       /\ objs[tables[n]].meta.id < nextId \/ "shared number" \in hist.blame
       /\ files[n].data /\ files[n].inc = tables[n]
       /\ files[n].meta = Serialize(objs[tables[n]].meta) \/ hist.blame \cap {"unwritten metadata", "two indexes"} # {}
  /\ Running => \A n, m \in Names : n # m /\ tables[n] # 0 /\ tables[m] # 0 =>
       objs[tables[n]].meta.id # objs[tables[m]].meta.id \/ "shared number" \in hist.blame

(* A name is a table or a view, unless one of each was created at the same time, and *)
(* a view leads to an open table, unless that table is just being dropped or its     *)
(* files could not be written when it was: no statement resolves to nothing.         *)
NamesLead ==
  Running => \A v \in Names : alias[v] # None =>
    /\ tables[v] = 0 \/ v \in hist.twins
    /\ tables[alias[v].base] # 0 \/ Dropping(alias[v].base) \/ "failed drop" \in hist.blame \/ hist.twins # {}

(* Tables, files and views agree while the server runs (Db::create_table, drop_table, *)
(* create_view_alias), one step of any statement after the other.                     *)
ViewsResolve == TypeOK /\ NamesLead

(* The server starts again, however it ended, whatever statements came before and     *)
(* whichever file operation failed.  The exceptions are the ones the code has: a kill *)
(* between the file operations of CREATE TABLE or DROP, a CREATE TABLE refused or     *)
(* failed after it made its file, or whose metadata was not written, a metadata file  *)
(* that DROP could not unlink, the temporary file of two CREATE INDEX at once (one    *)
(* renames what the other has not written), and a dropped table that the log still    *)
(* speaks of.  No kill and no failure in a single CREATE INDEX stops the next start.  *)
Starts ==
  /\ up = "bad file" => hist.blame \cap {"cut off", "refused create", "failed create", "unwritten metadata",
                                         "failed unlink", "two indexes"} # {}
  /\ up = "bad log" => "dropped log" \in hist.blame

(* The schema of a table is the one it was created with, and it has the indexes whose *)
(* CREATE has succeeded (unless two wrote the metadata at once), and no other than    *)
(* those there are files of, whatever was written and read back and wherever a kill   *)
(* came.                                                                              *)
SchemaSurvives ==
  Running => \A n \in Names : tables[n] # 0 =>
    LET obj == objs[tables[n]]
    IN  /\ obj.meta.fields = obj.made.fields /\ obj.meta.id = obj.made.id
        /\ obj.known \subseteq IndexNames(obj.meta) \/ "two indexes" \in hist.blame
        /\ IndexNames(obj.meta) \subseteq obj.idx /\ obj.idx \subseteq files[n].idx

(* A table holds rows of its own only, also after the log of earlier tables was       *)
(* replayed, and every row whose INSERT was answered is still there, unless its log    *)
(* record was left to another session or not written.  The exceptions are a data file *)
(* DROP could not unlink, which a later table takes over, and two tables of one number *)
(* in the log.                                                                        *)
RowsStay ==
  Running /\ hist.blame \cap {"failed unlink", "shared number"} = {} => \A n \in Names : tables[n] # 0 =>
    /\ \A s \in Slots : rows[n][s] # None => rows[n][s].inc = tables[n]
    /\ \A a \in hist.acked \ hist.unsure : a.inc = tables[n] /\ a.inc \notin hist.early =>
         rows[n][a.slot] # None

(* After every restart and every kill the server is back with the schemas and the    *)
(* rows it had (Db::open_all_tables, recover), but for the named cases.               *)
StartsAgain == Starts /\ SchemaSurvives /\ RowsStay

(* A SELECT of a view that no other session disturbs answers what the view's         *)
(* definition selects now, however often it was filled before, also by a SELECT that  *)
(* failed, whatever it was defined on, and whatever became of earlier fillings.  A    *)
(* view defined as a part of a view with a condition loses that condition (flat), and *)
(* so do those on top of it.                                                          *)
ViewsAnswer == hist.answer # None => hist.answer.got = hist.answer.want \/ hist.answer.views \cap hist.flat # {}
=============================================================================
