--------------------------------- MODULE Sql ---------------------------------
(***************************************************************************)
(* A statement on its way through the stages of SessionStage::handle_sql:  *)
(* resolve, optimize, execute, and the sending of its rows.  One step is   *)
(* one stage, one round of the rewriting or one call of the plan.          *)
(*                                                                         *)
(* The statement runs alone and in a transaction of its own; Table and     *)
(* MvccTrx are about the steps of several.                                 *)
(***************************************************************************)
EXTENDS SqlReference

CONSTANTS
  Statements,    \* [kind, sel, rel, conds, vals, sets]
  Datasets       \* what the tables may hold: values of rows

VARIABLES phase, sql, stmt, plan, oper, header, out, rc

vars == <<rows, phase, sql, stmt, plan, oper, header, out, rc>>

NoPlan == Oper("NONE", <<>>)
NoOper == Phys("NONE", <<>>)

\* Stmt::create_stmt.
Explained(s, c) == IF s.kind = "EXPLAIN" /\ Okay(c) THEN Ok([c.v EXCEPT !.kind = "EXPLAIN"]) ELSE c
CreateStmt(s) == CASE s.kind = "DELETE" -> CreateDelete(s)
                   [] s.kind = "INSERT" -> CreateInsert(s)
                   [] s.kind = "UPDATE" -> CreateUpdate(s)
                   [] OTHER -> Explained(s, CreateSelect(s.sel, NoMap, NoMap))

\* handle_request_with_physical_operator: the columns of the header.
SchemaSize(s) ==
  CASE s.kind = "SELECT" /\ s.hasAgg ->
         IF s.group = <<>> /\ s.exprs # <<>> THEN Len(s.exprs) ELSE Len(s.group) + Len(s.aggs)
    [] s.kind = "SELECT" /\ ~s.hasAgg -> (IF s.ordered THEN 0 ELSE Len(s.fields)) + Len(s.exprs)
    [] s.kind = "CALC" -> Len(s.exprs)
    [] s.kind = "EXPLAIN" -> 1
    [] OTHER -> 0

-----------------------------------------------------------------------------
Init ==
  /\ sql \in Statements
  /\ rows \in Datasets
  /\ phase = "resolve" /\ rc = "SUCCESS"
  /\ stmt = NoStmt /\ plan = NoPlan /\ oper = NoOper
  /\ header = 0 /\ out = <<>>

\* ResolveStage: a condition with a subquery reads rows here.
Resolve ==
  /\ phase = "resolve" /\ sql.kind # "VIEW"
  /\ \E c \in {CreateStmt(sql)} : /\ rc' = c.rc
                                  /\ stmt' = IF Okay(c) THEN c.v ELSE stmt
                                  /\ phase' = IF Okay(c) THEN "optimize" ELSE "done"
  /\ UNCHANGED <<rows, sql, plan, oper, header, out>>

\* CREATE VIEW ... AS SELECT with rows of its own.
MaterializeView ==
  /\ phase = "resolve" /\ sql.kind = "VIEW"
  /\ \E v \in {IF MatchSelfJoin(sql.sel) THEN SelfJoinView(sql.sel) ELSE SimpleView(sql.sel)} : rc' = v.rc /\ out' = v.out
  /\ phase' = "done"
  /\ UNCHANGED <<rows, sql, stmt, plan, oper, header>>

\* OptimizeStage::create_logical_plan.
CreateLogicalPlan ==
  /\ phase = "optimize" /\ stmt.kind # "UPDATE"
  /\ plan' = LogicalPlan(stmt)
  /\ phase' = "rewrite"
  /\ UNCHANGED <<rows, sql, stmt, oper, header, out, rc>>

\* An UPDATE has no plan: the command executor runs it.
ExecuteUpdate ==
  /\ phase = "optimize" /\ stmt.kind = "UPDATE"
  /\ \E n \in 0 .. 2 * Len(rows[stmt.tables[1]]) + 1 : \E u \in {Update(stmt, n)} : rows' = u.rows /\ rc' = u.rc
  /\ phase' = "done"
  /\ UNCHANGED <<sql, stmt, plan, oper, header, out>>

\* OptimizeStage::rewrite: until a round changes nothing.
RewriteRound ==
  /\ phase = "rewrite"
  /\ \E r \in {Rewrite(plan)} : plan' = r.x /\ phase' = IF r.chg THEN "rewrite" ELSE "generate"
  /\ UNCHANGED <<rows, sql, stmt, oper, header, out, rc>>

GeneratePhysicalPlan ==
  /\ phase = "generate"
  /\ oper' = GeneratePlan(stmt, plan)
  /\ phase' = "execute"
  /\ UNCHANGED <<rows, sql, stmt, plan, header, out, rc>>

\* ExecuteStage.
SetSchema ==
  /\ phase = "execute"
  /\ header' = SchemaSize(stmt)
  /\ phase' = "open"
  /\ UNCHANGED <<rows, sql, stmt, plan, oper, out, rc>>

\* SqlResult::open.  INSERT stores its rows here.
OpenPlan ==
  /\ phase = "open"
  /\ IF oper.o = "INS"
     THEN \E n \in 0 .. Len(oper.vals) : \E i \in {InsertOpen(oper, n)} :
                                       /\ rows' = [rows EXCEPT ![oper.t] = i.file]
                                       /\ rc' = i.rc /\ oper' = oper
                                       /\ phase' = IF Okay(i) THEN "fetch" ELSE "close"
     ELSE \E o \in {OpOpen(oper, NoTuple)} : /\ oper' = o.op /\ rc' = o.rc /\ rows' = rows
                                            /\ phase' = IF Okay(o) THEN "fetch" ELSE "close"
  /\ UNCHANGED <<sql, stmt, plan, header, out>>

\* DeletePhysicalOperator::next.
DeleteRows ==
  /\ phase = "fetch" /\ oper.o = "DEL"
  /\ \E n \in 0 .. Len(rows[oper.t]) : \E d \in {Deleted(oper, n)} : rows' = d.rows /\ rc' = d.rc
  /\ phase' = "close"
  /\ UNCHANGED <<sql, stmt, plan, oper, header, out>>

\* SqlResult::next_tuple and the cells of the tuple; an error ends the result.
NextTuple ==
  /\ phase = "fetch" /\ oper.o # "DEL"
  /\ \E n \in {OpNext(oper, NoTuple)} : \E cells \in {IF Okay(n) THEN AllOf(Cells(n.t, NoTuple)) ELSE Ok(<<>>)} :
        /\ oper' = n.op
        /\ out' = IF Okay(n) /\ Okay(cells) THEN Append(out, cells.v) ELSE out
        /\ phase' = IF Okay(n) /\ Okay(cells) THEN "fetch" ELSE "close"
        /\ rc' = CASE n.rc = "RECORD_EOF" -> "SUCCESS"
                   [] Okay(n) -> cells.rc
                   [] OTHER -> n.rc
  /\ UNCHANGED <<rows, sql, stmt, plan, header>>

\* SqlResult::close: what was changed is committed, after an error too (that the commit
\* itself may fail is Server's matter).
Close ==
  /\ phase = "close"
  /\ oper' = NoOper
  /\ phase' = "done"
  /\ UNCHANGED <<rows, sql, stmt, plan, header, out, rc>>

Next == \/ Resolve \/ MaterializeView \/ CreateLogicalPlan \/ ExecuteUpdate \/ RewriteRound
        \/ GeneratePhysicalPlan \/ SetSchema \/ OpenPlan \/ DeleteRows \/ NextTuple \/ Close

Spec == Init /\ [][Next]_vars

-----------------------------------------------------------------------------
(* Properties. *)

Stored(m, v) == IsNull(v) \/ v.type = m.type \/ {v.type, m.type} = {"CHARS", "TEXTS"}
\* The variables hold what they should; a stored cell has its column's type.
TypeOK ==
  /\ phase \in {"resolve", "optimize", "rewrite", "generate", "execute", "open", "fetch", "close", "done"}
  /\ header \in Nat
  /\ \A t \in DOMAIN Schema : \A p \in Live(t) : \A i \in DOMAIN Schema[t] : Stored(Schema[t][i], rows[t][p][i])

Finished == phase = "done" /\ rc = "SUCCESS"

\* What a client sees of a cell.
Rendered(r) == [i \in DOMAIN r |-> [j \in DOMAIN r[i] |-> ValueToString(r[i][j])]]

\* The index is asked for a key of another type than its column's.
MistypedKey == \E i \in DOMAIN stmt.units :
  LET u == stmt.units[i]
  IN /\ u.kind = "OBJ" /\ {u.l.e, u.r.e} = {"FIELD", "VALUE"}
     /\ Serves(IF u.l.e = "FIELD" THEN u.l.t ELSE u.r.t, UnitExpr(u)) /\ ValueType(u.l) # ValueType(u.r)
\* An expression of aggregates over a plan that a false condition has emptied.
EmptiedAggregate == stmt.hasAgg /\ stmt.exprs # <<>> /\ plan.k = <<>>

\* A condition that is always false comes after a correlated one.
DecidedLate == LET top == TopExprs(stmt)
               IN \E i, j \in DOMAIN top : i < j /\ top[i].e \in {"LAMBDA", "INLAMBDA"} /\ TryGet(top[j]) = Ok(BoolV(FALSE))
\* The relations of the query are not all different tables.
SelfJoined == \E i, j \in DOMAIN stmt.tables : i # j /\ stmt.tables[i] = stmt.tables[j]
\* NOT IN that is tested row by row: NULL is taken for a value that is not in the list.
NotInPerRow == \E i \in DOMAIN stmt.units : stmt.units[i].l.e \in {"LAMBDA", "INLAMBDA"} /\ stmt.units[i].l.op = "NOT IN"
\* An expression in a subquery: what is looked for is a value that was never set.
ExpressionIn == \E i \in DOMAIN sql.sel.conds : /\ sql.sel.conds[i].op \in InOps /\ sql.sel.conds[i].r.e = "SUBQ"
                                                /\ sql.sel.conds[i].l.e \notin {"UNBOUND", "VALUE"}

\* A constant that is in a list of constants nowhere: each FALSE goes from the OR, and an
\* empty one is true.
EmptiedOr == \E i \in DOMAIN stmt.units :
  LET e == stmt.units[i].l
  IN e.e = "CONJ" /\ e.op = "OR" /\ Len(e.k) > 1 /\ \A j \in DOMAIN e.k : TryGet(e.k[j]) = Ok(BoolV(FALSE))
\* A scalar subquery against a value or another: the condition is dropped.
Dropped == \E i \in DOMAIN stmt.units : stmt.units[i].kind = "OBJ" /\ UnitRefs(stmt.units[i]) = {}

\* A query that ends well has returned the rows that it means, each as often as it
\* means it; where NULL counts as unequal or a condition is lost it may return more.
Agrees(meant, got) == Within(meant, got) /\ (NotInPerRow \/ Dropped \/ EmptiedOr \/ Within(got, meant))
RowsMatch ==
  Finished /\ sql.kind = "SELECT" /\ ~(MistypedKey \/ EmptiedAggregate \/ DecidedLate \/ SelfJoined \/ ExpressionIn)
     => Agrees(Rendered(RefSelect(sql.sel, <<>>)), Rendered(out))

\* The rows of a sorted result are in order, NULL first.
Position(f) == IF sql.sel.star THEN FieldIndex(stmt.tables[1], f)
               ELSE Min({i \in DOMAIN sql.sel.exprs : sql.sel.exprs[i].expr.f = f})
Precedes(a, b) == ~IsNull(b) /\ (IsNull(a) \/ Compare(a, b) < 0)
OutputSorted ==
  LET order == sql.sel.order
      Cell(i, k) == out[i][Position(order[k].f)]
      InOrder(i, j) == \A k \in DOMAIN order :
        (\A m \in 1 .. (k - 1) : Cell(i, m) = Cell(j, m))
           => ~(IF order[k].asc THEN Precedes(Cell(j, k), Cell(i, k)) ELSE Precedes(Cell(i, k), Cell(j, k)))
  IN \A i, j \in DOMAIN out : i < j => InOrder(i, j)

\* The plan gives the rows of the plan that was made first, after each round of the
\* rewriting and with the indexes it uses.
CellsOf(ts) == [i \in DOMAIN ts |-> Cells(ts[i], NoTuple)]
Fetched(p) == CellsOf(Drain(OpOpen(GeneratePlan(stmt, p), NoTuple).op, NoTuple))
AllSame(fs) == \A i \in DOMAIN fs : SameBag(fs[1], fs[i])
FetchSame(ps) == AllSame([i \in DOMAIN ps |-> Fetched(ps[i])])
PlanKeepsRows ==
  phase \in {"rewrite", "generate"} /\ stmt.kind = "SELECT"
     => MistypedKey \/ EmptiedAggregate \/ DecidedLate \/ EmptiedOr \/ FetchSame(<<plan, LogicalPlan(stmt)>>)

\* Every row has the columns of the header.
HeaderMatches == \A i \in DOMAIN out : sql.kind = "VIEW" \/ EmptiedAggregate \/ Len(out[i]) = header

\* The conditions of a DELETE that its plan does not know, because they are not comparisons
\* of two columns or of a column and a value: two values that were never set stand for each.
Blind == {i \in DOMAIN stmt.units : stmt.units[i].kind # "OBJ"}
\* A DELETE without them deletes the rows it means.  With them it deletes none, or those that
\* satisfy the others, or only the first (see SimplifyConjunction).  One that fails has deleted
\* some of those.
DeleteExact ==
  LET t == stmt.tables[1]
      conds == FilterConditions(<<sql.rel>>, sql.conds)
      Satisfying(some) == {p \in Live(t) : \A i \in some : RefCond(conds[i], RefFrame(sql.rel, p), <<>>)}
      others == DOMAIN conds \ Blind
      meant == IF Blind = {} THEN {{p \in Live(t) : Hit(sql.rel, sql.conds, p)}}
               ELSE {{}, Satisfying(others)} \cup {Satisfying({i}) : i \in {j \in others : \A k \in others : j <= k}}
      gone == Live(t) \ Live(t)'
  IN /\ \E m \in meant : IF rc' = "SUCCESS" THEN gone = m ELSE gone \subseteq m
     /\ rows' = [rows EXCEPT ![t] = [p \in DOMAIN @ |-> IF p \in gone THEN <<>> ELSE @[p]]]
\* An UPDATE replaces the rows it means.  One that fails has replaced some of them, may have
\* lost one more, and has left the others.
UpdateExact ==
  LET t == stmt.tables[1]
      hits == {p \in Live(t) : Hit(sql.rel, sql.conds, p)}
      After(done, lost) == [p \in Live(t) \ lost |-> IF p \in done THEN RefUpdated(sql, t, p) ELSE Cells2(t, p)]
  IN /\ IF rc' = "SUCCESS" THEN SameBag(Contents(t)', After(hits, {}))
        ELSE rows' # rows => \E done \in SUBSET hits : \E lost \in {{}} \cup {{p} : p \in hits \ done} :
                               SameBag(Contents(t)', After(done, lost))
     /\ rows' = [rows EXCEPT ![t] = rows'[t]]
\* The rows of an INSERT as they are read: a column that the view does not show is NULL,
\* and so is a zero in a nullable one.
InsertExact ==
  LET t == stmt.tables[1]
      ReadBack(m, v) == IF v.type = "UNDEFINED" \/ (m.nullable /\ v = Zero(m.type)) THEN Null ELSE v
      new == [i \in DOMAIN stmt.vals |-> [j \in DOMAIN Schema[t] |-> ReadBack(Schema[t][j], stmt.vals[i][j])]]
      old == Contents(t)
      With(k) == [x \in ({0} \X Live(t)) \cup ({1} \X (1 .. k)) |-> IF x[1] = 0 THEN old[x[2]] ELSE new[x[2]]]
  IN /\ IF rc' = "SUCCESS" THEN SameBag(Contents(t)', With(Len(new)))
        ELSE \E k \in 0 .. Len(new) - 1 : SameBag(Contents(t)', With(k))
     /\ rows' = [rows EXCEPT ![t] = rows'[t]]
\* A statement changes the rows it means to, in its one step, and nothing else.  When a call
\* on the table fails, or the commit of an UPDATE, nothing is undone: an INSERT keeps its
\* first rows, a DELETE has deleted some, an UPDATE has replaced some and may have lost one,
\* never more, and no row is changed that the statement does not mean.
ChangesExact == [][
  /\ phase = "optimize" /\ sql.kind = "UPDATE" => UpdateExact
  /\ phase = "fetch" /\ sql.kind = "DELETE" => MistypedKey \/ DeleteExact
  /\ phase = "open" /\ sql.kind = "INSERT" => InsertExact
  /\ rows' # rows => <<phase, sql.kind>> \in {<<"optimize", "UPDATE">>, <<"fetch", "DELETE">>, <<"open", "INSERT">>}]_vars

\* A stored view has the rows of its SELECT, where a zero reads as NULL.
NullForZero(v) == IF v.type \in Numeric /\ v.n[1] = 0 THEN Null ELSE v
ViewExact ==
  Finished /\ sql.kind = "VIEW"
     => LET ref == RefSelect(sql.sel, <<>>)
        IN SameBag(Rendered(out), Rendered([i \in DOMAIN ref |-> [j \in DOMAIN ref[i] |-> NullForZero(ref[i][j])]]))

\* A statement through all its stages: its rows are those it means, sorted as asked and
\* under a header that fits, a view that is stored has the rows of its SELECT, and cells
\* have their types; the exceptions are those named above.
ResultExact == TypeOK /\ RowsMatch /\ OutputSorted /\ HeaderMatches /\ ViewExact

SumOver(s) == FoldLeft(LAMBDA x, y : x + y, 0, s)
RECURSIVE ExprWeight(_), PlanWeight(_)
ExprWeight(e) == 1 + SumOver([i \in DOMAIN e.k |-> ExprWeight(e.k[i])])
PlanWeight(o) == 1 + SumOver([i \in DOMAIN o.e |-> ExprWeight(o.e[i])]) + SumOver([i \in DOMAIN o.k |-> PlanWeight(o.k[i])])
\* The loop of the rewriting stops: a round that asks for another has made the plan
\* smaller.
RewriteShrinks == [][phase = "rewrite" /\ phase' = "rewrite" => PlanWeight(plan') < PlanWeight(plan)]_vars
=============================================================================
