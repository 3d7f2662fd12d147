------------------------------- MODULE SqlExec -------------------------------
(***************************************************************************)
(* The execution of a statement: tuples (tuple.h), expressions with a row  *)
(* (expression.cpp), the physical operators (sql/operator), and, since a   *)
(* subquery is run while its condition is resolved, the statements that    *)
(* have conditions (filter_stmt.cpp, select_stmt.cpp, delete_stmt.cpp,     *)
(* update_stmt.cpp) and the UPDATE and CREATE VIEW executors.              *)
(*                                                                         *)
(* A tuple is a record with its kind k.  g is the tuple of the outer       *)
(* query, g_outer_tuple.                                                   *)
(***************************************************************************)
EXTENDS SqlParse

VARIABLE rows    \* the rows of each table in the order of its file; <<>> is a free slot.
                 \* A cell is the stored value; Null only where forced_null_fields says so.

RECURSIVE Call(_, _, _, _), Drain(_, _), ScanNext(_, _), PredicateNext(_, _), PlanLines(_, _),
          ValidateSelect(_), ValidateExpr(_)

\* The calls that go round: a tuple evaluates expressions, an expression runs a subquery,
\* a subquery is resolved and run by operators, which have tuples and expressions.
Find(t, s, g) == Call("find_cell", t, s, g)
CellAt(t, i, g) == Call("cell_at", t, i, g)
Eval(e, t, g) == Call("get_value", e, t, g)
EvalUnit(u, t, g) == Call("filter_unit", u, t, g)
OpOpen(op, g) == Call("open", op, g, g)
OpNext(op, g) == Call("next", op, g, g)
RunSub(stmt, g) == Call("subquery", stmt, g, g)
FilterStmt(conds, sc) == Call("filter", conds, sc, sc)
CreateSelect(sel, outer, aliases) == Call("select", sel, outer, aliases)

Internal == [rc |-> "INTERNAL", v |-> Null]
NotFound == [rc |-> "NOTFOUND", v |-> Null]
Okay(r) == r.rc = "SUCCESS"
ValueOr(r, v) == IF Okay(r) THEN r.v ELSE v
OrElse(r, q) == IF Okay(r) THEN r ELSE q

-----------------------------------------------------------------------------
(* Tuples. *)

CellSpec(t, f, alias) == [t |-> t, f |-> f, alias |-> alias]
FieldSpec(t, f) == CellSpec(t, f, IF t = "" THEN <<f>> ELSE <<t, f>>)
NameSpec(alias) == CellSpec("", "", alias)

\* RowTuple::cell_at: a nullable column that is all zeros is NULL.
ReadCell(m, v) == IF NullZero(m, v) THEN Null ELSE v
RowTuple(t, pos) == [k |-> "ROW", t |-> t, pos |-> pos,
                     cells |-> [i \in DOMAIN Schema[t] |-> ReadCell(Schema[t][i], rows[t][pos][i])]]
Joined(l, r) == [k |-> "JOINED", l |-> l, r |-> r]
List(k, cells) == [k |-> k, cells |-> cells]

FindRow(t, s) == IF s.t \in {"", t.t} /\ HasField(t.t, s.f) THEN Ok(t.cells[FieldIndex(t.t, s.f)]) ELSE NotFound
LeftFirst(l, r) == IF l.rc = "NOTFOUND" THEN r ELSE l
FindJoined(t, s, g) == LeftFirst(Find(t.l, s, g), Find(t.r, s, g))
FindProject(t, s, g) ==
  LET named == {i \in DOMAIN t.exprs : t.exprs[i].name = s.alias}
  IN IF t.exprs = <<>> THEN Find(t.child, s, g)
     ELSE IF named = {} THEN NotFound ELSE Eval(t.exprs[Min(named)], t.child, g)
FindAggregation(t, s) ==
  LET named == {i \in DOMAIN t.names : t.names[i] = s.alias \/ (s.f # "" /\ t.names[i] = <<s.f>>)}
  IN IF named = {} THEN NotFound ELSE Ok(t.cells[Min(named)])
\* PostAggTuple: COUNT(*) is the size of the group; an aggregate goes by its field, so
\* the first of the list with that field is meant, whatever the function.
FindPost(t, s) ==
  LET group == {i \in DOMAIN t.group : \/ s.f = t.group[i].f /\ s.t \in {"", t.group[i].t}
                                       \/ s.alias = <<t.group[i].f>>}
      agg == {i \in DOMAIN t.aggs : /\ t.aggs[i].f # "*"
                                    /\ s.f = t.aggs[i].f \/ s.alias \in {t.aggs[i].alias, <<t.aggs[i].f>>}}
  IN CASE s.alias = <<"count(*)">> -> Ok(IntV(t.n))
       [] s.alias # <<"count(*)">> /\ group # {} -> Ok(t.groupVals[Min(group)])
       [] s.alias # <<"count(*)">> /\ group = {} /\ agg # {} -> Ok(t.aggVals[Min(agg)])
       [] OTHER -> NotFound

\* find_cell.
FindCell(t, s, g) == CASE t.k = "ROW" -> FindRow(t, s)
                       [] t.k = "JOINED" -> FindJoined(t, s, g)
                       [] t.k = "PROJ" -> FindProject(t, s, g)
                       [] t.k = "AGG" -> FindAggregation(t, s)
                       [] t.k = "POST" -> FindPost(t, s)
                       [] t.k = "LIST" -> Internal
                       [] OTHER -> NotFound
FindEither(t, table, f, g) == OrElse(Find(t, CellSpec(table, f, <<f>>), g), Find(t, CellSpec("", f, <<f>>), g))

\* cell_num and cell_at of a tuple that leaves a plan.
ProjectCell(t, i, g) == IF t.exprs # <<>> THEN Eval(t.exprs[i], t.child, g)
                        ELSE Find(t.child, CellSpec(t.fields[i].t, t.fields[i].f, <<t.fields[i].f>>), g)
CellNum(t) == IF t.k # "PROJ" THEN Len(t.cells) ELSE IF t.exprs # <<>> THEN Len(t.exprs) ELSE Len(t.fields)
TupleCell(t, i, g) == CASE t.k = "PROJ" -> ProjectCell(t, i, g)
                        [] t.k = "EXPR" -> TryGet(t.cells[i])
                        [] OTHER -> Ok(t.cells[i])
Cells(t, g) == [i \in 1 .. CellNum(t) |-> CellAt(t, i, g)]

-----------------------------------------------------------------------------
(* Expressions. *)

\* CorrelatedFieldExpr::get_value.
EvalCorrelated(e, g) == IF g.k = "NONE" THEN Internal
                        ELSE OrElse(Find(g, FieldSpec(e.t, e.f), NoTuple), Find(g, NameSpec(<<e.f>>), NoTuple))
\* ConjunctionExpr::get_value: up to the first error or the first child that decides.
Conjunction(op, rs) ==
  LET stops == {i \in DOMAIN rs : ~Okay(rs[i]) \/ GetBoolean(rs[i].v) = (op = "OR")}
      Decides(r) == IF Okay(r) THEN Ok(BoolV(GetBoolean(r.v))) ELSE r
  IN IF stops = {} THEN Ok(BoolV(op = "AND" \/ rs = <<>>)) ELSE Decides(rs[Min(stops)])
EvalConjunction(e, t, g) == Conjunction(e.op, [i \in DOMAIN e.k |-> Eval(e.k[i], t, g)])
EvalChildren(e, t, g) == Applied(e, AllOf([i \in DOMAIN e.k |-> Eval(e.k[i], t, g)]))

-----------------------------------------------------------------------------
(* Operators.  next returns a code, the operator after it and a tuple. *)

Step(rc, op, t) == [rc |-> rc, op |-> op, t |-> t]
Eof(op) == Step("RECORD_EOF", op, NoTuple)
Emit(op) == IF op.pos < Len(op.list) THEN Step("SUCCESS", [op EXCEPT !.pos = @ + 1], op.list[op.pos + 1])
            ELSE Eof(op)
\* The tuples of a plan up to its end or to an error.
DrainAfter(n, g) == IF Okay(n) THEN <<n.t>> \o Drain(n.op, g) ELSE <<>>
Drain(op, g) == DrainAfter(OpNext(op, g), g)

\* The positions a scan visits.  The index compares bytes: a key of another type is
\* found only where both are zero.
LiveRows(t) == SelectSeq([i \in DOMAIN rows[t] |-> i], LAMBDA i : rows[t][i] # <<>>)
SameBytes(a, b) == IF a.type = b.type THEN Compare(a, b) = 0 ELSE a = Zero(a.type) /\ b = Zero(b.type)
OrZero(type, v) == IF IsNull(v) THEN Zero(type) ELSE v
KeyMatches(op, i) == SameBytes(OrZero(FieldType(op.t, op.e.f), rows[op.t][i][FieldIndex(op.t, op.e.f)]), op.key)
ScanOpen(op) == [op EXCEPT !.pos = 0, !.list = IF op.o = "SCAN" THEN LiveRows(op.t)
                                               ELSE SelectSeq(LiveRows(op.t), LAMBDA i : KeyMatches(op, i))]
Holds(r) == [rc |-> r.rc, v |-> Okay(r) /\ GetBoolean(r.v)]
\* What a filter that gave f makes of tuple t; rest is what comes after it.
Filtered(f, op, t, rest) == CASE ~Okay(f) -> Step(f.rc, op, NoTuple)
                              [] Okay(f) /\ f.v -> Step("SUCCESS", op, t)
                              [] OTHER -> rest
ScanTuple(op, t, g) == Filtered(Holds(Eval(Node("CONJ", "AND", op.preds), t, g)), op, t, ScanNext(op, g))
ScanNext(op, g) == LET n == Emit(op) IN IF Okay(n) THEN ScanTuple(n.op, RowTuple(op.t, n.t), g) ELSE n

PredicateTuple(op, n, g) == IF Okay(n) THEN Filtered(Holds(Eval(op.e, n.t, g)), op, n.t, PredicateNext(op, g))
                            ELSE Step(n.rc, op, NoTuple)
PredicateAfter(op, n, g) == PredicateTuple([op EXCEPT !.k[1] = n.op], n, g)
PredicateNext(op, g) == PredicateAfter(op, OpNext(op.k[1], g), g)

ProjectNext(op, g) ==
  IF op.k = <<>> THEN Eof(op)
  ELSE LET n == OpNext(op.k[1], g)
       IN Step(n.rc, [op EXCEPT !.k[1] = n.op],
               [k |-> "PROJ", child |-> n.t, exprs |-> op.exprs, fields |-> op.fields])

\* NestedLoopJoin: done is round_done_, cur the left tuple, list the rows of the right
\* side if it is a table scan that has rows; what stopped that scan is forgotten.
CachedRows(op, right, g) == IF op.k[2].o = "SCAN" /\ Okay(right) THEN Drain(right.op, g) ELSE <<>>
JoinOpened(op, left, all) ==
  [rc |-> left.rc, op |-> [op EXCEPT !.k[1] = left.op, !.done = TRUE, !.cached = all # <<>>, !.list = all, !.pos = 0]]
JoinOpen(op, g) == JoinOpened(op, OpOpen(op.k[1], g), CachedRows(op, OpOpen(op.k[2], g), g))
CachedStep(op, n) == IF Okay(n) THEN Step(n.rc, n.op, Joined(op.cur, n.t)) ELSE Eof([n.op EXCEPT !.done = TRUE])
OpenedStep(op, n) == Step(n.rc, [op EXCEPT !.k[2] = n.op, !.done = n.rc = "RECORD_EOF"], Joined(op.cur, n.t))
\* Mutant: a new round goes on where the last one ended.
RightNext_NoRewind(op, g) ==
  IF op.cached
  THEN CachedStep(op, Emit([op EXCEPT !.done = FALSE]))
  ELSE LET o == IF op.done THEN OpOpen(op.k[2], g) ELSE [rc |-> "SUCCESS", op |-> op.k[2]]
       IN OpenedStep(op, OpNext(o.op, g))
RightNext(op, g) ==
  IF op.cached
  THEN CachedStep(op, Emit(IF op.done THEN [op EXCEPT !.pos = 0, !.done = FALSE] ELSE op))
  ELSE LET o == IF op.done THEN OpOpen(op.k[2], g) ELSE [rc |-> "SUCCESS", op |-> op.k[2]]
       IN IF Okay(o) THEN OpenedStep(op, OpNext(o.op, g)) ELSE Step(o.rc, op, NoTuple)
LeftNext(op, g) == LET n == OpNext(op.k[1], g)
                   IN Step(n.rc, [op EXCEPT !.k[1] = n.op, !.cur = IF Okay(n) THEN n.t ELSE @], NoTuple)
AfterLeft(left, g) == IF Okay(left) THEN RightNext(left.op, g) ELSE left
AfterRight(right, g) == IF right.rc = "RECORD_EOF" THEN AfterLeft(LeftNext(right.op, g), g) ELSE right
JoinNext(op, g) == AfterRight(IF op.done THEN Eof(op) ELSE RightNext(op, g), g)

\* Aggregation.  A value that is not found, or NULL, does not count; neither do a
\* string in AVG, a date in SUM or AVG, and under GROUP BY a long text.
Counted(o, fn, v) == \/ v.type \in Numeric
                     \/ v.type = "CHARS" /\ fn # "AVG"
                     \/ v.type = "TEXTS" /\ fn # "AVG" /\ o = "AGG"
                     \/ v.type = "DATES" /\ fn \in {"COUNT", "MAX", "MIN"}
Total(vs) == FoldLeft(LAMBDA x, v : IF v.type \in Numeric THEN Frac(x[1] * v.n[2] + v.n[1] * x[2], x[2] * v.n[2]) ELSE x,
                      <<0, 1>>, vs)
Greatest(vs, sign) == vs[CHOOSE i \in DOMAIN vs : \A j \in DOMAIN vs : sign * Compare(vs[i], vs[j]) >= 0]
AggInput(o, agg, ts, g) == SelectSeq([i \in DOMAIN ts |-> ValueOr(FindEither(ts[i], agg.t, agg.f, g), Null)],
                                  LAMBDA v : ~IsNull(v) /\ Counted(o, agg.fn, v))
SumValue(agg, sum) == IF FieldType(agg.t, agg.f) = "INTS" THEN IntV(Truncate(sum)) ELSE Number("FLOATS", sum)
Average(sum, n) == FloatV(sum[1], sum[2] * n)
Aggregated(agg, n, vs) ==
  CASE agg.fn = "COUNT" -> IntV(IF agg.f = "*" THEN n ELSE Len(vs))
    [] agg.fn # "COUNT" /\ vs = <<>> -> Null
    [] agg.fn = "SUM" /\ vs # <<>> -> SumValue(agg, Total(vs))
    [] agg.fn = "AVG" /\ vs # <<>> -> Average(Total(vs), Len(vs))
    [] OTHER -> Greatest(vs, IF agg.fn = "MAX" THEN 1 ELSE -1)
AggregateAll(o, aggs, ts, g) == [i \in DOMAIN aggs |-> Aggregated(aggs[i], Len(ts), AggInput(o, aggs[i], ts, g))]
AggResult(op, ts, g) == << [k |-> "AGG", cells |-> AggregateAll(op.o, op.aggs, ts, g),
                            names |-> [i \in DOMAIN op.aggs |-> op.aggs[i].alias]] >>

\* GROUP BY: a group has the text of its values for a key.
GroupValues(op, t, g) == [i \in DOMAIN op.group |-> ValueOr(FindEither(t, op.group[i].t, op.group[i].f, g), IntV(0))]
GroupKey(vals) == [i \in DOMAIN vals |-> ValueToString(vals[i])]
Group(op, ts, g) == [k |-> "POST", group |-> op.group, aggs |-> op.aggs, n |-> Len(ts),
                     groupVals |-> GroupValues(op, ts[1], g), aggVals |-> AggregateAll(op.o, op.aggs, ts, g)]
GroupMembers(ts, key, i) == LET at == SelectSeq([j \in DOMAIN ts |-> j], LAMBDA j : key[j] = key[i])
                            IN [j \in DOMAIN at |-> ts[at[j]]]
GroupsBy(op, ts, key, g) ==
  LET first == SelectSeq([i \in DOMAIN ts |-> i], LAMBDA i : \A j \in 1 .. (i - 1) : key[j] # key[i])
  IN [x \in DOMAIN first |-> Group(op, GroupMembers(ts, key, first[x]), g)]
Groups(op, ts, g) == GroupsBy(op, ts, [i \in DOMAIN ts |-> GroupKey(GroupValues(op, ts[i], g))], g)

\* eval_filter_unit: a condition on a tuple.
CompareSides(u, vs) == IF Okay(vs) THEN CompareValue(u.comp, vs.v[1], vs.v[2]) ELSE [rc |-> vs.rc, v |-> FALSE]
EvalFilterUnit(u, t, g) ==
  IF u.kind = "CUSTOM" THEN Holds(Eval(u.l, t, g))
  ELSE CompareSides(u, AllOf(<<Eval(u.l, t, g), Eval(u.r, t, g)>>))
PassesHaving(op, post, g) == \A i \in DOMAIN op.having : EvalUnit(op.having[i], post, g) = Ok(TRUE)
GroupTuples(passed) == [i \in DOMAIN passed |-> List("LIST", passed[i].groupVals \o passed[i].aggVals)]
GroupResult(op, ts, g) == GroupTuples(SelectSeq(Groups(op, ts, g), LAMBDA p : PassesHaving(op, p, g)))

\* ORDER BY: NULL first; a key that is not found has no type and orders nothing.
SortCell(t, o, g) == OrElse(Find(t, FieldSpec(o.t, o.f), g), Find(t, CellSpec("", o.f, <<o.f>>), g))
SortKey(op, t, g) == [i \in DOMAIN op.order |-> ValueOr(SortCell(t, op.order[i], g), Undefined)]
KeyCompare(a, b) == CASE IsNull(a) /\ IsNull(b) -> 0
                      [] IsNull(a) /\ ~IsNull(b) -> -1
                      [] ~IsNull(a) /\ IsNull(b) -> 1
                      [] \/ a.type = b.type /\ a.type \in {"INTS", "FLOATS", "CHARS", "DATES"}
                         \/ {a.type, b.type} = Numeric -> Compare(a, b)
                      [] OTHER -> 0
\* The sign of the first key that orders a and b.
FirstSign(order, cs) == LET unequal == {i \in DOMAIN cs : cs[i] # 0}
                            At(i) == IF order[i].asc THEN cs[i] ELSE -cs[i]
                        IN IF unequal = {} THEN 0 ELSE At(Min(unequal))
SortCompare(order, a, b) == FirstSign(order, [i \in DOMAIN order |-> KeyCompare(a[i], b[i])])
Ranked(order, key, ts) ==
  LET Before(c, j, i) == c < 0 \/ (c = 0 /\ j < i)
      Rank(i) == Cardinality({j \in DOMAIN ts : Before(SortCompare(order, key[j], key[i]), j, i)})
  IN [r \in DOMAIN ts |-> ts[CHOOSE i \in DOMAIN ts : Rank(i) = r - 1]]
SortTuple(cells) == List("SORT", [i \in DOMAIN cells |-> ValueOr(cells[i], Undefined)])
SortTuples(ts, g) == [i \in DOMAIN ts |-> SortTuple(Cells(ts[i], g))]
SortResult(op, ts, g) == SortTuples(Ranked(op.order, [i \in DOMAIN ts |-> SortKey(op, ts[i], g)], ts), g)

\* EXPLAIN: a line for each operator, its depth and its table.
PlanLines(op, level) == <<<<level, op.o, op.t>>>> \o FlattenSeq([i \in DOMAIN op.k |-> PlanLines(op.k[i], level + 1)])
ExplainResult(op) == <<List("LIST", <<StrV(PlanLines(op.k[1], 0))>>)>>

\* An operator that makes all its tuples at the first next, whatever ends its child.
Result(op, ts, g) == CASE op.o = "AGG" -> AggResult(op, ts, g)
                       [] op.o = "GROUP" -> GroupResult(op, ts, g)
                       [] op.o = "SORT" -> SortResult(op, ts, g)
                       [] op.o = "CALC" -> <<List("EXPR", op.exprs)>>
                       [] OTHER -> ExplainResult(op)
ResultNext(op, g) == Emit(IF op.done THEN op ELSE [op EXCEPT !.done = TRUE, !.list = Result(op, Drain(op.k[1], g), g)])

OpenOper(op, g) ==
  CASE op.o \in {"SCAN", "ISCAN"} -> [rc |-> "SUCCESS", op |-> ScanOpen(op)]
    [] op.o = "NLJ" -> JoinOpen(op, g)
    [] op.o \in {"PRED", "PROJ", "AGG", "GROUP", "SORT", "DEL"} /\ op.k # <<>> ->
         LET o == OpOpen(op.k[1], g) IN [rc |-> o.rc, op |-> [op EXCEPT !.k[1] = o.op]]
    [] OTHER -> [rc |-> "SUCCESS", op |-> op]
NextOper(op, g) == CASE op.o \in {"SCAN", "ISCAN"} -> ScanNext(op, g)
                     [] op.o = "PRED" -> PredicateNext(op, g)
                     [] op.o = "PROJ" -> ProjectNext(op, g)
                     [] op.o = "NLJ" -> JoinNext(op, g)
                     [] op.o \in {"DEL", "INS"} -> Eof(op)
                     [] OTHER -> ResultNext(op, g)

-----------------------------------------------------------------------------
(* What INSERT and DELETE change. *)

\* A row goes into the first free slot.
Place(file, row) == LET free == {i \in DOMAIN file : file[i] = <<>>}
                    IN IF free = {} THEN Append(file, row) ELSE [file EXCEPT ![Min(free)] = row]
\* A statement changes its rows one by one, and any of the calls may fail: the n-th does
\* (a full file, a unique index, an I/O error), or none if n is 0.
Outcome(n, bound) == IF n \in 1 .. bound THEN "INTERNAL" ELSE "SUCCESS"
Before(list, n) == IF n \in DOMAIN list THEN SubSeq(list, 1, n - 1) ELSE list
\* InsertPhysicalOperator::open: the rows before one that cannot be made, or that the
\* transaction does not take, stay.
InsertOpen(op, n) ==
  LET made == [i \in DOMAIN op.vals |-> IF i = n THEN Fail("INTERNAL") ELSE MakeRecord(op.t, op.vals[i])]
      bad == {i \in DOMAIN made : ~Okay(made[i])}
      first == IF bad = {} THEN 0 ELSE Min(bad)
  IN [rc |-> IF bad = {} THEN "SUCCESS" ELSE made[first].rc,
      file |-> FoldLeft(LAMBDA file, r : Place(file, r.v), rows[op.t], Before(made, first))]
\* DeletePhysicalOperator::next goes through its child in one call, and says it is
\* at the end even if an error of the child stopped it.
Without(file, ts) == LET gone == {ts[i].pos : i \in DOMAIN ts} IN [i \in DOMAIN file |-> IF i \in gone THEN <<>> ELSE file[i]]
Deleted(op, n) ==
  LET found == IF op.k = <<>> THEN <<>> ELSE Drain(op.k[1], NoTuple)
  IN [rc |-> Outcome(n, Len(found)), rows |-> [rows EXCEPT ![op.t] = Without(@, Before(found, n))]]

-----------------------------------------------------------------------------
(* Subqueries.  They run without the rewriting and with no more than an     *)
(* aggregation on top: GROUP BY and ORDER BY have no effect.                *)

SubAggregation(stmt, p) == IF stmt.hasAgg THEN AggOper(stmt, p) ELSE p
\* The rows and the first column; a cell that cannot be read is left out.
FirstColumn(ts, g) == SelectSeq([i \in DOMAIN ts |-> CellAt(ts[i], 1, g)], Okay)
SubRows(ts, g) == [rc |-> "SUCCESS", n |-> Len(ts), vals |-> [i \in DOMAIN FirstColumn(ts, g) |-> FirstColumn(ts, g)[i].v]]
SubResult(o, g) == IF Okay(o) THEN SubRows(Drain(o.op, g), g) ELSE [rc |-> o.rc, n |-> 0, vals |-> <<>>]
RunSubquery(stmt, g) == SubResult(OpOpen(SubAggregation(stmt, Physical(LogicalPlan(stmt))), g), g)

ExistsOps == {"EXISTS", "NOT EXISTS"}
InOps == {"IN", "NOT IN"}
\* The outcome of a correlated condition for one row.  Here NULL is unequal.
LambdaIn(op, vals, other) == (\E i \in DOMAIN vals : Compare(other, vals[i]) = 0) = (op = "IN")
InLambda(op, r, vals) == IF Okay(r) THEN Ok(BoolV(LambdaIn(op, vals, r.v))) ELSE r
LambdaScalar(op, res, other, right) ==
  /\ res.n = 1 /\ res.vals # <<>>
  /\ CompareValue(op, IF right THEN other ELSE res.vals[1], IF right THEN res.vals[1] ELSE other).v
LambdaOutcome(op, res, other, right) ==
  CASE op \in ExistsOps -> (res.n > 0) = (op = "EXISTS")
    [] op \in InOps -> LambdaIn(op, res.vals, other)
    [] OTHER -> LambdaScalar(op, res, other, right)
\* A subquery that cannot be resolved makes the condition false.
EvalLambda(e, t) ==
  LET c == CreateSelect(e.q.sel, e.q.outer, e.q.aliases)
      res == RunSub(c.v, t)
      other == IF e.k = <<>> THEN Undefined ELSE ValueOr(Eval(e.k[1], t, NoTuple), Undefined)
  IN CASE ~Okay(c) -> Ok(BoolV(FALSE))
       [] Okay(c) /\ ~Okay(res) -> [rc |-> res.rc, v |-> Null]
       [] OTHER -> Ok(BoolV(LambdaOutcome(e.op, res, other, e.q.right)))

GetValue(e, t, g) == CASE e.e = "VALUE" -> Ok(e.v)
                       [] e.e = "FIELD" -> Find(t, FieldSpec(e.t, e.f), g)
                       [] e.e = "CORR" -> EvalCorrelated(e, g)
                       [] e.e = "AGG" -> Find(t, NameSpec(e.name), g)
                       [] e.e \in {"CMP", "ARITH", "FUNC"} -> EvalChildren(e, t, g)
                       [] e.e = "CONJ" -> EvalConjunction(e, t, g)
                       [] e.e = "LAMBDA" -> EvalLambda(e, t)
                       [] e.e = "INLAMBDA" -> InLambda(e.op, Eval(e.k[1], t, g), e.vals)
                       [] OTHER -> Internal

\* The other side of a condition as a FilterObj: a field or a value.
Simple(e) == e.e \in {"FIELD", "VALUE"}
Lambda(op, sq, other, right, outer, aliases) ==
  [Node("LAMBDA", op, IF Simple(other) THEN <<other>> ELSE <<>>)
   EXCEPT !.q = [sel |-> CloneSelectNode(sq.q), outer |-> outer, aliases |-> aliases, right |-> right]]

\* A value in a list: one comparison for each.
InUnit(op, e, vals) ==
  LET cmp == IF op = "IN" THEN "=" ELSE "<>"
      each == [i \in DOMAIN vals |-> Cmp(cmp, e, Val(vals[i]))]
  IN Custom(IF vals = <<>> THEN Val(BoolV(op = "NOT IN"))
            ELSE Node("CONJ", IF op = "IN" THEN "OR" ELSE "AND", each))

\* An expression in a list is tested row by row; before a subquery it is forgotten.
ListUnit(op, e, vals) == IF Simple(e) THEN InUnit(op, e, vals)
                         ELSE Custom([Node("INLAMBDA", op, <<e>>) EXCEPT !.vals = vals])
OtherObj(e) == IF Simple(e) THEN e ELSE Val(Undefined)

\* The second subquery of a condition with two; it stays when it has not one row.
OtherSide(e, sc) ==
  LET c == CreateSelect(e.q, sc.outer, NoMap)
      res == RunSub(c.v, NoTuple)
  IN IF e.e = "SUBQ" /\ Okay(c) /\ res.n = 1 /\ res.vals # <<>> THEN Val(res.vals[1]) ELSE e
PlainUnit(op, l, r) == Unit(IF Simple(l) /\ Simple(r) /\ "FIELD" \in {l.e, r.e} THEN "OBJ" ELSE "EXPR", op, l, r)
\* A scalar subquery is replaced by its value; two simple sides are objects, two
\* constants too.
ReplacedUnit(op, l, r) == IF Simple(l) /\ Simple(r) THEN Unit("OBJ", op, l, r) ELSE PlainUnit(op, l, r)
ScalarUnit(op, l, r, right, res, sc) ==
  CASE res.n > 1 -> Fail("INVALID_ARGUMENT")
    [] res.n <= 1 /\ res.vals = <<>> -> Ok(Custom(Val(BoolV(FALSE))))
    [] OTHER -> Ok(IF right THEN ReplacedUnit(op, OtherSide(l, sc), Val(res.vals[1])) ELSE ReplacedUnit(op, Val(res.vals[1]), r))
\* A subquery that needs no outer row is run now.  The list of its columns is gone when
\* IN counts them, so only a * is refused.
ResultUnit(op, l, r, right, sel, res, sc) ==
  CASE op \in ExistsOps -> Ok(Custom(Val(BoolV((res.n > 0) = (op = "EXISTS")))))
    [] op \in InOps -> IF sel.star THEN Fail("INVALID_ARGUMENT") ELSE Ok(InUnit(op, OtherObj(IF right THEN l ELSE r), res.vals))
    [] OTHER -> ScalarUnit(op, l, r, right, res, sc)
RunUnit(op, l, r, right, sel, res, sc) == IF Okay(res) THEN ResultUnit(op, l, r, right, sel, res, sc) ELSE Fail(res.rc)
CreatedUnit(op, l, r, right, sq, c, sc) ==
  LET outer == sc.map @@ sc.outer
  IN IF SelectNodeHasCorrelation(sq.q, outer, sc.aliases) \/ (Okay(c) /\ FilterHasCorrelated(c.v.units))
     THEN Ok(Custom(Lambda(op, sq, IF right THEN l ELSE r, right, outer, sc.aliases)))
     ELSE IF ~Okay(c) THEN Fail(c.rc)
     ELSE RunUnit(op, l, r, right, sq.q, RunSub(c.v, NoTuple), sc)
\* It is resolved in this query and, when a table is missing, in the outer one.
CreateSubquery(q, sc) == LET own == CreateSelect(q, sc.map, sc.aliases)
                         IN IF own.rc = "SCHEMA_TABLE_NOT_EXIST" /\ DOMAIN sc.outer # {}
                            THEN CreateSelect(q, sc.outer, sc.aliases) ELSE own
SubqueryOf(op, l, r, right, sq, sc) == CreatedUnit(op, l, r, right, sq, CreateSubquery(sq.q, sc), sc)
SubqueryUnit(op, l, r, sc) == SubqueryOf(op, l, r, r.e = "SUBQ", IF r.e = "SUBQ" THEN r ELSE l, sc)

\* A date and a string are not compared, if the sides are objects of a plain condition.
DateMismatch(u) == /\ u.kind = "OBJ" /\ {u.l.e, u.r.e} = {"FIELD", "VALUE"}
                   /\ {ValueType(u.l), ValueType(u.r)} = {"DATES", "CHARS"}
                   /\ (IF u.l.e = "FIELD" THEN ValueType(u.l) ELSE ValueType(u.r)) = "DATES"
CheckedUnit(u) == IF DateMismatch(u) THEN Fail("INVALID_ARGUMENT") ELSE Ok(u)
UnitOf(op, l, r, sc) ==
  IF op \in InOps /\ "INLIST" \in {l.e, r.e}
  THEN Ok(IF r.e = "INLIST" THEN ListUnit(op, l, r.vals) ELSE ListUnit(op, r, l.vals))
  ELSE IF "SUBQ" \in {l.e, r.e} THEN SubqueryUnit(op, l, r, sc)
  ELSE CheckedUnit(PlainUnit(op, l, r))
UnitOfSides(op, sides, sc) == IF Okay(sides) THEN UnitOf(op, sides.v[1], sides.v[2], sc) ELSE Fail(sides.rc)
CreateFilterUnit(c, sc) == UnitOfSides(c.op, AllOf(<<ResolveExpr(c.l, sc), ResolveExpr(c.r, sc)>>), sc)
\* FilterStmt::create.
CreateFilter(conds, sc) == AllOf([i \in DOMAIN conds |-> CreateFilterUnit(conds[i], sc)])

-----------------------------------------------------------------------------
(* Statements. *)

NoStmt == [kind |-> "NONE", tables |-> <<>>, fields |-> <<>>, exprs |-> <<>>, ordered |-> FALSE, units |-> <<>>,
           having |-> <<>>, aggs |-> <<>>, hasAgg |-> FALSE, order |-> <<>>, group |-> <<>>, vals |-> <<>>]

\* SelectStmt::create.  Without FROM the list is calculated.
FinalSelect(sel, list, group, units, having) ==
  [NoStmt EXCEPT !.kind = IF sel.rel = <<>> /\ list.fields = <<>> /\ ~list.has /\ list.exprs # <<>> /\ units = <<>>
                          THEN "CALC" ELSE "SELECT",
     !.tables = [i \in DOMAIN sel.rel |-> FindTable(sel.rel[i])], !.fields = list.fields, !.exprs = list.exprs,
     !.ordered = OrderedProjection(sel), !.units = units, !.having = having, !.aggs = list.aggs,
     !.hasAgg = list.has, !.order = sel.order, !.group = group]
ListedSelect(sel, list, parts) ==
  CASE ~Okay(list) -> Fail(list.rc)
    [] Okay(list) /\ list.has /\ list.fields # <<>> /\ sel.group = <<>> -> Fail("INVALID_ARGUMENT")
    [] OTHER -> IF Okay(parts) THEN Ok(FinalSelect(sel, list, parts.v[1], parts.v[2], parts.v[3])) ELSE Fail(parts.rc)
SelectIn(sel, sc, aliases) ==
  ListedSelect(sel, SelectList(sel, sc),
               AllOf(<<GroupFields(sel, sc), FilterStmt(FilterConditions(sel.rel, sel.conds), sc),
                       FilterStmt(sel.having, [sc EXCEPT !.aliases = MergeAliases(aliases, ColumnAliases(sel, sc.map, sc.default))])>>))
SelectStmt(sel, outer, aliases) ==
  IF MissingTable(sel.rel) THEN Fail("SCHEMA_TABLE_NOT_EXIST")
  ELSE IF AliasConflict(sel) THEN Fail("INVALID_ARGUMENT")
  ELSE SelectIn(sel, Scope(TableMap(sel), DefaultTable(sel), outer, NoMap), aliases)

Call(f, x, y, z) == CASE f = "find_cell" -> FindCell(x, y, z)
                      [] f = "cell_at" -> TupleCell(x, y, z)
                      [] f = "get_value" -> GetValue(x, y, z)
                      [] f = "filter_unit" -> EvalFilterUnit(x, y, z)
                      [] f = "open" -> OpenOper(x, y)
                      [] f = "next" -> NextOper(x, y)
                      [] f = "subquery" -> RunSubquery(x, y)
                      [] f = "filter" -> CreateFilter(x, y)
                      [] f = "select" -> SelectStmt(x, y, z)

\* The names UPDATE and DELETE know: the relation and the table behind it.
OneTableScope(rel) == Scope([n \in Names(<<rel>>) |-> FindTable(rel)], FindTable(rel), NoMap, NoMap)
TableFilter(rel, conds) == FilterStmt(FilterConditions(<<rel>>, conds), OneTableScope(rel))
FilteredStmt(kind, t, vals, units) ==
  IF Okay(units) THEN Ok([NoStmt EXCEPT !.kind = kind, !.tables = <<t>>, !.units = units.v, !.vals = vals]) ELSE Fail(units.rc)
CreateDelete(d) == IF FindTable(d.rel) = "" THEN Fail("SCHEMA_TABLE_NOT_EXIST")
                   ELSE FilteredStmt("DELETE", FindTable(d.rel), <<>>, TableFilter(d.rel, d.conds))
StoringStmt(t, r) == IF Okay(r) THEN Ok([NoStmt EXCEPT !.kind = "INSERT", !.tables = <<t>>, !.vals = r.v]) ELSE Fail(r.rc)
CreateInsert(i) == StoringStmt(FindTable(i.rel), InsertStmt(i.rel, i.vals))
\* UpdateStmt::create; vals is the list of the assignments.
CreateUpdate(u) ==
  LET t == FindTable(u.rel)
  IN CASE t = "" -> Fail("SCHEMA_TABLE_NOT_EXIST")
       [] t # "" /\ \E i \in DOMAIN u.sets : ~HasField(t, u.sets[i].f) -> Fail("SCHEMA_FIELD_NOT_EXIST")
       [] OTHER -> FilteredStmt("UPDATE", t, u.sets, TableFilter(u.rel, u.conds))

-----------------------------------------------------------------------------
(* The UPDATE executor. *)

\* The relations of a subquery are checked before anything is read.
ValidateExpr(e) == CASE e.e = "SUBQ" -> ValidateSelect(e.q)
                     [] e.e \in {"ARITH", "CMP", "CONJ", "FUNC"} -> AllOf([i \in DOMAIN e.k |-> ValidateExpr(e.k[i])])
                     [] OTHER -> Ok(Null)
ValidAfter(inner, sel) == IF Okay(inner) THEN CreateSelect(CloneSqlSelect(sel), NoMap, NoMap) ELSE Fail(inner.rc)
ValidateSelect(sel) ==
  LET sides == FlattenSeq([i \in DOMAIN sel.conds |-> <<sel.conds[i].l, sel.conds[i].r>>]
                          \o [i \in DOMAIN sel.having |-> <<sel.having[i].l, sel.having[i].r>>])
      exprs == [i \in DOMAIN sel.exprs |-> sel.exprs[i].expr] \o sides
  IN IF MissingTable(sel.rel) THEN Fail("SCHEMA_TABLE_NOT_EXIST")
     ELSE ValidAfter(AllOf([i \in DOMAIN exprs |-> ValidateExpr(exprs[i])]), sel)

\* A field of a plain condition is read from the bytes: the forced NULLs are not known here.
RawRow(t, pos) == [RowTuple(t, pos) EXCEPT !.cells =
                     [i \in DOMAIN @ |-> IF IsNull(@[i]) /\ ~Schema[t][i].nullable THEN Zero(Schema[t][i].type) ELSE @[i]]]
EvalUpdateUnit(u, t, pos) == EvalUnit(u, IF u.kind = "OBJ" THEN RawRow(t, pos) ELSE RowTuple(t, pos), NoTuple)
\* Whether a row is to be updated: the first condition that fails or is false decides.
FirstStop(rs) == LET stops == {i \in DOMAIN rs : rs[i] # Ok(TRUE)} IN IF stops = {} THEN Ok(TRUE) ELSE rs[Min(stops)]
MatchUpdate(stmt, pos) == FirstStop([i \in DOMAIN stmt.units |-> EvalUpdateUnit(stmt.units[i], stmt.tables[1], pos)])

\* eval_scalar_subquery: NULL for no row.
ScalarOf(res) == CASE ~Okay(res) -> Fail(res.rc)
                   [] Okay(res) /\ Len(res.vals) > 1 -> Fail("INVALID_ARGUMENT")
                   [] OTHER -> Ok(IF res.vals = <<>> THEN Null ELSE res.vals[1])
RunCreated(c) == IF Okay(c) THEN ScalarOf(RunSub(c.v, NoTuple)) ELSE Fail(c.rc)
EvalScalar(sel) == RunCreated(CreateSelect(sel, NoMap, NoMap))
Assigned(set) == IF set.e.e = "SUBQ" THEN EvalScalar(set.e.q) ELSE Ok(set.e.v)
Coerced(t, set, v) == CoerceUpdateValue(Schema[t][FieldIndex(t, set.f)], v)

\* Mutant: the first assignment to a column counts, and NULL is not made zeros.
NewRow_First(t, row, sets, vs) ==
  [i \in DOMAIN row |-> LET by == {j \in DOMAIN sets : sets[j].f = Schema[t][i].name}
                        IN IF by = {} THEN row[i] ELSE vs[Min(by)]]
\* The row with its assignments, of two to one column the last.
NewRow(t, row, sets, vs) ==
  [i \in DOMAIN row |-> LET by == {j \in DOMAIN sets : sets[j].f = Schema[t][i].name}
                        IN IF by = {} THEN row[i]
                           ELSE IF IsNull(vs[Max(by)]) THEN Zero(Schema[t][i].type) ELSE vs[Max(by)]]
\* A row is made anew, deleted and inserted again, one row after the other; not through
\* the transaction, whose rollback finds nothing to undo.
Replace(t, sets, vs, file, pos) == Place([file EXCEPT ![pos] = <<>>], NewRow(t, file[pos], sets, vs))
\* Two calls for each row, and the commit: what the n-th leaves when it fails.  A row
\* that was deleted and is not inserted is gone.
ReplaceUntil(t, sets, vs, found, n) ==
  LET whole == Before(found, (n + 1) \div 2)
      file == FoldLeft(LAMBDA f, p : Replace(t, sets, vs, f, p), rows[t], whole)
  IN IF n \in 1 .. 2 * Len(found) /\ n % 2 = 0 THEN [file EXCEPT ![found[n \div 2]] = <<>>] ELSE file
\* UpdateExecutor::execute: a statement that finds no row does not look at its values.
Unchanged(rc) == [rc |-> rc, rows |-> rows]
Coercions(t, sets, given) ==
  IF Okay(given) THEN AllOf([i \in DOMAIN sets |-> Coerced(t, sets[i], given.v[i])]) ELSE given
ReplaceRows(t, sets, found, vs, n) ==
  IF Okay(vs) THEN [rc |-> Outcome(n, 2 * Len(found) + 1), rows |-> [rows EXCEPT ![t] = ReplaceUntil(t, sets, vs.v, found, n)]]
  ELSE Unchanged(vs.rc)
UpdateFound(t, sets, found, n) ==
  IF found = <<>> THEN Unchanged(Outcome(n, 1))
  ELSE ReplaceRows(t, sets, found, Coercions(t, sets, AllOf([i \in DOMAIN sets |-> Assigned(sets[i])])), n)
UpdateMatches(t, sets, live, matches, n) ==
  IF AllOf(matches).rc = "SUCCESS"
  THEN UpdateFound(t, sets, SelectSeq(live, LAMBDA p : matches[CHOOSE i \in DOMAIN live : live[i] = p].v), n)
  ELSE Unchanged(AllOf(matches).rc)
UpdateValid(stmt, live, valid, n) ==
  IF Okay(valid) THEN UpdateMatches(stmt.tables[1], stmt.vals, live, [i \in DOMAIN live |-> MatchUpdate(stmt, live[i])], n)
  ELSE Unchanged(valid.rc)
Update(stmt, n) == UpdateValid(stmt, LiveRows(stmt.tables[1]), AllOf([i \in DOMAIN stmt.vals |-> ValidateExpr(stmt.vals[i].e)]), n)
=============================================================================
