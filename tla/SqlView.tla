------------------------------- MODULE SqlView -------------------------------
(***************************************************************************)
(* The rows of a view that CREATE VIEW stores (create_view_executor.cpp):  *)
(* the expressions of one table, and the self join with a COUNT and a sum  *)
(* of two SUMs, which is computed without joining.                         *)
(***************************************************************************)
EXTENDS SqlExec

\* The columns of the new table: a field keeps its type, an expression has its own.
ViewColumn(e) == IF e.e = "FIELD" THEN Schema[e.t][FieldIndex(e.t, e.f)]
                 ELSE [name |-> "", nullable |-> TRUE,
                       type |-> IF ValueType(e) \in {"UNDEFINED", "NULLS"} THEN "CHARS" ELSE ValueType(e)]
\* make_record for such a table, and the row as it is read again.
StoreAndRead(cols, vals) ==
  IF \E i \in DOMAIN vals : IF IsNull(vals[i]) THEN ~cols[i].nullable
                            ELSE ~TypeFits(cols[i], vals[i]) /\ <<cols[i].type, vals[i].type>> # <<"INTS", "FLOATS">>
  THEN Fail("SCHEMA_FIELD_TYPE_MISMATCH")
  ELSE Ok([i \in DOMAIN vals |->
             ReadCell(cols[i], CASE IsNull(vals[i]) -> Zero(cols[i].type)
                                 [] <<cols[i].type, vals[i].type>> = <<"INTS", "FLOATS">> -> IntV(Truncate(Round(vals[i].n, 0)))
                                 [] OTHER -> vals[i])])

\* materialize_simple_expression_view: the rows up to the first that fails.
ViewRow(t, p, exprs) == AllOf([i \in DOMAIN exprs |-> Eval(exprs[i], RowTuple(t, p), NoTuple)])
StoredRow(exprs, vs) == IF Okay(vs) THEN StoreAndRead([i \in DOMAIN exprs |-> ViewColumn(exprs[i])], vs.v) ELSE vs
UpToError(rs) ==
  LET bad == {i \in DOMAIN rs : ~Okay(rs[i])}
      kept == IF bad = {} THEN Len(rs) ELSE Min(bad) - 1
  IN [rc |-> IF bad = {} THEN "SUCCESS" ELSE rs[Min(bad)].rc, out |-> [i \in 1 .. kept |-> rs[i].v]]
MaterializedRows(t, live, exprs) ==
  IF Okay(exprs) THEN UpToError([i \in DOMAIN live |-> StoredRow(exprs.v, ViewRow(t, live[i], exprs.v))])
  ELSE [rc |-> exprs.rc, out |-> <<>>]
ViewScope(sel, t) == Scope([n \in {sel.rel[1]} \cup ({sel.alias[i] : i \in DOMAIN sel.alias} \ {""}) |-> t], t, NoMap, NoMap)
SimpleView(sel) ==
  LET t == FindTable(sel.rel[1])
  IN IF t = "" THEN [rc |-> "SCHEMA_TABLE_NOT_EXIST", out |-> <<>>]
     ELSE MaterializedRows(t, LiveRows(t), AllOf([i \in DOMAIN sel.exprs |-> ResolveExpr(CloneSql(sel.exprs[i].expr), ViewScope(sel, t))]))

-----------------------------------------------------------------------------
(* SELECT COUNT(x.f), SUM(x.g) + SUM(y.g) FROM t x, t y WHERE x.f = y.f.    *)

IsColumn(e) == e.e = "UNBOUND" /\ e.f # ""
JoinCondition(c) == c.op = "=" /\ IsColumn(c.l) /\ IsColumn(c.r) /\ c.l.f = c.r.f
ItemAggregation(item) == IF item.agg # "" THEN [fn |-> item.agg, t |-> item.t, f |-> item.f]
                         ELSE IF item.expr.e = "AGG" THEN [fn |-> item.expr.op, t |-> item.expr.t, f |-> item.expr.f]
                         ELSE [fn |-> "", t |-> "", f |-> ""]
IsSum(e) == e.e = "AGG" /\ e.op = "SUM"

\* match_fast_self_join_agg.
MatchSelfJoin(sel) ==
  /\ Len(sel.rel) = 2 /\ sel.rel[1] = sel.rel[2]
  /\ Len(sel.alias) = 2 /\ "" \notin {sel.alias[1], sel.alias[2]} /\ sel.alias[1] # sel.alias[2]
  /\ Len(sel.conds) = 1 /\ Len(sel.exprs) = 2 /\ ~sel.star
  /\ sel.group = <<>> /\ sel.having = <<>> /\ sel.order = <<>>
  /\ LET c == sel.conds[1]
         count == ItemAggregation(sel.exprs[1])
         data == sel.exprs[2].expr
         aliases == {sel.alias[1], sel.alias[2]}
     IN /\ JoinCondition(c) /\ {c.l.t, c.r.t} = aliases
        /\ count.fn = "COUNT" /\ count.f = c.l.f /\ count.t \in aliases
        /\ data.e = "ARITH" /\ data.op = "+" /\ IsSum(data.k[1]) /\ IsSum(data.k[2])
        /\ data.k[1].f = data.k[2].f /\ {data.k[1].t, data.k[2].t} = aliases

\* The rows of the join that a value of n rows gives.
PairCount(n) == n * n

\* materialize_fast_self_join_agg: from the number and the sum of the rows of each value.
StoredCell(t, p, f) == RowTuple(t, p).cells[FieldIndex(t, f)]
JoinedRows(t, join) == SelectSeq(LiveRows(t), LAMBDA p : ~IsNull(StoredCell(t, p, join)))
\* Its rows for each value of the join column.
ByValue(t, join, ps) == LET Value(p) == GetInt(StoredCell(t, p, join))
                        IN [x \in {Value(ps[i]) : i \in DOMAIN ps} |-> SelectSeq(ps, LAMBDA p : Value(p) = x)]
PairTotal(by) == FoldSet(LAMBDA x, acc : acc + PairCount(Len(by[x])), 0, DOMAIN by)
\* Each row of a value of n rows is n times on the left and n times on the right.
AddTwice(acc, n, s) == Frac(acc[1] * s[2] + 2 * n * s[1] * acc[2], acc[2] * s[2])
PairSum(t, sum, by) ==
  FoldSet(LAMBDA x, acc : AddTwice(acc, Len(by[x]), Total([i \in DOMAIN by[x] |-> StoredCell(t, by[x][i], sum)])), <<0, 1>>, DOMAIN by)
SumCell(type, count, data) == IF count = 0 THEN Null ELSE IF type = "INTS" THEN IntV(Truncate(Round(data, 0))) ELSE Number("FLOATS", data)
SelfJoinRow(t, sum, by) ==
  LET Nullable(type) == [name |-> "", type |-> type, nullable |-> TRUE]
  IN StoreAndRead(<<Nullable("INTS"), Nullable(FieldType(t, sum))>>,
                  <<IntV(PairTotal(by)), SumCell(FieldType(t, sum), PairTotal(by), PairSum(t, sum, by))>>).v
SelfJoinView(sel) ==
  LET t == FindTable(sel.rel[1])
      join == sel.conds[1].l.f
      sum == sel.exprs[2].expr.k[1].f
  IN IF t = "" THEN [rc |-> "SCHEMA_TABLE_NOT_EXIST", out |-> <<>>]
     ELSE IF ~HasField(t, join) \/ ~HasField(t, sum) THEN [rc |-> "UNIMPLENMENT", out |-> <<>>]
     ELSE IF FieldType(t, join) # "INTS" \/ FieldType(t, sum) \notin Numeric THEN [rc |-> "UNIMPLENMENT", out |-> <<>>]
     ELSE [rc |-> "SUCCESS", out |-> <<SelfJoinRow(t, sum, ByValue(t, join, JoinedRows(t, join)))>>]
=============================================================================
