------------------------------- MODULE SqlPlan -------------------------------
(***************************************************************************)
(* Expressions and plans: the parts of an expression that need no row      *)
(* (try_get_value, clones, table references), the logical plan             *)
(* (logical_plan_generator.cpp), its rewriting (sql/optimizer) and the     *)
(* physical plan (physical_plan_generator.cpp, optimize_stage.cpp).        *)
(*                                                                         *)
(* An expression is a record: its kind e, an operator or function name op, *)
(* a table and a field, a value, its children k, an output name, the       *)
(* values of an IN list, and the SELECT of a subquery.  A name is a        *)
(* sequence: <<"t", "f">> is "t.f".                                        *)
(***************************************************************************)
EXTENDS SqlValues

CONSTANTS
  Schema,    \* the tables: a sequence of [name, type, nullable] for each
  Indexes    \* the fields of a table that have an index of their own

RECURSIVE TryGet(_), ValueType(_), CloneExprTree(_), TableRefs(_), RewriteExpr(_),
          RewriteExprs(_), Pushdown(_), Rewrite(_), Physical(_), JoinTables(_, _)

-----------------------------------------------------------------------------
(* Expressions. *)

NoExpr == [e |-> "NONE", op |-> "", t |-> "", f |-> "", v |-> Null, k |-> <<>>,
           name |-> <<>>, vals |-> <<>>, q |-> <<>>]
Node(e, op, k) == [NoExpr EXCEPT !.e = e, !.op = op, !.k = k]
Column(e, t, f) == [NoExpr EXCEPT !.e = e, !.t = t, !.f = f]
Field(t, f) == Column("FIELD", t, f)
Unbound(t, f) == Column("UNBOUND", t, f)
Val(v) == [NoExpr EXCEPT !.e = "VALUE", !.v = v]
Cmp(op, l, r) == Node("CMP", op, <<l, r>>)
AggName(f) == IF f = "*" THEN <<"count(*)">> ELSE <<f>>
Agg(fn, t, f) == [Column("AGG", t, f) EXCEPT !.op = fn, !.name = AggName(f)]

FieldIndex(t, f) == IF \E i \in DOMAIN Schema[t] : Schema[t][i].name = f
                    THEN CHOOSE i \in DOMAIN Schema[t] : Schema[t][i].name = f ELSE 0
HasField(t, f) == FieldIndex(t, f) # 0
FieldType(t, f) == Schema[t][FieldIndex(t, f)].type

ValueType(e) == CASE e.e \in {"FIELD", "CORR"} -> FieldType(e.t, e.f)
                  [] e.e = "VALUE" -> e.v.type
                  [] e.e \in {"CMP", "CONJ", "LAMBDA", "INLAMBDA"} -> "BOOLEANS"
                  [] e.e = "ARITH" -> ArithType(e.op, [i \in DOMAIN e.k |-> ValueType(e.k[i])])
                  [] e.e = "FUNC" -> FunctionType(e.op, e.k)
                  [] OTHER -> "UNDEFINED"

\* The values of the children, or the first error.
AllOf(rs) == IF \E i \in DOMAIN rs : rs[i].rc # "SUCCESS"
             THEN rs[CHOOSE i \in DOMAIN rs : /\ rs[i].rc # "SUCCESS"
                                              /\ \A j \in 1 .. (i - 1) : rs[j].rc = "SUCCESS"]
             ELSE Ok([i \in DOMAIN rs |-> rs[i].v])

\* What an operator makes of the values of its children.
Boolean(c) == [rc |-> c.rc, v |-> BoolV(c.v)]
Apply(e, vs) == CASE e.e = "CMP" -> Boolean(CompareValue(e.op, vs[1], vs[2]))
                  [] e.e = "ARITH" -> Ok(CalcValue(e.op, ValueType(e), vs[1], vs[Len(vs)]))
                  [] OTHER -> EvalFunction(e.op, vs)

Applied(e, vs) == IF vs.rc = "SUCCESS" THEN Apply(e, vs.v) ELSE vs

\* try_get_value: the value of an expression without a row; a field and a
\* conjunction have none.
TryGet(e) == CASE e.e = "VALUE" -> Ok(e.v)
               [] e.e \in {"CMP", "ARITH", "FUNC"} ->
                    Applied(e, AllOf([i \in DOMAIN e.k |-> TryGet(e.k[i])]))
               [] OTHER -> [rc |-> "UNIMPLENMENT", v |-> Null]

\* clone_expr_tree: a subquery that is still there becomes TRUE.
CloneExprTree(e) ==
  CASE e.e \in {"NONE", "VALUE"} -> e
    [] e.e \in {"FIELD", "CORR"} -> Column(e.e, e.t, e.f)
    [] e.e = "AGG" -> Agg(e.op, e.t, e.f)
    [] e.e \in {"ARITH", "CONJ", "CMP", "FUNC"} ->
         Node(e.e, e.op, [i \in DOMAIN e.k |-> CloneExprTree(e.k[i])])
    [] OTHER -> Val(BoolV(TRUE))

\* collect_table_refs.
TableRefs(e) == CASE e.e = "FIELD" -> {e.t}
                  [] e.e = "AGG" -> {e.t} \ {""}
                  [] e.e \in {"ARITH", "CMP", "CONJ", "FUNC"} -> UNION {TableRefs(e.k[i]) : i \in DOMAIN e.k}
                  [] OTHER -> {}

-----------------------------------------------------------------------------
(* The logical plan.  A condition of a statement is a FilterUnit: two       *)
(* simple sides ("OBJ"), two expressions ("EXPR") or one ("CUSTOM").        *)

Oper(o, k) == [o |-> o, k |-> k, t |-> "", e |-> <<>>, fields |-> <<>>, preds |-> <<>>, ro |-> TRUE,
               vals |-> <<>>]
Get(t, ro) == [Oper("GET", <<>>) EXCEPT !.t = t, !.ro = ro]
Predicate(e, k) == [Oper("PREDICATE", k) EXCEPT !.e = <<e>>]

Unit(kind, comp, l, r) == [kind |-> kind, comp |-> comp, l |-> l, r |-> r]
Custom(e) == Unit("CUSTOM", "NO_OP", e, NoExpr)
\* left() and right(): unset objects in a unit of expressions.
Obj(u, side) == IF u.kind = "OBJ" THEN side ELSE Val(Undefined)

UnitExpr(u) == CASE u.kind = "CUSTOM" -> IF u.l.e \in {"LAMBDA", "INLAMBDA"} THEN u.l ELSE CloneExprTree(u.l)
                 [] u.kind = "EXPR" -> Cmp(u.comp, CloneExprTree(u.l), CloneExprTree(u.r))
                 [] OTHER -> Cmp(u.comp, u.l, u.r)
UnitExprs(us) == [i \in DOMAIN us |-> UnitExpr(us[i])]
WithFilter(us, oper) == IF us = <<>> THEN oper ELSE Predicate(Node("CONJ", "AND", UnitExprs(us)), <<oper>>)
\* The comparisons of the simple sides, whatever the units are.
ObjExprs(us) == [i \in DOMAIN us |-> Cmp(us[i].comp, Obj(us[i], us[i].l), Obj(us[i], us[i].r))]

UnitRefs(u) == TableRefs(u.l) \cup (IF u.kind = "CUSTOM" THEN {} ELSE TableRefs(u.r))
Many(refs) == Cardinality(refs) > 1
\* Two constants in simple sides are taken for a tautology and dropped.
OnTop(u) == UnitRefs(u) = {} /\ u.kind # "OBJ"

\* A table with the conditions on it alone.  They go by the table's name, so each
\* occurrence of a table gets them.
TableOper(t, units) == WithFilter(SelectSeq(units, LAMBDA u : UnitRefs(u) = {t}), Get(t, TRUE))

\* The tables are joined from the left; a condition on several tables is put where
\* the last of them joins.
FirstTables(stmt, n) == {stmt.tables[i] : i \in 1 .. n}
CoveredAt(stmt, n, refs) == Many(refs) /\ refs \subseteq FirstTables(stmt, n) /\ ~(refs \subseteq FirstTables(stmt, n - 1))
JoinNth(stmt, n, right) == IF n = 1 THEN right ELSE Oper("JOIN", <<JoinTables(stmt, n - 1), right>>)
JoinTables(stmt, n) == WithFilter(SelectSeq(stmt.units, LAMBDA u : CoveredAt(stmt, n, UnitRefs(u))),
                                  JoinNth(stmt, n, TableOper(stmt.tables[n], stmt.units)))

\* The conditions left: on tables that are not there, and on no table.
Lost(stmt, refs) == Many(refs) /\ ~(refs \subseteq FirstTables(stmt, Len(stmt.tables)))
TopExprs(stmt) == ObjExprs(SelectSeq(stmt.units, LAMBDA u : Lost(stmt, UnitRefs(u))))
                  \o UnitExprs(SelectSeq(stmt.units, OnTop))

\* The output of the projection: expressions when there are any.
ProjectExprs(stmt) == IF stmt.exprs = <<>> THEN <<>>
                      ELSE (IF stmt.ordered THEN <<>>
                            ELSE [i \in DOMAIN stmt.fields |-> Field(stmt.fields[i].t, stmt.fields[i].f)])
                           \o stmt.exprs

TopFilter(top, tree) == IF top = <<>> THEN tree ELSE <<Predicate(Node("CONJ", "AND", top), tree)>>
TableTree(stmt) == IF stmt.tables = <<>> THEN <<>> ELSE <<JoinTables(stmt, Len(stmt.tables))>>
SelectPlan(stmt) == [Oper("PROJECT", TopFilter(TopExprs(stmt), TableTree(stmt)))
                     EXCEPT !.fields = stmt.fields, !.e = ProjectExprs(stmt)]
ExplainPlan(stmt, p) == IF stmt.kind = "EXPLAIN" THEN Oper("EXPLAIN", <<p>>) ELSE p

\* The condition of a DELETE, made from the simple sides whatever the unit is.
FilterPlan(units, child) ==
  IF units = <<>> THEN child
  ELSE Predicate(Node("CONJ", "AND", ObjExprs(units)), <<child>>)
DeletePlan(stmt) == [Oper("DELETE", <<FilterPlan(stmt.units, Get(stmt.tables[1], FALSE))>>)
                     EXCEPT !.t = stmt.tables[1]]
InsertPlan(stmt) == [Oper("INSERT", <<>>) EXCEPT !.t = stmt.tables[1], !.vals = stmt.vals]
CalcPlan(stmt) == [Oper("CALC", <<>>) EXCEPT !.e = stmt.exprs]

\* LogicalPlanGenerator::create.
LogicalPlan(stmt) == CASE stmt.kind = "CALC" -> CalcPlan(stmt)
                       [] stmt.kind = "DELETE" -> DeletePlan(stmt)
                       [] stmt.kind = "INSERT" -> InsertPlan(stmt)
                       [] OTHER -> ExplainPlan(stmt, SelectPlan(stmt))

-----------------------------------------------------------------------------
(* Rewriting: a rule returns what it made (x) and whether it says that it   *)
(* changed anything (chg).                                                  *)

Same(x) == [x |-> x, chg |-> FALSE]
Changed(x) == [x |-> x, chg |-> TRUE]
AnyChanged(rs) == \E i \in DOMAIN rs : rs[i].chg
Parts(rs) == [i \in DOMAIN rs |-> rs[i].x]
\* A rule after another, and the children after the rules.
Both(r, q) == [x |-> q.x, chg |-> r.chg \/ q.chg]
Then(r, Rule(_)) == Both(r, Rule(r.x))
Rebuilt(r, ks) == [x |-> [r.x EXCEPT !.k = Parts(ks)], chg |-> r.chg \/ AnyChanged(ks)]

ToConstant(e, c) == IF c.rc = "SUCCESS" THEN Changed(Val(c.v)) ELSE Same(e)
SimplifyComparison(e) == IF e.e = "CMP" THEN ToConstant(e, TryGet(e)) ELSE Same(e)

IsBoolConstant(e) == e.e = "VALUE" /\ e.v.type = "BOOLEANS"

\* ConjunctionSimplificationRule: TRUE goes from an AND and FALSE from an OR, which
\* is no change; a child that decides leaves the FIRST child; one child is the rest.
SimplifyConjunction(e) ==
  LET decides == {i \in DOMAIN e.k : IsBoolConstant(e.k[i]) /\ GetBoolean(e.k[i].v) = (e.op = "OR")}
      rest == SelectSeq(e.k, LAMBDA c : ~IsBoolConstant(c))
      FirstUpTo(n) == Head(Append(SelectSeq(SubSeq(e.k, 1, n - 1), LAMBDA c : ~IsBoolConstant(c)), e.k[n]))
  IN CASE e.e # "CONJ" -> Same(e)
       [] e.e = "CONJ" /\ decides # {} -> Same(FirstUpTo(Min(decides)))
       [] e.e = "CONJ" /\ decides = {} /\ Len(rest) = 1 -> Changed(rest[1])
       [] OTHER -> Same([e EXCEPT !.k = rest])

\* ExpressionRewriter::rewrite_expression: the rules, and the children when they
\* changed nothing.
RewriteChildren(r) == IF r.chg \/ r.x.e \notin {"CMP", "CONJ"} THEN r
                      ELSE Rebuilt(r, [i \in DOMAIN r.x.k |-> RewriteExpr(r.x.k[i])])
RewriteExpr(e) == RewriteChildren(Then(SimplifyComparison(e), SimplifyConjunction))

\* ExpressionRewriter::rewrite: all expressions of the tree.
OwnExprs(o, es) == [x |-> [o EXCEPT !.e = Parts(es)], chg |-> AnyChanged(es)]
RewriteExprs(o) == Rebuilt(OwnExprs(o, [i \in DOMAIN o.e |-> RewriteExpr(o.e[i])]),
                           [i \in DOMAIN o.k |-> RewriteExprs(o.k[i])])

\* PredicateRewriteRule: a child that filters by TRUE is left out; one that filters by
\* FALSE goes with all below it.
RewritePredicate(o) ==
  IF Len(o.k) = 1 /\ o.k[1].o = "PREDICATE" /\ o.k[1].e[1].e = "VALUE"
  THEN Changed([o EXCEPT !.k = IF GetBoolean(o.k[1].e[1].v) THEN o.k[1].k ELSE <<>>])
  ELSE Same(o)

\* get_exprs_can_pushdown: the equalities with a field; what stays, if anything.
Pushdown(e) ==
  LET Flat(sel) == FlattenSeq([i \in DOMAIN e.k |-> Pushdown(e.k[i])[sel]])
  IN CASE e.e = "CONJ" /\ e.op = "AND" -> [stay |-> <<[e EXCEPT !.k = Flat("stay")]>>, down |-> Flat("down")]
       [] e.e = "CMP" /\ e.op = "=" /\ "FIELD" \in {e.k[1].e, e.k[2].e} -> [stay |-> <<>>, down |-> <<e>>]
       [] OTHER -> [stay |-> <<e>>, down |-> <<>>]

\* Mutant: what is handed to the scan stays in the predicate too.
PushdownToGet_Keeps(o) ==
  IF o.o # "PREDICATE" \/ Len(o.k) # 1 \/ Len(o.e) # 1 THEN Same(o)
  ELSE LET p == Pushdown(o.e[1])
       IN IF o.k[1].o # "GET" \/ p.down = <<>> THEN Same(o)
          ELSE Changed([o EXCEPT !.k = <<[o.k[1] EXCEPT !.preds = p.down]>>])
\* PredicatePushdownRewriter::rewrite: set_predicates replaces what the scan had.
PushedDown(o, p) ==
  IF o.k[1].o # "GET" \/ p.down = <<>> THEN Same(o)
  ELSE Changed([o EXCEPT !.e = IF p.stay = <<>> THEN <<Val(BoolV(TRUE))>> ELSE p.stay,
                         !.k = <<[o.k[1] EXCEPT !.preds = p.down]>>])
PushdownToGet(o) == IF o.o # "PREDICATE" \/ Len(o.k) # 1 \/ Len(o.e) # 1 THEN Same(o)
                    ELSE PushedDown(o, Pushdown(o.e[1]))

\* Rewriter::rewrite: the three rules on an operator, then on its children.
RewriteBelow(r) == Rebuilt(r, [i \in DOMAIN r.x.k |-> Rewrite(r.x.k[i])])
Rewrite(o) == RewriteBelow(Then(Then(RewriteExprs(o), RewritePredicate), PushdownToGet))

-----------------------------------------------------------------------------
(* The physical plan.  An operator's record holds its state too: where a    *)
(* scan is, what a join or a sort has kept.                                 *)

NoTuple == [k |-> "NONE"]
Phys(o, k) == [o |-> o, k |-> k, t |-> "", e |-> NoExpr, preds |-> <<>>, ro |-> TRUE, fields |-> <<>>,
               exprs |-> <<>>, key |-> Null, aggs |-> <<>>, group |-> <<>>, having |-> <<>>, order |-> <<>>,
               pos |-> 0, list |-> <<>>, cur |-> NoTuple, cached |-> FALSE, done |-> FALSE, vals |-> <<>>]

\* The condition an index serves: an equality of an indexed field and a value that is
\* not NULL, whatever the types of the two.
KeyField(e) == IF e.k[1].e = "FIELD" THEN e.k[1] ELSE e.k[2]
KeyValue(e) == IF e.k[1].e = "VALUE" THEN e.k[1].v ELSE e.k[2].v
Serves(t, e) == /\ e.e = "CMP" /\ e.op = "="
                /\ {e.k[1].e, e.k[2].e} = {"FIELD", "VALUE"}
                /\ KeyField(e).f \in Indexes[t] /\ ~IsNull(KeyValue(e))
TableScan(o) == [Phys("SCAN", <<>>) EXCEPT !.t = o.t, !.ro = o.ro, !.preds = o.preds]
IndexScan(o, e) == [TableScan(o) EXCEPT !.o = "ISCAN", !.key = KeyValue(e), !.e = KeyField(e)]
\* Mutant: a scan by index is trusted to need no predicate.
ScanPlan_NoPredicates(o) ==
  LET used == {i \in DOMAIN o.preds : Serves(o.t, o.preds[i])}
  IN IF used = {} THEN TableScan(o) ELSE [IndexScan(o, o.preds[Min(used)]) EXCEPT !.preds = <<>>]
ScanPlan(o) ==
  LET used == {i \in DOMAIN o.preds : Serves(o.t, o.preds[i])}
  IN IF used = {} THEN TableScan(o) ELSE IndexScan(o, o.preds[Min(used)])

PredicatePlan(o) == [Phys("PRED", <<Physical(o.k[1])>>) EXCEPT !.e = o.e[1]]
ProjectPlan(o) == [Phys("PROJ", IF o.k = <<>> THEN <<>> ELSE <<Physical(o.k[1])>>)
                   EXCEPT !.fields = o.fields, !.exprs = o.e]
DeletePhysical(o) == [Phys("DEL", IF o.k = <<>> THEN <<>> ELSE <<Physical(o.k[1])>>) EXCEPT !.t = o.t]
JoinPlan(o) == Phys("NLJ", <<Physical(o.k[1]), Physical(o.k[2])>>)

\* PhysicalPlanGenerator::create.
Physical(o) == CASE o.o = "GET" -> ScanPlan(o)
                 [] o.o = "PREDICATE" -> PredicatePlan(o)
                 [] o.o = "PROJECT" -> ProjectPlan(o)
                 [] o.o = "DELETE" -> DeletePhysical(o)
                 [] o.o = "JOIN" -> JoinPlan(o)
                 [] o.o = "INSERT" -> [Phys("INS", <<>>) EXCEPT !.t = o.t, !.vals = o.vals]
                 [] o.o = "CALC" -> [Phys("CALC", <<>>) EXCEPT !.exprs = o.e]
                 [] OTHER -> Phys("EXPLAIN", [i \in DOMAIN o.k |-> Physical(o.k[i])])

AggOper(stmt, child) == [Phys("AGG", <<child>>) EXCEPT !.aggs = stmt.aggs]
GroupOper(stmt, child) == [Phys("GROUP", <<child>>) EXCEPT !.aggs = stmt.aggs, !.group = stmt.group,
                                                           !.having = stmt.having]

\* OptimizeStage::handle_request: aggregation and order are put on top of the plan.
\* With expressions in the select list the aggregation goes below the projection.
WithAggregation(stmt, p) ==
  CASE ~stmt.hasAgg -> p
    [] stmt.hasAgg /\ stmt.group # <<>> -> GroupOper(stmt, p)
    [] stmt.hasAgg /\ stmt.group = <<>> /\ stmt.exprs # <<>> /\ p.o = "PROJ" /\ p.k # <<>> ->
         [p EXCEPT !.k[1] = AggOper(stmt, p.k[1])]
    [] OTHER -> AggOper(stmt, p)
WithOrder(stmt, p) == IF stmt.order = <<>> THEN p ELSE [Phys("SORT", <<p>>) EXCEPT !.order = stmt.order]
GeneratePlan(stmt, plan) == IF stmt.kind # "SELECT" THEN Physical(plan)
                            ELSE WithOrder(stmt, WithAggregation(stmt, Physical(plan)))
=============================================================================
