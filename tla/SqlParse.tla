------------------------------- MODULE SqlParse -------------------------------
(***************************************************************************)
(* From the parsed statement to the resolved one, as far as no row is      *)
(* read: names (expression.cpp, resolve_expression), the select list       *)
(* (select_stmt.cpp), the clones of parse trees (filter_stmt.cpp,          *)
(* condition_clone.h), the detection of correlation, the values of an      *)
(* INSERT and of an assignment.                                            *)
(*                                                                         *)
(* A SELECT is a record of its relations and their aliases ("" is none),   *)
(* the items of its list, its conditions [l, op, r], GROUP BY, HAVING and  *)
(* ORDER BY.  A table map takes the names a query may use to tables.       *)
(***************************************************************************)
EXTENDS SqlPlan

CONSTANT Views    \* views that stand for a table: [base, cols, conds]

RECURSIVE ResolveExpr(_, _), RefsOuter(_, _, _, _), CloneParse(_), CloneSql(_), CloneSqlSelect(_),
          HasCorrelatedField(_), CollectAggregations(_, _)

Fail(rc) == [rc |-> rc, v |-> NoExpr]
NoMap == [n \in {} |-> ""]
FindTable(n) == CASE n \in DOMAIN Schema -> n
                  [] n \in DOMAIN Views -> Views[n].base
                  [] OTHER -> ""

NoSelect == [rel |-> <<>>, alias |-> <<>>, star |-> FALSE, exprs |-> <<>>, conds |-> <<>>,
             group |-> <<>>, order |-> <<>>, having |-> <<>>]
NoItem == [expr |-> NoExpr, alias |-> <<>>, agg |-> "", t |-> "", f |-> "", star |-> FALSE]
Condition(l, op, r) == [l |-> l, op |-> op, r |-> r]

-----------------------------------------------------------------------------
(* Names.  The scope sc of an expression: its table map, the table of an    *)
(* unqualified name, the outer query's map and the column aliases.          *)

Scope(map, default, outer, aliases) ==
  [map |-> map, default |-> default, outer |-> outer, aliases |-> aliases]

\* The relations of a query, and the table behind a view under its own name too.
Names(rel) == {rel[i] : i \in DOMAIN rel} \cup {Views[rel[i]].base : i \in {j \in DOMAIN rel : rel[j] \in DOMAIN Views}}
MissingTable(rel) == \E i \in DOMAIN rel : FindTable(rel[i]) = ""
AliasConflict(sel) ==
  \E i \in DOMAIN sel.alias : /\ sel.alias[i] # ""
                              /\ \/ sel.alias[i] \in Names(sel.rel) \ {sel.rel[i]}
                                 \/ \E j \in DOMAIN sel.alias : j # i /\ sel.alias[j] = sel.alias[i]
TableMap(sel) ==
  LET aliased == {i \in DOMAIN sel.alias : sel.alias[i] # ""}
      names == Names(sel.rel)
  IN [n \in names \cup {sel.alias[i] : i \in aliased} |->
        IF n \in names THEN FindTable(n)
        ELSE FindTable(sel.rel[CHOOSE i \in aliased : sel.alias[i] = n])]
DefaultTable(sel) == IF Len(sel.rel) = 1 THEN FindTable(sel.rel[1]) ELSE ""

TableOf(map, t, default) == IF t \in DOMAIN map THEN map[t] ELSE default
Known(t, f) == t # "" /\ HasField(t, f)

\* build_column_alias_map: the columns of the list that have a name of their own; of
\* two with one name the last.
ColumnAliases(sel, map, default) ==
  LET T(i) == TableOf(map, sel.exprs[i].expr.t, default)
      bound == {i \in DOMAIN sel.exprs : /\ sel.exprs[i].alias # <<>> /\ sel.exprs[i].expr.e = "UNBOUND"
                                         /\ Known(T(i), sel.exprs[i].expr.f)}
      Latest(n) == CHOOSE i \in bound : /\ sel.exprs[i].alias = n
                                      /\ \A j \in bound : sel.exprs[j].alias = n => j <= i
  IN [n \in {sel.exprs[i].alias : i \in bound} |-> [t |-> T(Latest(n)), f |-> sel.exprs[Latest(n)].expr.f]]

Named(e, name) == [e EXCEPT !.name = name]
\* try_resolve_outer_field: a column alias, then any outer table that has the field.
OuterField(e, sc) ==
  LET having == {n \in DOMAIN sc.outer : HasField(sc.outer[n], e.f)}
  IN CASE <<e.f>> \in DOMAIN sc.aliases ->
            Ok(Named(Column("CORR", sc.aliases[<<e.f>>].t, sc.aliases[<<e.f>>].f), e.name))
       [] <<e.f>> \notin DOMAIN sc.aliases /\ having # {} ->
            Ok(Named(Column("CORR", sc.outer[CHOOSE n \in having : TRUE], e.f), e.name))
       [] OTHER -> Fail("SCHEMA_FIELD_MISSING")

\* The qualifier is looked up here, then outside; an unknown one means the default table.
ResolveField(e, sc) ==
  LET corr == e.t \notin DOMAIN sc.map /\ e.t \in DOMAIN sc.outer
      t == IF corr THEN sc.outer[e.t] ELSE TableOf(sc.map, e.t, sc.default)
  IN IF Known(t, e.f) THEN Ok(Named(Column(IF corr THEN "CORR" ELSE "FIELD", t, e.f), e.name))
     ELSE OuterField(e, sc)

\* An aggregate becomes a field with its name; COUNT(*) stays.
ResolveAggregation(e, sc) ==
  LET t == TableOf(sc.map, e.t, sc.default)
  IN CASE e.f = "*" -> Ok(e)
       [] e.f # "*" /\ Known(t, e.f) -> Ok(Named(Field(t, e.f), e.name))
       [] OTHER -> Fail("SCHEMA_FIELD_MISSING")

WithChildren(e, ks) == IF ks.rc = "SUCCESS" THEN Ok([e EXCEPT !.k = ks.v]) ELSE Fail(ks.rc)
ResolveExpr(e, sc) ==
  CASE e.e = "UNBOUND" -> ResolveField(e, sc)
    [] e.e = "AGG" -> ResolveAggregation(e, sc)
    [] e.e \in {"ARITH", "CMP", "CONJ", "FUNC"} ->
         WithChildren(e, AllOf([i \in DOMAIN e.k |-> ResolveExpr(e.k[i], sc)]))
    [] OTHER -> Ok(e)

-----------------------------------------------------------------------------
(* Correlation and clones. *)

InnerNames(sel) == ({sel.rel[i] : i \in DOMAIN sel.rel} \cup {sel.alias[i] : i \in DOMAIN sel.alias}) \ {""}
MergeAliases(outer, current) == outer @@ current

\* expr_refs_outer_scope: an unqualified name that an outer table has counts, even when
\* the inner table has it too.
RefsOuter(e, inner, outer, aliases) ==
  CASE e.e = "UNBOUND" /\ e.t # "" -> e.t \notin inner /\ e.t \in DOMAIN outer
    [] e.e = "UNBOUND" /\ e.t = "" -> \/ <<e.f>> \in DOMAIN aliases
                                      \/ \E n \in DOMAIN outer : HasField(outer[n], e.f)
    [] e.e = "CORR" -> TRUE
    [] e.e \in {"ARITH", "CMP", "CONJ", "FUNC"} ->
         \E i \in DOMAIN e.k : RefsOuter(e.k[i], inner, outer, aliases)
    [] OTHER -> FALSE

\* select_node_has_correlation: only the conditions are looked at.
SelectNodeHasCorrelation(sel, outer, aliases) ==
  \E i \in DOMAIN sel.conds : \/ RefsOuter(sel.conds[i].l, InnerNames(sel), outer, aliases)
                              \/ RefsOuter(sel.conds[i].r, InnerNames(sel), outer, aliases)

HasCorrelatedField(e) == \/ e.e = "CORR"
                         \/ /\ e.e \in {"ARITH", "CMP", "CONJ", "FUNC"}
                            /\ \E i \in DOMAIN e.k : HasCorrelatedField(e.k[i])
FilterHasCorrelated(units) ==
  \E i \in DOMAIN units : /\ units[i].kind # "OBJ"
                          /\ HasCorrelatedField(units[i].l) \/ HasCorrelatedField(units[i].r)

\* clone_parse_expression: what is not listed (subquery, IN list, aggregate) is lost.
CloneParse(e) == IF e.e \in {"UNBOUND", "VALUE", "ARITH", "CMP", "CONJ", "FUNC"}
                 THEN [e EXCEPT !.k = [i \in DOMAIN e.k |-> CloneParse(e.k[i])]] ELSE NoExpr
\* clone_select_sql_node (filter_stmt.cpp): HAVING is lost too.
CloneSelectNode(sel) ==
  [sel EXCEPT !.conds = [i \in DOMAIN @ |-> Condition(CloneParse(@[i].l), @[i].op, CloneParse(@[i].r))],
              !.exprs = [i \in DOMAIN @ |-> [@[i] EXCEPT !.expr = CloneParse(@)]],
              !.having = <<>>]

\* clone_sql_expression (condition_clone.h): everything the parser makes.
CloneSql(e) == CASE e.e \in {"FIELD", "CORR", "UNBOUND", "VALUE", "AGG", "INLIST", "NONE"} -> e
                 [] e.e \in {"ARITH", "CMP", "CONJ", "FUNC"} ->
                      [e EXCEPT !.k = [i \in DOMAIN e.k |-> CloneSql(e.k[i])]]
                 [] OTHER -> [e EXCEPT !.q = CloneSqlSelect(e.q)]
CloneCondition(c) == Condition(CloneSql(c.l), c.op, CloneSql(c.r))
CloneConditions(cs) == [i \in DOMAIN cs |-> CloneCondition(cs[i])]
CloneSelectExpr(item) == [item EXCEPT !.expr = CloneSql(@)]
CloneSqlSelect(sel) == [sel EXCEPT !.conds = CloneConditions(@), !.having = CloneConditions(@),
                                   !.exprs = [i \in DOMAIN @ |-> CloneSelectExpr(@[i])]]

\* The conditions of the views come before the query's own.
ViewConditions(rel) == FlattenSeq([i \in DOMAIN rel |->
                                     IF rel[i] \in DOMAIN Views THEN CloneConditions(Views[rel[i]].conds) ELSE <<>>])
FilterConditions(rel, conds) == IF ViewConditions(rel) = <<>> THEN conds
                                ELSE ViewConditions(rel) \o CloneConditions(conds)

-----------------------------------------------------------------------------
(* The select list.  acc is what the items so far have given. *)

\* collect_aggregations: the aggregates in an expression, each replaced by its field.
CollectAggregations(e, sc) ==
  LET ks == [i \in DOMAIN e.k |-> CollectAggregations(e.k[i], sc)]
      t == TableOf(sc.map, e.t, sc.default)
  IN CASE e.e = "AGG" /\ e.f = "*" ->
            [e |-> e, has |-> TRUE, aggs |-> <<[fn |-> "COUNT", t |-> "", f |-> "*", alias |-> <<"count(*)">>]>>]
       [] e.e = "AGG" /\ e.f # "*" /\ Known(t, e.f) ->
            [e |-> Named(Field(t, e.f), e.name), has |-> TRUE,
             aggs |-> <<[fn |-> e.op, t |-> t, f |-> e.f, alias |-> <<e.f>>]>>]
       [] e.e = "AGG" /\ e.f # "*" /\ ~Known(t, e.f) -> [e |-> e, has |-> TRUE, aggs |-> <<>>]
       [] e.e \in {"ARITH", "FUNC"} ->
            [e |-> [e EXCEPT !.k = [i \in DOMAIN ks |-> ks[i].e]], has |-> \E i \in DOMAIN ks : ks[i].has,
             aggs |-> FlattenSeq([i \in DOMAIN ks |-> ks[i].aggs])]
       [] OTHER -> [e |-> e, has |-> FALSE, aggs |-> <<>>]

\* The columns a view shows of a table; <<>> is all of them.
VisibleColumns(rel, t) ==
  LET via == {i \in DOMAIN rel : rel[i] \in DOMAIN Views /\ FindTable(rel[i]) = t}
  IN IF via = {} THEN <<>> ELSE Views[rel[CHOOSE i \in via : \A j \in via : i <= j]].cols
Shows(cols, f) == cols = <<>> \/ \E i \in DOMAIN cols : cols[i] = f
WildcardFields(t, cols) ==
  LET shown == SelectSeq(Schema[t], LAMBDA m : Shows(cols, m.name))
  IN [i \in DOMAIN shown |-> [t |-> t, f |-> shown[i].name]]
AllFields(rel) == FlattenSeq([i \in DOMAIN rel |-> WildcardFields(FindTable(rel[i]), VisibleColumns(rel, FindTable(rel[i])))])

\* Whether the list is given as expressions, in its order.
OrderedProjection(sel) ==
  /\ sel.group = <<>>
  /\ \E i \in DOMAIN sel.exprs : /\ sel.exprs[i].expr.e # "NONE"
                                 /\ \/ sel.exprs[i].expr.e # "UNBOUND"
                                    \/ sel.exprs[i].alias \notin {<<>>, <<sel.exprs[i].expr.f>>}

\* append_ordered_field.
OrderedField(rel, x) == Named(Field(x.t, x.f), IF Len(rel) > 1 THEN <<x.t, x.f>> ELSE <<x.f>>)

\* An item t.* or *.
StarItem(sel, sc, item, acc) ==
  LET cols == IF item.t \in DOMAIN Views THEN Views[item.t].cols ELSE <<>>
      fields == IF item.t = "" THEN AllFields(sel.rel) ELSE WildcardFields(sc.map[item.t], cols)
  IN IF item.t # "" /\ item.t \notin DOMAIN sc.map THEN [acc EXCEPT !.rc = "SCHEMA_TABLE_NOT_EXIST"]
     ELSE [acc EXCEPT !.fields = @ \o fields,
             !.exprs = IF OrderedProjection(sel)
                       THEN @ \o [i \in DOMAIN fields |-> OrderedField(sel.rel, fields[i])] ELSE @]

\* An aggregate as an item.
AggregationItem(sel, sc, item, acc) ==
  LET t == IF item.t # "" THEN TableOf(sc.map, item.t, "") ELSE FindTable(sel.rel[1])
      agg == [fn |-> item.agg, t |-> IF item.f = "*" THEN "" ELSE t, f |-> item.f,
              alias |-> CASE item.alias # <<>> -> item.alias
                          [] item.alias = <<>> /\ item.f = "*" -> <<"count(*)">>
                          [] OTHER -> <<item.agg, item.f>>]
  IN CASE item.f # "*" /\ sel.rel = <<>> -> [acc EXCEPT !.rc = "INVALID_ARGUMENT"]
       [] item.f # "*" /\ sel.rel # <<>> /\ t = "" -> [acc EXCEPT !.rc = "SCHEMA_TABLE_NOT_EXIST"]
       [] item.f # "*" /\ sel.rel # <<>> /\ t # "" /\ ~(HasField(t, item.f) /\ Shows(VisibleColumns(sel.rel, t), item.f)) ->
            [acc EXCEPT !.rc = "SCHEMA_FIELD_MISSING"]
       [] OTHER -> [acc EXCEPT !.has = TRUE, !.aggs = Append(@, agg)]

\* An expression: its aggregates are taken out, then its names resolved, without the
\* outer query's.  A plain column is a field of the list, another an expression.
ResolvedItem(sel, item, acc, c, r) ==
  LET field == r.v.e = "FIELD"
      e == IF item.alias = <<>> THEN r.v ELSE Named(r.v, item.alias)
      plain == field /\ item.alias \in {<<>>, <<r.v.f>>}
  IN CASE r.rc # "SUCCESS" -> [acc EXCEPT !.rc = r.rc]
       [] r.rc = "SUCCESS" /\ field /\ ~Shows(VisibleColumns(sel.rel, r.v.t), r.v.f) ->
            [acc EXCEPT !.rc = "SCHEMA_FIELD_MISSING"]
       [] OTHER -> [acc EXCEPT !.has = @ \/ c.has, !.aggs = @ \o c.aggs,
                      !.fields = IF field /\ (plain \/ OrderedProjection(sel)) THEN Append(@, [t |-> e.t, f |-> e.f]) ELSE @,
                      !.exprs = IF plain /\ ~OrderedProjection(sel) THEN @ ELSE Append(@, e)]
CollectedItem(sel, sc, item, acc, c) ==
  ResolvedItem(sel, item, acc, c, ResolveExpr(c.e, Scope(sc.map, sc.default, NoMap, NoMap)))
ExpressionItem(sel, sc, item, acc) == CollectedItem(sel, sc, item, acc, CollectAggregations(item.expr, sc))

SelectItem(sel, sc, item, acc) ==
  CASE acc.rc # "SUCCESS" -> acc
    [] acc.rc = "SUCCESS" /\ item.star -> StarItem(sel, sc, item, acc)
    [] acc.rc = "SUCCESS" /\ ~item.star /\ item.agg # "" -> AggregationItem(sel, sc, item, acc)
    [] OTHER -> ExpressionItem(sel, sc, item, acc)
\* SELECT * alone is an attribute and no item.
SelectList(sel, sc) ==
  LET start == [rc |-> "SUCCESS", fields |-> IF sel.star THEN AllFields(sel.rel) ELSE <<>>, exprs |-> <<>>,
                aggs |-> <<>>, has |-> FALSE]
  IN FoldLeft(LAMBDA acc, item : SelectItem(sel, sc, item, acc), start, sel.exprs)

\* The fields of GROUP BY.
GroupFields(sel, sc) ==
  AllOf([i \in DOMAIN sel.group |->
           LET t == TableOf(sc.map, sel.group[i].t, IF sel.group[i].t = "" THEN sc.default ELSE "")
           IN CASE t = "" /\ sel.group[i].t # "" -> Fail("SCHEMA_TABLE_NOT_EXIST")
                [] Known(t, sel.group[i].f) -> Ok([t |-> t, f |-> sel.group[i].f])
                [] OTHER -> Fail("SCHEMA_FIELD_MISSING")])

-----------------------------------------------------------------------------
(* Values that are stored. *)

Zero(type) == IF type \in {"CHARS", "TEXTS"} THEN StrV(<<>>) ELSE Number(type, <<0, 1>>)
NullZero(m, v) == m.nullable /\ v = Zero(m.type)

\* InsertStmt::create: the values fit the columns, a row after the other.  An insert
\* into a view forces the columns it does not show to NULL (Undefined here), nullable
\* or not.
TypeFits(m, v) == v.type = m.type \/ {v.type, m.type} = {"CHARS", "TEXTS"}
ViewRows(t, cols, vals) ==
  LET n == Len(Schema[t])
      Row(k) == [i \in 1 .. n |-> IF Shows(cols, Schema[t][i].name)
                                  THEN vals[k * Len(cols) + CHOOSE j \in DOMAIN cols : cols[j] = Schema[t][i].name]
                                  ELSE Undefined]
  IN FlattenSeq([k \in 1 .. (Len(vals) \div Len(cols)) |-> Row(k - 1)])
InsertStmt(rel, vals) ==
  LET t == FindTable(rel)
      cols == IF rel \in DOMAIN Views THEN Views[rel].cols ELSE <<>>
      width == IF cols = <<>> THEN Len(Schema[t]) ELSE Len(cols)
      full == IF cols = <<>> THEN vals ELSE ViewRows(t, cols, vals)
      n == Len(Schema[t])
      Fits(i) == LET m == Schema[t][1 + ((i - 1) % n)]
                 IN IF IsNull(full[i]) THEN m.nullable \/ cols # <<>>
                    ELSE full[i].type = "UNDEFINED" \/ TypeFits(m, full[i])
  IN IF t = "" THEN Fail("SCHEMA_TABLE_NOT_EXIST")
     ELSE IF Len(vals) % width # 0 THEN Fail("SCHEMA_FIELD_MISSING")
     ELSE IF \E i \in DOMAIN full : ~Fits(i) THEN Fail("SCHEMA_FIELD_TYPE_MISMATCH")
     ELSE Ok([i \in 1 .. (Len(full) \div n) |-> SubSeq(full, (i - 1) * n + 1, i * n)])
\* make_record: NULL is stored as zeros; a forced NULL is remembered beside the row.
MakeRecord(t, vals) ==
  IF \E i \in DOMAIN vals : IsNull(vals[i]) /\ ~Schema[t][i].nullable THEN Fail("SCHEMA_FIELD_TYPE_MISMATCH")
  ELSE Ok([i \in DOMAIN vals |-> CASE IsNull(vals[i]) -> Zero(Schema[t][i].type)
                                   [] vals[i].type = "UNDEFINED" -> Null
                                   [] OTHER -> vals[i]])

\* parse_int_value and parse_float_value: the whole string has to be a number; a fraction is rounded.
WholeNumber(s) == HasNumber(s) /\ NumeralLength(s) = Len(s)
ParseIntValue(v) == CASE v.type \in Numeric -> Ok(IntV(Truncate(Round(v.n, 0))))
                      [] IsText(v) /\ WholeNumber(v.s) -> Ok(IntV(ToNumber(v.s)))
                      [] OTHER -> Fail("SCHEMA_FIELD_TYPE_MISMATCH")
ParseFloatValue(v) == CASE v.type \in Numeric -> Ok(Number("FLOATS", v.n))
                        [] IsText(v) /\ WholeNumber(v.s) -> Ok(FloatV(ToNumber(v.s), 1))
                        [] OTHER -> Fail("SCHEMA_FIELD_TYPE_MISMATCH")
CoerceUpdateValue(m, v) ==
  CASE IsNull(v) -> IF m.nullable THEN Ok(Null) ELSE Fail("SCHEMA_FIELD_TYPE_MISMATCH")
    [] ~IsNull(v) /\ m.type = "INTS" -> ParseIntValue(v)
    [] ~IsNull(v) /\ m.type = "FLOATS" -> ParseFloatValue(v)
    [] ~IsNull(v) /\ m.type \in {"CHARS", "TEXTS"} -> Ok(StrV(ValueToString(v)))
    [] ~IsNull(v) /\ m.type = "DATES" /\ v.type = "DATES" -> Ok(v)
    [] OTHER -> Fail("SCHEMA_FIELD_TYPE_MISMATCH")
=============================================================================
