----------------------------- MODULE SqlReference -----------------------------
(***************************************************************************)
(* What a statement means, without plans, operators or resolved names: the *)
(* rows of a SELECT are those of the combinations of its relations' rows   *)
(* that satisfy its conditions.  Values (SqlValues) are shared with the    *)
(* engine; names, subqueries, grouping and changes are defined again.      *)
(*                                                                         *)
(* An environment env is a sequence of frames, the innermost first; a      *)
(* frame has a binding [name, alias, t, cells] for each relation.  grp is  *)
(* the frames of the group in which an aggregate is computed.              *)
(***************************************************************************)
EXTENDS SqlView

RECURSIVE Ref(_, _, _, _), RefLike(_, _)

\* An expression has subqueries, a query conditions, a condition expressions.
RefEval(e, env, grp) == Ref("value", e, env, grp)
RefSelect(sel, env) == Ref("rows", sel, env, <<>>)
RefCond(c, env, grp) == Ref("holds", c, env, grp)

Cells2(t, pos) == [i \in DOMAIN Schema[t] |->
                     IF Schema[t][i].nullable /\ rows[t][pos][i] = Zero(Schema[t][i].type) THEN Null ELSE rows[t][pos][i]]
Live(t) == {p \in DOMAIN rows[t] : rows[t][p] # <<>>}

Matches(b, e) == e.t \in {"", b.name, b.alias} /\ HasField(b.t, e.f)
BindingOf(frame, e) == frame[Min({j \in DOMAIN frame : Matches(frame[j], e)})]
CellOf(b, f) == b.cells[FieldIndex(b.t, f)]
RefColumn(e, env) ==
  CellOf(BindingOf(env[Min({i \in DOMAIN env : \E j \in DOMAIN env[i] : Matches(env[i][j], e)})], e), e.f)

\* An aggregate of the values that are not NULL.
NotNull(vs) == [i \in {j \in DOMAIN vs : ~IsNull(vs[j])} |-> vs[i]]
SumOf(vs) == FoldSet(LAMBDA i, x : Frac(x[1] * vs[i].n[2] + vs[i].n[1] * x[2], x[2] * vs[i].n[2]), <<0, 1>>, DOMAIN vs)
RefAverage(sum, n) == FloatV(sum[1], sum[2] * n)
AggOver(op, vs) ==
  CASE op = "COUNT" -> IntV(Cardinality(DOMAIN vs))
    [] op # "COUNT" /\ DOMAIN vs = {} -> Null
    [] op = "SUM" /\ DOMAIN vs # {} -> Number(vs[CHOOSE i \in DOMAIN vs : TRUE].type, SumOf(vs))
    [] op = "AVG" /\ DOMAIN vs # {} -> RefAverage(SumOf(vs), Cardinality(DOMAIN vs))
    [] OTHER -> vs[CHOOSE i \in DOMAIN vs : \A j \in DOMAIN vs : SignHolds(IF op = "MAX" THEN ">=" ELSE "<=", Compare(vs[i], vs[j]))]
RefAgg(e, env, grp) ==
  AggOver(e.op, NotNull([i \in DOMAIN grp |-> IF e.f = "*" THEN IntV(1) ELSE RefColumn(e, <<grp[i]>> \o env)]))

\* An expression; what cannot be computed is Undefined.  A subquery that has not one
\* row is NULL (the engine refuses one with more, unless it is correlated).
OnlyCell(res) == IF Cardinality(DOMAIN res) # 1 THEN Null ELSE res[CHOOSE i \in DOMAIN res : TRUE][1]
Computed(e, vs) ==
  LET ints == \A i \in DOMAIN vs : vs[i].type \in {"INTS", "NULLS"}
  IN IF e.e = "FUNC" THEN ValueOr(EvalFunction(e.op, vs), Undefined)
     ELSE CalcValue(e.op, IF ints /\ e.op # "/" THEN "INTS" ELSE "FLOATS", vs[1], vs[Len(vs)])
RefValue(e, env, grp) == CASE e.e = "VALUE" -> e.v
                           [] e.e = "UNBOUND" -> RefColumn(e, env)
                           [] e.e = "AGG" -> RefAgg(e, Tail(env), grp)
                           [] e.e \in {"ARITH", "FUNC"} -> Computed(e, [i \in DOMAIN e.k |-> RefEval(e.k[i], env, grp)])
                           [] e.e = "SUBQ" -> OnlyCell(RefSelect(e.q, env))
                           [] OTHER -> Undefined

\* A pattern that starts with '%' matches if its rest matches some end of the string.
RefLike(str, pat) ==
  IF pat = <<>> THEN str = <<>>
  ELSE IF pat[1] = Percent THEN \E k \in 1 .. (Len(str) + 1) : RefLike(SubSeq(str, k, Len(str)), Tail(pat))
  ELSE str # <<>> /\ pat[1] \in {Underscore, str[1]} /\ RefLike(Tail(str), Tail(pat))
RefCompare(op, a, b) ==
  IF op \in {"LIKE", "NOT LIKE"}
  THEN ~IsNull(a) /\ ~IsNull(b) /\ RefLike(ValueToString(a), ValueToString(b)) = (op = "LIKE")
  ELSE CompareValue(op, a, b).v
\* A condition holds: NULL makes none of them true but IS NULL.
FirstCells(res) == [i \in DOMAIN res |-> res[i][1]]
RefList(e, env) == IF e.e = "INLIST" THEN e.vals ELSE FirstCells(RefSelect(e.q, env))
RefIn(op, v, list) == IF op = "IN" THEN \E i \in DOMAIN list : CompareValue("=", v, list[i]).v
                      ELSE \A i \in DOMAIN list : CompareValue("<>", v, list[i]).v
RefHolds(c, env, grp) ==
  CASE c.op \in ExistsOps -> (DOMAIN RefSelect(c.r.q, env) # {}) = (c.op = "EXISTS")
    [] c.op \in InOps -> RefIn(c.op, RefEval(c.l, env, grp), RefList(c.r, env))
    [] OTHER -> RefCompare(c.op, RefEval(c.l, env, grp), RefEval(c.r, env, grp))

\* The combinations that satisfy the conditions, and the frame of each.
RefFrames(sel, env) ==
  LET T(i) == FindTable(sel.rel[i])
      combos == {c \in [DOMAIN sel.rel -> UNION {Live(T(i)) : i \in DOMAIN sel.rel}] : \A i \in DOMAIN c : c[i] \in Live(T(i))}
      Frame(c) == [i \in DOMAIN sel.rel |-> [name |-> sel.rel[i], alias |-> IF sel.alias = <<>> THEN "" ELSE sel.alias[i],
                                             t |-> T(i), cells |-> Cells2(T(i), c[i])]]
      Shown(i, c) == sel.rel[i] \in DOMAIN Views =>
                       \A j \in DOMAIN Views[sel.rel[i]].conds : RefCond(Views[sel.rel[i]].conds[j], <<<<Frame(c)[i]>>>>, <<>>)
      keep == {c \in combos : /\ \A i \in DOMAIN sel.rel : Shown(i, c)
                              /\ \A i \in DOMAIN sel.conds : RefCond(sel.conds[i], <<Frame(c)>> \o env, <<>>)}
  IN [c \in keep |-> Frame(c)]

\* The items of the list.
StarCells(b) == LET cols == IF b.name \in DOMAIN Views THEN Views[b.name].cols ELSE <<>>
                    at == SelectSeq([i \in DOMAIN b.cells |-> i], LAMBDA i : Shows(cols, Schema[b.t][i].name))
                IN [i \in DOMAIN at |-> b.cells[at[i]]]
RefStar(frame, t) == FlattenSeq([i \in DOMAIN frame |-> IF t \in {"", frame[i].name, frame[i].alias} THEN StarCells(frame[i]) ELSE <<>>])
RefRow(sel, env, grp) ==
  IF sel.star THEN RefStar(env[1], "")
  ELSE FlattenSeq([i \in DOMAIN sel.exprs |->
         LET x == sel.exprs[i]
         IN IF x.star THEN RefStar(env[1], x.t)
            ELSE <<IF x.agg # "" THEN RefAgg(Agg(x.agg, x.t, x.f), Tail(env), grp) ELSE RefEval(x.expr, env, grp)>>])

RECURSIVE Aggregates(_)
Aggregates(e) == e.e = "AGG" \/ \E i \in DOMAIN e.k : Aggregates(e.k[i])
IsAggregate(sel) == sel.group # <<>> \/ \E i \in DOMAIN sel.exprs : sel.exprs[i].agg # "" \/ Aggregates(sel.exprs[i].expr)

\* The rows of a SELECT, by their combination or group.
GroupEnv(grp, env) == <<IF DOMAIN grp = {} THEN <<>> ELSE grp[CHOOSE i \in DOMAIN grp : TRUE]>> \o env
RefKey(sel, frame) == [i \in DOMAIN sel.group |-> RefColumn(Unbound(sel.group[i].t, sel.group[i].f), <<frame>>)]
RefGroups(sel, frames, key) ==
  [k \in IF sel.group = <<>> THEN {<<>>} ELSE Range(key) |-> [i \in {j \in DOMAIN frames : key[j] = k} |-> frames[i]]]
Passing(sel, env, groups) ==
  {k \in DOMAIN groups : \A i \in DOMAIN sel.having : RefCond(sel.having[i], GroupEnv(groups[k], env), groups[k])}
GroupedRows(sel, env, groups) == [k \in Passing(sel, env, groups) |-> RefRow(sel, GroupEnv(groups[k], env), groups[k])]
FrameRows(sel, env, frames) ==
  IF IsAggregate(sel) THEN GroupedRows(sel, env, RefGroups(sel, frames, [i \in DOMAIN frames |-> RefKey(sel, frames[i])]))
  ELSE [i \in DOMAIN frames |-> RefRow(sel, <<frames[i]>> \o env, <<>>)]
Ref(f, x, env, grp) == CASE f = "value" -> RefValue(x, env, grp)
                         [] f = "holds" -> RefHolds(x, env, grp)
                         [] f = "rows" -> FrameRows(x, env, RefFrames(x, env))

-----------------------------------------------------------------------------
(* Changes: the rows of a table after a statement. *)

Contents(t) == [i \in Live(t) |-> Cells2(t, i)]
RefFrame(rel, pos) == <<<<[name |-> rel, alias |-> FindTable(rel), t |-> FindTable(rel), cells |-> Cells2(FindTable(rel), pos)]>>>>
Hit(rel, conds, pos) ==
  LET all == conds \o (IF rel \in DOMAIN Views THEN Views[rel].conds ELSE <<>>)
  IN \A i \in DOMAIN all : RefCond(all[i], RefFrame(rel, pos), <<>>)
RefAssigned(set, m) == ValueOr(CoerceUpdateValue(m, RefEval(set.e, <<>>, <<>>)), Undefined)
RefUpdated(u, t, pos) ==
  [i \in DOMAIN Schema[t] |->
     LET by == {j \in DOMAIN u.sets : u.sets[j].f = Schema[t][i].name}
     IN IF by = {} THEN Cells2(t, pos)[i] ELSE RefAssigned(u.sets[Max(by)], Schema[t][i])]

HowOften(r, x) == Cardinality({i \in DOMAIN r : r[i] = x})
Within(r, s) == \A x \in Range(r) : HowOften(r, x) <= HowOften(s, x)
SameBag(r, s) == Within(r, s) /\ Within(s, r)
=============================================================================
