-------------------------------- MODULE MCSql --------------------------------
(***************************************************************************)
(* Statements of every kind, as the parser makes them, on small tables.    *)
(***************************************************************************)
EXTENDS Sql

Col(name, type, nullable) == [name |-> name, type |-> type, nullable |-> nullable]
TheSchema == [t |-> <<Col("id", "INTS", FALSE), Col("b", "INTS", TRUE)>>,
              u |-> <<Col("id", "INTS", FALSE), Col("c", "FLOATS", TRUE)>>,
              w |-> <<Col("s", "CHARS", FALSE), Col("d", "DATES", TRUE)>>]
TheIndexes == [t |-> {"b"}, u |-> {"id"}, w |-> {}]

N(i) == Val(IntV(i))
S(s) == Val(StrV(s))
C(t, f) == Named(Unbound(t, f), IF t = "" THEN <<f>> ELSE <<t, f>>)
Id == C("", "id")
B == C("", "b")
Arith(op, l, r) == Named(Node("ARITH", op, <<l, r>>), <<op>>)
If(l, op, r) == Condition(l, op, r)
Sub(sel) == [NoExpr EXCEPT !.e = "SUBQ", !.q = sel]
InList(vs) == [NoExpr EXCEPT !.e = "INLIST", !.vals = vs]

TheViews == [v |-> [base |-> "t", cols |-> <<"id">>, conds |-> <<If(B, "<>", N(1))>>]]

NoSql == [kind |-> "", sel |-> NoSelect, rel |-> "", conds |-> <<>>, vals |-> <<>>, sets |-> <<>>]
Query(sel) == [NoSql EXCEPT !.kind = "SELECT", !.sel = sel]
Queries(sels) == {Query(s) : s \in sels}

Item(e) == [NoItem EXCEPT !.expr = e, !.alias = e.name]
As(e, n) == [NoItem EXCEPT !.expr = e, !.alias = <<n>>]
AggItem(fn, t, f) == [NoItem EXCEPT !.agg = fn, !.t = t, !.f = f, !.alias = Agg(fn, t, f).name]
StarOf(t) == [NoItem EXCEPT !.star = TRUE, !.t = t]
Star(rel, conds) == [NoSelect EXCEPT !.rel = rel, !.star = TRUE, !.conds = conds]
List1(rel, items, conds) == [NoSelect EXCEPT !.rel = rel, !.exprs = items, !.conds = conds]
UpTo2(A) == {<<>>} \cup {<<a>> : a \in A} \cup {<<a, b>> : a, b \in A}

\* One table.
Atoms == {If(B, "=", N(1)), If(N(3), "=", B), If(Id, "<", B), If(B, "IS_NULL", Val(Null)), If(N(1), "=", N(2)),
          If(Arith("+", B, N(1)), ">", Id), If(B, "NOT IN", InList(<<IntV(1), IntV(2)>>)), If(Id, "IN", InList(<<IntV(2), Null>>)),
          If(Arith("/", Id, B), "<>", N(2)), If(B, "=", S(<<1>>))}
OneTable1 == Queries({Star(<<"t">>, c) : c \in UpTo2(Atoms)})
Lists == {<<Item(B)>>, <<Item(B), Item(Id)>>, <<As(B, "x"), Item(Id)>>, <<Item(Id), Item(Arith("*", B, Id))>>,
          <<Item(Arith("/", B, Id)), StarOf("")>>, <<AggItem("COUNT", "", "*")>>,
          <<AggItem("COUNT", "", "b"), AggItem("SUM", "", "b"), AggItem("AVG", "", "b")>>, <<AggItem("MAX", "", "b"), AggItem("MIN", "", "id")>>,
          <<Item(Arith("+", Agg("SUM", "", "b"), Agg("COUNT", "", "*")))>>, <<Item(Agg("MAX", "", "id")), Item(Arith("-", Agg("MIN", "", "b"), N(1)))>>}
ListQueries == Queries({List1(<<"t">>, l, c) : l \in Lists, c \in {<<>>} \cup {<<a>> : a \in Atoms}})

\* Two and three tables.
TB == C("t", "b")
TI == C("t", "id")
UI == C("u", "id")
UC == C("u", "c")
JoinAtoms == {If(TI, "=", UI), If(TB, ">", UC), If(UI, "=", N(1)), If(TB, "IS_NOT_NULL", Val(Null)), If(N(2), "<", N(1)), If(TB, "=", TI)}
Joins == Queries({Star(<<"t", "u">>, c) : c \in UpTo2(JoinAtoms)}
                 \cup {List1(<<"u", "t">>, <<Item(TB), Item(Arith("+", UC, TI))>>, c) : c \in UpTo2(JoinAtoms)}
                 \cup {List1(<<"t", "u">>, l, c) : l \in {<<StarOf("u")>>, <<AggItem("COUNT", "", "*"), AggItem("SUM", "u", "c")>>}, c \in {<<a>> : a \in JoinAtoms}}
                 \cup {Star(<<"w", "t", "u">>, <<If(UI, "=", TI), a>>) : a \in JoinAtoms})

\* Subqueries.
SubAtoms == {If(C("u", "id"), "=", C("t", "id")), If(C("", "c"), "<", N(1)), If(UI, ">", N(2))}
SubConds == {<<>>} \cup {<<a>> : a \in SubAtoms}
InSub(c) == Sub(List1(<<"u">>, <<Item(UI)>>, c))
Scalar(fn, c) == Sub(List1(<<"u">>, <<AggItem(fn, "u", "c")>>, c))
SubqueryConds == {If(NoExpr, op, Sub(Star(<<"u">>, c))) : op \in ExistsOps, c \in SubConds}
                 \cup {If(TB, op, InSub(c)) : op \in InOps, c \in SubConds}
                 \cup {If(TB, ">", Scalar(fn, c)) : fn \in {"MAX", "COUNT"}, c \in SubConds}
                 \cup {If(InSub(c), "=", TI) : c \in SubConds}
Subqueries == Queries({Star(<<"t">>, <<c>>) : c \in SubqueryConds} \cup {Star(<<"t">>, <<c, If(TI, "<", N(2))>>) : c \in SubqueryConds})

\* Groups and order.
GroupOf(items, group, having) == [List1(<<"t">>, items, <<>>) EXCEPT !.group = group, !.having = having]
By(f) == [t |-> "", f |-> f]
Groupings == Queries({GroupOf(<<Item(B), AggItem(fn, "", "id")>>, <<By("b")>>, h) : fn \in {"COUNT", "SUM", "MAX"},
                        h \in {<<>>, <<If(Agg("COUNT", "", "*"), ">", N(1))>>, <<If(B, "IS_NOT_NULL", Val(Null))>>}}
                     \cup {GroupOf(<<Item(Id), Item(B), AggItem("COUNT", "", "*")>>, <<By("id"), By("b")>>, <<>>)})
Asc(f) == [t |-> "", f |-> f, asc |-> TRUE]
Desc(f) == [t |-> "", f |-> f, asc |-> FALSE]
Orders == Queries({[s EXCEPT !.order = o] : s \in {Star(<<"t">>, <<>>), List1(<<"t">>, <<Item(B), Item(Id)>>, <<If(B, "=", N(1))>>)},
                                            o \in {<<Asc("b")>>, <<Desc("id"), Asc("b")>>, <<Asc("id"), Desc("b")>>}})

\* Views.
Viewed == Queries({Star(<<"v">>, c) : c \in {<<>>, <<If(Id, "=", N(2))>>}} \cup {List1(<<"v", "u">>, <<StarOf("v"), Item(UC)>>, <<If(C("v", "id"), "=", UI)>>)})

Late == Queries({Star(<<"t">>, <<c, If(TB, "IN", InSub(<<If(UI, ">", N(2))>>))>>) : c \in {If(NoExpr, "EXISTS", Sub(Star(<<"u">>, <<If(UI, "=", TI)>>)))}}
                \cup {Star(<<"t">>, <<If(TB, "NOT IN", InSub(<<If(UI, ">", N(2))>>)), If(Scalar("MAX", <<>>), "<", Scalar("SUM", <<>>))>>)})
Aliased == Queries({[List1(<<"t", "t">>, <<Item(C("x", "b")), Item(C("y", "b"))>>, <<If(C("x", "id"), "=", C("y", "id"))>>) EXCEPT !.alias = <<"x", "y">>],
                    [List1(<<"t", "u">>, <<Item(C("x", "b")), Item(C("y", "c"))>>, <<If(C("x", "id"), "=", C("y", "id"))>>) EXCEPT !.alias = <<"x", "y">>],
                    [Star(<<"t", "u">>, <<>>) EXCEPT !.alias = <<"u", "">>], Star(<<"t", "nowhere">>, <<>>),
                    List1(<<"t">>, <<Item(C("", "nothing"))>>, <<>>), List1(<<"t">>, <<Item(Id), AggItem("COUNT", "", "*")>>, <<>>),
                    List1(<<"v">>, <<Item(B)>>, <<>>), Star(<<"t">>, <<If(C("", "c"), "=", N(1))>>), List1(<<"u", "t">>, <<StarOf("w")>>, <<>>),
                    Star(<<"t">>, <<If(TI, "=", InSub(<<>>))>>), Star(<<"t">>, <<If(TI, "IN", Sub(Star(<<"u">>, <<>>)))>>),
                    Star(<<"w">>, <<If(C("", "d"), "<", S(<<2>>))>>)}
                   \cup {Star(<<"t">>, <<If(N(c), "IN", InList(<<IntV(2), IntV(4)>>))>>) : c \in {1, 2}}
                   \cup {Star(<<"t">>, <<If(Arith("+", TB, N(1)), op, r)>>) : op \in InOps,
                                                                       r \in {InList(<<IntV(2), IntV(4)>>), InSub(<<>>)}})

\* Text, dates and functions.
Func(f, args) == Named(Node("FUNC", f, args), <<f>>)
AB == <<10, 11>>
Patterns == {<<Percent>>, <<10, Percent>>, <<Underscore, 11>>, <<Percent, 11, Percent, 10>>, <<11>>, <<Percent, 10, Underscore>>}
Texts == Queries({Star(<<"w">>, <<If(C("", "s"), op, S(p))>>) : op \in {"LIKE", "NOT LIKE"}, p \in Patterns}
                 \cup {List1(<<"w">>, <<Item(Func("length", <<C("", "s")>>)), Item(Func("date_format", <<C("", "d"), S(<<Percent, 134, Percent, 113>>)>>))>>, <<If(C("", "d"), "IS_NOT_NULL", Val(Null))>>)}
                 \cup {List1(<<>>, <<Item(e)>>, <<>>) : e \in {Arith("/", N(1), N(3)), Arith("-", N(2), S(<<3>>)), Func("round", <<Val(FloatV(5, 4)), N(1)>>),
                                                                Func("length", <<N(1)>>), Func("none", <<N(1)>>), Node("ARITH", "NEG", <<N(4)>>)}}
                 \cup {List1(<<"u">>, <<Item(Func("round", <<C("", "c")>>))>>, c) : c \in {<<>>, <<If(C("", "c"), "IS_NOT_NULL", Val(Null))>>}})

\* Changes.
Delete(rel, conds) == [NoSql EXCEPT !.kind = "DELETE", !.rel = rel, !.conds = conds]
Update1(rel, sets, conds) == [NoSql EXCEPT !.kind = "UPDATE", !.rel = rel, !.sets = sets, !.conds = conds]
Insert(rel, vals) == [NoSql EXCEPT !.kind = "INSERT", !.rel = rel, !.vals = vals]
Set(f, e) == [f |-> f, e |-> e]
SomeSets == {<<Set("b", N(3))>>, <<Set("b", Val(Null)), Set("id", S(<<7>>))>>, <<Set("b", N(1)), Set("b", N(2))>>, <<Set("id", Val(Null))>>,
             <<Set("b", Scalar("MAX", <<>>))>>, <<Set("b", InSub(<<>>))>>, <<Set("id", S(AB))>>, <<Set("nothing", N(1))>>, <<Set("b", Sub(Star(<<"nowhere">>, <<>>)))>>}
Changes == {Delete(r, c) : r \in {"t", "v"}, c \in UpTo2(Atoms)} \cup {Delete("nowhere", <<>>), Delete("t", <<If(C("", "c"), "=", N(1))>>)}
           \cup {Update1("t", x, c) : x \in SomeSets, c \in {<<>>} \cup {<<a>> : a \in Atoms}}
           \cup {Update1("v", <<Set("id", N(4))>>, <<If(Id, ">", N(1))>>), Update1("nowhere", <<>>, <<>>), Update1("t", <<>>, <<If(C("", "c"), "=", N(1))>>)}
           \cup {Insert("t", <<IntV(5), Null>>), Insert("t", <<IntV(5), IntV(6), IntV(0), IntV(0)>>), Insert("t", <<IntV(5)>>), Insert("t", <<IntV(1), StrV(AB)>>),
                 Insert("v", <<IntV(5), IntV(6)>>), Insert("v", <<IntV(5), Null>>), Insert("nowhere", <<>>), Insert("w", <<StrV(AB), DateV(20240102)>>)}

\* Explained and stored.
Others == {[q EXCEPT !.kind = "EXPLAIN"] : q \in Queries({Star(<<"t">>, c) : c \in {<<>>, <<If(B, "=", N(1))>>, <<If(Id, "<", N(1))>>, <<If(C("", "c"), "=", N(1))>>}})}
CreateView(sel) == [NoSql EXCEPT !.kind = "VIEW", !.sel = sel]
SumOfTwo(f) == Arith("+", Agg("SUM", "x", f), Agg("SUM", "y", f))
SelfJoin(t, join, sum) == [List1(<<t, t>>, <<AggItem("COUNT", "x", join), Item(SumOfTwo(sum))>>, <<If(C("x", join), "=", C("y", join))>>) EXCEPT !.alias = <<"x", "y">>]
StoredViews == {CreateView(s) : s \in {SelfJoin("t", "b", "id"), SelfJoin("t", "id", "b"), SelfJoin("u", "id", "c"), SelfJoin("u", "c", "id"), SelfJoin("nowhere", "b", "id"),
                                       List1(<<"t">>, <<Item(B), Item(Arith("*", B, Id))>>, <<>>), List1(<<"u">>, <<Item(Arith("-", C("", "c"), N(1))), Item(Func("round", <<C("", "c")>>))>>, <<>>),
                                       List1(<<"t">>, <<Item(C("", "nothing"))>>, <<>>), List1(<<"nowhere">>, <<Item(Id)>>, <<>>)}}

TheStatements == OneTable1 \cup ListQueries \cup Joins \cup Subqueries \cup Groupings \cup Orders \cup Viewed \cup Late \cup Aliased \cup Texts
                 \cup Changes \cup Others \cup StoredViews

I(i) == IntV(i)
U(i, a, b) == <<IntV(i), FloatV(a, b)>>
Words == <<<<StrV(AB), DateV(20240102)>>, <<StrV(<<10, 11, 10>>), DateV(0)>>>>
TheDatasets == {[t |-> <<<<I(1), I(1)>>, <<I(2), I(0)>>, <<I(2), I(3)>>>>, u |-> <<U(1, 1, 2), <<>>, U(2, 0, 1), U(2, 3, 2)>>, w |-> Words],
                [t |-> <<<<I(2), I(1)>>, <<>>, <<I(2), I(1)>>, <<I(1), I(2)>>>>, u |-> <<U(2, 0, 1), U(2, 0, 1)>>, w |-> Words],
                [t |-> <<>>, u |-> <<U(3, 5, 2)>>, w |-> <<>>],
                [t |-> <<<<I(3), I(0)>>, <<I(1), I(2)>>>>, u |-> <<<<>>>>, w |-> <<Words[1]>>]}
=============================================================================
