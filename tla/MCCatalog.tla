---- MODULE MCCatalog ----
EXTENDS Catalog
CONSTANTS s1, s2

Hidden == <<[name |-> "__trx_xid_begin", type |-> 2, len |-> 4], [name |-> "__trx_xid_end", type |-> 2, len |-> 4]>>
Columns == <<[name |-> "id", type |-> 2, len |-> 4, nullable |-> FALSE], [name |-> "note", type |-> 6, len |-> 8, nullable |-> TRUE]>>
NoLength == <<[name |-> "id", type |-> 1, len |-> 0, nullable |-> FALSE]>>

Create(n) == [op |-> "create", name |-> n, attrs |-> Columns]
BadCreate(n) == [op |-> "create", name |-> n, attrs |-> NoLength]
Index(n, x) == [op |-> "index", name |-> n, index |-> [name |-> x, fields |-> <<"id", "note">>, unique |-> TRUE]]
View(n, m, shape, named, c) == [op |-> "view", name |-> n, from |-> m, shape |-> shape, named |-> named, kind |-> "", cond |-> c]
Star(n, m, c) == View(n, m, "star", FALSE, c)
Exprs(n, m) == View(n, m, "exprs", FALSE, Values)
Ctas(n, m) == [op |-> "make", name |-> n, from |-> m, kind |-> "ctas", cond |-> Values]
Drop(n) == [op |-> "drop", name |-> n]
Ins(n, v) == [op |-> "insert", name |-> n, value |-> v]
Sel(n) == [op |-> "select", name |-> n]

Both(p, q) == [s \in {s1, s2} |-> IF s = s1 THEN p ELSE q]

SomeScripts == {
  Both(<<Create("t"), Index("t", "i"), Ins("t", 1), Drop("t"), Create("t"), Index("t", "i"), Ins("t", 2)>>, <<>>),
  Both(<<Create("t"), Index("t", "i"), Ins("t", 1)>>, <<Index("t", "j"), Drop("t")>>),
  Both(<<Create("t"), Ins("t", 1)>>, <<Create("u"), Ins("u", 2)>>),
  Both(<<Create("t"), Drop("t"), Create("u"), Ins("u", 1)>>, <<>>),
  Both(<<Create("t"), Ins("t", 1), Star("v", "t", {1}), Ins("v", 2), Sel("v")>>, <<Drop("t")>>),
  Both(<<Create("t"), Ins("t", 1), Exprs("v", "t"), Sel("v"), Ins("t", 2), Ins("v", 1), Sel("v")>>, <<Sel("v"), Sel("v")>>),
  Both(<<Create("t"), Ins("t", 1), Exprs("v", "t"), Drop("t"), Exprs("t", "v"), Sel("v")>>, <<>>),
  Both(<<Create("t"), Ins("t", 1), Ins("t", 2), Star("u", "t", {2}), View("v", "u", "other", FALSE, Values), Sel("v"), Ins("u", 2), Sel("v")>>, <<>>),
  Both(<<Create("t"), Ins("t", 1), View("v", "t", "exprs", TRUE, {1}), View("u", "v", "fields", FALSE, Values), Ins("t", 1), Sel("u"), Sel("v")>>, <<>>),
  Both(<<Create("t"), Ins("t", 1), View("v", "t", "self join", FALSE, Values), Sel("v")>>, <<Ctas("u", "t"), Sel("u")>>),
  Both(<<Create("t"), View("v", "t", "star", TRUE, Values), Sel("v")>>, <<Create("v"), Star("v", "t", {1}), Drop("v")>>),
  Both(<<BadCreate("t"), Create("t"), Ins("t", 1)>>, <<>>),
  Both(<<Create("t"), Ins("t", 1), Star("u", "t", {2}), View("v", "u", "fields", TRUE, {1, 2}), Sel("v")>>, <<>>),
  Both(<<Create("t"), View("v", "t", "star", TRUE, Values), Ins("v", 1)>>, <<Ins("v", 2), Sel("v")>>)}
====
