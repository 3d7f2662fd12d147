---- MODULE MCServer ----
EXTENDS Server, TLC
CONSTANTS c1, c2

Whole(stmts) == [i \in 1 .. Len(stmts) |-> [stmt |-> stmts[i], half |-> FALSE]]
Halved(stmts) == [i \in 1 .. Len(stmts) |-> [stmt |-> stmts[i], half |-> i = 1]]
Both(p, q) == c1 :> p @@ c2 :> q

SomeScripts == {
  Both(Whole(<<"begin", "change", "commit">>), <<>>),
  Both(Whole(<<"begin", "change", "rollback">>), <<>>),
  Both(Whole(<<"set", "select">>), <<>>),
  Both(Halved(<<"change">>), Whole(<<"login">>)),
  Both(Whole(<<"set">>), Whole(<<"login", "create">>)),
  Both(<<>>, Whole(<<"login", "select">>)),
  Both(Whole(<<"noplan">>), Whole(<<"login">>)),
  Both(Whole(<<"blank">>), <<>>),
  Both(<<>>, Whole(<<"login", "change", "version">>)),
  Both(<<>>, Whole(<<"login", "syntax">>))}
====
