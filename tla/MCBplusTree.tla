---- MODULE MCBplusTree ----
(* Nodes of four items, as in the unit tests.  One thread first makes the calls  *)
(* of a script: an empty tree, a full leaf, a small tree of two levels, and trees*)
(* of three levels, filled upwards and downwards, whose nodes are as small as    *)
(* they can be and whose brothers are small or full.                             *)
EXTENDS BplusTree, TLC

CONSTANTS Values

AllKeys == {<<a, 1>> : a \in 1 .. 15} \cup {<<2, 2>>}
AllCallKeys == {<<a, 1>> : a \in Values} \cup {<<2, 2>>}

Fill(s) == [i \in DOMAIN s |-> <<"insert", <<s[i], 1>>>>]
Upwards(n) == Fill([i \in 1 .. n |-> i])
Downwards(n) == Fill([i \in 1 .. n |-> n + 1 - i])

AllScripts == {<<>>, Fill(<<2>>), Fill(<<5, 2, 1, 8>>), Fill(<<1, 2, 3, 5, 8>>) \o <<<<"delete", <<3, 1>>>>>>}
  \cup {Upwards(n) : n \in {11, 14}} \cup {Downwards(n) : n \in {11, 14}}

AllRanges == {
  [left |-> None, left_inclusive |-> FALSE, right |-> 5, right_inclusive |-> FALSE],
  [left |-> 2, left_inclusive |-> FALSE, right |-> None, right_inclusive |-> FALSE],
  [left |-> 2, left_inclusive |-> FALSE, right |-> 3, right_inclusive |-> FALSE],
  [left |-> 2, left_inclusive |-> TRUE, right |-> 2, right_inclusive |-> TRUE],
  [left |-> 5, left_inclusive |-> TRUE, right |-> 5, right_inclusive |-> FALSE]}

Symmetry == Permutations(Threads)
====
