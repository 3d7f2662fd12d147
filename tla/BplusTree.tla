------------------------------ MODULE BplusTree ------------------------------
(***************************************************************************)
(* The B+ tree of an index (src/src/observer/storage/index/bplus_tree.cpp) *)
(* under several threads: insert_entry, delete_entry and the range scanner *)
(* with the latches of LatchMemo (storage/trx/latch_memo.cpp).             *)
(*                                                                         *)
(* A step is what a thread does between two latches it has to wait for.    *)
(* The restructuring after a split or a removal is one step per level.     *)
(* An entry's key is its value with the row's identifier: <<attr, rid>>.   *)
(* Sequences count from 1; the first key of an internal node is a dummy,   *)
(* as in the code.  Pages are allocated lowest first; allocation does not  *)
(* fail (Pages is large enough), and reading a page does not fail.         *)
(***************************************************************************)
EXTENDS Integers, FiniteSets, SequencesExt

CONSTANTS
  Threads,
  Keys,               \* the entries callers use: pairs <<attr, rid>>
  CallKeys,           \* bound: those of them used after the script
  MaxRid,             \* RID::max() of them
  Ranges,             \* the ranges callers scan
  Pages,              \* bound: page numbers of the file
  leaf_max_size, internal_max_size,
  Scripts,            \* sequences of calls one thread makes before the others start
  CallBound,          \* bound: calls after that
  Root,               \* model value: root_lock_
  None

(* With room for three items or fewer a leaf can lose its only entry, and *)
(* coalesce_or_redistribute then asks for the key before the first. *)
ASSUME SizeAssumption == leaf_max_size >= 4 /\ internal_max_size >= 4
ASSUME KeyAssumption == \A k \in Keys : k[1] \in Nat /\ k[2] \in 1 .. MaxRid - 1

VARIABLES
  nodes,      \* the pages: a node, or None
  root,       \* file_header_.root_page
  pc, call,   \* where a thread is, and its call
  at,         \* the page its frame pointer names
  memo,       \* LatchMemo::items_: the latches it holds, in order
  disposed,   \* LatchMemo::disposed_pages_
  up,         \* the new node insert_entry_into_parent has to link
  rc,         \* the return code, set when the call takes effect
  iter,       \* BplusTreeScanner::iter_index_
  out,        \* what the scan has returned so far
  sure, maybe,\* history: entries present all along / at some time during the scan
  script, calls

treeVars == <<nodes, root>>
scanVars == <<iter, out>>
historyVars == <<sure, maybe>>
planVars == <<script, calls>>
vars == <<treeVars, pc, call, at, memo, disposed, up, rc, scanVars, historyVars, planVars>>

-----------------------------------------------------------------------------
(* Keys and nodes *)

(* KeyComparator: the value first, then the row. *)
Less(a, b) == a[1] < b[1] \/ (a[1] = b[1] /\ a[2] < b[2])

Zero == <<0, 0>>

(* common::lower_bound on an ordered array *)
lower_bound(s, k) == 1 + Cardinality({i \in DOMAIN s : Less(s[i], k)})

LeafNode(keys, parent, next) ==
  [is_leaf |-> TRUE, keys |-> keys, parent |-> parent, children |-> <<>>, next |-> next]

InternalNode(keys, children, parent) ==
  [is_leaf |-> FALSE, keys |-> keys, parent |-> parent, children |-> children, next |-> None]

size(n) == Len(n.keys)
max_size(n) == IF n.is_leaf THEN leaf_max_size ELSE internal_max_size
min_size(n) == max_size(n) - max_size(n) \div 2

\* Mutant: a full node counts as safe.
is_safe_Full(n, o, is_root) ==
  CASE o = "scan"   -> TRUE
    [] o = "insert" -> size(n) <= max_size(n)
    [] o = "delete" -> size(n) > (IF ~is_root THEN min_size(n)
                                  ELSE IF n.is_leaf THEN 1 ELSE 2)

is_safe(n, o, is_root) ==
  CASE o = "scan"   -> TRUE
    [] o = "insert" -> size(n) < max_size(n)
    [] o = "delete" -> size(n) > (IF ~is_root THEN min_size(n)
                                  ELSE IF n.is_leaf THEN 1 ELSE 2)

\* Mutant: the last entry is not looked at.
LeafFinds_OffByOne(n, k) ==
  lower_bound(n.keys, k) < size(n) /\ n.keys[lower_bound(n.keys, k)] = k

LeafFinds(n, k) == lower_bound(n.keys, k) <= size(n) /\ n.keys[lower_bound(n.keys, k)] = k

(* where InternalIndexNodeHandler::insert puts a key: never in the first slot *)
InsertPosition(n, k) == 1 + lower_bound(Tail(n.keys), k)

(* InternalIndexNodeHandler::lookup: the child that leads to a key *)
ChildIndex(n, k) ==
  LET i == InsertPosition(n, k)
  IN  IF i > size(n) \/ Less(k, n.keys[i]) THEN i - 1 ELSE i

LeafInsert(n, i, k) == [n EXCEPT !.keys = InsertAt(@, i, k)]
LeafRemove(n, i) == [n EXCEPT !.keys = RemoveAt(@, i)]
InternalInsert(n, k, p) ==
  [n EXCEPT !.keys = InsertAt(@, InsertPosition(n, k), k),
            !.children = InsertAt(@, InsertPosition(n, k), p)]
InternalRemove(n, i) == [n EXCEPT !.keys = RemoveAt(@, i), !.children = RemoveAt(@, i)]

SubItems(n, i, j) ==
  [n EXCEPT !.keys = SubSeq(@, i, j), !.children = IF n.is_leaf THEN @ ELSE SubSeq(@, i, j)]

(* move_half_to: what stays, and what goes to the new node *)
LowerHalf(n) == SubItems(n, 1, size(n) \div 2)
UpperHalf(n) == SubItems(n, size(n) \div 2 + 1, size(n))

(* move_first_to_end, move_last_to_front *)
FirstItem(n) == SubItems(n, 1, 1)
LastItem(n) == SubItems(n, size(n), size(n))
WithoutFirst(n) == SubItems(n, 2, size(n))
WithoutLast(n) == SubItems(n, 1, size(n) - 1)

(* append, preappend, move_to: the items of n after those of m *)
Joined(m, n) == [m EXCEPT !.keys = @ \o n.keys, !.children = @ \o n.children]

(* copy_from and preappend give every child they move its new parent *)
Adopt(f, p, children) ==
  [q \in DOMAIN f |-> IF q \in Range(children) THEN [f[q] EXCEPT !.parent = p] ELSE f[q]]

FreePages(f) == {p \in Pages : f[p] = None}
NewPage(f) == CHOOSE p \in FreePages(f) : \A q \in FreePages(f) : p <= q

-----------------------------------------------------------------------------
(* Latches *)

Mode(o) == IF o = "scan" THEN "S" ELSE "X"

Holds(t, p, m) == \E i \in DOMAIN memo[t] : memo[t][i] = <<p, m>>

CanLatch(t, p, m) ==
  \A u \in Threads \ {t} : ~Holds(u, p, "X") /\ (m = "S" \/ ~Holds(u, p, "S"))

(* The left brother of a node, the right one for the first node. *)
Neighbour(p) ==
  LET n == nodes[p]
      parent == nodes[n.parent]
      i == ChildIndex(parent, n.keys[size(n)])
  IN  parent.children[IF i = 1 THEN 2 ELSE i - 1]

(* the latch a thread waits for before its next step *)
Wants(t) ==
  CASE pc[t] \in {"create", "root"} -> <<Root, Mode(call[t][1])>>
    [] pc[t] = "fetch" -> <<at[t], Mode(call[t][1])>>
    [] pc[t] = "open_next" -> <<nodes[at[t]].next, "S">>
    [] pc[t] = "coalesce" /\ nodes[at[t]].parent # None -> <<Neighbour(at[t]), "X">>
    [] OTHER -> None

Blocked(t) == Wants(t) # None /\ ~CanLatch(t, Wants(t)[1], Wants(t)[2])

-----------------------------------------------------------------------------
Init ==
  /\ nodes = [p \in Pages |-> None]
  /\ root = None
  /\ pc = [t \in Threads |-> "idle"]
  /\ call = [t \in Threads |-> None]
  /\ at = [t \in Threads |-> None]
  /\ memo = [t \in Threads |-> <<>>]
  /\ disposed = [t \in Threads |-> {}]
  /\ up = [t \in Threads |-> None]
  /\ rc = [t \in Threads |-> None]
  /\ iter = [t \in Threads |-> 0]
  /\ out = [t \in Threads |-> <<>>]
  /\ sure = [t \in Threads |-> {}]
  /\ maybe = [t \in Threads |-> {}]
  /\ script \in Scripts
  /\ calls = 0

(* The entries in the leaves. *)
Content == UNION {Range(nodes[p].keys) : p \in {q \in Pages : nodes[q] # None /\ nodes[q].is_leaf}}

(* A call ends: the destructor of LatchMemo releases every latch, then disposes. *)
Finish(t, code) ==
  /\ rc' = [rc EXCEPT ![t] = code]
  /\ memo' = [memo EXCEPT ![t] = <<>>]
  /\ at' = [at EXCEPT ![t] = None]
  /\ up' = [up EXCEPT ![t] = None]
  /\ pc' = [pc EXCEPT ![t] = IF disposed'[t] # {} THEN "dispose" ELSE "done"]

(* insert_entry looks whether the tree is empty before it takes root_lock_. *)
Begin(t, c) ==
  /\ pc[t] = "idle"
  /\ call' = [call EXCEPT ![t] = c]
  /\ pc' = [pc EXCEPT ![t] = IF c[1] = "insert" /\ root = None THEN "create" ELSE "root"]
  /\ sure' = [sure EXCEPT ![t] = IF c[1] = "scan" THEN Content ELSE {}]
  /\ maybe' = [maybe EXCEPT ![t] = IF c[1] = "scan" THEN Content ELSE {}]
  /\ out' = [out EXCEPT ![t] = <<>>]
  /\ UNCHANGED <<treeVars, at, memo, disposed, up, rc, iter>>

(* validity of the range at the head of BplusTreeScanner::open *)
InvalidRange(r) ==
  /\ r.left # None /\ r.right # None
  /\ r.left > r.right \/ (r.left = r.right /\ ~(r.left_inclusive /\ r.right_inclusive))

LeftKey(r) == <<r.left, IF r.left_inclusive THEN 0 ELSE MaxRid>>
RightKey(r) == <<r.right, IF r.right_inclusive THEN MaxRid ELSE 0>>

(* the set of entries changed: scans under way may or may not see it *)
Changed(added, removed) ==
  /\ sure' = [t \in Threads |-> sure[t] \ removed]
  /\ maybe' = [t \in Threads |-> IF pc[t] # "idle" /\ call[t][1] = "scan"
                                 THEN maybe[t] \cup added ELSE maybe[t]]

(* create_new_tree, under root_lock_, if the tree is still empty *)
CreateTree(t) ==
  /\ pc[t] = "create" /\ ~Blocked(t)
  /\ UNCHANGED <<call, disposed, scanVars, planVars>>
  /\ IF root = None
     THEN LET p == NewPage(nodes)
          IN  /\ nodes' = [nodes EXCEPT ![p] = LeafNode(<<call[t][2]>>, None, None)]
              /\ root' = p
              /\ Changed({call[t][2]}, {})
              /\ Finish(t, "SUCCESS")
     ELSE /\ pc' = [pc EXCEPT ![t] = "root"]
          /\ UNCHANGED <<treeVars, at, memo, up, rc, historyVars>>

(* What a call returns when find_leaf answers EMPTY. *)
EmptyCode(c) ==
  CASE c[1] = "insert" -> "EMPTY"
    [] c[1] = "delete" -> "RECORD_NOT_EXIST"
    [] c[1] = "scan"   -> IF c[2].left = None THEN "EMPTY" ELSE "RECORD_EOF"

(* find_leaf_internal takes root_lock_ and reads the root's page number. *)
LatchRoot(t) ==
  /\ pc[t] = "root"
  /\ UNCHANGED <<treeVars, call, disposed, scanVars, historyVars, planVars>>
  /\ IF call[t][1] = "scan" /\ InvalidRange(call[t][2]) THEN Finish(t, "INVALID_ARGUMENT")
     ELSE /\ ~Blocked(t)
          /\ IF root = None THEN Finish(t, EmptyCode(call[t]))
             ELSE /\ memo' = [memo EXCEPT ![t] = <<<<Root, Mode(call[t][1])>>>>]
                  /\ at' = [at EXCEPT ![t] = root]
                  /\ pc' = [pc EXCEPT ![t] = "fetch"]
                  /\ UNCHANGED <<up, rc>>

(* the child a call goes on to *)
NextChild(n, c) ==
  IF c[1] = "scan" /\ c[2].left = None THEN n.children[1]
  ELSE n.children[ChildIndex(n, IF c[1] = "scan" THEN LeftKey(c[2]) ELSE c[2])]

(* crabing_protocal_fetch_page: latch a node, and release the ones above it *)
(* when the operation cannot change them. *)
FetchPage(t) ==
  LET p == at[t]
      n == nodes[p]
      o == call[t][1]
      latch == <<p, Mode(o)>>
      is_root == Len(memo[t]) > 0 /\ memo[t][Len(memo[t])][1] = Root
  IN  /\ pc[t] = "fetch" /\ ~Blocked(t)
      /\ memo' = [memo EXCEPT ![t] = IF is_safe(n, o, is_root) THEN <<latch>> ELSE Append(@, latch)]
      /\ IF n.is_leaf
         THEN pc' = [pc EXCEPT ![t] = o] /\ UNCHANGED at
         ELSE at' = [at EXCEPT ![t] = NextChild(n, call[t])] /\ UNCHANGED pc
      /\ UNCHANGED <<treeVars, call, disposed, up, rc, scanVars, historyVars, planVars>>

-----------------------------------------------------------------------------
(* Insertion *)

(* insert_entry_into_leaf_node: the entry goes into the leaf or one of its halves. *)
InsertIntoLeaf(t) ==
  LET p == at[t]
      n == nodes[p]
      k == call[t][2]
      i == lower_bound(n.keys, k)
      q == NewPage(nodes)
      left == LowerHalf(n)
      right == UpperHalf(n)
  IN  /\ pc[t] = "insert"
      /\ UNCHANGED <<root, call, disposed, scanVars, planVars>>
      /\ \/ /\ LeafFinds(n, k)
            /\ Finish(t, "RECORD_DUPLICATE_KEY")
            /\ UNCHANGED <<nodes, historyVars>>
         \/ /\ ~LeafFinds(n, k) /\ size(n) < max_size(n)
            /\ nodes' = [nodes EXCEPT ![p] = LeafInsert(n, i, k)]
            /\ Changed({k}, {})
            /\ Finish(t, "SUCCESS")
         \/ /\ ~LeafFinds(n, k) /\ size(n) >= max_size(n)
            /\ nodes' = [nodes EXCEPT
                 ![p] = [(IF i <= size(left) THEN LeafInsert(left, i, k) ELSE left)
                         EXCEPT !.next = q],
                 ![q] = IF i <= size(left) THEN right ELSE LeafInsert(right, i - size(left), k)]
            /\ Changed({k}, {})
            /\ up' = [up EXCEPT ![t] = q]
            /\ memo' = [memo EXCEPT ![t] = Append(@, <<q, "X">>)]
            /\ rc' = [rc EXCEPT ![t] = "SUCCESS"]
            /\ pc' = [pc EXCEPT ![t] = "insert_parent"]
            /\ UNCHANGED at

(* insert_entry_into_parent, one level: a new root, a parent with room, or one *)
(* that is split in turn. *)
InsertIntoParent(t) ==
  LET p == at[t]
      q == up[t]
      k == nodes[q].keys[1]
      r == nodes[p].parent
      new == NewPage(nodes)
      right == UpperHalf(nodes[r])
      toRight == Less(right.keys[1], k)
      target == IF toRight THEN new ELSE r
      halves == Adopt([nodes EXCEPT ![r] = LowerHalf(nodes[r]), ![new] = right], new, right.children)
  IN  /\ pc[t] = "insert_parent"
      /\ UNCHANGED <<call, disposed, scanVars, historyVars, planVars>>
      /\ \/ /\ r = None
            /\ nodes' = Adopt([nodes EXCEPT ![new] = InternalNode(<<Zero, k>>, <<p, q>>, None)],
                              new, <<p, q>>)
            /\ root' = new
            /\ Finish(t, rc[t])
         \/ /\ r # None /\ size(nodes[r]) < max_size(nodes[r])
            /\ nodes' = Adopt([nodes EXCEPT ![r] = InternalInsert(@, k, q)], r, <<q>>)
            /\ Finish(t, rc[t])
            /\ UNCHANGED root
         \/ /\ r # None /\ size(nodes[r]) >= max_size(nodes[r])
            /\ nodes' = Adopt([halves EXCEPT ![target] = InternalInsert(@, k, q)], target, <<q>>)
            /\ at' = [at EXCEPT ![t] = r]
            /\ up' = [up EXCEPT ![t] = new]
            /\ memo' = [memo EXCEPT ![t] = Append(@, <<new, "X">>)]
            /\ UNCHANGED <<root, pc, rc>>

-----------------------------------------------------------------------------
(* Removal *)

(* delete_entry_internal *)
DeleteFromLeaf(t) ==
  LET p == at[t]
      n == nodes[p]
      k == call[t][2]
      m == LeafRemove(n, lower_bound(n.keys, k))
  IN  /\ pc[t] = "delete"
      /\ UNCHANGED <<root, call, disposed, scanVars, planVars>>
      /\ \/ /\ ~LeafFinds(n, k)
            /\ Finish(t, "RECORD_NOT_EXIST")
            /\ UNCHANGED <<nodes, historyVars>>
         \/ /\ LeafFinds(n, k)
            /\ nodes' = [nodes EXCEPT ![p] = m]
            /\ Changed({}, {k})
            /\ IF size(m) >= min_size(m) THEN Finish(t, "SUCCESS")
               ELSE /\ rc' = [rc EXCEPT ![t] = "SUCCESS"]
                    /\ pc' = [pc EXCEPT ![t] = "coalesce"]
                    /\ UNCHANGED <<at, memo, up>>

(* adjust_root: an empty leaf, or an internal node with one child, is no root. *)
AdjustRoot(t) ==
  LET p == at[t]
      n == nodes[p]
      heir == IF n.is_leaf THEN None ELSE n.children[1]
  IN  /\ pc[t] = "coalesce" /\ nodes[p].parent = None
      /\ IF size(n) > 1 \/ (n.is_leaf /\ size(n) > 0)
         THEN UNCHANGED <<treeVars, disposed>>
         ELSE /\ root' = heir
              /\ nodes' = IF heir = None THEN nodes ELSE [nodes EXCEPT ![heir].parent = None]
              /\ disposed' = [disposed EXCEPT ![t] = @ \cup {p}]
      /\ UNCHANGED <<call, scanVars, historyVars, planVars>>
      /\ Finish(t, rc[t])

\* Mutant: the parent keeps its old key.
Redistribute_StaleKey(p, q, r, i) ==
  LET n == nodes[p]
      m == nodes[q]
      item == IF i = 1 THEN FirstItem(m) ELSE LastItem(m)
      n1 == IF i = 1 THEN Joined(n, item) ELSE [Joined(item, n) EXCEPT !.next = n.next]
      m1 == IF i = 1 THEN WithoutFirst(m) ELSE WithoutLast(m)
  IN  Adopt([nodes EXCEPT ![p] = n1, ![q] = m1], p, item.children)

(* redistribute: one item moves over from the brother *)
Redistribute(p, q, r, i) ==
  LET n == nodes[p]
      m == nodes[q]
      item == IF i = 1 THEN FirstItem(m) ELSE LastItem(m)
      n1 == IF i = 1 THEN Joined(n, item) ELSE [Joined(item, n) EXCEPT !.next = n.next]
      m1 == IF i = 1 THEN WithoutFirst(m) ELSE WithoutLast(m)
  IN  Adopt([nodes EXCEPT ![p] = n1, ![q] = m1,
               ![r].keys[IF i = 1 THEN 2 ELSE i] = IF i = 1 THEN m1.keys[1] ELSE n1.keys[1]],
            p, item.children)

(* coalesce: the right one of two brothers moves into the left one *)
Coalesce(left, right, r, i) ==
  Adopt([nodes EXCEPT ![r] = InternalRemove(@, i),
                      ![left] = [Joined(@, nodes[right]) EXCEPT !.next = nodes[right].next],
                      ![right] = SubItems(@, 1, 0)],
        left, nodes[right].children)

(* coalesce_or_redistribute, one level: it latches the brother and works on the *)
(* two under their parent; after a merge the parent may be too small in turn. *)
CoalesceOrRedistribute(t) ==
  LET p == at[t]
      n == nodes[p]
      r == n.parent
      q == Neighbour(p)
      i == ChildIndex(nodes[r], n.keys[size(n)])
      left == IF i = 1 THEN p ELSE q
      right == IF i = 1 THEN q ELSE p
      merged == Coalesce(left, right, r, IF i = 1 THEN 2 ELSE i)
  IN  /\ pc[t] = "coalesce" /\ n.parent # None /\ ~Blocked(t)
      /\ UNCHANGED <<root, call, scanVars, historyVars, planVars>>
      /\ \/ /\ size(n) + size(nodes[q]) > max_size(n)
            /\ nodes' = Redistribute(p, q, r, i)
            /\ UNCHANGED disposed
            /\ Finish(t, rc[t])
         \/ /\ size(n) + size(nodes[q]) <= max_size(n)
            /\ nodes' = merged
            /\ disposed' = [disposed EXCEPT ![t] = @ \cup {right}]
            /\ IF size(merged[r]) >= min_size(merged[r]) THEN Finish(t, rc[t])
               ELSE /\ at' = [at EXCEPT ![t] = r]
                    /\ memo' = [memo EXCEPT ![t] = Append(@, <<q, "X">>)]
                    /\ UNCHANGED <<pc, up, rc>>

(* the pages a call has emptied go back to the buffer pool, after its latches *)
Dispose(t) ==
  /\ pc[t] = "dispose"
  /\ nodes' = [p \in Pages |-> IF p \in disposed[t] THEN None ELSE nodes[p]]
  /\ disposed' = [disposed EXCEPT ![t] = {}]
  /\ pc' = [pc EXCEPT ![t] = "done"]
  /\ UNCHANGED <<root, call, at, memo, up, rc, scanVars, historyVars, planVars>>

-----------------------------------------------------------------------------
(* Scans *)

TouchEnd(r, k) == r.right # None /\ Less(RightKey(r), k)

\* Mutant: the scan starts one item further on.
Opened_SkipsFirst(t, p, i) ==
  IF TouchEnd(call[t][2], nodes[p].keys[i])
  THEN Finish(t, "RECORD_EOF") /\ UNCHANGED iter
  ELSE /\ iter' = [iter EXCEPT ![t] = i]
       /\ at' = [at EXCEPT ![t] = p]
       /\ pc' = [pc EXCEPT ![t] = "next"]
       /\ UNCHANGED <<up, rc>>
       /\ memo' = IF p = at[t] THEN memo ELSE [memo EXCEPT ![t] = Append(@, <<p, "S">>)]

(* the end of open: the scan stands before item i of page p *)
Opened(t, p, i) ==
  IF TouchEnd(call[t][2], nodes[p].keys[i])
  THEN Finish(t, "RECORD_EOF") /\ UNCHANGED iter
  ELSE /\ iter' = [iter EXCEPT ![t] = i - 1]
       /\ at' = [at EXCEPT ![t] = p]
       /\ pc' = [pc EXCEPT ![t] = "next"]
       /\ UNCHANGED <<up, rc>>
       /\ memo' = IF p = at[t] THEN memo ELSE [memo EXCEPT ![t] = Append(@, <<p, "S">>)]

(* open, on the leaf find_leaf found *)
OpenScan(t) ==
  LET r == call[t][2]
      n == nodes[at[t]]
      i == IF r.left = None THEN 1 ELSE lower_bound(n.keys, LeftKey(r))
  IN  /\ pc[t] = "scan"
      /\ UNCHANGED <<treeVars, call, disposed, out, historyVars, planVars>>
      /\ IF i <= size(n) THEN Opened(t, at[t], i)
         ELSE /\ UNCHANGED iter
              /\ IF n.next = None THEN Finish(t, "RECORD_EOF")
                 ELSE pc' = [pc EXCEPT ![t] = "open_next"] /\ UNCHANGED <<at, memo, up, rc>>

(* open waits for the next leaf with the latch on this one in its hand *)
OpenNextLeaf(t) ==
  /\ pc[t] = "open_next" /\ ~Blocked(t)
  /\ UNCHANGED <<treeVars, call, disposed, out, historyVars, planVars>>
  /\ Opened(t, nodes[at[t]].next, 1)

Emit(t, p, i) ==
  IF TouchEnd(call[t][2], nodes[p].keys[i]) THEN Finish(t, "RECORD_EOF") /\ UNCHANGED <<iter, out>>
  ELSE /\ out' = [out EXCEPT ![t] = Append(@, nodes[p].keys[i])]
       /\ iter' = [iter EXCEPT ![t] = i]
       /\ at' = [at EXCEPT ![t] = p]
       /\ UNCHANGED <<pc, up, rc>>
       /\ memo' = IF p = at[t] THEN memo ELSE [memo EXCEPT ![t] = <<<<p, "S">>>>]

\* Mutant: the scanner waits for the next leaf, as open does.
NextEntry_Waits(t) ==
  LET n == nodes[at[t]]
      stop(code) == Finish(t, code) /\ UNCHANGED <<iter, out>>
  IN  /\ pc[t] = "next"
      /\ UNCHANGED <<treeVars, call, disposed, historyVars, planVars>>
      /\ \/ iter[t] < size(n) /\ Emit(t, at[t], iter[t] + 1)
         \/ iter[t] >= size(n) /\ n.next = None /\ stop("RECORD_EOF")
         \/ /\ iter[t] >= size(n) /\ n.next # None
            /\ pc' = [pc EXCEPT ![t] = "open_next"]
            /\ UNCHANGED <<at, memo, up, rc, iter, out>>

(* next_entry: on the same leaf, or on the next one if its latch is free *)
NextEntry(t) ==
  LET n == nodes[at[t]]
      stop(code) == Finish(t, code) /\ UNCHANGED <<iter, out>>
  IN  /\ pc[t] = "next"
      /\ UNCHANGED <<treeVars, call, disposed, historyVars, planVars>>
      /\ \/ iter[t] < size(n) /\ Emit(t, at[t], iter[t] + 1)
         \/ iter[t] >= size(n) /\ n.next = None /\ stop("RECORD_EOF")
         \/ /\ iter[t] >= size(n) /\ n.next # None
            /\ IF CanLatch(t, n.next, "S") THEN Emit(t, n.next, 1) ELSE stop("LOCKED_NEED_WAIT")

-----------------------------------------------------------------------------
Return(t) ==
  /\ pc[t] = "done"
  /\ pc' = [pc EXCEPT ![t] = "idle"]
  /\ call' = [call EXCEPT ![t] = None]
  /\ rc' = [rc EXCEPT ![t] = None]
  /\ out' = [out EXCEPT ![t] = <<>>]
  /\ iter' = [iter EXCEPT ![t] = 0]
  /\ sure' = [sure EXCEPT ![t] = {}]
  /\ maybe' = [maybe EXCEPT ![t] = {}]
  /\ UNCHANGED <<treeVars, at, memo, disposed, up, planVars>>

Step(t) ==
  \/ CreateTree(t) \/ LatchRoot(t) \/ FetchPage(t)
  \/ InsertIntoLeaf(t) \/ InsertIntoParent(t)
  \/ DeleteFromLeaf(t) \/ AdjustRoot(t) \/ CoalesceOrRedistribute(t) \/ Dispose(t)
  \/ OpenScan(t) \/ OpenNextLeaf(t) \/ NextEntry(t)
  \/ Return(t)

(* One thread makes the calls of the script, then every thread makes any. *)
ScriptedCall(t) ==
  /\ script # <<>> /\ \A u \in Threads : pc[u] = "idle"
  /\ Begin(t, Head(script))
  /\ script' = Tail(script) /\ UNCHANGED calls

FreeCall(t, c) ==
  /\ script = <<>> /\ calls < CallBound
  /\ Begin(t, c)
  /\ calls' = calls + 1 /\ UNCHANGED script

Calls == ({"insert", "delete"} \X CallKeys) \cup ({"scan"} \X Ranges)

Next ==
  \E t \in Threads : \/ Step(t)
                     \/ ScriptedCall(t)
                     \/ \E c \in Calls : FreeCall(t, c)

Spec == Init /\ [][Next]_vars
-----------------------------------------------------------------------------
(* Properties *)

Allocated == {p \in Pages : nodes[p] # None}

(* The variables hold what their types allow; a thread between calls holds no latch. *)
TypeOK ==
  /\ root \in Pages \cup {None}
  /\ \A p \in Allocated : /\ nodes[p].parent \in Pages \cup {None}
                          /\ nodes[p].next \in Pages \cup {None}
                          /\ size(nodes[p]) <= max_size(nodes[p])
                          /\ nodes[p].is_leaf \/ Len(nodes[p].children) = size(nodes[p])
  /\ \A t \in Threads : pc[t] \in {"idle", "done", "dispose"} => memo[t] = <<>>

(* IndexNodeHandler::validate; other nodes stay half full (a full node of odd size *)
(* leaves one item less than min_size when it is split). *)
ValidSize(n) ==
  size(n) >= (IF n.parent # None THEN max_size(n) \div 2 ELSE IF n.is_leaf THEN 1 ELSE 2)

(* the first key that counts lies between the parent's keys around the node *)
ValidInParent(p, first) ==
  LET n == nodes[p]
      r == nodes[n.parent]
      i == CHOOSE j \in DOMAIN r.children : r.children[j] = p
  IN  /\ r # None /\ p \in Range(r.children)
      /\ i > 1 => ~Less(n.keys[first], r.keys[i])
      /\ i < size(r) => Less(n.keys[size(n)], r.keys[i + 1])

ValidLeaf(p) ==
  LET n == nodes[p]
  IN  /\ ValidSize(n)
      /\ \A j \in 2 .. size(n) : Less(n.keys[j - 1], n.keys[j])
      /\ n.parent # None => ValidInParent(p, 1)

ValidInternal(p) ==
  LET n == nodes[p]
  IN  /\ ValidSize(n)
      /\ \A j \in 3 .. size(n) : Less(n.keys[j - 1], n.keys[j])
      /\ \A c \in Range(n.children) : nodes[c] # None /\ nodes[c].parent = p
      /\ n.parent # None => ValidInParent(p, 2)

(* The pages at every depth; a tree is never deeper than it has pages. *)
Levels ==
  LET level[d \in Nat] ==
        IF d = 0 THEN IF root = None THEN {} ELSE {root}
        ELSE UNION {Range(nodes[p].children) : p \in level[d - 1]}
  IN  [d \in 0 .. Cardinality(Allocated) |-> level[d]]

(* validate_leaf_link: the leaves in the order of their links, from the left-most one *)
LeafLink ==
  LET leaves == {p \in Allocated : nodes[p].is_leaf}
      chain[i \in Nat] ==
        IF i = 1 THEN CHOOSE p \in leaves : \A q \in leaves : nodes[q].next # p
        ELSE nodes[chain[i - 1]].next
  IN  [i \in 1 .. Cardinality(leaves) |-> chain[i]]

(* Where find_leaf ends for a key. *)
FindLeaf(k) ==
  LET path[d \in Nat] ==
        IF d = 0 THEN root
        ELSE LET p == path[d - 1]
             IN  IF nodes[p].is_leaf THEN p ELSE nodes[p].children[ChildIndex(nodes[p], k)]
  IN  path[Cardinality(Allocated)]

Restructuring == \E t \in Threads : pc[t] \in {"insert_parent", "coalesce", "dispose"}

(* Whenever no thread is in the middle of a split or a merge, the tree satisfies  *)
(* validate_tree: every node has its size, its order and its parent's bounds, all *)
(* leaves are at one depth and linked in order, every key is found by descending  *)
(* from the root, and no page is lost: those in use are those of the tree.        *)
TreeShape ==
  ~Restructuring =>
    LET leaves == {p \in Allocated : nodes[p].is_leaf}
        items == FlattenSeq([i \in DOMAIN LeafLink |-> nodes[LeafLink[i]].keys])
    IN  /\ \A p \in Allocated : IF nodes[p].is_leaf THEN ValidLeaf(p) ELSE ValidInternal(p)
        /\ Allocated = UNION Range(Levels)
        /\ leaves # {} => leaves \in Range(Levels)
        /\ \A i \in 1 .. Len(items) - 1 : Less(items[i], items[i + 1])
        /\ \A k \in Content : k \in Range(nodes[FindLeaf(k)].keys)

(* The tree satisfies validate_tree between restructurings and has its type always: *)
(* no mix of splits, merges and redistributions of several threads breaks it.       *)
TreeValid == TypeOK /\ TreeShape

(* The thread a step belongs to. *)
Acts(t) == <<pc[t], at[t], memo[t], rc[t]>>' # <<pc[t], at[t], memo[t], rc[t]>>

(* Latch crabbing is enough: a step changes the items or the link of a page in    *)
(* use only for the thread that holds its exclusive latch (the parent field of a  *)
(* moved child excepted), and a page is freed only when no thread can still be    *)
(* at it.                                                                         *)
Guarded(p, t) ==
  IF nodes'[p] = None
  THEN \A u \in Threads \ {t} : at[u] # p /\ ~Holds(u, p, "S") /\ ~Holds(u, p, "X")
  ELSE \/ Holds(t, p, "X")
       \/ pc[t] = "coalesce" /\ Wants(t) = <<p, "X">> /\ ~Blocked(t)

Body(n) == IF n = None THEN None ELSE <<n.keys, n.children, n.next>>

ChangesUnderLatch ==
  [][\A p \in Pages : nodes[p] # None /\ Body(nodes[p]) # Body(nodes[p])' =>
        \E t \in Threads : Acts(t) /\ Guarded(p, t)]_vars

InRange(r, k) ==
  /\ r.left # None => ~Less(k, LeftKey(r))
  /\ r.right # None => ~Less(RightKey(r), k)

(* A scan that reaches its end has returned, in order and each once, every entry  *)
(* of its range that was there all the time, and none that was never there.       *)
ScanExact ==
  \A t \in Threads :
    pc[t] = "done" /\ call[t][1] = "scan" /\ rc[t] = "RECORD_EOF" =>
      /\ \A i \in 1 .. Len(out[t]) - 1 : Less(out[t][i], out[t][i + 1])
      /\ {k \in sure[t] : InRange(call[t][2], k)} \subseteq Range(out[t])
      /\ \A k \in Range(out[t]) : k \in maybe[t] /\ InRange(call[t][2], k)

WaitsFor(t, u) ==
  u # t /\ Blocked(t) /\ (Holds(u, Wants(t)[1], "X") \/ Holds(u, Wants(t)[1], "S"))

WaitCircle(s) == s # {} /\ \A t \in s : \E u \in s : WaitsFor(t, u)

(* Threads wait for one another's latches in a circle only when one of them is a  *)
(* scan that has returned nothing yet: open waits for the next leaf with one in   *)
(* its hand.  A scan that is under way gives up instead (next_entry), and the     *)
(* latches of insertions and removals are taken in an order without circles.      *)
OnlyOpenDeadlocks ==
  \A s \in SUBSET Threads :
    WaitCircle(s) => \E t \in s : call[t][1] = "scan" /\ out[t] = <<>>

(* Insertions and removals behave as atomic calls on a set of entries.            *)
Writes(t) == call[t] # None /\ call[t][1] # "scan"

Index == INSTANCE OrderedIndex WITH
  content <- Content,
  call <- [t \in Threads |-> IF Writes(t) THEN call[t] ELSE None],
  answer <- [t \in Threads |-> IF Writes(t) THEN rc[t] ELSE None]

(* The tree implements the index it is meant to be: every insert_entry and        *)
(* delete_entry takes effect in one step, with the answer of that moment.         *)
IndexSpec == Index!Spec
==============================================================================
