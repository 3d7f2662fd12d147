---------------------------- MODULE OrderedIndex ----------------------------
(***************************************************************************)
(* What an index promises its callers: a set of entries that threads       *)
(* change with atomic calls.  A call takes effect in one step between the  *)
(* moment it is made and the moment it returns, and its answer is the one  *)
(* that belongs to the set at that step.                                   *)
(***************************************************************************)
CONSTANTS Threads, Keys, None

VARIABLES
  content,   \* the entries of the index
  call,      \* the call a thread is in: <<operation, key>>, or None
  answer     \* the return code of that call, None before it took effect

vars == <<content, call, answer>>

Init ==
  /\ content = {}
  /\ call = [t \in Threads |-> None]
  /\ answer = [t \in Threads |-> None]

Invoke(t, o, k) ==
  /\ call[t] = None
  /\ call' = [call EXCEPT ![t] = <<o, k>>]
  /\ UNCHANGED <<content, answer>>

Answer(t, rc) ==
  /\ answer[t] = None
  /\ answer' = [answer EXCEPT ![t] = rc]
  /\ UNCHANGED call

(* An insert that finds the index empty may give up with EMPTY. *)
Insert(t, k) ==
  /\ call[t] = <<"insert", k>>
  /\ \/ Answer(t, "SUCCESS") /\ k \notin content /\ content' = content \cup {k}
     \/ Answer(t, "RECORD_DUPLICATE_KEY") /\ k \in content /\ UNCHANGED content
     \/ Answer(t, "EMPTY") /\ content = {} /\ UNCHANGED content

Delete(t, k) ==
  /\ call[t] = <<"delete", k>>
  /\ \/ Answer(t, "SUCCESS") /\ k \in content /\ content' = content \ {k}
     \/ Answer(t, "RECORD_NOT_EXIST") /\ k \notin content /\ UNCHANGED content

Return(t) ==
  /\ answer[t] # None
  /\ call' = [call EXCEPT ![t] = None]
  /\ answer' = [answer EXCEPT ![t] = None]
  /\ UNCHANGED content

Next ==
  \E t \in Threads :
    \/ Return(t)
    \/ \E k \in Keys : Insert(t, k) \/ Delete(t, k)
    \/ \E o \in {"insert", "delete"}, k \in Keys : Invoke(t, o, k)

Spec == Init /\ [][Next]_vars
=============================================================================
