------------------------------- MODULE RwLock -------------------------------
(***************************************************************************)
(* What a reader-writer lock whose write side is recursive promises: a set *)
(* of granted read locks and at most one writing thread, never both.       *)
(***************************************************************************)
EXTENDS Naturals

CONSTANTS
  Threads,
  Guards,    \* the read locks one thread may hold at a time
  None

VARIABLES
  readers,   \* granted read locks, as pairs of thread and guard
  writer,    \* the thread that writes, or None
  depth      \* how often it has taken the lock

lockVars == <<readers, writer, depth>>

Init == readers = {} /\ writer = None /\ depth = 0

AcquireRead(t, g) ==
  /\ writer = None /\ <<t, g>> \notin readers
  /\ readers' = readers \cup {<<t, g>>}
  /\ UNCHANGED <<writer, depth>>

ReleaseRead(t, g) ==
  /\ <<t, g>> \in readers
  /\ readers' = readers \ {<<t, g>>}
  /\ UNCHANGED <<writer, depth>>

AcquireWrite(t) ==
  /\ readers = {} /\ writer \in {None, t}
  /\ writer' = t /\ depth' = depth + 1
  /\ UNCHANGED readers

ReleaseWrite(t) ==
  /\ writer = t
  /\ depth' = depth - 1
  /\ writer' = IF depth = 1 THEN None ELSE t
  /\ UNCHANGED readers

Next ==
  \E t \in Threads :
    \/ \E g \in Guards : AcquireRead(t, g) \/ ReleaseRead(t, g)
    \/ AcquireWrite(t)
    \/ ReleaseWrite(t)

Spec == Init /\ [][Next]_lockVars
=============================================================================
