------------------------ MODULE RecursiveSharedMutex ------------------------
(***************************************************************************)
(* common::RecursiveSharedMutex (src/deps/common/lang/mutex.cpp), the lock *)
(* behind the page latches of the buffer pool when CONCURRENCY is on.      *)
(*                                                                         *)
(* Every method runs under mutex_, except where it waits on a condition    *)
(* variable: a step of the model is a method, or the part of it up to or   *)
(* after a wait.  The callers are modelled by the rules of the class       *)
(* comment: a thread that holds a read lock does not ask for the write     *)
(* lock.  A thread that writes does not ask for a read lock either, since  *)
(* lock_shared would wait for itself; try_lock_shared it may call.         *)
(***************************************************************************)
EXTENDS Integers, FiniteSets

CONSTANTS
  Threads,
  Guards,      \* the read locks one thread may hold at a time
  None,        \* std::thread::id()
  DepthBound,  \* bound: how often a thread nests the write lock
  CallBound    \* bound: lock calls of each thread

ASSUME SetAssumption ==
  IsFiniteSet(Threads) /\ IsFiniteSet(Guards) /\ None \notin Threads
ASSUME BoundAssumption == DepthBound \in Nat \ {0} /\ CallBound \in Nat

VARIABLES
  shared_lock_count,    \* shared_lock_count_
  exclusive_lock_count, \* exclusive_lock_count_
  recursive_owner,      \* recursive_owner_
  recursive_count,      \* recursive_count_
  pc,                   \* where each thread stands
  guard,                \* the guard a waiting lock_shared is for
  readers,              \* the read locks handed to callers
  writes,               \* how often each thread was given the write lock
  calls                 \* lock calls made by each thread

counts == <<shared_lock_count, exclusive_lock_count, recursive_owner,
            recursive_count>>

vars == <<counts, pc, guard, readers, writes, calls>>

\* "shared" and "exclusive": about to run (again) the loop of lock_shared or
\* lock; "wait_..." : asleep on the condition variable.
Pcs == {"idle", "shared", "wait_shared", "exclusive", "wait_exclusive"}

Init ==
  /\ shared_lock_count = 0 /\ exclusive_lock_count = 0
  /\ recursive_owner = None /\ recursive_count = 0
  /\ pc = [t \in Threads |-> "idle"]
  /\ guard = [t \in Threads |-> None]
  /\ readers = {}
  /\ writes = [t \in Threads |-> 0]
  /\ calls = [t \in Threads |-> 0]

Sleepers(cv) == {t \in Threads : pc[t] = cv}

Reads(t) == {g \in Guards : <<t, g>> \in readers}

Calling(t) == calls[t] < CallBound /\ calls' = [calls EXCEPT ![t] = @ + 1]

----------------------------------------------------------------------------
(* lock_shared and try_lock_shared.                                        *)

CallLockShared(t, g) ==
  /\ pc[t] = "idle" /\ g \notin Reads(t) /\ writes[t] = 0
  /\ Calling(t)
  /\ guard' = [guard EXCEPT ![t] = g]
  /\ pc' = [pc EXCEPT ![t] = "shared"]
  /\ UNCHANGED <<counts, readers, writes>>

LockShared(t) ==
  /\ pc[t] = "shared"
  /\ IF exclusive_lock_count > 0
       THEN /\ pc' = [pc EXCEPT ![t] = "wait_shared"]
            /\ UNCHANGED <<counts, guard, readers>>
       ELSE /\ shared_lock_count' = shared_lock_count + 1
            /\ readers' = readers \cup {<<t, guard[t]>>}
            /\ guard' = [guard EXCEPT ![t] = None]
            /\ pc' = [pc EXCEPT ![t] = "idle"]
            /\ UNCHANGED <<exclusive_lock_count, recursive_owner, recursive_count>>
  /\ UNCHANGED <<writes, calls>>

\* Mutant: it does not look at the writer.
TryLockShared_Barges(t, g) ==
  /\ pc[t] = "idle" /\ g \notin Reads(t)
  /\ Calling(t)
  /\ shared_lock_count' = shared_lock_count + 1
  /\ readers' = readers \cup {<<t, g>>}
  /\ UNCHANGED <<exclusive_lock_count, recursive_owner, recursive_count, pc,
                 guard, writes>>

\* It returns false, and nothing changes, while the lock is held exclusively.
TryLockShared(t, g) ==
  /\ pc[t] = "idle" /\ g \notin Reads(t)
  /\ Calling(t)
  /\ IF exclusive_lock_count = 0
       THEN /\ shared_lock_count' = shared_lock_count + 1
            /\ readers' = readers \cup {<<t, g>>}
       ELSE UNCHANGED <<shared_lock_count, readers>>
  /\ UNCHANGED <<exclusive_lock_count, recursive_owner, recursive_count, pc,
                 guard, writes>>

\* notify_one on exclusive_lock_cv_ wakes some sleeper if there is one;
\* notify_all on shared_lock_cv_ wakes all.
Woken(p, chosen) ==
  [t \in Threads |->
     IF t \in chosen
       THEN IF p[t] = "wait_shared" THEN "shared" ELSE "exclusive"
       ELSE p[t]]

NotifyOne(cv) ==
  IF Sleepers(cv) = {} THEN {{}} ELSE {{t} : t \in Sleepers(cv)}

\* Mutant: the last reader does not notify.
UnlockShared_Silent(t, g) ==
  /\ pc[t] = "idle" /\ <<t, g>> \in readers
  /\ readers' = readers \ {<<t, g>>}
  /\ shared_lock_count' = shared_lock_count - 1
  /\ UNCHANGED <<exclusive_lock_count, recursive_owner, recursive_count, pc, guard,
                 writes, calls>>

UnlockShared(t, g) ==
  /\ pc[t] = "idle" /\ <<t, g>> \in readers
  /\ readers' = readers \ {<<t, g>>}
  /\ shared_lock_count' = shared_lock_count - 1
  /\ IF shared_lock_count' = 0
       THEN \E one \in NotifyOne("wait_exclusive") : pc' = Woken(pc, one)
       ELSE UNCHANGED pc
  /\ UNCHANGED <<exclusive_lock_count, recursive_owner, recursive_count, guard,
                 writes, calls>>

----------------------------------------------------------------------------
(* lock and unlock.                                                        *)

CallLock(t) ==
  /\ pc[t] = "idle" /\ Reads(t) = {} /\ writes[t] < DepthBound
  /\ Calling(t)
  /\ pc' = [pc EXCEPT ![t] = "exclusive"]
  /\ UNCHANGED <<counts, guard, readers, writes>>

Lock(t) ==
  /\ pc[t] = "exclusive"
  /\ IF shared_lock_count > 0 \/ exclusive_lock_count > 0
       THEN IF recursive_owner = t
              THEN /\ recursive_count' = recursive_count + 1
                   /\ writes' = [writes EXCEPT ![t] = @ + 1]
                   /\ pc' = [pc EXCEPT ![t] = "idle"]
                   /\ UNCHANGED <<exclusive_lock_count, recursive_owner>>
              ELSE /\ pc' = [pc EXCEPT ![t] = "wait_exclusive"]
                   /\ UNCHANGED <<exclusive_lock_count, recursive_owner,
                                  recursive_count, writes>>
       ELSE /\ recursive_owner' = t
            /\ recursive_count' = 1
            /\ exclusive_lock_count' = exclusive_lock_count + 1
            /\ writes' = [writes EXCEPT ![t] = @ + 1]
            /\ pc' = [pc EXCEPT ![t] = "idle"]
  /\ UNCHANGED <<shared_lock_count, guard, readers, calls>>

\* Mutant: a nested unlock releases the lock.
Unlock_ReleasesNested(t) ==
  /\ pc[t] = "idle" /\ writes[t] > 0
  /\ writes' = [writes EXCEPT ![t] = @ - 1]
  /\ recursive_owner' = None
  /\ recursive_count' = 0
  /\ exclusive_lock_count' = 0
  /\ \E one \in NotifyOne("wait_exclusive") :
       pc' = Woken(pc, one \cup Sleepers("wait_shared"))
  /\ UNCHANGED <<shared_lock_count, guard, readers, calls>>

\* Mutant: only one sleeper is woken, reader or writer.
Unlock_NotifiesOne(t) ==
  /\ pc[t] = "idle" /\ writes[t] > 0
  /\ writes' = [writes EXCEPT ![t] = @ - 1]
  /\ IF recursive_count > 1
       THEN /\ recursive_count' = recursive_count - 1
            /\ UNCHANGED <<exclusive_lock_count, recursive_owner, pc>>
       ELSE /\ recursive_owner' = None
            /\ recursive_count' = 0
            /\ exclusive_lock_count' = exclusive_lock_count - 1
            /\ \E one \in NotifyOne("wait_exclusive") \cup NotifyOne("wait_shared") :
                 pc' = Woken(pc, one)
  /\ UNCHANGED <<shared_lock_count, guard, readers, calls>>

Unlock(t) ==
  /\ pc[t] = "idle" /\ writes[t] > 0
  /\ writes' = [writes EXCEPT ![t] = @ - 1]
  /\ IF recursive_owner = t /\ recursive_count > 1
       THEN /\ recursive_count' = recursive_count - 1
            /\ UNCHANGED <<exclusive_lock_count, recursive_owner, pc>>
       ELSE /\ recursive_owner' = None
            /\ recursive_count' = 0
            /\ exclusive_lock_count' = exclusive_lock_count - 1
            /\ IF exclusive_lock_count' = 0
                 THEN \E one \in NotifyOne("wait_exclusive") :
                        pc' = Woken(pc, one \cup Sleepers("wait_shared"))
                 ELSE UNCHANGED pc
  /\ UNCHANGED <<shared_lock_count, guard, readers, calls>>

\* A condition variable may wake a sleeper for no reason.
SpuriousWakeup(t) ==
  /\ pc[t] \in {"wait_shared", "wait_exclusive"}
  /\ pc' = Woken(pc, {t})
  /\ UNCHANGED <<counts, guard, readers, writes, calls>>

----------------------------------------------------------------------------
\* What a thread does on its own account once it has called: the calls it makes
\* run, and what it was given it gives back.
Proceed(t) == LockShared(t) \/ Lock(t)

Release(t) == Unlock(t) \/ \E g \in Guards : UnlockShared(t, g)

Call(t) ==
  \/ \E g \in Guards : CallLockShared(t, g) \/ TryLockShared(t, g)
  \/ CallLock(t)

Next == \E t \in Threads : Proceed(t) \/ Release(t) \/ Call(t) \/ SpuriousWakeup(t)

Spec == Init /\ [][Next]_vars

\* Threads that can run do, and latches are given back.
FairSpec ==
  Spec /\ \A t \in Threads : WF_vars(Proceed(t)) /\ WF_vars(Release(t))

----------------------------------------------------------------------------
(* Properties.                                                             *)

TypeOK ==
  /\ shared_lock_count \in Nat /\ exclusive_lock_count \in Nat
  /\ recursive_owner \in Threads \cup {None} /\ recursive_count \in Nat
  /\ pc \in [Threads -> Pcs]
  /\ guard \in [Threads -> Guards \cup {None}]
  /\ readers \subseteq Threads \X Guards
  /\ writes \in [Threads -> Nat]
  /\ calls \in [Threads -> Nat]

\* The lock implements a reader-writer lock with a recursive write side: its
\* counters and owner say exactly who was let in.
RW == INSTANCE RwLock WITH writer <- recursive_owner, depth <- recursive_count

ImplementsRwLock == RW!Spec

\* The counters agree with what the callers hold, so that no unlock makes one
\* negative and a nested unlock does not let another writer in.
CountsAgree ==
  /\ shared_lock_count = Cardinality(readers)
  /\ exclusive_lock_count = IF recursive_owner = None THEN 0 ELSE 1
  /\ \A t \in Threads :
       writes[t] = IF recursive_owner = t THEN recursive_count ELSE 0
  /\ IF recursive_owner = None THEN recursive_count = 0
     ELSE recursive_count > 0 /\ readers = {}

\* No wake-up is lost: nobody sleeps for a read lock that is to be had, and when
\* the write lock is to be had and somebody sleeps for it, a thread that was
\* woken is on its way to take it.
NoLostWakeup ==
  /\ exclusive_lock_count = 0 => Sleepers("wait_shared") = {}
  /\ /\ shared_lock_count = 0 /\ exclusive_lock_count = 0
     /\ Sleepers("wait_exclusive") # {}
     => Sleepers("exclusive") # {}

\* What a thread inside a call has in hand, which the two invariants above need
\* to be inductive: the read lock it waits for is not granted yet.
WaitInv ==
  \A t \in Threads :
    pc[t] \in {"shared", "wait_shared"} =>
      guard[t] \in Guards /\ <<t, guard[t]>> \notin readers

IndInv == TypeOK /\ CountsAgree /\ NoLostWakeup /\ WaitInv

\* Every lock call returns once the calls of the other threads run out: the
\* wake-ups that unlock and unlock_shared send are enough.
CallsReturn == \A t \in Threads : pc[t] # "idle" ~> pc[t] = "idle"
=============================================================================
