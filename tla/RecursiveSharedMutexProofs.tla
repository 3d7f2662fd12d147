--------------------- MODULE RecursiveSharedMutexProofs ---------------------
(***************************************************************************)
(* RecursiveSharedMutex implements RwLock and loses no wake-up, for any    *)
(* finite sets of threads and guards and any bounds.                       *)
(***************************************************************************)
EXTENDS RecursiveSharedMutex, FiniteSetTheorems, TLAPS

\* The granted read locks are finitely many, and adding or removing one changes
\* their number by one.
LEMMA ReaderCount ==
  ASSUME readers \subseteq Threads \X Guards
  PROVE  /\ IsFiniteSet(readers) /\ Cardinality(readers) \in Nat
         /\ Cardinality(readers) = 0 <=> readers = {}
         /\ \A x : x \notin readers =>
              Cardinality(readers \cup {x}) = Cardinality(readers) + 1
         /\ \A x \in readers : Cardinality(readers \ {x}) = Cardinality(readers) - 1
<1>1. IsFiniteSet(Threads \X Guards)
  BY FS_Product, SetAssumption
<1>2. IsFiniteSet(readers)
  BY <1>1, FS_Subset
<1> QED
  BY <1>2, FS_CardinalityType, FS_EmptySet, FS_AddElement, FS_RemoveElement

\* Waking changes only the place of the chosen sleepers.
LEMMA WokenType ==
  ASSUME pc \in [Threads -> Pcs], NEW chosen
  PROVE  /\ Woken(pc, chosen) \in [Threads -> Pcs]
         /\ \A t \in Threads : t \notin chosen => Woken(pc, chosen)[t] = pc[t]
         /\ \A t \in Threads : t \in chosen =>
              Woken(pc, chosen)[t] = IF pc[t] = "wait_shared" THEN "shared" ELSE "exclusive"
  BY DEF Woken, Pcs

\* notify_one finds a sleeper if there is one.
LEMMA NotifyFinds ==
  ASSUME NEW cv, NEW one \in NotifyOne(cv)
  PROVE  /\ one \subseteq Sleepers(cv)
         /\ Sleepers(cv) # {} => one # {}
  BY DEF NotifyOne, Sleepers

\* Nobody sleeps, nothing is granted.
LEMMA InitHolds == Init => IndInv
<1> SUFFICES ASSUME Init PROVE IndInv
  OBVIOUS
<1> USE SetAssumption DEF Init
<1>1. TypeOK
  BY DEF TypeOK, Pcs
<1>2. CountsAgree
  BY FS_EmptySet DEF CountsAgree
<1>3. NoLostWakeup /\ WaitInv
  BY DEF NoLostWakeup, WaitInv, Sleepers
<1> QED
  BY <1>1, <1>2, <1>3 DEF IndInv

----------------------------------------------------------------------------
(* Each action keeps the invariant and is a step or a stutter of RwLock.   *)

\* The first half of lock_shared grants nothing.
LEMMA CallLockSharedKeeps ==
  ASSUME IndInv, NEW t \in Threads, NEW g \in Guards, CallLockShared(t, g)
  PROVE  IndInv' /\ UNCHANGED RW!lockVars
<1> USE SetAssumption DEF IndInv, TypeOK, CallLockShared, counts, Calling, Pcs, Reads
<1>1. TypeOK'
  OBVIOUS
<1>2. CountsAgree'
  BY DEF CountsAgree
<1>3. NoLostWakeup'
  BY DEF NoLostWakeup, Sleepers
<1>4. WaitInv'
  BY DEF WaitInv
<1> QED
  BY <1>1, <1>2, <1>3, <1>4 DEF RW!lockVars

\* The loop of lock_shared grants a read lock or goes to sleep.
LEMMA LockSharedKeeps ==
  ASSUME IndInv, NEW t \in Threads, LockShared(t)
  PROVE  IndInv' /\ (UNCHANGED RW!lockVars \/ \E g \in Guards : RW!AcquireRead(t, g))
<1> USE SetAssumption DEF IndInv, TypeOK, LockShared, counts, Pcs
<1>1. CASE exclusive_lock_count > 0
  <2>1. TypeOK' /\ CountsAgree'
    BY <1>1 DEF CountsAgree
  <2>2. NoLostWakeup'
    BY <1>1 DEF NoLostWakeup, Sleepers
  <2>3. WaitInv'
    BY <1>1 DEF WaitInv
  <2> QED
    BY <1>1, <2>1, <2>2, <2>3 DEF RW!lockVars
<1>2. CASE ~(exclusive_lock_count > 0)
  <2>0. guard[t] \in Guards /\ <<t, guard[t]>> \notin readers /\ recursive_owner = None
    BY <1>2 DEF WaitInv, CountsAgree
  <2>1. TypeOK'
    BY <1>2, <2>0
  <2>2. CountsAgree'
    BY <1>2, <2>0, ReaderCount DEF CountsAgree
  <2>3. NoLostWakeup'
    BY <1>2, ReaderCount DEF NoLostWakeup, Sleepers, CountsAgree
  <2>4. WaitInv'
    BY <1>2, <2>0 DEF WaitInv
  <2>5. RW!AcquireRead(t, guard[t])
    BY <1>2, <2>0 DEF RW!AcquireRead
  <2> QED
    BY <2>0, <2>1, <2>2, <2>3, <2>4, <2>5
<1> QED
  BY <1>1, <1>2

\* try_lock_shared grants a read lock or returns false.
LEMMA TryLockSharedKeeps ==
  ASSUME IndInv, NEW t \in Threads, NEW g \in Guards, TryLockShared(t, g)
  PROVE  IndInv' /\ (UNCHANGED RW!lockVars \/ RW!AcquireRead(t, g))
<1> USE SetAssumption DEF IndInv, TypeOK, TryLockShared, Calling, Reads, Pcs
<1>1. CASE exclusive_lock_count = 0
  <2>0. <<t, g>> \notin readers /\ recursive_owner = None
    BY <1>1 DEF CountsAgree
  <2>1. TypeOK'
    BY <1>1
  <2>2. CountsAgree'
    BY <1>1, <2>0, ReaderCount DEF CountsAgree
  <2>3. NoLostWakeup'
    BY <1>1, ReaderCount DEF NoLostWakeup, Sleepers, CountsAgree
  <2>4. WaitInv'
    BY <1>1 DEF WaitInv
  <2> QED
    BY <1>1, <2>0, <2>1, <2>2, <2>3, <2>4 DEF RW!AcquireRead
<1>2. CASE exclusive_lock_count # 0
  <2>1. TypeOK' /\ CountsAgree'
    BY <1>2 DEF CountsAgree
  <2>2. NoLostWakeup' /\ WaitInv'
    BY <1>2 DEF NoLostWakeup, Sleepers, WaitInv
  <2> QED
    BY <1>2, <2>1, <2>2 DEF RW!lockVars
<1> QED
  BY <1>1, <1>2

\* The last unlock_shared wakes a sleeping writer.
LEMMA UnlockSharedKeeps ==
  ASSUME IndInv, NEW t \in Threads, NEW g \in Guards, UnlockShared(t, g)
  PROVE  IndInv' /\ RW!ReleaseRead(t, g)
<1> USE SetAssumption DEF IndInv, TypeOK
<1>0. /\ <<t, g>> \in readers /\ readers' = readers \ {<<t, g>>}
      /\ shared_lock_count' = shared_lock_count - 1
      /\ UNCHANGED <<exclusive_lock_count, recursive_owner, recursive_count, guard,
                     writes, calls>>
  BY DEF UnlockShared
<1>1. readers # {} /\ recursive_owner = None /\ exclusive_lock_count = 0
  BY <1>0 DEF CountsAgree
<1>2. /\ pc' \in [Threads -> Pcs]
      /\ \A u \in Threads : pc'[u] = pc[u]
           \/ (pc[u] = "wait_exclusive" /\ pc'[u] = "exclusive")
  <2>1. CASE shared_lock_count' = 0
    <3>1. PICK one \in NotifyOne("wait_exclusive") : pc' = Woken(pc, one)
      BY <2>1 DEF UnlockShared
    <3> QED
      BY <3>1, WokenType, NotifyFinds DEF Sleepers
  <2>2. CASE shared_lock_count' # 0
    BY <2>2 DEF UnlockShared
  <2> QED
    BY <2>1, <2>2
<1>3. TypeOK'
  <2>1. shared_lock_count' \in Nat
    BY <1>0, <1>1, ReaderCount DEF CountsAgree
  <2> QED
    BY <1>0, <1>2, <2>1
<1>4. CountsAgree'
  BY <1>0, <1>1, ReaderCount DEF CountsAgree
<1>5. WaitInv'
  BY <1>0, <1>2 DEF WaitInv
<1>6. NoLostWakeup'
  <2>1. Sleepers("wait_shared")' = {}
    BY <1>1, <1>2 DEF NoLostWakeup, Sleepers
  <2>2. CASE shared_lock_count' = 0
    <3>1. PICK one \in NotifyOne("wait_exclusive") : pc' = Woken(pc, one)
      BY <2>2 DEF UnlockShared
    <3>2. ASSUME Sleepers("wait_exclusive")' # {} PROVE Sleepers("exclusive")' # {}
      <4>1. Sleepers("wait_exclusive") # {}
        BY <1>2, <3>2 DEF Sleepers
      <4>2. PICK u \in Threads : u \in one /\ pc[u] = "wait_exclusive"
        BY <3>1, <4>1, NotifyFinds DEF Sleepers
      <4> QED
        BY <3>1, <4>2, WokenType DEF Sleepers
    <3> QED
      BY <2>1, <3>2 DEF NoLostWakeup
  <2>3. CASE shared_lock_count' # 0
    BY <2>1, <2>3 DEF NoLostWakeup
  <2> QED
    BY <2>2, <2>3
<1> QED
  BY <1>0, <1>3, <1>4, <1>5, <1>6 DEF RW!ReleaseRead

\* The first half of lock grants nothing.
LEMMA CallLockKeeps ==
  ASSUME IndInv, NEW t \in Threads, CallLock(t)
  PROVE  IndInv' /\ UNCHANGED RW!lockVars
<1> USE SetAssumption DEF IndInv, TypeOK, CallLock, counts, Calling, Pcs
<1>1. TypeOK'
  OBVIOUS
<1>2. CountsAgree'
  BY DEF CountsAgree
<1>3. NoLostWakeup'
  BY DEF NoLostWakeup, Sleepers
<1>4. WaitInv'
  BY DEF WaitInv
<1> QED
  BY <1>1, <1>2, <1>3, <1>4 DEF RW!lockVars

\* The loop of lock takes the lock, nests it, or goes to sleep.
LEMMA LockKeeps ==
  ASSUME IndInv, NEW t \in Threads, Lock(t)
  PROVE  IndInv' /\ (UNCHANGED RW!lockVars \/ RW!AcquireWrite(t))
<1> USE SetAssumption DEF IndInv, TypeOK, Pcs
<1>0. pc[t] = "exclusive" /\ UNCHANGED <<shared_lock_count, guard, readers, calls>>
  BY DEF Lock
<1>1. CASE (shared_lock_count > 0 \/ exclusive_lock_count > 0) /\ recursive_owner = t
  <2>1. /\ recursive_count' = recursive_count + 1
        /\ writes' = [writes EXCEPT ![t] = @ + 1] /\ pc' = [pc EXCEPT ![t] = "idle"]
        /\ UNCHANGED <<exclusive_lock_count, recursive_owner>>
    BY <1>1 DEF Lock
  <2>2. TypeOK'
    BY <1>0, <2>1
  <2>3. CountsAgree' /\ exclusive_lock_count = 1 /\ readers = {}
    BY <1>0, <1>1, <2>1 DEF CountsAgree
  <2>4. NoLostWakeup' /\ WaitInv'
    BY <1>0, <2>1, <2>3 DEF NoLostWakeup, Sleepers, WaitInv
  <2> QED
    BY <1>0, <1>1, <2>1, <2>2, <2>3, <2>4 DEF RW!AcquireWrite
<1>2. CASE (shared_lock_count > 0 \/ exclusive_lock_count > 0) /\ recursive_owner # t
  <2>1. /\ pc' = [pc EXCEPT ![t] = "wait_exclusive"]
        /\ UNCHANGED <<exclusive_lock_count, recursive_owner, recursive_count, writes>>
    BY <1>2 DEF Lock
  <2>2. TypeOK' /\ CountsAgree'
    BY <1>0, <2>1 DEF CountsAgree
  <2>3. NoLostWakeup' /\ WaitInv'
    BY <1>0, <1>2, <2>1 DEF NoLostWakeup, Sleepers, WaitInv
  <2> QED
    BY <1>0, <2>1, <2>2, <2>3 DEF RW!lockVars
<1>3. CASE ~(shared_lock_count > 0 \/ exclusive_lock_count > 0)
  <2>1. /\ recursive_owner' = t /\ recursive_count' = 1
        /\ exclusive_lock_count' = exclusive_lock_count + 1
        /\ writes' = [writes EXCEPT ![t] = @ + 1] /\ pc' = [pc EXCEPT ![t] = "idle"]
    BY <1>3 DEF Lock
  <2>2. recursive_owner = None /\ recursive_count = 0 /\ readers = {}
    BY <1>3, ReaderCount DEF CountsAgree
  <2>3. TypeOK'
    BY <1>0, <2>1
  <2>4. CountsAgree'
    BY <1>0, <2>1, <2>2 DEF CountsAgree
  <2>5. NoLostWakeup'
    BY <1>0, <2>1, <2>2 DEF NoLostWakeup, CountsAgree
  <2>6. WaitInv'
    BY <1>0, <2>1 DEF WaitInv
  <2> QED
    BY <1>0, <2>1, <2>2, <2>3, <2>4, <2>5, <2>6 DEF RW!AcquireWrite
<1> QED
  BY <1>1, <1>2, <1>3

\* The outermost unlock wakes every sleeping reader and one sleeping writer.
LEMMA UnlockKeeps ==
  ASSUME IndInv, NEW t \in Threads, Unlock(t)
  PROVE  IndInv' /\ RW!ReleaseWrite(t)
<1> USE SetAssumption DEF IndInv, TypeOK
<1>0. /\ writes[t] > 0 /\ writes' = [writes EXCEPT ![t] = @ - 1]
      /\ UNCHANGED <<shared_lock_count, guard, readers, calls>>
  BY DEF Unlock
<1>1. /\ recursive_owner = t /\ writes[t] = recursive_count /\ readers = {}
      /\ exclusive_lock_count = 1 /\ shared_lock_count = 0
  BY <1>0, ReaderCount DEF CountsAgree
<1>2. CASE recursive_count > 1
  <2>1. /\ recursive_count' = recursive_count - 1
        /\ UNCHANGED <<exclusive_lock_count, recursive_owner, pc>>
    BY <1>1, <1>2 DEF Unlock
  <2>2. TypeOK'
    <3>1. recursive_count' \in Nat /\ writes' \in [Threads -> Nat]
      BY <1>0, <1>2, <2>1
    <3> QED
      BY <1>0, <2>1, <3>1
  <2>3. CountsAgree'
    BY <1>0, <1>1, <1>2, <2>1 DEF CountsAgree
  <2>4. NoLostWakeup' /\ WaitInv'
    BY <1>0, <1>1, <2>1 DEF NoLostWakeup, Sleepers, WaitInv
  <2> QED
    BY <1>0, <1>1, <1>2, <2>1, <2>2, <2>3, <2>4 DEF RW!ReleaseWrite
<1>3. CASE ~(recursive_count > 1)
  <2>1. /\ recursive_owner' = None /\ recursive_count' = 0
        /\ exclusive_lock_count' = 0 /\ recursive_count = 1
    BY <1>0, <1>1, <1>3 DEF Unlock
  <2>2. PICK one \in NotifyOne("wait_exclusive") :
               pc' = Woken(pc, one \cup Sleepers("wait_shared"))
    BY <1>1, <1>3, <2>1 DEF Unlock
  <2>3. /\ pc' \in [Threads -> Pcs]
        /\ \A u \in Threads :
             pc'[u] = IF pc[u] = "wait_shared" THEN "shared"
                      ELSE IF u \in one THEN "exclusive" ELSE pc[u]
        /\ \A u \in one : u \in Threads /\ pc[u] = "wait_exclusive"
    BY <2>2, WokenType, NotifyFinds DEF Sleepers
  <2>4. TypeOK'
    <3>1. writes' \in [Threads -> Nat]
      BY <1>0
    <3> QED
      BY <1>0, <2>1, <2>3, <3>1
  <2>5. CountsAgree'
    BY <1>0, <1>1, <2>1 DEF CountsAgree
  <2>6. NoLostWakeup'
    <3>1. Sleepers("wait_shared")' = {}
      BY <2>3 DEF Sleepers
    <3>2. ASSUME Sleepers("wait_exclusive")' # {} PROVE Sleepers("exclusive")' # {}
      <4>1. Sleepers("wait_exclusive") # {}
        BY <2>3, <3>2 DEF Sleepers
      <4>2. PICK u \in Threads : u \in one /\ pc[u] = "wait_exclusive"
        BY <2>3, <4>1, NotifyFinds
      <4> QED
        BY <2>3, <4>2 DEF Sleepers
    <3> QED
      BY <3>1, <3>2 DEF NoLostWakeup
  <2>7. WaitInv'
    BY <1>0, <2>3 DEF WaitInv
  <2> QED
    BY <1>0, <1>1, <2>1, <2>4, <2>5, <2>6, <2>7 DEF RW!ReleaseWrite
<1> QED
  BY <1>2, <1>3

\* A thread woken for no reason finds its loop condition again.
LEMMA SpuriousWakeupKeeps ==
  ASSUME IndInv, NEW t \in Threads, SpuriousWakeup(t)
  PROVE  IndInv' /\ UNCHANGED RW!lockVars
<1> USE SetAssumption DEF IndInv, TypeOK
<1>1. /\ UNCHANGED <<shared_lock_count, exclusive_lock_count, recursive_owner,
                     recursive_count, guard, readers, writes, calls>>
      /\ pc[t] \in {"wait_shared", "wait_exclusive"} /\ pc' = Woken(pc, {t})
  BY DEF SpuriousWakeup, counts
<1>2. /\ pc' \in [Threads -> Pcs]
      /\ \A u \in Threads : u # t => pc'[u] = pc[u]
      /\ pc'[t] = IF pc[t] = "wait_shared" THEN "shared" ELSE "exclusive"
  BY <1>1, WokenType
<1>3. TypeOK' /\ CountsAgree'
  BY <1>1, <1>2 DEF CountsAgree
<1>4. NoLostWakeup'
  BY <1>1, <1>2 DEF NoLostWakeup, Sleepers
<1>5. WaitInv'
  BY <1>1, <1>2 DEF WaitInv
<1> QED
  BY <1>1, <1>3, <1>4, <1>5 DEF RW!lockVars

\* Every step keeps the invariant and is a step or a stutter of RwLock.
LEMMA NextKeeps == IndInv /\ [Next]_vars => IndInv' /\ [RW!Next]_(RW!lockVars)
<1> SUFFICES ASSUME IndInv, [Next]_vars PROVE IndInv' /\ [RW!Next]_(RW!lockVars)
  OBVIOUS
<1>1. CASE UNCHANGED vars
  BY <1>1 DEF vars, counts, IndInv, TypeOK, CountsAgree, NoLostWakeup, WaitInv,
              Sleepers, RW!lockVars
<1>2. ASSUME NEW t \in Threads,
             Proceed(t) \/ Release(t) \/ Call(t) \/ SpuriousWakeup(t)
      PROVE  IndInv' /\ [RW!Next]_(RW!lockVars)
  <2>1. CASE LockShared(t)
    BY <2>1, LockSharedKeeps DEF RW!Next
  <2>2. CASE Lock(t)
    BY <2>2, LockKeeps DEF RW!Next
  <2>3. CASE Unlock(t)
    BY <2>3, UnlockKeeps DEF RW!Next
  <2>4. CASE \E g \in Guards : UnlockShared(t, g)
    BY <2>4, UnlockSharedKeeps DEF RW!Next
  <2>5. CASE \E g \in Guards : CallLockShared(t, g)
    BY <2>5, CallLockSharedKeeps
  <2>6. CASE \E g \in Guards : TryLockShared(t, g)
    BY <2>6, TryLockSharedKeeps DEF RW!Next
  <2>7. CASE CallLock(t)
    BY <2>7, CallLockKeeps
  <2>8. CASE SpuriousWakeup(t)
    BY <2>8, SpuriousWakeupKeeps
  <2> QED
    BY <1>2, <2>1, <2>2, <2>3, <2>4, <2>5, <2>6, <2>7, <2>8
       DEF Proceed, Release, Call
<1> QED
  BY <1>1, <1>2 DEF Next

\* In every reachable state of the lock.
THEOREM Invariance == Spec => []IndInv
  BY InitHolds, NextKeeps, PTL DEF Spec

\* The counters of RecursiveSharedMutex say who holds it.
THEOREM CountsCorrect == Spec => []CountsAgree
  BY Invariance, PTL DEF IndInv

\* No interleaving of lock and unlock calls loses a wake-up.
THEOREM WakeupCorrect == Spec => []NoLostWakeup
  BY Invariance, PTL DEF IndInv

\* RecursiveSharedMutex is a reader-writer lock with a recursive write side.
THEOREM Refinement == Spec => ImplementsRwLock
<1>1. Init => RW!Init
  BY DEF Init, RW!Init
<1> QED
  BY <1>1, Invariance, NextKeeps, PTL DEF Spec, ImplementsRwLock, RW!Spec
=============================================================================
