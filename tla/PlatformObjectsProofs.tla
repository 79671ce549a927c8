----------------------- MODULE PlatformObjectsProofs ------------------------
(***************************************************************************)
(* What the objects of the platform layer keep, for every number of        *)
(* threads, mutexes, wrappers and ports and every program that uses them.  *)
(***************************************************************************)
EXTENDS PlatformObjects, FiniteSetTheorems, TLAPS

-----------------------------------------------------------------------------
(* Mutexes and their lockers.                                              *)

Lockers == [mutex : Mutexes, locked : BOOLEAN]
MutexTypes ==
    /\ m_initialized \in [Mutexes -> BOOLEAN]
    /\ owner \in [Mutexes -> Threads \cup {NoThread}]
    /\ depth \in [Mutexes -> Nat]
    /\ waiting \in [Threads -> [mutex : Mutexes \cup {NoMutex}, kind : Wait \cup {"none"}]]
    /\ lockers \in [Threads -> Seq(Lockers)]

\* Only a thread inside lock() names a mutex it waits for, one that is
\* initialised; a mutex without owner is not locked, and one that is not
\* initialised has no owner.
MutexStructure ==
    /\ MutexTypes
    /\ \A t \in Threads : waiting[t].mutex = NoMutex <=> waiting[t].kind = "none"
    /\ \A t \in Threads : waiting[t].mutex # NoMutex => m_initialized[waiting[t].mutex]
    /\ \A m \in Mutexes : owner[m] = NoThread => depth[m] = 0
    /\ \A m \in Mutexes : ~m_initialized[m] => owner[m] = NoThread

MutexInv == MutexStructure /\ LockersExact

\* How many lockers of a sequence hold a mutex.
Holder(m) == Locker(m, TRUE)
Failed(m) == Locker(m, FALSE)
HoldingIn(s, m) == {i \in DOMAIN s : s[i] = Holder(m)}
Held(s, m) == Cardinality(HoldingIn(s, m))

LEMMA HeldFinite ==
    ASSUME NEW s \in Seq(Lockers), NEW m
    PROVE  IsFiniteSet(HoldingIn(s, m)) /\ Held(s, m) \in Nat
<1>1. IsFiniteSet(1..Len(s))
  BY FS_Interval
<1>2. HoldingIn(s, m) \subseteq 1..Len(s)
  BY DEF HoldingIn
<1>3. IsFiniteSet(HoldingIn(s, m))
  BY <1>1, <1>2, FS_Subset
<1> QED
  BY <1>3, FS_CardinalityType DEF Held

LEMMA HeldAppend ==
    ASSUME NEW s \in Seq(Lockers), NEW l \in Lockers, NEW n \in Mutexes
    PROVE  /\ Append(s, l) \in Seq(Lockers)
           /\ Held(Append(s, l), n) = Held(s, n) + (IF l = Holder(n) THEN 1 ELSE 0)
<1> DEFINE r == Append(s, l)
<1>1. /\ r \in Seq(Lockers)
      /\ DOMAIN r = 1..(Len(s) + 1) /\ DOMAIN s = 1..Len(s) /\ Len(s) \in Nat
      /\ \A i \in 1..Len(s) : r[i] = s[i]
      /\ r[Len(s) + 1] = l
  OBVIOUS
<1> HIDE DEF r
<1>2. CASE l = Holder(n)
  <2>1. HoldingIn(r, n) = HoldingIn(s, n) \cup {Len(s) + 1}
    BY <1>1, <1>2 DEF HoldingIn
  <2>2. (Len(s) + 1) \notin HoldingIn(s, n)
    BY <1>1 DEF HoldingIn
  <2>3. Held(r, n) = Held(s, n) + 1
    BY <2>1, <2>2, HeldFinite, FS_AddElement DEF Held
  <2> QED
    BY <1>1, <1>2, <2>3 DEF r
<1>3. CASE l # Holder(n)
  <2>1. HoldingIn(r, n) = HoldingIn(s, n)
    BY <1>1, <1>3 DEF HoldingIn
  <2>2. Held(r, n) = Held(s, n) /\ Held(s, n) \in Nat
    BY <2>1, HeldFinite DEF Held
  <2> QED
    BY <1>1, <1>3, <2>2 DEF r
<1> QED
  BY <1>2, <1>3

LEMMA HeldFront ==
    ASSUME NEW s \in Seq(Lockers), s # <<>>, NEW n \in Mutexes
    PROVE  /\ SubSeq(s, 1, Len(s) - 1) \in Seq(Lockers)
           /\ s[Len(s)] \in Lockers
           /\ Held(SubSeq(s, 1, Len(s) - 1), n)
                = Held(s, n) - (IF s[Len(s)] = Holder(n) THEN 1 ELSE 0)
           /\ s[Len(s)] = Holder(n) => Held(s, n) > 0
<1> DEFINE r == SubSeq(s, 1, Len(s) - 1)
<1>1. Len(s) \in Nat \ {0} /\ DOMAIN s = 1..Len(s)
  OBVIOUS
<1>2. /\ r \in Seq(Lockers) /\ Len(r) = Len(s) - 1 /\ DOMAIN r = 1..(Len(s) - 1)
      /\ \A i \in 1..(Len(s) - 1) : r[i] = s[i]
      /\ s[Len(s)] \in Lockers
  BY <1>1
<1> HIDE DEF r
<1>3. CASE s[Len(s)] = Holder(n)
  <2>1. HoldingIn(r, n) = HoldingIn(s, n) \ {Len(s)}
    BY <1>1, <1>2 DEF HoldingIn
  <2>2. Len(s) \in HoldingIn(s, n)
    BY <1>1, <1>3 DEF HoldingIn
  <2>3. Held(r, n) = Held(s, n) - 1
    BY <2>1, <2>2, HeldFinite, FS_RemoveElement DEF Held
  <2>4. Held(s, n) \in Nat /\ Held(s, n) # 0
    BY <2>2, HeldFinite, FS_EmptySet DEF Held
  <2> QED
    BY <1>2, <1>3, <2>3, <2>4 DEF r
<1>4. CASE s[Len(s)] # Holder(n)
  <2>1. HoldingIn(r, n) = HoldingIn(s, n)
    BY <1>1, <1>2, <1>4 DEF HoldingIn
  <2>2. Held(r, n) = Held(s, n) /\ Held(s, n) \in Nat
    BY <2>1, HeldFinite DEF Held
  <2> QED
    BY <1>2, <1>4, <2>2 DEF r
<1> QED
  BY <1>3, <1>4

\* LockersExact in terms of Held.
Exact(m, t) ==
    /\ Held(lockers[t], m) = IF owner[m] = t THEN depth[m] ELSE 0
    /\ owner[m] = t => depth[m] > 0 /\ waiting[t].mutex # m

LEMMA ExactIsLockersExact ==
    /\ LockersExact <=> \A m \in Mutexes, t \in Threads : Exact(m, t)
    /\ LockersExact' <=> \A m \in Mutexes, t \in Threads : Exact(m, t)'
BY DEF LockersExact, Exact, Held, HoldingIn, Holding, Holder

LEMMA MutexInvInit == Init => MutexInv
<1> SUFFICES ASSUME Init PROVE MutexInv
  OBVIOUS
<1>1. MutexStructure
  BY PlatformAssumption, MutexAssumption
     DEF Init, MutexInit, MutexStructure, MutexTypes, NotWaiting, Wait
<1>2. ASSUME NEW m \in Mutexes, NEW t \in Threads PROVE Exact(m, t)
  <2>1. HoldingIn(lockers[t], m) = {}
    BY DEF Init, MutexInit, HoldingIn
  <2> QED
    BY <2>1, FS_EmptySet, PlatformAssumption DEF Init, MutexInit, Exact, Held
<1> QED
  BY <1>1, <1>2, ExactIsLockersExact DEF MutexInv

\* init() of a mutex that is not initialised finds it without owner.
LEMMA MutexInitKeeps ==
    ASSUME MutexInv, NEW t \in Threads, NEW m \in Mutexes, mutex_init(t, m),
           UNCHANGED <<waiting, lockers>>
    PROVE  MutexInv'
<1>1. /\ owner' = owner /\ depth' = depth
      /\ m_initialized' \in [Mutexes -> BOOLEAN]
      /\ \A n \in Mutexes : m_initialized[n] => m_initialized'[n]
  <2>1. CASE UNCHANGED <<owner, depth, m_initialized>>
    BY <2>1 DEF MutexInv, MutexStructure, MutexTypes
  <2>2. CASE /\ ~m_initialized[m]
             /\ owner' = [owner EXCEPT ![m] = NoThread]
             /\ depth' = [depth EXCEPT ![m] = 0]
             /\ m_initialized' = [m_initialized EXCEPT ![m] = TRUE]
    <3>1. owner[m] = NoThread /\ depth[m] = 0
      BY <2>2 DEF MutexInv, MutexStructure
    <3> QED
      BY <2>2, <3>1 DEF MutexInv, MutexStructure, MutexTypes
  <2> QED
    BY <2>1, <2>2 DEF mutex_init, do_init
<1>2. MutexStructure'
  BY <1>1 DEF MutexInv, MutexStructure, MutexTypes
<1>3. \A n \in Mutexes, u \in Threads : Exact(n, u)'
  BY <1>1, ExactIsLockersExact DEF MutexInv, Exact
<1> QED
  BY <1>2, <1>3, ExactIsLockersExact DEF MutexInv

\* lock() returns to t: with the mutex, which was free or, counted, its own, or
\* without it.
LEMMA TakesKeeps ==
    ASSUME MutexInv, NEW t \in Threads, NEW m \in Mutexes, Takes(t, m), m_initialized[m],
           owner[m] \in {NoThread, t}, UNCHANGED m_initialized,
           waiting' = [waiting EXCEPT ![t] = NotWaiting]
    PROVE  MutexInv'
<1>1. /\ owner' = [owner EXCEPT ![m] = t]
      /\ depth' = [depth EXCEPT ![m] = @ + 1]
      /\ lockers' = [lockers EXCEPT ![t] = Append(lockers[t], Holder(m))]
  BY DEF Holder, Locker, Takes, Returns
<1>2. MutexTypes /\ NotWaiting.mutex = NoMutex /\ NotWaiting.kind = "none"
  BY DEF MutexInv, MutexStructure, NotWaiting
<1>3. Holder(m) \in Lockers /\ \A n \in Mutexes : Holder(m) = Holder(n) <=> n = m
  BY DEF Holder, Locker, Lockers
<1>4. lockers[t] \in Seq(Lockers) /\ Append(lockers[t], Holder(m)) \in Seq(Lockers)
  BY <1>2, <1>3, HeldAppend DEF MutexTypes
<1>5. MutexTypes'
  BY <1>1, <1>2, <1>4 DEF MutexTypes, NotWaiting, Wait
<1>6. MutexStructure'
  BY <1>1, <1>2, <1>5, PlatformAssumption DEF MutexInv, MutexStructure, MutexTypes
<1>7. ASSUME NEW n \in Mutexes, NEW u \in Threads PROVE Exact(n, u)'
  <2>1. Exact(n, u) /\ Exact(m, t) /\ Exact(m, u)
    BY ExactIsLockersExact DEF MutexInv
  <2>2. Held(lockers[u], n) \in Nat /\ depth[m] \in Nat /\ lockers[t] \in Seq(Lockers)
    BY <1>2, HeldFinite DEF MutexTypes
  <2>3. owner[m] = NoThread => depth[m] = 0
    BY DEF MutexInv, MutexStructure
  <2>4. Held(lockers'[u], n) = Held(lockers[u], n) + (IF u = t /\ n = m THEN 1 ELSE 0)
    <3>1. CASE u = t
      BY <1>1, <1>2, <1>3, <2>2, <3>1, HeldAppend DEF MutexTypes
    <3>2. CASE u # t
      BY <1>1, <1>2, <2>2, <3>2 DEF MutexTypes
    <3> QED
      BY <3>1, <3>2
  <2>5. waiting'[u] = IF u = t THEN NotWaiting ELSE waiting[u]
    BY <1>2 DEF MutexTypes
  <2>6. CASE n = m
    <3>1. owner'[n] = t /\ depth'[n] = depth[m] + 1
      BY <1>1, <1>2, <2>6 DEF MutexTypes
    <3>2. CASE u = t
      BY <1>2, <2>1, <2>2, <2>3, <2>4, <2>5, <2>6, <3>1, <3>2, MutexAssumption,
         PlatformAssumption DEF Exact
    <3>3. CASE u # t
      BY <2>1, <2>2, <2>4, <2>6, <3>1, <3>3, PlatformAssumption DEF Exact
    <3> QED
      BY <3>2, <3>3
  <2>7. CASE n # m
    <3>1. owner'[n] = owner[n] /\ depth'[n] = depth[n]
      BY <1>1, <1>2, <2>7 DEF MutexTypes
    <3> QED
      BY <1>2, <2>1, <2>2, <2>4, <2>5, <2>7, <3>1, MutexAssumption DEF Exact
  <2> QED
    BY <2>6, <2>7
<1> QED
  BY <1>6, <1>7, ExactIsLockersExact DEF MutexInv

LEMMA RefusedKeeps ==
    ASSUME MutexInv, NEW t \in Threads, NEW m \in Mutexes, NEW rc, Returns(t, m, rc), rc # "ok",
           UNCHANGED <<m_initialized, owner, depth>>,
           waiting' = [waiting EXCEPT ![t] = NotWaiting]
    PROVE  MutexInv'
<1>1. lockers' = [lockers EXCEPT ![t] = Append(lockers[t], Failed(m))]
  BY DEF Failed, Locker, Returns
<1>2. MutexTypes /\ NotWaiting.mutex = NoMutex /\ NotWaiting.kind = "none"
  BY DEF MutexInv, MutexStructure, NotWaiting
<1>3. Failed(m) \in Lockers /\ \A n \in Mutexes : Failed(m) = Holder(n) <=> FALSE
  BY DEF Failed, Holder, Locker, Lockers
<1>4. lockers[t] \in Seq(Lockers) /\ Append(lockers[t], Failed(m)) \in Seq(Lockers)
  BY <1>2, <1>3, HeldAppend DEF MutexTypes
<1>5. MutexTypes'
  BY <1>1, <1>2, <1>4 DEF MutexTypes, NotWaiting, Wait
<1>6. MutexStructure'
  BY <1>2, <1>5 DEF MutexInv, MutexStructure, MutexTypes
<1>7. ASSUME NEW n \in Mutexes, NEW u \in Threads PROVE Exact(n, u)'
  <2>1. Exact(n, u)
    BY ExactIsLockersExact DEF MutexInv
  <2>2. Held(lockers[u], n) \in Nat /\ lockers[t] \in Seq(Lockers)
    BY <1>2, HeldFinite DEF MutexTypes
  <2>3. Held(lockers'[u], n) = Held(lockers[u], n)
    <3>1. CASE u = t
      BY <1>1, <1>2, <1>3, <2>2, <3>1, HeldAppend DEF MutexTypes
    <3>2. CASE u # t
      BY <1>1, <1>2, <2>2, <3>2 DEF MutexTypes
    <3> QED
      BY <3>1, <3>2
  <2>4. waiting'[u] = IF u = t THEN NotWaiting ELSE waiting[u]
    BY <1>2 DEF MutexTypes
  <2> QED
    BY <1>2, <2>1, <2>3, <2>4, MutexAssumption DEF Exact
<1> QED
  BY <1>6, <1>7, ExactIsLockersExact DEF MutexInv

\* Both tables lead to errors of the interface, none of which says "ok".
LEMMA MutexErrors == \A errno : mutex_error(errno) \in MutexError /\ mutex_error(errno) # "ok"
BY DEF mutex_error, Mapped, posix_mutex_errors, zephyr_mutex_errors, MutexError

LEMMA LockKeeps ==
    ASSUME MutexInv, NEW t \in Threads, NEW m \in Mutexes, NEW w \in Wait, Free(t),
           lock(t, m, w), UNCHANGED m_initialized
    PROVE  MutexInv'
<1>1. MutexTypes /\ waiting[t] = NotWaiting
  BY DEF MutexInv, MutexStructure, MutexTypes, Free, NotWaiting
<1>2. UNCHANGED waiting => waiting' = [waiting EXCEPT ![t] = NotWaiting]
  BY <1>1 DEF MutexTypes
<1>3. CASE ~m_initialized[m] /\ Returns(t, m, "NotInitialized") /\ UNCHANGED <<owner, depth, waiting>>
  BY <1>2, <1>3, RefusedKeeps
<1>4. CASE m_initialized[m] /\ owner[m] = NoThread /\ Takes(t, m) /\ UNCHANGED waiting
  BY <1>2, <1>4, TakesKeeps
<1>5. CASE m_initialized[m] /\ owner[m] = t /\ Relock(t, m, w)
  <2>1. CASE Posix
    BY <1>2, <1>5, <2>1, RefusedKeeps, MutexErrors DEF Relock, Refused
  <2>2. CASE ~Posix
    BY <1>2, <1>5, <2>2, TakesKeeps DEF Relock
  <2> QED
    BY <2>1, <2>2
<1>6. CASE /\ m_initialized[m] /\ owner[m] \notin {t, NoThread}
           /\ Returns(t, m, Refused("no_wait")) /\ UNCHANGED <<owner, depth, waiting>>
  BY <1>2, <1>6, RefusedKeeps, MutexErrors DEF Refused
<1>7. CASE /\ m_initialized[m] /\ owner[m] \notin {t, NoThread}
           /\ w # "no_wait"
           /\ waiting' = [waiting EXCEPT ![t] = [mutex |-> m, kind |-> w]]
           /\ UNCHANGED <<lockers, owner, depth>>
  <2>1. MutexStructure'
    BY <1>1, <1>7, MutexAssumption DEF MutexInv, MutexStructure, MutexTypes, Wait
  <2>2. ASSUME NEW n \in Mutexes, NEW u \in Threads PROVE Exact(n, u)'
    <3>1. Exact(n, u)
      BY ExactIsLockersExact DEF MutexInv
    <3>2. waiting'[u].mutex = IF u = t THEN m ELSE waiting[u].mutex
      BY <1>1, <1>7 DEF MutexTypes
    <3>3. owner'[n] = owner[n] /\ depth'[n] = depth[n] /\ lockers'[u] = lockers[u]
      BY <1>7
    <3>4. Held(lockers'[u], n) = IF owner'[n] = u THEN depth'[n] ELSE 0
      BY <3>1, <3>3 DEF Exact
    <3>5. owner'[n] = u => depth'[n] > 0 /\ waiting'[u].mutex # n
      BY <1>7, <3>1, <3>2, <3>3 DEF Exact
    <3> QED
      BY <3>4, <3>5 DEF Exact
  <2> QED
    BY <2>1, <2>2, ExactIsLockersExact DEF MutexInv
<1> QED
  BY <1>3, <1>4, <1>5, <1>6, <1>7 DEF lock

LEMMA WaitEndsKeeps ==
    ASSUME MutexInv, NEW t \in Threads, Acquire(t) \/ TimesOut(t) PROVE MutexInv'
<1>1. waiting[t].kind # "none" /\ waiting[t].mutex \in Mutexes
  BY DEF Acquire, TimesOut, MutexInv, MutexStructure, MutexTypes
<1>2. CASE Acquire(t)
  <2>1. m_initialized[waiting[t].mutex]
    BY <1>1, MutexAssumption DEF MutexInv, MutexStructure
  <2> QED
    BY <1>1, <1>2, <2>1, TakesKeeps DEF Acquire
<1>3. CASE TimesOut(t)
  BY <1>1, <1>3, RefusedKeeps, MutexErrors DEF TimesOut, Refused
<1> QED
  BY <1>2, <1>3

\* The innermost locker ends.  If it says it holds the mutex it does, so that the
\* unlock finds an initialised mutex of its own and nothing is terminated.
LEMMA UnlockKeeps ==
    ASSUME MutexInv, NEW t \in Threads, DestroyLocker(t) PROVE MutexInv' /\ terminated' = terminated
<1> DEFINE s == lockers[t]
           l == s[Len(s)]
<1>1. /\ s \in Seq(Lockers) /\ s # <<>>
      /\ lockers' = [lockers EXCEPT ![t] = SubSeq(s, 1, Len(s) - 1)]
      /\ UNCHANGED <<m_initialized, waiting>>
      /\ MutexTypes
  BY DEF DestroyLocker, MutexInv, MutexStructure, MutexTypes
<1>2. /\ SubSeq(s, 1, Len(s) - 1) \in Seq(Lockers) /\ l \in Lockers
      /\ \A n \in Mutexes :
            /\ Held(SubSeq(s, 1, Len(s) - 1), n) = Held(s, n) - (IF l = Holder(n) THEN 1 ELSE 0)
            /\ l = Holder(n) => Held(s, n) > 0
  <2>1. s \in Seq(Lockers) /\ s # <<>>
    BY <1>1
  <2> HIDE DEF s
  <2>2. \A n \in Mutexes :
          /\ SubSeq(s, 1, Len(s) - 1) \in Seq(Lockers) /\ l \in Lockers
          /\ Held(SubSeq(s, 1, Len(s) - 1), n) = Held(s, n) - (IF l = Holder(n) THEN 1 ELSE 0)
          /\ l = Holder(n) => Held(s, n) > 0
    BY <2>1, HeldFront
  <2> QED
    BY <2>2, LedAssumption
<1>3. \A u \in Threads : lockers'[u] = IF u = t THEN SubSeq(s, 1, Len(s) - 1) ELSE lockers[u]
  BY <1>1 DEF MutexTypes
<1>4. \A n \in Mutexes, u \in Threads :
        /\ Exact(n, u) /\ Held(lockers[u], n) \in Nat
        /\ depth[n] \in Nat
  BY <1>1, HeldFinite, ExactIsLockersExact DEF MutexInv, MutexTypes
<1>5. CASE ~l.locked
  <2>1. UNCHANGED <<owner, depth, terminated>> /\ \A n \in Mutexes : l # Holder(n)
    BY <1>5 DEF DestroyLocker, Innermost, Locker, Holder
  <2>2. MutexStructure'
    BY <1>1, <1>2, <2>1 DEF MutexInv, MutexStructure, MutexTypes
  <2>3. ASSUME NEW n \in Mutexes, NEW u \in Threads PROVE Exact(n, u)'
    <3>1. Held(lockers'[u], n) = Held(lockers[u], n)
      BY <1>2, <1>3, <1>4, <2>1
    <3> QED
      BY <1>1, <1>4, <2>1, <3>1 DEF Exact
  <2> QED
    BY <2>1, <2>2, <2>3, ExactIsLockersExact DEF MutexInv
<1>6. CASE l.locked
  <2> DEFINE m == l.mutex
  <2>1. m \in Mutexes /\ l = Holder(m) /\ \A n \in Mutexes : l = Holder(n) => n = m
    <3>1. l \in Lockers /\ l.locked
      BY <1>2, <1>6
    <3> HIDE DEF l
    <3>2. l.mutex \in Mutexes /\ l.locked = TRUE /\ l = [mutex |-> l.mutex, locked |-> l.locked]
      BY <3>1 DEF Lockers
    <3> QED
      BY <3>1, <3>2 DEF Locker, Holder
  <2>2. Held(s, m) > 0
    BY <1>2, <2>1
  <2>3. owner[m] = t /\ depth[m] > 0
    BY <1>4, <2>1, <2>2 DEF Exact
  <2>4. m_initialized[m]
    BY <2>1, <2>3, PlatformAssumption DEF MutexInv, MutexStructure
  <2>5. /\ depth' = [depth EXCEPT ![m] = @ - 1]
        /\ owner' = [owner EXCEPT ![m] = IF depth[m] = 1 THEN NoThread ELSE t]
        /\ UNCHANGED terminated
    BY <1>6, <2>3, <2>4 DEF DestroyLocker, Innermost, unlock, do_unlock
  <2> HIDE DEF m, l
  <2>6. \A n \in Mutexes :
          /\ depth'[n] = IF n = m THEN depth[m] - 1 ELSE depth[n]
          /\ owner'[n] = IF n = m THEN (IF depth[m] = 1 THEN NoThread ELSE t) ELSE owner[n]
    BY <1>1, <2>1, <2>5 DEF MutexTypes
  <2>7. MutexTypes'
    BY <1>1, <1>2, <1>4, <2>1, <2>3, <2>5 DEF MutexTypes
  <2>8. MutexStructure'
    BY <1>1, <1>4, <2>1, <2>3, <2>4, <2>6, <2>7, PlatformAssumption DEF MutexInv, MutexStructure
  <2>9. ASSUME NEW n \in Mutexes, NEW u \in Threads PROVE Exact(n, u)'
    <3>1. Held(lockers'[u], n) = Held(lockers[u], n) - (IF u = t /\ n = m THEN 1 ELSE 0)
      BY <1>2, <1>3, <1>4, <2>1
    <3>2. waiting' = waiting /\ Exact(n, u) /\ depth[n] \in Nat
      BY <1>1, <1>4
    <3>3. CASE n = m
      BY <2>3, <2>6, <3>1, <3>2, <3>3, <1>4, PlatformAssumption DEF Exact
    <3>4. CASE n # m
      BY <2>6, <3>1, <3>2, <3>4, <1>4 DEF Exact
    <3> QED
      BY <3>3, <3>4
  <2> QED
    BY <2>5, <2>8, <2>9, ExactIsLockersExact DEF MutexInv
<1> QED
  BY <1>5, <1>6

LEMMA MutexInvStep == MutexInv /\ [Next]_vars => MutexInv'
<1> SUFFICES ASSUME MutexInv, [Next]_vars PROVE MutexInv'
  OBVIOUS
<1>1. CASE UNCHANGED mutexVars
  <2>1. MutexStructure'
    BY <1>1 DEF mutexVars, MutexInv, MutexStructure, MutexTypes
  <2>2. \A m \in Mutexes, t \in Threads : Exact(m, t)'
    BY <1>1, ExactIsLockersExact DEF mutexVars, MutexInv, Exact
  <2> QED
    BY <2>1, <2>2, ExactIsLockersExact DEF MutexInv
<1>2. ASSUME NEW t \in Threads, UseMutex(t) PROVE MutexInv'
  <2>1. ASSUME NEW m \in Mutexes, InitMutex(t, m) PROVE MutexInv'
    BY <2>1, MutexInitKeeps DEF InitMutex
  <2>2. ASSUME NEW m \in Mutexes, NEW w \in Wait, ConstructLocker(t, m, w) PROVE MutexInv'
    BY <2>2, LockKeeps DEF ConstructLocker
  <2>3. CASE DestroyLocker(t)
    BY <2>3, UnlockKeeps
  <2> QED
    BY <1>2, <2>1, <2>2, <2>3 DEF UseMutex
<1>3. ASSUME NEW t \in Threads, UseLed(t) PROVE MutexInv'
  <2>1. CASE LedBlinkerInit(t)
    BY <2>1, MutexInitKeeps, LedAssumption DEF LedBlinkerInit
  <2>2. CASE Blink(t)
    BY <2>2, LockKeeps, LedAssumption DEF Blink, Wait
  <2> QED
    BY <1>3, <2>1, <2>2 DEF UseLed
<1>4. ASSUME NEW t \in Threads, MutexGoesOn(t) PROVE MutexInv'
  BY <1>4, WaitEndsKeeps DEF MutexGoesOn
<1>5. ASSUME NEW t \in Threads, BlinkGoesOn(t) PROVE MutexInv'
  <2>1. CASE Toggle(t) \/ WritePin(t)
    BY <1>1, <2>1 DEF Toggle, WritePin
  <2>2. CASE EndBlink(t)
    BY <2>2, UnlockKeeps DEF EndBlink
  <2> QED
    BY <1>5, <2>1, <2>2 DEF BlinkGoesOn
<1> QED
  BY <1>1, <1>2, <1>3, <1>4, <1>5
     DEF Next, vars, UseThread, ThreadCallGoesOn, UseSemaphore, UseSerial, TakeEnds

\* A locker holds its mutex exactly when it says so, and a thread never waits for
\* itself, for any number of threads, mutexes and nested lockers.
THEOREM LockersStayExact == Spec => []LockersExact
<1>1. MutexInv => LockersExact
  BY DEF MutexInv
<1> QED
  BY <1>1, MutexInvInit, MutexInvStep, PTL DEF Spec

-----------------------------------------------------------------------------
(* The LED.                                                                *)

Level == IF status THEN "Low" ELSE "High"
InWrite(t) == blinking[t] \in {"Low", "High"}
HasLocker(t) == lockers[t] # <<>> /\ Innermost(t).mutex = LedMutex

\* A thread inside blink() waits for the LED's mutex or has a locker of it, and
\* between computing a level and the end of the locker it holds the mutex; the
\* level not yet written is that of the status.
LedInv ==
    /\ blinking \in [Threads -> {"no", "entered", "Low", "High", "written"}]
    /\ status \in BOOLEAN /\ stale \in BOOLEAN /\ blinks \in Nat
    /\ \A t \in Threads : blinking[t] # "no" =>
          \/ blinking[t] = "entered" /\ waiting[t].mutex = LedMutex
          \/ waiting[t].kind = "none" /\ HasLocker(t)
    /\ \A t \in Threads : blinking[t] \in {"Low", "High", "written"} =>
          lockers[t] # <<>> /\ Innermost(t).locked
    /\ status <=> blinks % 2 = 1
    /\ \A t \in Threads : InWrite(t) => blinking[t] = Level
    /\ (\A t \in Threads : ~InWrite(t)) /\ blinks > 0 /\ ~stale => pin = Level

LEMMA LedKeeps == LedInv => BlinksKept
<1> SUFFICES ASSUME LedInv, \A t \in Threads : blinking[t] \in {"no", "entered", "written"}
             PROVE  /\ status = (blinks % 2 = 1)
                    /\ blinks > 0 /\ ~stale => pin = IF status THEN "Low" ELSE "High"
  BY DEF BlinksKept
<1>1. \A t \in Threads : ~InWrite(t)
  BY DEF InWrite
<1>2. status \in BOOLEAN /\ (status <=> blinks % 2 = 1)
  BY DEF LedInv
<1>3. status = (blinks % 2 = 1)
  BY <1>2, Zenon
<1> QED
  BY <1>1, <1>3 DEF LedInv, Level

LEMMA LedInvInit == Init => LedInv
<1> SUFFICES ASSUME Init PROVE LedInv
  OBVIOUS
<1>1. /\ status = FALSE /\ stale = FALSE /\ blinks = 0
      /\ blinking = [t \in Threads |-> "no"]
  BY DEF Init, LedInit
<1>2. ~(blinks % 2 = 1) /\ ~(blinks > 0) /\ blinks \in Nat
  BY <1>1
<1>3. status <=> blinks % 2 = 1
  BY <1>1, <1>2, Zenon
<1> QED
  BY <1>1, <1>2, <1>3 DEF LedInv, InWrite

\* Only the owner of a mutex has a locker that holds it.
LEMMA HolderOwns ==
    ASSUME MutexInv, NEW t \in Threads, HasLocker(t), Innermost(t).locked
    PROVE  owner[LedMutex] = t
<1> DEFINE s == lockers[t]
<1>1. s \in Seq(Lockers) /\ s # <<>> /\ s[Len(s)].mutex = LedMutex /\ s[Len(s)].locked
  BY DEF MutexInv, MutexStructure, MutexTypes, HasLocker, Innermost
<1>2. s[Len(s)] = Holder(LedMutex)
  <2> HIDE DEF s
  <2>1. s[Len(s)] \in Lockers
    BY <1>1
  <2> QED
    BY <1>1, <2>1 DEF Lockers, Holder, Locker
<1>3. Held(s, LedMutex) > 0
  <2> HIDE DEF s
  <2> QED
    BY <1>1, <1>2, HeldFront, LedAssumption
<1>4. Exact(LedMutex, t)
  BY ExactIsLockersExact, LedAssumption DEF MutexInv
<1> QED
  BY <1>3, <1>4 DEF Exact

\* What lock() and the end of a wait do to the caller, and to nobody else.
LEMMA ReturnsEffect ==
    ASSUME MutexInv, NEW t \in Threads, NEW m \in Mutexes, NEW rc, Returns(t, m, rc)
    PROVE  /\ \A u \in Threads : u # t => lockers'[u] = lockers[u]
           /\ lockers'[t] # <<>> /\ Innermost(t)'.mutex = m
<1> DEFINE l == Locker(m, rc = "ok")
           s == lockers[t]
<1>1. /\ s \in Seq(Lockers) /\ l \in Lockers /\ l.mutex = m
      /\ lockers \in [Threads -> Seq(Lockers)]
      /\ lockers' = [lockers EXCEPT ![t] = Append(s, l)]
  BY DEF Returns, MutexInv, MutexStructure, MutexTypes, Locker, Lockers
<1> HIDE DEF l, s
<1>2. /\ lockers'[t] = Append(s, l)
      /\ \A u \in Threads : u # t => lockers'[u] = lockers[u]
  BY <1>1
<1>3. Append(s, l) # <<>> /\ Append(s, l)[Len(Append(s, l))] = l
  <2>1. s \in Seq(Lockers) /\ l \in Lockers
    BY <1>1
  <2>2. Len(Append(s, l)) = Len(s) + 1 /\ Len(s) \in Nat
    BY <2>1
  <2> QED
    BY <2>1, <2>2
<1> QED
  BY <1>1, <1>2, <1>3 DEF Innermost

LEMMA LockEffect ==
    ASSUME MutexInv, NEW t \in Threads, NEW m \in Mutexes, NEW w \in Wait, Free(t), lock(t, m, w)
    PROVE  /\ \A u \in Threads : u # t => lockers'[u] = lockers[u] /\ waiting'[u] = waiting[u]
           /\ \/ waiting'[t].mutex = m
              \/ waiting'[t].kind = "none" /\ lockers'[t] # <<>> /\ Innermost(t)'.mutex = m
<1>1. waiting \in [Threads -> [mutex : Mutexes \cup {NoMutex}, kind : Wait \cup {"none"}]]
  BY DEF MutexInv, MutexStructure, MutexTypes
<1>2. CASE (\E rc : Returns(t, m, rc)) /\ UNCHANGED waiting
  BY <1>2, ReturnsEffect DEF Free
<1>3. CASE UNCHANGED lockers /\ waiting' = [waiting EXCEPT ![t] = [mutex |-> m, kind |-> w]]
  BY <1>1, <1>3
<1> QED
  BY <1>2, <1>3 DEF lock, Takes, Relock

LEMMA WaitEndsEffect ==
    ASSUME MutexInv, NEW t \in Threads, Acquire(t) \/ TimesOut(t)
    PROVE  /\ \A u \in Threads : u # t => lockers'[u] = lockers[u] /\ waiting'[u] = waiting[u]
           /\ waiting[t].kind # "none" /\ waiting'[t].kind = "none"
           /\ lockers'[t] # <<>> /\ Innermost(t)'.mutex = waiting[t].mutex
<1>1. /\ waiting \in [Threads -> [mutex : Mutexes \cup {NoMutex}, kind : Wait \cup {"none"}]]
      /\ waiting[t].kind # "none" /\ waiting[t].mutex \in Mutexes
      /\ waiting' = [waiting EXCEPT ![t] = NotWaiting]
  BY DEF Acquire, TimesOut, MutexInv, MutexStructure, MutexTypes
<1>2. \E rc : Returns(t, waiting[t].mutex, rc)
  BY DEF Acquire, TimesOut, Takes
<1> QED
  BY <1>1, <1>2, ReturnsEffect DEF NotWaiting

LEMMA DestroyEffect ==
    ASSUME MutexInv, NEW t \in Threads, DestroyLocker(t)
    PROVE  /\ waiting' = waiting
           /\ \A u \in Threads : u # t => lockers'[u] = lockers[u]
BY DEF DestroyLocker, MutexInv, MutexStructure, MutexTypes

\* A thread outside blink() disturbs nobody inside it.
LEMMA OutsideKeeps ==
    ASSUME LedInv, NEW t \in Threads, blinking[t] = "no", UNCHANGED ledVars,
           \A u \in Threads : u # t => lockers'[u] = lockers[u] /\ waiting'[u] = waiting[u]
    PROVE  LedInv'
<1>1. UNCHANGED <<blinking, status, stale, blinks, pin>>
  BY DEF ledVars
<1>2. \A u \in Threads : blinking[u] # "no" =>
        lockers'[u] = lockers[u] /\ waiting'[u] = waiting[u]
  OBVIOUS
<1> QED
  BY <1>1, <1>2 DEF LedInv, InWrite, Level, HasLocker, Innermost

LEMMA BlinkKeeps == ASSUME MutexInv, LedInv, NEW t \in Threads, Blink(t) PROVE LedInv'
<1>1. /\ UNCHANGED <<status, stale, blinks, pin>>
      /\ blinking' = [blinking EXCEPT ![t] = "entered"]
      /\ blinking[t] = "no"
  BY DEF Blink, NotBlinking
<1>2. /\ \A u \in Threads : u # t => lockers'[u] = lockers[u] /\ waiting'[u] = waiting[u]
      /\ waiting'[t].mutex = LedMutex \/ (waiting'[t].kind = "none" /\ HasLocker(t)')
  BY LockEffect, LedAssumption DEF Blink, Wait, HasLocker
<1>3. \A u \in Threads : blinking'[u] = IF u = t THEN "entered" ELSE blinking[u]
  BY <1>1 DEF LedInv
<1>4. \A u \in Threads : u # t => HasLocker(u)' = HasLocker(u) /\ Innermost(u)' = Innermost(u)
  BY <1>2 DEF HasLocker, Innermost
<1> QED
  BY <1>1, <1>2, <1>3, <1>4 DEF LedInv, InWrite, Level

LEMMA WaitEndsKeepsLed ==
    ASSUME MutexInv, LedInv, NEW t \in Threads, Acquire(t) \/ TimesOut(t), UNCHANGED ledVars
    PROVE  LedInv'
<1>1. CASE blinking[t] = "no"
  BY <1>1, OutsideKeeps, WaitEndsEffect
<1>2. CASE blinking[t] # "no"
  <2>1. blinking[t] = "entered" /\ waiting[t].mutex = LedMutex
    BY <1>2, WaitEndsEffect DEF LedInv
  <2>2. /\ \A u \in Threads : u # t => lockers'[u] = lockers[u] /\ waiting'[u] = waiting[u]
        /\ waiting'[t].kind = "none" /\ HasLocker(t)'
    BY <2>1, WaitEndsEffect DEF HasLocker
  <2>3. UNCHANGED <<blinking, status, stale, blinks, pin>>
    BY DEF ledVars
  <2>4. \A u \in Threads : u # t => HasLocker(u)' = HasLocker(u) /\ Innermost(u)' = Innermost(u)
    BY <2>2 DEF HasLocker, Innermost
  <2> QED
    BY <2>1, <2>2, <2>3, <2>4 DEF LedInv, InWrite, Level
<1> QED
  BY <1>1, <1>2

\* Nobody else computes or writes a level meanwhile.
LEMMA ToggleKeeps == ASSUME MutexInv, LedInv, NEW t \in Threads, Toggle(t) PROVE LedInv'
<1>1. /\ status' = ~status /\ blinks' = blinks + 1 /\ UNCHANGED <<pin, stale, lockers, waiting>>
      /\ blinking' = [blinking EXCEPT ![t] = IF status' THEN "Low" ELSE "High"]
      /\ blinking[t] = "entered" /\ Innermost(t).locked /\ waiting[t].kind = "none"
  BY DEF Toggle, Free, mutexVars
<1>2. HasLocker(t)
  BY <1>1, MutexAssumption, LedAssumption DEF LedInv, MutexInv, MutexStructure
<1>3. \A u \in Threads : blinking[u] \in {"Low", "High", "written"} => FALSE
  BY <1>1, <1>2, HolderOwns DEF LedInv
<1>4. \A u \in Threads : blinking'[u] = IF u = t THEN Level' ELSE blinking[u]
  BY <1>1 DEF LedInv, Level
<1>5. (blinks + 1) % 2 = 1 <=> ~(blinks % 2 = 1)
  BY DEF LedInv
<1>6. status' \in BOOLEAN /\ blinks' \in Nat /\ (status' <=> blinks' % 2 = 1)
  <2>1. blinks' \in Nat /\ (blinks' % 2 = 1 <=> ~(blinks % 2 = 1))
    BY <1>1, <1>5 DEF LedInv
  <2>2. status \in BOOLEAN /\ (status <=> blinks % 2 = 1)
    BY DEF LedInv
  <2> QED
    BY <1>1, <2>1, <2>2, Zenon
<1>7. Level' \in {"Low", "High"}
  BY DEF Level
<1>8. \A u \in Threads : HasLocker(u)' = HasLocker(u) /\ Innermost(u)' = Innermost(u)
  BY <1>1 DEF HasLocker, Innermost
<1> QED
  BY <1>1, <1>2, <1>3, <1>4, <1>6, <1>7, <1>8 DEF LedInv, InWrite, HasLocker

LEMMA WritePinKeeps == ASSUME MutexInv, LedInv, NEW t \in Threads, WritePin(t) PROVE LedInv'
<1>1. /\ UNCHANGED <<status, blinks, lockers, waiting>>
      /\ blinking' = [blinking EXCEPT ![t] = "written"]
      /\ blinking[t] \in {"Low", "High"}
      /\ (pin' = blinking[t] /\ stale' = FALSE) \/ stale' = TRUE
  BY DEF WritePin, write, mutexVars
<1>2. blinking[t] = Level /\ Level' = Level
  BY <1>1 DEF LedInv, InWrite, Level
<1>3. \A u \in Threads : blinking'[u] = IF u = t THEN "written" ELSE blinking[u]
  BY <1>1 DEF LedInv
<1>4. \A u \in Threads : HasLocker(u)' = HasLocker(u) /\ Innermost(u)' = Innermost(u)
  BY <1>1 DEF HasLocker, Innermost
<1> QED
  BY <1>1, <1>2, <1>3, <1>4 DEF LedInv, InWrite

LEMMA EndBlinkKeeps == ASSUME MutexInv, LedInv, NEW t \in Threads, EndBlink(t) PROVE LedInv'
<1>1. /\ UNCHANGED <<status, blinks, pin, stale>>
      /\ blinking' = [blinking EXCEPT ![t] = "no"]
      /\ blinking[t] \in {"entered", "written"}
      /\ DestroyLocker(t)
  BY DEF EndBlink
<1>2. \A u \in Threads : blinking'[u] = IF u = t THEN "no" ELSE blinking[u]
  BY <1>1 DEF LedInv
<1>3. \A u \in Threads : u # t =>
        /\ waiting'[u] = waiting[u] /\ lockers'[u] = lockers[u]
        /\ HasLocker(u)' = HasLocker(u) /\ Innermost(u)' = Innermost(u)
  BY <1>1, DestroyEffect DEF HasLocker, Innermost
<1>4. \A u \in Threads : InWrite(u)' = InWrite(u)
  BY <1>1, <1>2 DEF InWrite
<1>5. Level' = Level
  BY <1>1 DEF Level
<1> QED
  BY <1>1, <1>2, <1>3, <1>4, <1>5 DEF LedInv, InWrite

LEMMA LedInvStep == MutexInv /\ LedInv /\ [Next]_vars => LedInv'
<1> SUFFICES ASSUME MutexInv, LedInv, [Next]_vars PROVE LedInv'
  OBVIOUS
<1>1. CASE UNCHANGED <<lockers, waiting, blinking, status, stale, blinks, pin>>
  BY <1>1 DEF LedInv, InWrite, Level, HasLocker, Innermost
<1>2. ASSUME NEW t \in Threads, UseMutex(t) PROVE LedInv'
  <2>1. blinking[t] = "no" /\ UNCHANGED ledVars
    BY <1>2 DEF UseMutex, BetweenCalls, NotBlinking
  <2>2. ASSUME NEW m \in Mutexes, InitMutex(t, m) PROVE LedInv'
    BY <1>1, <2>1, <2>2 DEF InitMutex, ledVars
  <2>3. ASSUME NEW m \in Mutexes, NEW w \in Wait, ConstructLocker(t, m, w) PROVE LedInv'
    BY <2>1, <2>3, LockEffect, OutsideKeeps DEF ConstructLocker
  <2>4. CASE DestroyLocker(t)
    BY <2>1, <2>4, DestroyEffect, OutsideKeeps
  <2> QED
    BY <1>2, <2>2, <2>3, <2>4 DEF UseMutex
<1>3. ASSUME NEW t \in Threads, UseLed(t) PROVE LedInv'
  BY <1>1, <1>3, BlinkKeeps DEF UseLed, LedBlinkerInit
<1>4. ASSUME NEW t \in Threads, MutexGoesOn(t) PROVE LedInv'
  BY <1>4, WaitEndsKeepsLed DEF MutexGoesOn
<1>5. ASSUME NEW t \in Threads, BlinkGoesOn(t) PROVE LedInv'
  BY <1>5, ToggleKeeps, WritePinKeeps, EndBlinkKeeps DEF BlinkGoesOn
<1> QED
  BY <1>1, <1>2, <1>3, <1>4, <1>5
     DEF Next, vars, mutexVars, ledVars, UseThread, ThreadCallGoesOn, UseSemaphore, UseSerial, TakeEnds

\* However blink() calls of any number of threads overlap, fail or wait, none is
\* lost and the pin shows the last that was written.
THEOREM BlinksStayKept == Spec => []BlinksKept
BY MutexInvInit, MutexInvStep, LedInvInit, LedInvStep, LedKeeps, PTL DEF Spec

-----------------------------------------------------------------------------
(* Serial wrappers.                                                        *)

SerialTypes ==
    /\ lives \subseteq Wrappers
    /\ driver \in [Wrappers -> Ports \cup {NoPort}]
    /\ is_initialized \in [Wrappers -> BOOLEAN]
    /\ port_open \in [Ports -> BOOLEAN]

\* No two wrappers have the same port, and the initialised ones have the ports
\* that are open.
SerialInv ==
    /\ SerialTypes
    /\ misuse = FALSE
    /\ \A v, w \in lives : driver[v] = driver[w] /\ driver[v] # NoPort => v = w
    /\ \A p \in Ports : port_open[p] => \E w \in lives : driver[w] = p /\ is_initialized[w]
    /\ \A w \in lives : is_initialized[w] => driver[w] \in Ports /\ port_open[driver[w]]

LEMMA SerialOwns == SerialInv => PortsOwned
<1> SUFFICES ASSUME SerialInv PROVE PortsOwned
  OBVIOUS
<1>1. ASSUME NEW p \in Ports, port_open[p]
      PROVE  \E w \in lives : {v \in lives : driver[v] = p} = {w} /\ is_initialized[w]
  <2>1. PICK w \in lives : driver[w] = p /\ is_initialized[w]
    BY <1>1 DEF SerialInv
  <2>2. {v \in lives : driver[v] = p} = {w}
    BY <2>1, SerialAssumption DEF SerialInv
  <2> QED
    BY <2>1, <2>2
<1> QED
  BY <1>1 DEF SerialInv, PortsOwned, IsOpen

LEMMA SerialInvInit == Init => SerialInv
BY DEF Init, SerialInit, SerialInv, SerialTypes

LEMMA SerialInvStep == SerialInv /\ [Next]_vars => SerialInv'
<1> SUFFICES ASSUME SerialInv, [Next]_vars PROVE SerialInv'
  OBVIOUS
<1> USE SerialAssumption
<1>1. CASE UNCHANGED serialVars
  BY <1>1 DEF serialVars, SerialInv, SerialTypes
<1>2. ASSUME NEW w \in Wrappers, NEW p \in Ports, ConstructSerial(w, p) PROVE SerialInv'
  BY <1>2 DEF ConstructSerial, Owned, SerialInv, SerialTypes
<1>3. ASSUME NEW w \in Wrappers, initialize(w) PROVE SerialInv'
  <2>1. CASE UNCHANGED <<is_initialized, port_open>>
    BY <1>3, <2>1 DEF initialize, SerialInv, SerialTypes
  <2>2. CASE /\ ~is_initialized[w] /\ driver[w] # NoPort
             /\ is_initialized' = [is_initialized EXCEPT ![w] = TRUE]
             /\ port_open' = [port_open EXCEPT ![driver[w]] = TRUE]
    <3>1. /\ w \in lives /\ lives' = lives /\ driver' = driver /\ misuse' = FALSE
          /\ driver[w] \in Ports
      BY <1>3, <2>2 DEF initialize, SerialInv, SerialTypes
    <3>2. /\ \A p \in Ports : port_open'[p] = IF p = driver[w] THEN TRUE ELSE port_open[p]
          /\ \A v \in lives : is_initialized'[v] = IF v = w THEN TRUE ELSE is_initialized[v]
      BY <2>2 DEF SerialInv, SerialTypes
    <3>3. SerialTypes'
      BY <2>2, <3>1 DEF SerialInv, SerialTypes
    <3>4. \A p \in Ports : port_open'[p] => \E v \in lives : driver[v] = p /\ is_initialized'[v]
      BY <3>1, <3>2 DEF SerialInv
    <3>5. \A v \in lives : is_initialized'[v] => driver[v] \in Ports /\ port_open'[driver[v]]
      BY <3>1, <3>2 DEF SerialInv
    <3> QED
      BY <3>1, <3>3, <3>4, <3>5 DEF SerialInv
  <2> QED
    BY <1>3, <2>1, <2>2 DEF initialize
<1>4. ASSUME NEW w \in Wrappers, NEW other \in Wrappers, MoveConstruct(w, other)
      PROVE  SerialInv'
  BY <1>4 DEF MoveConstruct, SerialInv, SerialTypes
<1>5. ASSUME NEW w \in Wrappers, w \in lives, cleanup(w)
      PROVE  /\ port_open' \in [Ports -> BOOLEAN] /\ misuse' = FALSE
             /\ \A p \in Ports :
                   port_open'[p] = IF is_initialized[w] /\ p = driver[w] THEN FALSE ELSE port_open[p]
  <2>1. CASE is_initialized[w]
    <3>1. /\ port_open' = [p \in Ports |-> IF p = driver[w] THEN FALSE ELSE port_open[p]]
          /\ misuse' = (misuse \/ ~IsOpen(driver[w]))
      BY <1>5, <2>1 DEF cleanup
    <3>2. IsOpen(driver[w]) /\ misuse = FALSE
      BY <1>5, <2>1 DEF IsOpen, SerialInv
    <3>3. \A p \in Ports : port_open[p] \in BOOLEAN
      BY DEF SerialInv, SerialTypes
    <3>4. port_open' \in [Ports -> BOOLEAN]
      BY <3>1, <3>3
    <3> QED
      BY <2>1, <3>1, <3>2, <3>4
  <2>2. CASE ~is_initialized[w]
    BY <1>5, <2>2 DEF cleanup, SerialInv, SerialTypes
  <2> QED
    BY <2>1, <2>2
<1>6. ASSUME NEW w \in Wrappers, NEW other \in Wrappers, MoveAssign(w, other)
      PROVE  SerialInv'
  <2>1. /\ w \in lives /\ other \in lives /\ w # other /\ cleanup(w) /\ lives' = lives
        /\ driver' = [driver EXCEPT ![w] = driver[other], ![other] = NoPort]
        /\ is_initialized' = [is_initialized EXCEPT ![w] = is_initialized[other], ![other] = FALSE]
    BY <1>6 DEF MoveAssign
  <2>2. /\ port_open' \in [Ports -> BOOLEAN] /\ misuse' = FALSE
        /\ \A p \in Ports :
              port_open'[p] = IF is_initialized[w] /\ p = driver[w] THEN FALSE ELSE port_open[p]
    BY <1>5, <2>1
  <2>3. /\ SerialTypes'
        /\ \A v \in lives : driver'[v] = IF v = w THEN driver[other]
                                         ELSE IF v = other THEN NoPort ELSE driver[v]
        /\ \A v \in lives : is_initialized'[v] = IF v = w THEN is_initialized[other]
                                         ELSE IF v = other THEN FALSE ELSE is_initialized[v]
    BY <2>1, <2>2 DEF SerialInv, SerialTypes
  <2>4. \A u, v \in lives : driver'[u] = driver'[v] /\ driver'[u] # NoPort => u = v
    BY <2>1, <2>3 DEF SerialInv
  <2>5. ASSUME NEW p \in Ports, port_open'[p]
        PROVE  \E v \in lives : driver'[v] = p /\ is_initialized'[v]
    <3>1. PICK v \in lives : driver[v] = p /\ is_initialized[v]
      BY <2>2, <2>5 DEF SerialInv
    <3>2. v # w
      BY <2>2, <2>5, <3>1
    <3> QED
      BY <2>1, <2>3, <3>1, <3>2
  <2>6. ASSUME NEW v \in lives, is_initialized'[v]
        PROVE  driver'[v] \in Ports /\ port_open'[driver'[v]]
    <3> DEFINE u == IF v = w THEN other ELSE v
    <3>1. u \in lives /\ u # w /\ is_initialized[u] /\ driver'[v] = driver[u]
      BY <2>1, <2>3, <2>6
    <3>2. driver[u] \in Ports /\ port_open[driver[u]]
      BY <3>1 DEF SerialInv
    <3>3. driver[u] # driver[w]
      BY <2>1, <3>1, <3>2 DEF SerialInv
    <3> QED
      BY <2>2, <3>1, <3>2, <3>3
  <2> QED
    BY <2>1, <2>2, <2>3, <2>4, <2>5, <2>6 DEF SerialInv
<1>7. ASSUME NEW w \in Wrappers, DestroySerial(w) PROVE SerialInv'
  <2>1. /\ w \in lives /\ cleanup(w) /\ lives' = lives \ {w}
        /\ driver' = [driver EXCEPT ![w] = NoPort]
        /\ is_initialized' = [is_initialized EXCEPT ![w] = FALSE]
    BY <1>7 DEF DestroySerial
  <2>2. /\ port_open' \in [Ports -> BOOLEAN] /\ misuse' = FALSE
        /\ \A p \in Ports :
              port_open'[p] = IF is_initialized[w] /\ p = driver[w] THEN FALSE ELSE port_open[p]
    BY <1>5, <2>1
  <2>3. /\ SerialTypes'
        /\ \A v \in lives' : v \in lives /\ v # w /\ driver'[v] = driver[v]
                              /\ is_initialized'[v] = is_initialized[v]
    BY <2>1, <2>2 DEF SerialInv, SerialTypes
  <2>4. ASSUME NEW p \in Ports, port_open'[p]
        PROVE  \E v \in lives' : driver'[v] = p /\ is_initialized'[v]
    <3>1. PICK v \in lives : driver[v] = p /\ is_initialized[v]
      BY <2>2, <2>4 DEF SerialInv
    <3>2. v # w
      BY <2>2, <2>4, <3>1
    <3> QED
      BY <2>1, <2>3, <3>1, <3>2
  <2>5. ASSUME NEW v \in lives', is_initialized'[v]
        PROVE  driver'[v] \in Ports /\ port_open'[driver'[v]]
    <3>1. v \in lives /\ v # w /\ is_initialized[v] /\ driver'[v] = driver[v]
      BY <2>3, <2>5
    <3>2. driver[v] \in Ports /\ port_open[driver[v]]
      BY <3>1 DEF SerialInv
    <3>3. driver[v] # driver[w]
      BY <2>1, <3>1, <3>2 DEF SerialInv
    <3> QED
      BY <2>2, <3>1, <3>2, <3>3
  <2>6. \A u, v \in lives' : driver'[u] = driver'[v] /\ driver'[u] # NoPort => u = v
    BY <2>3 DEF SerialInv
  <2> QED
    BY <2>2, <2>3, <2>4, <2>5, <2>6 DEF SerialInv
<1>8. ASSUME NEW w \in Wrappers, transfer(w) PROVE SerialInv'
  BY <1>8 DEF transfer, IsOpen, SerialInv, SerialTypes
<1>9. ASSUME NEW w \in Wrappers, UseSerial(w) PROVE SerialInv'
  BY <1>2, <1>3, <1>4, <1>6, <1>7, <1>8, <1>9 DEF UseSerial
<1> QED
  BY <1>1, <1>9 DEF Next, vars, UseThread, ThreadCallGoesOn, UseMutex, UseLed, UseSemaphore,
                    MutexGoesOn, BlinkGoesOn, TakeEnds

\* However serial wrappers are moved, assigned over and destroyed, an open port
\* belongs to exactly one of them, and no port is closed twice.
THEOREM PortsHaveOneOwner == Spec => []PortsOwned
BY SerialInvInit, SerialInvStep, SerialOwns, PTL DEF Spec

-----------------------------------------------------------------------------
(* The semaphore.                                                          *)

\* Nothing is given or taken before init() or after the destructor.
SemaphoreInv ==
    /\ platform \in {"posix", "zephyr"}
    /\ init_count \in Nat /\ count_limit \in Nat
    /\ count \in Nat /\ given \in Nat /\ taken \in Nat
    /\ s_initialized \in BOOLEAN /\ s_alive \in BOOLEAN
    /\ s_initialized => s_alive
    /\ ~s_initialized => count = 0
    /\ s_alive /\ ~s_initialized => given = 0 /\ taken = 0
    /\ PermitsAccounted

LEMMA SemaphoreInvInit == Init => SemaphoreInv
<1> SUFFICES ASSUME Init PROVE SemaphoreInv
  OBVIOUS
<1>1. PermitsAccounted /\ s_initialized \in BOOLEAN /\ s_alive \in BOOLEAN
  BY DEF Init, SemaphoreInit, PermitsAccounted
<1>2. init_count \in Nat /\ count_limit \in Nat
  BY SemaphoreAssumption DEF Init, SemaphoreInit
<1> QED
  BY <1>1, <1>2 DEF Init, SemaphoreInit, PlatformInit, SemaphoreInv

LEMMA SemaphoreKept ==
    ASSUME SemaphoreInv, UNCHANGED <<platform, semaphoreVars>>
    PROVE  SemaphoreInv'
BY DEF semaphoreVars, SemaphoreInv, PermitsAccounted, Posix, Zephyr

\* A permit that is handed out is taken.
LEMMA PermitTaken ==
    ASSUME SemaphoreInv, s_initialized, NEW t \in Threads, Permit(t),
           UNCHANGED <<platform, s_alive, init_count, count_limit, s_initialized, given>>
    PROVE  SemaphoreInv'
<1>1. count > 0 /\ count' = count - 1 /\ taken' = taken + 1
  BY DEF Permit
<1>2. count' \in Nat /\ taken' \in Nat /\ count' + taken' = count + taken /\ count' <= count
  BY <1>1 DEF SemaphoreInv
<1>3. PermitsAccounted'
  <2>0. count \in Nat /\ count_limit \in Nat /\ SemValueMax \in Nat
    BY SemaphoreAssumption DEF SemaphoreInv
  <2>1. ASSUME Posix PROVE count' + taken' = init_count + given /\ count' <= SemValueMax
    <3>1. count + taken = init_count + given /\ count <= SemValueMax
      BY <2>1 DEF SemaphoreInv, PermitsAccounted
    <3> QED
      BY <1>2, <2>0, <3>1
  <2>2. ASSUME Zephyr
        PROVE  /\ count' <= count_limit /\ count' + taken' <= init_count + given
               /\ init_count + given <= count_limit => count' + taken' = init_count + given
    <3>1. /\ count <= count_limit /\ count + taken <= init_count + given
          /\ init_count + given <= count_limit => count + taken = init_count + given
      BY <2>2 DEF SemaphoreInv, PermitsAccounted
    <3> QED
      BY <1>2, <2>0, <3>1
  <2> QED
    BY <2>1, <2>2 DEF PermitsAccounted, Posix, Zephyr
<1> QED
  BY <1>2, <1>3 DEF SemaphoreInv

LEMMA SemaphoreInvStep == SemaphoreInv /\ [Next]_vars => SemaphoreInv'
<1> SUFFICES ASSUME SemaphoreInv, [Next]_vars PROVE SemaphoreInv'
  OBVIOUS
<1>1. CASE UNCHANGED <<platform, semaphoreVars>>
  BY <1>1, SemaphoreKept
<1>2. ASSUME NEW t \in Threads, InitSemaphore(t), UNCHANGED platform PROVE SemaphoreInv'
  <2>1. UNCHANGED <<s_alive, init_count, count_limit, taking, given, taken>> /\ s_alive
    BY <1>2 DEF InitSemaphore, SemaphoreUsable
  <2>2. CASE UNCHANGED <<s_initialized, count>>
    BY <1>2, <2>1, <2>2, SemaphoreKept DEF semaphoreVars
  <2>3. CASE /\ ~s_initialized /\ s_initialized' = TRUE /\ count' = init_count
             /\ (IF Posix THEN posix_do_init ELSE zephyr_do_init) = "ok"
    <3>1. given = 0 /\ taken = 0 /\ init_count \in Nat /\ count_limit \in Nat
      BY <2>1, <2>3 DEF SemaphoreInv
    <3>2. /\ Posix => init_count <= SemValueMax
          /\ ~Posix => init_count <= count_limit
      BY <2>3, <3>1, SemaphoreAssumption DEF posix_do_init, zephyr_do_init
    <3>3. Zephyr => ~Posix
      BY DEF Posix, Zephyr
    <3>4. PermitsAccounted'
      BY <1>2, <2>1, <2>3, <3>1, <3>2, <3>3 DEF PermitsAccounted, Posix, Zephyr
    <3> QED
      BY <1>2, <2>1, <2>3, <3>4 DEF SemaphoreInv
  <2> QED
    BY <1>2, <2>2, <2>3 DEF InitSemaphore
<1>3. ASSUME NEW t \in Threads, NEW w \in Wait, take(t, w), UNCHANGED platform
      PROVE  SemaphoreInv'
  <2>1. UNCHANGED <<s_alive, init_count, count_limit, s_initialized, given>>
    BY <1>3 DEF take
  <2>2. CASE s_initialized /\ Permit(t)
    BY <1>3, <2>1, <2>2, PermitTaken
  <2>3. CASE UNCHANGED <<count, taken>>
    BY <1>3, <2>1, <2>3 DEF SemaphoreInv, PermitsAccounted, Posix, Zephyr
  <2> QED
    BY <1>3, <2>2, <2>3 DEF take, TakeFails
<1>4. ASSUME NEW t \in Threads, give(t), UNCHANGED platform PROVE SemaphoreInv'
  <2>1. /\ UNCHANGED <<s_alive, init_count, count_limit, s_initialized, taken>>
        /\ s_alive /\ s_initialized
        /\ given' = IF terminated' THEN given ELSE given + 1
        /\ IF Posix THEN posix_do_give ELSE zephyr_do_give
        /\ ~terminated
    BY <1>4 DEF give, SemaphoreUsable
  <2>2. CASE Posix /\ count < SemValueMax
    <3>1. count' = count + 1 /\ given' = given + 1
      BY <2>1, <2>2, SemaphoreAssumption DEF posix_do_give, SemaphoreInv
    <3>2. PermitsAccounted'
      BY <1>4, <2>1, <2>2, <3>1, SemaphoreAssumption DEF SemaphoreInv, PermitsAccounted, Posix, Zephyr
    <3> QED
      BY <1>4, <2>1, <3>1, <3>2 DEF SemaphoreInv
  <2>3. CASE Posix /\ ~(count < SemValueMax)
    <3>1. count' = count /\ given' = given
      BY <2>1, <2>3, SemaphoreAssumption DEF posix_do_give, SemaphoreInv
    <3> QED
      BY <1>4, <2>1, <3>1 DEF SemaphoreInv, PermitsAccounted, Posix, Zephyr
  <2>4. CASE ~Posix
    <3>1. /\ count' = IF count < count_limit THEN count + 1 ELSE count
          /\ given' = given + 1
      BY <2>1, <2>4 DEF zephyr_do_give
    <3>2. Zephyr
      BY <2>4 DEF SemaphoreInv, Posix, Zephyr
    <3>3. /\ count <= count_limit /\ count + taken <= init_count + given
          /\ init_count + given <= count_limit => count + taken = init_count + given
      BY <2>1, <3>2 DEF SemaphoreInv, PermitsAccounted
    <3>4. /\ count' \in Nat /\ given' \in Nat
          /\ count' <= count_limit /\ count' + taken <= init_count + given'
          /\ init_count + given' <= count_limit => count' + taken = init_count + given'
      BY <3>1, <3>3 DEF SemaphoreInv
    <3>5. PermitsAccounted'
      BY <1>4, <2>1, <2>4, <3>4 DEF PermitsAccounted, Posix, Zephyr
    <3> QED
      BY <1>4, <2>1, <3>4, <3>5 DEF SemaphoreInv
  <2> QED
    BY <2>2, <2>3, <2>4
<1>5. ASSUME NEW t \in Threads, DestroySemaphore(t), UNCHANGED platform PROVE SemaphoreInv'
  BY <1>5 DEF DestroySemaphore, SemaphoreInv, PermitsAccounted
<1>6. ASSUME NEW t \in Threads, TakeWakes(t) \/ TakeGivesUp(t), UNCHANGED platform
      PROVE  SemaphoreInv'
  <2>1. UNCHANGED <<s_alive, init_count, count_limit, s_initialized, given>>
    BY <1>6 DEF TakeWakes, TakeGivesUp
  <2>2. CASE Permit(t)
    <3>1. s_initialized
      BY <1>6, <2>2 DEF Permit, SemaphoreInv
    <3> QED
      BY <1>6, <2>1, <2>2, <3>1, PermitTaken
  <2>3. CASE UNCHANGED <<count, taken>>
    BY <1>6, <2>1, <2>3 DEF SemaphoreInv, PermitsAccounted, Posix, Zephyr
  <2> QED
    BY <1>6, <2>2, <2>3 DEF TakeWakes, TakeGivesUp, TakeFails
<1> QED
  BY <1>1, <1>2, <1>3, <1>4, <1>5, <1>6
     DEF Next, vars, UseThread, ThreadCallGoesOn, UseMutex, UseLed, UseSemaphore, UseSerial,
         MutexGoesOn, BlinkGoesOn, TakeEnds

\* No permit of the semaphore is invented or lost, whichever way waits end.
THEOREM PermitsKept == Spec => []PermitsAccounted
<1>1. SemaphoreInv => PermitsAccounted
  BY DEF SemaphoreInv
<1> QED
  BY <1>1, SemaphoreInvInit, SemaphoreInvStep, PTL DEF Spec

-----------------------------------------------------------------------------
(* The thread.                                                             *)

RequestSet ==
    [fn : ThreadFunctionVariant, params : ThreadParamVariant,
     stack : StackSizes \cup {0}, prio : Int, forced : BOOLEAN]

ThreadTypes ==
    /\ platform \in {"posix", "zephyr"}
    /\ privileged \in BOOLEAN /\ active \in BOOLEAN
    /\ tpc \in {"idle", "gone", "attr_init", "attr_stack", "attr_sched", "spawn", "attempted",
                "join", "dtor_join"}
    /\ request \in RequestSet
    /\ attr \in [live : BOOLEAN, stack : Int, sched : Int]
    /\ os_thread \in [state : {"none", "running", "ended"}, stack : Int, sched : Int]

\* The attributes live inside an attempt only.
AttrInv ==
    /\ tpc \notin {"attr_stack", "attr_sched", "spawn"} => attr = NoAttr
    /\ tpc \in {"attr_sched", "spawn"} => attr.stack = sanitize_stack_size(request.stack)
    /\ tpc = "spawn" /\ attr.sched # Inherit => request.prio >= 0 /\ ~request.forced

\* There is an OS thread from a successful attempt to its join, and active
\* says so outside create().
OsThreadInv ==
    /\ os_thread.state = "none" <=> os_thread = NoOsThread
    /\ tpc \in {"idle", "gone", "join", "dtor_join"} => (active <=> os_thread # NoOsThread)
    /\ tpc \in {"attr_init", "attr_stack", "attr_sched", "spawn"} =>
          Posix /\ ~active /\ os_thread = NoOsThread
    /\ tpc = "attempted" =>
          /\ Posix /\ ~active /\ (err = "ok" <=> os_thread # NoOsThread)
          /\ err = "ok" => os_thread.stack = sanitize_stack_size(request.stack)
          /\ err = "EPERM" => request.prio >= 0 /\ ~request.forced
    /\ tpc \in {"join", "dtor_join"} => active
    /\ tpc = "gone" => ~active
    /\ Posix /\ os_thread # NoOsThread => os_thread.stack >= MinStack

ThreadInv == ThreadTypes /\ AttrInv /\ OsThreadInv

\* The stack size is at least the minimum and, unless the rounding wraps, what
\* was asked for.
LEMMA StackSanitized ==
    ASSUME NEW n \in 0..(SizeT - 1)
    PROVE  /\ sanitize_stack_size(n) \in Int /\ sanitize_stack_size(n) >= MinStack
           /\ n <= SizeT - Word => sanitize_stack_size(n) >= n
<1> DEFINE x == (n + Word - 1) % SizeT
           q == x \div Word
<1>1. Word \in Nat \ {0} /\ SizeT \in Nat \ {0} /\ MinStack \in Nat \ {0}
  BY ThreadAssumption
<1>2. x \in Nat /\ (n <= SizeT - Word => x = n + Word - 1)
  BY <1>1
<1> HIDE DEF x
<1>3. q \in Int /\ q * Word <= x /\ x < q * Word + Word
  BY <1>1, <1>2
<1> HIDE DEF q
<1>4. q * Word \in Int
  BY <1>1, <1>3
<1>5. sanitize_stack_size(n) = IF n = 0 \/ q * Word < MinStack THEN MinStack ELSE q * Word
  BY DEF sanitize_stack_size, q, x
<1>6. n <= SizeT - Word => q * Word >= n
  BY <1>1, <1>2, <1>3, <1>4
<1> QED
  BY <1>1, <1>4, <1>5, <1>6

LEMMA ThreadBalances == ThreadInv => ThreadsBalanced
<1> SUFFICES ASSUME ThreadInv PROVE ThreadsBalanced
  OBVIOUS
<1>1. request.stack \in 0..(SizeT - 1)
  <2>1. request.stack \in StackSizes \cup {0}
    BY DEF ThreadInv, ThreadTypes, RequestSet
  <2>2. 0 \in 0..(SizeT - 1) /\ StackSizes \subseteq 0..(SizeT - 1)
    BY ThreadAssumption
  <2> QED
    BY <2>1, <2>2
<1>2. Posix /\ tpc = "attempted" /\ err = "ok" /\ request.stack <= SizeT - Word =>
          os_thread.stack >= request.stack
  BY <1>1, StackSanitized DEF ThreadInv, OsThreadInv
<1> QED
  BY <1>2 DEF ThreadInv, AttrInv, OsThreadInv, ThreadsBalanced

LEMMA ThreadConstants ==
    /\ NoRequest \in RequestSet
    /\ NoAttr \in [live : BOOLEAN, stack : Int, sched : Int]
    /\ NoOsThread \in [state : {"none", "running", "ended"}, stack : Int, sched : Int]
<1>1. NoRequest \in RequestSet
  BY DEF NoRequest, Request, RequestSet, ThreadFunctionVariant, ThreadParamVariant
<1>2. NoAttr \in [live : BOOLEAN, stack : Int, sched : Int]
  BY DEF NoAttr, Inherit
<1>3. NoOsThread \in [state : {"none", "running", "ended"}, stack : Int, sched : Int]
  BY DEF NoOsThread, Inherit
<1> QED
  BY <1>1, <1>2, <1>3

LEMMA ThreadInvInit == Init => ThreadInv
<1> SUFFICES ASSUME Init PROVE ThreadInv
  OBVIOUS
<1>1. ThreadTypes
  BY ThreadConstants DEF Init, PlatformInit, ThreadInit, ThreadTypes
<1>2. AttrInv
  BY DEF Init, ThreadInit, AttrInv
<1>3. OsThreadInv
  BY DEF Init, ThreadInit, OsThreadInv, NoOsThread
<1> QED
  BY <1>1, <1>2, <1>3 DEF ThreadInv

LEMMA ThreadKept ==
    ASSUME ThreadInv, UNCHANGED <<platform, threadVars>>
    PROVE  ThreadInv'
BY DEF threadVars, ThreadInv, ThreadTypes, AttrInv, OsThreadInv, Posix

\* create() and what follows until it returns.
LEMMA CreateStep ==
    ASSUME ThreadInv, UNCHANGED platform,
           NEW fn \in ThreadFunctionVariant, NEW params \in ThreadParamVariant,
           NEW stack \in StackSizes, NEW prio \in Priorities, create(fn, params, stack, prio)
    PROVE  ThreadInv'
<1> DEFINE req == Request(fn, params, stack, prio, FALSE)
<1>1. /\ req \in RequestSet /\ req.stack = stack /\ req.prio = prio /\ prio \in Int
      /\ stack \in Int
  BY ThreadAssumption DEF Request, RequestSet
<1>2. tpc = "idle" /\ UNCHANGED <<privileged, attr, platform>> /\ attr = NoAttr
      /\ (active <=> os_thread # NoOsThread) /\ ThreadTypes
  BY DEF create, ThreadIdle, ThreadInv, AttrInv, OsThreadInv
<1> HIDE DEF req
<1>3. ASSUME NEW rc, CreateReturns(rc), os_thread' = os_thread, active \/ rc # "ok"
      PROVE  ThreadInv'
  <2>1. tpc' = "idle" /\ active' = active /\ request' = NoRequest
    BY <1>2, <1>3 DEF CreateReturns, ThreadTypes
  <2>2. ThreadTypes'
    BY <1>2, <1>3, <2>1, ThreadConstants DEF ThreadTypes
  <2>3. AttrInv' /\ OsThreadInv'
    BY <1>2, <1>3, <2>1 DEF ThreadInv, AttrInv, OsThreadInv, Posix
  <2> QED
    BY <2>2, <2>3 DEF ThreadInv
<1>4. CASE active /\ CreateReturns("AlreadyCreated") /\ os_thread' = os_thread
  BY <1>3, <1>4
<1>5. CASE ~active /\ Posix /\ posix_os_create(req)
  <2>1. CASE CreateReturns("InvalidParameter") /\ os_thread' = os_thread
    BY <1>3, <2>1
  <2>2. CASE /\ tpc' = "attr_init" /\ request' = req
             /\ UNCHANGED <<active, err, os_thread, result>>
    <3>1. ThreadTypes'
      BY <1>1, <1>2, <2>2 DEF ThreadTypes
    <3>2. AttrInv' /\ OsThreadInv'
      BY <1>2, <1>5, <2>2 DEF ThreadInv, AttrInv, OsThreadInv, Posix
    <3> QED
      BY <3>1, <3>2 DEF ThreadInv
  <2> QED
    BY <1>5, <2>1, <2>2 DEF posix_os_create
<1>6. CASE ~active /\ Zephyr /\ zephyr_os_create(req)
  <2>1. CASE \E rc \in {"InvalidParameter", "CreationFailed"} :
                CreateReturns(rc) /\ os_thread' = os_thread
    BY <1>3, <2>1
  <2>2. CASE /\ CreateReturns("ok")
             /\ os_thread' = [state |-> "running", stack |-> req.stack, sched |-> req.prio]
    <3>1. tpc' = "idle" /\ active' = TRUE /\ request' = NoRequest
      BY <2>2 DEF CreateReturns
    <3>2. /\ os_thread' \in [state : {"none", "running", "ended"}, stack : Int, sched : Int]
          /\ os_thread'.state = "running" /\ os_thread' # NoOsThread
      BY <1>1, <2>2 DEF NoOsThread
    <3>3. ThreadTypes'
      BY <1>2, <3>1, <3>2, ThreadConstants DEF ThreadTypes
    <3>4. AttrInv' /\ OsThreadInv'
      BY <1>2, <1>6, <3>1, <3>2 DEF AttrInv, OsThreadInv, Posix, Zephyr
    <3> QED
      BY <3>3, <3>4 DEF ThreadInv
  <2> QED
    BY <1>6, <2>1, <2>2 DEF zephyr_os_create
<1> QED
  BY <1>4, <1>5, <1>6 DEF create, req

\* A step of an attempt that fails, or the last one.
LEMMA AttemptFails ==
    ASSUME ThreadInv, UNCHANGED <<platform, privileged, active, request, os_thread>>,
           tpc \in {"attr_init", "attr_stack", "attr_sched", "spawn"},
           NEW e, e # "ok", e = "EPERM" => request.prio >= 0 /\ ~request.forced, AttemptEnds(e)
    PROVE  ThreadInv'
<1>1. tpc' = "attempted" /\ err' = e /\ attr' = NoAttr
  BY DEF AttemptEnds
<1>2. ThreadTypes'
  BY <1>1, ThreadConstants DEF ThreadInv, ThreadTypes
<1>3. AttrInv' /\ OsThreadInv'
  BY <1>1 DEF ThreadInv, AttrInv, OsThreadInv, Posix
<1> QED
  BY <1>2, <1>3 DEF ThreadInv

LEMMA AttemptStep ==
    ASSUME ThreadInv, UNCHANGED platform, AttrInit \/ AttrStack \/ AttrSched \/ Spawn
    PROVE  ThreadInv'
<1>0. /\ ThreadTypes /\ UNCHANGED <<privileged, active, request>>
      /\ request \in RequestSet /\ request.stack \in 0..(SizeT - 1)
  <2>1. request.stack \in StackSizes \cup {0}
    BY DEF ThreadInv, ThreadTypes, RequestSet
  <2>2. 0 \in 0..(SizeT - 1) /\ StackSizes \subseteq 0..(SizeT - 1)
    BY ThreadAssumption
  <2> QED
    BY <2>1, <2>2 DEF ThreadInv, ThreadTypes, AttrInit, AttrStack, AttrSched, Spawn
<1>1. CASE AttrInit
  <2>1. CASE AttemptEnds("ENOMEM")
    BY <1>1, <2>1, AttemptFails DEF AttrInit
  <2>2. CASE tpc' = "attr_stack" /\ attr' = [NoAttr EXCEPT !.live = TRUE] /\ err' = err
    <3>1. attr' \in [live : BOOLEAN, stack : Int, sched : Int]
      BY <2>2, ThreadConstants
    <3>2. ThreadTypes'
      BY <1>0, <1>1, <2>2, <3>1 DEF AttrInit, ThreadTypes
    <3> QED
      BY <1>0, <1>1, <2>2, <3>2 DEF AttrInit, ThreadInv, AttrInv, OsThreadInv, Posix
  <2> QED
    BY <1>1, <2>1, <2>2 DEF AttrInit
<1>2. CASE AttrStack
  <2>1. CASE AttemptEnds("EINVAL")
    BY <1>2, <2>1, AttemptFails DEF AttrStack
  <2>2. CASE /\ tpc' = "attr_sched" /\ err' = err
             /\ attr' = [attr EXCEPT !.stack = sanitize_stack_size(request.stack)]
    <3>1. sanitize_stack_size(request.stack) \in Int
      BY <1>0, StackSanitized
    <3>2. /\ attr' \in [live : BOOLEAN, stack : Int, sched : Int]
          /\ attr'.stack = sanitize_stack_size(request.stack)
      BY <1>0, <2>2, <3>1 DEF ThreadTypes
    <3>3. ThreadTypes'
      BY <1>0, <1>2, <2>2, <3>2 DEF AttrStack, ThreadTypes
    <3>4. AttrInv'
      BY <1>0, <2>2, <3>2 DEF AttrInv, sanitize_stack_size
    <3> QED
      BY <1>0, <1>2, <2>2, <3>3, <3>4 DEF AttrStack, ThreadInv, OsThreadInv, Posix
  <2> QED
    BY <1>2, <2>1, <2>2 DEF AttrStack
<1>3. CASE AttrSched
  <2>1. PICK s \in (IF request.forced THEN {Inherit} ELSE configure_priority(request.prio)) :
              attr' = [attr EXCEPT !.sched = s]
    BY <1>3 DEF AttrSched
  <2>2. request.prio \in Int /\ MinPriority \in Int /\ MaxPriority \in Int
    BY <1>0, ThreadAssumption DEF RequestSet
  <2>3. s \in Int /\ (s # Inherit => request.prio >= 0 /\ ~request.forced)
    BY <2>1, <2>2 DEF configure_priority, Fifo, Inherit
  <2>4. /\ attr' \in [live : BOOLEAN, stack : Int, sched : Int]
        /\ attr'.sched = s /\ attr'.stack = attr.stack
    BY <1>0, <2>1, <2>3 DEF ThreadTypes
  <2>5. ThreadTypes'
    BY <1>0, <1>3, <2>4 DEF AttrSched, ThreadTypes
  <2>6. AttrInv'
    BY <1>0, <1>3, <2>3, <2>4 DEF AttrSched, ThreadInv, AttrInv, sanitize_stack_size
  <2> QED
    BY <1>0, <1>3, <2>5, <2>6 DEF AttrSched, ThreadInv, OsThreadInv, Posix
<1>4. CASE Spawn
  <2>1. CASE \E e \in {"EINVAL", "EAGAIN"} : AttemptEnds(e) /\ os_thread' = os_thread
    BY <1>0, <1>4, <2>1, AttemptFails DEF Spawn
  <2>2. CASE attr.sched # Inherit /\ AttemptEnds("EPERM") /\ os_thread' = os_thread
    BY <1>0, <1>4, <2>2, AttemptFails DEF Spawn, ThreadInv, AttrInv
  <2>3. CASE /\ AttemptEnds("ok")
             /\ os_thread' = [state |-> "running", stack |-> attr.stack, sched |-> attr.sched]
    <3>1. tpc' = "attempted" /\ err' = "ok" /\ attr' = NoAttr
      BY <2>3 DEF AttemptEnds
    <3>2. /\ tpc = "spawn" /\ Posix /\ ~active
          /\ attr.stack = sanitize_stack_size(request.stack)
      BY <1>4 DEF Spawn, ThreadInv, AttrInv, OsThreadInv
    <3>3. /\ os_thread' \in [state : {"none", "running", "ended"}, stack : Int, sched : Int]
          /\ os_thread'.state = "running" /\ os_thread' # NoOsThread
          /\ os_thread'.stack = attr.stack
      BY <1>0, <2>3 DEF ThreadTypes, NoOsThread
    <3>4. attr.stack >= MinStack
      BY <1>0, <3>2, StackSanitized
    <3>5. ThreadTypes'
      BY <1>0, <3>1, <3>3, ThreadConstants DEF ThreadTypes
    <3>6. AttrInv'
      BY <3>1 DEF AttrInv
    <3>7. OsThreadInv'
      BY <1>0, <3>1, <3>2, <3>3, <3>4 DEF OsThreadInv, Posix, sanitize_stack_size
    <3> QED
      BY <3>5, <3>6, <3>7 DEF ThreadInv
  <2> QED
    BY <1>4, <2>1, <2>2, <2>3 DEF Spawn
<1> QED
  BY <1>1, <1>2, <1>3, <1>4

LEMMA AttemptedStep ==
    ASSUME ThreadInv, UNCHANGED platform, Attempted
    PROVE  ThreadInv'
<1>0. /\ tpc = "attempted" /\ UNCHANGED <<privileged, attr, os_thread>> /\ ThreadTypes
      /\ Posix /\ ~active /\ (err = "ok" <=> os_thread # NoOsThread) /\ attr = NoAttr
  BY DEF Attempted, ThreadInv, AttrInv, OsThreadInv
<1>1. CASE err = "EPERM" /\ request.prio >= 0 /\ ~request.forced
  <2>1. /\ tpc' = "attr_init" /\ request' = [request EXCEPT !.forced = TRUE]
        /\ UNCHANGED <<active, err>>
    BY <1>1 DEF Attempted
  <2>2. request' \in RequestSet
    BY <1>0, <2>1 DEF ThreadTypes, RequestSet
  <2>3. ThreadTypes'
    BY <1>0, <2>1, <2>2 DEF ThreadTypes
  <2>4. AttrInv' /\ OsThreadInv'
    BY <1>0, <1>1, <2>1 DEF ThreadInv, AttrInv, OsThreadInv, Posix
  <2> QED
    BY <2>3, <2>4 DEF ThreadInv
<1>2. CASE ~(err = "EPERM" /\ request.prio >= 0 /\ ~request.forced)
  <2>1. CreateReturns(IF err = "ok" THEN "ok" ELSE Mapped(posix_thread_errors, err))
    BY <1>2 DEF Attempted
  <2>2. err # "ok" => Mapped(posix_thread_errors, err) # "ok"
    BY DEF Mapped, posix_thread_errors
  <2>3. /\ tpc' = "idle" /\ request' = NoRequest /\ active' \in BOOLEAN
        /\ active' <=> err = "ok"
    BY <1>0, <2>1, <2>2 DEF CreateReturns
  <2>4. ThreadTypes'
    BY <1>0, <2>3, ThreadConstants DEF ThreadTypes
  <2>5. AttrInv' /\ OsThreadInv'
    BY <1>0, <2>3 DEF ThreadInv, AttrInv, OsThreadInv, Posix
  <2> QED
    BY <2>4, <2>5 DEF ThreadInv
<1> QED
  BY <1>1, <1>2

\* destroy(), the destructor, the join and the thread's own end.
LEMMA JoinStep ==
    ASSUME ThreadInv, UNCHANGED platform,
           destroy \/ Destructor \/ os_destroy \/ ThreadFunctionReturns
    PROVE  ThreadInv'
<1>1. CASE destroy \/ Destructor
  <2>1. /\ tpc = "idle" /\ UNCHANGED <<privileged, active, request, attr, err, os_thread>>
        /\ \/ active /\ tpc' \in {"join", "dtor_join"}
           \/ ~active /\ tpc' \in {"idle", "gone"}
    BY <1>1 DEF destroy, Destructor, ThreadIdle
  <2>2. ThreadTypes'
    BY <2>1 DEF ThreadInv, ThreadTypes
  <2> QED
    BY <2>1, <2>2 DEF ThreadInv, AttrInv, OsThreadInv, Posix
<1>2. CASE os_destroy
  <2>1. /\ tpc \in {"join", "dtor_join"} /\ os_thread' = NoOsThread /\ active' = FALSE
        /\ tpc' \in {"idle", "gone"} /\ UNCHANGED <<privileged, request, attr, err>>
    BY <1>2 DEF os_destroy
  <2>2. ThreadTypes'
    BY <2>1, ThreadConstants DEF ThreadInv, ThreadTypes
  <2>3. OsThreadInv'
    BY <2>1 DEF OsThreadInv, NoOsThread
  <2> QED
    BY <2>1, <2>2, <2>3 DEF ThreadInv, AttrInv
<1>3. CASE ThreadFunctionReturns
  <2>1. /\ os_thread.state = "running" /\ os_thread' = [os_thread EXCEPT !.state = "ended"]
        /\ UNCHANGED <<privileged, active, tpc, request, attr, err>>
    BY <1>3 DEF ThreadFunctionReturns
  <2>2. /\ os_thread' \in [state : {"none", "running", "ended"}, stack : Int, sched : Int]
        /\ os_thread'.state = "ended" /\ os_thread'.stack = os_thread.stack
        /\ os_thread' # NoOsThread /\ os_thread # NoOsThread
    BY <2>1 DEF ThreadInv, ThreadTypes, NoOsThread
  <2>3. ThreadTypes'
    BY <2>1, <2>2 DEF ThreadInv, ThreadTypes
  <2>4. AttrInv'
    BY <2>1 DEF ThreadInv, AttrInv, sanitize_stack_size
  <2>5. OsThreadInv'
    BY <2>1, <2>2 DEF ThreadInv, OsThreadInv, Posix, sanitize_stack_size
  <2> QED
    BY <2>3, <2>4, <2>5 DEF ThreadInv
<1> QED
  BY <1>1, <1>2, <1>3

LEMMA ThreadInvStep == ThreadInv /\ [Next]_vars => ThreadInv'
<1> SUFFICES ASSUME ThreadInv, [Next]_vars PROVE ThreadInv'
  OBVIOUS
<1>1. CASE UNCHANGED <<platform, threadVars>>
  BY <1>1, ThreadKept
<1>2. CASE UseThread
  <2>1. CASE DestroyFromWithin
    BY <1>1, <1>2, <2>1 DEF DestroyFromWithin, UseThread
  <2> QED
    BY <1>2, <2>1, CreateStep, JoinStep DEF UseThread
<1>3. CASE ThreadCallGoesOn
  BY <1>3, AttemptStep, AttemptedStep, JoinStep DEF ThreadCallGoesOn, CallGoesOn
<1> QED
  BY <1>1, <1>2, <1>3
     DEF Next, vars, UseMutex, UseLed, UseSemaphore, UseSerial, MutexGoesOn, BlinkGoesOn, TakeEnds

\* create(), its retry, destroy() and the destructor forget no OS thread and no
\* attribute object, whatever the sizes, priorities and failures.
THEOREM ThreadsStayBalanced == Spec => []ThreadsBalanced
BY ThreadInvInit, ThreadInvStep, ThreadBalances, PTL DEF Spec

=============================================================================
