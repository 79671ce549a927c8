------------------------------- MODULE Mutex --------------------------------
(***************************************************************************)
(* PlatformCore::Mutex and MutexLocker of both platforms, used by threads  *)
(* through lockers, which nest like the scopes they live in.  One thread   *)
(* initialises (initialized_ is not atomic); the others may call at any    *)
(* time.                                                                   *)
(***************************************************************************)
EXTENDS Platform

CONSTANTS
    Mutexes, NoMutex,
    Initialiser,     \* the thread that calls init()
    MaxNesting       \* bound: lockers a thread has at a time

ASSUME MutexAssumption ==
    NoMutex \notin Mutexes /\ Initialiser \in Threads /\ MaxNesting \in Nat

VARIABLES
    m_initialized,   \* per mutex: initialized_
    owner, depth,    \* per mutex: the OS object's owner and how often it locked
    waiting,         \* per thread: the lock() it is inside, or NotWaiting
    lockers          \* per thread: its lockers, the innermost last

mutexVars == <<m_initialized, owner, depth, waiting, lockers>>

NotWaiting == [mutex |-> NoMutex, kind |-> "none"]
Locker(m, l) == [mutex |-> m, locked |-> l]

\* errno_to_mutex_error of the two platforms.
posix_mutex_errors ==
    [EINVAL |-> "InvalidParameter", ENOMEM |-> "InsufficientMemory",
     EAGAIN |-> "ResourceLimitExceeded", ETIMEDOUT |-> "Timeout",
     EINTR |-> "Interrupted", EDEADLK |-> "Deadlock", EBUSY |-> "Busy",
     EPERM |-> "PermissionDenied", EALREADY |-> "AlreadyInitialized"]
zephyr_mutex_errors ==
    [EINVAL |-> "InvalidParameter", ETIMEDOUT |-> "Timeout", EBUSY |-> "Timeout",
     EDEADLK |-> "Deadlock", EALREADY |-> "AlreadyInitialized"]
mutex_error(errno) ==
    Mapped(IF Posix THEN posix_mutex_errors ELSE zephyr_mutex_errors, errno)
\* Every error has a name of its own: none can be taken for "ok".
MutexError ==
    {"InvalidParameter", "InsufficientMemory", "ResourceLimitExceeded", "Timeout",
     "Interrupted", "NotInitialized", "AlreadyInitialized", "Deadlock",
     "PermissionDenied", "Busy", "Unknown"}

MutexInit ==
    /\ m_initialized = [m \in Mutexes |-> FALSE]
    /\ owner = [m \in Mutexes |-> NoThread]
    /\ depth = [m \in Mutexes |-> 0]
    /\ waiting = [t \in Threads |-> NotWaiting]
    /\ lockers = [t \in Threads |-> <<>>]

Free(t) == ~terminated /\ waiting[t].kind = "none"

-----------------------------------------------------------------------------
(* init(): refused the second time, before do_init() could re-create the   *)
(* OS object (do_init's own branch for an initialised mutex is out of      *)
(* init()'s reach).                                                        *)

\* Which errno do_init may meet: from the attribute calls, pthread_mutex_init
\* and the attribute's destruction; from k_mutex_init.
posix_mutex_do_init == {"ENOMEM", "EAGAIN", "EINVAL", "EPERM"}
zephyr_mutex_do_init == {"EINVAL"}

do_init(t, m) ==
    \/ /\ owner' = [owner EXCEPT ![m] = NoThread]
       /\ depth' = [depth EXCEPT ![m] = 0]
       /\ m_initialized' = [m_initialized EXCEPT ![m] = TRUE]
       /\ result' = "ok"
    \/ /\ \E e \in IF Posix THEN posix_mutex_do_init ELSE zephyr_mutex_do_init :
             result' = mutex_error(e)
       /\ UNCHANGED <<owner, depth, m_initialized>>

mutex_init(t, m) ==
    \/ ~m_initialized[m] /\ do_init(t, m)
    \/ /\ m_initialized[m]
       /\ result' = "AlreadyInitialized"
       /\ UNCHANGED <<owner, depth, m_initialized>>

InitMutex(t, m) ==
    /\ t = Initialiser /\ Free(t)
    /\ mutex_init(t, m)
    /\ UNCHANGED <<waiting, lockers, terminated>>

-----------------------------------------------------------------------------
(* MutexLocker's constructor is lock(), its destructor unlock() if locked. *)

\* What the OS says to a do_lock that cannot wait, or waits until its deadline,
\* and to a second lock by the owner, which a Zephyr mutex counts.
posix_do_lock == [no_wait |-> "ETIMEDOUT", timed |-> "ETIMEDOUT", relock |-> "EDEADLK"]
zephyr_do_lock == [no_wait |-> "EBUSY", timed |-> "EAGAIN"]
Refused(why) == mutex_error((IF Posix THEN posix_do_lock ELSE zephyr_do_lock)[why])

\* lock() returns rc to t, inside the constructor of a locker.
Returns(t, m, rc) ==
    /\ result' = rc
    /\ lockers' = [lockers EXCEPT ![t] = Append(@, Locker(m, rc = "ok"))]

Takes(t, m) ==
    /\ owner' = [owner EXCEPT ![m] = t]
    /\ depth' = [depth EXCEPT ![m] = @ + 1]
    /\ Returns(t, m, "ok")

\* Faulty variant: a default mutex instead of PTHREAD_MUTEX_ERRORCHECK.
Relock_Default(t, m, w) ==
    IF Posix THEN waiting' = [waiting EXCEPT ![t] = [mutex |-> m, kind |-> w]]
                  /\ UNCHANGED <<owner, depth, result, lockers>>
             ELSE Takes(t, m) /\ UNCHANGED waiting

\* A POSIX mutex checks for errors, a Zephyr mutex counts.
Relock(t, m, w) ==
    /\ IF Posix THEN Returns(t, m, Refused("relock")) /\ UNCHANGED <<owner, depth>>
                ELSE Takes(t, m)
    /\ UNCHANGED waiting

lock(t, m, w) ==
    \/ ~m_initialized[m] /\ Returns(t, m, "NotInitialized") /\ UNCHANGED <<owner, depth, waiting>>
    \/ m_initialized[m] /\ owner[m] = NoThread /\ Takes(t, m) /\ UNCHANGED waiting
    \/ m_initialized[m] /\ owner[m] = t /\ Relock(t, m, w)
    \/ /\ m_initialized[m] /\ owner[m] \notin {t, NoThread}
       /\ IF w = "no_wait"
            THEN /\ Returns(t, m, Refused("no_wait"))
                 /\ UNCHANGED waiting
            ELSE /\ waiting' = [waiting EXCEPT ![t] = [mutex |-> m, kind |-> w]]
                 /\ UNCHANGED <<result, lockers>>
       /\ UNCHANGED <<owner, depth>>

ConstructLocker(t, m, w) ==
    /\ Free(t) /\ Len(lockers[t]) < MaxNesting
    /\ lock(t, m, w)
    /\ UNCHANGED <<m_initialized, terminated>>

Acquire(t) ==
    LET m == waiting[t].mutex IN
    /\ waiting[t].kind # "none" /\ owner[m] = NoThread /\ ~terminated
    /\ Takes(t, m)
    /\ waiting' = [waiting EXCEPT ![t] = NotWaiting]
    /\ UNCHANGED <<m_initialized, terminated>>

\* The deadline passes.
TimesOut(t) ==
    /\ waiting[t].kind = "timed" /\ ~terminated
    /\ Returns(t, waiting[t].mutex, Refused("timed"))
    /\ waiting' = [waiting EXCEPT ![t] = NotWaiting]
    /\ UNCHANGED <<m_initialized, owner, depth, terminated>>

\* The OS refuses an unlock by another thread; only POSIX's error is heeded.
do_unlock(t, m) ==
    \/ /\ owner[m] = t
       /\ depth' = [depth EXCEPT ![m] = @ - 1]
       /\ owner' = [owner EXCEPT ![m] = IF depth[m] = 1 THEN NoThread ELSE t]
       /\ UNCHANGED terminated
    \/ /\ owner[m] # t
       /\ terminated' = Posix
       /\ UNCHANGED <<owner, depth>>

unlock(t, m) ==
    \/ ~m_initialized[m] /\ UNCHANGED <<owner, depth, terminated>>
    \/ m_initialized[m] /\ do_unlock(t, m)

Innermost(t) == lockers[t][Len(lockers[t])]

DestroyLocker(t) ==
    /\ Free(t) /\ lockers[t] # <<>>
    /\ lockers' = [lockers EXCEPT ![t] = SubSeq(@, 1, Len(@) - 1)]
    /\ IF Innermost(t).locked THEN unlock(t, Innermost(t).mutex)
                              ELSE UNCHANGED <<owner, depth, terminated>>
    /\ UNCHANGED <<m_initialized, waiting, result>>

-----------------------------------------------------------------------------
(* Properties.                                                             *)

\* The lockers of t that hold m.
Holding(t, m) == {i \in DOMAIN lockers[t] : lockers[t][i] = Locker(m, TRUE)}

\* A locker says it holds the mutex exactly when the OS object is locked on its
\* behalf: the OS object's owner has as many such lockers as it locked it, no
\* other thread has one, and nobody waits for a mutex it holds itself, however
\* lockers nest, fail, time out or come before init().
LockersExact ==
    \A m \in Mutexes, t \in Threads :
        /\ Cardinality(Holding(t, m)) = IF owner[m] = t THEN depth[m] ELSE 0
        /\ owner[m] = t => depth[m] > 0 /\ waiting[t].mutex # m

=============================================================================
