----------------------------- MODULE Semaphore ------------------------------
(***************************************************************************)
(* PlatformCore::Semaphore of both platforms, one object.                  *)
(***************************************************************************)
EXTENDS Platform

CONSTANTS
    Counts,          \* arguments of the constructor that are tried
    SemValueMax,     \* SEM_VALUE_MAX, scaled down
    MaxGives         \* bound: calls of give()

ASSUME SemaphoreAssumption == Counts \subseteq Nat /\ SemValueMax \in Nat /\ MaxGives \in Nat

VARIABLES
    init_count, count_limit,   \* the constructor's arguments
    s_initialized,             \* initialized_
    s_alive,                   \* the object is within its lifetime
    count,                     \* the OS object's value
    taking,                    \* per thread: how it waits inside take(), or "no"
    given, taken               \* history: give() calls that returned, successful take() calls

semaphoreVars == <<init_count, count_limit, s_initialized, s_alive, count, taking, given, taken>>

\* errno_to_semaphore_error of the two platforms.
posix_semaphore_errors ==
    [EINVAL |-> "InvalidParameter", ENOMEM |-> "InsufficientMemory",
     ENOSPC |-> "ResourceLimitExceeded", ETIMEDOUT |-> "Timeout", EINTR |-> "Interrupted",
     EACCES |-> "PermissionDenied", EOVERFLOW |-> "CountOverflow",
     EALREADY |-> "AlreadyInitialized"]
zephyr_semaphore_errors ==
    [EINVAL |-> "InvalidParameter", ETIMEDOUT |-> "Timeout", EBUSY |-> "Timeout",
     EAGAIN |-> "Timeout", EALREADY |-> "AlreadyInitialized"]
semaphore_error(errno) ==
    Mapped(IF Posix THEN posix_semaphore_errors ELSE zephyr_semaphore_errors, errno)

SemaphoreInit ==
    /\ init_count \in Counts /\ count_limit \in Counts
    /\ s_initialized = FALSE /\ s_alive = TRUE /\ count = 0
    /\ taking = [t \in Threads |-> "no"]
    /\ given = 0 /\ taken = 0

Taking(t) == taking[t] # "no"
SemaphoreUsable(t) == ~terminated /\ s_alive /\ ~Taking(t)

\* What sem_init and k_sem_init refuse.
posix_do_init == IF init_count > SemValueMax THEN "EINVAL" ELSE "ok"
zephyr_do_init == IF count_limit = 0 \/ init_count > count_limit THEN "EINVAL" ELSE "ok"

InitSemaphore(t) ==
    LET rc == IF Posix THEN posix_do_init ELSE zephyr_do_init IN
    /\ SemaphoreUsable(t)
    /\ \/ /\ s_initialized
          /\ result' = "AlreadyInitialized"
          /\ UNCHANGED <<s_initialized, count>>
       \/ /\ ~s_initialized /\ rc = "ok"
          /\ s_initialized' = TRUE /\ count' = init_count
          /\ result' = "ok"
       \/ /\ ~s_initialized /\ rc # "ok"
          /\ result' = semaphore_error(rc)
          /\ UNCHANGED <<s_initialized, count>>
    /\ UNCHANGED <<s_alive, init_count, count_limit, taking, given, taken, terminated>>

\* What the OS says to a do_take that cannot wait, or waits until its deadline.
\* A signal ends sem_wait, which is not called again.
posix_do_take == [no_wait |-> {"ETIMEDOUT"}, timed |-> {"ETIMEDOUT", "EINTR"}, forever |-> {"EINTR"}]
zephyr_do_take == [no_wait |-> {"EBUSY"}, timed |-> {"EAGAIN"}, forever |-> {}]
NotTaken(w) == (IF Posix THEN posix_do_take ELSE zephyr_do_take)[w]

\* A take that gets its permit, now or after waiting.
Permit(t) ==
    /\ count > 0
    /\ count' = count - 1 /\ taken' = taken + 1
    /\ taking' = [taking EXCEPT ![t] = "no"]
    /\ result' = "ok"

TakeFails(t, w) ==
    /\ \E errno \in NotTaken(w) : result' = semaphore_error(errno)
    /\ taking' = [taking EXCEPT ![t] = "no"]
    /\ UNCHANGED <<count, taken>>

take(t, w) ==
    /\ SemaphoreUsable(t)
    /\ \/ /\ ~s_initialized
          /\ result' = "NotInitialized"
          /\ UNCHANGED <<count, taken, taking>>
       \/ s_initialized /\ Permit(t)
       \/ s_initialized /\ count = 0 /\ w = "no_wait" /\ TakeFails(t, w)
       \/ /\ s_initialized /\ count = 0 /\ w # "no_wait"
          /\ taking' = [taking EXCEPT ![t] = w]
          /\ UNCHANGED <<count, taken, result>>
    /\ UNCHANGED <<s_alive, init_count, count_limit, s_initialized, given, terminated>>

TakeWakes(t) ==
    /\ ~terminated /\ Taking(t) /\ Permit(t)
    /\ UNCHANGED <<s_alive, init_count, count_limit, s_initialized, given, terminated>>

\* The deadline passes, or, on POSIX, a signal arrives.
TakeGivesUp(t) ==
    /\ ~terminated /\ Taking(t)
    /\ TakeFails(t, taking[t])
    /\ UNCHANGED <<s_alive, init_count, count_limit, s_initialized, given, terminated>>

\* do_give: sem_post knows no limit but its own, and its failure ends the
\* program; k_sem_give stops at the limit.
posix_do_give ==
    \/ count < SemValueMax /\ count' = count + 1 /\ UNCHANGED terminated
    \/ count >= SemValueMax /\ terminated' = TRUE /\ UNCHANGED count
\* Faulty variant: the limit is not passed on.
zephyr_do_give_Unlimited == count' = count + 1 /\ UNCHANGED terminated
zephyr_do_give ==
    /\ count' = IF count < count_limit THEN count + 1 ELSE count
    /\ UNCHANGED terminated

give(t) ==
    /\ SemaphoreUsable(t) /\ s_initialized /\ given < MaxGives
    /\ IF Posix THEN posix_do_give ELSE zephyr_do_give
    /\ given' = IF terminated' THEN given ELSE given + 1
    /\ UNCHANGED <<s_alive, init_count, count_limit, s_initialized, taking, result, taken>>

\* ~Semaphore destroys the OS object; nobody may be waiting for it.
DestroySemaphore(t) ==
    /\ SemaphoreUsable(t) /\ \A u \in Threads : ~Taking(u)
    /\ s_alive' = FALSE /\ s_initialized' = FALSE /\ count' = 0
    /\ UNCHANGED <<init_count, count_limit, taking, given, taken, terminated, result>>

-----------------------------------------------------------------------------
(* Properties.                                                             *)

\* No permit is invented or lost: on POSIX every give() and every successful
\* take() is in the value, and waits that time out or are interrupted take
\* nothing; on Zephyr give() at count_limit is dropped, which is all that can be
\* missing, and the value respects the limit.  POSIX ignores count_limit, but
\* the program ends before the value passes SEM_VALUE_MAX.
PermitsAccounted ==
    s_initialized =>
        /\ Posix => count + taken = init_count + given /\ count <= SemValueMax
        /\ Zephyr => count <= count_limit /\ count + taken <= init_count + given
        /\ Zephyr /\ init_count + given <= count_limit => count + taken = init_count + given

=============================================================================
