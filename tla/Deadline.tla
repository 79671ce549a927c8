------------------------------ MODULE Deadline ------------------------------
(***************************************************************************)
(* MessageQueue::ms_to_timespec: the wall clock plus a timeout in          *)
(* milliseconds, as the absolute time mq_timedsend wants, without ever     *)
(* overflowing time_t.                                                     *)
(***************************************************************************)
EXTENDS Integers

CONSTANT MaxSec       \* the largest time_t

ASSUME DeadlineAssumption == MaxSec \in Nat

k_max_nsec == 999999999
Timespec == [tv_sec : 0..MaxSec, tv_nsec : 0..k_max_nsec]

\* Faulty variant: the carry is not taken at exactly one second.
Carry_Late(sec, nsec) ==
    IF nsec <= 1000000000 THEN [tv_sec |-> sec, tv_nsec |-> nsec]
    ELSE IF sec < MaxSec THEN [tv_sec |-> sec + 1, tv_nsec |-> nsec - 1000000000]
    ELSE [tv_sec |-> sec, tv_nsec |-> 999999999]

\* A second's worth of nanoseconds is carried, unless there is no next second.
Carry(sec, nsec) ==
    IF nsec < 1000000000 THEN [tv_sec |-> sec, tv_nsec |-> nsec]
    ELSE IF sec < MaxSec THEN [tv_sec |-> sec + 1, tv_nsec |-> nsec - 1000000000]
    ELSE [tv_sec |-> sec, tv_nsec |-> 999999999]

ms_to_timespec(now, timeout_ms) ==
    LET add_sec == timeout_ms \div 1000
        add_nsec == (timeout_ms % 1000) * 1000000
        room == MaxSec - now.tv_sec
        safe_sec == IF add_sec > room THEN room ELSE add_sec
    IN  IF room <= 0 THEN [tv_sec |-> MaxSec, tv_nsec |-> 999999999]
        ELSE Carry(now.tv_sec + safe_sec, now.tv_nsec + add_nsec)

-----------------------------------------------------------------------------
(* What the deadline has to be, in whole milliseconds and what is left of  *)
(* the clock's nanoseconds below one.                                      *)

Millis(ts) == ts.tv_sec * 1000 + ts.tv_nsec \div 1000000
Rest(ts) == ts.tv_nsec % 1000000

\* The deadline is a valid time, exactly timeout_ms after now, unless that is
\* in or after the clock's last second: then it is in that second, and never
\* earlier than now.
Exact(now, timeout_ms, ts) ==
    /\ ts \in Timespec
    /\ Millis(now) + timeout_ms < MaxSec * 1000 =>
          Millis(ts) = Millis(now) + timeout_ms /\ Rest(ts) = Rest(now)
    /\ Millis(now) + timeout_ms >= MaxSec * 1000 =>
          ts.tv_sec = MaxSec /\ (now.tv_sec = MaxSec => ts.tv_nsec >= now.tv_nsec)

=============================================================================
