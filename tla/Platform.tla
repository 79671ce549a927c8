------------------------------ MODULE Platform ------------------------------
(***************************************************************************)
(* What the models of the operating-system layer share: the build (POSIX   *)
(* or Zephyr), chosen once, and the threads that call.                     *)
(***************************************************************************)
EXTENDS Naturals, Sequences, FiniteSets

CONSTANTS Threads, NoThread

ASSUME PlatformAssumption == NoThread \notin Threads

VARIABLES
    platform,      \* "posix" or "zephyr": which of the two directories is built
    terminated,    \* the process has ended: std::terminate(), or killed
    result         \* what the last call that returned has returned: "ok" or an error

Posix == platform = "posix"
Zephyr == platform = "zephyr"

\* How a caller waits: nullptr or K_FOREVER, a deadline, a deadline already
\* passed (K_NO_WAIT).
Wait == {"forever", "timed", "no_wait"}

\* An errno switch: the table's entry, or its default.
Mapped(table, errno) == IF errno \in DOMAIN table THEN table[errno] ELSE "Unknown"

PlatformInit == platform \in {"posix", "zephyr"} /\ terminated = FALSE /\ result = "ok"

=============================================================================
