------------------------------- MODULE Serial -------------------------------
(***************************************************************************)
(* Boards::Serial::Serial<DriverT>: wrappers that own a driver, can be     *)
(* moved, and deinitialise it at the end.  The repository has no driver;   *)
(* here one is a port that init() opens and deinit() closes, and a driver  *)
(* that was moved from has none.                                           *)
(***************************************************************************)
EXTENDS Platform

CONSTANTS Wrappers, Ports, NoPort

ASSUME SerialAssumption == NoPort \notin Ports

VARIABLES
    lives,             \* the wrappers within their lifetime
    driver,            \* per wrapper: the port of driver_
    is_initialized,    \* per wrapper
    port_open,         \* per port: init() without deinit() yet
    misuse             \* history: a deinit() of a port that was not open, or
                       \* a transfer on one

serialVars == <<lives, driver, is_initialized, port_open, misuse>>

SerialInit ==
    /\ lives = {} /\ driver = [w \in Wrappers |-> NoPort]
    /\ is_initialized = [w \in Wrappers |-> FALSE]
    /\ port_open = [p \in Ports |-> FALSE] /\ misuse = FALSE

IsOpen(p) == p \in Ports /\ port_open[p]
Owned == {driver[w] : w \in lives}

\* Serial(DriverT&&), with a driver fresh from its own constructor.
ConstructSerial(w, p) ==
    /\ w \notin lives /\ p \notin Owned /\ ~port_open[p]
    /\ lives' = lives \cup {w}
    /\ driver' = [driver EXCEPT ![w] = p]
    /\ is_initialized' = [is_initialized EXCEPT ![w] = FALSE]
    /\ UNCHANGED <<port_open, misuse>>

\* The port, or the driver without one, may refuse.
initialize(w) ==
    /\ w \in lives
    /\ \/ is_initialized[w] /\ UNCHANGED <<is_initialized, port_open>>
       \/ /\ ~is_initialized[w] /\ driver[w] # NoPort
          /\ is_initialized' = [is_initialized EXCEPT ![w] = TRUE]
          /\ port_open' = [port_open EXCEPT ![driver[w]] = TRUE]
       \/ /\ ~is_initialized[w]
          /\ UNCHANGED <<is_initialized, port_open>>
    /\ UNCHANGED <<lives, driver, misuse>>

\* cleanup(): what it does to the port; is_initialized_ is the caller's to set.
cleanup(w) ==
    IF is_initialized[w]
      THEN /\ port_open' = [p \in Ports |-> IF p = driver[w] THEN FALSE ELSE port_open[p]]
           /\ misuse' = (misuse \/ ~IsOpen(driver[w]))
      ELSE UNCHANGED <<port_open, misuse>>

\* Serial(Serial&&).
MoveConstruct(w, other) ==
    /\ w \notin lives /\ other \in lives
    /\ lives' = lives \cup {w}
    /\ driver' = [driver EXCEPT ![w] = driver[other], ![other] = NoPort]
    /\ is_initialized' = [is_initialized EXCEPT ![w] = is_initialized[other], ![other] = FALSE]
    /\ UNCHANGED <<port_open, misuse>>

\* Faulty variant: the old driver is overwritten without cleanup().
MoveAssign_NoCleanup(w, other) ==
    /\ w \in lives /\ other \in lives /\ w # other
    /\ driver' = [driver EXCEPT ![w] = driver[other], ![other] = NoPort]
    /\ is_initialized' = [is_initialized EXCEPT ![w] = is_initialized[other], ![other] = FALSE]
    /\ UNCHANGED <<lives, port_open, misuse>>

\* operator=(Serial&&); an assignment to itself does nothing.
MoveAssign(w, other) ==
    /\ w \in lives /\ other \in lives /\ w # other
    /\ cleanup(w)
    /\ driver' = [driver EXCEPT ![w] = driver[other], ![other] = NoPort]
    /\ is_initialized' = [is_initialized EXCEPT ![w] = is_initialized[other], ![other] = FALSE]
    /\ UNCHANGED lives

DestroySerial(w) ==
    /\ w \in lives
    /\ cleanup(w)
    /\ lives' = lives \ {w}
    /\ driver' = [driver EXCEPT ![w] = NoPort]
    /\ is_initialized' = [is_initialized EXCEPT ![w] = FALSE]

\* write() and read() of some bytes reach the driver once initialised.
transfer(w) ==
    /\ w \in lives /\ is_initialized[w]
    /\ misuse' = (misuse \/ ~IsOpen(driver[w]))
    /\ UNCHANGED <<lives, driver, is_initialized, port_open>>

-----------------------------------------------------------------------------
(* Properties.                                                             *)

\* However wrappers are moved, assigned over and destroyed, an open port
\* belongs to exactly one living wrapper that will close it, a wrapper that
\* says it is initialised has an open port, and no port is closed twice or used
\* while closed.
PortsOwned ==
    /\ ~misuse
    /\ \A p \in Ports : port_open[p] =>
          \E w \in lives : {v \in lives : driver[v] = p} = {w} /\ is_initialized[w]
    /\ \A w \in lives : is_initialized[w] => IsOpen(driver[w])

=============================================================================
