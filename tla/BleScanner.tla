----------------------------- MODULE BleScanner -----------------------------
(***************************************************************************)
(* Ble::Scanner of platform/posix_core/ble: the application's thread calls *)
(* init, start_scan, stop_scan and finally the destructor, in any order    *)
(* that C++ allows; the scan thread reads HCI events from the socket and   *)
(* hands the advertising reports in them to the callback; the controller   *)
(* and other processes do what they like.  The two threads share running_  *)
(* (atomic) and hci_fd_ (not atomic).  A step is a system call, a HCI      *)
(* command or an access to running_.                                       *)
(***************************************************************************)
EXTENDS Naturals, Sequences

CONSTANTS
    MaxInits,    \* bound: sockets opened
    MaxEvents    \* bound: HCI events the controller raises

ASSUME ScannerAssumption == MaxInits \in Nat \ {0} /\ MaxEvents \in Nat

NoFd == 0                      \* hci_fd_ == -1
Fds == 1..MaxInits
\* "other" stands for the events that the checks of scan_loop skip.
HciEvent == {"report", "other"}

VARIABLES
    pc,           \* where the application's thread is
    result,       \* what the last init or start_scan returned, if it has
    running,      \* running_
    hci_fd,       \* hci_fd_
    open,         \* the sockets that exist
    active,       \* scan_thread_.active
    thread,       \* where the scan thread is
    reading,      \* the socket of the scan thread's read()
    inbox,        \* per socket, the events not yet read
    scanning,     \* is the controller scanning?
    \* History:
    inits,        \* sockets opened so far
    events,       \* events raised so far
    late,         \* events handed over since running_ became false
    lost,         \* sockets whose descriptor init() overwrote
    excused,      \* scanning not by the last word of this scanner
    refused       \* the system refused to create the scan thread

app == <<pc, result, refused>>
fdvars == <<hci_fd, open, inits, lost>>
radio == <<scanning, excused>>
scan == <<thread, reading, late>>
vars == <<app, running, fdvars, active, scan, inbox, events, radio>>

Init ==
    /\ pc = "idle" /\ result = "none"
    /\ running = FALSE
    /\ hci_fd = NoFd /\ open = {}
    /\ active = FALSE
    /\ thread = "none" /\ reading = NoFd
    /\ inbox = [f \in Fds |-> <<>>]
    /\ scanning \in BOOLEAN /\ excused = scanning
    /\ inits = 0 /\ events = 0 /\ late = 0 /\ lost = {}
    /\ refused = FALSE

-----------------------------------------------------------------------------
(* The controller's answer to a scan-enable command.  hci_send_req waits   *)
(* for the reply on the socket the scan thread reads too: a command may be *)
(* refused, or carried out while its reply is lost and the call times out. *)

CommandDone(on) == scanning' = on /\ excused' = FALSE

CommandFails(on) ==
    /\ scanning' \in {scanning, on}
    /\ excused' = scanning'

\* A command whose result the code ignores.
SetScanEnable(on) == CommandDone(on) \/ CommandFails(on)

disable_le_scan == IF hci_fd # NoFd THEN SetScanEnable(FALSE) ELSE UNCHANGED radio

-----------------------------------------------------------------------------
(* init_impl.                                                              *)

Idle == pc = "idle"

Overwritten == IF hci_fd = NoFd THEN lost ELSE lost \cup {hci_fd}

InitNoAdapter ==
    /\ Idle
    /\ result' = "AdapterNotFound"
    /\ UNCHANGED <<pc, running, fdvars, active, scan, inbox, events, radio, refused>>

InitOpenFails ==
    /\ Idle
    /\ hci_fd' = NoFd
    /\ lost' = Overwritten
    /\ result' = "SystemError_socket"
    /\ UNCHANGED <<pc, running, open, inits, active, scan, inbox, events, radio, refused>>

InitOpens ==
    /\ Idle
    /\ inits < MaxInits
    /\ inits' = inits + 1
    /\ hci_fd' = inits'
    /\ open' = open \cup {inits'}
    /\ lost' = Overwritten
    /\ result' = "ok"
    /\ UNCHANGED <<pc, running, active, scan, inbox, events, radio, refused>>

init_impl == InitNoAdapter \/ InitOpenFails \/ InitOpens

-----------------------------------------------------------------------------
(* start_scan_impl, with enable_le_scan and Thread::create.                *)

StartScan ==
    /\ Idle
    /\ \/ /\ hci_fd = NoFd
          /\ result' = "NotInitialised"
          /\ UNCHANGED <<pc, radio>>
       \/ /\ hci_fd # NoFd /\ running
          /\ result' = "ok"
          /\ UNCHANGED <<pc, radio>>
       \/ /\ hci_fd # NoFd /\ ~running
          /\ SetScanEnable(FALSE)
          /\ pc' = "parameters"
          /\ result' = "none"
    /\ refused' = FALSE
    /\ UNCHANGED <<running, fdvars, active, scan, inbox, events>>

\* The controller takes the parameters only while it does not scan.
SetScanParameters ==
    /\ pc = "parameters"
    /\ \/ ~scanning /\ pc' = "enable" /\ result' = result
       \/ pc' = "idle" /\ result' = "ScanStartFailed"
    /\ UNCHANGED <<running, fdvars, active, scan, inbox, events, radio, refused>>

EnableScan ==
    /\ pc = "enable"
    /\ \/ CommandDone(TRUE) /\ pc' = "store" /\ result' = result
       \/ CommandFails(TRUE) /\ pc' = "idle" /\ result' = "ScanStartFailed"
    /\ UNCHANGED <<running, fdvars, active, scan, inbox, events, refused>>

StoreRunning ==
    /\ pc = "store"
    /\ running' = TRUE
    /\ late' = 0
    /\ pc' = "create"
    /\ UNCHANGED <<result, refused, fdvars, active, thread, reading, inbox, events, radio>>

\* IThread::create: refused while active, else pthread_create.
CreateThread ==
    /\ pc = "create"
    /\ \/ /\ ~active
          /\ active' = TRUE
          /\ thread' = "check"
          /\ pc' = "idle" /\ result' = "ok"
          /\ UNCHANGED refused
       \/ /\ ~active
          /\ refused' = TRUE
          /\ pc' = "undo"
          /\ UNCHANGED <<active, thread, result>>
       \/ /\ active
          /\ pc' = "undo"
          /\ UNCHANGED <<active, thread, result, refused>>
    /\ UNCHANGED <<running, fdvars, reading, late, inbox, events, radio>>

\* Faulty variant: running_ stays set.
UndoRunning_Forgets ==
    /\ pc = "undo"
    /\ pc' = "undo_scan"
    /\ UNCHANGED <<running, result, refused, fdvars, active, scan, inbox, events, radio>>

UndoRunning ==
    /\ pc = "undo"
    /\ running' = FALSE
    /\ pc' = "undo_scan"
    /\ UNCHANGED <<result, refused, fdvars, active, scan, inbox, events, radio>>

\* Faulty variant: the controller is left scanning.
UndoScan_LeavesScanning ==
    /\ pc = "undo_scan"
    /\ pc' = "idle"
    /\ result' = "SystemError"
    /\ UNCHANGED <<refused, running, fdvars, active, scan, inbox, events, radio>>

UndoScan ==
    /\ pc = "undo_scan"
    /\ disable_le_scan
    /\ pc' = "idle"
    /\ result' = "SystemError"
    /\ UNCHANGED <<refused, running, fdvars, active, scan, inbox, events>>

-----------------------------------------------------------------------------
(* stop_scan_impl and ~Scanner, whose last part is ~Thread.                *)

\* A stop_scan while not running changes nothing and has no action.
StopScan ==
    /\ Idle
    /\ running
    /\ running' = FALSE
    /\ pc' = "stop_scan"
    /\ UNCHANGED <<result, refused, fdvars, active, scan, inbox, events, radio>>

StopDisables ==
    /\ pc = "stop_scan"
    /\ disable_le_scan
    /\ pc' = "idle"
    /\ UNCHANGED <<result, refused, running, fdvars, active, scan, inbox, events>>

\* Faulty variant: running_ is not cleared.
Destructor_KeepsRunning ==
    /\ Idle
    /\ pc' = IF running THEN "dtor_scan" ELSE "dtor_close"
    /\ UNCHANGED <<running, result, refused, fdvars, active, scan, inbox, events, radio>>

Destructor ==
    /\ Idle
    /\ running' = FALSE
    /\ pc' = IF running THEN "dtor_scan" ELSE "dtor_close"
    /\ UNCHANGED <<result, refused, fdvars, active, scan, inbox, events, radio>>

DestructorDisables ==
    /\ pc = "dtor_scan"
    /\ disable_le_scan
    /\ pc' = "dtor_close"
    /\ UNCHANGED <<result, refused, running, fdvars, active, scan, inbox, events>>

\* Faulty variant: hci_fd_ still names the closed socket.
DestructorCloses_KeepsFd ==
    /\ pc = "dtor_close"
    /\ open' = open \ {hci_fd}
    /\ pc' = "join"
    /\ UNCHANGED <<hci_fd, result, refused, running, inits, lost, active, scan, inbox,
                   events, radio>>

DestructorCloses ==
    /\ pc = "dtor_close"
    /\ open' = open \ {hci_fd}
    /\ hci_fd' = NoFd
    /\ pc' = "join"
    /\ UNCHANGED <<result, refused, running, inits, lost, active, scan, inbox, events, radio>>

\* Faulty variant: the thread is detached.
Join_Detaches ==
    /\ pc = "join"
    /\ active' = FALSE
    /\ pc' = "destroyed"
    /\ UNCHANGED <<result, refused, running, fdvars, scan, inbox, events, radio>>

\* ~Thread: pthread_join returns once the scan thread has.
Join ==
    /\ pc = "join"
    /\ active => thread = "done"
    /\ active' = FALSE
    /\ pc' = "destroyed"
    /\ UNCHANGED <<result, refused, running, fdvars, scan, inbox, events, radio>>

-----------------------------------------------------------------------------
(* scan_loop.                                                              *)

\* Faulty variant: the descriptor is read once, when the thread starts.
CheckRunning_CachedFd ==
    /\ thread = "check"
    /\ IF running
         THEN thread' = "read" /\ reading' = IF reading = NoFd THEN hci_fd ELSE reading
         ELSE thread' = "done" /\ UNCHANGED reading
    /\ UNCHANGED <<app, running, fdvars, active, late, inbox, events, radio>>

CheckRunning ==
    /\ thread = "check"
    /\ IF running
         THEN thread' = "read" /\ reading' = hci_fd
         ELSE thread' = "done" /\ UNCHANGED reading
    /\ UNCHANGED <<app, running, fdvars, active, late, inbox, events, radio>>

\* A socket that is gone when read() begins makes it fail; one that is closed
\* later does not wake it.
BeginRead ==
    /\ thread = "read"
    /\ thread' = IF reading \in open THEN "blocked" ELSE "check"
    /\ UNCHANGED <<app, running, fdvars, active, reading, late, inbox, events, radio>>

ReadEvent ==
    /\ thread = "blocked"
    /\ inbox[reading] # <<>>
    /\ inbox' = [inbox EXCEPT ![reading] = Tail(@)]
    /\ thread' = IF Head(inbox[reading]) = "report" THEN "dispatch" ELSE "check"
    /\ UNCHANGED <<app, running, fdvars, active, reading, late, events, radio>>

\* Faulty variant: the socket is drained without looking at running_.
DispatchReport_Drains ==
    /\ thread = "dispatch"
    /\ late' = IF running THEN late ELSE late + 1
    /\ thread' = "blocked"
    /\ UNCHANGED <<app, running, fdvars, active, reading, inbox, events, radio>>

\* The callback runs to its end on the scan thread.
DispatchReport ==
    /\ thread = "dispatch"
    /\ late' = IF running THEN late ELSE late + 1
    /\ thread' = "check"
    /\ UNCHANGED <<app, running, fdvars, active, reading, inbox, events, radio>>

scan_loop == CheckRunning \/ BeginRead \/ ReadEvent \/ DispatchReport

-----------------------------------------------------------------------------
(* The controller and the other processes of the host.                     *)

\* Every socket gets every event, one closed during a read() included.
Raise(e) ==
    /\ events < MaxEvents
    /\ events' = events + 1
    /\ inbox' = [f \in Fds |->
                   IF f \in open \/ (thread = "blocked" /\ f = reading)
                     THEN Append(inbox[f], e)
                     ELSE inbox[f]]
    /\ UNCHANGED <<app, running, fdvars, active, scan, radio>>

AdvertisingReport == scanning /\ Raise("report")
OtherEvent == Raise("other")

\* hci_send_req, waiting for its reply, swallows an event meant for scan_loop.
SwallowEvent ==
    /\ pc \in {"parameters", "enable", "undo_scan", "stop_scan", "dtor_scan"}
    /\ hci_fd # NoFd
    /\ inbox[hci_fd] # <<>>
    /\ inbox' = [inbox EXCEPT ![hci_fd] = Tail(@)]
    /\ UNCHANGED <<app, running, fdvars, active, scan, events, radio>>

\* bluetoothd, say, starts a scan of its own.
OthersScan ==
    /\ scanning' = TRUE
    /\ excused' = TRUE
    /\ UNCHANGED <<app, running, fdvars, active, scan, inbox, events>>

\* A read() that waits fails for a reason of the system's (EINTR, say).
ReadFails ==
    /\ thread = "blocked"
    /\ inbox[reading] = <<>>
    /\ thread' = "check"
    /\ UNCHANGED <<app, running, fdvars, active, reading, late, inbox, events, radio>>

environment ==
    AdvertisingReport \/ OtherEvent \/ SwallowEvent \/ OthersScan \/ ReadFails

-----------------------------------------------------------------------------

Call == init_impl \/ StartScan \/ StopScan \/ Destructor

\* The rest of a call that has begun.
Continue ==
    \/ SetScanParameters \/ EnableScan \/ StoreRunning \/ CreateThread
    \/ UndoRunning \/ UndoScan \/ StopDisables
    \/ DestructorDisables \/ DestructorCloses \/ Join

Next == Call \/ Continue \/ scan_loop \/ environment

\* The scheduler runs both threads; HCI commands time out; nobody has to call,
\* and the controller owes no events.
Fairness == WF_vars(Continue) /\ WF_vars(scan_loop)

Spec == Init /\ [][Next]_vars /\ Fairness

-----------------------------------------------------------------------------
(* Properties.                                                             *)

AppPc == {"idle", "parameters", "enable", "store", "create", "undo", "undo_scan",
          "stop_scan", "dtor_scan", "dtor_close", "join", "destroyed"}
ThreadPc == {"none", "check", "read", "blocked", "dispatch", "done"}
Result == {"none", "ok", "AdapterNotFound", "SystemError_socket", "NotInitialised",
           "ScanStartFailed", "SystemError"}

\* The type of the state: in particular hci_fd_ is -1 or an open socket, through
\* repeated init(), failures and destruction, so no call uses a descriptor that
\* the scanner has closed.
TypeOK ==
    /\ pc \in AppPc
    /\ result \in Result
    /\ running \in BOOLEAN /\ active \in BOOLEAN /\ refused \in BOOLEAN
    /\ scanning \in BOOLEAN /\ excused \in BOOLEAN
    /\ hci_fd \in open \cup {NoFd} /\ reading \in Fds \cup {NoFd}
    /\ open \subseteq Fds /\ lost \subseteq Fds
    /\ thread \in ThreadPc
    /\ inbox \in [Fds -> Seq(HciEvent)]
    /\ inits \in 0..MaxInits /\ events \in 0..MaxEvents /\ late \in Nat

\* Between calls, running_ is true only while a scan thread really serves the
\* socket: no failure inside start_scan, and no stop overtaken by a start,
\* leaves a scanner that believes it runs and delivers nothing.
RunningIsServed ==
    Idle /\ running => active /\ thread \notin {"none", "done"}

\* stop_scan does not wait for the scan thread, but once it (or a start_scan
\* that failed) has cleared running_, the reports of at most one more HCI event
\* (up to 15, see HciReports) reach the callback until the next start_scan.
AtMostOneLate == late <= 1

\* When the destructor has returned, no scan thread is left to use the object
\* or call the callback, and every socket is closed but those whose descriptor
\* a repeated init() overwrote.
DestructionComplete ==
    pc = "destroyed" => thread \in {"none", "done"} /\ open = lost

\* Between calls the controller scans on behalf of a scanner that is not
\* running only if a command failed or another process wants it, or a repeated
\* init() lost the socket: start_scan's error path undoes what it did.
StoppedIsQuiet ==
    Idle /\ ~running /\ lost = {} /\ scanning => excused

\* The destructor's join waits for nothing but an event: either it returns, or
\* the scan thread sits in a read() on a socket with no event in it, from which
\* closing the socket does not wake it.
Starved == thread = "blocked" /\ inbox[reading] = <<>>
JoinWaitsForEvent == pc = "join" ~> (pc = "destroyed" \/ Starved)

\* While the scanner runs undisturbed its inbox is worked off.
InboxServed ==
    (running /\ hci_fd # NoFd /\ inbox[hci_fd] # <<>>) ~>
        (~running \/ hci_fd = NoFd \/ inbox[hci_fd] = <<>>)

\* What Ble.hpp says of start_scan_impl: after init it enables scanning and
\* spawns the scan thread; only the system can stand in its way.
StartSpawnsThread == result = "SystemError" => refused

=============================================================================
