--------------------------- MODULE BleScannerProofs ---------------------------
(***************************************************************************)
(* The hand-over between the application's thread and the scan thread, for *)
(* any number of init() calls and HCI events.                              *)
(***************************************************************************)
EXTENDS BleScanner, TLAPS

-----------------------------------------------------------------------------
(* RunningIsServed is not inductive: it says nothing of the calls under    *)
(* way, between which the scan thread may end.  Where the application's    *)
(* thread is decides whether running_ is set and who may clear it.         *)

Alive == thread \notin {"none", "done"}

ServedInv ==
    /\ running \in BOOLEAN
    /\ thread \in ThreadPc
    /\ pc \in {"create", "undo"} => running
    /\ running => pc \in {"idle", "create", "undo"}
    /\ active => thread # "none"
    /\ running /\ pc = "idle" => active /\ Alive

LEMMA ServedInit == Init => ServedInv
BY DEF Init, ServedInv, ThreadPc

LEMMA ServedByCall ==
    ASSUME ServedInv, Call
    PROVE  ServedInv'
<1>1. CASE init_impl
  BY <1>1 DEF ServedInv, Alive, init_impl, InitNoAdapter, InitOpenFails, InitOpens, fdvars, scan
<1>2. CASE StartScan
  BY <1>2 DEF ServedInv, Alive, StartScan, Idle, fdvars, scan
<1>3. CASE StopScan
  BY <1>3 DEF ServedInv, Alive, StopScan, Idle, fdvars, scan
<1>4. CASE Destructor
  BY <1>4 DEF ServedInv, Alive, Destructor, Idle, fdvars, scan
<1> QED
  BY <1>1, <1>2, <1>3, <1>4 DEF Call

LEMMA ServedByContinue ==
    ASSUME ServedInv, Continue
    PROVE  ServedInv'
<1>1. CASE SetScanParameters
  BY <1>1 DEF ServedInv, Alive, SetScanParameters, scan
<1>2. CASE EnableScan
  BY <1>2 DEF ServedInv, Alive, EnableScan, scan
<1>3. CASE StoreRunning
  BY <1>3 DEF ServedInv, Alive, StoreRunning, scan
<1>4. CASE CreateThread
  BY <1>4 DEF ServedInv, Alive, CreateThread, scan, ThreadPc
<1>5. CASE UndoRunning
  BY <1>5 DEF ServedInv, Alive, UndoRunning, scan
<1>6. CASE UndoScan
  BY <1>6 DEF ServedInv, Alive, UndoScan, scan
<1>7. CASE StopDisables
  BY <1>7 DEF ServedInv, Alive, StopDisables, scan
<1>8. CASE DestructorDisables
  BY <1>8 DEF ServedInv, Alive, DestructorDisables, scan
<1>9. CASE DestructorCloses
  BY <1>9 DEF ServedInv, Alive, DestructorCloses, scan
<1>10. CASE Join
  BY <1>10 DEF ServedInv, Alive, Join, scan
<1> QED
  BY <1>1, <1>2, <1>3, <1>4, <1>5, <1>6, <1>7, <1>8, <1>9, <1>10 DEF Continue

LEMMA ServedByOthers ==
    ASSUME ServedInv, scan_loop \/ environment \/ UNCHANGED vars
    PROVE  ServedInv'
<1>1. CASE CheckRunning
  BY <1>1 DEF ServedInv, Alive, CheckRunning, app, ThreadPc
<1>2. CASE BeginRead
  BY <1>2 DEF ServedInv, Alive, BeginRead, app, ThreadPc
<1>3. CASE ReadEvent
  BY <1>3 DEF ServedInv, Alive, ReadEvent, app, ThreadPc
<1>4. CASE DispatchReport
  BY <1>4 DEF ServedInv, Alive, DispatchReport, app, ThreadPc
<1>5. CASE AdvertisingReport \/ OtherEvent
  BY <1>5 DEF ServedInv, Alive, AdvertisingReport, OtherEvent, Raise, app, scan
<1>6. CASE SwallowEvent
  BY <1>6 DEF ServedInv, Alive, SwallowEvent, app, scan
<1>7. CASE OthersScan
  BY <1>7 DEF ServedInv, Alive, OthersScan, app, scan
<1>8. CASE ReadFails
  BY <1>8 DEF ServedInv, Alive, ReadFails, app, ThreadPc
<1>9. CASE UNCHANGED vars
  BY <1>9 DEF ServedInv, Alive, vars, app, scan
<1> QED
  BY <1>1, <1>2, <1>3, <1>4, <1>5, <1>6, <1>7, <1>8, <1>9 DEF scan_loop, environment

LEMMA ServedStep ==
    ASSUME ServedInv, [Next]_vars
    PROVE  ServedInv'
BY ServedByCall, ServedByContinue, ServedByOthers DEF Next

\* Whatever fails inside start_scan and however its steps interleave with the
\* scan thread's, a scanner that is running between calls has a live thread.
THEOREM RunningServed == Spec => []RunningIsServed
<1>1. ServedInv => RunningIsServed
  BY DEF ServedInv, Alive, RunningIsServed, Idle
<1> QED
  BY <1>1, ServedInit, ServedStep, PTL DEF Spec

-----------------------------------------------------------------------------
(* The event whose reports may still come is the one the scan thread is    *)
(* about to read, or has read, when running_ is cleared.                   *)

MayDispatch == thread \in {"read", "blocked", "dispatch"}

LateInv ==
    /\ late \in Nat
    /\ running => late = 0
    /\ late <= 1
    /\ MayDispatch => late = 0

LEMMA LateInit == Init => LateInv
BY DEF Init, LateInv, MayDispatch

LEMMA LateFrame ==
    ASSUME LateInv, UNCHANGED scan, running' = FALSE \/ running' = running
    PROVE  LateInv'
<1>1. late' = late /\ thread' = thread
  BY DEF scan
<1> QED
  BY <1>1 DEF LateInv, MayDispatch

LEMMA LateByApplication ==
    ASSUME LateInv, ServedInv, Call \/ Continue
    PROVE  LateInv'
<1>1. CASE init_impl
  BY <1>1, LateFrame DEF init_impl, InitNoAdapter, InitOpenFails, InitOpens
<1>2. CASE StartScan \/ StopScan \/ Destructor
  BY <1>2, LateFrame DEF StartScan, StopScan, Destructor
<1>3. CASE StoreRunning
  BY <1>3 DEF LateInv, MayDispatch, StoreRunning
<1>4. CASE CreateThread
  BY <1>4 DEF LateInv, MayDispatch, CreateThread
<1>5. CASE SetScanParameters \/ EnableScan \/ UndoRunning
  BY <1>5, LateFrame DEF SetScanParameters, EnableScan, UndoRunning
<1>6. CASE UndoScan \/ StopDisables \/ DestructorDisables
  BY <1>6, LateFrame DEF UndoScan, StopDisables, DestructorDisables
<1>7. CASE DestructorCloses \/ Join
  BY <1>7, LateFrame DEF DestructorCloses, Join
<1> QED
  BY <1>1, <1>2, <1>3, <1>4, <1>5, <1>6, <1>7 DEF Call, Continue

LEMMA LateByOthers ==
    ASSUME LateInv, ServedInv, scan_loop \/ environment \/ UNCHANGED vars
    PROVE  LateInv'
<1>1. CASE CheckRunning
  BY <1>1 DEF LateInv, MayDispatch, CheckRunning
<1>2. CASE BeginRead
  BY <1>2 DEF LateInv, MayDispatch, BeginRead
<1>3. CASE ReadEvent
  BY <1>3 DEF LateInv, MayDispatch, ReadEvent
<1>4. CASE DispatchReport
  BY <1>4 DEF LateInv, MayDispatch, DispatchReport
<1>5. CASE AdvertisingReport \/ OtherEvent
  BY <1>5, LateFrame DEF AdvertisingReport, OtherEvent, Raise
<1>6. CASE SwallowEvent \/ OthersScan
  BY <1>6, LateFrame DEF SwallowEvent, OthersScan
<1>7. CASE ReadFails
  BY <1>7 DEF LateInv, MayDispatch, ReadFails
<1>8. CASE UNCHANGED vars
  BY <1>8, LateFrame DEF vars
<1> QED
  BY <1>1, <1>2, <1>3, <1>4, <1>5, <1>6, <1>7, <1>8 DEF scan_loop, environment

LEMMA LateStep ==
    ASSUME LateInv, ServedInv, [Next]_vars
    PROVE  LateInv'
BY LateByApplication, LateByOthers DEF Next

\* The reports of at most one event reach the callback after stop_scan has
\* cleared running_, however long the scan thread is delayed.
THEOREM OneLateReport == Spec => []AtMostOneLate
<1>1. LateInv => AtMostOneLate
  BY DEF LateInv, AtMostOneLate
<1> QED
  BY <1>1, LateInit, LateStep, ServedInit, ServedStep, PTL DEF Spec

-----------------------------------------------------------------------------
(* Type correctness.                                                       *)

\* What a command to the controller leaves of the radio's type.
LEMMA RadioType ==
    ASSUME TypeOK, disable_le_scan \/ SetScanEnable(FALSE) \/ CommandDone(TRUE)
                     \/ CommandFails(TRUE) \/ UNCHANGED radio
    PROVE  scanning' \in BOOLEAN /\ excused' \in BOOLEAN
BY DEF TypeOK, disable_le_scan, SetScanEnable, CommandDone, CommandFails, radio

\* An event leaves a socket's inbox at its head and enters at its end.
LEMMA InboxType ==
    ASSUME NEW q \in Seq(HciEvent), NEW e \in HciEvent
    PROVE  /\ Append(q, e) \in Seq(HciEvent)
           /\ q # <<>> => Tail(q) \in Seq(HciEvent)
OBVIOUS

LEMMA TypeByCall ==
    ASSUME TypeOK, Call
    PROVE  TypeOK'
<1>1. CASE InitNoAdapter
  BY <1>1 DEF TypeOK, InitNoAdapter, fdvars, scan, radio, Result
<1>2. CASE InitOpenFails
  BY <1>2 DEF TypeOK, InitOpenFails, Overwritten, scan, radio, Result
<1>3. CASE InitOpens
  <2>1. inits' \in 0..MaxInits /\ inits' \in Fds
    BY <1>3, ScannerAssumption DEF TypeOK, InitOpens, Fds
  <2> QED
    BY <1>3, <2>1 DEF TypeOK, InitOpens, Overwritten, scan, radio, Result
<1>4. CASE StartScan
  <2>1. scanning' \in BOOLEAN /\ excused' \in BOOLEAN
    BY <1>4, RadioType DEF StartScan
  <2>2. pc' \in AppPc /\ result' \in Result /\ refused' \in BOOLEAN
    BY <1>4 DEF TypeOK, StartScan, Result, AppPc
  <2>3. UNCHANGED <<running, fdvars, active, scan, inbox, events>>
    BY <1>4 DEF StartScan
  <2> QED
    BY <2>1, <2>2, <2>3 DEF TypeOK, fdvars, scan
<1>5. CASE StopScan
  BY <1>5 DEF TypeOK, StopScan, fdvars, scan, radio, AppPc
<1>6. CASE Destructor
  BY <1>6 DEF TypeOK, Destructor, fdvars, scan, radio, AppPc
<1> QED
  BY <1>1, <1>2, <1>3, <1>4, <1>5, <1>6 DEF Call, init_impl

LEMMA TypeByContinue ==
    ASSUME TypeOK, Continue
    PROVE  TypeOK'
<1>1. CASE SetScanParameters
  BY <1>1 DEF TypeOK, SetScanParameters, fdvars, scan, radio, AppPc, Result
<1>2. CASE EnableScan
  <2>1. scanning' \in BOOLEAN /\ excused' \in BOOLEAN
    BY <1>2, RadioType DEF EnableScan
  <2> QED
    BY <1>2, <2>1 DEF TypeOK, EnableScan, fdvars, scan, AppPc, Result
<1>3. CASE StoreRunning
  BY <1>3 DEF TypeOK, StoreRunning, fdvars, radio, AppPc
<1>4. CASE CreateThread
  <2>1. /\ pc' \in AppPc /\ result' \in Result /\ thread' \in ThreadPc
        /\ active' \in BOOLEAN /\ refused' \in BOOLEAN
    BY <1>4, Zenon DEF TypeOK, CreateThread, AppPc, ThreadPc, Result
  <2>2. UNCHANGED <<running, fdvars, reading, late, inbox, events, radio>>
    BY <1>4 DEF CreateThread
  <2> QED
    BY <2>1, <2>2 DEF TypeOK, fdvars, radio
<1>5. CASE UndoRunning
  BY <1>5 DEF TypeOK, UndoRunning, fdvars, scan, radio, AppPc
<1>6. CASE UndoScan
  <2>1. scanning' \in BOOLEAN /\ excused' \in BOOLEAN
    BY <1>6, RadioType DEF UndoScan
  <2> QED
    BY <1>6, <2>1 DEF TypeOK, UndoScan, fdvars, scan, AppPc, Result
<1>7. CASE StopDisables \/ DestructorDisables
  <2>1. scanning' \in BOOLEAN /\ excused' \in BOOLEAN
    BY <1>7, RadioType DEF StopDisables, DestructorDisables
  <2> QED
    BY <1>7, <2>1 DEF TypeOK, StopDisables, DestructorDisables, fdvars, scan, AppPc
<1>8. CASE DestructorCloses
  BY <1>8 DEF TypeOK, DestructorCloses, scan, radio, AppPc
<1>9. CASE Join
  BY <1>9 DEF TypeOK, Join, fdvars, scan, radio, AppPc
<1> QED
  BY <1>1, <1>2, <1>3, <1>4, <1>5, <1>6, <1>7, <1>8, <1>9 DEF Continue

LEMMA TypeByOthers ==
    ASSUME TypeOK, scan_loop \/ environment \/ UNCHANGED vars
    PROVE  TypeOK'
<1>1. CASE CheckRunning
  BY <1>1 DEF TypeOK, CheckRunning, app, fdvars, radio, ThreadPc
<1>2. CASE BeginRead
  BY <1>2 DEF TypeOK, BeginRead, app, fdvars, radio, ThreadPc
<1>3. CASE ReadEvent
  <2>1. reading \in Fds => Tail(inbox[reading]) \in Seq(HciEvent)
    BY <1>3, InboxType DEF TypeOK, ReadEvent, HciEvent
  <2>2. inbox' \in [Fds -> Seq(HciEvent)]
    BY <1>3, <2>1 DEF TypeOK, ReadEvent
  <2> QED
    BY <1>3, <2>2 DEF TypeOK, ReadEvent, app, fdvars, radio, ThreadPc
<1>4. CASE DispatchReport
  BY <1>4 DEF TypeOK, DispatchReport, app, fdvars, radio, ThreadPc
<1>5. ASSUME NEW e \in HciEvent, Raise(e)
      PROVE  TypeOK'
  <2>1. inbox' \in [Fds -> Seq(HciEvent)]
    BY <1>5, InboxType DEF TypeOK, Raise
  <2>2. events' \in 0..MaxEvents
    BY <1>5, ScannerAssumption DEF TypeOK, Raise
  <2> QED
    BY <1>5, <2>1, <2>2 DEF TypeOK, Raise, app, fdvars, scan, radio
<1>6. CASE SwallowEvent
  <2>1. hci_fd \in Fds /\ inbox[hci_fd] \in Seq(HciEvent) /\ inbox[hci_fd] # <<>>
    BY <1>6 DEF TypeOK, SwallowEvent
  <2>2. Tail(inbox[hci_fd]) \in Seq(HciEvent)
    BY <2>1, InboxType DEF HciEvent
  <2>3. inbox' \in [Fds -> Seq(HciEvent)]
    BY <1>6, <2>1, <2>2 DEF TypeOK, SwallowEvent
  <2> QED
    BY <1>6, <2>3 DEF TypeOK, SwallowEvent, app, fdvars, scan, radio
<1>7. CASE OthersScan
  BY <1>7 DEF TypeOK, OthersScan, app, fdvars, scan
<1>8. CASE ReadFails
  BY <1>8 DEF TypeOK, ReadFails, app, fdvars, radio, ThreadPc
<1>9. CASE UNCHANGED vars
  BY <1>9 DEF TypeOK, vars, app, fdvars, scan, radio
<1> QED
  BY <1>1, <1>2, <1>3, <1>4, <1>5, <1>6, <1>7, <1>8, <1>9
  DEF scan_loop, environment, AdvertisingReport, OtherEvent, HciEvent

LEMMA TypeInit == Init => TypeOK
<1> SUFFICES ASSUME Init  PROVE TypeOK
  OBVIOUS
<1>1. inbox \in [Fds -> Seq(HciEvent)]
  BY DEF Init
<1>2. scanning \in BOOLEAN /\ excused \in BOOLEAN
  BY DEF Init
<1>3. running \in BOOLEAN /\ active \in BOOLEAN /\ refused \in BOOLEAN
  BY DEF Init
<1>4. inits \in 0..MaxInits /\ events \in 0..MaxEvents /\ late \in Nat
  BY ScannerAssumption DEF Init
<1>5. /\ pc \in AppPc /\ result \in Result /\ thread \in ThreadPc
      /\ hci_fd \in open \cup {NoFd} /\ reading \in Fds \cup {NoFd}
      /\ open \subseteq Fds /\ lost \subseteq Fds
  BY DEF Init, AppPc, Result, ThreadPc
<1> QED
  BY <1>1, <1>2, <1>3, <1>4, <1>5 DEF TypeOK

LEMMA TypeStep ==
    ASSUME TypeOK, [Next]_vars
    PROVE  TypeOK'
BY TypeByCall, TypeByContinue, TypeByOthers DEF Next

\* The scanner's state keeps its type, whatever the application calls, in any
\* order, and whatever the controller answers.
THEOREM ScannerTypeCorrect == Spec => []TypeOK
BY TypeInit, TypeStep, PTL DEF Spec

-----------------------------------------------------------------------------
(* What is left when the destructor has returned.  The sockets that exist  *)
(* are the one hci_fd_ names and those init() overwrote, never both, since *)
(* descriptors are not handed out twice; and until the join the scan       *)
(* thread is alive only while scan_thread_ is active.                      *)

Named == IF hci_fd = NoFd THEN {} ELSE {hci_fd}

SocketsInv ==
    /\ open = lost \cup Named
    /\ hci_fd \notin lost
    /\ hci_fd <= inits
    /\ \A f \in lost : f <= inits
    /\ pc \in {"join", "destroyed"} => hci_fd = NoFd
    /\ ~active => ~Alive

LEMMA SocketsInit == Init => SocketsInv
BY DEF Init, SocketsInv, Named, NoFd, Alive

\* Neither the sockets nor the scan thread's existence are touched.
LEMMA SocketsFrame ==
    ASSUME SocketsInv, UNCHANGED fdvars,
           pc' \in {"join", "destroyed"} => pc \in {"join", "destroyed"},
           ~active' => ~Alive'
    PROVE  SocketsInv'
BY DEF SocketsInv, Named, fdvars

LEMMA SocketsByApplication ==
    ASSUME TypeOK, SocketsInv, Call \/ Continue
    PROVE  SocketsInv'
<1>1. CASE InitOpenFails
  <2>1. /\ hci_fd' = NoFd /\ lost' = lost \cup Named /\ open' = open /\ inits' = inits
        /\ pc' = pc /\ active' = active /\ thread' = thread
    BY <1>1 DEF InitOpenFails, Overwritten, Named, scan
  <2>2. \A f \in lost' : f # NoFd
    BY <2>1 DEF TypeOK, Named, Fds, NoFd
  <2>3. hci_fd' <= inits' /\ \A f \in lost' : f <= inits'
    BY <2>1, ScannerAssumption DEF TypeOK, SocketsInv, Named, NoFd
  <2> QED
    BY <2>1, <2>2, <2>3 DEF SocketsInv, Named, Alive
<1>2. CASE InitOpens
  <2>1. /\ hci_fd' = inits + 1 /\ inits' = inits + 1
        /\ lost' = lost \cup Named /\ open' = open \cup {inits + 1}
        /\ pc' = pc /\ active' = active /\ thread' = thread /\ pc = "idle"
    BY <1>2 DEF InitOpens, Overwritten, Named, scan, Idle
  <2>2. inits \in Nat /\ hci_fd \in Nat /\ lost \subseteq Nat
    BY DEF TypeOK, Fds, NoFd
  <2>3. hci_fd' # NoFd
    BY <2>1, <2>2 DEF NoFd
  <2>4. \A f \in lost' : f \in Nat /\ f <= inits
    BY <2>1, <2>2 DEF SocketsInv, Named
  <2>5. hci_fd' \notin lost' /\ \A f \in lost' : f <= inits'
    BY <2>1, <2>2, <2>4
  <2>6. open' = lost' \cup {hci_fd'}
    BY <2>1 DEF SocketsInv
  <2>7. hci_fd' <= inits'
    BY <2>1, <2>2
  <2> QED
    BY <2>1, <2>3, <2>5, <2>6, <2>7 DEF SocketsInv, Named, Alive
<1>3. CASE DestructorCloses
  <2>1. /\ open' = open \ {hci_fd} /\ hci_fd' = NoFd /\ lost' = lost /\ inits' = inits
        /\ active' = active /\ thread' = thread
    BY <1>3 DEF DestructorCloses, scan
  <2>2. NoFd \notin lost /\ NoFd <= inits
    BY DEF TypeOK, Fds, NoFd
  <2> QED
    BY <2>1, <2>2 DEF SocketsInv, Named, Alive
<1>4. CASE Join
  BY <1>4, SocketsFrame DEF SocketsInv, Join, Alive, scan
<1>5. CASE CreateThread
  BY <1>5, SocketsFrame DEF SocketsInv, CreateThread, Alive
<1>6. CASE InitNoAdapter \/ StartScan \/ StopScan \/ Destructor
  BY <1>6, SocketsFrame
  DEF SocketsInv, InitNoAdapter, StartScan, StopScan, Destructor, Alive, scan
<1>7. CASE SetScanParameters \/ EnableScan \/ StoreRunning \/ UndoRunning
  BY <1>7, SocketsFrame
  DEF SocketsInv, SetScanParameters, EnableScan, StoreRunning, UndoRunning, Alive, scan
<1>8. CASE UndoScan \/ StopDisables \/ DestructorDisables
  BY <1>8, SocketsFrame
  DEF SocketsInv, UndoScan, StopDisables, DestructorDisables, Alive, scan
<1> QED
  BY <1>1, <1>2, <1>3, <1>4, <1>5, <1>6, <1>7, <1>8 DEF Call, Continue, init_impl

LEMMA SocketsByOthers ==
    ASSUME SocketsInv, scan_loop \/ environment \/ UNCHANGED vars
    PROVE  SocketsInv'
<1>1. CASE scan_loop
  BY <1>1, SocketsFrame
  DEF SocketsInv, scan_loop, CheckRunning, BeginRead, ReadEvent, DispatchReport, Alive, app
<1>2. CASE environment
  BY <1>2, SocketsFrame
  DEF SocketsInv, environment, AdvertisingReport, OtherEvent, Raise, SwallowEvent,
      OthersScan, ReadFails, Alive, app, scan
<1>3. CASE UNCHANGED vars
  BY <1>3, SocketsFrame DEF SocketsInv, vars, Alive, app, scan
<1> QED
  BY <1>1, <1>2, <1>3

LEMMA SocketsStep ==
    ASSUME TypeOK, SocketsInv, [Next]_vars
    PROVE  SocketsInv'
BY SocketsByApplication, SocketsByOthers DEF Next

\* Only the join ends the object's life, after which nothing is active.
DestroyedInv == pc = "destroyed" => ~active

LEMMA DestroyedStep ==
    ASSUME DestroyedInv, [Next]_vars
    PROVE  DestroyedInv'
<1>1. CASE Call
  BY <1>1 DEF DestroyedInv, Call, init_impl, InitNoAdapter, InitOpenFails, InitOpens,
              StartScan, StopScan, Destructor, Idle
<1>2. CASE Continue
  BY <1>2 DEF DestroyedInv, Continue, SetScanParameters, EnableScan, StoreRunning,
              CreateThread, UndoRunning, UndoScan, StopDisables, DestructorDisables,
              DestructorCloses, Join
<1>3. CASE scan_loop \/ environment \/ UNCHANGED vars
  BY <1>3 DEF DestroyedInv, scan_loop, CheckRunning, BeginRead, ReadEvent,
              DispatchReport, environment, AdvertisingReport, OtherEvent, Raise,
              SwallowEvent, OthersScan, ReadFails, app, vars
<1> QED
  BY <1>1, <1>2, <1>3 DEF Next

\* A destroyed scanner leaves no thread behind that could touch it, and no open
\* socket but those that repeated init() calls lost, for any number of init,
\* start_scan and stop_scan calls before.
THEOREM DestructionCompletes == Spec => []DestructionComplete
<1>1. Init => DestroyedInv
  BY DEF Init, DestroyedInv
<1>2. ASSUME TypeOK, SocketsInv, DestroyedInv  PROVE DestructionComplete
  BY <1>2 DEF TypeOK, SocketsInv, DestroyedInv, DestructionComplete, Alive, Named
<1> QED
  BY <1>1, <1>2, TypeInit, TypeStep, SocketsInit, SocketsStep, DestroyedStep, PTL DEF Spec

-----------------------------------------------------------------------------
(* Who may leave the controller scanning.  Between calls a scanner that    *)
(* does not run has told the controller to stop, because each path out of  *)
(* the running state passes through a command, and the command has a       *)
(* socket to go through unless a repeated init() lost it.                  *)

Commanding == {"parameters", "enable", "store", "undo_scan", "stop_scan", "dtor_scan"}

QuietInv ==
    lost = {} =>
        /\ running \/ pc \in Commanding => hci_fd # NoFd
        /\ scanning /\ ~excused =>
             running \/ pc \in {"store", "undo_scan", "stop_scan", "dtor_scan"}

LEMMA QuietInit == Init => QuietInv
BY DEF Init, QuietInv, Commanding

\* The command to stop, through a socket that exists, leaves the controller
\* silent or its scanning excused.
LEMMA DisableQuiets ==
    ASSUME hci_fd # NoFd, disable_le_scan
    PROVE  scanning' => excused'
BY DEF disable_le_scan, SetScanEnable, CommandDone, CommandFails

LEMMA QuietByCall ==
    ASSUME TypeOK, ServedInv, QuietInv, Call
    PROVE  QuietInv'
<1>1. CASE InitNoAdapter
  BY <1>1 DEF QuietInv, InitNoAdapter, fdvars, radio
<1>2. CASE InitOpenFails \/ InitOpens
  <2>1. /\ lost' = Overwritten /\ UNCHANGED <<running, pc, scanning, excused>>
        /\ pc = "idle"
    BY <1>2 DEF InitOpenFails, InitOpens, radio, Idle
  <2>2. lost' = {} => hci_fd = NoFd /\ lost = {}
    BY <2>1 DEF Overwritten
  <2>3. lost' = {} => ~running
    BY <2>2 DEF QuietInv
  <2> QED
    BY <2>1, <2>2, <2>3 DEF QuietInv, Commanding
<1>3. CASE StartScan
  <2>1. lost' = lost /\ hci_fd' = hci_fd /\ running' = running /\ pc = "idle"
    BY <1>3 DEF StartScan, fdvars, Idle
  <2>2. CASE UNCHANGED <<pc, radio>>
    BY <2>1, <2>2 DEF QuietInv, radio
  <2>3. CASE hci_fd # NoFd /\ ~running /\ SetScanEnable(FALSE) /\ pc' = "parameters"
    <3>1. scanning' => excused'
      BY <2>3 DEF SetScanEnable, CommandDone, CommandFails
    <3> QED  BY <2>1, <2>3, <3>1 DEF QuietInv
  <2> QED
    BY <1>3, <2>2, <2>3 DEF StartScan
<1>4. CASE StopScan
  BY <1>4 DEF QuietInv, StopScan, fdvars, radio, Idle, Commanding
<1>5. CASE Destructor
  BY <1>5 DEF QuietInv, Destructor, fdvars, radio, Idle, Commanding
<1> QED
  BY <1>1, <1>2, <1>3, <1>4, <1>5 DEF Call, init_impl

LEMMA QuietByContinue ==
    ASSUME ServedInv, QuietInv, Continue
    PROVE  QuietInv'
<1>1. CASE SetScanParameters
  BY <1>1 DEF QuietInv, SetScanParameters, fdvars, radio, Commanding
<1>2. CASE EnableScan
  BY <1>2 DEF QuietInv, EnableScan, fdvars, Commanding, CommandDone, CommandFails
<1>3. CASE StoreRunning
  BY <1>3 DEF QuietInv, StoreRunning, fdvars, radio, Commanding
<1>4. CASE CreateThread
  BY <1>4 DEF QuietInv, ServedInv, CreateThread, fdvars, radio, Commanding
<1>5. CASE UndoRunning
  BY <1>5 DEF QuietInv, ServedInv, UndoRunning, fdvars, radio, Commanding
<1>6. CASE UndoScan \/ StopDisables \/ DestructorDisables
  <2>1. /\ lost' = lost /\ hci_fd' = hci_fd /\ running' = running
        /\ disable_le_scan /\ pc' \in {"idle", "dtor_close"}
        /\ pc \in Commanding
    BY <1>6 DEF UndoScan, StopDisables, DestructorDisables, fdvars, Commanding
  <2>2. lost = {} => (scanning' => excused')
    BY <2>1, DisableQuiets DEF QuietInv
  <2> QED
    BY <2>1, <2>2 DEF QuietInv, Commanding
<1>7. CASE DestructorCloses \/ Join
  BY <1>7 DEF QuietInv, ServedInv, DestructorCloses, Join, fdvars, radio, Commanding
<1> QED
  BY <1>1, <1>2, <1>3, <1>4, <1>5, <1>6, <1>7 DEF Continue

LEMMA QuietByOthers ==
    ASSUME QuietInv, scan_loop \/ environment \/ UNCHANGED vars
    PROVE  QuietInv'
<1>1. CASE scan_loop
  BY <1>1 DEF QuietInv, scan_loop, CheckRunning, BeginRead, ReadEvent, DispatchReport,
              app, fdvars, radio
<1>2. CASE OthersScan
  BY <1>2 DEF QuietInv, OthersScan, app, fdvars
<1>3. CASE AdvertisingReport \/ OtherEvent \/ SwallowEvent \/ ReadFails
  BY <1>3 DEF QuietInv, AdvertisingReport, OtherEvent, Raise, SwallowEvent, ReadFails,
              app, fdvars, radio
<1>4. CASE UNCHANGED vars
  BY <1>4 DEF QuietInv, vars, app, fdvars, radio
<1> QED
  BY <1>1, <1>2, <1>3, <1>4 DEF environment

LEMMA QuietStep ==
    ASSUME TypeOK, ServedInv, QuietInv, [Next]_vars
    PROVE  QuietInv'
BY QuietByCall, QuietByContinue, QuietByOthers DEF Next

\* However its steps fail and interleave, no call leaves the controller scanning
\* for a scanner that is not running, unless a command failed, another process
\* wants the scan, or a repeated init() lost the socket.
THEOREM StoppedQuiet == Spec => []StoppedIsQuiet
<1>1. QuietInv => StoppedIsQuiet
  BY DEF QuietInv, StoppedIsQuiet, Idle
<1> QED
  BY <1>1, TypeInit, TypeStep, ServedInit, ServedStep, QuietInit, QuietStep, PTL DEF Spec

=============================================================================
