------------------------- MODULE MessageQueueProofs -------------------------
(***************************************************************************)
(* Timed calls of the message queue, what processes leave behind and what  *)
(* chains of calls tell, for every clock, timeout, program and number of   *)
(* objects and threads.                                                    *)
(***************************************************************************)
EXTENDS MessageQueue, SequenceTheorems, TLAPS

-----------------------------------------------------------------------------
(* ms_to_timespec.                                                         *)

\* A number is its thousands and its rest.
LEMMA Thousands ==
    ASSUME NEW n \in Nat
    PROVE  /\ n \div 1000 \in Nat /\ n % 1000 \in 0..999
           /\ n = 1000 * (n \div 1000) + (n % 1000)
BY SMT

\* A bound of nanoseconds, kept out of the provers' sight as a number.
LEMMA MaxNsec ==
    /\ k_max_nsec \in Nat
    /\ \A n \in Nat : n <= k_max_nsec <=> n < 1000000000
BY SMT DEF k_max_nsec

LEMMA FromTimespec ==
    ASSUME NEW ts \in Timespec
    PROVE  ts.tv_sec \in 0..MaxSec /\ ts.tv_nsec \in Nat /\ ts.tv_nsec < 1000000000
BY MaxNsec, SMT DEF Timespec

LEMMA InTimespec ==
    ASSUME NEW sec \in 0..MaxSec, NEW nsec \in Nat, nsec < 1000000000
    PROVE  [tv_sec |-> sec, tv_nsec |-> nsec] \in Timespec
BY MaxNsec, SMT DEF Timespec

\* Quotient and rest of nanoseconds put together from milliseconds and less.
LEMMA MillionsOf ==
    ASSUME NEW a \in 0..999, NEW b \in Nat, b < 1000000
    PROVE  /\ a * 1000000 + b \in Nat /\ a * 1000000 + b < 1000000000
           /\ (a * 1000000 + b) \div 1000000 = a /\ (a * 1000000 + b) % 1000000 = b
BY SMT

\* The sum is exact, the carry included, or stops in the clock's last second.
LEMMA DeadlineArithmetic ==
    ASSUME NEW now \in Timespec, NEW ms \in Nat
    PROVE  Exact(now, ms, ms_to_timespec(now, ms))
<1> DEFINE q == ms \div 1000
           m == ms % 1000
           a == now.tv_nsec \div 1000000
           b == now.tv_nsec % 1000000
           room == MaxSec - now.tv_sec
           safe == IF q > room THEN room ELSE q
           ts == ms_to_timespec(now, ms)
<1>1. MaxSec \in Nat /\ now.tv_sec \in 0..MaxSec /\ now.tv_nsec \in Nat /\ now.tv_nsec < 1000000000
  BY FromTimespec, DeadlineAssumption, SMT
<1>2. q \in Nat /\ m \in 0..999 /\ ms = 1000 * q + m
  BY Thousands, SMT
<1>3. a \in 0..999 /\ b \in Nat /\ b < 1000000 /\ now.tv_nsec = 1000000 * a + b
  <2> DEFINE n == now.tv_nsec
  <2> SUFFICES /\ n \div 1000000 \in 0..999
               /\ n % 1000000 \in Nat /\ n % 1000000 < 1000000
               /\ n = 1000000 * (n \div 1000000) + (n % 1000000)
    BY SMT
  <2>1. n \in Nat /\ n < 1000000000
    BY <1>1, SMT
  <2> HIDE DEF n
  <2> QED
    BY <2>1, SMT
<1>4. ts = IF room <= 0 THEN [tv_sec |-> MaxSec, tv_nsec |-> 999999999]
           ELSE Carry(now.tv_sec + safe, now.tv_nsec + m * 1000000)
  BY SMT DEF ms_to_timespec
<1>5. Millis(now) = now.tv_sec * 1000 + a /\ Rest(now) = b
  BY SMT DEF Millis, Rest
<1> HIDE DEF q, m, a, b, ts
<1>6. CASE room <= 0
  <2>1. now.tv_sec = MaxSec /\ ts = [tv_sec |-> MaxSec, tv_nsec |-> 999999999]
    BY <1>1, <1>4, <1>6, SMT
  <2>2. ts \in Timespec /\ ts.tv_sec = MaxSec /\ ts.tv_nsec >= now.tv_nsec
    BY InTimespec, <1>1, <2>1, SMT
  <2>3. ~(Millis(now) + ms < MaxSec * 1000)
    BY <1>1, <1>2, <1>3, <1>5, <2>1, SMT
  <2> QED
    BY <2>2, <2>3, SMT DEF Exact, ts
<1>7. CASE ~(room <= 0) /\ a + m <= 999
  <2> DEFINE sec == now.tv_sec + safe
             nsec == (a + m) * 1000000 + b
  <2>1. sec \in 0..MaxSec /\ now.tv_sec # MaxSec
        /\ (sec < MaxSec => safe = q)
    BY <1>1, <1>2, <1>7, SMT
  <2>2. a + m \in 0..999
    BY <1>2, <1>3, <1>7, SMT
  <2>3. nsec \in Nat /\ nsec < 1000000000 /\ nsec \div 1000000 = a + m /\ nsec % 1000000 = b
    <3> DEFINE c == a + m
    <3>1. c \in 0..999 /\ b \in Nat /\ b < 1000000
      BY <1>3, <2>2, SMT
    <3> HIDE DEF c
    <3>2. /\ c * 1000000 + b \in Nat /\ c * 1000000 + b < 1000000000
          /\ (c * 1000000 + b) \div 1000000 = c /\ (c * 1000000 + b) % 1000000 = b
      BY <3>1, MillionsOf, SMT
    <3> QED
      BY <3>2, SMT DEF c
  <2>4. nsec = now.tv_nsec + m * 1000000
    BY <1>2, <1>3, SMT
  <2>5. ts = [tv_sec |-> sec, tv_nsec |-> nsec]
    BY <1>4, <1>7, <2>3, <2>4, SMT DEF Carry
  <2>6. ts \in Timespec /\ ts.tv_sec = sec /\ Millis(ts) = sec * 1000 + (a + m) /\ Rest(ts) = b
    BY InTimespec, <2>1, <2>3, <2>5, SMT DEF Millis, Rest
  <2>7. Millis(now) + ms < MaxSec * 1000 => sec < MaxSec
    BY <1>1, <1>2, <1>3, <1>5, <2>1, SMT
  <2>8. Millis(now) + ms < MaxSec * 1000 =>
           Millis(ts) = Millis(now) + ms /\ Rest(ts) = Rest(now)
    BY <1>1, <1>2, <1>3, <1>5, <2>1, <2>6, <2>7, SMT
  <2>9. Millis(now) + ms >= MaxSec * 1000 => sec = MaxSec
    BY <1>1, <1>2, <1>3, <1>5, <1>7, <2>1, SMT
  <2> QED
    BY <2>1, <2>6, <2>8, <2>9, SMT DEF Exact, ts
<1>8. CASE ~(room <= 0) /\ ~(a + m <= 999)
  <2> DEFINE sec == now.tv_sec + safe
             nsec == (a + m - 1000) * 1000000 + b
  <2>1. sec \in 0..MaxSec /\ now.tv_sec # MaxSec /\ (sec < MaxSec => safe = q)
    BY <1>1, <1>2, <1>8, SMT
  <2>2. a + m - 1000 \in 0..999
    BY <1>2, <1>3, <1>8, SMT
  <2>3. nsec \in Nat /\ nsec < 1000000000 /\ nsec \div 1000000 = a + m - 1000 /\ nsec % 1000000 = b
    <3> DEFINE c == a + m - 1000
    <3>1. c \in 0..999 /\ b \in Nat /\ b < 1000000
      BY <1>3, <2>2, SMT
    <3> HIDE DEF c
    <3>2. /\ c * 1000000 + b \in Nat /\ c * 1000000 + b < 1000000000
          /\ (c * 1000000 + b) \div 1000000 = c /\ (c * 1000000 + b) % 1000000 = b
      BY <3>1, MillionsOf, SMT
    <3> QED
      BY <3>2, SMT DEF c
  <2>4. nsec = now.tv_nsec + m * 1000000 - 1000000000
    BY <1>2, <1>3, SMT
  <2>5. now.tv_nsec + m * 1000000 >= 1000000000 /\ now.tv_nsec + m * 1000000 \in Nat
    BY <1>1, <1>2, <1>3, <1>8, SMT
  <2>6. CASE sec < MaxSec
    <3> HIDE DEF nsec, sec
    <3>1. ts = [tv_sec |-> sec + 1, tv_nsec |-> nsec]
      BY <1>1, <1>2, <1>4, <1>8, <2>1, <2>4, <2>5, <2>6, SMT DEF Carry, sec
    <3>2. /\ ts \in Timespec /\ ts.tv_sec = sec + 1
          /\ Millis(ts) = (sec + 1) * 1000 + (a + m - 1000) /\ Rest(ts) = b
      <4>1. sec + 1 \in 0..MaxSec
        BY <1>1, <2>1, <2>6, SMT
      <4>2. ts \in Timespec
        BY InTimespec, <2>3, <3>1, <4>1, SMT
      <4>3. ts.tv_sec = sec + 1 /\ ts.tv_nsec = nsec
        BY <3>1, SMT
      <4> QED
        BY <2>3, <4>2, <4>3, SMT DEF Millis, Rest
    <3>3. Millis(ts) = Millis(now) + ms /\ Rest(ts) = Rest(now)
      BY <1>1, <1>2, <1>3, <1>5, <2>1, <2>6, <3>2, SMT DEF sec
    <3>4. Millis(now) + ms >= MaxSec * 1000 => ts.tv_sec = MaxSec
      BY <1>1, <1>2, <1>3, <1>5, <2>1, <2>6, <3>2, SMT DEF sec
    <3> QED
      BY <2>1, <3>2, <3>3, <3>4, SMT DEF Exact, ts
  <2>7. CASE ~(sec < MaxSec)
    <3>1. ts = [tv_sec |-> sec, tv_nsec |-> 999999999] /\ sec = MaxSec
      BY <1>1, <1>4, <1>8, <2>1, <2>5, <2>7, SMT DEF Carry
    <3>2. ts \in Timespec /\ ts.tv_sec = MaxSec
      BY InTimespec, <1>1, <3>1, SMT
    <3>3. ~(Millis(now) + ms < MaxSec * 1000)
      BY <1>1, <1>2, <1>3, <1>5, <1>8, <3>1, SMT
    <3> QED
      BY <2>1, <3>2, <3>3, SMT DEF Exact, ts
  <2> QED
    BY <2>6, <2>7, SMT
<1> QED
  BY <1>6, <1>7, <1>8, SMT

-----------------------------------------------------------------------------
(* The inductive invariant.                                                *)

QueueErrors ==
    {"InvalidParameter", "InsufficientMemory", "ResourceLimitExceeded", "Timeout",
     "Interrupted", "QueueFull", "PermissionDenied", "AlreadyExists",
     "AlreadyInitialized", "InvalidQueue", "QueueEmpty", "Unknown"}
Held == QueueErrors \cup {"start", "monostate"}
Handler == [has_value : BOOLEAN, it : Held \cup {"calling"}, logged : Nat]
ChainSet ==
    [object : Objects \cup {NoObject}, program : Seq(StageSet), stages : Seq(StageSet),
     h : Handler, effects : Seq(Int), errors : Nat]
CallSet ==
    [op : {"none", "init", "send", "receive"}, arg : Nat,
     now : Timespec \cup {NoTime}, ts : Timespec \cup {NoTime}]
QueueSet == [capacity : Nat, messages : Seq(Nat)]

QueueTypes ==
    /\ platform \in {"posix", "zephyr"} /\ terminated \in BOOLEAN
    /\ run \in Nat /\ excused \in BOOLEAN /\ stale \in BOOLEAN
    /\ queues \in Seq(QueueSet)
    /\ handle \in [Objects -> 0..Len(queues)] /\ linked \in 0..Len(queues)
    /\ chain \in [Threads -> ChainSet] /\ call \in [Threads -> CallSet]

\* A thread inside a call has an object, and the handler waits for the call.
CallsWithin ==
    \A t \in Threads :
        /\ InCall(t) \/ chain[t].stages # <<>> => chain[t].object \in Objects
        /\ ~InCall(t) => chain[t].h.it # "calling"

\* init() has the object to itself.
InitAlone ==
    \A t \in Threads :
        /\ \A i \in DOMAIN chain[t].stages :
              chain[t].stages[i].op = "init" => Initialises(chain[t].program)
        /\ call[t].op = "init" => Initialises(chain[t].program)
        /\ chain[t].object # NoObject /\ Initialises(chain[t].program) =>
              \A u \in Threads : chain[u].object = chain[t].object => u = t

\* so that a send() or receive() keeps the queue it found.
HoldsQueue ==
    \A t \in Threads :
        call[t].op \in {"send", "receive"} => handle[chain[t].object] # NoQueue

\* Between two processes there are no calls and no descriptors.
NothingOpen ==
    terminated => /\ \A t \in Threads : call[t].op = "none"
                  /\ \A o \in Objects : handle[o] = NoQueue

\* The messages of a queue are of this process.
OfThisRun(q) == \A i \in DOMAIN queues[q].messages : queues[q].messages[i] = run

\* A queue in use holds messages of this process only, unless excused.
Fresh ==
    /\ \A o \in Objects : handle[o] # NoQueue /\ (Zephyr \/ ~excused) => OfThisRun(handle[o])
    /\ linked # NoQueue /\ ~excused => OfThisRun(linked)
    /\ Zephyr => linked = NoQueue

Structure == QueueTypes /\ CallsWithin /\ InitAlone /\ HoldsQueue /\ NothingOpen
QueueInv == Structure /\ Fresh /\ LeftoversExplained /\ DeadlineExact

LEMMA NoCallTyped ==
    /\ NoCall \in CallSet /\ NoCall.op = "none" /\ NoCall.ts = NoTime
    /\ NoChain \in ChainSet /\ NoChain.stages = <<>> /\ NoChain.object = NoObject
    /\ NoChain.h.it # "calling"
<1>1. ErrorHandlerValue("start", 0) \in Handler /\ ErrorHandlerValue("start", 0).it = "start"
  BY DEF ErrorHandlerValue, Handler, Held
<1> QED
  BY <1>1 DEF NoCall, NoChain, CallSet, ChainSet

LEMMA QueueInvInit == Init => QueueInv
<1> SUFFICES ASSUME Init PROVE QueueInv
  OBVIOUS
<1> USE NoCallTyped DEF Init, QueueInit, PlatformInit
<1>1. QueueTypes
  <2>1. Len(queues) = 0 /\ queues \in Seq(QueueSet) /\ NoQueue \in 0..Len(queues)
    BY DEF NoQueue
  <2>2. handle \in [Objects -> 0..Len(queues)] /\ linked \in 0..Len(queues)
    BY <2>1
  <2> QED
    BY <2>1, <2>2 DEF QueueTypes
<1>2. CallsWithin /\ HoldsQueue /\ NothingOpen
  BY DEF CallsWithin, HoldsQueue, NothingOpen, InCall
<1>3. InitAlone
  BY DEF InitAlone
<1>4. Fresh /\ LeftoversExplained /\ DeadlineExact
  BY DEF Fresh, LeftoversExplained, DeadlineExact
<1> QED
  BY <1>1, <1>2, <1>3, <1>4 DEF QueueInv, Structure

\* A handler that was not left waiting for a call.
Handles(h) == h \in Handler /\ h.it # "calling"

LEMMA HandlerMade ==
    ASSUME NEW e \in Held, NEW n \in Nat
    PROVE  /\ Handles(ErrorHandlerError(e, n))
           /\ Handles(ErrorHandlerUnexpected(e, n))
           /\ Handles(ErrorHandlerValue(e, n))
<1>1. e # "calling"
  BY DEF Held, QueueErrors
<1> QED
  BY <1>1 DEF Handles, Handler, ErrorHandlerError, ErrorHandlerUnexpected, ErrorHandlerValue

\* A stage that enters the OS is one of the three calls, and a send or a
\* receive has found a queue.
LEMMA StageEnters ==
    ASSUME NEW o \in Objects, NEW s \in StageSet, NEW h \in Handler, h.it # "calling"
    PROVE  /\ Stage(o, s, h) \in Handler
           /\ Stage(o, s, h).it = "calling" =>
                 s.op = "init" \/ (s.op \in {"send", "receive"} /\ handle[o] # NoQueue)
<1>1. /\ h.it \in Held /\ h.logged \in Nat /\ h.has_value \in BOOLEAN
      /\ \A e \in Held, n \in Nat : /\ Handles(ErrorHandlerError(e, n))
                                   /\ Handles(ErrorHandlerUnexpected(e, n))
                                   /\ Handles(ErrorHandlerValue(e, n))
  BY HandlerMade DEF Handler, ErrorHandlerError, ErrorHandlerUnexpected, ErrorHandlerValue
<1>2. \A n \in Nat : Calling(n) \in Handler
  BY DEF Handler, Calling
<1>7. QueueErrors \subseteq Held /\ {"InvalidParameter", "AlreadyInitialized", "InvalidQueue"} \subseteq QueueErrors
  BY DEF Held, QueueErrors
<1>3. \A n \in Nat : queue_init(o, s.arg, n) \in Handler
  BY <1>1, <1>2, <1>7 DEF queue_init, posix_init_impl, zephyr_init_impl, Handles
<1>4. \A n \in Nat : /\ send_or_receive(o, n) \in Handler
                     /\ send_or_receive(o, n).it = "calling" => handle[o] # NoQueue
  BY <1>1, <1>2, <1>7 DEF send_or_receive, Handles
<1>5. CASE s.via \in {"and_then", "or_else"}
  <2>1. s.op \in {"init", "send", "receive"}
    BY <1>5 DEF StageSet
  <2> DEFINE e == IF s.op = "init" THEN queue_init(o, s.arg, h.logged)
                                   ELSE send_or_receive(o, h.logged)
  <2>2. e \in Handler /\ (e.it = "calling" =>
                 s.op = "init" \/ (s.op \in {"send", "receive"} /\ handle[o] # NoQueue))
    BY <1>1, <1>3, <1>4, <2>1
  <2>3. \/ Stage(o, s, h) = e \/ Stage(o, s, h) = ErrorHandlerUnexpected(h.it, h.logged)
        \/ Stage(o, s, h) = ErrorHandlerValue(h.it, h.logged)
    BY <1>5 DEF Stage, and_then, or_else, error, value
  <2> QED
    BY <1>1, <2>2, <2>3 DEF Handles
<1>6. CASE s.via \in {"transform", "transform_error"}
  <2>1. \/ Stage(o, s, h) = ErrorHandlerError(h.it, h.logged)
        \/ Stage(o, s, h) = ErrorHandlerUnexpected(h.it, h.logged)
        \/ Stage(o, s, h) = ErrorHandlerValue(h.it, h.logged)
    BY <1>6 DEF Stage, transform, transform_error, error, value
  <2> QED
    BY <1>1, <2>1 DEF Handles
<1> QED
  BY <1>5, <1>6 DEF StageSet

-----------------------------------------------------------------------------
(* Steps that leave queues and descriptors alone.                          *)

LEMMA HistoryKept ==
    ASSUME QueueInv, UNCHANGED <<handle, queues, linked, run, excused, stale, platform>>
    PROVE  Fresh' /\ LeftoversExplained'
BY DEF QueueInv, Fresh, LeftoversExplained, OfThisRun, Posix, Zephyr

LEMMA DeadlinesKept ==
    ASSUME DeadlineExact, \A t \in Threads : call'[t] = call[t] \/ call'[t].ts = NoTime
    PROVE  DeadlineExact'
BY DEF DeadlineExact

LEMMA InvKept ==
    ASSUME QueueInv,
           UNCHANGED <<handle, queues, linked, run, excused, stale, platform, terminated,
                       chain, call>>
    PROVE  QueueInv'
<1>1. Structure'
  BY DEF QueueInv, Structure, QueueTypes, CallsWithin, InitAlone, HoldsQueue,
         NothingOpen, InCall
<1> QED
  BY <1>1, HistoryKept, DeadlinesKept DEF QueueInv

\* A call has returned to its chain.
Settled(t) ==
    /\ chain' \in [Threads -> ChainSet] /\ call' \in [Threads -> CallSet]
    /\ \A u \in Threads \ {t} : chain'[u] = chain[u] /\ call'[u] = call[u]
    /\ call'[t] = NoCall /\ chain'[t].h.it # "calling"
    /\ chain'[t].object = chain[t].object /\ chain'[t].program = chain[t].program
    /\ chain'[t].stages = chain[t].stages

LEMMA SettledBySuccess ==
    ASSUME QueueTypes, NEW t \in Threads, InCall(t), Succeeds(t)
    PROVE  Settled(t)
<1>1. chain[t] \in ChainSet /\ call[t].op \in {"init", "send", "receive"}
  BY DEF QueueTypes, InCall, CallSet
<1>2. Handles(ErrorHandlerValue("monostate", chain[t].h.logged))
  BY <1>1, HandlerMade DEF ChainSet, Handler, Held
<1> DEFINE n == Len(chain[t].program) - Len(chain[t].stages)
<1>3. Append(chain[t].effects, n) \in Seq(Int)
  <2>1. n \in Int
    BY <1>1, LenProperties DEF ChainSet
  <2> HIDE DEF n
  <2> QED  BY <1>1, <2>1 DEF ChainSet
<1> DEFINE c == [chain[t] EXCEPT !.h = ErrorHandlerValue("monostate", chain[t].h.logged),
                                 !.effects = Append(chain[t].effects, n)]
<1>4. /\ c \in ChainSet /\ c.h.it # "calling" /\ c.object = chain[t].object
      /\ c.program = chain[t].program /\ c.stages = chain[t].stages
  BY <1>1, <1>2, <1>3 DEF ChainSet, Handles
<1>5. chain' = [chain EXCEPT ![t] = c] /\ call' = [call EXCEPT ![t] = NoCall]
  BY DEF Succeeds, QueueTypes
<1> QED
  BY <1>4, <1>5, NoCallTyped DEF Settled, QueueTypes

LEMMA SettledByFailure ==
    ASSUME QueueTypes, NEW t \in Threads, InCall(t), NEW e \in QueueErrors, Fails(t, e)
    PROVE  Settled(t)
<1>1. chain[t] \in ChainSet
  BY DEF QueueTypes
<1>2. Handles(ErrorHandlerError(e, chain[t].h.logged))
  BY <1>1, HandlerMade DEF ChainSet, Handler, Held
<1>3. chain[t].errors + 1 \in Nat
  BY <1>1 DEF ChainSet
<1> DEFINE h == ErrorHandlerError(e, chain[t].h.logged)
           n == chain[t].errors + 1
           c == [chain[t] EXCEPT !.h = h, !.errors = n]
<1>4. /\ c \in ChainSet /\ c.h.it # "calling" /\ c.object = chain[t].object
      /\ c.program = chain[t].program /\ c.stages = chain[t].stages
  <2> HIDE DEF h, n
  <2> QED
    BY <1>1, <1>2, <1>3 DEF ChainSet, Handles, h, n
<1>5. chain' = [chain EXCEPT ![t] = c] /\ call' = [call EXCEPT ![t] = NoCall]
  BY DEF Fails, QueueTypes
<1> QED
  BY <1>4, <1>5, NoCallTyped DEF Settled, QueueTypes

\* After a call the others keep what they hold, provided their queues stay.
LEMMA SettledStructure ==
    ASSUME Structure, NEW t \in Threads, InCall(t), Settled(t), QueueTypes',
           terminated' = terminated,
           \A u \in Threads \ {t} : call[u].op \in {"send", "receive"} =>
               handle'[chain[u].object] # NoQueue
    PROVE  Structure'
<1>1. ~terminated
  BY DEF Structure, NothingOpen, InCall
<1>2. CallsWithin'
  BY NoCallTyped DEF Structure, CallsWithin, Settled, InCall
<1>3. InitAlone'
  BY NoCallTyped DEF Structure, InitAlone, Settled, Initialises
<1>4. HoldsQueue'
  BY NoCallTyped DEF HoldsQueue, Settled
<1> QED
  BY <1>1, <1>2, <1>3, <1>4 DEF Structure, NothingOpen

LEMMA GivesUpStep ==
    ASSUME QueueInv, NEW t \in Threads, GivesUp(t), UNCHANGED <<platform, result>>
    PROVE  QueueInv'
<1>1. InCall(t)
  BY DEF GivesUp, InCall
<1>2. PICK e \in QueueErrors : Fails(t, e)
  <2>1. posix_gives_up(call[t].arg) \subseteq QueueErrors
    BY DEF posix_gives_up, Mapped, posix_queue_errors, QueueErrors
  <2>2. zephyr_gives_up(call[t].op, call[t].arg) \subseteq QueueErrors
    BY DEF zephyr_gives_up, zephyr_send_impl, zephyr_receive_impl, Mapped,
           zephyr_queue_errors, QueueErrors
  <2> QED
    BY <2>1, <2>2 DEF GivesUp
<1>3. Settled(t)
  BY <1>1, <1>2, SettledByFailure DEF QueueInv, Structure
<1>4. UNCHANGED <<handle, queues, linked, run, excused, stale, terminated>>
  BY DEF GivesUp
<1>5. Structure'
  <2>1. QueueTypes'
    BY <1>3, <1>4 DEF QueueInv, Structure, QueueTypes, Settled
  <2>2. \A u \in Threads : call[u].op \in {"send", "receive"} =>
               handle'[chain[u].object] # NoQueue
    BY <1>4 DEF QueueInv, Structure, HoldsQueue
  <2> QED
    BY <1>1, <1>3, <1>4, <2>1, <2>2, SettledStructure DEF QueueInv
<1>6. DeadlineExact'
  BY <1>3, DeadlinesKept, NoCallTyped DEF QueueInv, Settled
<1> QED
  BY <1>4, <1>5, <1>6, HistoryKept DEF QueueInv

-----------------------------------------------------------------------------
(* Objects, processes and chains.                                          *)

LEMMA DestroyStep ==
    ASSUME QueueInv, NEW o \in Objects, Destroy(o), UNCHANGED <<platform, result>>
    PROVE  QueueInv'
<1>1. /\ UNCHANGED <<queues, run, chain, call, excused, stale, terminated, platform>>
      /\ handle' = [handle EXCEPT ![o] = NoQueue]
      /\ linked' = IF handle[o] # NoQueue THEN NoQueue ELSE linked
      /\ \A t \in Threads : chain[t].object # o
  BY DEF Destroy, Users
<1>2. /\ \A x \in Objects \ {o} : handle'[x] = handle[x]
      /\ handle'[o] = NoQueue
  BY <1>1 DEF QueueInv, Structure, QueueTypes
<1>3. Structure'
  <2>1. QueueTypes'
    <3>1. NoQueue \in 0..Len(queues)
      BY LenProperties DEF QueueInv, Structure, QueueTypes, NoQueue
    <3> QED
      BY <1>1, <3>1 DEF QueueInv, Structure, QueueTypes
  <2>2. HoldsQueue'
    BY <1>1, <1>2 DEF QueueInv, Structure, HoldsQueue, CallsWithin, InCall
  <2>3. NothingOpen'
    BY <1>1, <1>2 DEF QueueInv, Structure, NothingOpen
  <2> QED
    BY <1>1, <2>1, <2>2, <2>3 DEF QueueInv, Structure, CallsWithin, InitAlone, InCall
<1>4. Fresh'
  BY <1>1, <1>2 DEF QueueInv, Fresh, OfThisRun, Zephyr
<1>5. LeftoversExplained'
  BY <1>1, <1>2 DEF QueueInv, LeftoversExplained, Posix
<1>6. DeadlineExact'
  BY <1>1, DeadlinesKept DEF QueueInv
<1> QED
  BY <1>3, <1>4, <1>5, <1>6 DEF QueueInv

\* An end with an open descriptor is an excuse; without one the name is gone.
LEMMA EndsStep ==
    ASSUME QueueInv, Ends, UNCHANGED <<platform, result>>
    PROVE  QueueInv'
<1>1. /\ terminated' = TRUE /\ UNCHANGED <<queues, linked, run, stale, platform>>
      /\ excused' = (excused \/ \E o \in Objects : handle[o] # NoQueue)
      /\ handle' = [o \in Objects |-> NoQueue]
      /\ chain' = [t \in Threads |-> NoChain] /\ call' = [t \in Threads |-> NoCall]
  BY DEF Ends
<1>2. Structure'
  <2>1. QueueTypes'
    <3>1. NoQueue \in 0..Len(queues)
      BY LenProperties DEF QueueInv, Structure, QueueTypes, NoQueue
    <3>2. excused' \in BOOLEAN
      BY <1>1
    <3> QED
      BY <1>1, <3>1, <3>2, NoCallTyped DEF QueueInv, Structure, QueueTypes
  <2>2. CallsWithin' /\ HoldsQueue' /\ NothingOpen'
    BY <1>1, NoCallTyped DEF CallsWithin, HoldsQueue, NothingOpen, InCall
  <2>3. InitAlone'
    BY <1>1, NoCallTyped DEF InitAlone
  <2> QED
    BY <2>1, <2>2, <2>3 DEF Structure
<1>3. Fresh'
  BY <1>1 DEF QueueInv, Fresh, OfThisRun, Zephyr
<1>4. LeftoversExplained'
  BY <1>1 DEF QueueInv, LeftoversExplained, Posix
<1>5. DeadlineExact'
  BY <1>1, DeadlinesKept, NoCallTyped DEF QueueInv
<1> QED
  BY <1>2, <1>3, <1>4, <1>5 DEF QueueInv

LEMMA RestartsStep ==
    ASSUME QueueInv, Restarts, UNCHANGED <<platform, result>>
    PROVE  QueueInv'
<1>1. /\ terminated /\ terminated' = FALSE /\ run' = run + 1
      /\ UNCHANGED <<handle, queues, linked, chain, call, excused, stale, platform>>
  BY DEF Restarts
<1>2. Structure'
  <2>1. QueueTypes'
    <3>1. run' \in Nat
      BY <1>1 DEF QueueInv, Structure, QueueTypes
    <3> QED
      BY <1>1, <3>1 DEF QueueInv, Structure, QueueTypes
  <2> QED
    BY <1>1, <2>1 DEF QueueInv, Structure, CallsWithin, InitAlone, HoldsQueue,
                      NothingOpen, InCall
<1>3. Fresh'
  BY <1>1 DEF QueueInv, Structure, NothingOpen, LeftoversExplained, Fresh, Zephyr
<1>4. LeftoversExplained' /\ DeadlineExact'
  BY <1>1, DeadlinesKept DEF QueueInv, LeftoversExplained, Posix
<1> QED
  BY <1>2, <1>3, <1>4 DEF QueueInv

LEMMA StartStep ==
    ASSUME QueueInv, NEW t \in Threads, NEW o \in Objects, NEW p \in Programs,
           Start(t, o, p), UNCHANGED <<platform, result>>
    PROVE  QueueInv'
<1> DEFINE c == [NoChain EXCEPT !.object = o, !.program = p.stages, !.stages = p.stages]
<1>1. /\ UNCHANGED <<handle, queues, linked, run, excused, stale, terminated, platform, call>>
      /\ chain[t] = NoChain /\ chain' = [chain EXCEPT ![t] = c]
      /\ Initialises(p.stages) => Users(o) = {}
      /\ \A u \in Users(o) : ~Initialises(chain[u].program)
  BY DEF Start
<1>2. p.stages \in Seq(StageSet)
  BY QueueAssumption DEF Program
<1>4. /\ c \in ChainSet /\ c.object = o /\ c.program = p.stages /\ c.stages = p.stages
      /\ c.h = NoChain.h
  BY <1>2, NoCallTyped DEF ChainSet
<1>5. \A i \in DOMAIN p.stages : p.stages[i].op = "init" => Initialises(p.stages)
  BY DEF Initialises
<1> HIDE DEF c
<1>6. chain'[t] = c /\ \A u \in Threads \ {t} : chain'[u] = chain[u]
  BY <1>1 DEF QueueInv, Structure, QueueTypes
<1>7. ~InCall(t)
  BY <1>1, NoCallTyped, QueueAssumption DEF QueueInv, Structure, CallsWithin
<1>8. Structure'
  <2>1. QueueTypes'
    BY <1>1, <1>4 DEF QueueInv, Structure, QueueTypes
  <2>2. CallsWithin'
    BY <1>1, <1>4, <1>6, <1>7, NoCallTyped DEF QueueInv, Structure, CallsWithin, InCall
  <2>3. InitAlone'
    <3>1. ASSUME NEW u \in Threads
          PROVE  /\ \A i \in DOMAIN chain'[u].stages :
                       chain'[u].stages[i].op = "init" => Initialises(chain'[u].program)
                 /\ call'[u].op = "init" => Initialises(chain'[u].program)
      <4>1. CASE u = t
        BY <1>1, <1>4, <1>5, <1>6, <1>7, <4>1 DEF InCall
      <4>2. CASE u # t
        BY <1>1, <1>6, <4>2 DEF QueueInv, Structure, InitAlone
      <4> QED
        BY <4>1, <4>2
    <3>2. ASSUME NEW u \in Threads, NEW v \in Threads, chain'[u].object # NoObject,
                 Initialises(chain'[u].program), chain'[v].object = chain'[u].object
          PROVE  v = u
      <4>1. CASE u = t /\ v # t
        BY <1>1, <1>4, <1>6, <3>2, <4>1 DEF Users
      <4>2. CASE u # t /\ v = t
        BY <1>1, <1>4, <1>6, <3>2, <4>2 DEF Users
      <4>3. CASE u # t /\ v # t
        BY <1>6, <3>2, <4>3 DEF QueueInv, Structure, InitAlone
      <4> QED
        BY <4>1, <4>2, <4>3
    <3> QED
      BY <3>1, <3>2 DEF InitAlone, Initialises
  <2>4. HoldsQueue' /\ NothingOpen'
    BY <1>1, <1>6, <1>7 DEF QueueInv, Structure, HoldsQueue, NothingOpen, InCall
  <2> QED
    BY <2>1, <2>2, <2>3, <2>4 DEF Structure
<1>9. DeadlineExact'
  BY <1>1, DeadlinesKept DEF QueueInv
<1> QED
  BY <1>1, <1>8, <1>9, HistoryKept DEF QueueInv

LEMMA ReturnStep ==
    ASSUME QueueInv, NEW t \in Threads, Return(t), UNCHANGED platform
    PROVE  QueueInv'
<1>1. /\ UNCHANGED <<handle, queues, linked, run, excused, stale, terminated, platform, call>>
      /\ chain' = [chain EXCEPT ![t] = NoChain] /\ ~InCall(t)
  BY DEF Return, Finished
<1>2. chain'[t] = NoChain /\ \A u \in Threads \ {t} : chain'[u] = chain[u]
  BY <1>1 DEF QueueInv, Structure, QueueTypes
<1>3. Structure'
  <2>1. QueueTypes'
    BY <1>1, NoCallTyped DEF QueueInv, Structure, QueueTypes
  <2>2. CallsWithin'
    BY <1>1, <1>2, NoCallTyped DEF QueueInv, Structure, CallsWithin, InCall
  <2>3. InitAlone'
    BY <1>1, <1>2, NoCallTyped DEF QueueInv, Structure, InitAlone, InCall, Initialises
  <2>4. HoldsQueue' /\ NothingOpen'
    BY <1>1, <1>2 DEF QueueInv, Structure, HoldsQueue, NothingOpen, InCall
  <2> QED
    BY <2>1, <2>2, <2>3, <2>4 DEF Structure
<1>4. DeadlineExact'
  BY <1>1, DeadlinesKept DEF QueueInv
<1> QED
  BY <1>1, <1>3, <1>4, HistoryKept DEF QueueInv

\* A call that is entered waits until the exact time.
LEMMA CallEntered ==
    ASSUME NEW s \in StageSet, s.op \in {"init", "send", "receive"}, NEW now \in Timespec,
           NEW timed \in BOOLEAN
    PROVE  LET c == IF timed
                      THEN [op |-> s.op, arg |-> s.arg, now |-> now,
                            ts |-> ms_to_timespec(now, s.arg)]
                      ELSE [NoCall EXCEPT !.op = s.op, !.arg = s.arg]
           IN  /\ c \in CallSet /\ c.op = s.op
               /\ c.ts # NoTime => Exact(c.now, c.arg, c.ts)
<1>1. s.arg \in Nat
  BY DEF StageSet
<1>2. Exact(now, s.arg, ms_to_timespec(now, s.arg))
  BY <1>1, DeadlineArithmetic
<1>3. ms_to_timespec(now, s.arg) \in Timespec
  BY <1>2 DEF Exact
<1>4. CASE timed
  BY <1>1, <1>2, <1>3, <1>4 DEF CallSet
<1>5. CASE ~timed
  BY <1>1, <1>5 DEF CallSet, NoCall
<1> QED
  BY <1>4, <1>5

LEMMA NextStageStep ==
    ASSUME QueueInv, NEW t \in Threads, NextStage(t), UNCHANGED <<platform, result>>
    PROVE  QueueInv'
<1> DEFINE o == chain[t].object
           s == Head(chain[t].stages)
           h == Stage(o, s, chain[t].h)
           n == chain[t].errors + (IF has_value(h) \/ h.it = "calling" THEN 0 ELSE 1)
           c == [chain[t] EXCEPT !.stages = Tail(chain[t].stages), !.h = h, !.errors = n]
<1>1. /\ UNCHANGED <<handle, queues, linked, run, excused, stale, terminated, platform>>
      /\ ~terminated /\ ~InCall(t) /\ chain[t].stages # <<>>
      /\ chain' = [chain EXCEPT ![t] = c]
  BY DEF NextStage, QueueInv, Structure, QueueTypes
<1>2. /\ chain[t] \in ChainSet /\ chain[t].stages \in Seq(StageSet) /\ chain[t].h \in Handler
      /\ chain[t].errors \in Nat /\ o \in Objects /\ chain[t].h.it # "calling"
  BY <1>1 DEF QueueInv, Structure, QueueTypes, CallsWithin, ChainSet
<1>3. s \in StageSet /\ Tail(chain[t].stages) \in Seq(StageSet) /\ s = chain[t].stages[1]
      /\ 1 \in DOMAIN chain[t].stages
      /\ \A i \in DOMAIN Tail(chain[t].stages) :
            i + 1 \in DOMAIN chain[t].stages /\ Tail(chain[t].stages)[i] = chain[t].stages[i + 1]
  BY <1>1, <1>2
<1>4. /\ h \in Handler
      /\ h.it = "calling" =>
            s.op = "init" \/ (s.op \in {"send", "receive"} /\ handle[o] # NoQueue)
  BY <1>2, <1>3, StageEnters
<1>5. n \in Nat
  BY <1>2
<1>6. /\ c \in ChainSet /\ c.object = o /\ c.program = chain[t].program
      /\ c.stages = Tail(chain[t].stages) /\ c.h = h
  <2> HIDE DEF n, h, s, o
  <2> QED
    BY <1>2, <1>3, <1>4, <1>5 DEF ChainSet, o
<1>7. /\ call' \in [Threads -> CallSet]
      /\ \A u \in Threads \ {t} : call'[u] = call[u]
      /\ call'[t].ts # NoTime => Exact(call'[t].now, call'[t].arg, call'[t].ts)
      /\ \/ h.it = "calling" /\ call'[t].op = s.op
         \/ h.it # "calling" /\ call'[t].op = "none"
  <2>1. CASE h.it = "calling"
    <3>1. PICK now \in Clocks :
            call' = [call EXCEPT ![t] =
                    IF Posix /\ s.op # "init" /\ ~Forever(s.arg)
                      THEN [op |-> s.op, arg |-> s.arg, now |-> now,
                            ts |-> ms_to_timespec(now, s.arg)]
                      ELSE [NoCall EXCEPT !.op = s.op, !.arg = s.arg]]
      BY <2>1 DEF NextStage
    <3> DEFINE timed == Posix /\ s.op # "init" /\ ~Forever(s.arg)
               k == IF timed
                      THEN [op |-> s.op, arg |-> s.arg, now |-> now,
                            ts |-> ms_to_timespec(now, s.arg)]
                      ELSE [NoCall EXCEPT !.op = s.op, !.arg = s.arg]
    <3>2. now \in Timespec
      BY QueueAssumption
    <3>3. s.op \in {"init", "send", "receive"}
      BY <1>4, <2>1
    <3>4. timed \in BOOLEAN
      BY DEF Posix, Forever
    <3>5. /\ k \in CallSet /\ k.op = s.op
          /\ k.ts # NoTime => Exact(k.now, k.arg, k.ts)
      <4> HIDE DEF timed, s
      <4> QED
        BY <1>3, <3>2, <3>3, <3>4, CallEntered
    <3>6. call' = [call EXCEPT ![t] = k]
      BY <3>1
    <3> HIDE DEF k
    <3> QED
      BY <2>1, <3>5, <3>6 DEF QueueInv, Structure, QueueTypes
  <2>2. CASE h.it # "calling"
    BY <1>1, <2>2 DEF NextStage, InCall, QueueInv, Structure, QueueTypes, DeadlineExact
  <2> QED
    BY <2>1, <2>2
<1>8. chain'[t] = c /\ \A u \in Threads \ {t} : chain'[u] = chain[u]
  BY <1>1 DEF QueueInv, Structure, QueueTypes
<1> HIDE DEF c, n, h, s, o
<1>9. Structure'
  <2>1. QueueTypes'
    BY <1>1, <1>6, <1>7 DEF QueueInv, Structure, QueueTypes
  <2>2. CallsWithin'
    <3>1. chain'[t].object \in Objects /\ (call'[t].op = "none" => chain'[t].h.it # "calling")
      BY <1>2, <1>4, <1>6, <1>7, <1>8
    <3>2. \A u \in Threads \ {t} : chain'[u] = chain[u] /\ call'[u] = call[u]
      BY <1>7, <1>8
    <3> QED
      BY <3>1, <3>2 DEF QueueInv, Structure, CallsWithin, InCall
  <2>3. InitAlone'
    <3>1. ASSUME NEW u \in Threads
          PROVE  /\ \A i \in DOMAIN chain'[u].stages :
                       chain'[u].stages[i].op = "init" => Initialises(chain'[u].program)
                 /\ call'[u].op = "init" => Initialises(chain'[u].program)
      <4>1. CASE u = t
        <5>1. \A i \in DOMAIN chain[t].stages :
                 chain[t].stages[i].op = "init" => Initialises(chain[t].program)
          BY DEF QueueInv, Structure, InitAlone
        <5>2. s.op = "init" => Initialises(chain[t].program)
          BY <1>3, <5>1
        <5>3. \A i \in DOMAIN c.stages : c.stages[i].op = "init" => Initialises(c.program)
          BY <1>3, <1>6, <5>1
        <5> QED
          BY <1>6, <1>7, <1>8, <4>1, <5>2, <5>3
      <4>2. CASE u # t
        BY <1>7, <1>8, <4>2 DEF QueueInv, Structure, InitAlone
      <4> QED
        BY <4>1, <4>2
    <3>2. \A u \in Threads : chain'[u].object = chain[u].object /\ chain'[u].program = chain[u].program
      BY <1>6, <1>8 DEF o
    <3> QED
      BY <3>1, <3>2 DEF QueueInv, Structure, InitAlone, Initialises
  <2>4. HoldsQueue' /\ NothingOpen'
    BY <1>1, <1>4, <1>6, <1>7, <1>8 DEF QueueInv, Structure, HoldsQueue, NothingOpen
  <2> QED
    BY <2>1, <2>2, <2>3, <2>4 DEF Structure
<1>10. DeadlineExact'
  BY <1>7 DEF QueueInv, DeadlineExact
<1> QED
  BY <1>1, <1>9, <1>10, HistoryKept DEF QueueInv

-----------------------------------------------------------------------------
(* Calls that reach the queue.                                             *)

\* The messages of one queue change.
LEMMA QueueReplaced ==
    ASSUME QueueTypes, NEW q \in 1..Len(queues), NEW m \in Seq(Nat),
           queues' = [queues EXCEPT ![q].messages = m]
    PROVE  /\ queues' \in Seq(QueueSet) /\ Len(queues') = Len(queues)
           /\ queues'[q].messages = m
           /\ \A x \in 1..Len(queues) : x # q => queues'[x] = queues[x]
<1>1. queues \in Seq(QueueSet) /\ queues[q] \in QueueSet
  BY ElementOfSeq DEF QueueTypes
<1> DEFINE new == [queues[q] EXCEPT !.messages = m]
<1>2. new \in QueueSet /\ new.messages = m
  BY <1>1 DEF QueueSet
<1>3. queues' = [queues EXCEPT ![q] = new]
  BY <1>1
<1> HIDE DEF new
<1> QED
  BY <1>1, <1>2, <1>3, ExceptSeq

\* A send() or receive() changes the messages of the queue it holds.
LEMMA TransferStep ==
    ASSUME QueueInv, NEW t \in Threads, call[t].op \in {"send", "receive"}, Succeeds(t),
           NEW m \in Seq(Nat),
           queues' = [queues EXCEPT ![handle[chain[t].object]].messages = m],
           OfThisRun(handle[chain[t].object]) => \A i \in DOMAIN m : m[i] = run,
           UNCHANGED <<handle, linked, run, excused, terminated, platform>>,
           stale' \in BOOLEAN, stale' => excused /\ Posix
    PROVE  QueueInv'
<1> DEFINE q == handle[chain[t].object]
<1>1. InCall(t)
  BY DEF InCall
<1>2. q \in 1..Len(queues)
  <2>1. chain[t].object \in Objects /\ q # NoQueue
    BY <1>1 DEF QueueInv, Structure, CallsWithin, HoldsQueue
  <2> QED
    BY <2>1, LenProperties DEF QueueInv, Structure, QueueTypes, NoQueue
<1>3. /\ queues' \in Seq(QueueSet) /\ Len(queues') = Len(queues)
      /\ queues'[q].messages = m
      /\ \A x \in 1..Len(queues) : x # q => queues'[x] = queues[x]
  <2> HIDE DEF q
  <2> QED
    BY <1>2, QueueReplaced DEF QueueInv, Structure, q
<1>4. Settled(t)
  BY <1>1, SettledBySuccess DEF QueueInv, Structure
<1> HIDE DEF q
<1>5. Structure'
  <2>1. QueueTypes'
    BY <1>3, <1>4 DEF QueueInv, Structure, QueueTypes, Settled
  <2>2. \A u \in Threads : call[u].op \in {"send", "receive"} =>
               handle'[chain[u].object] # NoQueue
    BY DEF QueueInv, Structure, HoldsQueue
  <2> QED
    BY <1>1, <1>4, <2>1, <2>2, SettledStructure DEF QueueInv
<1>6. \A x \in 1..Len(queues) : OfThisRun(x) => OfThisRun(x)'
  BY <1>2, <1>3 DEF OfThisRun, q
<1>7. Fresh'
  <2>1. /\ \A o \in Objects : handle[o] # NoQueue => handle[o] \in 1..Len(queues)
        /\ linked # NoQueue => linked \in 1..Len(queues)
    BY LenProperties DEF QueueInv, Structure, QueueTypes, NoQueue
  <2>2. ASSUME NEW o \in Objects, handle'[o] # NoQueue, Zephyr' \/ ~excused'
        PROVE  OfThisRun(handle[o])'
    BY <1>6, <2>1, <2>2 DEF QueueInv, Fresh, Zephyr, OfThisRun
  <2>3. linked # NoQueue /\ ~excused => OfThisRun(linked)'
    BY <1>6, <2>1 DEF QueueInv, Fresh
  <2> QED
    BY <2>2, <2>3 DEF QueueInv, Fresh, Zephyr
<1>8. LeftoversExplained'
  BY DEF QueueInv, LeftoversExplained, Posix
<1>9. DeadlineExact'
  BY <1>4, DeadlinesKept, NoCallTyped DEF QueueInv, Settled
<1> QED
  BY <1>5, <1>7, <1>8, <1>9 DEF QueueInv

\* What a thread inside send() or receive() works on.
LEMMA HeldQueue ==
    ASSUME QueueInv, NEW t \in Threads, call[t].op \in {"send", "receive"}
    PROVE  /\ handle[chain[t].object] \in 1..Len(queues)
           /\ QueueOf(t).messages \in Seq(Nat)
           /\ Zephyr \/ ~excused => OfThisRun(handle[chain[t].object])
<1>1. chain[t].object \in Objects /\ handle[chain[t].object] # NoQueue
  BY DEF QueueInv, Structure, CallsWithin, HoldsQueue, InCall
<1>2. handle[chain[t].object] \in 1..Len(queues)
  BY <1>1, LenProperties DEF QueueInv, Structure, QueueTypes, NoQueue
<1>3. QueueOf(t) \in QueueSet
  BY <1>2, ElementOfSeq DEF QueueInv, Structure, QueueTypes, QueueOf
<1> QED
  BY <1>1, <1>2, <1>3 DEF QueueSet, QueueInv, Fresh

LEMMA AllOfAppend ==
    ASSUME NEW s \in Seq(Nat), NEW x \in Nat, \A i \in DOMAIN s : s[i] = x
    PROVE  \A i \in DOMAIN Append(s, x) : Append(s, x)[i] = x
<1>1. DOMAIN s = 1..Len(s) /\ DOMAIN Append(s, x) = 1..(Len(s) + 1) /\ Len(s) \in Nat
  OBVIOUS
<1>2. \A i \in 1..(Len(s) + 1) : i = Len(s) + 1 \/ i \in 1..Len(s)
  BY <1>1
<1> QED
  BY <1>1, <1>2

LEMMA AllOfTail ==
    ASSUME NEW s \in Seq(Nat), s # <<>>, NEW x \in Nat, \A i \in DOMAIN s : s[i] = x
    PROVE  Head(s) = x /\ \A i \in DOMAIN Tail(s) : Tail(s)[i] = x
<1>1. Len(s) \in Nat /\ 1 \in DOMAIN s /\ Head(s) = s[1]
  OBVIOUS
<1>2. \A i \in DOMAIN Tail(s) : i + 1 \in DOMAIN s /\ Tail(s)[i] = s[i + 1]
  OBVIOUS
<1> QED
  BY <1>1, <1>2

LEMMA PutStep ==
    ASSUME QueueInv, NEW t \in Threads, Put(t), UNCHANGED <<platform, result>>
    PROVE  QueueInv'
<1> DEFINE q == handle[chain[t].object]
           m == Append(QueueOf(t).messages, run)
<1>1. /\ call[t].op = "send" /\ Succeeds(t)
      /\ queues' = [queues EXCEPT ![q].messages = Append(@, run)]
      /\ UNCHANGED <<handle, linked, run, excused, stale, terminated, platform>>
  BY DEF Put
<1>2. q \in 1..Len(queues) /\ QueueOf(t).messages \in Seq(Nat) /\ run \in Nat
  BY <1>1, HeldQueue DEF QueueInv, Structure, QueueTypes
<1>3. m \in Seq(Nat) /\ queues' = [queues EXCEPT ![q].messages = m]
  BY <1>1, <1>2 DEF QueueOf
<1>4. OfThisRun(q) => \A i \in DOMAIN m : m[i] = run
  <2> SUFFICES ASSUME OfThisRun(q) PROVE \A i \in DOMAIN m : m[i] = run
    OBVIOUS
  <2>1. \A i \in DOMAIN QueueOf(t).messages : QueueOf(t).messages[i] = run
    BY DEF OfThisRun, QueueOf
  <2> QED
    BY <1>2, <2>1, AllOfAppend
<1>5. stale' \in BOOLEAN /\ (stale' => excused /\ Posix)
  BY <1>1 DEF QueueInv, Structure, QueueTypes, LeftoversExplained
<1> HIDE DEF m
<1> QED
  BY <1>1, <1>3, <1>4, <1>5, TransferStep

LEMMA GetStep ==
    ASSUME QueueInv, NEW t \in Threads, Get(t), UNCHANGED <<platform, result>>
    PROVE  QueueInv'
<1> DEFINE q == handle[chain[t].object]
           m == Tail(QueueOf(t).messages)
<1>1. /\ call[t].op = "receive" /\ Succeeds(t) /\ QueueOf(t).messages # <<>>
      /\ queues' = [queues EXCEPT ![q].messages = Tail(@)]
      /\ stale' = (stale \/ Head(QueueOf(t).messages) # run)
      /\ UNCHANGED <<handle, linked, run, excused, terminated, platform>>
  BY DEF Get
<1>2. /\ q \in 1..Len(queues) /\ QueueOf(t).messages \in Seq(Nat) /\ run \in Nat
      /\ Zephyr \/ ~excused => OfThisRun(q)
  BY <1>1, HeldQueue DEF QueueInv, Structure, QueueTypes
<1>3. m \in Seq(Nat) /\ queues' = [queues EXCEPT ![q].messages = m]
  BY <1>1, <1>2 DEF QueueOf
<1>4. OfThisRun(q) => /\ \A i \in DOMAIN m : m[i] = run
                      /\ Head(QueueOf(t).messages) = run
  <2> SUFFICES ASSUME OfThisRun(q)
               PROVE  /\ \A i \in DOMAIN m : m[i] = run
                      /\ Head(QueueOf(t).messages) = run
    OBVIOUS
  <2>1. \A i \in DOMAIN QueueOf(t).messages : QueueOf(t).messages[i] = run
    BY DEF OfThisRun, QueueOf
  <2> QED
    BY <1>1, <1>2, <2>1, AllOfTail
<1>5. stale' \in BOOLEAN /\ (stale' => excused /\ Posix)
  <2>1. stale' \in BOOLEAN
    BY <1>1
  <2>2. platform \in {"posix", "zephyr"} /\ excused \in BOOLEAN /\ (stale => excused /\ Posix)
    BY DEF QueueInv, Structure, QueueTypes, LeftoversExplained
  <2> QED
    BY <1>1, <1>2, <1>4, <2>1, <2>2 DEF Posix, Zephyr
<1> HIDE DEF m
<1> QED
  BY <1>1, <1>3, <1>4, <1>5, TransferStep

\* A new queue is empty, and the others stay.
LEMMA QueueCreated ==
    ASSUME QueueInv, NEW o \in Objects, NEW capacity \in Nat, Creates(o, capacity),
           UNCHANGED run
    PROVE  /\ queues' \in Seq(QueueSet) /\ Len(queues') = Len(queues) + 1
           /\ Len(queues') # NoQueue
           /\ handle' \in [Objects -> 0..Len(queues')]
           /\ handle'[o] = Len(queues')
           /\ \A x \in Objects \ {o} : handle'[x] = handle[x]
           /\ \A q \in 1..Len(queues) : OfThisRun(q) => OfThisRun(q)'
           /\ OfThisRun(Len(queues))'
<1> DEFINE new == [capacity |-> capacity, messages |-> <<>>]
<1>1. queues \in Seq(QueueSet) /\ new \in QueueSet /\ new.messages = <<>>
      /\ queues' = Append(queues, new)
      /\ handle \in [Objects -> 0..Len(queues)]
      /\ handle' = [handle EXCEPT ![o] = Len(queues')]
  BY DEF QueueInv, Structure, QueueTypes, QueueSet, Creates
<1> HIDE DEF new
<1>2. /\ queues' \in Seq(QueueSet) /\ Len(queues) \in Nat /\ Len(queues') = Len(queues) + 1
      /\ queues'[Len(queues')] = new
      /\ \A q \in 1..Len(queues) : queues'[q] = queues[q]
  BY <1>1
<1>3. handle' \in [Objects -> 0..Len(queues')] /\ handle'[o] = Len(queues')
      /\ \A x \in Objects \ {o} : handle'[x] = handle[x]
  <2>1. 0..Len(queues) \subseteq 0..Len(queues') /\ Len(queues') \in 0..Len(queues')
    BY <1>2
  <2> QED
    BY <1>1, <2>1
<1>4. OfThisRun(Len(queues))'
  BY <1>1, <1>2 DEF OfThisRun
<1>5. \A q \in 1..Len(queues) : OfThisRun(q) => OfThisRun(q)'
  BY <1>2 DEF OfThisRun
<1> QED
  BY <1>2, <1>3, <1>4, <1>5 DEF NoQueue

\* What the four ways to open have in common: afterwards the object's
\* descriptor finds messages of this process, or there is none.
LEMMA OpenSettles ==
    ASSUME QueueInv, NEW t \in Threads, call[t].op = "init", Settled(t),
           UNCHANGED <<run, stale, terminated, platform>>,
           queues' \in Seq(QueueSet), Len(queues') >= Len(queues),
           handle' \in [Objects -> 0..Len(queues')], linked' \in 0..Len(queues'),
           excused' \in BOOLEAN, excused => excused',
           \A x \in Objects \ {chain[t].object} : handle'[x] = handle[x],
           \A q \in 1..Len(queues) : OfThisRun(q) => OfThisRun(q)',
           handle'[chain[t].object] # NoQueue /\ (Zephyr \/ ~excused') =>
               OfThisRun(handle[chain[t].object])',
           linked' = linked \/ OfThisRun(linked)', Zephyr => linked' = NoQueue,
           \/ handle'[chain[t].object] # NoQueue
           \/ excused' \/ (linked' = linked /\ handle[chain[t].object] = NoQueue)
    PROVE  QueueInv'
<1> DEFINE o == chain[t].object
<1>1. InCall(t) /\ o \in Objects
  BY DEF InCall, QueueInv, Structure, CallsWithin
<1>2. Structure'
  <2>1. QueueTypes'
    BY DEF QueueInv, Structure, QueueTypes, Settled
  <2>2. \A u \in Threads \ {t} : call[u].op \in {"send", "receive"} =>
               handle'[chain[u].object] # NoQueue
    <3>1. Initialises(chain[t].program) /\ o # NoObject
      BY <1>1, QueueAssumption DEF QueueInv, Structure, InitAlone
    <3>2. \A u \in Threads \ {t} : chain[u].object # o
      BY <3>1 DEF QueueInv, Structure, InitAlone
    <3>3. \A u \in Threads : call[u].op \in {"send", "receive"} =>
              chain[u].object \in Objects /\ handle[chain[u].object] # NoQueue
      BY DEF QueueInv, Structure, HoldsQueue, CallsWithin, InCall
    <3> QED
      BY <3>2, <3>3
  <2> QED
    BY <1>1, <2>1, <2>2, SettledStructure DEF QueueInv
<1>3. /\ \A x \in Objects : handle[x] # NoQueue => handle[x] \in 1..Len(queues)
      /\ linked # NoQueue => linked \in 1..Len(queues)
  BY LenProperties DEF QueueInv, Structure, QueueTypes, NoQueue
<1>4. Fresh'
  <2>1. ASSUME NEW x \in Objects, handle'[x] # NoQueue, Zephyr \/ ~excused'
        PROVE  OfThisRun(handle[x])'
    <3>1. CASE x = o
      <4>1. (chain[t].object)' = x
        BY <3>1 DEF Settled
      <4> QED
        BY <2>1, <3>1, <4>1 DEF OfThisRun
    <3>2. CASE x # o
      <4>1. handle'[x] = handle[x] /\ OfThisRun(handle[x]) /\ handle[x] \in 1..Len(queues)
        BY <1>3, <2>1, <3>2 DEF QueueInv, Fresh
      <4> QED
        BY <4>1 DEF OfThisRun
    <3> QED
      BY <3>1, <3>2
  <2>2. ASSUME linked' # NoQueue, ~excused' PROVE OfThisRun(linked)'
    <3>1. CASE linked' = linked
      <4>1. OfThisRun(linked) /\ linked \in 1..Len(queues)
        BY <1>3, <2>2, <3>1 DEF QueueInv, Fresh
      <4> QED
        BY <3>1, <4>1 DEF OfThisRun
    <3> QED
      BY <3>1
  <2> QED
    BY <2>1, <2>2 DEF Fresh, Zephyr
<1>5. LeftoversExplained'
  <2>1. stale' => excused' /\ Posix'
    BY DEF QueueInv, LeftoversExplained, Posix
  <2>2. ASSUME linked' # NoQueue, ~excused' PROVE \E x \in Objects : handle'[x] # NoQueue
    BY <1>1, <2>2 DEF QueueInv, LeftoversExplained
  <2> QED
    BY <2>1, <2>2 DEF LeftoversExplained
<1>6. DeadlineExact'
  BY DeadlinesKept, NoCallTyped DEF QueueInv, Settled
<1> QED
  BY <1>2, <1>4, <1>5, <1>6 DEF QueueInv

LEMMA OpenStep ==
    ASSUME QueueInv, NEW t \in Threads, Open(t), UNCHANGED <<platform, result>>
    PROVE  QueueInv'
<1> DEFINE o == chain[t].object
<1>1. /\ call[t].op = "init" /\ UNCHANGED <<run, stale, terminated, platform>> /\ InCall(t)
      /\ (Posix /\ posix_open(t, o)) \/
         (Zephyr /\ Creates(o, call[t].arg) /\ Succeeds(t) /\ UNCHANGED <<linked, excused>>)
  BY DEF Open, InCall
<1>2. /\ o \in Objects /\ call[t].arg \in Nat /\ QueueTypes
      /\ excused \in BOOLEAN /\ linked \in 0..Len(queues) /\ Len(queues) \in Nat
      /\ queues \in Seq(QueueSet) /\ handle \in [Objects -> 0..Len(queues)]
  BY <1>1, LenProperties DEF QueueInv, Structure, CallsWithin, QueueTypes, CallSet
<1>3. Posix => ~Zephyr
  BY DEF Posix, Zephyr
<1>4. CASE Creates(o, call[t].arg) /\ Succeeds(t) /\ excused' = excused
           /\ ((linked' = Len(queues') /\ Posix) \/ linked' = linked)
  <2>1. Settled(t)
    BY <1>1, <1>2, <1>4, SettledBySuccess
  <2>2. /\ queues' \in Seq(QueueSet) /\ Len(queues') = Len(queues) + 1
        /\ Len(queues') # NoQueue
        /\ handle' \in [Objects -> 0..Len(queues')]
        /\ handle'[o] = Len(queues')
        /\ \A x \in Objects \ {o} : handle'[x] = handle[x]
        /\ \A q \in 1..Len(queues) : OfThisRun(q) => OfThisRun(q)'
        /\ OfThisRun(Len(queues))'
    <3> HIDE DEF o
    <3> QED
      BY <1>1, <1>2, <1>4, QueueCreated
  <2>3. handle'[o] # NoQueue /\ OfThisRun(handle[o])'
    BY <2>1, <2>2 DEF OfThisRun, Settled
  <2>4. /\ linked' \in 0..Len(queues') /\ Len(queues') >= Len(queues)
        /\ linked' = linked \/ OfThisRun(linked)'
    BY <1>2, <1>4, <2>2 DEF OfThisRun
  <2>5. Zephyr => linked' = NoQueue
    BY <1>3, <1>4 DEF QueueInv, Fresh
  <2> QED
    BY <1>1, <1>2, <1>4, <2>1, <2>2, <2>3, <2>4, <2>5, OpenSettles
<1>5. CASE /\ Posix /\ linked # NoQueue /\ handle' = [handle EXCEPT ![o] = linked]
           /\ Succeeds(t) /\ UNCHANGED <<queues, linked, excused>>
  <2>1. Settled(t)
    BY <1>1, <1>2, <1>5, SettledBySuccess
  <2>2. /\ handle' \in [Objects -> 0..Len(queues')] /\ handle'[o] = linked
        /\ \A x \in Objects \ {o} : handle'[x] = handle[x]
    BY <1>2, <1>5
  <2>3. \A q \in 1..Len(queues) : OfThisRun(q) => OfThisRun(q)'
    BY <1>1, <1>5 DEF OfThisRun
  <2>4. ~excused => OfThisRun(handle[o])'
    BY <1>1, <1>5, <2>1, <2>2 DEF QueueInv, Fresh, OfThisRun, Settled
  <2>5. handle'[o] # NoQueue /\ Len(queues') >= Len(queues) /\ linked' \in 0..Len(queues')
    BY <1>2, <1>5, <2>2
  <2> QED
    BY <1>1, <1>2, <1>3, <1>5, <2>1, <2>2, <2>3, <2>4, <2>5, OpenSettles
<1>6. CASE /\ Posix /\ \E e \in {"EMFILE", "EACCES"} : Fails(t, Mapped(posix_queue_errors, e))
           /\ handle' = [handle EXCEPT ![o] = NoQueue]
           /\ excused' = (excused \/ handle[o] # NoQueue)
           /\ UNCHANGED <<queues, linked>>
  <2>1. Settled(t)
    <3>1. PICK e \in QueueErrors : Fails(t, e)
      BY <1>6 DEF Mapped, posix_queue_errors, QueueErrors
    <3> QED
      BY <1>1, <1>2, <3>1, SettledByFailure
  <2>2. /\ handle' \in [Objects -> 0..Len(queues')] /\ handle'[o] = NoQueue
        /\ \A x \in Objects \ {o} : handle'[x] = handle[x]
    <3>1. NoQueue \in 0..Len(queues)
      BY <1>2 DEF NoQueue
    <3> QED
      BY <1>2, <1>6, <3>1
  <2>3. \A q \in 1..Len(queues) : OfThisRun(q) => OfThisRun(q)'
    BY <1>1, <1>6 DEF OfThisRun
  <2>4. excused' \in BOOLEAN /\ (excused => excused')
        /\ (excused' \/ handle[o] = NoQueue)
    BY <1>6
  <2>5. Len(queues') >= Len(queues) /\ linked' \in 0..Len(queues')
        /\ queues' \in Seq(QueueSet) /\ linked' = linked
    BY <1>2, <1>6
  <2> QED
    BY <1>1, <1>3, <1>6, <2>1, <2>2, <2>3, <2>4, <2>5, OpenSettles
<1> QED
  BY <1>1, <1>4, <1>5, <1>6 DEF posix_open

LEMMA QueueInvStep == QueueInv /\ [Next]_vars => QueueInv'
<1> SUFFICES ASSUME QueueInv, [Next]_vars PROVE QueueInv'
  OBVIOUS
<1>1. CASE UNCHANGED vars
  BY <1>1, InvKept DEF vars, queueVars
<1>2. ASSUME NEW o \in Objects, Construct(o), UNCHANGED <<platform, result>> PROVE QueueInv'
  BY <1>2, InvKept DEF Construct
<1> QED
  BY <1>1, <1>2, DestroyStep, EndsStep, RestartsStep, StartStep, ReturnStep, NextStageStep,
     OpenStep, PutStep, GetStep, GivesUpStep DEF Next

\* Every timed call waits until the time it was asked to wait, whatever the
\* clock, the timeout and the chain it is part of.
THEOREM DeadlinesExact == Spec => []DeadlineExact
<1>1. QueueInv => DeadlineExact
  BY DEF QueueInv
<1> QED
  BY <1>1, QueueInvInit, QueueInvStep, PTL DEF Spec

\* Messages of an earlier process reach a later one only when the earlier was
\* killed with the queue open or lost its descriptor, however many objects
\* share the name, are initialised again or destroyed; a process that ends in
\* order leaves no queue behind.
THEOREM LeftoversAreExplained == Spec => []LeftoversExplained
<1>1. QueueInv => LeftoversExplained
  BY DEF QueueInv
<1> QED
  BY <1>1, QueueInvInit, QueueInvStep, PTL DEF Spec

-----------------------------------------------------------------------------
(* What a chain tells.  n is the number of stages of program p gone        *)
(* through, st the state of the handler, e the stages that took effect.    *)

Listed(e) == {e[i] : i \in DOMAIN e}
State(h) == IF h.it = "calling" THEN "calling" ELSE IF h.has_value THEN "value" ELSE "error"

PipelineSoFar(p, n, st, e) ==
    /\ st = "value" => Listed(e) = {i \in CallsOf(p) : i <= n}
    /\ st = "calling" => Listed(e) = {i \in CallsOf(p) : i < n}
    /\ st = "error" => \E k \in CallsOf(p) : k <= n /\ Listed(e) = {i \in CallsOf(p) : i < k}

AlternativesSoFar(p, n, st, e) ==
    IF st = "value"
      THEN \/ e = <<>> /\ \A i \in CallsOf(p) : i > n
           \/ \E i \in CallsOf(p) : e = <<i>>
      ELSE e = <<>>

Agrees(p, n, st, e) ==
    /\ \A i, k \in DOMAIN e : i < k => e[i] < e[k]
    /\ Listed(e) \subseteq {i \in CallsOf(p) : i <= n}
    /\ st = "calling" => n \in CallsOf(p) /\ n \notin Listed(e)
    /\ Pipeline(p) => PipelineSoFar(p, n, st, e)
    /\ Alternatives(p) => AlternativesSoFar(p, n, st, e)

Reached(c) == Len(c.program) - Len(c.stages)
Told(c) ==
    /\ Len(c.stages) <= Len(c.program)
    /\ \A i \in 1..Len(c.stages) : c.stages[i] = c.program[Reached(c) + i]
    /\ c.h.logged = c.errors
    /\ State(c.h) = "error" => c.errors > 0
    /\ Agrees(c.program, Reached(c), State(c.h), c.effects)

VerdictInv == \A t \in Threads :
    Told(chain[t]) /\ (InCall(t) => chain[t].h.it = "calling")

LEMMA NothingYet == ASSUME NEW p \in Seq(StageSet) PROVE Agrees(p, 0, "value", <<>>)
<1>1. \A i \in CallsOf(p) : i \in Nat /\ i > 0
  BY LenProperties DEF CallsOf
<1>2. Listed(<<>>) = {}
  BY DEF Listed
<1>3. {i \in CallsOf(p) : i <= 0} = {}
  BY <1>1
<1>4. PipelineSoFar(p, 0, "value", <<>>)
  BY <1>2, <1>3 DEF PipelineSoFar
<1>5. AlternativesSoFar(p, 0, "value", <<>>)
  BY <1>1 DEF AlternativesSoFar
<1>6. \A i, k \in DOMAIN <<>> : i < k => <<>>[i] < <<>>[k]
  OBVIOUS
<1> QED
  BY <1>2, <1>4, <1>5, <1>6 DEF Agrees

\* Which handler comes of the next stage.
NextState(via, st, st2) ==
    /\ via = "and_then" => IF st = "value" THEN st2 \in {"calling", "error"} ELSE st2 = "error"
    /\ via = "or_else" => IF st = "error" THEN st2 \in {"calling", "error"} ELSE st2 = "value"
    /\ via \in {"transform", "transform_error"} => st2 = st

LEMMA StageAgrees ==
    ASSUME NEW p \in Seq(StageSet), NEW n \in Nat, n + 1 \in DOMAIN p,
           NEW st \in {"value", "error"}, NEW e \in Seq(Int), Agrees(p, n, st, e),
           NEW st2, NextState(p[n + 1].via, st, st2)
    PROVE  Agrees(p, n + 1, st2, e)
<1> DEFINE C == CallsOf(p)
           s == p[n + 1]
<1>1. C \subseteq Nat
  BY LenProperties DEF CallsOf
<1>2. /\ s \in StageSet
      /\ s.via \in {"and_then", "or_else", "transform", "transform_error"}
      /\ n + 1 \in C <=> s.via \in {"and_then", "or_else"}
  <2>1. s \in StageSet
    BY ElementOfSeq, LenProperties
  <2>2. \A x \in StageSet :
           /\ x.via \in {"and_then", "or_else", "transform", "transform_error"}
           /\ x.op # "keep" <=> x.via \in {"and_then", "or_else"}
    BY DEF StageSet
  <2> QED  BY <2>1, <2>2 DEF CallsOf
<1>3. /\ \A i \in C : i <= n => i <= n + 1
      /\ \A i \in C : i < n + 1 <=> i <= n
      /\ \A i \in C : i <= n + 1 <=> i <= n \/ i = n + 1
      /\ ~(n + 1 <= n)
  BY <1>1
<1>4. Listed(e) \subseteq {i \in C : i <= n}
  BY DEF Agrees
<1>5. Listed(e) \subseteq {i \in C : i <= n + 1} /\ n + 1 \notin Listed(e)
  BY <1>3, <1>4
<1>6. st2 \in {"value", "calling", "error"} /\ (st2 = "calling" => n + 1 \in C)
  BY <1>2 DEF NextState
<1>7. ASSUME Pipeline(p)  PROVE PipelineSoFar(p, n + 1, st2, e)
  <2>1. PipelineSoFar(p, n, st, e) /\ (n + 1 \in C => s.via = "and_then")
    BY <1>7 DEF Agrees, Pipeline
  <2>2. CASE st = "value" /\ n + 1 \in C
    <3>1. st2 \in {"calling", "error"}
      BY <2>1, <2>2 DEF NextState
    <3>2. Listed(e) = {i \in C : i < n + 1}
      BY <1>3, <2>1, <2>2 DEF PipelineSoFar
    <3>3. n + 1 <= n + 1
      OBVIOUS
    <3> QED  BY <2>2, <3>1, <3>2, <3>3 DEF PipelineSoFar
  <2>3. CASE st = "value" /\ n + 1 \notin C
    <3>1. st2 = "value"
      BY <1>2, <2>3 DEF NextState
    <3>2. Listed(e) = {i \in C : i <= n + 1}
      BY <1>3, <2>1, <2>3 DEF PipelineSoFar
    <3> QED  BY <3>1, <3>2 DEF PipelineSoFar
  <2>4. CASE st = "error"
    <3>1. st2 = "error"
      BY <1>2, <2>1, <2>4 DEF NextState
    <3>2. PICK k \in C : k <= n /\ Listed(e) = {i \in C : i < k}
      BY <2>1, <2>4 DEF PipelineSoFar
    <3>3. k <= n + 1
      BY <1>3, <3>2
    <3> QED  BY <3>1, <3>2, <3>3 DEF PipelineSoFar
  <2> QED  BY <2>2, <2>3, <2>4
<1>8. ASSUME Alternatives(p)  PROVE AlternativesSoFar(p, n + 1, st2, e)
  <2>1. AlternativesSoFar(p, n, st, e)
    BY <1>8 DEF Agrees
  <2>2. n + 1 \in C => (s.via = "or_else" <=> \E k \in C : k < n + 1)
    BY <1>8 DEF Alternatives
  <2>3. CASE st = "value" /\ s.via = "and_then"
    <3>1. {i \in C : i <= n} = {}
      BY <1>2, <1>3, <2>2, <2>3
    <3>2. Listed(e) = {}
      BY <1>4, <3>1
    <3>3. e = <<>>
      <4>1. DOMAIN e = {}
        BY <3>2 DEF Listed
      <4>2. Len(e) = 0
        BY <4>1, LenProperties
      <4> QED  BY <4>2, EmptySeq
    <3>4. st2 # "value"
      BY <2>3 DEF NextState
    <3> QED  BY <3>3, <3>4 DEF AlternativesSoFar
  <2>4. CASE st = "value" /\ s.via = "or_else"
    <3>1. PICK k \in C : k <= n
      BY <1>2, <1>3, <2>2, <2>4
    <3>2. ~(k > n)
      BY <1>1, <3>1
    <3>3. \E i \in C : e = <<i>>
      BY <2>1, <2>4, <3>2 DEF AlternativesSoFar
    <3> QED  BY <2>4, <3>3 DEF AlternativesSoFar, NextState
  <2>5. CASE st = "value" /\ s.via \in {"transform", "transform_error"}
    <3>1. st2 = "value" /\ n + 1 \notin C
      BY <1>2, <2>5 DEF NextState
    <3>2. (\A i \in C : i > n) => \A i \in C : i > n + 1
      BY <1>1, <3>1
    <3> QED  BY <2>1, <2>5, <3>1, <3>2 DEF AlternativesSoFar
  <2>6. CASE st = "error"
    <3>1. e = <<>>
      BY <2>1, <2>6 DEF AlternativesSoFar
    <3>2. st2 \in {"calling", "error"}
      BY <1>2, <2>6 DEF NextState
    <3> QED  BY <3>1, <3>2 DEF AlternativesSoFar
  <2> QED  BY <1>2, <2>3, <2>4, <2>5, <2>6
<1> QED
  BY <1>5, <1>6, <1>7, <1>8 DEF Agrees

LEMMA ListedOfAppend ==
    ASSUME NEW e \in Seq(Int), NEW n \in Int
    PROVE  Listed(Append(e, n)) = Listed(e) \cup {n}
<1> DEFINE f == Append(e, n)
           l == Len(e)
<1>1. l \in Nat /\ DOMAIN e = 1..l
  BY LenProperties
<1>2. DOMAIN f = 1..(l + 1) /\ f[l + 1] = n /\ \A i \in 1..l : f[i] = e[i]
  BY <1>1
<1>3. \A i \in 1..(l + 1) : i = l + 1 \/ i \in 1..l
  BY <1>1
<1>4. 1..l \subseteq 1..(l + 1) /\ l + 1 \in 1..(l + 1)
  BY <1>1
<1> HIDE DEF f, l
<1>5. Listed(f) = Listed(e) \cup {n}
  BY <1>1, <1>2, <1>3, <1>4 DEF Listed
<1> QED
  BY <1>5 DEF f

LEMMA CallAgrees ==
    ASSUME NEW p \in Seq(StageSet), NEW n \in Nat, NEW e \in Seq(Int),
           Agrees(p, n, "calling", e)
    PROVE  Agrees(p, n, "value", Append(e, n)) /\ Agrees(p, n, "error", e)
<1> DEFINE C == CallsOf(p)
           f == Append(e, n)
<1>1. C \subseteq Nat
  BY LenProperties DEF CallsOf
<1>2. /\ Listed(e) \subseteq {i \in C : i <= n} /\ n \in C /\ n \notin Listed(e)
      /\ Pipeline(p) => Listed(e) = {i \in C : i < n}
      /\ Alternatives(p) => e = <<>>
      /\ \A i, k \in DOMAIN e : i < k => e[i] < e[k]
  BY DEF Agrees, PipelineSoFar, AlternativesSoFar
<1>3. Listed(f) = Listed(e) \cup {n} /\ n <= n
  BY ListedOfAppend
<1>4. Agrees(p, n, "error", e)
  <2>1. Pipeline(p) => PipelineSoFar(p, n, "error", e)
    BY <1>2, <1>3 DEF PipelineSoFar
  <2>2. Alternatives(p) => AlternativesSoFar(p, n, "error", e)
    BY <1>2 DEF AlternativesSoFar
  <2> QED  BY <1>2, <2>1, <2>2 DEF Agrees
<1>5. \A i, k \in DOMAIN f : i < k => f[i] < f[k]
  <2> DEFINE l == Len(e)
  <2>1. l \in Nat /\ DOMAIN e = 1..l /\ DOMAIN f = 1..(l + 1)
        /\ f[l + 1] = n /\ \A i \in 1..l : f[i] = e[i]
    BY LenProperties
  <2>2. \A i \in 1..l : e[i] < n
    <3>1. \A i \in 1..l : e[i] \in Listed(e)
      BY <2>1 DEF Listed
    <3> QED  BY <1>1, <1>2, <3>1
  <2> HIDE DEF f, l
  <2>3. ASSUME NEW i \in 1..(l + 1), NEW k \in 1..(l + 1), i < k  PROVE f[i] < f[k]
    <3>1. i \in 1..l /\ (k = l + 1 \/ k \in 1..l)
      BY <2>1, <2>3
    <3> QED  BY <1>2, <2>1, <2>2, <2>3, <3>1
  <2> QED  BY <2>1, <2>3
<1>6. Listed(f) \subseteq {i \in C : i <= n}
  BY <1>2, <1>3
<1>7. Pipeline(p) => PipelineSoFar(p, n, "value", f)
  <2>1. {i \in C : i <= n} = {i \in C : i < n} \cup {n}
    BY <1>1, <1>2, <1>3
  <2> HIDE DEF f
  <2> QED  BY <1>2, <1>3, <2>1 DEF PipelineSoFar
<1>8. Alternatives(p) => AlternativesSoFar(p, n, "value", f)
  <2>1. Alternatives(p) => f = <<n>>
    BY <1>2
  <2> QED  BY <1>2, <2>1 DEF AlternativesSoFar
<1> QED
  BY <1>4, <1>5, <1>6, <1>7, <1>8 DEF Agrees

\* Whether a stage calls, succeeds or fails, and what it logs.
LEMMA StageTells ==
    ASSUME NEW o \in Objects, NEW s \in StageSet, NEW h \in Handler, h.it # "calling"
    PROVE  /\ NextState(s.via, State(h), State(Stage(o, s, h)))
           /\ State(Stage(o, s, h)) = "error" => Stage(o, s, h).logged = h.logged + 1
           /\ State(Stage(o, s, h)) # "error" => Stage(o, s, h).logged = h.logged
<1> DEFINE made(g) == /\ State(g) \in {"calling", "error"}
                      /\ State(g) = "error" => g.logged = h.logged + 1
                      /\ State(g) # "error" => g.logged = h.logged
           e == IF s.op = "init" THEN queue_init(o, s.arg, h.logged)
                                 ELSE send_or_receive(o, h.logged)
           g2 == Stage(o, s, h)
<1>1. h.it \in Held /\ h.logged \in Nat /\ h.has_value \in BOOLEAN
  BY DEF Handler
<1>2. \A x \in Held : x # "calling"
  BY DEF Held, QueueErrors
<1>3. ASSUME NEW x \in Held
      PROVE  /\ State(ErrorHandlerError(x, h.logged)) = "error"
             /\ ErrorHandlerError(x, h.logged).logged = h.logged + 1
             /\ State(ErrorHandlerUnexpected(x, h.logged)) = "error"
             /\ ErrorHandlerUnexpected(x, h.logged).logged = h.logged + 1
             /\ State(ErrorHandlerValue(x, h.logged)) = "value"
             /\ ErrorHandlerValue(x, h.logged).logged = h.logged
  BY <1>2, <1>3 DEF State, ErrorHandlerError, ErrorHandlerUnexpected, ErrorHandlerValue
<1>4. State(Calling(h.logged)) = "calling" /\ Calling(h.logged).logged = h.logged
  BY DEF State, Calling
<1>5. /\ "InvalidParameter" \in Held /\ "AlreadyInitialized" \in Held
      /\ "InvalidQueue" \in Held
  BY DEF Held, QueueErrors
<1>6. made(e)
  <2>1. \/ e = Calling(h.logged)
        \/ \E x \in Held : e = ErrorHandlerError(x, h.logged)
    BY <1>5 DEF queue_init, posix_init_impl, zephyr_init_impl, send_or_receive
  <2> HIDE DEF e
  <2> QED  BY <1>3, <1>4, <2>1
<1>7. State(h) = IF h.has_value THEN "value" ELSE "error"
  BY DEF State
<1> HIDE DEF e
<1>8. CASE s.via = "and_then"
  <2>1. g2 = IF h.has_value THEN e ELSE ErrorHandlerUnexpected(h.it, h.logged)
    BY <1>8 DEF Stage, and_then, has_value, error, e
  <2> HIDE DEF g2
  <2>2. CASE h.has_value
    BY <1>6, <1>7, <1>8, <2>1, <2>2 DEF NextState, g2
  <2>3. CASE ~h.has_value
    BY <1>1, <1>3, <1>7, <1>8, <2>1, <2>3 DEF NextState, g2
  <2> QED  BY <2>2, <2>3
<1>9. CASE s.via = "or_else"
  <2>1. g2 = IF ~h.has_value THEN e ELSE ErrorHandlerValue(h.it, h.logged)
    BY <1>9 DEF Stage, or_else, has_value, value, e
  <2> HIDE DEF g2
  <2>2. CASE ~h.has_value
    BY <1>6, <1>7, <1>9, <2>1, <2>2 DEF NextState, g2
  <2>3. CASE h.has_value
    BY <1>1, <1>3, <1>7, <1>9, <2>1, <2>3 DEF NextState, g2
  <2> QED  BY <2>2, <2>3
<1>10. CASE s.via \in {"transform", "transform_error"}
  <2>1. IF h.has_value THEN g2 = ErrorHandlerValue(h.it, h.logged)
        ELSE \/ g2 = ErrorHandlerUnexpected(h.it, h.logged)
             \/ g2 = ErrorHandlerError(h.it, h.logged)
    BY <1>10 DEF Stage, transform, transform_error, has_value, value, error
  <2> HIDE DEF g2
  <2> QED  BY <1>1, <1>3, <1>7, <1>10, <2>1 DEF NextState, g2
<1> QED
  BY <1>8, <1>9, <1>10 DEF StageSet

-----------------------------------------------------------------------------
(* How a chain goes on.                                                    *)

LEMMA ToldAtStart ==
    ASSUME NEW c \in ChainSet, c.stages = c.program, c.h = NoChain.h,
           c.effects = <<>>, c.errors = 0
    PROVE  Told(c)
<1>1. c.program \in Seq(StageSet) /\ Len(c.program) \in Nat
  BY LenProperties DEF ChainSet
<1>2. Reached(c) = 0 /\ \A i \in 1..Len(c.program) : Reached(c) + i = i
  BY <1>1 DEF Reached
<1>3. State(c.h) = "value" /\ c.h.logged = 0
  BY DEF NoChain, ErrorHandlerValue, State
<1>4. Agrees(c.program, Reached(c), State(c.h), c.effects)
  BY <1>1, <1>2, <1>3, NothingYet
<1> QED
  BY <1>1, <1>2, <1>3, <1>4 DEF Told

LEMMA ToldNoChain == Told(NoChain)
<1>1. NoChain.stages = NoChain.program /\ NoChain.effects = <<>> /\ NoChain.errors = 0
  BY DEF NoChain
<1> QED
  BY <1>1, NoCallTyped, ToldAtStart

\* The next stage is taken off the chain.
LEMMA ToldNext ==
    ASSUME NEW c \in ChainSet, Told(c), c.stages # <<>>, c.object \in Objects,
           c.h.it # "calling",
           NEW d \in ChainSet, d.program = c.program, d.stages = Tail(c.stages),
           d.effects = c.effects,
           d.h = Stage(c.object, Head(c.stages), c.h),
           d.errors = c.errors + (IF has_value(d.h) \/ d.h.it = "calling" THEN 0 ELSE 1)
    PROVE  Told(d)
<1> DEFINE p == c.program
           n == Reached(c)
           s == Head(c.stages)
           l == Len(c.stages)
<1>1. /\ p \in Seq(StageSet) /\ c.stages \in Seq(StageSet) /\ c.h \in Handler
      /\ c.effects \in Seq(Int) /\ c.errors \in Nat /\ Len(p) \in Nat
  BY LenProperties DEF ChainSet
<1>2. /\ l \in Nat /\ l > 0 /\ s = c.stages[1] /\ s \in StageSet
      /\ Len(Tail(c.stages)) = l - 1
      /\ \A i \in 1..(l - 1) : Tail(c.stages)[i] = c.stages[i + 1]
  BY <1>1
<1>3. /\ l <= Len(p) /\ n = Len(p) - l /\ c.h.logged = c.errors
      /\ \A i \in 1..l : c.stages[i] = p[n + i]
      /\ Agrees(p, n, State(c.h), c.effects)
  BY DEF Told, Reached
<1>4. Len(d.stages) = l - 1 /\ Reached(d) = Len(p) - (l - 1)
  BY <1>2 DEF Reached
<1> HIDE DEF n, l, s, p
<1>5. /\ n \in Nat /\ n + 1 \in 1..Len(p) /\ s = p[n + 1] /\ Reached(d) = n + 1
      /\ Len(d.stages) <= Len(p)
      /\ \A i \in 1..(l - 1) : i + 1 \in 1..l /\ n + (i + 1) = (n + 1) + i
  <2>1. 1 \in 1..l
    BY <1>2
  <2> QED  BY <1>1, <1>2, <1>3, <1>4, <2>1
<1>6. \A i \in 1..Len(d.stages) : d.stages[i] = d.program[Reached(d) + i]
  <2> SUFFICES ASSUME NEW i \in 1..(l - 1) PROVE Tail(c.stages)[i] = p[(n + 1) + i]
    BY <1>4, <1>5 DEF p
  <2>1. Tail(c.stages)[i] = c.stages[i + 1] /\ i + 1 \in 1..l /\ n + (i + 1) = (n + 1) + i
    BY <1>2, <1>5
  <2>2. c.stages[i + 1] = p[n + (i + 1)]
    BY <1>3, <2>1
  <2> QED  BY <2>1, <2>2
<1> DEFINE st == State(c.h)
           st2 == State(d.h)
<1>7. /\ NextState(s.via, st, st2)
      /\ st2 = "error" => d.h.logged = c.h.logged + 1
      /\ st2 # "error" => d.h.logged = c.h.logged
  BY <1>1, <1>2, StageTells DEF s
<1>8. st \in {"value", "error"}
  BY DEF State
<1>9. st2 = "error" <=> ~(has_value(d.h) \/ d.h.it = "calling")
  BY DEF State, has_value
<1>10. d.h.logged = d.errors /\ (st2 = "error" => d.errors > 0)
  <2>1. d.errors = IF st2 = "error" THEN c.errors + 1 ELSE c.errors
    <3>1. d.errors = c.errors + (IF st2 = "error" THEN 1 ELSE 0)
      BY <1>9
    <3> HIDE DEF st2
    <3> QED  BY <1>1, <3>1
  <2> HIDE DEF st2
  <2> QED  BY <1>1, <1>3, <1>7, <2>1
<1>11. Agrees(p, n + 1, st2, c.effects)
  <2>1. DOMAIN p = 1..Len(p)
    BY <1>1, LenProperties
  <2> HIDE DEF st, st2
  <2>2. Agrees(p, n, st, c.effects)
    BY <1>3 DEF st
  <2> QED  BY <1>1, <1>5, <1>7, <1>8, <2>1, <2>2, StageAgrees
<1> QED
  BY <1>5, <1>6, <1>10, <1>11 DEF Told, p

\* The call that the chain waits for succeeds or fails.
LEMMA ToldReturned ==
    ASSUME NEW c \in ChainSet, Told(c), c.h.it = "calling",
           NEW d \in ChainSet, d.program = c.program, d.stages = c.stages,
           \/ /\ State(d.h) = "value" /\ d.h.logged = c.h.logged /\ d.errors = c.errors
              /\ d.effects = Append(c.effects, Reached(c))
           \/ /\ State(d.h) = "error" /\ d.h.logged = c.h.logged + 1
              /\ d.errors = c.errors + 1 /\ d.effects = c.effects
    PROVE  Told(d)
<1> DEFINE p == c.program
           n == Reached(c)
<1>1. /\ p \in Seq(StageSet) /\ c.effects \in Seq(Int) /\ c.errors \in Nat
      /\ Len(p) \in Nat /\ Len(c.stages) \in Nat
  BY LenProperties DEF ChainSet
<1>2. n \in Nat /\ Reached(d) = n
  BY <1>1 DEF Told, Reached
<1>3. Agrees(p, n, "calling", c.effects) /\ c.h.logged = c.errors
  BY DEF Told, State
<1>4. Agrees(p, n, "value", Append(c.effects, n)) /\ Agrees(p, n, "error", c.effects)
  BY <1>1, <1>2, <1>3, CallAgrees
<1>5. Agrees(d.program, Reached(d), State(d.h), d.effects)
  BY <1>2, <1>4
<1>6. d.h.logged = d.errors /\ (State(d.h) = "error" => d.errors > 0)
  BY <1>1, <1>3
<1> QED
  BY <1>2, <1>5, <1>6 DEF Told

\* Only one thread's chain changes.
LEMMA VerdictOfOne ==
    ASSUME VerdictInv, NEW t \in Threads, Told(chain'[t]),
           call'[t].op # "none" => chain'[t].h.it = "calling",
           \A u \in Threads \ {t} : chain'[u] = chain[u] /\ call'[u] = call[u]
    PROVE  VerdictInv'
<1> SUFFICES ASSUME NEW u \in Threads
             PROVE  Told(chain'[u]) /\ (call'[u].op # "none" => chain'[u].h.it = "calling")
  BY DEF VerdictInv, InCall, Told, Reached
<1> QED
  BY DEF VerdictInv, InCall

LEMMA VerdictNextStage ==
    ASSUME QueueInv, VerdictInv, NEW t \in Threads, NextStage(t), QueueInv'
    PROVE  VerdictInv'
<1> DEFINE s == Head(chain[t].stages)
           h == Stage(chain[t].object, s, chain[t].h)
           n == chain[t].errors + (IF has_value(h) \/ h.it = "calling" THEN 0 ELSE 1)
           c == [chain[t] EXCEPT !.stages = Tail(chain[t].stages), !.h = h, !.errors = n]
<1>1. /\ ~InCall(t) /\ chain[t].stages # <<>> /\ chain' = [chain EXCEPT ![t] = c]
      /\ h.it = "calling" \/ call' = call
      /\ \A u \in Threads \ {t} : call'[u] = call[u]
  BY DEF NextStage, QueueInv, Structure, QueueTypes
<1>2. /\ chain[t] \in ChainSet /\ chain[t].object \in Objects /\ chain[t].h.it # "calling"
      /\ chain'[t] \in ChainSet
  BY <1>1 DEF QueueInv, Structure, QueueTypes, CallsWithin
<1>3. /\ c.program = chain[t].program /\ c.stages = Tail(chain[t].stages)
      /\ c.effects = chain[t].effects /\ c.h = h /\ c.errors = n
  <2> HIDE DEF n, h, s
  <2> QED  BY <1>2 DEF ChainSet
<1> HIDE DEF c
<1>4. chain'[t] = c /\ \A u \in Threads \ {t} : chain'[u] = chain[u]
  BY <1>1 DEF QueueInv, Structure, QueueTypes
<1>5. Told(chain[t])
  BY DEF VerdictInv
<1>6. Told(c)
  BY <1>1, <1>2, <1>3, <1>4, <1>5, ToldNext
<1>7. call'[t].op # "none" => c.h.it = "calling"
  BY <1>1, <1>3 DEF InCall
<1> QED
  BY <1>1, <1>4, <1>6, <1>7, VerdictOfOne

LEMMA VerdictSucceeds ==
    ASSUME QueueInv, VerdictInv, NEW t \in Threads, InCall(t), Succeeds(t)
    PROVE  VerdictInv'
<1>1. Settled(t) /\ chain[t] \in ChainSet
  BY SettledBySuccess DEF QueueInv, Structure, QueueTypes
<1>2. Told(chain[t]) /\ chain[t].h.it = "calling"
  BY DEF VerdictInv
<1> DEFINE h == ErrorHandlerValue("monostate", chain[t].h.logged)
           e == Append(chain[t].effects, Reached(chain[t]))
           c == [chain[t] EXCEPT !.h = h, !.effects = e]
<1>3. chain' = [chain EXCEPT ![t] = c]
  BY DEF Succeeds, QueueInv, Structure, QueueTypes, Reached
<1>4. State(h) = "value" /\ h.logged = chain[t].h.logged
  BY DEF State, ErrorHandlerValue
<1>5. c.h = h /\ c.effects = e /\ c.errors = chain[t].errors
  <2> HIDE DEF h, e
  <2> QED  BY <1>1 DEF ChainSet
<1> HIDE DEF c
<1>6. chain'[t] = c
  BY <1>3 DEF QueueInv, Structure, QueueTypes
<1>7. Told(chain'[t])
  <2> HIDE DEF h
  <2> QED  BY <1>1, <1>2, <1>4, <1>5, <1>6, ToldReturned DEF Settled
<1> QED
  BY <1>1, <1>7, VerdictOfOne, NoCallTyped DEF Settled

LEMMA VerdictFails ==
    ASSUME QueueInv, VerdictInv, NEW t \in Threads, InCall(t), NEW e \in QueueErrors,
           Fails(t, e)
    PROVE  VerdictInv'
<1>1. Settled(t) /\ chain[t] \in ChainSet
  BY SettledByFailure DEF QueueInv, Structure, QueueTypes
<1>2. Told(chain[t]) /\ chain[t].h.it = "calling"
  BY DEF VerdictInv
<1> DEFINE h == ErrorHandlerError(e, chain[t].h.logged)
           n == chain[t].errors + 1
           c == [chain[t] EXCEPT !.h = h, !.errors = n]
<1>3. chain' = [chain EXCEPT ![t] = c]
  BY DEF Fails, QueueInv, Structure, QueueTypes
<1>4. State(h) = "error" /\ h.logged = chain[t].h.logged + 1
  <2>1. e # "calling"
    BY DEF QueueErrors
  <2> QED  BY <2>1 DEF State, ErrorHandlerError
<1>5. c.h = h /\ c.effects = chain[t].effects /\ c.errors = n
  <2> HIDE DEF h, n
  <2> QED  BY <1>1 DEF ChainSet
<1> HIDE DEF c
<1>6. chain'[t] = c
  BY <1>3 DEF QueueInv, Structure, QueueTypes
<1>7. Told(chain'[t])
  <2> HIDE DEF h
  <2> QED  BY <1>1, <1>2, <1>4, <1>5, <1>6, ToldReturned DEF Settled
<1> QED
  BY <1>1, <1>7, VerdictOfOne, NoCallTyped DEF Settled

LEMMA VerdictStart ==
    ASSUME QueueInv, VerdictInv, NEW t \in Threads, NEW o \in Objects, NEW p \in Programs,
           Start(t, o, p)
    PROVE  VerdictInv'
<1> DEFINE c == [NoChain EXCEPT !.object = o, !.program = p.stages, !.stages = p.stages]
<1>1. chain[t] = NoChain /\ chain' = [chain EXCEPT ![t] = c] /\ call' = call
  BY DEF Start
<1>2. p.stages \in Seq(StageSet)
  BY QueueAssumption DEF Program
<1>3. /\ c \in ChainSet /\ c.program = p.stages /\ c.stages = p.stages
      /\ c.h = NoChain.h /\ c.effects = NoChain.effects /\ c.errors = NoChain.errors
  BY <1>2, NoCallTyped DEF ChainSet
<1>4. NoChain.effects = <<>> /\ NoChain.errors = 0
  BY DEF NoChain
<1> HIDE DEF c
<1>5. Told(c)
  BY <1>3, <1>4, ToldAtStart
<1>6. chain'[t] = c /\ \A u \in Threads \ {t} : chain'[u] = chain[u]
  BY <1>1 DEF QueueInv, Structure, QueueTypes
<1>7. call[t].op = "none"
  BY <1>1, NoCallTyped, QueueAssumption DEF QueueInv, Structure, CallsWithin, InCall
<1> QED
  BY <1>1, <1>5, <1>6, <1>7, VerdictOfOne

\* No chain changes, or one ends.
LEMMA VerdictKept ==
    ASSUME VerdictInv, UNCHANGED <<chain, call>>  PROVE VerdictInv'
BY DEF VerdictInv, InCall

LEMMA VerdictReturn ==
    ASSUME QueueInv, VerdictInv, NEW t \in Threads, Return(t)  PROVE VerdictInv'
<1>1. chain' = [chain EXCEPT ![t] = NoChain] /\ call' = call /\ call[t].op = "none"
  BY DEF Return, Finished, InCall
<1>2. chain'[t] = NoChain /\ \A u \in Threads \ {t} : chain'[u] = chain[u]
  BY <1>1 DEF QueueInv, Structure, QueueTypes
<1> QED
  BY <1>1, <1>2, ToldNoChain, VerdictOfOne

LEMMA VerdictFresh ==
    ASSUME chain = [t \in Threads |-> NoChain], call = [t \in Threads |-> NoCall]
    PROVE  VerdictInv
BY ToldNoChain, NoCallTyped DEF VerdictInv, InCall

LEMMA VerdictEnds ==
    ASSUME chain' = [t \in Threads |-> NoChain], call' = [t \in Threads |-> NoCall]
    PROVE  VerdictInv'
BY ToldNoChain, NoCallTyped DEF VerdictInv, InCall

LEMMA VerdictOpen ==
    ASSUME QueueInv, VerdictInv, NEW t \in Threads, Open(t)  PROVE VerdictInv'
<1>1. InCall(t)
  BY DEF Open, InCall
<1>2. Succeeds(t) \/ \E e \in QueueErrors : Fails(t, e)
  <2>1. \A e \in {"EMFILE", "EACCES"} : Mapped(posix_queue_errors, e) \in QueueErrors
    BY DEF Mapped, posix_queue_errors, QueueErrors
  <2> QED  BY <2>1 DEF Open, posix_open
<1> QED
  BY <1>1, <1>2, VerdictSucceeds, VerdictFails

LEMMA VerdictGivesUp ==
    ASSUME QueueInv, VerdictInv, NEW t \in Threads, GivesUp(t)  PROVE VerdictInv'
<1>1. InCall(t)
  BY DEF GivesUp, InCall
<1>2. \E e \in QueueErrors : Fails(t, e)
  <2>1. posix_gives_up(call[t].arg) \subseteq QueueErrors
    BY DEF posix_gives_up, Mapped, posix_queue_errors, QueueErrors
  <2>2. zephyr_gives_up(call[t].op, call[t].arg) \subseteq QueueErrors
    BY DEF zephyr_gives_up, zephyr_send_impl, zephyr_receive_impl, Mapped,
           zephyr_queue_errors, QueueErrors
  <2> QED  BY <2>1, <2>2 DEF GivesUp
<1> QED
  BY <1>1, <1>2, VerdictFails

LEMMA VerdictStep == QueueInv /\ VerdictInv /\ QueueInv' /\ [Next]_vars => VerdictInv'
<1> SUFFICES ASSUME QueueInv, VerdictInv, QueueInv', [Next]_vars  PROVE VerdictInv'
  OBVIOUS
<1>1. CASE UNCHANGED vars
  BY <1>1, VerdictKept DEF vars, queueVars
<1>2. ASSUME NEW o \in Objects, Construct(o) \/ Destroy(o)  PROVE VerdictInv'
  BY <1>2, VerdictKept DEF Construct, Destroy
<1>3. CASE Ends
  BY <1>3, VerdictEnds DEF Ends
<1>4. CASE Restarts
  BY <1>4, VerdictKept DEF Restarts
<1>5. ASSUME NEW t \in Threads, Put(t) \/ Get(t)  PROVE VerdictInv'
  BY <1>5, VerdictSucceeds DEF Put, Get, InCall
<1> QED
  BY <1>1, <1>2, <1>3, <1>4, <1>5, VerdictNextStage, VerdictOpen, VerdictGivesUp,
     VerdictStart, VerdictReturn DEF Next

LEMMA VerdictAtEnd == QueueInv /\ VerdictInv => ChainVerdict
<1> SUFFICES ASSUME QueueInv, VerdictInv, NEW t \in Threads, Finished(t)
             PROVE  LET c == chain[t]
                        calls == CallsOf(c.program)
                    IN  /\ c.errors <= c.h.logged
                        /\ ~has_value(c.h) => c.errors > 0
                        /\ InOrder(c) /\ Took(c) \subseteq calls
                        /\ Pipeline(c.program) =>
                             IF has_value(c.h) THEN Took(c) = calls
                             ELSE \E k \in calls : Took(c) = {i \in calls : i < k}
                        /\ Alternatives(c.program) =>
                             IF has_value(c.h) /\ calls # {}
                               THEN \E i \in calls : c.effects = <<i>>
                               ELSE c.effects = <<>>
  BY DEF ChainVerdict
<1> DEFINE c == chain[t]
           p == c.program
           C == CallsOf(p)
           n == Reached(c)
           st == State(c.h)
<1>1. c \in ChainSet /\ c.h.it # "calling" /\ c.stages = <<>> /\ Told(c)
  BY DEF QueueInv, Structure, QueueTypes, CallsWithin, VerdictInv, Finished
<1>2. /\ p \in Seq(StageSet) /\ c.errors \in Nat /\ c.effects \in Seq(Int)
      /\ DOMAIN p = 1..Len(p) /\ Len(p) \in Nat
  BY <1>1, LenProperties DEF ChainSet
<1>3. n = Len(p)
  BY <1>1, <1>2 DEF Reached
<1>4. \A i \in C : i \in Nat /\ i <= n /\ ~(i > n)
  BY <1>2, <1>3 DEF CallsOf
<1>5. c.h.logged = c.errors /\ (st = "error" => c.errors > 0)
      /\ Agrees(p, n, st, c.effects)
  BY <1>1 DEF Told
<1>6. st = IF has_value(c.h) THEN "value" ELSE "error"
  BY <1>1 DEF State, has_value
<1> HIDE DEF st, n, c
<1>7. c.errors <= c.h.logged /\ (~has_value(c.h) => c.errors > 0)
  BY <1>2, <1>5, <1>6
<1>8. InOrder(c) /\ Took(c) \subseteq C
  BY <1>5 DEF Agrees, InOrder, Took, Listed
<1>9. ASSUME Pipeline(p)
      PROVE  IF has_value(c.h) THEN Took(c) = C
             ELSE \E k \in C : Took(c) = {i \in C : i < k}
  <2>1. PipelineSoFar(p, n, st, c.effects) /\ Took(c) = Listed(c.effects)
    BY <1>5, <1>9 DEF Agrees, Took, Listed
  <2>2. {i \in C : i <= n} = C
    BY <1>4
  <2> QED  BY <1>6, <2>1, <2>2 DEF PipelineSoFar
<1>10. ASSUME Alternatives(p)
       PROVE  IF has_value(c.h) /\ C # {} THEN \E i \in C : c.effects = <<i>>
              ELSE c.effects = <<>>
  <2>1. AlternativesSoFar(p, n, st, c.effects)
    BY <1>5, <1>10 DEF Agrees
  <2> QED  BY <1>4, <1>6, <2>1 DEF AlternativesSoFar
<1> QED
  BY <1>7, <1>8, <1>9, <1>10 DEF c

\* The result of a chain of queue operations, of any length and mixture, tells
\* its caller which of the calls took effect, and each error was logged,
\* whatever the other threads did to the queue meanwhile.
THEOREM ChainsTellTruth == Spec => []ChainVerdict
<1>1. Init => VerdictInv
  BY VerdictFresh DEF Init, QueueInit
<1> QED
  BY <1>1, QueueInvInit, QueueInvStep, VerdictStep, VerdictAtEnd, PTL DEF Spec

=============================================================================
