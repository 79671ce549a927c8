---------------------------- MODULE MessageQueue ----------------------------
(***************************************************************************)
(* PlatformCore::MessageQueue of both platforms: objects that threads call *)
(* in chains of ErrorHandler operations, such as                           *)
(*     queue.send(m, 1000).or_else(...).                                   *)
(* On POSIX an object is a descriptor of a kernel queue that its name      *)
(* finds and that outlives the process; on Zephyr it is the queue.         *)
(***************************************************************************)
EXTENDS Platform, ErrorHandler, Deadline

CONSTANTS
    Objects, NoObject,
    Names,             \* name classes tried: "/queue", "" and "no_slash"
    Programs,          \* chains the threads run, see Program
    Clocks,            \* values of CLOCK_REALTIME
    InfiniteTimeout,   \* the largest uint32_t
    Initialiser,       \* the thread that calls init()
    MaxQueues,         \* bound: queues the kernel creates
    MaxRuns            \* bound: processes, one after the other

\* A program may first look whether there is free space.  "keep" stands for a
\* function of the caller's.
StageSet ==
    [via : {"and_then", "or_else"}, op : {"init", "send", "receive"}, arg : Nat]
        \cup [via : {"transform", "transform_error"}, op : {"keep"}, arg : {0}]
Program == [careful : BOOLEAN, stages : Seq(StageSet)]

ASSUME QueueAssumption ==
    /\ NoObject \notin Objects /\ Initialiser \in Threads
    /\ Names \subseteq {"/queue", "", "no_slash"}
    /\ Clocks \subseteq Timespec /\ Programs \subseteq Program
    /\ InfiniteTimeout \in Nat /\ MaxQueues \in Nat /\ MaxRuns \in Nat

VARIABLES
    name, alive,       \* per object: its name; within its lifetime
    handle,            \* per object: mqd_ or queue_, NoQueue before init()
    queues,            \* the queues created: capacity and messages
    linked,            \* POSIX: the queue the name "/queue" finds
    run,               \* number of this process
    chain,             \* per thread: the chain it runs
    call,              \* per thread: the OS call it is inside
    excused, stale     \* history: a queue was left behind; a run got a message
                       \* of an earlier one

queueVars == <<name, alive, handle, queues, linked, run, chain, call, excused, stale>>

NoQueue == 0

NoTime == [tv_sec |-> -1, tv_nsec |-> 0]
NoCall == [op |-> "none", arg |-> 0, now |-> NoTime, ts |-> NoTime]
NoChain == [object |-> NoObject, program |-> <<>>, stages |-> <<>>,
            h |-> ErrorHandlerValue("start", 0), effects |-> <<>>, errors |-> 0]

posix_queue_errors ==
    [EINVAL |-> "InvalidParameter", EBADF |-> "InvalidParameter",
     ENOMEM |-> "InsufficientMemory", ENOSPC |-> "ResourceLimitExceeded",
     EMFILE |-> "ResourceLimitExceeded", ENFILE |-> "ResourceLimitExceeded",
     ETIMEDOUT |-> "Timeout", EINTR |-> "Interrupted", EAGAIN |-> "QueueFull",
     EACCES |-> "PermissionDenied", EEXIST |-> "AlreadyExists"]
zephyr_queue_errors ==
    [EINVAL |-> "InvalidParameter", EALREADY |-> "AlreadyInitialized",
     EAGAIN |-> "Timeout", EBUSY |-> "Timeout", ETIMEDOUT |-> "Timeout",
     ENOMEM |-> "InsufficientMemory"]

QueueInit ==
    /\ name \in [Objects -> IF Posix THEN Names ELSE {"/queue"}]
    /\ alive = [o \in Objects |-> FALSE]
    /\ handle = [o \in Objects |-> NoQueue]
    /\ queues = <<>> /\ linked = NoQueue
    /\ run = 1 /\ chain = [t \in Threads |-> NoChain]
    /\ call = [t \in Threads |-> NoCall]
    /\ excused = FALSE /\ stale = FALSE

Users(o) == {t \in Threads : chain[t].object = o}
InCall(t) == call[t].op # "none"
Initialises(program) == \E i \in DOMAIN program : program[i].op = "init"

-----------------------------------------------------------------------------
(* The library's part of a call, before the OS is entered.  A call that    *)
(* enters it goes on with Calling.                                         *)

Calling(n) == [has_value |-> FALSE, it |-> "calling", logged |-> n]

\* init(): the checks of the interface, then those of init_impl.
posix_init_impl(o, n) ==
    IF name[o] = "" \/ name[o] = "no_slash" THEN ErrorHandlerError("InvalidParameter", n)
                                            ELSE Calling(n)
zephyr_init_impl(o, n) ==
    IF handle[o] # NoQueue THEN ErrorHandlerError("AlreadyInitialized", n) ELSE Calling(n)
queue_init(o, capacity, n) ==
    IF capacity = 0 THEN ErrorHandlerError("InvalidParameter", n)
    ELSE IF Posix THEN posix_init_impl(o, n) ELSE zephyr_init_impl(o, n)

\* send() and receive() of a queue that was not initialised.
send_or_receive(o, n) ==
    IF handle[o] = NoQueue THEN ErrorHandlerError("InvalidQueue", n) ELSE Calling(n)

\* POSIX waits for ever when asked not to wait.
Forever(ms) == ms = InfiniteTimeout \/ (Posix /\ ms = 0)

\* One operation of the chain; the caller's own functions return what they get.
Stage(o, s, h) ==
    LET called == IF s.op = "init" THEN queue_init(o, s.arg, h.logged)
                                   ELSE send_or_receive(o, h.logged)
    IN  CASE s.via = "and_then" -> and_then(h, called)
          [] s.via = "or_else" -> or_else(h, called)
          [] s.via = "transform" -> transform(h, value(h))
          [] s.via = "transform_error" -> transform_error(h, error(h))

-----------------------------------------------------------------------------
(* Objects and processes.                                                  *)

Construct(o) ==
    /\ ~terminated /\ ~alive[o]
    /\ alive' = [alive EXCEPT ![o] = TRUE]
    /\ UNCHANGED <<name, handle, queues, linked, run, chain, call, excused, stale, terminated>>

\* Faulty variant: the descriptor is closed, the name stays.
Destroy_KeepsName(o) ==
    /\ ~terminated /\ alive[o] /\ Users(o) = {}
    /\ alive' = [alive EXCEPT ![o] = FALSE]
    /\ handle' = [handle EXCEPT ![o] = NoQueue]
    /\ UNCHANGED <<name, queues, linked, run, chain, call, excused, stale, terminated>>

\* The destructor closes and unlinks, whoever else has the queue open; an
\* object without a descriptor leaves the name alone.
Destroy(o) ==
    /\ ~terminated /\ alive[o] /\ Users(o) = {}
    /\ alive' = [alive EXCEPT ![o] = FALSE]
    /\ handle' = [handle EXCEPT ![o] = NoQueue]
    /\ linked' = IF handle[o] # NoQueue THEN NoQueue ELSE linked
    /\ UNCHANGED <<name, queues, run, chain, call, excused, stale, terminated>>

\* The process ends, killed or after its last destructor, and starts again.
Ends ==
    /\ ~terminated /\ run < MaxRuns
    /\ terminated' = TRUE
    /\ excused' = (excused \/ \E o \in Objects : handle[o] # NoQueue)
    /\ alive' = [o \in Objects |-> FALSE]
    /\ handle' = [o \in Objects |-> NoQueue]
    /\ chain' = [t \in Threads |-> NoChain]
    /\ call' = [t \in Threads |-> NoCall]
    /\ UNCHANGED <<name, queues, linked, run, stale>>

\* A Zephyr queue is memory of the program.
Restarts ==
    /\ terminated
    /\ terminated' = FALSE /\ run' = run + 1
    /\ UNCHANGED <<name, alive, handle, queues, linked, chain, call, excused, stale>>

-----------------------------------------------------------------------------
(* Chains.  init() is not called while another thread uses the object.     *)

get_free_space(o) ==
    IF handle[o] = NoQueue THEN 0
    ELSE queues[handle[o]].capacity - Len(queues[handle[o]].messages)

Start(t, o, p) ==
    /\ ~terminated /\ alive[o] /\ chain[t] = NoChain
    /\ p.careful => get_free_space(o) > 0
    /\ Initialises(p.stages) => t = Initialiser /\ Users(o) = {}
    /\ \A u \in Users(o) : ~Initialises(chain[u].program)
    /\ chain' = [chain EXCEPT ![t] = [NoChain EXCEPT !.object = o, !.program = p.stages,
                                                     !.stages = p.stages]]
    /\ UNCHANGED <<name, alive, handle, queues, linked, run, call, excused, stale, terminated>>

NextStage(t) ==
    LET s == Head(chain[t].stages)
        h == Stage(chain[t].object, s, chain[t].h)
    IN
    /\ ~terminated /\ ~InCall(t) /\ chain[t].stages # <<>>
    /\ chain' = [chain EXCEPT ![t].stages = Tail(@), ![t].h = h,
                              ![t].errors = @ + (IF has_value(h) \/ h.it = "calling"
                                                   THEN 0 ELSE 1)]
    /\ IF h.it = "calling"
         THEN \E now \in Clocks :
                call' = [call EXCEPT ![t] =
                    IF Posix /\ s.op # "init" /\ ~Forever(s.arg)
                      THEN [op |-> s.op, arg |-> s.arg, now |-> now,
                            ts |-> ms_to_timespec(now, s.arg)]
                      ELSE [NoCall EXCEPT !.op = s.op, !.arg = s.arg]]
         ELSE UNCHANGED call
    /\ UNCHANGED <<name, alive, handle, queues, linked, run, excused, stale, terminated>>

\* The caller takes what came of a chain that is through.
Finished(t) == chain[t].object # NoObject /\ ~InCall(t) /\ chain[t].stages = <<>>
Return(t) ==
    /\ Finished(t)
    /\ result' = value_or(chain[t].h, "failed")
    /\ chain' = [chain EXCEPT ![t] = NoChain]
    /\ UNCHANGED <<name, alive, handle, queues, linked, run, call, excused, stale, terminated>>

-----------------------------------------------------------------------------
(* The OS call returns.                                                    *)

\* History: effects names the stages of the program whose call took effect.
Succeeds(t) ==
    /\ chain' = [chain EXCEPT ![t].h = ErrorHandlerValue("monostate", @.logged),
                              ![t].effects = Append(@, Len(chain[t].program)
                                                         - Len(chain[t].stages))]
    /\ call' = [call EXCEPT ![t] = NoCall]
Fails(t, e) ==
    /\ chain' = [chain EXCEPT ![t].h = ErrorHandlerError(e, @.logged),
                              ![t].errors = @ + 1]
    /\ call' = [call EXCEPT ![t] = NoCall]

Creates(o, capacity) ==
    /\ Len(queues) < MaxQueues
    /\ queues' = Append(queues, [capacity |-> capacity, messages |-> <<>>])
    /\ handle' = [handle EXCEPT ![o] = Len(queues')]

\* mq_open(O_CREAT): the queue of that name, as it is, or a new one.  A failure
\* of a second init() forgets the descriptor of the first.
posix_open(t, o) ==
    \/ /\ linked = NoQueue /\ Creates(o, call[t].arg) /\ linked' = Len(queues')
       /\ Succeeds(t) /\ UNCHANGED excused
    \/ /\ linked # NoQueue /\ handle' = [handle EXCEPT ![o] = linked]
       /\ Succeeds(t) /\ UNCHANGED <<queues, linked, excused>>
    \/ /\ \E e \in {"EMFILE", "EACCES"} : Fails(t, Mapped(posix_queue_errors, e))
       /\ handle' = [handle EXCEPT ![o] = NoQueue]
       /\ excused' = (excused \/ handle[o] # NoQueue)
       /\ UNCHANGED <<queues, linked>>

Open(t) ==
    LET o == chain[t].object IN
    /\ call[t].op = "init"
    /\ \/ Posix /\ posix_open(t, o)
       \/ Zephyr /\ Creates(o, call[t].arg) /\ Succeeds(t) /\ UNCHANGED <<linked, excused>>
    /\ UNCHANGED <<name, alive, run, stale, terminated>>

QueueOf(t) == queues[handle[chain[t].object]]

Put(t) ==
    LET q == handle[chain[t].object] IN
    /\ call[t].op = "send" /\ Len(QueueOf(t).messages) < QueueOf(t).capacity
    /\ queues' = [queues EXCEPT ![q].messages = Append(@, run)]
    /\ Succeeds(t)
    /\ UNCHANGED <<name, alive, handle, linked, run, excused, stale, terminated>>

Get(t) ==
    LET q == handle[chain[t].object] IN
    /\ call[t].op = "receive" /\ QueueOf(t).messages # <<>>
    /\ stale' = (stale \/ Head(QueueOf(t).messages) # run)
    /\ queues' = [queues EXCEPT ![q].messages = Tail(@)]
    /\ Succeeds(t)
    /\ UNCHANGED <<name, alive, handle, linked, run, excused, terminated>>

\* The queue stays full or empty: the deadline passes, or a signal arrives.
posix_gives_up(ms) ==
    {Mapped(posix_queue_errors, e) : e \in {"EINTR"} \cup IF Forever(ms) THEN {} ELSE {"ETIMEDOUT"}}
\* -EAGAIN after the timeout, -ENOMSG at once when there is none.
zephyr_send_impl(ms) ==
    {IF ms = 0 THEN Mapped(zephyr_queue_errors, "ENOMSG") ELSE "QueueFull"}
zephyr_receive_impl(ms) ==
    {IF ms = 0 THEN Mapped(zephyr_queue_errors, "ENOMSG") ELSE "QueueEmpty"}
zephyr_gives_up(op, ms) ==
    IF Forever(ms) THEN {}
    ELSE IF op = "send" THEN zephyr_send_impl(ms) ELSE zephyr_receive_impl(ms)

GivesUp(t) ==
    /\ \/ call[t].op = "send" /\ Len(QueueOf(t).messages) >= QueueOf(t).capacity
       \/ call[t].op = "receive" /\ QueueOf(t).messages = <<>>
    /\ \E e \in IF Posix THEN posix_gives_up(call[t].arg)
                         ELSE zephyr_gives_up(call[t].op, call[t].arg) : Fails(t, e)
    /\ UNCHANGED <<name, alive, handle, queues, linked, run, excused, stale, terminated>>

vars == <<platform, terminated, result, queueVars>>

Init == PlatformInit /\ QueueInit

Next ==
    \/ /\ \/ \E o \in Objects : Construct(o) \/ Destroy(o)
          \/ Ends \/ Restarts
          \/ \E t \in Threads : NextStage(t) \/ Open(t) \/ Put(t) \/ Get(t) \/ GivesUp(t)
          \/ \E t \in Threads, o \in Objects, p \in Programs : Start(t, o, p)
       /\ UNCHANGED <<platform, result>>
    \/ /\ \E t \in Threads : Return(t)
       /\ UNCHANGED platform

Spec == Init /\ [][Next]_vars

-----------------------------------------------------------------------------
(* Properties.                                                             *)

\* The calls of a program, without the caller's own functions.  A program is a
\* pipeline, its calls joined by and_then, or one of alternatives, each call
\* but the first made by or_else.
CallsOf(p) == {i \in DOMAIN p : p[i].op # "keep"}
Pipeline(p) == \A i \in CallsOf(p) : p[i].via = "and_then"
Alternatives(p) ==
    \A i \in CallsOf(p) : p[i].via = "or_else" <=> \E k \in CallsOf(p) : k < i

\* A chain's result tells what happened.  Of alternatives a success means that
\* exactly one took effect (one copy of the message was accepted), an error
\* that none did; of a pipeline a success means that all took effect in order,
\* an error that exactly those before the failing one did.  Timeouts,
\* interrupted waits and refusals are all told, and each is logged.
Took(c) == {c.effects[i] : i \in DOMAIN c.effects}
InOrder(c) == \A i, k \in DOMAIN c.effects : i < k => c.effects[i] < c.effects[k]
ChainVerdict ==
    \A t \in Threads : Finished(t) =>
        LET c == chain[t]
            calls == CallsOf(c.program)
        IN  /\ c.errors <= c.h.logged
            /\ ~has_value(c.h) => c.errors > 0
            /\ InOrder(c) /\ Took(c) \subseteq calls
            /\ Pipeline(c.program) =>
                 IF has_value(c.h) THEN Took(c) = calls
                 ELSE \E k \in calls : Took(c) = {i \in calls : i < k}
            /\ Alternatives(c.program) =>
                 IF has_value(c.h) /\ calls # {}
                   THEN \E i \in calls : c.effects = <<i>>
                   ELSE c.effects = <<>>

\* A process receives a message of an earlier one only when that one was
\* killed with the queue open or lost its descriptor in a failed second
\* init(): a process that ends in order leaves no queue behind, although
\* several objects shared the name.  On Zephyr it never happens.
LeftoversExplained ==
    /\ stale => excused /\ Posix
    /\ linked # NoQueue /\ ~excused => \E o \in Objects : handle[o] # NoQueue

\* A timed call waits until the time it was asked to wait.
DeadlineExact ==
    \A t \in Threads : call[t].ts # NoTime => Exact(call[t].now, call[t].arg, call[t].ts)

=============================================================================
