------------------------------- MODULE Thread -------------------------------
(***************************************************************************)
(* PlatformCore::Thread of both platforms, one object: create(), destroy() *)
(* and the destructor, called by its owner, and the OS thread behind it.   *)
(***************************************************************************)
EXTENDS Platform, Integers

CONSTANTS
    StackSizes, Priorities,      \* arguments that are tried
    MinStack,                    \* PTHREAD_STACK_MIN
    Word,                        \* sizeof(void*)
    SizeT,                       \* 2^w, w the width of size_t
    MinPriority, MaxPriority     \* of SCHED_FIFO

ASSUME ThreadAssumption ==
    /\ Word \in Nat \ {0} /\ SizeT \in Nat /\ SizeT % Word = 0
    /\ MinStack \in 1..(SizeT - 1) /\ MinStack % Word = 0
    /\ StackSizes \subseteq 0..(SizeT - 1) /\ Priorities \subseteq Int
    /\ MinPriority \in Nat \ {0} /\ MaxPriority \in Nat /\ MinPriority <= MaxPriority

VARIABLES
    privileged,    \* may the process ask for real-time scheduling?
    active,        \* active
    tpc,           \* where the owner is: "idle", inside a call, "gone"
    request,       \* the arguments of the create() it is inside
    attr,          \* attr: "none", or the attributes set so far
    err,           \* what attempt_create returns
    os_thread      \* the OS thread not yet joined: [state, stack, sched]

threadVars == <<privileged, active, tpc, request, attr, err, os_thread>>

posix_thread_errors ==
    [EINVAL |-> "InvalidParameter", ENOMEM |-> "InsufficientMemory",
     EAGAIN |-> "ResourceLimitExceeded", EPERM |-> "PermissionDenied",
     ESRCH |-> "ThreadNotFound", EDEADLK |-> "Deadlock", EALREADY |-> "AlreadyCreated"]
zephyr_thread_errors ==
    [EINVAL |-> "InvalidParameter", EAGAIN |-> "ResourceLimitExceeded",
     ESRCH |-> "ThreadNotFound", EALREADY |-> "AlreadyCreated"]

ThreadFunctionVariant == {"ThreadFunction1", "ThreadFunction2", "ThreadFunction3"}
\* "absent" is the overload without parameters.
ThreadParamVariant ==
    {"ThreadParam1", "ThreadParam2", "ThreadParam3", "ThreadParamValue", "absent"}

Inherit == 0                  \* PTHREAD_INHERIT_SCHED, else a SCHED_FIFO priority
NoAttr == [live |-> FALSE, stack |-> 0, sched |-> Inherit]
NoOsThread == [state |-> "none", stack |-> 0, sched |-> Inherit]
Request(fn, params, stack, prio, forced) ==
    [fn |-> fn, params |-> params, stack |-> stack, prio |-> prio, forced |-> forced]
NoRequest == Request("ThreadFunction1", "absent", 0, 0, FALSE)

ThreadInit ==
    /\ privileged \in BOOLEAN
    /\ active = FALSE /\ tpc = "idle" /\ request = NoRequest
    /\ attr = NoAttr /\ err = "ok" /\ os_thread = NoOsThread

\* Rounded up to words, where size_t wraps, and at least the minimum.
sanitize_stack_size(requested) ==
    LET aligned == (((requested + Word - 1) % SizeT) \div Word) * Word
    IN  IF requested = 0 \/ aligned < MinStack THEN MinStack ELSE aligned

\* The scheduling a priority asks for, and what it becomes when the attribute
\* calls refuse it.
Fifo(prio) ==
    IF prio < MinPriority THEN MinPriority
    ELSE IF prio > MaxPriority THEN MaxPriority ELSE prio
configure_priority(prio) == IF prio < 0 THEN {Inherit} ELSE {Fifo(prio), Inherit}

-----------------------------------------------------------------------------
(* create().                                                               *)

ThreadIdle == ~terminated /\ tpc = "idle"

\* create() returns rc: nothing is left of the call.
CreateReturns(rc) ==
    /\ tpc' = "idle" /\ result' = rc
    /\ active' = (active \/ rc = "ok")
    /\ request' = NoRequest /\ err' = "ok"

\* On POSIX a function of the wrong kind is found only by attempt_create.
posix_os_create(req) ==
    IF req.params \in {"ThreadParam2", "ThreadParam3"}
      THEN CreateReturns("InvalidParameter") /\ UNCHANGED os_thread
      ELSE /\ tpc' = "attr_init" /\ request' = req
           /\ UNCHANGED <<active, err, os_thread, result>>

zephyr_os_create(req) ==
    \/ /\ req.fn # "ThreadFunction3"
       /\ CreateReturns("InvalidParameter") /\ UNCHANGED os_thread
    \/ /\ req.fn = "ThreadFunction3"
       /\ CreateReturns("ok")
       /\ os_thread' = [state |-> "running", stack |-> req.stack, sched |-> req.prio]
    \/ /\ req.fn = "ThreadFunction3"
       /\ CreateReturns("CreationFailed") /\ UNCHANGED os_thread

create(fn, params, stack, prio) ==
    LET req == Request(fn, params, stack, prio, FALSE) IN
    /\ ThreadIdle
    /\ \/ active /\ CreateReturns("AlreadyCreated") /\ UNCHANGED os_thread
       \/ ~active /\ Posix /\ posix_os_create(req)
       \/ ~active /\ Zephyr /\ zephyr_os_create(req)
    /\ UNCHANGED <<privileged, attr, terminated>>

\* attempt_create: the attributes, the thread, the attributes' end.  A step
\* that fails ends the attempt with its errno.
AttemptEnds(e) == tpc' = "attempted" /\ err' = e /\ attr' = NoAttr

AttrInit ==
    /\ tpc = "attr_init"
    /\ \/ tpc' = "attr_stack" /\ attr' = [NoAttr EXCEPT !.live = TRUE] /\ UNCHANGED err
       \/ AttemptEnds("ENOMEM")
    /\ UNCHANGED <<privileged, active, request, os_thread, result, terminated>>

\* Faulty variant: the attributes are not destroyed after a refused stack size.
AttrStack_KeepsAttr ==
    /\ tpc = "attr_stack"
    /\ \/ /\ tpc' = "attr_sched" /\ attr' = [attr EXCEPT !.stack = sanitize_stack_size(request.stack)]
          /\ UNCHANGED err
       \/ tpc' = "attempted" /\ err' = "EINVAL" /\ UNCHANGED attr
    /\ UNCHANGED <<privileged, active, request, os_thread, result, terminated>>

AttrStack ==
    /\ tpc = "attr_stack"
    /\ \/ /\ tpc' = "attr_sched" /\ attr' = [attr EXCEPT !.stack = sanitize_stack_size(request.stack)]
          /\ UNCHANGED err
       \/ AttemptEnds("EINVAL")
    /\ UNCHANGED <<privileged, active, request, os_thread, result, terminated>>

AttrSched ==
    /\ tpc = "attr_sched"
    /\ \E s \in IF request.forced THEN {Inherit} ELSE configure_priority(request.prio) :
          attr' = [attr EXCEPT !.sched = s]
    /\ tpc' = "spawn"
    /\ UNCHANGED <<privileged, active, request, err, os_thread, result, terminated>>

Spawn ==
    /\ tpc = "spawn"
    /\ \/ request.fn # "ThreadFunction1" /\ AttemptEnds("EINVAL") /\ UNCHANGED os_thread
       \/ /\ request.fn = "ThreadFunction1"
          /\ attr.sched # Inherit /\ ~privileged
          /\ AttemptEnds("EPERM") /\ UNCHANGED os_thread
       \/ /\ request.fn = "ThreadFunction1"
          /\ attr.sched = Inherit \/ privileged
          /\ \/ /\ AttemptEnds("ok")
                /\ os_thread' = [state |-> "running", stack |-> attr.stack, sched |-> attr.sched]
             \/ AttemptEnds("EAGAIN") /\ UNCHANGED os_thread
    /\ UNCHANGED <<privileged, active, request, result, terminated>>

\* Faulty variant: tried again as long as it is refused.
Attempted_Again ==
    /\ tpc = "attempted"
    /\ IF err = "EPERM" /\ request.prio >= 0
         THEN tpc' = "attr_init" /\ UNCHANGED <<active, request, err, result>>
         ELSE CreateReturns(IF err = "ok" THEN "ok" ELSE Mapped(posix_thread_errors, err))
    /\ UNCHANGED <<privileged, attr, os_thread, terminated>>

\* Refused for lack of privilege: once more, with inherited scheduling.
Attempted ==
    /\ tpc = "attempted"
    /\ IF err = "EPERM" /\ request.prio >= 0 /\ ~request.forced
         THEN /\ tpc' = "attr_init" /\ request' = [request EXCEPT !.forced = TRUE]
              /\ UNCHANGED <<active, err, result>>
         ELSE CreateReturns(IF err = "ok" THEN "ok" ELSE Mapped(posix_thread_errors, err))
    /\ UNCHANGED <<privileged, attr, os_thread, terminated>>

-----------------------------------------------------------------------------
(* destroy() and ~Thread.                                                  *)

destroy ==
    /\ ThreadIdle
    /\ IF active THEN tpc' = "join" /\ UNCHANGED result
                 ELSE result' = "ok" /\ UNCHANGED tpc
    /\ UNCHANGED <<privileged, active, request, attr, err, os_thread, terminated>>

Destructor ==
    /\ ThreadIdle
    /\ tpc' = IF active THEN "dtor_join" ELSE "gone"
    /\ UNCHANGED <<privileged, active, request, attr, err, os_thread, terminated, result>>

\* pthread_join, again while it says EINTR, or k_thread_join for ever.
os_destroy ==
    /\ tpc \in {"join", "dtor_join"} /\ os_thread.state = "ended"
    /\ os_thread' = NoOsThread /\ active' = FALSE
    /\ tpc' = IF tpc = "join" THEN "idle" ELSE "gone"
    /\ result' = "ok"
    /\ UNCHANGED <<privileged, request, attr, err, terminated>>

\* destroy() by the thread itself: the OS refuses a join with oneself.
DestroyFromWithin ==
    /\ ThreadIdle /\ active /\ os_thread.state = "running"
    /\ result' = Mapped(IF Posix THEN posix_thread_errors ELSE zephyr_thread_errors, "EDEADLK")
    /\ UNCHANGED <<threadVars, terminated>>

ThreadFunctionReturns ==
    /\ os_thread.state = "running"
    /\ os_thread' = [os_thread EXCEPT !.state = "ended"]
    /\ UNCHANGED <<privileged, active, tpc, request, attr, err, result, terminated>>

CallGoesOn == AttrInit \/ AttrStack \/ AttrSched \/ Spawn \/ Attempted \/ os_destroy

-----------------------------------------------------------------------------
(* Properties.                                                             *)

\* Whatever fails inside create() and however often it is tried, between calls
\* no attribute object is left alive, active says exactly whether there is an
\* OS thread to join, so that none is forgotten and none is joined twice, and
\* the destructor leaves none.  Lack of privilege never makes create() fail: the
\* second attempt does not meet it again.
\* On POSIX the thread has at least the stack that was asked for (unless
\* rounding it up wraps) and the system's minimum.
ThreadsBalanced ==
    /\ tpc \in {"idle", "gone"} =>
          attr = NoAttr /\ (active <=> os_thread # NoOsThread)
    /\ tpc = "gone" => ~active
    /\ tpc = "attempted" /\ err = "EPERM" => request.prio >= 0 /\ ~request.forced
    /\ Posix /\ os_thread # NoOsThread => os_thread.stack >= MinStack
    /\ Posix /\ tpc = "attempted" /\ err = "ok" /\ request.stack <= SizeT - Word =>
          os_thread.stack >= request.stack

=============================================================================
