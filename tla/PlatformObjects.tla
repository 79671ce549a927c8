-------------------------- MODULE PlatformObjects ---------------------------
(***************************************************************************)
(* A program that uses objects of the platform layer, on either platform:  *)
(* a mutex, the LED and a semaphore shared by threads that are inside one  *)
(* call at a time; a Thread object; serial wrappers.  The objects know     *)
(* nothing of each other, so a program need not use all of them.           *)
(***************************************************************************)
EXTENDS Led, Semaphore, Thread, Serial

CONSTANT Programs    \* sets of "mutex", "led", "semaphore", "thread", "serial"

VARIABLE uses

vars == <<uses, platform, terminated, result, mutexVars, ledVars, semaphoreVars,
          threadVars, serialVars>>

Init ==
    /\ uses \in Programs
    /\ PlatformInit /\ MutexInit /\ LedInit /\ SemaphoreInit /\ ThreadInit /\ SerialInit
    /\ "semaphore" \notin uses => init_count = 1 /\ count_limit = 1
    /\ "led" \notin uses => gpio_ready
    /\ "thread" \notin uses => privileged

\* Between calls; lockers of the thread's own scopes may be alive.
BetweenCalls(t) == Free(t) /\ NotBlinking(t) /\ ~Taking(t)

UseMutex(t) ==
    /\ "mutex" \in uses /\ BetweenCalls(t)
    /\ \/ \E m \in Mutexes \ {LedMutex} :
             InitMutex(t, m) \/ \E w \in Wait : ConstructLocker(t, m, w)
       \/ DestroyLocker(t)
    /\ UNCHANGED <<uses, platform, threadVars, serialVars, ledVars, semaphoreVars>>

UseLed(t) ==
    /\ "led" \in uses /\ BetweenCalls(t)
    /\ LedBlinkerInit(t) \/ Blink(t)
    /\ UNCHANGED <<uses, platform, threadVars, serialVars, semaphoreVars>>

UseSemaphore(t) ==
    /\ "semaphore" \in uses /\ BetweenCalls(t)
    /\ (t = Initialiser /\ (InitSemaphore(t) \/ DestroySemaphore(t))) \/ give(t) \/ (\E w \in Wait : take(t, w))
    /\ UNCHANGED <<uses, platform, threadVars, serialVars, mutexVars, ledVars>>

UseThread ==
    /\ "thread" \in uses
    /\ \/ \E fn \in ThreadFunctionVariant, params \in ThreadParamVariant,
             stack \in StackSizes, prio \in Priorities : create(fn, params, stack, prio)
       \/ destroy \/ Destructor \/ DestroyFromWithin \/ ThreadFunctionReturns
    /\ UNCHANGED <<uses, platform, mutexVars, ledVars, semaphoreVars, serialVars>>

UseSerial(w) ==
    /\ "serial" \in uses
    /\ \/ initialize(w) \/ DestroySerial(w) \/ transfer(w)
       \/ \E p \in Ports : ConstructSerial(w, p)
       \/ \E other \in Wrappers : MoveConstruct(w, other) \/ MoveAssign(w, other)
    /\ UNCHANGED <<uses, platform, terminated, result, mutexVars, ledVars, semaphoreVars,
                   threadVars>>

\* A wait for a mutex ends; a blink() goes on.
MutexGoesOn(t) ==
    /\ Acquire(t) \/ TimesOut(t)
    /\ UNCHANGED <<uses, platform, threadVars, serialVars, ledVars, semaphoreVars>>
BlinkGoesOn(t) ==
    /\ Toggle(t) \/ WritePin(t) \/ EndBlink(t)
    /\ UNCHANGED <<uses, platform, threadVars, serialVars, semaphoreVars>>
TakeEnds(t) ==
    /\ TakeWakes(t) \/ TakeGivesUp(t)
    /\ UNCHANGED <<uses, platform, threadVars, serialVars, mutexVars, ledVars>>

ThreadCallGoesOn ==
    /\ CallGoesOn
    /\ UNCHANGED <<uses, platform, mutexVars, ledVars, semaphoreVars, serialVars>>

Next ==
    \/ UseThread \/ ThreadCallGoesOn
    \/ \E w \in Wrappers : UseSerial(w)
    \/ \E t \in Threads :
        UseMutex(t) \/ UseLed(t) \/ UseSemaphore(t)
          \/ MutexGoesOn(t) \/ BlinkGoesOn(t) \/ TakeEnds(t)

\* The kernel gives a free mutex to a waiter and lets deadlines pass; blink() and
\* the calls of a Thread run on.  Nobody has to call, to give a permit or to end
\* the scope of a locker.
Fairness ==
    /\ WF_vars(ThreadCallGoesOn)
    /\ \A t \in Threads : WF_vars(MutexGoesOn(t)) /\ WF_vars(BlinkGoesOn(t))

Spec == Init /\ [][Next]_vars /\ Fairness

-----------------------------------------------------------------------------
(* Properties.                                                             *)

\* Whatever fails on the way, blink() returns: threads may come to it with other
\* mutexes held, but whoever holds the LED's waits for nothing, and nobody
\* leaves blink() with it.  create() returns, retried or not, and so do
\* destroy() and ~Thread once the thread has ended.
CallsReturn ==
    /\ \A t \in Threads : ~NotBlinking(t) ~> (NotBlinking(t) \/ terminated)
    /\ tpc \in {"attr_init", "attr_stack", "attr_sched", "spawn", "attempted"} ~> tpc = "idle"
    /\ (tpc \in {"join", "dtor_join"} /\ os_thread.state = "ended") ~> tpc \in {"idle", "gone"}

=============================================================================
