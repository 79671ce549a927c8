----------------------------- MODULE BootProofs -----------------------------
(***************************************************************************)
(* What holds of both main() functions for every watchdog timeout, delay   *)
(* and number of boots.                                                    *)
(***************************************************************************)
EXTENDS Boot, TLAPS

-----------------------------------------------------------------------------
(* The scanner behind the static pointer.                                  *)

\* Advertisements are reported only while run_impl is where its scanner is
\* alive.  A callback that has loaded the pointer has used nothing yet, and the
\* scanner may go before it does only under a user that stops scanning.
LivingInv ==
    /\ dangling \in {0, 1}
    /\ scanning => app \in {"loop", "stop_scan"}
    /\ app \in {"start_scan", "loop", "stop_scan", "stopped"} => scanner = "alive"
    /\ loaded => dangling = 0 /\ app \in {"loop", "stop_scan", "stopped", "returned"}
    /\ app # "returned" => dangling = 0
    /\ application = "AppEntry" => /\ app \notin {"stop_scan", "stopped"}
                                  /\ dangling = 0 /\ (loaded => app = "loop")

LEMMA LivingInit == Init => LivingInv
<1> SUFFICES ASSUME Init PROVE LivingInv
  OBVIOUS
<1>1. app = "none" /\ dangling = 0
  BY DEF Init
<1>2. ~scanning /\ ~loaded
  BY Zenon DEF Init
<1> QED
  BY <1>1, <1>2 DEF LivingInv

LEMMA LivingStep == LivingInv /\ [Next]_vars => LivingInv'
<1> SUFFICES ASSUME LivingInv, [Next]_vars PROVE LivingInv'
  OBVIOUS
<1>0. application' = application
  BY DEF Next, vars
<1>1. CASE UNCHANGED <<app, bleVars>>
  BY <1>0, <1>1 DEF LivingInv, bleVars
<1>2. CASE Main \/ Tick \/ ThreadEnds
  <2>1. UNCHANGED <<app, bleVars>>
    BY <1>2 DEF Main, WatchdogInit, BtEnable, CreateMainThread, ThreadCreated, Feed,
                JoinMainThread, MainExits, InThreadCall, Tick, ThreadEnds
  <2> QED
    BY <1>1, <2>1
<1>3. CASE MainThreadStarts
  BY <1>0, <1>3 DEF MainThreadStarts, AppStep, LivingInv, bleVars
<1>4. ASSUME NEW from \in {"scanner_init", "start_scan", "stopped"}, Leaves(from) PROVE LivingInv'
  <2>1. /\ ~scanning /\ app = from /\ app' = "returned" /\ dangling' = dangling
        /\ loaded' = loaded /\ dangling = 0
    BY <1>4 DEF Leaves, AppStep, LivingInv
  <2>2. ~scanning'
    BY <1>4, <2>1, Zenon DEF Leaves
  <2>3. application = "AppEntry" => ~loaded
    BY <1>4, <2>1 DEF LivingInv
  <2> QED
    BY <1>0, <2>1, <2>2, <2>3 DEF LivingInv
<1>5. CASE ScannerInit \/ start_scan_impl
  <2>1. CASE /\ AppStep("scanner_init", "start_scan") /\ scanner' = "alive"
             /\ UNCHANGED <<scanning, loaded, dangling>>
    BY <1>0, <2>1 DEF AppStep, LivingInv
  <2>2. CASE /\ AppStep("start_scan", IF application = "AppEntry" THEN "loop" ELSE "stop_scan")
             /\ UNCHANGED <<scanner, loaded, dangling>>
    BY <1>0, <2>2 DEF AppStep, LivingInv
  <2> QED
    BY <1>4, <1>5, <2>1, <2>2 DEF ScannerInit, start_scan_impl
<1>6. CASE stop_scan_impl
  BY <1>0, <1>6 DEF stop_scan_impl, AppStep, LivingInv, bleVars
<1>7. CASE Stopped
  BY <1>4, <1>7 DEF Stopped
<1>8. CASE scan_cb_load
  BY <1>0, <1>8 DEF scan_cb_load, LivingInv
<1>9. CASE scan_cb_use
  <2>1. /\ loaded /\ dangling = 0 /\ UNCHANGED <<app, scanner, scanning>>
        /\ dangling' = dangling + (IF scanner = "alive" THEN 0 ELSE 1)
    BY <1>9 DEF scan_cb_use, LivingInv
  <2>2. ~loaded'
    BY <1>9, Zenon DEF scan_cb_use
  <2>3. dangling' = 0 \/ (dangling' = 1 /\ scanner # "alive")
    BY <2>1
  <2>4. scanner # "alive" => app = "returned" /\ application # "AppEntry"
    BY <2>1 DEF LivingInv
  <2> QED
    BY <1>0, <2>1, <2>2, <2>3, <2>4 DEF LivingInv
<1>10. CASE Reset
  <2>1. app' = "none" /\ dangling' = 0
    BY <1>10 DEF Reset
  <2>2. ~scanning' /\ ~loaded'
    BY <1>10, Zenon DEF Reset
  <2> QED
    BY <2>1, <2>2 DEF LivingInv
<1> QED
  BY <1>1, <1>2, <1>3, <1>4, <1>5, <1>6, <1>7, <1>8, <1>9, <1>10 DEF Next, App, Radio, vars

\* No callback of the Bluetooth stack reaches a Scanner of AppEntry's that is
\* gone, however often starting a scan fails; and a user that stops its scan
\* meets at most the one callback that was under way.
THEOREM CallbacksFindTheirScanner == Spec => []CallsLiving
<1>1. LivingInv => CallsLiving
  BY DEF LivingInv, CallsLiving
<1> QED
  BY <1>1, LivingInit, LivingStep, PTL DEF Spec

-----------------------------------------------------------------------------
(* The watchdog.                                                           *)

\* How long main() may already have been under way since the watchdog was last
\* fed or armed, when it comes to a step.
Behind ==
    IF main = "bt_enable" THEN 0
    ELSE IF main \in {"create", "created"} THEN MaxDelay ELSE 2 * MaxDelay

WatchdogTypes ==
    /\ platform \in {"posix", "zephyr"}
    /\ main \in {"watchdog_init", "bt_enable", "create", "created", "feed", "join", "joined",
                 "returned"}
    /\ wake \in Nat /\ late \in 0..MaxDelay /\ unfed \in Nat /\ armed \in BOOLEAN
    /\ slow \in BOOLEAN

\* The watchdog counts from wdt_setup on, on Zephyr only, and, as long as no
\* step was slow, has counted no more than the steps of main() since it was fed,
\* and the sleep that is left.
WatchdogInv ==
    /\ WatchdogTypes
    /\ Posix => ~armed
    /\ main \in {"join", "joined"} => Posix
    /\ main = "watchdog_init" => ~armed /\ Zephyr
    /\ wake > 0 => main = "feed" /\ late = 0
    /\ armed /\ main # "returned" /\ ~slow => unfed + wake <= Behind + late

LEMMA WatchdogInvInit == Init => WatchdogInv
<1> SUFFICES ASSUME Init PROVE WatchdogInv
  OBVIOUS
<1>1. /\ platform \in {"posix", "zephyr"} /\ main \in {"create", "watchdog_init"}
      /\ main = "watchdog_init" => Zephyr
      /\ wake = 0 /\ late = 0 /\ unfed = 0 /\ armed = FALSE
  BY DEF Init, PlatformInit, FirstStep, Posix, Zephyr
<1>2. late \in 0..MaxDelay /\ wake \in Nat /\ unfed \in Nat
  BY <1>1, BootAssumption
<1>3. armed \in BOOLEAN /\ ~armed /\ slow \in BOOLEAN
  BY Zenon DEF Init
<1>4. WatchdogTypes
  BY <1>1, <1>2, <1>3 DEF WatchdogTypes
<1>5. ~(wake > 0)
  BY <1>1
<1> QED
  BY <1>1, <1>3, <1>4, <1>5 DEF WatchdogInv

LEMMA WatchdogInvStep == WatchdogInv /\ [Next]_vars => WatchdogInv'
<1> SUFFICES ASSUME WatchdogInv, [Next]_vars PROVE WatchdogInv'
  OBVIOUS
<1> USE BootAssumption DEF WatchdogTypes, Behind, Posix, Zephyr
<1>1. CASE UNCHANGED <<platform, main, boardVars>>
  BY <1>1 DEF WatchdogInv, boardVars
<1>2. CASE App \/ Radio \/ InThreadCall
  <2>1. UNCHANGED <<main, boardVars>>
    BY <1>2 DEF App, Radio, InThreadCall, MainThreadStarts, ScannerInit, start_scan_impl, Stopped,
                ThreadEnds, stop_scan_impl, scan_cb_load, scan_cb_use, Leaves, AppStep
  <2>2. UNCHANGED platform
    BY DEF Next, vars
  <2> QED
    BY <1>1, <2>1, <2>2
<1>3. UNCHANGED platform
  BY DEF Next, vars
<1>4. CASE WatchdogInit
  <2>1. main = "watchdog_init" /\ wake = 0 /\ wake' = 0 /\ late' = 0 /\ ~armed /\ ~Posix
    BY <1>4 DEF WatchdogInit, MainReady, Goes, Exits, WatchdogInv
  <2>2. CASE main' = "bt_enable" /\ armed' = TRUE /\ unfed' = 0 /\ slow' = FALSE
    <3>1. slow' \in BOOLEAN /\ armed' \in BOOLEAN
      BY <2>2, Zenon
    <3> QED  BY <1>3, <2>1, <2>2, <3>1 DEF WatchdogInv
  <2>3. CASE main' = "returned" /\ UNCHANGED <<armed, unfed, slow>>
    BY <1>3, <2>1, <2>3 DEF WatchdogInv
  <2>4. \A e \in {"EBUSY", "EIO"} : watchdog_error(e) # "ok"
    BY DEF watchdog_error, watchdog_errors
  <2> QED
    BY <1>4, <2>2, <2>3, <2>4 DEF WatchdogInit, init_impl, Goes, Exits
<1>5. CASE BtEnable
  BY <1>3, <1>5 DEF BtEnable, MainReady, Goes, Exits, WatchdogInv
<1>6. CASE CreateMainThread
  BY <1>3, <1>6 DEF CreateMainThread, MainReady, WatchdogInv, boardVars
<1>7. CASE ThreadCreated
  BY <1>3, <1>7 DEF ThreadCreated, MainReady, Goes, Exits, WatchdogInv
<1>8. CASE Feed
  <2>1. slow' \in BOOLEAN
    BY <1>8, Zenon DEF Feed, feed
  <2> QED  BY <1>3, <1>8, <2>1 DEF Feed, MainReady, feed, k_sleep, Goes, WatchdogInv
<1>9. CASE JoinMainThread \/ MainExits
  BY <1>3, <1>9 DEF JoinMainThread, MainExits, MainReady, Goes, Exits, WatchdogInv
<1>10. CASE Tick
  <2>1. slow' \in BOOLEAN
    BY <1>10, Zenon DEF Tick
  <2>2. /\ ~slow' => ~slow /\ ~(Stepping /\ late = MaxDelay)
        /\ UNCHANGED <<main, armed>>
    BY <1>10, Zenon DEF Tick
  <2>3. /\ wake' = IF wake = 0 THEN 0 ELSE wake - 1
        /\ late' = IF ~Stepping THEN 0 ELSE IF late < MaxDelay THEN late + 1 ELSE late
        /\ unfed' = IF armed THEN unfed + 1 ELSE 0
        /\ platform = "zephyr"
    BY <1>10 DEF Tick
  <2>4. WatchdogTypes'
    BY <1>3, <2>1, <2>2, <2>3 DEF WatchdogInv
  <2>5. wake' > 0 => main' = "feed" /\ late' = 0
    BY <2>2, <2>3 DEF WatchdogInv, Stepping
  <2>6. armed' /\ main' # "returned" /\ ~slow' => unfed' + wake' <= Behind' + late'
    BY <2>2, <2>3 DEF WatchdogInv, Stepping
  <2> QED  BY <1>3, <2>2, <2>3, <2>4, <2>5, <2>6 DEF WatchdogInv
<1>11. CASE Reset
  <2>1. main' = FirstStep /\ wake' = 0 /\ late' = 0 /\ armed' = FALSE /\ unfed' = 0
    BY <1>11 DEF Reset
  <2>2. FirstStep = IF platform = "posix" THEN "create" ELSE "watchdog_init"
    BY DEF FirstStep
  <2>3. armed' \in BOOLEAN /\ ~armed' /\ slow' \in BOOLEAN
    BY <1>11, Zenon DEF Reset
  <2>4. wake' \in Nat /\ late' \in 0..MaxDelay /\ unfed' \in Nat /\ ~(wake' > 0)
    BY <2>1
  <2>5. main' \in {"create", "watchdog_init"} /\ (main' = "watchdog_init" => Zephyr')
    BY <1>3, <2>1, <2>2 DEF WatchdogInv
  <2>6. platform' \in {"posix", "zephyr"}
    BY <1>3 DEF WatchdogInv
  <2> QED
    BY <2>3, <2>4, <2>5, <2>6 DEF WatchdogInv
<1> QED
  BY <1>1, <1>2, <1>4, <1>5, <1>6, <1>7, <1>8, <1>9, <1>10, <1>11
     DEF Next, Main, vars, boardVars

\* The watchdog never expires under a main() that has not given up and was not
\* slow, for every timeout longer than the three longest steps between arming
\* and feeding it.
THEOREM NoSpuriousReset == Spec => [](Expired => main = "returned" \/ slow)
<1>1. WatchdogInv => (Expired => main = "returned" \/ slow)
  BY BootAssumption DEF WatchdogInv, WatchdogTypes, Behind, Expired
<1> QED
  BY <1>1, WatchdogInvInit, WatchdogInvStep, PTL DEF Spec

-----------------------------------------------------------------------------
(* The application's thread.                                               *)

\* main() has no thread before it creates one; inside create() there is one
\* once the attempt has succeeded; afterwards there is one if create() said so,
\* and main() waits for it before it returns.
Threadless == ~active /\ os_thread = NoOsThread
HasThread == active /\ os_thread # NoOsThread
OwnerInv ==
    /\ main \in {"watchdog_init", "bt_enable", "create", "created", "feed", "join", "joined",
                 "returned"}
    /\ main \in {"watchdog_init", "bt_enable", "create", "returned"} =>
          tpc = "idle" /\ Threadless
    /\ main = "created" =>
          \/ tpc = "idle" /\ result # "ok" /\ Threadless
          \/ tpc = "idle" /\ result = "ok" /\ HasThread
          \/ tpc \in {"attr_init", "attr_stack", "attr_sched", "spawn"} /\ Threadless
          \/ tpc = "attempted" /\ ~active /\ (err = "ok" <=> os_thread # NoOsThread)
    /\ main \in {"feed", "join"} => tpc = "idle" /\ HasThread
    /\ main = "joined" =>
          \/ tpc = "join" /\ HasThread
          \/ tpc = "idle" /\ Threadless

LEMMA OwnerInit == Init => OwnerInv
<1> SUFFICES ASSUME Init PROVE OwnerInv
  OBVIOUS
<1>1. main \in {"create", "watchdog_init"} /\ tpc = "idle" /\ os_thread = NoOsThread
  BY DEF Init, ThreadInit, FirstStep
<1>2. ~active
  BY Zenon DEF Init, ThreadInit
<1> QED
  BY <1>1, <1>2 DEF OwnerInv, Threadless, HasThread

\* No errno is reported as success.
LEMMA ErrnoIsError ==
    ASSUME NEW e  PROVE Mapped(posix_thread_errors, e) # "ok"
BY DEF Mapped, posix_thread_errors

\* A create() that returns says whether it made a thread.
LEMMA CreateTells ==
    ASSUME NEW rc, ~active, CreateReturns(rc), main' = "created",
           rc = "ok" <=> os_thread' # NoOsThread
    PROVE  OwnerInv'
<1>1. tpc' = "idle" /\ result' = rc /\ (active' <=> rc = "ok")
  BY Zenon DEF CreateReturns
<1> QED
  BY <1>1 DEF OwnerInv, Threadless, HasThread, NoOsThread

LEMMA OwnerStep == OwnerInv /\ [Next]_vars => OwnerInv'
<1> SUFFICES ASSUME OwnerInv, [Next]_vars PROVE OwnerInv'
  OBVIOUS
<1>1. CASE UNCHANGED <<main, threadVars, result>>
  BY <1>1 DEF OwnerInv, Threadless, HasThread, threadVars, NoOsThread
<1>2. CASE (App /\ ~ThreadEnds) \/ Radio \/ Tick
  <2>1. UNCHANGED <<main, threadVars, result>>
    BY <1>2 DEF App, Radio, Tick, MainThreadStarts, ScannerInit, start_scan_impl, Stopped,
                stop_scan_impl, scan_cb_load, scan_cb_use, Leaves, AppStep
  <2> QED
    BY <1>1, <2>1
<1>3. CASE ThreadEnds
  <2>1. /\ os_thread.state = "running" /\ UNCHANGED <<main, active, tpc, err, result>>
        /\ NoOsThread.state = "none"
    BY <1>3 DEF ThreadEnds, ThreadFunctionReturns, NoOsThread
  <2>2. os_thread # NoOsThread
    BY <2>1
  <2>3. os_thread' # NoOsThread
    <3>1. os_thread' = [os_thread EXCEPT !.state = "ended"]
      BY <1>3 DEF ThreadEnds, ThreadFunctionReturns
    <3>2. DOMAIN os_thread' = DOMAIN os_thread
      BY <3>1
    <3>3. "state" \in DOMAIN os_thread => os_thread'.state = "ended"
      BY <3>1
    <3>4. "state" \in DOMAIN NoOsThread
      BY DEF NoOsThread
    <3> QED
      BY <2>1, <3>2, <3>3, <3>4
  <2> QED
    BY <2>1, <2>2, <2>3 DEF OwnerInv, Threadless, HasThread, NoOsThread
<1>4. CASE WatchdogInit \/ BtEnable
  BY <1>4 DEF WatchdogInit, BtEnable, MainReady, Goes, Exits, OwnerInv, Threadless, HasThread,
              threadVars, NoOsThread
<1>5. CASE CreateMainThread
  <2>1. /\ main = "create" /\ main' = "created" /\ tpc = "idle" /\ Threadless
    BY <1>5 DEF CreateMainThread, MainReady, OwnerInv
  <2>2. PICK stack \in StackSizes : create(EntryFunction, "absent", stack, 1)
    BY <1>5 DEF CreateMainThread
  <2>3. CASE \E rc : rc # "ok" /\ CreateReturns(rc) /\ UNCHANGED os_thread
    BY <2>1, <2>3, CreateTells DEF Threadless
  <2>4. CASE CreateReturns("ok") /\ os_thread'.state = "running"
    <3>1. os_thread' # NoOsThread
      BY <2>4 DEF NoOsThread
    <3> QED
      BY <2>1, <2>4, <3>1, CreateTells DEF Threadless
  <2>5. CASE tpc' = "attr_init" /\ UNCHANGED <<active, os_thread>>
    BY <2>1, <2>5 DEF OwnerInv, Threadless, HasThread, NoOsThread
  <2>6. CASE \E req : posix_os_create(req)
    BY <2>3, <2>5, <2>6 DEF posix_os_create
  <2>7. CASE \E req : zephyr_os_create(req)
    <3> PICK req : zephyr_os_create(req)
      BY <2>7
    <3>1. CASE \E rc \in {"InvalidParameter", "CreationFailed"} :
                  CreateReturns(rc) /\ UNCHANGED os_thread
      BY <2>3, <3>1
    <3>2. CASE /\ CreateReturns("ok")
               /\ os_thread' = [state |-> "running", stack |-> req.stack, sched |-> req.prio]
      <4>1. os_thread'.state = "running"
        BY <3>2
      <4> QED
        BY <2>4, <3>2, <4>1
    <3> QED
      BY <3>1, <3>2 DEF zephyr_os_create
  <2> QED
    BY <2>1, <2>2, <2>6, <2>7 DEF create, Threadless
<1>6. CASE ThreadCreated
  BY <1>6 DEF ThreadCreated, MainReady, Goes, Exits, OwnerInv, Threadless, HasThread, threadVars,
              NoOsThread
<1>7. CASE Feed
  BY <1>7 DEF Feed, MainReady, Goes, OwnerInv, Threadless, HasThread, threadVars, NoOsThread
<1>8. CASE JoinMainThread
  BY <1>8 DEF JoinMainThread, destroy, MainReady, Goes, OwnerInv, Threadless, HasThread, NoOsThread
<1>9. CASE MainExits
  BY <1>9 DEF MainExits, MainReady, Goes, Exits, OwnerInv, Threadless, HasThread, threadVars,
              NoOsThread
<1>10. CASE InThreadCall
  <2>1. main' = main
    BY <1>10 DEF InThreadCall
  <2>2. CASE AttrInit \/ AttrStack \/ AttrSched
    BY <2>1, <2>2 DEF AttrInit, AttrStack, AttrSched, AttemptEnds, OwnerInv, Threadless, HasThread,
                      NoOsThread
  <2>3. CASE Spawn
    <3>1. /\ tpc = "spawn" /\ tpc' = "attempted" /\ active' = active
          /\ \/ err' = "ok" /\ os_thread'.state = "running"
             \/ err' # "ok" /\ os_thread' = os_thread
      BY <2>3 DEF Spawn, AttemptEnds
    <3> QED
      BY <2>1, <3>1 DEF OwnerInv, Threadless, HasThread, NoOsThread
  <2>4. CASE Attempted
    <3>1. /\ main = "created" /\ ~active /\ (err = "ok" <=> os_thread # NoOsThread)
          /\ os_thread' = os_thread
      BY <2>4 DEF Attempted, OwnerInv
    <3>2. CASE tpc' = "attr_init" /\ err = "EPERM" /\ active' = active
      BY <2>1, <3>1, <3>2 DEF OwnerInv, Threadless, HasThread, NoOsThread
    <3>3. CASE err = "ok" /\ CreateReturns("ok")
      BY <2>1, <3>1, <3>3, CreateTells DEF NoOsThread
    <3>4. CASE err # "ok" /\ CreateReturns(Mapped(posix_thread_errors, err))
      BY <2>1, <3>1, <3>4, CreateTells, ErrnoIsError DEF NoOsThread
    <3> QED
      BY <2>4, <3>2, <3>3, <3>4 DEF Attempted
  <2>5. CASE os_destroy
    <3>1. main = "joined" /\ tpc' = "idle" /\ os_thread' = NoOsThread
      BY <2>5 DEF os_destroy, OwnerInv
    <3>2. ~active'
      BY <2>5, Zenon DEF os_destroy
    <3> QED
      BY <2>1, <3>1, <3>2 DEF OwnerInv, Threadless, HasThread, NoOsThread
  <2> QED
    BY <1>10, <2>2, <2>3, <2>4, <2>5 DEF InThreadCall, CallGoesOn
<1>11. CASE Reset
  <2>1. main' \in {"create", "watchdog_init"} /\ tpc' = "idle" /\ os_thread' = NoOsThread
    BY <1>11 DEF Reset, FirstStep
  <2>2. ~active'
    BY <1>11, Zenon DEF Reset
  <2> QED
    BY <2>1, <2>2 DEF OwnerInv, Threadless, HasThread, NoOsThread
<1> QED
  BY <1>1, <1>2, <1>3, <1>4, <1>5, <1>6, <1>7, <1>8, <1>9, <1>10, <1>11
     DEF Next, Main, App, vars

\* Neither main() returns while the thread it created is still there, and none
\* joins it or goes on to feed the watchdog without having it, whichever attempt
\* of create() made the thread or failed, on either platform.
THEOREM MainKeepsItsThread ==
    Spec => [](/\ main = "returned" => os_thread = NoOsThread
               /\ main \in {"feed", "join"} => os_thread # NoOsThread)
<1>1. OwnerInv => /\ main = "returned" => os_thread = NoOsThread
                  /\ main \in {"feed", "join"} => os_thread # NoOsThread
  BY DEF OwnerInv, Threadless, HasThread
<1> QED
  BY <1>1, OwnerInit, OwnerStep, PTL DEF Spec

=============================================================================
