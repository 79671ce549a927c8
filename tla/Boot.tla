-------------------------------- MODULE Boot --------------------------------
(***************************************************************************)
(* The two main() functions: on Zephyr the watchdog, Bluetooth, the        *)
(* application's thread and the loop that feeds the watchdog; on POSIX the *)
(* thread and the wait for its end.  The thread runs AppEntry::run_impl;   *)
(* on Zephyr its scanner gets advertisements from the Bluetooth stack      *)
(* through a static pointer.  Time passes in seconds.                      *)
(***************************************************************************)
EXTENDS Thread

CONSTANTS
    Applications,     \* "AppEntry", and "stops": a user of IBle that stops scanning
    WdtTimeout,       \* seconds, 10 in main()
    MaxDelay,         \* seconds; a step of main() that takes longer is slow
    MaxBoots          \* bound: boots of the board

ASSUME BootAssumption ==
    /\ Applications \subseteq {"AppEntry", "stops"}
    /\ WdtTimeout \in Nat /\ MaxDelay \in Nat \ {0} /\ MaxBoots \in Nat
    /\ 3 * MaxDelay < WdtTimeout

VARIABLES
    application,
    main,             \* the next step of main(), or "returned"
    exit,             \* what it returned
    wake, late,       \* seconds main() still sleeps; seconds its step takes so far,
                      \* counted up to MaxDelay
    slow,             \* history: a step was slow since the watchdog was armed or fed
    armed, unfed,     \* the watchdog counts; seconds since it was fed
    app,              \* the next step of run_impl, "none" before, or "returned"
    scanner,          \* the Scanner object of run_impl: "none", "alive", "destroyed"
    s_instance,       \* s_instance_ points to it, its scan_cb_ is registered
    scanning,         \* the Bluetooth stack reports advertisements
    loaded,           \* a callback has loaded the pointer and not used it yet
    dangling,         \* history: callbacks that used a Scanner that is destroyed
    boots

boardVars == <<armed, unfed, wake, late, slow>>
bleVars == <<scanner, s_instance, scanning, loaded, dangling>>
vars == <<platform, terminated, result, threadVars, application, main, exit, boardVars,
          app, bleVars, boots>>

FirstStep == IF Posix THEN "create" ELSE "watchdog_init"

Init ==
    /\ PlatformInit /\ ThreadInit /\ application \in Applications
    /\ main = FirstStep /\ exit = 0 /\ wake = 0 /\ late = 0
    /\ slow = FALSE /\ armed = FALSE /\ unfed = 0
    /\ app = "none" /\ scanner = "none" /\ s_instance = FALSE
    /\ scanning = FALSE /\ loaded = FALSE /\ dangling = 0 /\ boots = 1

-----------------------------------------------------------------------------
(* WatchdogDriver.                                                         *)

watchdog_errors ==
    [ENOTSUP |-> "NotSupported", EINVAL |-> "InvalidParameter", ENODEV |-> "DeviceNotFound",
     EBUSY |-> "AlreadyInitialized"]
watchdog_error(errno) ==
    IF errno \in DOMAIN watchdog_errors THEN watchdog_errors[errno] ELSE "HardwareError"

\* Installing the timeout is tried once more when it is not supported; only
\* wdt_setup makes the watchdog count.
init_impl ==
    \/ result' = "DeviceNotReady" /\ UNCHANGED <<armed, unfed, slow>>
    \/ result' = "ConfigurationError" /\ UNCHANGED <<armed, unfed, slow>>
    \/ /\ \E e \in {"EBUSY", "EIO"} : result' = watchdog_error(e)
       /\ UNCHANGED <<armed, unfed, slow>>
    \/ result' = "ok" /\ armed' = TRUE /\ unfed' = 0 /\ slow' = FALSE

feed == unfed' = 0 /\ slow' = FALSE

-----------------------------------------------------------------------------
(* main().                                                                 *)

MainReady(step) == main = step /\ wake = 0
Goes(step) == main' = step /\ late' = 0
Exits(code) == Goes("returned") /\ exit' = code

WatchdogInit ==
    /\ MainReady("watchdog_init")
    /\ init_impl
    /\ IF result' = "ok" THEN Goes("bt_enable") /\ UNCHANGED exit ELSE Exits(-1)
    /\ UNCHANGED <<threadVars, terminated, wake, app, bleVars>>

BtEnable ==
    /\ MainReady("bt_enable")
    /\ (Goes("create") /\ UNCHANGED exit) \/ Exits(-1)
    /\ UNCHANGED <<threadVars, terminated, result, armed, unfed, slow, wake, app, bleVars>>

EntryFunction == IF Posix THEN "ThreadFunction1" ELSE "ThreadFunction3"
CreateMainThread ==
    /\ MainReady("create")
    /\ \E stack \in StackSizes : create(EntryFunction, "absent", stack, 1)
    /\ main' = "created"
    /\ UNCHANGED <<exit, boardVars, app, bleVars>>

ThreadCreated ==
    /\ MainReady("created") /\ tpc = "idle"
    /\ IF result = "ok" THEN Goes(IF Posix THEN "join" ELSE "feed") /\ UNCHANGED exit
                        ELSE Exits(-1)
    /\ UNCHANGED <<threadVars, terminated, result, armed, unfed, slow, wake, app, bleVars>>

\* Faulty variant: it sleeps for ten seconds.
k_sleep_Long == 10
k_sleep == 1                  \* sleep_ms(1000)

\* watchdog.feed() and sleep_ms(1000), whatever became of the application.
Feed ==
    /\ MainReady("feed")
    /\ feed
    /\ wake' = k_sleep
    /\ Goes("feed")
    /\ UNCHANGED <<threadVars, terminated, result, exit, armed, app, bleVars>>

JoinMainThread ==
    /\ MainReady("join")
    /\ destroy
    /\ Goes("joined")
    /\ UNCHANGED <<exit, armed, unfed, slow, wake, app, bleVars>>
MainExits ==
    /\ MainReady("joined") /\ tpc = "idle"
    /\ Exits(0)
    /\ UNCHANGED <<threadVars, terminated, result, armed, unfed, slow, wake, app, bleVars>>

InThreadCall == CallGoesOn /\ UNCHANGED <<main, exit, boardVars, app, bleVars>>

Main ==
    \/ WatchdogInit \/ BtEnable \/ CreateMainThread \/ ThreadCreated \/ Feed
    \/ JoinMainThread \/ MainExits \/ InThreadCall

-----------------------------------------------------------------------------
(* run_impl on the application's thread, with the Zephyr Scanner.          *)

AppStep(from, to) ==
    /\ app = from /\ app' = to
    /\ UNCHANGED <<threadVars, terminated, result, main, exit, boardVars>>

\* run_impl returns: the scanner goes with it.  Zephyr's destructor does
\* nothing; POSIX's stops the scan.
Leaves(from) ==
    /\ AppStep(from, "returned")
    /\ scanner' = IF scanner = "alive" THEN "destroyed" ELSE scanner
    /\ scanning' = (scanning /\ Zephyr)
    /\ UNCHANGED <<s_instance, loaded, dangling>>

MainThreadStarts ==
    /\ os_thread.state = "running"
    /\ AppStep("none", "scanner_init")
    /\ UNCHANGED bleVars

\* IBle::init and init_impl: on Zephyr it cannot fail.
ScannerInit ==
    \/ /\ AppStep("scanner_init", "start_scan")
       /\ scanner' = "alive" /\ s_instance' = TRUE
       /\ UNCHANGED <<scanning, loaded, dangling>>
    \/ Posix /\ Leaves("scanner_init")

\* Faulty variant: an error of bt_le_scan_start is taken for success, and a
\* success for an error.
start_scan_impl_Inverted ==
    \/ /\ AppStep("start_scan", IF application = "AppEntry" THEN "loop" ELSE "stop_scan")
       /\ UNCHANGED bleVars
    \/ /\ AppStep("start_scan", "returned")
       /\ scanner' = "destroyed" /\ scanning' = Zephyr
       /\ UNCHANGED <<s_instance, loaded, dangling>>

start_scan_impl ==
    \/ /\ AppStep("start_scan", IF application = "AppEntry" THEN "loop" ELSE "stop_scan")
       /\ scanning' = TRUE
       /\ UNCHANGED <<scanner, s_instance, loaded, dangling>>
    \/ Leaves("start_scan")

\* A user that stops calls again until it succeeds, and returns.
stop_scan_impl ==
    \/ /\ AppStep("stop_scan", "stopped") /\ scanning' = FALSE
       /\ UNCHANGED <<scanner, s_instance, loaded, dangling>>
    \/ AppStep("stop_scan", "stop_scan") /\ UNCHANGED bleVars
Stopped == Leaves("stopped")

ThreadEnds ==
    /\ app = "returned" /\ ThreadFunctionReturns
    /\ UNCHANGED <<main, exit, boardVars, app, bleVars>>

\* The BT RX thread, with an advertisement: the pointer is loaded, and later the
\* Scanner it points to is used.  Nothing waits for a callback in between.
scan_cb_load ==
    /\ Zephyr /\ scanning /\ s_instance /\ ~loaded
    /\ loaded' = TRUE
    /\ UNCHANGED <<threadVars, terminated, result, main, exit, boardVars, app, scanner,
                   s_instance, scanning, dangling>>
scan_cb_use ==
    /\ loaded
    /\ loaded' = FALSE
    /\ dangling' = dangling + (IF scanner = "alive" THEN 0 ELSE 1)
    /\ UNCHANGED <<threadVars, terminated, result, main, exit, boardVars, app, scanner,
                   s_instance, scanning>>

App == MainThreadStarts \/ ScannerInit \/ start_scan_impl \/ Stopped \/ ThreadEnds
Radio == stop_scan_impl \/ scan_cb_load \/ scan_cb_use

-----------------------------------------------------------------------------
(* Time, and the board.                                                    *)

Expired == armed /\ unfed >= WdtTimeout

\* main() is inside one of its steps, not asleep and not at its end.
Stepping == main # "returned" /\ wake = 0

\* Nothing bounds how long a step of main() takes.
Tick ==
    /\ Zephyr /\ ~Expired
    /\ wake' = IF wake = 0 THEN 0 ELSE wake - 1
    /\ late' = IF ~Stepping THEN 0 ELSE IF late < MaxDelay THEN late + 1 ELSE late
    /\ slow' = (slow \/ (Stepping /\ late = MaxDelay))
    /\ unfed' = IF armed THEN unfed + 1 ELSE 0
    /\ UNCHANGED <<threadVars, terminated, result, main, exit, armed, app, bleVars>>

\* WDT_FLAG_RESET_SOC: the board starts again from nothing.
Reset ==
    /\ Expired /\ boots < MaxBoots
    /\ boots' = boots + 1
    /\ main' = FirstStep /\ exit' = 0 /\ wake' = 0 /\ late' = 0
    /\ slow' = FALSE /\ armed' = FALSE /\ unfed' = 0
    /\ active' = FALSE /\ tpc' = "idle" /\ request' = NoRequest
    /\ attr' = NoAttr /\ err' = "ok" /\ os_thread' = NoOsThread
    /\ app' = "none" /\ scanner' = "none" /\ s_instance' = FALSE
    /\ scanning' = FALSE /\ loaded' = FALSE /\ dangling' = 0
    /\ UNCHANGED <<privileged, terminated, result>>

Next ==
    \/ (Main \/ App \/ Radio \/ Tick) /\ UNCHANGED <<platform, application, boots>>
    \/ Reset /\ UNCHANGED <<platform, application>>

\* main() and the application run on, the clock ticks, a watchdog that has
\* expired resets.  bt_enable need not return, stopping a scan need not succeed,
\* the air may be silent and a callback may be held up for ever.
Fairness ==
    /\ WF_vars(Main /\ main # "bt_enable" /\ UNCHANGED <<platform, application, boots>>)
    /\ WF_vars(App /\ UNCHANGED <<platform, application, boots>>)
    /\ WF_vars(Tick /\ UNCHANGED <<platform, application, boots>>)
    /\ WF_vars(Reset /\ UNCHANGED <<platform, application>>)

Spec == Init /\ [][Next]_vars /\ Fairness

-----------------------------------------------------------------------------
(* Properties.                                                             *)

\* How far the Bluetooth stack calls into a Scanner that is gone: never under
\* AppEntry, since run_impl leaves only when no scan was started; at most once
\* under a user that stops its scan before it leaves, with the callback that
\* was under way when the scan stopped.  No more holds: nothing resets
\* s_instance_ or unregisters scan_cb_, stop_scan_impl does not wait for a
\* callback, and zephyr_scan_cb may lose the processor between the load and
\* the use.
CallsLiving ==
    /\ application = "AppEntry" => dangling = 0
    /\ dangling <= 1

\* The watchdog resets the board only when main() has given up or was slow since
\* it last fed it.  With the watchdog counting, main() comes to its feeding
\* loop or the board starts again, until the bound, also when bt_enable fails
\* or does not return.  On POSIX main() ends once the application has; neither
\* main() ever leaves the application's thread behind.
BootRecovers ==
    /\ [](Expired => main = "returned" \/ slow)
    /\ [](main = "returned" => os_thread = NoOsThread)
    /\ (armed /\ main # "feed") ~> (main = "feed" \/ ~armed \/ boots = MaxBoots)
    /\ (Posix /\ app = "returned") ~> (main = "returned")

=============================================================================
