-------------------------------- MODULE Led ---------------------------------
(***************************************************************************)
(* Boards::Led::LedBlinker on both platforms: one blinker shared by the    *)
(* threads, its global mutex, and the GPIO driver under it.                *)
(***************************************************************************)
EXTENDS Mutex

CONSTANTS
    LedMutex,        \* the mutex "LED" of Led.cpp, which nobody else can name
    MaxBlinks        \* bound: blinks carried out

ASSUME LedAssumption == LedMutex \in Mutexes /\ MaxBlinks \in Nat

VARIABLES
    gpio_ready,      \* what gpio_is_ready_dt says
    led_ready,       \* what the last LedBlinker::init() returned
    status, pin,     \* LedBlinker::status; the level last written
    stale,           \* history: the last write did not reach the pin
    blinking,        \* per thread: where it is inside blink()
    blinks           \* history: blinks carried out

ledVars == <<gpio_ready, led_ready, status, pin, stale, blinking, blinks>>

LedInit ==
    /\ gpio_ready \in BOOLEAN /\ led_ready = FALSE
    /\ status = FALSE /\ pin = "unset" /\ stale = FALSE
    /\ blinking = [t \in Threads |-> "no"] /\ blinks = 0

\* errno_to_gpio_error; the POSIX driver only logs and cannot fail.
zephyr_gpio_errors ==
    [EINVAL |-> "InvalidParameter", ENODEV |-> "DeviceNotAvailable", EIO |-> "IOError",
     EBUSY |-> "Busy", ENOTSUP |-> "NotSupported"]
GpioMode == {"Input", "Output", "Analog", "InputPullup", "InputPulldown",
             "OutputPullup", "OutputPulldown", "AltFunction"}

\* What do_set_mode may return for a mode.
posix_set_mode(mode) == {"ok"}
zephyr_set_mode(mode) ==
    IF ~gpio_ready THEN {"DeviceNotAvailable"}
    ELSE IF mode \in {"Analog", "AltFunction"} THEN {"InvalidMode"}
    ELSE {"ok"} \cup {Mapped(zephyr_gpio_errors, e) : e \in {"EIO", "ENOTSUP", "EPERM"}}
set_mode(mode) == IF Posix THEN posix_set_mode(mode) ELSE zephyr_set_mode(mode)

\* do_write returns nothing: an error leaves the pin as it was.
write(state) ==
    \/ pin' = state /\ stale' = FALSE /\ (Posix \/ gpio_ready)
    \/ UNCHANGED pin /\ stale' = TRUE /\ Zephyr

NotBlinking(t) == blinking[t] = "no"

\* init(): the mutex, then the pin.
LedBlinkerInit(t) ==
    /\ t = Initialiser /\ Free(t) /\ NotBlinking(t)
    /\ mutex_init(t, LedMutex)
    /\ led_ready' \in IF result' = "ok" THEN {res = "ok" : res \in set_mode("Output")}
                                             ELSE {FALSE}
    /\ UNCHANGED <<waiting, lockers, terminated, gpio_ready, status, pin, stale, blinking, blinks>>

\* Faulty variant: blink() does not look whether it got the lock.
Toggle_Unlocked(t) ==
    /\ Free(t) /\ blinking[t] = "entered"
    /\ status' = ~status
    /\ blinking' = [blinking EXCEPT ![t] = IF status' THEN "Low" ELSE "High"]
    /\ blinks' = blinks + 1
    /\ UNCHANGED <<mutexVars, terminated, result, gpio_ready, led_ready, pin, stale>>

\* blink(): a locker that waits for ever, then, if it locked, the status, the
\* level computed from it, and the write; the locker's end is DestroyLocker.
Blink(t) ==
    /\ Free(t) /\ NotBlinking(t) /\ blinks < MaxBlinks
    /\ lock(t, LedMutex, "forever")
    /\ blinking' = [blinking EXCEPT ![t] = "entered"]
    /\ UNCHANGED <<m_initialized, terminated, gpio_ready, led_ready, status, pin, stale, blinks>>

Toggle(t) ==
    /\ Free(t) /\ blinking[t] = "entered" /\ Innermost(t).locked
    /\ status' = ~status
    /\ blinking' = [blinking EXCEPT ![t] = IF status' THEN "Low" ELSE "High"]
    /\ blinks' = blinks + 1
    /\ UNCHANGED <<mutexVars, terminated, result, gpio_ready, led_ready, pin, stale>>

WritePin(t) ==
    /\ Free(t) /\ blinking[t] \in {"Low", "High"}
    /\ write(blinking[t])
    /\ blinking' = [blinking EXCEPT ![t] = "written"]
    /\ UNCHANGED <<mutexVars, terminated, result, gpio_ready, led_ready, status, blinks>>

EndBlink(t) ==
    /\ \/ blinking[t] = "entered" /\ Free(t) /\ ~Innermost(t).locked
       \/ blinking[t] = "written"
    /\ DestroyLocker(t)
    /\ blinking' = [blinking EXCEPT ![t] = "no"]
    /\ UNCHANGED <<gpio_ready, led_ready, status, pin, stale, blinks>>

-----------------------------------------------------------------------------
(* Properties.                                                             *)

\* However blink() calls of several threads overlap, none is lost and the pin
\* shows the last: between them status has flipped once per blink, and the pin
\* has the level that goes with it unless the driver failed to write it.
BlinksKept ==
    (\A t \in Threads : blinking[t] \in {"no", "entered", "written"}) =>
        /\ status = (blinks % 2 = 1)
        /\ blinks > 0 /\ ~stale => pin = IF status THEN "Low" ELSE "High"

=============================================================================
