---------------------------- MODULE EnoceanSystem ----------------------------
(***************************************************************************)
(* The running program: the application's thread carries out the steps of  *)
(* AppEntry::run_impl, the scan thread hands what is in the air to the     *)
(* driver, and the transmitters count, send and are reset or given a new   *)
(* key.  The two threads share the driver without a lock.  Ble::Scanner is *)
(* seen from outside: it delivers from start_scan on (module BleScanner).  *)
(***************************************************************************)
EXTENDS EnoceanDriver

CONSTANT MaxResets   \* bound: how often transmitters are reset

\* BadTag is what its name says, whatever key the driver may hold.
ASSUME SystemAssumption ==
    /\ MaxResets \in Nat
    /\ Rssi # {}
    /\ BadTag \notin [key : StoredKey, addr : Addr, seq : Seqs]

VARIABLES
    app,         \* the next step of run_impl
    delivering,  \* has the scan thread been started?
    nodes,       \* per address, the transmitter's key and counter
    air,         \* every telegram sent so far
    resets       \* how often transmitters have been reset

systemVars == <<vars, app, delivering, nodes, air, resets>>

SystemInit ==
    /\ Init
    /\ app = "driver_init"
    /\ delivering = FALSE
    /\ nodes \in [Addr -> [key : Key, counter : {0}]]
    /\ air = {}
    /\ resets = 0

-----------------------------------------------------------------------------
(* The application's thread.                                               *)

DriverInit ==
    /\ app = "driver_init"
    /\ init
    /\ app' = "scanner_init"
    /\ UNCHANGED <<delivering, nodes, air, resets>>

\* Either call on the scanner may fail, and then run_impl returns.
ScannerInit ==
    /\ app = "scanner_init"
    /\ app' \in {"start_scan", "returned"}
    /\ UNCHANGED <<vars, delivering, nodes, air, resets>>

StartScan ==
    /\ app = "start_scan"
    /\ \/ app' = "enable" /\ delivering' = TRUE
       \/ app' = "returned" /\ UNCHANGED delivering
    /\ UNCHANGED <<vars, nodes, air, resets>>

EnableCommissioning ==
    /\ app = "enable"
    /\ enable_commissioning
    /\ app' = "loop"
    /\ UNCHANGED <<delivering, nodes, air, resets>>

Application == DriverInit \/ ScannerInit \/ StartScan \/ EnableCommissioning

-----------------------------------------------------------------------------
(* The transmitters.  Both kinds of telegram consume one count.            *)

Telegram(a, s, p) ==
    [addr |-> a, addr_size |-> k_addr_len, addr_type |-> k_addr_random,
     adv_type |-> k_adv_nonconn_ind, rssi |-> CHOOSE r \in Rssi : TRUE,
     payload |-> [p EXCEPT !.seq = s]]

Plain(a) ==
    [size |-> k_data_payload_min, seq |-> 0, marker |-> FALSE, keyAt |-> 0,
     key |-> nodes[a].key, reserved |-> TRUE, tag |-> BadTag]

JoinTelegram(a, s) ==
    Telegram(a, s,
        IF detect_device_type(a) = "Sensor"
          THEN [Plain(a) EXCEPT !.size = k_stm_commissioning_payload_len,
                                !.marker = TRUE, !.keyAt = k_key_offset + 1]
          ELSE [Plain(a) EXCEPT !.size = k_commissioning_payload_min,
                                !.keyAt = k_key_offset])

DataTelegram(a, s) ==
    Telegram(a, s, [Plain(a) EXCEPT !.tag = [key |-> nodes[a].key, addr |-> a, seq |-> s]])

Transmit(a) ==
    /\ nodes[a].counter < UINT32_MAX
    /\ LET s == nodes[a].counter + 1
       IN  /\ nodes' = [nodes EXCEPT ![a].counter = s]
           /\ \E t \in {JoinTelegram(a, s), DataTelegram(a, s)} : air' = air \cup {t}
    /\ UNCHANGED <<vars, app, delivering, resets>>

\* A power cycle restarts the counter; a service tool may store a new key.
Reset(a) ==
    /\ resets < MaxResets
    /\ resets' = resets + 1
    /\ \E k \in Key : nodes' = [nodes EXCEPT ![a] = [key |-> k, counter |-> 0]]
    /\ UNCHANGED <<vars, app, delivering, air>>

-----------------------------------------------------------------------------
(* The radio and the scan thread.                                          *)

\* Received as sent; any number of times, in any order, or never.
Deliver(t) ==
    /\ delivering
    /\ process_advertisement(t)
    /\ UNCHANGED <<app, delivering, nodes, air, resets>>

\* Received with an error in the part the tag protects.
DeliverCorrupted(t) == Deliver([t EXCEPT !.payload.tag = BadTag])

SystemNext ==
    \/ Application
    \/ \E a \in Addr : Transmit(a) \/ Reset(a)
    \/ \E t \in air : Deliver(t) \/ DeliverCorrupted(t)

\* run_impl runs on until its loop or its return.  Transmitters repeat what they
\* send: while a telegram in the air could still change the driver, some such
\* telegram is received in the end.
Receive == \E t \in air : Deliver(t)

SystemSpec ==
    /\ SystemInit
    /\ [][SystemNext]_systemVars
    /\ WF_systemVars(Application)
    /\ WF_systemVars(Receive)

-----------------------------------------------------------------------------
(* Properties.                                                             *)

SystemTypeOK ==
    /\ TypeOK
    /\ app \in {"driver_init", "scanner_init", "start_scan", "enable", "loop", "returned"}
    /\ delivering \in BOOLEAN
    /\ nodes \in [Addr -> [key : Key, counter : Seqs]]
    /\ air \subseteq Advert
    /\ resets \in 0..MaxResets

IsData(t) == t.payload.tag # BadTag

\* Everything the application hears was sent: the announcement of a device is
\* some commissioning telegram of that device, each button or sensor event one
\* of its data telegrams, and the data telegram carries the tag of the key the
\* announcement brought.
EventsGenuine ==
    \A a \in Addr : \A i \in DOMAIN log[a] :
        \E t \in air :
            /\ t.addr = a
            /\ t.payload.seq = log[a][i].seq
            /\ IsData(t) <=> log[a][i].kind # "commissioned"
            /\ IsData(t) => t.payload.tag.key = devices[find_device(a)].key

\* start_scan comes before enable_commissioning, so telegrams arrive at a driver
\* that is not yet listening for devices: whatever arrives then leaves no trace,
\* and after a failed start nothing ever arrives.
QuietUntilEnabled ==
    app # "loop" => log = NoEvents /\ \A d \in Slots : ~devices[d].active

\* A device that sends commissioning telegrams is learnt, unless the table is
\* full by then.
LearnsDevice ==
    \A a \in Addr :
        (app = "loop" /\ \E t \in air : t.addr = a /\ ~IsData(t)) ~>
            (IsKnown(a) \/ FreeSlots = {})

\* A fresh data telegram of a known device, under the key the driver holds, does
\* not stay unheard: it is received in the end, or a later one is.
Unheard(a) ==
    /\ IsKnown(a)
    /\ \E t \in air : LET dev == devices[find_device(a)] IN
         t.payload.tag = [key |-> dev.key, addr |-> a, seq |-> t.payload.seq]
           /\ t.payload.seq > dev.seq_num

FreshReceived == \A a \in Addr : Unheard(a) ~> ~Unheard(a)

\* What the comment in handle_commissioning says of a device already known: a
\* fresh commissioning telegram corrects a stale key.
HasStaleKey(a) == IsKnown(a) /\ devices[find_device(a)].key # nodes[a].key

StaleKeyRefreshed ==
    \A a \in Addr :
        (/\ app = "loop"
         /\ HasStaleKey(a)
         /\ \E t \in air : t.addr = a /\ ~IsData(t) /\ t.payload.key = nodes[a].key) ~>
            ~HasStaleKey(a)

=============================================================================
