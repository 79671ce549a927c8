---------------------------- MODULE EnoceanDriver ----------------------------
(***************************************************************************)
(* The receiver's core: EnoceanDriver<CryptoBackend> of                    *)
(* src/enocean/EnoceanDriver.ipp.  It keeps a fixed table of commissioned  *)
(* devices and turns each BLE advertisement handed to it into at most one  *)
(* callback of the application.                                            *)
(*                                                                         *)
(* process_advertisement runs on one thread at a time (the scan thread),   *)
(* so one advertisement is one step here; module EnoceanSystem takes the   *)
(* threads apart.  An advertisement that an early return drops without     *)
(* touching the driver is a stuttering step and has no action.             *)
(***************************************************************************)
EXTENDS Integers, Sequences, FiniteSets

CONSTANTS
    Addr,        \* BLE addresses <<byte 5, byte 4, the other four bytes>>
    Key,         \* AES-128 keys that transmitters own
    MisreadKey,  \* sixteen bytes that are no transmitter's key
    BadTag,      \* four bytes that are no tag of the payload before them
    Rssi,        \* signal strengths
    UINT32_MAX,  \* the last sequence number
    k_max_devices,
    Callbacks,   \* the callbacks the application registered
    Adverts      \* the advertisements the radio may hand over

DeviceType == {"Switch", "Sensor", "Unknown"}
Kind == {"commissioned", "button", "sensor"}

Seqs == 0..UINT32_MAX
Slots == 1..k_max_devices

\* What a default-constructed EnoceanDevice holds.
ZeroAddr == <<0, 0, 0>>
ZeroKey == "zero"
ZeroRssi == 0

StoredKey == Key \cup {MisreadKey, ZeroKey}
Tag == [key : Key, addr : Addr, seq : Seqs] \cup {BadTag}

(***************************************************************************)
(* The manufacturer payload, by what the handlers look at: its size (0     *)
(* when extract_manufacturer_data found none), the sequence number, is the *)
(* byte at offset 4 the marker 0x3E, at which offset did the transmitter   *)
(* write which key (0: it wrote none), are the reserved bits of the state  *)
(* byte clear, and what the closing tag was computed from.                 *)
(***************************************************************************)
Payload == [size : Nat, seq : Seqs, marker : BOOLEAN, keyAt : {0, 4, 5},
            key : Key, reserved : BOOLEAN, tag : Tag]

Advert == [addr : Addr, addr_size : Nat, addr_type : 0..255, adv_type : 0..255,
           rssi : Rssi, payload : Payload]

Event == [kind : Kind, seq : Seqs]

Device == [active : BOOLEAN, addr : Addr \cup {ZeroAddr}, key : StoredKey,
           seq_num : Seqs, rssi : Rssi \cup {ZeroRssi}, type : DeviceType]

EmptySlot == [active |-> FALSE, addr |-> ZeroAddr, key |-> ZeroKey,
              seq_num |-> 0, rssi |-> ZeroRssi, type |-> "Unknown"]

ASSUME DriverAssumption ==
    /\ UINT32_MAX \in Nat
    /\ k_max_devices \in Nat \ {0}
    /\ Callbacks \subseteq Kind
    /\ Adverts \subseteq Advert

k_addr_len == 6
k_adv_nonconn_ind == 3
k_addr_random == 1
k_data_payload_min == 9
k_commissioning_payload_min == 22
k_stm_commissioning_payload_len == 27
k_key_offset == 4
k_switch_payload_max == 13
k_tag_len == 4
k_switch_state_offset == 4

VARIABLES
    devices,                \* devices_: the table
    commissioning_enabled,
    initialised,
    log                     \* history: per address, the callbacks since init()

vars == <<devices, commissioning_enabled, initialised, log>>

NoEvents == [a \in Addr |-> <<>>]

Init ==
    /\ devices = [d \in Slots |-> EmptySlot]
    /\ commissioning_enabled = FALSE
    /\ initialised = FALSE
    /\ log = NoEvents

-----------------------------------------------------------------------------
(* The table.                                                              *)

\* The slots a linear scan for an address stops at; the first one wins.
MatchingSlots(a) == {d \in Slots : devices[d].active /\ devices[d].addr = a}

FreeSlots == {d \in Slots : ~devices[d].active}

First(S) == CHOOSE d \in S : \A e \in S : d <= e

IsKnown(a) == MatchingSlots(a) # {}
find_device(a) == First(MatchingSlots(a))
\* Faulty variant: the last free slot.
allocate_device_Last == CHOOSE d \in FreeSlots : \A e \in FreeSlots : d >= e

allocate_device == First(FreeSlots)

device_count == Cardinality({d \in Slots : devices[d].active})

detect_device_type(a) ==
    IF <<a[1], a[2]>> \in {<<3, 218>>, <<226, 21>>} THEN "Switch"
    ELSE IF a[1] = 229 THEN "Sensor"
    ELSE "Unknown"

\* Faulty variants: an equal number passes; the successor does not.
check_sequence_OrEqual(stored, new) == new >= stored
check_sequence_SkipsOne(stored, new) == new > stored + 1

check_sequence(stored, new) == new > stored

-----------------------------------------------------------------------------
(* What a handler requires of a payload.                                   *)

\* Faulty variant: any payload at least as long, against the code's comment.
stm_format_MarkerOnly(p) == p.size >= k_commissioning_payload_min /\ p.marker

stm_format(p) ==
    /\ p.size = k_stm_commissioning_payload_len
    /\ p.marker

key_offset(p) == IF stm_format(p) THEN k_key_offset + 1 ELSE k_key_offset

\* The sixteen bytes the driver copies: the transmitter's key only when both
\* sides agree on where it starts.
KeyRead(p) == IF p.keyAt = key_offset(p) THEN p.key ELSE MisreadKey

\* Faulty variant: the result of the decryption is ignored.
aes_ccm_decrypt_Ignored(dev, p) == TRUE

\* aes_ccm_decrypt: the tag over the payload verifies under the stored key and
\* the nonce (stored address, received sequence number).
aes_ccm_decrypt(dev, p) ==
    p.tag = [key |-> dev.key, addr |-> dev.addr, seq |-> p.seq]

opt_len(p) == p.size - k_tag_len - (k_switch_state_offset + 1)

SwitchAuthentic(dev, p) ==
    /\ check_sequence(dev.seq_num, p.seq)
    /\ p.size <= k_switch_payload_max
    /\ p.reserved
    /\ aes_ccm_decrypt(dev, p)

SensorAuthentic(dev, p) ==
    /\ check_sequence(dev.seq_num, p.seq)
    /\ aes_ccm_decrypt(dev, p)

\* The callback, made only if the application registered one.
Dispatch(kind, a, s) ==
    log' = IF kind \in Callbacks
             THEN [log EXCEPT ![a] = Append(@, [kind |-> kind, seq |-> s])]
             ELSE log

-----------------------------------------------------------------------------
(* The operations of the application.                                      *)

\* Faulty variant: commissioning is on from the start.
init_Open ==
    /\ devices' = [d \in Slots |-> EmptySlot]
    /\ commissioning_enabled' = TRUE
    /\ initialised' = TRUE
    /\ log' = NoEvents

init ==
    /\ devices' = [d \in Slots |-> EmptySlot]
    /\ commissioning_enabled' = FALSE
    /\ initialised' = TRUE
    /\ log' = NoEvents

enable_commissioning ==
    /\ commissioning_enabled' = TRUE
    /\ UNCHANGED <<devices, initialised, log>>

disable_commissioning ==
    /\ commissioning_enabled' = FALSE
    /\ UNCHANGED <<devices, initialised, log>>

-----------------------------------------------------------------------------
(* process_advertisement and its handlers.  d is the slot of a known device *)
(* and p the payload of the advertisement t.                               *)

\* The early returns at the head of process_advertisement.
Admissible(t) ==
    /\ initialised
    /\ t.addr_size = k_addr_len
    /\ t.adv_type = k_adv_nonconn_ind
    /\ t.addr_type = k_addr_random
    /\ t.payload.size >= k_data_payload_min

\* Faulty variant: the sequence number is stored before authentication.
Rejected_Consumes(d, t) ==
    /\ devices' = [devices EXCEPT ![d].rssi = t.rssi, ![d].seq_num = t.payload.seq]
    /\ log' = log

\* Sequence number, layout or tag refused.  process_advertisement has stored
\* the signal strength before the handler ran, and nothing else changes.
Rejected(d, t) ==
    /\ devices' = [devices EXCEPT ![d].rssi = t.rssi]
    /\ log' = log

\* Faulty variants: the next number expected is stored; nothing is.
Accepted_StoresNext(d, t) ==
    devices' = [devices EXCEPT ![d].rssi = t.rssi, ![d].seq_num = t.payload.seq + 1]
Accepted_Forgets(d, t) == devices' = [devices EXCEPT ![d].rssi = t.rssi]

Accepted(d, t) ==
    devices' = [devices EXCEPT ![d].rssi = t.rssi, ![d].seq_num = t.payload.seq]

\* The sequence number is consumed before the length of the optional data is
\* examined: three bytes of it end the handler without a callback.
handle_switch(d, t) ==
    IF SwitchAuthentic(devices[d], t.payload)
      THEN /\ Accepted(d, t)
           /\ IF opt_len(t.payload) \in {0, 1, 2, 4}
                THEN Dispatch("button", t.addr, t.payload.seq)
                ELSE log' = log
      ELSE Rejected(d, t)

\* What the TLV loop makes of the bytes is the subject of module SensorTlv; the
\* callback is made whatever it finds.
handle_sensor(d, t) ==
    IF SensorAuthentic(devices[d], t.payload)
      THEN Accepted(d, t) /\ Dispatch("sensor", t.addr, t.payload.seq)
      ELSE Rejected(d, t)

Recommission(d, t) ==
    /\ devices' = [devices EXCEPT ![d].seq_num = t.payload.seq,
                                  ![d].rssi = t.rssi,
                                  ![d].key = KeyRead(t.payload)]
    /\ log' = log

Commission(d, t) ==
    /\ devices' = [devices EXCEPT ![d] =
                     [active |-> TRUE, addr |-> t.addr,
                      key |-> KeyRead(t.payload), seq_num |-> t.payload.seq,
                      rssi |-> t.rssi, type |-> detect_device_type(t.addr)]]
    /\ Dispatch("commissioned", t.addr, t.payload.seq)

\* Faulty variant: the format of the sensors is asked of every device.
handle_commissioning_StmOnly(t) ==
    /\ stm_format(t.payload)
    /\ IF IsKnown(t.addr)
         THEN Recommission(find_device(t.addr), t)
         ELSE FreeSlots # {} /\ Commission(allocate_device, t)

handle_commissioning(t) ==
    /\ detect_device_type(t.addr) = "Sensor" => stm_format(t.payload)
    /\ IF IsKnown(t.addr)
         THEN Recommission(find_device(t.addr), t)
         ELSE FreeSlots # {} /\ Commission(allocate_device, t)

\* Faulty variants: commissioning is tried before the table is searched, or
\* without asking whether it is enabled.
process_advertisement_JoinFirst(t) ==
    /\ Admissible(t)
    /\ IF t.payload.size >= k_commissioning_payload_min /\ commissioning_enabled
         THEN handle_commissioning(t)
         ELSE IsKnown(t.addr) /\ handle_sensor(find_device(t.addr), t)
    /\ UNCHANGED <<commissioning_enabled, initialised>>
process_advertisement_Open(t) ==
    /\ Admissible(t)
    /\ IF IsKnown(t.addr)
         THEN handle_sensor(find_device(t.addr), t)
         ELSE t.payload.size >= k_commissioning_payload_min /\ handle_commissioning(t)
    /\ UNCHANGED <<commissioning_enabled, initialised>>

process_advertisement(t) ==
    /\ Admissible(t)
    /\ IF IsKnown(t.addr)
         THEN LET d == find_device(t.addr)
              IN IF devices[d].type = "Switch"
                   THEN handle_switch(d, t)
                   ELSE handle_sensor(d, t)
         ELSE /\ t.payload.size >= k_commissioning_payload_min
              /\ commissioning_enabled
              /\ handle_commissioning(t)
    /\ UNCHANGED <<commissioning_enabled, initialised>>

Next ==
    \/ init
    \/ enable_commissioning
    \/ disable_commissioning
    \/ \E t \in Adverts : process_advertisement(t)

Spec == Init /\ [][Next]_vars

-----------------------------------------------------------------------------
(* Properties.                                                             *)

\* The type of the driver's state.
TypeOK ==
    /\ devices \in [Slots -> Device]
    /\ commissioning_enabled \in BOOLEAN
    /\ initialised \in BOOLEAN
    /\ log \in [Addr -> Seq(Event)]

\* devices_ holds each address at most once and its used slots are a prefix of
\* the table in which no hole ever opens: find_device's linear search has one
\* answer, and allocate_device's first free slot is the end of the prefix.
TableWellFormed ==
    /\ \A d, e \in Slots : /\ devices[d].active
                           /\ devices[e].active
                           /\ devices[d].addr = devices[e].addr
                           => d = e
    /\ \A d, e \in Slots : devices[e].active /\ d <= e => devices[d].active

\* What the application was told agrees with the table: an address has been
\* announced (handle_commissioning's callback) exactly when it has a slot, once
\* and before any of its data, and the slot's seq_num is never behind the last
\* telegram dispatched.
LogMatchesTable ==
    Callbacks = Kind =>
        \A a \in Addr :
            /\ IsKnown(a) <=> log[a] # <<>>
            /\ \A i \in DOMAIN log[a] : log[a][i].kind = "commissioned" <=> i = 1
            /\ IsKnown(a) =>
                 log[a][Len(log[a])].seq <= devices[find_device(a)].seq_num

\* Replay protection (check_sequence with the order in which the handlers store
\* seq_num): between two init() calls the callbacks of one address carry
\* strictly increasing sequence numbers, however telegrams are repeated,
\* reordered or altered, and however commissioning is toggled.
NoReplay ==
    \A a \in Addr : \A i, j \in DOMAIN log[a] :
        i < j => log[a][i].seq < log[a][j].seq

\* The layouts of the products' telegrams that are long enough to commission: a
\* sensor's 27 bytes with the marker at offset 4 are its commissioning telegram,
\* with the key behind the marker; any other device writes its key at offset 4
\* and does not send 27 bytes of which the key's first is 0x3E.
WellFormed(t) ==
    LET p == t.payload
        stm == p.size = k_stm_commissioning_payload_len /\ p.marker
    IN  p.size >= k_commissioning_payload_min =>
          IF detect_device_type(t.addr) = "Sensor"
            THEN stm => p.keyAt = k_key_offset + 1
            ELSE p.keyAt = k_key_offset /\ ~stm

\* Every key in use is one its transmitter really wrote in a telegram from that
\* address: handle_commissioning never copies it from the wrong offset, for any
\* telegrams that are WellFormed.
KeysAsTransmitted ==
    \A d \in Slots : devices[d].active =>
        \E t \in Adverts : /\ t.addr = devices[d].addr
                           /\ t.payload.keyAt # 0
                           /\ t.payload.key = devices[d].key

\* Until the next init() a used slot keeps its device: only seq_num and rssi
\* move, seq_num only upwards, and no slot is ever given up.
SlotsKept ==
    [][ devices' = [d \in Slots |-> EmptySlot] \/
        \A d \in Slots : devices[d].active =>
            /\ devices'[d].active
            /\ devices'[d].addr = devices[d].addr
            /\ devices'[d].key = devices[d].key
            /\ devices'[d].type = devices[d].type
            /\ devices'[d].seq_num >= devices[d].seq_num ]_vars

\* A sequence number is consumed only by a telegram authenticated under the
\* key and address of that very slot, and then the application hears of it in
\* the same step, the switch telegrams with three bytes of optional data apart.
ConsumptionAuthentic ==
    [][ \A d \in Slots :
          devices[d].active /\ devices'[d].seq_num > devices[d].seq_num =>
            \E t \in Adverts :
              /\ process_advertisement(t)
              /\ t.payload.tag = [key |-> devices[d].key, addr |-> devices[d].addr,
                                  seq |-> devices'[d].seq_num]
              /\ log' = log => \/ devices[d].type = "Switch" /\ opt_len(t.payload) = 3
                               \/ Callbacks # Kind ]_vars

\* The registry the application sees: an address's counter is the seq_num of
\* its slot.
RegistryLast ==
    [a \in Addr |-> IF IsKnown(a) THEN devices[find_device(a)].seq_num ELSE -1]

Registry == INSTANCE DeviceRegistry WITH
    MaxSeq <- UINT32_MAX, Capacity <- k_max_devices,
    last <- RegistryLast, open <- commissioning_enabled, told <- log

\* The driver implements the registry: slots, keys, tags, payload layouts and
\* signal strengths show nowhere in what the application observes.
ImplementsRegistry == Registry!Spec

=============================================================================
