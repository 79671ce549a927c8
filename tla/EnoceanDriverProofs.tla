------------------------- MODULE EnoceanDriverProofs -------------------------
(***************************************************************************)
(* Proofs about EnoceanDriver for every table size, every set of           *)
(* addresses, keys and advertisements, and every UINT32_MAX, and about     *)
(* EnoceanSystem, in which the driver runs between the application and the *)
(* transmitters.                                                           *)
(***************************************************************************)
EXTENDS EnoceanSystem, FiniteSetTheorems, WellFoundedInduction, TLAPS

-----------------------------------------------------------------------------
(* The table's searches.                                                   *)

\* A linear search over a non-empty set of slots has an answer, and it is the
\* smallest (find_device, allocate_device).
LEMMA FirstIsLeast ==
    ASSUME NEW S, S \subseteq Slots, S # {}
    PROVE  First(S) \in S /\ \A e \in S : First(S) <= e
<1>1. S \subseteq Nat
  BY DriverAssumption DEF Slots
<1> DEFINE Below == {p \in Nat \X Nat : p[1] < p[2]}
<1>2. IsWellFoundedOn(Below, Nat)
  BY NatLessThanWellFounded, Zenon DEF OpToRel
<1>3. PICK x \in S : \A y \in S : ~(<<y, x>> \in Below)
  <2> HIDE DEF Below
  <2> QED  BY <1>1, <1>2, WFMin
<1>4. ASSUME NEW y \in S  PROVE x <= y
  <2>1. x \in Nat /\ y \in Nat
    BY <1>1
  <2>2. ~(y < x)
    BY <1>3, <2>1
  <2> QED  BY <2>1, <2>2
<1> QED
  BY <1>4 DEF First

\* find_device answers with an active slot that holds the address.
LEMMA FindDevice ==
    ASSUME NEW a, IsKnown(a)
    PROVE  /\ find_device(a) \in Slots
           /\ devices[find_device(a)].active
           /\ devices[find_device(a)].addr = a
<1>1. MatchingSlots(a) \subseteq Slots /\ MatchingSlots(a) # {}
  BY DEF MatchingSlots, IsKnown
<1>2. First(MatchingSlots(a)) \in MatchingSlots(a)
  BY <1>1, FirstIsLeast
<1> QED
  BY <1>2 DEF MatchingSlots, find_device

\* allocate_device answers with an inactive slot, and every slot before it is
\* in use.
LEMMA AllocateDevice ==
    ASSUME FreeSlots # {}
    PROVE  /\ allocate_device \in Slots
           /\ ~devices[allocate_device].active
           /\ \A d \in Slots : d < allocate_device => devices[d].active
<1>1. FreeSlots \subseteq Slots
  BY DEF FreeSlots
<1>2. First(FreeSlots) \in FreeSlots /\ \A e \in FreeSlots : First(FreeSlots) <= e
  BY <1>1, FirstIsLeast
<1>3. Slots \subseteq Nat
  BY DriverAssumption DEF Slots
<1>4. ASSUME NEW d \in Slots, d < First(FreeSlots)  PROVE d \notin FreeSlots
  <2>1. d \in Nat /\ First(FreeSlots) \in Nat
    BY <1>1, <1>2, <1>3
  <2>2. ~(First(FreeSlots) <= d)
    BY <1>4, <2>1
  <2> QED  BY <1>2, <2>2
<1> QED
  BY <1>2, <1>4, Zenon DEF FreeSlots, allocate_device

-----------------------------------------------------------------------------
(* The three things an advertisement can do to the driver.                 *)

\* The history after a callback of kind k for the telegram t.
Told(t, k) ==
    [log EXCEPT ![t.addr] = Append(@, [kind |-> k, seq |-> t.payload.seq])]

\* Refused: the slot of the sender has a new signal strength.
RejectStep(d, t) ==
    /\ d \in Slots
    /\ Rejected(d, t)

\* When accepting a telegram of payload p makes no callback: for a switch, three
\* bytes of optional data; else only for want of a registered callback.
Unreported(d, p) ==
    \/ devices[d].type = "Switch" /\ opt_len(p) = 3
    \/ Callbacks # Kind

\* Accepted: the sender's slot has a larger sequence number, which the tag
\* vouches for, and the application heard of that number or of nothing.
AcceptStep(d, t) ==
    /\ d \in Slots
    /\ devices[d].active
    /\ devices[d].addr = t.addr
    /\ t.payload.seq > devices[d].seq_num
    /\ aes_ccm_decrypt(devices[d], t.payload)
    /\ Accepted(d, t)
    /\ \/ log' = log /\ Unreported(d, t.payload)
       \/ \E k \in {"button", "sensor"} : log' = Told(t, k)

\* Commissioned: an unknown sender has the first free slot.
JoinStep(d, t) ==
    /\ commissioning_enabled
    /\ t.payload.size >= k_commissioning_payload_min
    /\ detect_device_type(t.addr) = "Sensor" => stm_format(t.payload)
    /\ ~IsKnown(t.addr)
    /\ d \in Slots
    /\ ~devices[d].active
    /\ \A e \in Slots : e < d => devices[e].active
    /\ devices' = [devices EXCEPT ![d] =
                     [active |-> TRUE, addr |-> t.addr,
                      key |-> KeyRead(t.payload), seq_num |-> t.payload.seq,
                      rssi |-> t.rssi, type |-> detect_device_type(t.addr)]]
    /\ \/ log' = log /\ Callbacks # Kind
       \/ log' = Told(t, "commissioned")

\* process_advertisement does one of the three; in particular the branch of
\* handle_commissioning for a known device is never taken.
LEMMA AdvertisementSteps ==
    ASSUME NEW t \in Advert, process_advertisement(t)
    PROVE  /\ UNCHANGED <<commissioning_enabled, initialised>>
           /\ \E d \in Slots : RejectStep(d, t) \/ AcceptStep(d, t) \/ JoinStep(d, t)
<1>1. UNCHANGED <<commissioning_enabled, initialised>>
  BY DEF process_advertisement
<1>2. CASE IsKnown(t.addr)
  <2> DEFINE d == find_device(t.addr)
  <2>1. d \in Slots /\ devices[d].active /\ devices[d].addr = t.addr
    BY <1>2, FindDevice
  <2>2. \/ devices[d].type = "Switch" /\ handle_switch(d, t)
        \/ handle_sensor(d, t)
    BY <1>2 DEF process_advertisement
  <2> HIDE DEF d
  <2>3. CASE Rejected(d, t)
    BY <1>1, <2>1, <2>3 DEF RejectStep
  <2>4. CASE devices[d].type = "Switch" /\ handle_switch(d, t) /\ ~Rejected(d, t)
    <3>1. /\ SwitchAuthentic(devices[d], t.payload)
          /\ Accepted(d, t)
          /\ IF opt_len(t.payload) \in {0, 1, 2, 4}
               THEN Dispatch("button", t.addr, t.payload.seq)
               ELSE log' = log
      BY <2>4 DEF handle_switch
    <3>2. /\ t.payload.seq > devices[d].seq_num
          /\ aes_ccm_decrypt(devices[d], t.payload)
          /\ t.payload.size <= 13
      BY <3>1 DEF SwitchAuthentic, check_sequence, k_switch_payload_max
    <3>3. t.payload.size \in Nat /\ t.payload.size >= 9
      BY DEF process_advertisement, Admissible, k_data_payload_min, Advert, Payload
    <3>4. opt_len(t.payload) \in {0, 1, 2, 4} \/ opt_len(t.payload) = 3
      BY <3>2, <3>3 DEF opt_len, k_tag_len, k_switch_state_offset
    <3>5. \/ log' = log /\ Unreported(d, t.payload)
          \/ log' = Told(t, "button")
      BY <2>4, <3>1, <3>4 DEF Dispatch, Told, Unreported, Kind
    <3>6. AcceptStep(d, t)
      BY <2>1, <3>1, <3>2, <3>5 DEF AcceptStep
    <3> QED  BY <1>1, <2>1, <3>6
  <2>5. CASE handle_sensor(d, t) /\ ~Rejected(d, t)
    <3>1. /\ SensorAuthentic(devices[d], t.payload)
          /\ Accepted(d, t)
          /\ Dispatch("sensor", t.addr, t.payload.seq)
      BY <2>5 DEF handle_sensor
    <3>2. /\ t.payload.seq > devices[d].seq_num
          /\ aes_ccm_decrypt(devices[d], t.payload)
      BY <3>1 DEF SensorAuthentic, check_sequence
    <3>3. \/ log' = log /\ Unreported(d, t.payload)
          \/ log' = Told(t, "sensor")
      BY <3>1 DEF Dispatch, Told, Unreported, Kind
    <3>4. AcceptStep(d, t)
      BY <2>1, <3>1, <3>2, <3>3 DEF AcceptStep
    <3> QED  BY <1>1, <2>1, <3>4
  <2> QED
    BY <1>1, <2>1, <2>2, <2>3, <2>4, <2>5
<1>3. CASE ~IsKnown(t.addr)
  <2> DEFINE d == allocate_device
  <2>1. /\ FreeSlots # {} /\ Commission(d, t) /\ commissioning_enabled
        /\ t.payload.size >= k_commissioning_payload_min
        /\ detect_device_type(t.addr) = "Sensor" => stm_format(t.payload)
    BY <1>3 DEF process_advertisement, handle_commissioning
  <2>2. /\ d \in Slots
        /\ ~devices[d].active
        /\ \A e \in Slots : e < d => devices[e].active
    BY <2>1, AllocateDevice
  <2> HIDE DEF d
  <2>3. \/ log' = log /\ Callbacks # Kind
        \/ log' = Told(t, "commissioned")
    BY <2>1 DEF Commission, Dispatch, Told, Kind
  <2>4. JoinStep(d, t)
    BY <1>3, <2>1, <2>2, <2>3 DEF Commission, JoinStep
  <2> QED
    BY <1>1, <2>2, <2>4
<1> QED
  BY <1>2, <1>3

\* A step of the driver, whatever the radio hands over.  The invariants below
\* are kept by every such step, so they hold under Spec, with its Adverts, and
\* in the running program.
DriverStep ==
    \/ init
    \/ enable_commissioning
    \/ disable_commissioning
    \/ \E t \in Advert : process_advertisement(t)

LEMMA NextIsDriverStep ==
    ASSUME [Next]_vars
    PROVE  [DriverStep]_vars
BY DriverAssumption DEF Next, DriverStep

-----------------------------------------------------------------------------
(* Type correctness.                                                       *)

LEMMA AdvertType ==
    ASSUME NEW t \in Advert
    PROVE  /\ t.addr \in Addr
           /\ t.rssi \in Rssi
           /\ t.payload \in Payload
           /\ t.payload.seq \in Seqs
           /\ KeyRead(t.payload) \in StoredKey
           /\ detect_device_type(t.addr) \in DeviceType
<1>1. t.addr \in Addr /\ t.rssi \in Rssi /\ t.payload \in Payload
  BY DEF Advert
<1>2. t.payload.seq \in Seqs /\ t.payload.key \in Key
  BY <1>1 DEF Payload
<1>3. KeyRead(t.payload) \in StoredKey
  BY <1>2 DEF KeyRead, StoredKey
<1>4. detect_device_type(t.addr) \in DeviceType
  BY DEF detect_device_type, DeviceType
<1> QED
  BY <1>1, <1>2, <1>3, <1>4

LEMMA EmptyTableType ==
    /\ EmptySlot \in Device
    /\ [d \in Slots |-> EmptySlot] \in [Slots -> Device]
    /\ NoEvents \in [Addr -> Seq(Event)]
<1>1. EmptySlot \in Device
  BY DriverAssumption DEF EmptySlot, Device, StoredKey, Seqs, DeviceType
<1> QED
  BY <1>1 DEF NoEvents

\* A callback keeps the type of the history.
LEMMA ToldType ==
    ASSUME TypeOK, NEW t \in Advert, NEW k \in Kind
    PROVE  Told(t, k) \in [Addr -> Seq(Event)]
<1>1. log \in [Addr -> Seq(Event)] /\ t.addr \in Addr /\ t.payload.seq \in Seqs
  BY AdvertType DEF TypeOK
<1>2. [kind |-> k, seq |-> t.payload.seq] \in Event
  BY <1>1 DEF Event
<1>3. Append(log[t.addr], [kind |-> k, seq |-> t.payload.seq]) \in Seq(Event)
  BY <1>1, <1>2
<1> QED
  BY <1>1, <1>3 DEF Told

LEMMA TypeInvariantStep ==
    ASSUME TypeOK, [DriverStep]_vars
    PROVE  TypeOK'
<1> USE DEF TypeOK
<1>1. CASE init
  BY <1>1, EmptyTableType DEF init
<1>2. CASE enable_commissioning
  BY <1>2 DEF enable_commissioning
<1>3. CASE disable_commissioning
  BY <1>3 DEF disable_commissioning
<1>4. ASSUME NEW t \in Advert, process_advertisement(t)
      PROVE  TypeOK'
  <2>1. PICK d \in Slots : RejectStep(d, t) \/ AcceptStep(d, t) \/ JoinStep(d, t)
    BY <1>4, AdvertisementSteps
  <2>2. UNCHANGED <<commissioning_enabled, initialised>>
    BY <1>4, AdvertisementSteps
  <2>3. devices[d] \in Device
    OBVIOUS
  <2>4. CASE RejectStep(d, t)
    <3>1. [devices[d] EXCEPT !.rssi = t.rssi] \in Device
      BY <2>3, AdvertType DEF Device
    <3> QED  BY <2>2, <2>4, <3>1 DEF RejectStep, Rejected
  <2>5. CASE AcceptStep(d, t)
    <3>1. [devices[d] EXCEPT !.rssi = t.rssi, !.seq_num = t.payload.seq] \in Device
      BY <2>3, AdvertType DEF Device
    <3>2. devices' \in [Slots -> Device]
      BY <2>5, <3>1 DEF AcceptStep, Accepted
    <3>3. log' \in [Addr -> Seq(Event)]
      BY <2>5, ToldType DEF AcceptStep, Kind
    <3> QED  BY <2>2, <3>2, <3>3
  <2>6. CASE JoinStep(d, t)
    <3>1. [active |-> TRUE, addr |-> t.addr,
           key |-> KeyRead(t.payload), seq_num |-> t.payload.seq,
           rssi |-> t.rssi, type |-> detect_device_type(t.addr)] \in Device
      BY AdvertType DEF Device
    <3>2. devices' \in [Slots -> Device]
      BY <2>6, <3>1 DEF JoinStep
    <3>3. log' \in [Addr -> Seq(Event)]
      BY <2>6, ToldType DEF JoinStep, Kind
    <3> QED  BY <2>2, <3>2, <3>3
  <2> QED
    BY <2>1, <2>4, <2>5, <2>6
<1>5. CASE UNCHANGED vars
  BY <1>5 DEF vars
<1> QED
  BY <1>1, <1>2, <1>3, <1>4, <1>5 DEF DriverStep

\* The driver's state keeps its type, whatever the radio hands over.
THEOREM TypeCorrect == Spec => []TypeOK
<1>1. Init => TypeOK
  BY EmptyTableType DEF Init, TypeOK
<1> QED
  BY <1>1, TypeInvariantStep, NextIsDriverStep, PTL DEF Spec

-----------------------------------------------------------------------------
(* The table: one slot per address, no holes.                              *)

\* The table after init().
LEMMA EmptyTable ==
    ASSUME NEW d \in Slots
    PROVE  ~[e \in Slots |-> EmptySlot][d].active
BY DEF EmptySlot

LEMMA TableStep ==
    ASSUME TypeOK, TableWellFormed, [DriverStep]_vars
    PROVE  TableWellFormed'
<1>1. CASE init
  BY <1>1, EmptyTable DEF init, TableWellFormed
<1>2. CASE UNCHANGED devices
  BY <1>2 DEF TableWellFormed
<1>3. ASSUME NEW t \in Advert, process_advertisement(t)
      PROVE  TableWellFormed'
  <2>1. PICK d \in Slots : RejectStep(d, t) \/ AcceptStep(d, t) \/ JoinStep(d, t)
    BY <1>3, AdvertisementSteps
  <2>2. devices \in [Slots -> Device] /\ Slots \subseteq Nat
    BY DriverAssumption DEF TypeOK, Slots
  <2>3. CASE RejectStep(d, t) \/ AcceptStep(d, t)
    <3>1. \A e \in Slots : /\ devices'[e].active = devices[e].active
                           /\ devices'[e].addr = devices[e].addr
      BY <2>2, <2>3 DEF RejectStep, Rejected, AcceptStep, Accepted, Device
    <3> QED  BY <3>1 DEF TableWellFormed
  <2>4. CASE JoinStep(d, t)
    <3>1. /\ devices'[d].active
          /\ devices'[d].addr = t.addr
          /\ ~devices[d].active
          /\ \A e \in Slots : e < d => devices[e].active
          /\ \A e \in Slots \ {d} : devices'[e] = devices[e]
      BY <2>2, <2>4 DEF JoinStep
    <3>2. \A e \in Slots : devices[e].active => devices[e].addr # t.addr
      BY <2>4 DEF JoinStep, IsKnown, MatchingSlots
    <3>3. ASSUME NEW e \in Slots, NEW f \in Slots, devices'[e].active,
                 devices'[f].active, devices'[e].addr = devices'[f].addr
          PROVE  e = f
      BY <3>1, <3>2, <3>3 DEF TableWellFormed
    <3>4. ASSUME NEW e \in Slots, NEW f \in Slots, devices'[f].active, e <= f
          PROVE  devices'[e].active
      <4>1. CASE f = d
        <5>1. e = d \/ e < d
          BY <2>2, <3>4, <4>1
        <5> QED  BY <3>1, <5>1
      <4>2. CASE f # d
        <5>1. devices[f].active
          BY <3>1, <3>4, <4>2
        <5>2. devices[e].active
          BY <3>4, <5>1 DEF TableWellFormed
        <5> QED  BY <3>1, <5>2
      <4> QED  BY <4>1, <4>2
    <3> QED  BY <3>3, <3>4 DEF TableWellFormed
  <2> QED  BY <2>1, <2>3, <2>4
<1>4. CASE UNCHANGED vars
  BY <1>2, <1>4 DEF vars
<1> QED
  BY <1>1, <1>2, <1>3, <1>4 DEF DriverStep, enable_commissioning, disable_commissioning

\* No sequence of telegrams gives an address two slots or opens a hole.
THEOREM TableCorrect == Spec => []TableWellFormed
<1>1. Init => TableWellFormed
  BY EmptyTable DEF Init, TableWellFormed
<1> QED
  BY <1>1, TypeCorrect, TableStep, NextIsDriverStep, PTL DEF Spec

-----------------------------------------------------------------------------
(* Replay protection.  NoReplay alone is not inductive: nothing in it says *)
(* that the next number accepted is larger than those already reported.    *)
(* LogBehindTable does, by way of the slot the number is compared with.    *)

\* An address without a slot has reported nothing, and what a slot's address
\* reported is not ahead of the slot's seq_num.
LogBehindTable ==
    /\ \A a \in Addr : ~IsKnown(a) => log[a] = <<>>
    /\ \A d \in Slots : devices[d].active =>
         /\ devices[d].addr \in Addr
         /\ \A i \in DOMAIN log[devices[d].addr] :
              log[devices[d].addr][i].seq <= devices[d].seq_num

ReplayInv == TypeOK /\ TableWellFormed /\ LogBehindTable /\ NoReplay

\* What Append does to the history of the sender.
LEMMA ToldEvents ==
    ASSUME TypeOK, NEW t \in Advert, NEW k \in Kind
    PROVE  /\ \A a \in Addr : a # t.addr => Told(t, k)[a] = log[a]
           /\ DOMAIN Told(t, k)[t.addr] = 1..(Len(log[t.addr]) + 1)
           /\ DOMAIN log[t.addr] = 1..Len(log[t.addr])
           /\ Len(log[t.addr]) \in Nat
           /\ \A i \in DOMAIN log[t.addr] : Told(t, k)[t.addr][i] = log[t.addr][i]
           /\ Told(t, k)[t.addr][Len(log[t.addr]) + 1].seq = t.payload.seq
           /\ Told(t, k)[t.addr][Len(log[t.addr]) + 1].kind = k
<1>1. log \in [Addr -> Seq(Event)] /\ t.addr \in Addr
  BY AdvertType DEF TypeOK
<1> DEFINE old == log[t.addr]
           ev == [kind |-> k, seq |-> t.payload.seq]
<1>2. old \in Seq(Event) /\ Told(t, k)[t.addr] = Append(old, ev)
  BY <1>1 DEF Told
<1>3. ev \in Event
  BY AdvertType DEF Event
<1>4. ev.seq = t.payload.seq /\ ev.kind = k
  OBVIOUS
<1> HIDE DEF old, ev
<1>5. /\ DOMAIN Append(old, ev) = 1..(Len(old) + 1)
      /\ DOMAIN old = 1..Len(old)
      /\ Len(old) \in Nat
      /\ \A i \in 1..Len(old) : Append(old, ev)[i] = old[i]
      /\ Append(old, ev)[Len(old) + 1] = ev
  BY <1>2, <1>3
<1>6. \A a \in Addr : a # t.addr => Told(t, k)[a] = log[a]
  BY <1>1 DEF Told
<1> QED
  BY <1>2, <1>4, <1>5, <1>6 DEF old

\* An event with a number above everything its address reported so far keeps
\* the numbers increasing.
LEMMA ToldIncreasing ==
    ASSUME TypeOK, NoReplay, NEW t \in Advert, NEW k \in Kind, log' = Told(t, k),
           \A i \in DOMAIN log[t.addr] : log[t.addr][i].seq < t.payload.seq
    PROVE  NoReplay'
<1> SUFFICES ASSUME NEW a \in Addr, NEW i \in DOMAIN log'[a], NEW j \in DOMAIN log'[a],
                    i < j
             PROVE  log'[a][i].seq < log'[a][j].seq
  BY DEF NoReplay
<1>1. CASE a # t.addr
  BY <1>1, ToldEvents DEF NoReplay
<1>2. CASE a = t.addr
  <2>1. i \in 1..(Len(log[a]) + 1) /\ j \in 1..(Len(log[a]) + 1) /\ Len(log[a]) \in Nat
    BY <1>2, ToldEvents
  <2>2. i \in DOMAIN log[a]
    BY <1>2, <2>1, ToldEvents
  <2>3. log'[a][i] = log[a][i]
    BY <1>2, <2>2, ToldEvents
  <2>4. CASE j = Len(log[a]) + 1
    BY <1>2, <2>2, <2>3, <2>4, ToldEvents
  <2>5. CASE j # Len(log[a]) + 1
    <3>1. j \in DOMAIN log[a]
      BY <1>2, <2>1, <2>5, ToldEvents
    <3>2. log'[a][j] = log[a][j]
      BY <1>2, <3>1, ToldEvents
    <3> QED  BY <2>2, <2>3, <3>1, <3>2 DEF NoReplay
  <2> QED  BY <2>4, <2>5
<1> QED
  BY <1>1, <1>2

\* Accepting a telegram: its number is above the slot's, and the slot's is not
\* behind the history.
LEMMA AcceptKeepsReplayInv ==
    ASSUME ReplayInv, NEW t \in Advert, NEW d \in Slots, AcceptStep(d, t)
    PROVE  LogBehindTable' /\ NoReplay'
<1> DEFINE a == t.addr
           s == t.payload.seq
<1>1. /\ devices \in [Slots -> Device]
      /\ log \in [Addr -> Seq(Event)]
      /\ a \in Addr
      /\ s \in Nat
      /\ devices[d].seq_num \in Nat
      /\ devices[d].active /\ devices[d].addr = a /\ s > devices[d].seq_num
  BY AdvertType, DriverAssumption
  DEF ReplayInv, TypeOK, AcceptStep, Device, Seqs
<1>2. /\ devices'[d].active /\ devices'[d].addr = a /\ devices'[d].seq_num = s
      /\ \A e \in Slots \ {d} : devices'[e] = devices[e]
  BY <1>1 DEF AcceptStep, Accepted, Device
<1>3. \A e \in Slots \ {d} : devices[e].active => devices[e].addr # a
  BY <1>1 DEF ReplayInv, TableWellFormed
<1>4. \A e \in Slots : devices[e].active => devices'[e].active /\ devices'[e].addr = devices[e].addr
  BY <1>1, <1>2
<1>5. \A b \in Addr : IsKnown(b) => IsKnown(b)'
  BY <1>4 DEF IsKnown, MatchingSlots
<1>6. IsKnown(a)
  BY <1>1 DEF IsKnown, MatchingSlots
<1>7. \A i \in DOMAIN log[a] : log[a][i].seq \in Nat /\ log[a][i].seq < s
  <2> SUFFICES ASSUME NEW i \in DOMAIN log[a]
               PROVE  log[a][i].seq \in Nat /\ log[a][i].seq < s
    OBVIOUS
  <2>1. log[a][i] \in Event
    BY <1>1
  <2>2. log[a][i].seq \in Nat
    BY <2>1, DriverAssumption DEF Event, Seqs
  <2>3. log[a][i].seq <= devices[d].seq_num
    BY <1>1 DEF ReplayInv, LogBehindTable
  <2> QED  BY <1>1, <2>2, <2>3
<1>8. log' = log \/ \E k \in Kind : log' = Told(t, k)
  BY DEF AcceptStep, Kind
<1>9. NoReplay'
  <2>1. CASE log' = log
    BY <2>1 DEF ReplayInv, NoReplay
  <2>2. ASSUME NEW k \in Kind, log' = Told(t, k)  PROVE NoReplay'
    BY <1>7, <2>2, ToldIncreasing DEF ReplayInv
  <2> QED  BY <1>8, <2>1, <2>2
<1>10. \A b \in Addr : b # a => log'[b] = log[b]
  BY <1>8, ToldEvents DEF ReplayInv
<1>11. \A i \in DOMAIN log'[a] : log'[a][i].seq <= s
  <2>1. CASE log' = log
    BY <1>1, <1>7, <2>1
  <2>2. ASSUME NEW k \in Kind, log' = Told(t, k), NEW i \in DOMAIN log'[a]
        PROVE  log'[a][i].seq <= s
    <3>1. i = Len(log[a]) + 1 \/ i \in DOMAIN log[a]
      BY <2>2, ToldEvents DEF ReplayInv
    <3>2. CASE i = Len(log[a]) + 1
      BY <1>1, <2>2, <3>2, ToldEvents DEF ReplayInv
    <3>3. CASE i \in DOMAIN log[a]
      <4>1. log'[a][i] = log[a][i]
        BY <2>2, <3>3, ToldEvents DEF ReplayInv
      <4> QED  BY <1>1, <1>7, <3>3, <4>1
    <3> QED  BY <3>1, <3>2, <3>3
  <2> QED  BY <1>8, <2>1, <2>2
<1>12. \A b \in Addr : ~IsKnown(b)' => log'[b] = <<>>
  BY <1>5, <1>6, <1>10 DEF ReplayInv, LogBehindTable
<1>13. ASSUME NEW e \in Slots, devices'[e].active,
              NEW i \in DOMAIN log'[devices'[e].addr]
       PROVE  log'[devices'[e].addr][i].seq <= devices'[e].seq_num
  <2>1. CASE e = d
    BY <1>2, <1>11, <1>13, <2>1
  <2>2. CASE e # d
    <3>1. devices'[e] = devices[e] /\ devices[e].active /\ devices[e].addr # a
      BY <1>2, <1>3, <1>13, <2>2
    <3>2. devices[e].addr \in Addr
      BY <3>1 DEF ReplayInv, LogBehindTable
    <3> QED  BY <1>10, <1>13, <3>1, <3>2 DEF ReplayInv, LogBehindTable
  <2> QED  BY <2>1, <2>2
<1>14. \A e \in Slots : devices'[e].active => devices'[e].addr \in Addr
  BY <1>1, <1>2 DEF ReplayInv, LogBehindTable
<1> QED
  BY <1>9, <1>12, <1>13, <1>14 DEF LogBehindTable

\* Commissioning: the new slot's address has no history yet.
LEMMA JoinKeepsReplayInv ==
    ASSUME ReplayInv, NEW t \in Advert, NEW d \in Slots, JoinStep(d, t)
    PROVE  LogBehindTable' /\ NoReplay'
<1> DEFINE a == t.addr
           s == t.payload.seq
<1>1. /\ devices \in [Slots -> Device]
      /\ a \in Addr
      /\ s \in Nat
      /\ log[a] = <<>>
      /\ \A e \in Slots : devices[e].active => devices[e].addr # a
  BY AdvertType, DriverAssumption
  DEF ReplayInv, TypeOK, LogBehindTable, JoinStep, IsKnown, MatchingSlots, Seqs
<1>2. /\ devices'[d].active /\ devices'[d].addr = a /\ devices'[d].seq_num = s
      /\ ~devices[d].active
      /\ \A e \in Slots \ {d} : devices'[e] = devices[e]
  BY <1>1 DEF JoinStep
<1>3. \A b \in Addr : IsKnown(b) => IsKnown(b)'
  BY <1>2 DEF IsKnown, MatchingSlots
<1>4. IsKnown(a)'
  BY <1>2 DEF IsKnown, MatchingSlots
<1>5. log' = log \/ \E k \in Kind : log' = Told(t, k)
  BY DEF JoinStep, Kind
<1>6. NoReplay'
  <2>1. CASE log' = log
    BY <2>1 DEF ReplayInv, NoReplay
  <2>2. ASSUME NEW k \in Kind, log' = Told(t, k)  PROVE NoReplay'
    BY <1>1, <2>2, ToldIncreasing DEF ReplayInv
  <2> QED  BY <1>5, <2>1, <2>2
<1>7. \A b \in Addr : b # a => log'[b] = log[b]
  BY <1>5, ToldEvents DEF ReplayInv
<1>8. \A i \in DOMAIN log'[a] : log'[a][i].seq <= s
  <2>1. CASE log' = log
    BY <1>1, <2>1
  <2>2. ASSUME NEW k \in Kind, log' = Told(t, k), NEW i \in DOMAIN log'[a]
        PROVE  log'[a][i].seq <= s
    <3>1. i = Len(log[a]) + 1
      BY <1>1, <2>2, ToldEvents DEF ReplayInv
    <3> QED  BY <1>1, <2>2, <3>1, ToldEvents DEF ReplayInv
  <2> QED  BY <1>5, <2>1, <2>2
<1>9. \A b \in Addr : ~IsKnown(b)' => log'[b] = <<>>
  BY <1>3, <1>4, <1>7 DEF ReplayInv, LogBehindTable
<1>10. ASSUME NEW e \in Slots, devices'[e].active
       PROVE  /\ devices'[e].addr \in Addr
              /\ \A i \in DOMAIN log'[devices'[e].addr] :
                   log'[devices'[e].addr][i].seq <= devices'[e].seq_num
  <2>1. CASE e = d
    BY <1>1, <1>2, <1>8, <2>1
  <2>2. CASE e # d
    <3>1. devices'[e] = devices[e] /\ devices[e].active /\ devices[e].addr # a
      BY <1>1, <1>2, <1>10, <2>2
    <3>2. devices[e].addr \in Addr
      BY <3>1 DEF ReplayInv, LogBehindTable
    <3> QED  BY <1>7, <1>10, <3>1, <3>2 DEF ReplayInv, LogBehindTable
  <2> QED  BY <2>1, <2>2
<1> QED
  BY <1>6, <1>9, <1>10 DEF LogBehindTable

LEMMA ReplayInvStep ==
    ASSUME ReplayInv, [DriverStep]_vars
    PROVE  ReplayInv'
<1>1. TypeOK' /\ TableWellFormed'
  BY TypeInvariantStep, TableStep DEF ReplayInv
<1>2. CASE init
  <2>1. \A a \in Addr : log'[a] = <<>>
    BY <1>2 DEF init, NoEvents
  <2>2. \A d \in Slots : ~devices'[d].active
    BY <1>2, EmptyTable DEF init
  <2> QED  BY <1>1, <2>1, <2>2 DEF ReplayInv, LogBehindTable, NoReplay
<1>3. CASE UNCHANGED <<devices, log>>
  BY <1>1, <1>3 DEF ReplayInv, LogBehindTable, NoReplay, IsKnown, MatchingSlots
<1>4. ASSUME NEW t \in Advert, process_advertisement(t)
      PROVE  ReplayInv'
  <2>1. PICK d \in Slots : RejectStep(d, t) \/ AcceptStep(d, t) \/ JoinStep(d, t)
    BY <1>4, AdvertisementSteps
  <2>2. CASE RejectStep(d, t)
    <3>1. log' = log
      BY <2>2 DEF RejectStep, Rejected
    <3>2. \A e \in Slots : /\ devices'[e].active = devices[e].active
                           /\ devices'[e].addr = devices[e].addr
                           /\ devices'[e].seq_num = devices[e].seq_num
      BY <2>2 DEF RejectStep, Rejected, ReplayInv, TypeOK, Device
    <3>3. \A a \in Addr : IsKnown(a)' <=> IsKnown(a)
      BY <3>2 DEF IsKnown, MatchingSlots
    <3> QED  BY <1>1, <3>1, <3>2, <3>3 DEF ReplayInv, LogBehindTable, NoReplay
  <2>3. CASE AcceptStep(d, t)
    BY <1>1, <2>3, AcceptKeepsReplayInv DEF ReplayInv
  <2>4. CASE JoinStep(d, t)
    BY <1>1, <2>4, JoinKeepsReplayInv DEF ReplayInv
  <2> QED  BY <2>1, <2>2, <2>3, <2>4
<1>5. CASE UNCHANGED vars
  BY <1>3, <1>5 DEF vars
<1> QED
  BY <1>2, <1>3, <1>4, <1>5 DEF DriverStep, enable_commissioning, disable_commissioning

LEMMA ReplayInvInit == Init => ReplayInv
<1> SUFFICES ASSUME Init  PROVE ReplayInv
  OBVIOUS
<1>1. TypeOK /\ TableWellFormed
  BY EmptyTableType, EmptyTable DEF Init, TypeOK, TableWellFormed
<1>2. \A a \in Addr : log[a] = <<>>
  BY DEF Init, NoEvents
<1>3. \A d \in Slots : ~devices[d].active
  BY EmptyTable DEF Init
<1> QED
  BY <1>1, <1>2, <1>3 DEF ReplayInv, LogBehindTable, NoReplay

LEMMA ReplayInvHolds == Spec => []ReplayInv
BY ReplayInvInit, ReplayInvStep, NextIsDriverStep, PTL DEF Spec

\* Between two init() calls no telegram of an address is reported twice or out
\* of order, for any table size, any key set and any traffic.
THEOREM ReplayProtected == Spec => []NoReplay
<1>1. ReplayInv => NoReplay
  BY DEF ReplayInv
<1> QED
  BY <1>1, ReplayInvHolds, PTL

-----------------------------------------------------------------------------
(* Slots are kept.                                                         *)

\* Only init() takes a device's slot, key or type away or lowers its seq_num.
THEOREM SlotsKeptAlways == Spec => SlotsKept
<1> DEFINE Kept(d) == /\ devices'[d].active
                      /\ devices'[d].addr = devices[d].addr
                      /\ devices'[d].key = devices[d].key
                      /\ devices'[d].type = devices[d].type
                      /\ devices'[d].seq_num >= devices[d].seq_num
           Step == \/ devices' = [d \in Slots |-> EmptySlot]
                   \/ \A d \in Slots : devices[d].active => Kept(d)
<1>1. ASSUME TypeOK, [DriverStep]_vars  PROVE [Step]_vars
  <2>1. \A d \in Slots : devices[d] \in Device /\ devices[d].seq_num \in Nat
    BY <1>1, DriverAssumption DEF TypeOK, Device, Seqs
  <2>2. CASE UNCHANGED devices
    BY <2>1, <2>2
  <2>3. ASSUME NEW t \in Advert, process_advertisement(t)  PROVE Step
    <3>1. PICK d \in Slots : RejectStep(d, t) \/ AcceptStep(d, t) \/ JoinStep(d, t)
      BY <2>3, AdvertisementSteps
    <3>2. devices \in [Slots -> Device] /\ t.payload.seq \in Nat
      BY <1>1, AdvertType, DriverAssumption DEF TypeOK, Seqs
    <3> SUFFICES ASSUME NEW e \in Slots, devices[e].active  PROVE Kept(e)
      OBVIOUS
    <3>3. CASE RejectStep(d, t)
      BY <2>1, <3>2, <3>3 DEF RejectStep, Rejected, Device
    <3>4. CASE AcceptStep(d, t)
      <4>1. CASE e = d
        BY <2>1, <3>2, <3>4, <4>1 DEF AcceptStep, Accepted, Device
      <4>2. CASE e # d
        BY <2>1, <3>2, <3>4, <4>2 DEF AcceptStep, Accepted
      <4> QED  BY <4>1, <4>2
    <3>5. CASE JoinStep(d, t)
      BY <2>1, <3>2, <3>5 DEF JoinStep
    <3> QED  BY <3>1, <3>3, <3>4, <3>5
  <2> QED
    BY <1>1, <2>2, <2>3 DEF DriverStep, init, enable_commissioning, disable_commissioning, vars
<1> QED
  BY <1>1, TypeCorrect, NextIsDriverStep, PTL DEF Spec, SlotsKept

-----------------------------------------------------------------------------
(* What the application was told.                                          *)

\* A rejected telegram changes no slot's device and no number.
LEMMA RejectKeeps ==
    ASSUME TypeOK, NEW t \in Advert, NEW d \in Slots, RejectStep(d, t)
    PROVE  /\ log' = log
           /\ \A e \in Slots : /\ devices'[e].active = devices[e].active
                               /\ devices'[e].addr = devices[e].addr
                               /\ devices'[e].key = devices[e].key
                               /\ devices'[e].seq_num = devices[e].seq_num
           /\ \A a : MatchingSlots(a)' = MatchingSlots(a)
<1>1. log' = log
  BY DEF RejectStep, Rejected
<1>2. \A e \in Slots : /\ devices'[e].active = devices[e].active
                       /\ devices'[e].addr = devices[e].addr
                       /\ devices'[e].key = devices[e].key
                       /\ devices'[e].seq_num = devices[e].seq_num
  BY DEF RejectStep, Rejected, TypeOK, Device
<1> QED
  BY <1>1, <1>2 DEF MatchingSlots

\* An accepted telegram changes no slot's device, and its sender has a slot.
LEMMA AcceptKeeps ==
    ASSUME TypeOK, NEW t \in Advert, NEW d \in Slots, AcceptStep(d, t)
    PROVE  /\ IsKnown(t.addr)
           /\ \A e \in Slots : /\ devices'[e].active = devices[e].active
                               /\ devices'[e].addr = devices[e].addr
                               /\ devices'[e].key = devices[e].key
           /\ \A a : MatchingSlots(a)' = MatchingSlots(a)
<1>1. IsKnown(t.addr)
  BY DEF AcceptStep, IsKnown, MatchingSlots
<1>2. \A e \in Slots : /\ devices'[e].active = devices[e].active
                       /\ devices'[e].addr = devices[e].addr
                       /\ devices'[e].key = devices[e].key
  BY DEF AcceptStep, Accepted, TypeOK, Device
<1> QED
  BY <1>1, <1>2 DEF MatchingSlots

\* A commissioning gives one address a slot and takes none away.
LEMMA JoinKeeps ==
    ASSUME TypeOK, NEW t \in Advert, NEW d \in Slots, JoinStep(d, t)
    PROVE  /\ devices'[d].active /\ devices'[d].addr = t.addr
           /\ devices'[d].key = KeyRead(t.payload)
           /\ \A e \in Slots \ {d} : devices'[e] = devices[e]
           /\ \A a : a # t.addr => MatchingSlots(a)' = MatchingSlots(a)
<1>1. /\ devices'[d].active /\ devices'[d].addr = t.addr /\ ~devices[d].active
      /\ devices'[d].key = KeyRead(t.payload)
      /\ \A e \in Slots \ {d} : devices'[e] = devices[e]
  BY DEF JoinStep, TypeOK
<1>2. ASSUME NEW a, a # t.addr  PROVE MatchingSlots(a)' = MatchingSlots(a)
  BY <1>1, <1>2 DEF MatchingSlots
<1> QED
  BY <1>1, <1>2

\* The part of LogMatchesTable that LogBehindTable does not say: with all
\* callbacks registered a device is announced when it gets its slot, and its
\* announcement is the one event of that kind and the first.
Announced ==
    Callbacks = Kind =>
        \A a \in Addr :
            /\ IsKnown(a) => log[a] # <<>>
            /\ \A i \in DOMAIN log[a] : log[a][i].kind = "commissioned" <=> i = 1

\* A callback of kind k appends an event of that kind and leaves a history that
\* is not empty.
LEMMA ToldAnnounced ==
    ASSUME TypeOK, NEW t \in Advert, NEW k \in Kind, log' = Told(t, k),
           \A i \in DOMAIN log[t.addr] : log[t.addr][i].kind = "commissioned" <=> i = 1,
           k = "commissioned" <=> log[t.addr] = <<>>
    PROVE  /\ log'[t.addr] # <<>>
           /\ \A i \in DOMAIN log'[t.addr] :
                log'[t.addr][i].kind = "commissioned" <=> i = 1
<1> DEFINE n == Len(log[t.addr])
<1>1. log[t.addr] \in Seq(Event)
  BY AdvertType DEF TypeOK
<1>2. n \in Nat /\ (log[t.addr] = <<>> <=> n = 0)
  BY <1>1
<1>3. DOMAIN log'[t.addr] = 1..(n + 1) /\ DOMAIN log[t.addr] = 1..n
  BY ToldEvents
<1>4. \A i \in DOMAIN log[t.addr] : log'[t.addr][i] = log[t.addr][i]
  BY ToldEvents
<1>5. log'[t.addr][n + 1].kind = k
  BY ToldEvents
<1> HIDE DEF n
<1>6. log'[t.addr] # <<>>
  <2>1. 1 \in DOMAIN log'[t.addr]
    BY <1>2, <1>3
  <2>2. DOMAIN << >> = {}
    OBVIOUS
  <2> QED  BY <2>1, <2>2
<1>7. ASSUME NEW i \in DOMAIN log'[t.addr]
      PROVE  log'[t.addr][i].kind = "commissioned" <=> i = 1
  <2>1. CASE i = n + 1
    BY <1>2, <1>5, <2>1
  <2>2. CASE i # n + 1
    <3>1. i \in 1..n
      BY <1>2, <1>3, <2>2
    <3> QED  BY <1>3, <1>4, <3>1
  <2> QED  BY <2>1, <2>2
<1> QED
  BY <1>6, <1>7

LEMMA AnnouncedStep ==
    ASSUME ReplayInv, Announced, [DriverStep]_vars
    PROVE  Announced'
<1> SUFFICES ASSUME Callbacks = Kind, NEW a \in Addr
             PROVE  /\ IsKnown(a)' => log'[a] # <<>>
                    /\ \A i \in DOMAIN log'[a] : log'[a][i].kind = "commissioned" <=> i = 1
  BY DEF Announced
<1> DEFINE Right == /\ IsKnown(a)' => log'[a] # <<>>
                    /\ \A i \in DOMAIN log'[a] : log'[a][i].kind = "commissioned" <=> i = 1
<1>1. /\ IsKnown(a) => log[a] # <<>>
      /\ \A i \in DOMAIN log[a] : log[a][i].kind = "commissioned" <=> i = 1
  BY DEF Announced
<1>2. CASE init
  <2>1. log'[a] = <<>>
    BY <1>2 DEF init, NoEvents
  <2>2. ~IsKnown(a)'
    BY <1>2, EmptyTable DEF init, IsKnown, MatchingSlots
  <2>3. DOMAIN << >> = {}
    OBVIOUS
  <2> QED  BY <2>1, <2>2, <2>3
<1>3. CASE UNCHANGED <<devices, log>>
  BY <1>1, <1>3 DEF IsKnown, MatchingSlots
<1>4. ASSUME NEW t \in Advert, process_advertisement(t)
      PROVE  Right
  <2>1. PICK d \in Slots : RejectStep(d, t) \/ AcceptStep(d, t) \/ JoinStep(d, t)
    BY <1>4, AdvertisementSteps
  <2>2. CASE RejectStep(d, t)
    BY <1>1, <2>2, RejectKeeps DEF IsKnown, ReplayInv
  <2>3. CASE AcceptStep(d, t)
    <3>1. IsKnown(t.addr) /\ (IsKnown(a)' <=> IsKnown(a))
      BY <2>3, AcceptKeeps DEF IsKnown, ReplayInv
    <3>2. CASE log' = log
      BY <1>1, <3>1, <3>2
    <3>3. ASSUME NEW k \in {"button", "sensor"}, log' = Told(t, k)  PROVE Right
      <4>1. k \in Kind /\ k # "commissioned"
        BY DEF Kind
      <4>2. CASE a = t.addr
        BY <1>1, <3>1, <3>3, <4>1, <4>2, ToldAnnounced DEF ReplayInv
      <4>3. CASE a # t.addr
        BY <1>1, <3>1, <3>3, <4>1, <4>3, ToldEvents DEF ReplayInv
      <4> QED  BY <4>2, <4>3
    <3> QED  BY <2>3, <3>2, <3>3 DEF AcceptStep
  <2>4. CASE JoinStep(d, t)
    <3>1. log' = Told(t, "commissioned") /\ ~IsKnown(t.addr) /\ "commissioned" \in Kind
      BY <2>4 DEF JoinStep, Kind
    <3>2. t.addr \in Addr /\ log[t.addr] = <<>>
      BY <3>1, AdvertType DEF ReplayInv, LogBehindTable
    <3>3. CASE a = t.addr
      BY <1>1, <3>1, <3>2, <3>3, ToldAnnounced DEF ReplayInv
    <3>4. CASE a # t.addr
      <4>1. IsKnown(a)' <=> IsKnown(a)
        BY <2>4, <3>4, JoinKeeps DEF IsKnown, ReplayInv
      <4> QED  BY <1>1, <3>1, <3>4, <4>1, ToldEvents DEF ReplayInv
    <3> QED  BY <3>3, <3>4
  <2> QED  BY <2>1, <2>2, <2>3, <2>4
<1>5. CASE UNCHANGED vars
  BY <1>3, <1>5 DEF vars
<1> QED
  BY <1>2, <1>3, <1>4, <1>5 DEF DriverStep, enable_commissioning, disable_commissioning

LEMMA LogMatchesFromInv ==
    ASSUME ReplayInv, Announced
    PROVE  LogMatchesTable
<1> SUFFICES ASSUME Callbacks = Kind, NEW a \in Addr
             PROVE  /\ IsKnown(a) <=> log[a] # <<>>
                    /\ \A i \in DOMAIN log[a] : log[a][i].kind = "commissioned" <=> i = 1
                    /\ IsKnown(a) =>
                         log[a][Len(log[a])].seq <= devices[find_device(a)].seq_num
  BY DEF LogMatchesTable
<1>1. /\ IsKnown(a) <=> log[a] # <<>>
      /\ \A i \in DOMAIN log[a] : log[a][i].kind = "commissioned" <=> i = 1
  BY DEF ReplayInv, LogBehindTable, Announced
<1>2. ASSUME IsKnown(a)
      PROVE  log[a][Len(log[a])].seq <= devices[find_device(a)].seq_num
  <2>1. log[a] \in Seq(Event) /\ log[a] # <<>>
    BY <1>1, <1>2 DEF ReplayInv, TypeOK
  <2>2. Len(log[a]) \in DOMAIN log[a]
    BY <2>1
  <2>3. /\ find_device(a) \in Slots
        /\ devices[find_device(a)].active
        /\ devices[find_device(a)].addr = a
    BY <1>2, FindDevice
  <2> QED  BY <2>2, <2>3 DEF ReplayInv, LogBehindTable
<1> QED
  BY <1>1, <1>2

LEMMA AnnouncedInit == Init => Announced
<1> SUFFICES ASSUME Init  PROVE Announced
  OBVIOUS
<1>1. \A a \in Addr : log[a] = <<>> /\ ~IsKnown(a)
  BY EmptyTable DEF Init, NoEvents, IsKnown, MatchingSlots
<1>2. DOMAIN << >> = {}
  OBVIOUS
<1> QED
  BY <1>1, <1>2 DEF Announced

\* What the application was told agrees with the table at all times: exactly the
\* devices that hold a slot were announced, once and before any of their data,
\* and no slot is behind what it reported.
THEOREM LogFollowsTable == Spec => []LogMatchesTable
<1>1. ReplayInv /\ Announced => LogMatchesTable
  BY LogMatchesFromInv
<1>2. ReplayInv /\ Announced /\ [DriverStep]_vars => Announced'
  BY AnnouncedStep
<1> QED
  BY <1>1, <1>2, AnnouncedInit, ReplayInvHolds, NextIsDriverStep, PTL DEF Spec

-----------------------------------------------------------------------------
(* Who may consume a sequence number.                                      *)

\* A callback is seen in the history.
LEMMA ToldShows ==
    ASSUME TypeOK, NEW t \in Advert, NEW k \in Kind
    PROVE  Told(t, k) # log
<1>1. /\ DOMAIN Told(t, k)[t.addr] = 1..(Len(log[t.addr]) + 1)
      /\ DOMAIN log[t.addr] = 1..Len(log[t.addr])
      /\ Len(log[t.addr]) \in Nat
  BY ToldEvents
<1>2. Len(log[t.addr]) + 1 \in DOMAIN Told(t, k)[t.addr]
  BY <1>1
<1>3. Len(log[t.addr]) + 1 \notin DOMAIN log[t.addr]
  BY <1>1
<1> QED
  BY <1>2, <1>3

\* What ConsumptionAuthentic allows a step to do.
Consumes ==
    \A d \in Slots :
      devices[d].active /\ devices'[d].seq_num > devices[d].seq_num =>
        \E t \in Adverts :
          /\ process_advertisement(t)
          /\ t.payload.tag = [key |-> devices[d].key, addr |-> devices[d].addr,
                              seq |-> devices'[d].seq_num]
          /\ log' = log => \/ devices[d].type = "Switch" /\ opt_len(t.payload) = 3
                           \/ Callbacks # Kind

LEMMA ConsumptionStep ==
    ASSUME TypeOK, [Next]_vars
    PROVE  [Consumes]_vars
<1> SUFFICES ASSUME NEW d \in Slots, devices[d].active,
                    devices'[d].seq_num > devices[d].seq_num
             PROVE  \E t \in Adverts :
                      /\ process_advertisement(t)
                      /\ t.payload.tag = [key |-> devices[d].key, addr |-> devices[d].addr,
                                          seq |-> devices'[d].seq_num]
                      /\ log' = log => \/ devices[d].type = "Switch" /\ opt_len(t.payload) = 3
                                       \/ Callbacks # Kind
  BY DEF Consumes
<1>1. devices[d].seq_num \in Nat /\ devices \in [Slots -> Device]
  BY DriverAssumption DEF TypeOK, Device, Seqs
<1>2. ~(UNCHANGED devices)
  BY <1>1
<1>3. ~init
  <2>1. [e \in Slots |-> EmptySlot][d].seq_num = 0
    BY DEF EmptySlot
  <2> QED  BY <1>1, <2>1 DEF init
<1>4. PICK t \in Adverts : process_advertisement(t)
  BY <1>2, <1>3 DEF Next, enable_commissioning, disable_commissioning, vars
<1>5. t \in Advert
  BY DriverAssumption
<1>6. PICK e \in Slots : RejectStep(e, t) \/ AcceptStep(e, t) \/ JoinStep(e, t)
  BY <1>4, <1>5, AdvertisementSteps
<1>7. ~RejectStep(e, t)
  <2> SUFFICES ASSUME RejectStep(e, t)  PROVE FALSE
    OBVIOUS
  <2>1. devices'[d].seq_num = devices[d].seq_num
    BY <1>5, RejectKeeps
  <2> QED  BY <1>1, <2>1
<1>8. ~JoinStep(e, t)
  <2> SUFFICES ASSUME JoinStep(e, t)  PROVE FALSE
    OBVIOUS
  <2>1. d # e
    BY DEF JoinStep
  <2>2. devices'[d] = devices[d]
    BY <1>5, <2>1, JoinKeeps
  <2> QED  BY <1>1, <2>2
<1>9. AcceptStep(e, t)
  BY <1>6, <1>7, <1>8
<1>10. d = e
  BY <1>1, <1>9 DEF AcceptStep, Accepted
<1>11. devices'[d].seq_num = t.payload.seq
  BY <1>1, <1>9, <1>10 DEF AcceptStep, Accepted, Device
<1>12. t.payload.tag = [key |-> devices[d].key, addr |-> devices[d].addr,
                        seq |-> devices'[d].seq_num]
  BY <1>9, <1>10, <1>11 DEF AcceptStep, aes_ccm_decrypt
<1>13. ASSUME log' = log
       PROVE  Unreported(d, t.payload)
  <2>1. \A k \in {"button", "sensor"} : log' # Told(t, k)
    BY <1>5, <1>13, ToldShows DEF Kind
  <2> QED  BY <1>9, <1>10, <2>1 DEF AcceptStep
<1> QED
  BY <1>4, <1>12, <1>13 DEF Unreported

\* No sequence number is consumed but by a telegram whose tag verifies under the
\* slot's own key and address, and none silently but in the two cases named.
THEOREM ConsumptionAlwaysAuthentic == Spec => ConsumptionAuthentic
<1>1. TypeOK /\ [Next]_vars => [Consumes]_vars
  BY ConsumptionStep
<1> QED
  BY <1>1, TypeCorrect, PTL DEF Spec, ConsumptionAuthentic, Consumes

-----------------------------------------------------------------------------
(* Keys.                                                                   *)

\* Both sides agree on where the key starts.
LEMMA KeyOfWellFormed ==
    ASSUME NEW t \in Advert, WellFormed(t),
           t.payload.size >= k_commissioning_payload_min,
           detect_device_type(t.addr) = "Sensor" => stm_format(t.payload)
    PROVE  KeyRead(t.payload) = t.payload.key /\ t.payload.keyAt # 0
BY DEF WellFormed, stm_format, KeyRead, key_offset, k_key_offset

LEMMA KeysStep ==
    ASSUME \A t \in Adverts : WellFormed(t), TypeOK, KeysAsTransmitted, [Next]_vars
    PROVE  KeysAsTransmitted'
<1>1. CASE init
  BY <1>1, EmptyTable DEF init, KeysAsTransmitted
<1>2. CASE UNCHANGED devices
  BY <1>2 DEF KeysAsTransmitted
<1>3. ASSUME NEW t \in Adverts, process_advertisement(t)
      PROVE  KeysAsTransmitted'
  <2>1. t \in Advert
    BY DriverAssumption
  <2>2. PICK d \in Slots : RejectStep(d, t) \/ AcceptStep(d, t) \/ JoinStep(d, t)
    BY <1>3, <2>1, AdvertisementSteps
  <2>3. CASE RejectStep(d, t) \/ AcceptStep(d, t)
    <3>1. \A e \in Slots : /\ devices'[e].active = devices[e].active
                           /\ devices'[e].addr = devices[e].addr
                           /\ devices'[e].key = devices[e].key
      BY <2>1, <2>3, RejectKeeps, AcceptKeeps
    <3> QED  BY <3>1 DEF KeysAsTransmitted
  <2>4. CASE JoinStep(d, t)
    <3>1. /\ devices'[d].addr = t.addr
          /\ devices'[d].key = KeyRead(t.payload)
          /\ \A e \in Slots \ {d} : devices'[e] = devices[e]
      BY <2>1, <2>4, JoinKeeps
    <3>2. KeyRead(t.payload) = t.payload.key /\ t.payload.keyAt # 0
      BY <2>1, <2>4, KeyOfWellFormed DEF JoinStep
    <3> QED  BY <3>1, <3>2 DEF KeysAsTransmitted
  <2> QED  BY <2>2, <2>3, <2>4
<1> QED
  BY <1>1, <1>2, <1>3 DEF Next, enable_commissioning, disable_commissioning, vars

\* As long as the telegrams long enough to commission have the layouts of the
\* products, no slot ever holds a key read from the wrong offset.
THEOREM KeysGenuine ==
    ASSUME \A t \in Adverts : WellFormed(t)
    PROVE  Spec => []KeysAsTransmitted
<1>1. Init => KeysAsTransmitted
  BY EmptyTable DEF Init, KeysAsTransmitted
<1>2. TypeOK /\ KeysAsTransmitted /\ [Next]_vars => KeysAsTransmitted'
  BY KeysStep
<1> QED
  BY <1>1, <1>2, TypeCorrect, PTL DEF Spec

-----------------------------------------------------------------------------
(* The driver implements the registry.                                     *)

\* The search has one answer when one slot matches.
LEMMA OnlyMatch ==
    ASSUME NEW M, M \subseteq Slots, NEW d \in M, \A e \in M : e = d
    PROVE  First(M) = d
BY FirstIsLeast

\* In a well-formed table the slot that holds an address is the one found.
LEMMA OneSlot ==
    ASSUME TableWellFormed, NEW a, NEW d \in Slots,
           devices[d].active, devices[d].addr = a
    PROVE  IsKnown(a) /\ find_device(a) = d
<1>1. d \in MatchingSlots(a) /\ MatchingSlots(a) \subseteq Slots
  BY DEF MatchingSlots
<1>2. \A e \in MatchingSlots(a) : e = d
  BY DEF MatchingSlots, TableWellFormed
<1> QED
  BY <1>1, <1>2, OnlyMatch DEF IsKnown, find_device

\* The registry's counter of an address is the seq_num of its slot, before and
\* after a step.
LEMMA LastOfSlot ==
    ASSUME TableWellFormed, NEW a \in Addr, NEW d \in Slots,
           devices[d].active, devices[d].addr = a
    PROVE  RegistryLast[a] = devices[d].seq_num
BY OneSlot DEF RegistryLast

LEMMA LastOfSlotNext ==
    ASSUME TableWellFormed', NEW a \in Addr, NEW d \in Slots,
           devices'[d].active, devices'[d].addr = a
    PROVE  RegistryLast'[a] = devices'[d].seq_num
<1>1. d \in MatchingSlots(a)' /\ MatchingSlots(a)' \subseteq Slots
  BY DEF MatchingSlots
<1>2. \A e \in MatchingSlots(a)' : e = d
  BY DEF MatchingSlots, TableWellFormed
<1>3. First(MatchingSlots(a)') = d
  BY <1>1, <1>2, OnlyMatch
<1> QED
  BY <1>1, <1>3 DEF RegistryLast, IsKnown, find_device

\* The registry's members are the known addresses.
LEMMA MembersAreKnown ==
    ASSUME ReplayInv, NEW a \in Addr
    PROVE  RegistryLast[a] # -1 <=> IsKnown(a)
<1>1. CASE IsKnown(a)
  <2>1. find_device(a) \in Slots
    BY <1>1, FindDevice
  <2>2. devices[find_device(a)].seq_num \in Nat
    BY <2>1, DriverAssumption DEF ReplayInv, TypeOK, Device, Seqs
  <2> QED  BY <1>1, <2>2 DEF RegistryLast
<1>2. CASE ~IsKnown(a)
  BY <1>2 DEF RegistryLast
<1> QED
  BY <1>1, <1>2

\* A free slot means room in the registry: addresses and used slots are in
\* bijection, so members are as many as used slots.
LEMMA RoomInRegistry ==
    ASSUME ReplayInv, NEW d \in Slots, ~devices[d].active
    PROVE  Cardinality(Registry!Members) < k_max_devices
<1> DEFINE M == Registry!Members
           Used == {e \in Slots : devices[e].active}
           f == [a \in M |-> find_device(a)]
<1>1. M \subseteq Addr /\ \A a \in M : IsKnown(a)
  BY MembersAreKnown DEF Registry!Members, Registry!Absent
<1>2. \A a \in M : /\ find_device(a) \in Used
                   /\ devices[find_device(a)].addr = a
  BY <1>1, FindDevice
<1>3. f \in Injection(M, Used)
  BY <1>2 DEF Injection, IsInjective
<1>4. IsFiniteSet(Slots) /\ Cardinality(Slots) = k_max_devices
  BY FS_Interval, DriverAssumption DEF Slots
<1>5. /\ IsFiniteSet(Used)
      /\ Cardinality(Used) <= Cardinality(Slots)
      /\ Cardinality(Used) # Cardinality(Slots)
  BY <1>4, FS_Subset
<1>6. Cardinality(M) <= Cardinality(Used) /\ IsFiniteSet(M)
  BY <1>3, <1>5, FS_Injection
<1>7. Cardinality(M) \in Nat /\ Cardinality(Used) \in Nat
  BY <1>5, <1>6, FS_CardinalityType
<1> QED
  BY <1>4, <1>5, <1>6, <1>7, DriverAssumption

\* A step that leaves an address's slot and number alone leaves its counter.
LEMMA LastUnchanged ==
    ASSUME NEW b \in Addr, MatchingSlots(b)' = MatchingSlots(b),
           \A e \in MatchingSlots(b) : devices'[e].seq_num = devices[e].seq_num
    PROVE  RegistryLast'[b] = RegistryLast[b]
<1>1. CASE MatchingSlots(b) = {}
  BY <1>1 DEF RegistryLast, IsKnown
<1>2. CASE MatchingSlots(b) # {}
  <2>1. First(MatchingSlots(b)) \in MatchingSlots(b)
    BY <1>2, FirstIsLeast DEF MatchingSlots
  <2> QED  BY <1>2, <2>1 DEF RegistryLast, IsKnown, find_device
<1> QED
  BY <1>1, <1>2

\* The counters after an accepted telegram or a commissioning: the sender's is
\* the number received, the others are as before.
LEMMA LastAfterStep ==
    ASSUME ReplayInv, ReplayInv', NEW t \in Advert, NEW d \in Slots,
           AcceptStep(d, t) \/ JoinStep(d, t)
    PROVE  RegistryLast' = [RegistryLast EXCEPT ![t.addr] = t.payload.seq]
<1>1. /\ devices \in [Slots -> Device]
      /\ TableWellFormed'
      /\ t.addr \in Addr
  BY AdvertType DEF ReplayInv, TypeOK
<1>2. /\ devices'[d].active /\ devices'[d].addr = t.addr
      /\ devices'[d].seq_num = t.payload.seq
      /\ ~devices[d].active \/ devices[d].addr = t.addr
      /\ \A e \in Slots \ {d} : devices'[e] = devices[e]
  BY <1>1 DEF AcceptStep, Accepted, JoinStep, Device
<1>3. RegistryLast'[t.addr] = t.payload.seq
  BY <1>1, <1>2, LastOfSlotNext
<1>4. ASSUME NEW b \in Addr, b # t.addr
      PROVE  RegistryLast'[b] = RegistryLast[b]
  <2>1. d \notin MatchingSlots(b) /\ d \notin MatchingSlots(b)'
    BY <1>2, <1>4 DEF MatchingSlots
  <2>2. MatchingSlots(b)' = MatchingSlots(b)
    BY <1>2, <2>1 DEF MatchingSlots
  <2>3. \A e \in MatchingSlots(b) : devices'[e].seq_num = devices[e].seq_num
    BY <1>2, <2>1 DEF MatchingSlots
  <2> QED  BY <2>2, <2>3, LastUnchanged
<1> QED
  BY <1>1, <1>3, <1>4 DEF RegistryLast

LEMMA RegistryStep ==
    ASSUME ReplayInv, ReplayInv', [DriverStep]_vars
    PROVE  [Registry!Next]_<<RegistryLast, commissioning_enabled, log>>
<1>1. CASE init
  <2>1. \A d \in Slots : ~devices'[d].active
    BY <1>1, EmptyTable DEF init
  <2>2. \A a \in Addr : MatchingSlots(a)' = {}
    BY <2>1 DEF MatchingSlots
  <2>3. RegistryLast' = [a \in Addr |-> -1]
    BY <2>2 DEF RegistryLast, IsKnown
  <2> QED  BY <1>1, <2>3 DEF init, NoEvents, Registry!Next, Registry!Clear, Registry!Absent
<1>2. CASE enable_commissioning \/ disable_commissioning
  <2>1. devices' = devices /\ log' = log /\ commissioning_enabled' \in BOOLEAN
    BY <1>2 DEF enable_commissioning, disable_commissioning
  <2>2. RegistryLast' = RegistryLast
    BY <2>1 DEF RegistryLast, IsKnown, MatchingSlots, find_device
  <2> QED  BY <2>1, <2>2 DEF Registry!Next, Registry!SetOpen
<1>3. ASSUME NEW t \in Advert, process_advertisement(t)
      PROVE  [Registry!Next]_<<RegistryLast, commissioning_enabled, log>>
  <2>1. PICK d \in Slots : RejectStep(d, t) \/ AcceptStep(d, t) \/ JoinStep(d, t)
    BY <1>3, AdvertisementSteps
  <2>2. UNCHANGED commissioning_enabled
    BY <1>3, AdvertisementSteps
  <2>3. /\ t.addr \in Addr
        /\ t.payload.seq \in 0..UINT32_MAX
    BY AdvertType DEF Seqs
  <2>4. CASE RejectStep(d, t)
    <3>1. \A e \in Slots : /\ devices'[e].active = devices[e].active
                           /\ devices'[e].addr = devices[e].addr
                           /\ devices'[e].seq_num = devices[e].seq_num
      BY <2>4 DEF RejectStep, Rejected, ReplayInv, TypeOK, Device
    <3>2. \A b \in Addr : MatchingSlots(b)' = MatchingSlots(b)
      BY <3>1 DEF MatchingSlots
    <3>3. \A b \in Addr : RegistryLast'[b] = RegistryLast[b]
      BY <3>1, <3>2, LastUnchanged DEF MatchingSlots
    <3>4. RegistryLast' = RegistryLast
      BY <3>3 DEF RegistryLast
    <3> QED  BY <2>2, <2>4, <3>4 DEF RejectStep, Rejected
  <2>5. CASE AcceptStep(d, t)
    <3>1. devices[d].active /\ devices[d].addr = t.addr /\ t.payload.seq > devices[d].seq_num
      BY <2>5 DEF AcceptStep
    <3>2. RegistryLast[t.addr] = devices[d].seq_num
      BY <2>3, <3>1, LastOfSlot DEF ReplayInv
    <3>3. t.addr \in Registry!Members
      BY <2>3, <3>1, MembersAreKnown
      DEF Registry!Members, Registry!Absent, IsKnown, MatchingSlots
    <3>4. RegistryLast' = [RegistryLast EXCEPT ![t.addr] = t.payload.seq]
      BY <2>5, LastAfterStep
    <3>5. \/ Registry!Report(t.addr, "button", t.payload.seq)
          \/ Registry!Report(t.addr, "sensor", t.payload.seq)
          \/ log' = log
      BY <2>5 DEF AcceptStep, Told, Registry!Report
    <3>6. Registry!Accept(t.addr, t.payload.seq)
      BY <2>2, <3>1, <3>2, <3>3, <3>4, <3>5 DEF Registry!Accept
    <3> QED  BY <2>3, <3>6 DEF Registry!Next
  <2>6. CASE JoinStep(d, t)
    <3>1. commissioning_enabled /\ ~IsKnown(t.addr) /\ ~devices[d].active
      BY <2>6 DEF JoinStep
    <3>2. t.addr \notin Registry!Members
      BY <2>3, <3>1, MembersAreKnown DEF Registry!Members, Registry!Absent
    <3>3. Cardinality(Registry!Members) < k_max_devices
      BY <3>1, RoomInRegistry
    <3>4. RegistryLast' = [RegistryLast EXCEPT ![t.addr] = t.payload.seq]
      BY <2>6, LastAfterStep
    <3>5. Registry!Report(t.addr, "commissioned", t.payload.seq) \/ log' = log
      BY <2>6 DEF JoinStep, Told, Registry!Report
    <3>6. Registry!Cardinality(Registry!Members) = Cardinality(Registry!Members)
      BY Zenon DEF Registry!Cardinality, Cardinality
    <3>7. Registry!Join(t.addr, t.payload.seq)
      BY <2>2, <3>1, <3>2, <3>3, <3>4, <3>5, <3>6 DEF Registry!Join
    <3> QED  BY <2>3, <3>7 DEF Registry!Next
  <2> QED  BY <2>1, <2>4, <2>5, <2>6
<1>4. CASE UNCHANGED vars
  BY <1>4 DEF vars, RegistryLast, IsKnown, MatchingSlots, find_device
<1> QED
  BY <1>1, <1>2, <1>3, <1>4 DEF DriverStep

LEMMA RegistryInit == Init => Registry!Init
<1> SUFFICES ASSUME Init  PROVE Registry!Init
  OBVIOUS
<1>1. \A d \in Slots : ~devices[d].active
  BY EmptyTable DEF Init
<1>2. RegistryLast = [a \in Addr |-> -1]
  BY <1>1 DEF RegistryLast, IsKnown, MatchingSlots
<1> QED
  BY <1>2 DEF Init, NoEvents, Registry!Init, Registry!Absent

\* Every behaviour of the driver is a behaviour of the registry.
THEOREM DriverImplementsRegistry == Spec => ImplementsRegistry
BY RegistryInit, ReplayInvHolds, RegistryStep, NextIsDriverStep, PTL
   DEF Spec, ImplementsRegistry, Registry!Spec

-----------------------------------------------------------------------------
(* The running program: what is in the air is well typed, so each of its   *)
(* steps is a step of the driver or leaves the driver alone.               *)

LEMMA PlainType ==
    ASSUME SystemTypeOK, NEW a \in Addr
    PROVE  Plain(a) \in Payload /\ Plain(a).tag = BadTag /\ Plain(a).size = 9
<1>1. nodes[a].key \in Key
  BY DEF SystemTypeOK
<1>2. 0 \in Seqs /\ BadTag \in Tag
  BY DriverAssumption DEF Seqs, Tag
<1>3. 9 \in Nat /\ 0 \in {0, 4, 5} /\ TRUE \in BOOLEAN /\ FALSE \in BOOLEAN
  OBVIOUS
<1> QED
  BY <1>1, <1>2, <1>3 DEF Plain, Payload, k_data_payload_min

\* The envelope of a telegram.
LEMMA EnvelopeType ==
    ASSUME NEW a \in Addr, NEW s \in Seqs, NEW p \in Payload
    PROVE  /\ Telegram(a, s, p) \in Advert
           /\ Telegram(a, s, p).addr = a
           /\ Telegram(a, s, p).payload.tag = p.tag
           /\ Telegram(a, s, p).payload.size = p.size
<1> DEFINE q == [p EXCEPT !.seq = s]
<1>1. q \in Payload /\ q.tag = p.tag /\ q.size = p.size
  BY DEF Payload
<1>2. (CHOOSE r \in Rssi : TRUE) \in Rssi
  BY SystemAssumption
<1>3. k_addr_len \in Nat /\ k_addr_random \in 0..255 /\ k_adv_nonconn_ind \in 0..255
  BY DEF k_addr_len, k_addr_random, k_adv_nonconn_ind
<1> HIDE DEF q
<1>4. Telegram(a, s, p) =
        [addr |-> a, addr_size |-> k_addr_len, addr_type |-> k_addr_random,
         adv_type |-> k_adv_nonconn_ind, rssi |-> CHOOSE r \in Rssi : TRUE,
         payload |-> q]
  BY DEF Telegram, q
<1> QED
  BY <1>1, <1>2, <1>3, <1>4 DEF Advert

LEMMA TelegramType ==
    ASSUME SystemTypeOK, NEW a \in Addr, NEW s \in Seqs,
           NEW t \in {JoinTelegram(a, s), DataTelegram(a, s)}
    PROVE  /\ t \in Advert
           /\ t.payload.size >= k_commissioning_payload_min => ~IsData(t)
<1>1. Plain(a) \in Payload /\ Plain(a).tag = BadTag /\ Plain(a).size = 9
  BY PlainType
<1>2. CASE t = JoinTelegram(a, s)
  <2> DEFINE stm == [Plain(a) EXCEPT !.size = k_stm_commissioning_payload_len,
                                     !.marker = TRUE, !.keyAt = k_key_offset + 1]
             ptm == [Plain(a) EXCEPT !.size = k_commissioning_payload_min,
                                     !.keyAt = k_key_offset]
  <2>1. /\ k_stm_commissioning_payload_len \in Nat /\ k_commissioning_payload_min \in Nat
        /\ k_key_offset \in {0, 4, 5} /\ k_key_offset + 1 \in {0, 4, 5}
    BY DEF k_stm_commissioning_payload_len, k_commissioning_payload_min, k_key_offset
  <2>2. stm \in Payload /\ stm.tag = BadTag
    BY <1>1, <2>1 DEF Payload
  <2>3. ptm \in Payload /\ ptm.tag = BadTag
    BY <1>1, <2>1 DEF Payload
  <2>4. t = Telegram(a, s, stm) \/ t = Telegram(a, s, ptm)
    BY <1>2 DEF JoinTelegram
  <2> HIDE DEF stm, ptm
  <2> QED
    BY <2>2, <2>3, <2>4, EnvelopeType DEF IsData
<1>3. CASE t = DataTelegram(a, s)
  <2> DEFINE tag == [key |-> nodes[a].key, addr |-> a, seq |-> s]
             p == [Plain(a) EXCEPT !.tag = tag]
  <2>1. tag \in Tag
    BY DEF SystemTypeOK, Tag
  <2>2. t = Telegram(a, s, p)
    BY <1>3 DEF DataTelegram
  <2> HIDE DEF tag
  <2>3. p \in Payload /\ p.size = 9
    BY <1>1, <2>1 DEF Payload
  <2> HIDE DEF p
  <2> QED
    BY <2>2, <2>3, EnvelopeType DEF k_commissioning_payload_min
<1> QED
  BY <1>2, <1>3

\* A telegram received with an error is one the radio may hand over.
LEMMA CorruptedType ==
    ASSUME NEW t \in Advert
    PROVE  LET u == [t EXCEPT !.payload.tag = BadTag]
           IN  /\ u \in Advert
               /\ u.addr = t.addr
               /\ u.payload.seq = t.payload.seq
               /\ u.payload.size = t.payload.size
               /\ ~IsData(u)
<1>1. t.payload \in Payload
  BY DEF Advert
<1>2. [t.payload EXCEPT !.tag = BadTag] \in Payload
  BY <1>1 DEF Payload, Tag
<1> QED
  BY <1>1, <1>2 DEF Advert, Payload, IsData

\* The telegrams long enough to commission carry no valid tag.
AirInv == \A t \in air : t.payload.size >= k_commissioning_payload_min => ~IsData(t)

LEMMA SystemIsDriverStep ==
    ASSUME SystemTypeOK, [SystemNext]_systemVars
    PROVE  [DriverStep]_vars
<1>1. CASE Application
  BY <1>1 DEF Application, DriverInit, ScannerInit, StartScan, EnableCommissioning,
              DriverStep, vars
<1>2. ASSUME NEW a \in Addr, Transmit(a) \/ Reset(a)  PROVE UNCHANGED vars
  BY <1>2 DEF Transmit, Reset
<1>3. ASSUME NEW t \in air, Deliver(t) \/ DeliverCorrupted(t)  PROVE DriverStep
  <2>1. t \in Advert
    BY DEF SystemTypeOK
  <2> QED
    BY <1>3, <2>1, CorruptedType DEF Deliver, DeliverCorrupted, DriverStep
<1>4. CASE UNCHANGED systemVars
  BY <1>4 DEF systemVars
<1> QED
  BY <1>1, <1>2, <1>3, <1>4 DEF SystemNext

LEMMA SystemTypeStep ==
    ASSUME SystemTypeOK, AirInv, [SystemNext]_systemVars
    PROVE  SystemTypeOK' /\ AirInv'
<1>1. TypeOK'
  BY SystemIsDriverStep, TypeInvariantStep DEF SystemTypeOK
<1>2. CASE Application
  BY <1>1, <1>2 DEF Application, DriverInit, ScannerInit, StartScan, EnableCommissioning,
                    SystemTypeOK, AirInv
<1>3. ASSUME NEW a \in Addr, Transmit(a)  PROVE SystemTypeOK' /\ AirInv'
  <2> DEFINE s == nodes[a].counter + 1
  <2>1. s \in Seqs /\ nodes[a] \in [key : Key, counter : Seqs]
    BY <1>3, DriverAssumption DEF SystemTypeOK, Transmit, Seqs
  <2>2. nodes' \in [Addr -> [key : Key, counter : Seqs]]
    BY <1>3, <2>1 DEF SystemTypeOK, Transmit
  <2>3. PICK t \in {JoinTelegram(a, s), DataTelegram(a, s)} : air' = air \cup {t}
    BY <1>3 DEF Transmit
  <2> HIDE DEF s
  <2>4. t \in Advert /\ (t.payload.size >= k_commissioning_payload_min => ~IsData(t))
    BY <2>1, <2>3, TelegramType
  <2>5. air' \subseteq Advert /\ AirInv'
    BY <2>3, <2>4 DEF SystemTypeOK, AirInv, IsData
  <2> QED
    BY <1>1, <1>3, <2>2, <2>5 DEF SystemTypeOK, Transmit
<1>4. ASSUME NEW a \in Addr, Reset(a)  PROVE SystemTypeOK' /\ AirInv'
  <2>1. nodes' \in [Addr -> [key : Key, counter : Seqs]]
    BY <1>4, DriverAssumption DEF SystemTypeOK, Reset, Seqs
  <2>2. resets' \in 0..MaxResets
    BY <1>4, SystemAssumption DEF SystemTypeOK, Reset
  <2> QED
    BY <1>1, <1>4, <2>1, <2>2 DEF SystemTypeOK, AirInv, IsData, Reset
<1>5. ASSUME NEW t \in air, Deliver(t) \/ DeliverCorrupted(t)
      PROVE  SystemTypeOK' /\ AirInv'
  BY <1>1, <1>5 DEF Deliver, DeliverCorrupted, SystemTypeOK, AirInv, IsData
<1>6. CASE UNCHANGED systemVars
  BY <1>1, <1>6 DEF systemVars, SystemTypeOK, AirInv, IsData
<1> QED
  BY <1>2, <1>3, <1>4, <1>5, <1>6 DEF SystemNext

LEMMA SystemTypeInit == SystemInit => SystemTypeOK /\ AirInv
<1> SUFFICES ASSUME SystemInit  PROVE SystemTypeOK /\ AirInv
  OBVIOUS
<1>1. TypeOK
  BY EmptyTableType DEF SystemInit, Init, TypeOK
<1>2. nodes \in [Addr -> [key : Key, counter : Seqs]]
  BY DriverAssumption DEF SystemInit, Seqs
<1>3. resets \in 0..MaxResets
  BY SystemAssumption DEF SystemInit
<1> QED
  BY <1>1, <1>2, <1>3 DEF SystemInit, SystemTypeOK, AirInv

\* What every proof about the running program starts from.
LEMMA SystemTypeHolds == SystemSpec => [](SystemTypeOK /\ AirInv)
<1>1. SystemTypeOK /\ AirInv /\ [SystemNext]_systemVars => (SystemTypeOK /\ AirInv)'
  BY SystemTypeStep
<1> QED
  BY <1>1, SystemTypeInit, PTL DEF SystemSpec

\* Whatever the transmitters send, repeat or are reset to, and in whatever order
\* the two threads run: the program's state keeps its type.
THEOREM SystemTypeCorrect == SystemSpec => []SystemTypeOK
BY SystemTypeHolds, PTL

LEMMA SystemReplayInv == SystemSpec => [](ReplayInv /\ Announced)
<1>1. SystemInit => ReplayInv /\ Announced
  BY ReplayInvInit, AnnouncedInit DEF SystemInit
<1>2. SystemTypeOK /\ ReplayInv /\ Announced /\ [SystemNext]_systemVars
        => (ReplayInv /\ Announced)'
  BY SystemIsDriverStep, ReplayInvStep, AnnouncedStep
<1> QED
  BY <1>1, <1>2, SystemTypeHolds, PTL DEF SystemSpec

\* What the driver promises under any traffic it keeps in the running program,
\* with its two threads and its transmitters.
THEOREM SystemKeepsPromises ==
    SystemSpec => [](TableWellFormed /\ NoReplay /\ LogMatchesTable)
<1>1. ReplayInv /\ Announced => TableWellFormed /\ NoReplay /\ LogMatchesTable
  BY LogMatchesFromInv DEF ReplayInv
<1> QED
  BY <1>1, SystemReplayInv, PTL

\* The running program, with its threads, transmitters and radio, implements the
\* registry: steps outside the driver change nothing the application sees.
THEOREM SystemImplementsRegistry == SystemSpec => ImplementsRegistry
<1>1. SystemInit => Registry!Init
  BY RegistryInit DEF SystemInit
<1>2. ReplayInv /\ ReplayInv' /\ SystemTypeOK /\ [SystemNext]_systemVars
        => [Registry!Next]_<<RegistryLast, commissioning_enabled, log>>
  BY SystemIsDriverStep, RegistryStep
<1> QED
  BY <1>1, <1>2, SystemReplayInv, SystemTypeHolds, PTL
     DEF SystemSpec, ImplementsRegistry, Registry!Spec

-----------------------------------------------------------------------------
(* Before commissioning is enabled.  The table being empty is not enough:  *)
(* the step after it must not be a commissioning.                          *)

QuietInv ==
    /\ QuietUntilEnabled
    /\ app # "loop" => ~commissioning_enabled

LEMMA QuietStep ==
    ASSUME SystemTypeOK, QuietInv, [SystemNext]_systemVars
    PROVE  QuietInv'
<1>1. CASE DriverInit
  <2>1. log' = NoEvents /\ ~commissioning_enabled' /\ \A d \in Slots : ~devices'[d].active
    BY <1>1, EmptyTable DEF DriverInit, init
  <2>2. NoEvents' = NoEvents
    BY DEF NoEvents
  <2> QED  BY <2>1, <2>2 DEF QuietInv, QuietUntilEnabled
<1>2. CASE ScannerInit \/ StartScan
  BY <1>2 DEF ScannerInit, StartScan, QuietInv, QuietUntilEnabled, vars, NoEvents
<1>3. CASE EnableCommissioning
  BY <1>3 DEF EnableCommissioning, QuietInv, QuietUntilEnabled
<1>4. ASSUME NEW a \in Addr, Transmit(a) \/ Reset(a)  PROVE QuietInv'
  BY <1>4 DEF Transmit, Reset, QuietInv, QuietUntilEnabled, vars, NoEvents
<1>5. ASSUME NEW u \in Advert, Deliver(u)  PROVE QuietInv'
  <2>1. process_advertisement(u) /\ app' = app
    BY <1>5 DEF Deliver
  <2>2. UNCHANGED commissioning_enabled
    BY <2>1 DEF process_advertisement
  <2>3. PICK d \in Slots : RejectStep(d, u) \/ AcceptStep(d, u) \/ JoinStep(d, u)
    BY <2>1, AdvertisementSteps
  <2>4. CASE RejectStep(d, u)
    <3>1. log' = log /\ \A e \in Slots : devices'[e].active = devices[e].active
      BY <2>4, RejectKeeps DEF SystemTypeOK
    <3> QED  BY <2>1, <2>2, <3>1 DEF QuietInv, QuietUntilEnabled, NoEvents
  <2>5. CASE AcceptStep(d, u)
    <3>1. app = "loop"
      BY <2>5 DEF AcceptStep, QuietInv, QuietUntilEnabled
    <3> QED  BY <2>1, <3>1 DEF QuietInv, QuietUntilEnabled
  <2>6. CASE JoinStep(d, u)
    <3>1. app = "loop"
      BY <2>6 DEF JoinStep, QuietInv
    <3> QED  BY <2>1, <3>1 DEF QuietInv, QuietUntilEnabled
  <2> QED  BY <2>3, <2>4, <2>5, <2>6
<1>6. ASSUME NEW t \in air, Deliver(t) \/ DeliverCorrupted(t)  PROVE QuietInv'
  <2>1. t \in Advert
    BY DEF SystemTypeOK
  <2> QED
    BY <1>5, <1>6, <2>1, CorruptedType DEF DeliverCorrupted
<1>7. CASE UNCHANGED systemVars
  BY <1>7 DEF systemVars, vars, QuietInv, QuietUntilEnabled, NoEvents
<1> QED
  BY <1>1, <1>2, <1>3, <1>4, <1>6, <1>7 DEF SystemNext, Application

\* Between start_scan and enable_commissioning, and after any failed start,
\* nothing the radio delivers leaves a trace in the driver.
THEOREM SystemQuiet == SystemSpec => []QuietUntilEnabled
<1>1. SystemInit => QuietInv
  BY EmptyTable DEF SystemInit, Init, QuietInv, QuietUntilEnabled
<1>2. SystemTypeOK /\ QuietInv /\ [SystemNext]_systemVars => QuietInv'
  BY QuietStep
<1>3. QuietInv => QuietUntilEnabled
  BY DEF QuietInv
<1> QED
  BY <1>1, <1>2, <1>3, SystemTypeHolds, PTL DEF SystemSpec

-----------------------------------------------------------------------------
(* Every event was sent.                                                   *)

\* The key a known device was given does not change with what arrives.
LEMMA KeyKept ==
    ASSUME TypeOK, NEW u \in Advert, process_advertisement(u), NEW a, IsKnown(a)
    PROVE  find_device(a)' = find_device(a)
           /\ devices'[find_device(a)].key = devices[find_device(a)].key
<1>1. PICK d \in Slots : RejectStep(d, u) \/ AcceptStep(d, u) \/ JoinStep(d, u)
  BY AdvertisementSteps
<1>2. find_device(a) \in Slots /\ devices[find_device(a)].active
  BY FindDevice
<1>3. CASE RejectStep(d, u) \/ AcceptStep(d, u)
  <2>1. MatchingSlots(a)' = MatchingSlots(a)
    BY <1>3, RejectKeeps, AcceptKeeps
  <2>2. devices'[find_device(a)].key = devices[find_device(a)].key
    BY <1>2, <1>3, RejectKeeps, AcceptKeeps
  <2> QED  BY <2>1, <2>2 DEF find_device
<1>4. CASE JoinStep(d, u)
  <2>1. a # u.addr /\ d # find_device(a)
    BY <1>2, <1>4 DEF JoinStep
  <2>2. MatchingSlots(a)' = MatchingSlots(a)
    BY <1>4, <2>1, JoinKeeps
  <2>3. devices'[find_device(a)] = devices[find_device(a)]
    BY <1>2, <1>4, <2>1, JoinKeeps
  <2> QED  BY <2>2, <2>3 DEF find_device
<1> QED
  BY <1>1, <1>3, <1>4

\* What EventsGenuine says of one event ev of the address a, whose slot holds
\* the key k.
Sent(a, ev, k) ==
    \E t \in air :
        /\ t.addr = a
        /\ t.payload.seq = ev.seq
        /\ IsData(t) <=> ev.kind # "commissioned"
        /\ IsData(t) => t.payload.tag.key = k

\* Receiving u, which is in the air or is what an error left of such a telegram.
LEMMA ReceivedGenuine ==
    ASSUME ReplayInv, EventsGenuine, NEW u \in Advert, process_advertisement(u),
           air' = air,
           IsData(u) => u \in air,
           u.payload.size >= k_commissioning_payload_min =>
             \E t \in air : t.addr = u.addr /\ t.payload.seq = u.payload.seq /\ ~IsData(t)
    PROVE  EventsGenuine'
<1> SUFFICES ASSUME NEW a \in Addr, NEW i \in DOMAIN log'[a]
             PROVE  Sent(a, log'[a][i], devices'[find_device(a)'].key)
  BY DEF EventsGenuine, Sent
<1>1. TypeOK
  BY DEF ReplayInv
<1>2. PICK d \in Slots : RejectStep(d, u) \/ AcceptStep(d, u) \/ JoinStep(d, u)
  BY AdvertisementSteps
<1>3. ASSUME i \in DOMAIN log[a], log'[a][i] = log[a][i]
      PROVE  Sent(a, log'[a][i], devices'[find_device(a)'].key)
  <2>1. IsKnown(a)
    <3>1. log[a] # <<>>
      BY <1>3
    <3> QED  BY <3>1 DEF ReplayInv, LogBehindTable
  <2>2. /\ find_device(a)' = find_device(a)
        /\ devices'[find_device(a)].key = devices[find_device(a)].key
    BY <1>1, <2>1, KeyKept
  <2>3. Sent(a, log[a][i], devices[find_device(a)].key)
    BY <1>3 DEF EventsGenuine, Sent
  <2> QED
    BY <1>3, <2>2, <2>3
<1>4. CASE log' = log
  BY <1>3, <1>4
<1>5. ASSUME NEW k \in Kind, log' = Told(u, k),
             ~(i \in DOMAIN log[a] /\ log'[a][i] = log[a][i])
      PROVE  a = u.addr /\ log'[a][i].seq = u.payload.seq /\ log'[a][i].kind = k
  <2>1. a = u.addr
    BY <1>1, <1>5, ToldEvents
  <2>2. i = Len(log[u.addr]) + 1
    BY <1>1, <1>5, <2>1, ToldEvents
  <2> QED
    BY <1>1, <1>5, <2>1, <2>2, ToldEvents
<1>6. ASSUME AcceptStep(d, u), NEW k \in {"button", "sensor"}, log' = Told(u, k),
             ~(i \in DOMAIN log[a] /\ log'[a][i] = log[a][i])
      PROVE  Sent(a, log'[a][i], devices'[find_device(a)'].key)
  <2>1. k \in Kind /\ k # "commissioned"
    BY DEF Kind
  <2>2. a = u.addr /\ log'[a][i].seq = u.payload.seq /\ log'[a][i].kind = k
    BY <1>5, <1>6, <2>1
  <2>3. u.payload.tag = [key |-> devices[d].key, addr |-> devices[d].addr,
                         seq |-> u.payload.seq]
    BY <1>6 DEF AcceptStep, aes_ccm_decrypt
  <2>4. devices[d].active /\ devices[d].addr = a /\ devices[d].key \in StoredKey
    BY <1>1, <1>6, <2>2 DEF AcceptStep, TypeOK, Device
  <2>5. u.payload.tag \in [key : StoredKey, addr : Addr, seq : Seqs]
    BY <2>3, <2>4, AdvertType
  <2>6. IsData(u) /\ u.payload.tag.key = devices[d].key
    BY <2>3, <2>5, SystemAssumption DEF IsData
  <2>7. find_device(a) = d /\ IsKnown(a)
    BY <2>4, OneSlot DEF ReplayInv
  <2>8. devices'[find_device(a)'].key = devices[d].key
    BY <1>1, <2>7, KeyKept
  <2>9. u \in air
    BY <2>6
  <2> QED
    BY <2>1, <2>2, <2>6, <2>8, <2>9 DEF Sent
<1>7. ASSUME JoinStep(d, u), log' = Told(u, "commissioned"),
             ~(i \in DOMAIN log[a] /\ log'[a][i] = log[a][i])
      PROVE  Sent(a, log'[a][i], devices'[find_device(a)'].key)
  <2>1. /\ a = u.addr /\ log'[a][i].seq = u.payload.seq
        /\ log'[a][i].kind = "commissioned"
    BY <1>5, <1>7 DEF Kind
  <2>2. PICK t \in air : t.addr = u.addr /\ t.payload.seq = u.payload.seq /\ ~IsData(t)
    BY <1>7 DEF JoinStep
  <2> QED
    BY <2>1, <2>2 DEF Sent
<1>8. CASE RejectStep(d, u)
  BY <1>1, <1>4, <1>8, RejectKeeps
<1>9. CASE AcceptStep(d, u)
  BY <1>3, <1>4, <1>6, <1>9 DEF AcceptStep
<1>10. CASE JoinStep(d, u)
  BY <1>3, <1>4, <1>7, <1>10 DEF JoinStep
<1> QED
  BY <1>2, <1>8, <1>9, <1>10

LEMMA GenuineStep ==
    ASSUME SystemTypeOK, AirInv, ReplayInv, EventsGenuine, [SystemNext]_systemVars
    PROVE  EventsGenuine'
<1>1. ASSUME UNCHANGED <<devices, log>>, air \subseteq air'  PROVE EventsGenuine'
  BY <1>1 DEF EventsGenuine, IsData, find_device, MatchingSlots
<1>2. CASE DriverInit
  <2>1. \A a \in Addr : log'[a] = <<>>
    BY <1>2 DEF DriverInit, init, NoEvents
  <2>2. DOMAIN << >> = {}
    OBVIOUS
  <2> QED  BY <2>1, <2>2 DEF EventsGenuine
<1>3. CASE ScannerInit \/ StartScan \/ EnableCommissioning
  BY <1>1, <1>3 DEF ScannerInit, StartScan, EnableCommissioning, enable_commissioning, vars
<1>4. ASSUME NEW a \in Addr, Transmit(a) \/ Reset(a)  PROVE EventsGenuine'
  BY <1>1, <1>4 DEF Transmit, Reset, vars
<1>5. ASSUME NEW t \in air, Deliver(t)  PROVE EventsGenuine'
  <2>1. t \in Advert /\ process_advertisement(t) /\ air' = air
    BY <1>5 DEF SystemTypeOK, Deliver
  <2>2. t.payload.size >= k_commissioning_payload_min => ~IsData(t)
    BY DEF AirInv
  <2> QED  BY <2>1, <2>2, ReceivedGenuine
<1>6. ASSUME NEW t \in air, DeliverCorrupted(t)  PROVE EventsGenuine'
  <2> DEFINE u == [t EXCEPT !.payload.tag = BadTag]
  <2>1. t \in Advert /\ process_advertisement(u) /\ air' = air
    BY <1>6 DEF SystemTypeOK, Deliver, DeliverCorrupted
  <2>2. /\ u \in Advert /\ ~IsData(u) /\ u.addr = t.addr
        /\ u.payload.seq = t.payload.seq /\ u.payload.size = t.payload.size
    BY <2>1, CorruptedType
  <2>3. t.payload.size >= k_commissioning_payload_min => ~IsData(t)
    BY DEF AirInv
  <2> HIDE DEF u
  <2> QED  BY <2>1, <2>2, <2>3, ReceivedGenuine
<1>7. CASE UNCHANGED systemVars
  BY <1>1, <1>7 DEF systemVars, vars
<1> QED
  BY <1>2, <1>3, <1>4, <1>5, <1>6, <1>7 DEF SystemNext, Application

\* The application hears of nothing that was not sent, and of no data but what
\* carries the tag of the key its device was announced with, for any number of
\* transmitters, telegrams, repetitions, receive errors and resets.
THEOREM SystemEventsGenuine == SystemSpec => []EventsGenuine
<1>1. SystemInit => EventsGenuine
  <2> SUFFICES ASSUME SystemInit  PROVE EventsGenuine
    OBVIOUS
  <2>1. \A a \in Addr : log[a] = <<>>
    BY DEF SystemInit, Init, NoEvents
  <2>2. DOMAIN << >> = {}
    OBVIOUS
  <2> QED  BY <2>1, <2>2 DEF EventsGenuine
<1>2. SystemTypeOK /\ AirInv /\ ReplayInv /\ EventsGenuine /\ [SystemNext]_systemVars
        => EventsGenuine'
  BY GenuineStep
<1> QED
  BY <1>1, <1>2, SystemTypeHolds, SystemReplayInv, PTL DEF SystemSpec

=============================================================================
