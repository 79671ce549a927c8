------------------------------ MODULE SensorTlv ------------------------------
(***************************************************************************)
(* The decoding loop of EnoceanDriver::handle_sensor: the authenticated    *)
(* sensor bytes (payload without sequence number and tag) are a list of    *)
(* type-length-value entries, each opened by a header byte of two size     *)
(* bits and a six-bit type.  One step is one iteration of the loop.        *)
(***************************************************************************)
EXTENDS Integers, Sequences

CONSTANT Inputs   \* what sensors send

Byte == 0..255

k_tlv_size_var == 3
k_tlv_type_optional == 60
k_tlv_type_commissioning == 62
\* Faulty variant: the block without its marker.
k_tlv_commissioning_block_Short == 21

k_tlv_commissioning_block == 22

(***************************************************************************)
(* An input is the bytes received together with what the sensor meant by   *)
(* them: for each entry it wrote, the measurements the entry carries and   *)
(* the offset at which it ends.  The bytes may be cut short anywhere.      *)
(***************************************************************************)
ASSUME TlvAssumption ==
    \A x \in Inputs : x.size \in Nat /\ x.bytes \in [0..(x.size - 1) -> Byte]

VARIABLES
    sent,          \* the sensor's entries (history, never read by the loop)
    sensor_bytes,  \* the bytes, counted from 0
    size,          \* sensor_bytes.size()
    j,             \* the read position
    sensor_data,   \* the measurements present so far, by name
    parsing        \* FALSE once the sensor callback has been made

vars == <<sent, sensor_bytes, size, j, sensor_data, parsing>>

NoData == [f \in {} |-> 0]

Init ==
    /\ \E x \in Inputs : 
         sent = x.sent /\ size = x.size /\ sensor_bytes = x.bytes
    /\ j = 0
    /\ sensor_data = NoData
    /\ parsing = TRUE

-----------------------------------------------------------------------------

type_id == sensor_bytes[j] % 64
size_bits == sensor_bytes[j] \div 64
val_len == <<1, 2, 4, 8>>[size_bits + 1]   \* 1 << size_bits

\* The 32-bit value is kept as its low 24 bits and its high byte; a byte the
\* entry does not have counts as zero.
ValueByte(b) == IF b < val_len THEN sensor_bytes[j + 1 + b] ELSE 0
LittleEndian(a, b, c) == a + 256 * b + 65536 * c
Low24 == LittleEndian(ValueByte(0), ValueByte(1), ValueByte(2))
High8 == ValueByte(3)

int16(v) == IF v >= 32768 THEN v - 65536 ELSE v

\* Bits 29..20, 19..10 and 9..0 of the value, with offset 512.
AccelX == (High8 % 64) * 16 + (Low24 \div 1048576) - 512
AccelY == ((Low24 \div 1024) % 1024) - 512
AccelZ == (Low24 % 1024) - 512

\* The type of entry that sets each member of SensorData, and what it sets the
\* member to.
MemberType ==
    [temperature_cdeg |-> 0, battery_voltage |-> 1, energy_lvl |-> 2,
     light_solar_cell |-> 4, light_sensor |-> 5, humidity |-> 6,
     accel_status |-> 10, accel_x_cg |-> 10, accel_y_cg |-> 10,
     accel_z_cg |-> 10, occupancy |-> 32, contact |-> 35]

MemberValue ==
    [temperature_cdeg |-> int16(Low24 % 65536),
     battery_voltage  |-> (Low24 \div 2) % 65536,
     energy_lvl       |-> (Low24 \div 2) % 256,
     light_solar_cell |-> Low24 % 65536,
     light_sensor     |-> Low24 % 65536,
     humidity         |-> (Low24 % 256) \div 2,
     accel_status     |-> High8 \div 64,
     accel_x_cg       |-> AccelX,
     accel_y_cg       |-> AccelY,
     accel_z_cg       |-> AccelZ,
     occupancy        |-> IF Low24 = 2 /\ High8 = 0 THEN 1 ELSE 0,
     contact          |-> IF Low24 % 256 = 2 THEN 1 ELSE 0]

\* The members an entry sets: none for an unknown type, and an acceleration
\* only from four bytes.
Measured ==
    [f \in {m \in DOMAIN MemberType :
              MemberType[m] = type_id /\ (type_id = 10 => val_len = 4)} |->
       MemberValue[f]]

\* Faulty variant: each entry starts a new sensor_data.
Updated_Fresh(m) == m

\* sensor_data with the members of m set.
Updated(m) ==
    [f \in DOMAIN sensor_data \cup DOMAIN m |->
       IF f \in DOMAIN m THEN m[f] ELSE sensor_data[f]]

IsVariable == size_bits = k_tlv_size_var \/ type_id = k_tlv_type_optional

\* break, or the end of the loop: the sensor callback is made.
Finish ==
    /\ parsing' = FALSE
    /\ UNCHANGED <<sent, sensor_bytes, size, j, sensor_data>>

Advance(k) ==
    /\ j' = k
    /\ UNCHANGED <<sent, sensor_bytes, size, parsing>>

EndOfData ==
    /\ parsing
    /\ j >= size
    /\ Finish

SkipCommissioning ==
    /\ parsing
    /\ j < size
    /\ type_id = k_tlv_type_commissioning
    /\ Advance(IF j + 1 + k_tlv_commissioning_block <= size
                 THEN j + 1 + k_tlv_commissioning_block
                 ELSE size)
    /\ UNCHANGED sensor_data

\* Faulty variants: the claimed length is believed; the two bytes of the header
\* are not counted.
SkipVariable_Unbounded ==
    /\ parsing
    /\ j < size
    /\ type_id # k_tlv_type_commissioning
    /\ IsVariable
    /\ IF j + 1 >= size
         THEN Finish
         ELSE Advance(j + 2 + sensor_bytes[j + 1]) /\ UNCHANGED sensor_data
SkipVariable_NoHeader ==
    /\ parsing
    /\ j < size
    /\ type_id # k_tlv_type_commissioning
    /\ IsVariable
    /\ IF j + 1 >= size \/ sensor_bytes[j + 1] > size - (j + 2)
         THEN Finish
         ELSE Advance(j + sensor_bytes[j + 1]) /\ UNCHANGED sensor_data

SkipVariable ==
    /\ parsing
    /\ j < size
    /\ type_id # k_tlv_type_commissioning
    /\ IsVariable
    /\ IF j + 1 >= size \/ sensor_bytes[j + 1] > size - (j + 2)
         THEN Finish
         ELSE Advance(j + 2 + sensor_bytes[j + 1]) /\ UNCHANGED sensor_data

ReadValue ==
    /\ parsing
    /\ j < size
    /\ type_id # k_tlv_type_commissioning
    /\ ~IsVariable
    /\ IF j + 1 + val_len > size
         THEN Finish
         ELSE /\ Advance(j + 1 + val_len)
              /\ sensor_data' = Updated(Measured)

Next == EndOfData \/ SkipCommissioning \/ SkipVariable \/ ReadValue

\* The loop is straight-line code of one thread: it runs on until it ends.
Spec == Init /\ [][Next]_vars /\ WF_vars(Next)

-----------------------------------------------------------------------------
(* Properties.                                                             *)

MemberMin ==
    [temperature_cdeg |-> -32768, battery_voltage |-> 0, energy_lvl |-> 0,
     light_solar_cell |-> 0, light_sensor |-> 0, humidity |-> 0,
     accel_status |-> 0, accel_x_cg |-> -512, accel_y_cg |-> -512,
     accel_z_cg |-> -512, occupancy |-> 0, contact |-> 0]

MemberMax ==
    [temperature_cdeg |-> 32767, battery_voltage |-> 65535, energy_lvl |-> 255,
     light_solar_cell |-> 65535, light_sensor |-> 65535, humidity |-> 127,
     accel_status |-> 3, accel_x_cg |-> 511, accel_y_cg |-> 511,
     accel_z_cg |-> 511, occupancy |-> 1, contact |-> 1]

Fits(f, v) ==
    /\ f \in DOMAIN MemberType
    /\ v \in Int
    /\ MemberMin[f] <= v
    /\ v <= MemberMax[f]

\* The read position never leaves the sensor bytes, so that no later entry is
\* read beyond them, and no entry is decoded into a value its member's C++
\* type cannot hold (the static_casts of the switch).
TypeOK ==
    /\ size \in Nat
    /\ sensor_bytes \in [0..(size - 1) -> Byte]
    /\ j \in 0..size
    /\ \A f \in DOMAIN sensor_data : Fits(f, sensor_data[f])
    /\ parsing \in BOOLEAN

\* The encoding, from the measurements towards the bytes.  A 10-10-10
\* acceleration with status st, least significant byte first.
AccelBytes(st, x, y, z) ==
    LET a == x + 512
        b == y + 512
        c == z + 512
    IN  <<c % 256, (c \div 256) + 4 * (b % 64), (b \div 64) + 16 * (a % 16),
          (a \div 16) + 64 * st>>

Between(v, min, max) == v \in Int /\ min <= v /\ v <= max

\* The value of low 24 bits lo and high byte hi is one that a sensor writes for
\* the measurement v of member f: in two's complement, in half units, or with
\* 2 for yes.
Writes(f, v, lo, hi) ==
    /\ f = "temperature_cdeg" => Between(v, -32768, 32767) /\ lo % 65536 = v % 65536
    /\ f = "battery_voltage" => Between(v, 0, 65535) /\ lo % 131072 \in {2 * v, 2 * v + 1}
    /\ f = "energy_lvl" => Between(v, 0, 255) /\ lo % 512 \in {2 * v, 2 * v + 1}
    /\ f \in {"light_solar_cell", "light_sensor"} => lo % 65536 = v
    /\ f = "humidity" => Between(v, 0, 127) /\ lo % 256 \in {2 * v, 2 * v + 1}
    /\ f = "occupancy" => v \in {0, 1} /\ (v = 1 <=> lo = 2 /\ hi = 0)
    /\ f = "contact" => v \in {0, 1} /\ (v = 1 <=> lo % 256 = 2)

\* The len bytes of b behind offset at are a value of this type that means m.
Encodes(m, type, len, b, at) ==
    LET v(c) == IF c < len THEN b[at + 1 + c] ELSE 0
    IN  /\ DOMAIN m = {f \in DOMAIN MemberType :
                         MemberType[f] = type /\ (type = 10 => len = 4)}
        /\ \A f \in DOMAIN m : Writes(f, m[f], LittleEndian(v(0), v(1), v(2)), v(3))
        /\ type = 10 /\ len = 4 =>
             /\ Between(m["accel_status"], 0, 3)
             /\ \A f \in {"accel_x_cg", "accel_y_cg", "accel_z_cg"} : Between(m[f], -512, 511)
             /\ <<v(0), v(1), v(2), v(3)>> =
                  AccelBytes(m["accel_status"], m["accel_x_cg"], m["accel_y_cg"],
                             m["accel_z_cg"])

\* The n bytes b hold the entry e from offset at on, as far as they go: a
\* header of size bits and type, and behind it a commissioning block, a counted
\* number of bytes that mean nothing here, or a value.
Holds(e, bits, type, n, b, at) ==
    /\ b[at] = 64 * bits + type
    /\ \/ /\ type = k_tlv_type_commissioning
          /\ e.end = at + 23 /\ DOMAIN e.means = {}
       \/ /\ type # k_tlv_type_commissioning
          /\ bits = k_tlv_size_var \/ type = k_tlv_type_optional
          /\ e.end >= at + 2 /\ DOMAIN e.means = {}
          /\ at + 1 < n => b[at + 1] = e.end - at - 2
       \/ /\ type \notin {k_tlv_type_commissioning, k_tlv_type_optional}
          /\ bits # k_tlv_size_var
          /\ \E len \in {1, 2, 4} :
               /\ <<bits, len>> \in {<<0, 1>>, <<1, 2>>, <<2, 4>>}
               /\ e.end = at + 1 + len
               /\ e.end <= n => Encodes(e.means, type, len, b, at)

\* The n bytes b carry the entries s, as far as they were not cut off, one
\* after the other from offset 0 on and nothing behind the last.
At(s, k) == IF k = 1 THEN 0 ELSE s[k - 1].end
Carries(s, n, b) ==
    /\ Len(s) \in Nat /\ DOMAIN s = 1..Len(s)
    /\ \A k \in DOMAIN s : s[k].end \in Nat /\ At(s, k) < s[k].end
    /\ \A k, m \in DOMAIN s : m < k => s[m].end <= At(s, k)
    /\ \A k \in DOMAIN s : At(s, k) < n =>
         \E bits \in 0..3, type \in 0..63 : Holds(s[k], bits, type, n, b, At(s, k))
    /\ n <= At(s, Len(s) + 1)

\* If the bytes carry the entries the sensor wrote, the callback delivers what
\* it meant: of the entries that arrived whole, the last one for each
\* measurement, and nothing from an entry that was cut off, from a
\* variable-length entry or from a commissioning block.
Complete == {k \in DOMAIN sent : sent[k].end <= size}
Meant ==
    [f \in UNION {DOMAIN sent[k].means : k \in Complete} |->
       LET last == CHOOSE k \in Complete :
                     /\ f \in DOMAIN sent[k].means
                     /\ \A m \in Complete : f \in DOMAIN sent[m].means => m <= k
       IN  sent[last].means[f]]

Decoded == ~parsing => sensor_data = Meant

\* Every iteration that does not leave the loop consumes at least the header
\* (so the loop ends after at most size iterations), never goes backwards and
\* never forgets a measurement.
Progress ==
    [][ /\ parsing' => j' > j
        /\ DOMAIN sensor_data \subseteq DOMAIN sensor_data' ]_vars

\* The sensor callback is made for every authenticated report.
CallbackMade == <>~parsing

=============================================================================
